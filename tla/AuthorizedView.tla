--------------------------- MODULE AuthorizedView ---------------------------
(***************************************************************************)
(* What an accepted proof promises: over the committed snapshot, the       *)
(* answer is the top k of the authorized view of the NProbe lists nearest  *)
(* to the query.  Only when the view has fewer than k objects do other     *)
(* slots follow, after all of the view.  Two things a reader might expect  *)
(* of the view are not promised: an object whose distance is the sentinel  *)
(* is not told from a hidden one, and object 0, whose id padding has, may  *)
(* be left out by a prover although its label is committed.                *)
(***************************************************************************)
EXTENDS Integers, FiniteSets

CONSTANTS Lists, N, NProbe, TopK, Visible,
          DMax  \* the sentinel

VARIABLES index, center_dis, layout, \* the snapshot, the query, the circuit
          answer                     \* <<>> until an answer is given

vars == <<index, center_dis, layout, answer>>

SlotsOf(S)    == S \X (1 .. N)
Content(s)    == index[s[1]][s[2]]
Candidates(S) == {s \in SlotsOf(S) : Content(s).valid = 1 /\ Content(s).dis < DMax}
Allowed(S)    == {s \in Candidates(S) : Content(s).label \in Visible}

Nearest(S) ==
  /\ Cardinality(S) = NProbe
  /\ \A a \in S, b \in Lists \ S : center_dis[a] <= center_dis[b]

(* The view an answer may be given for.  Labels that are not committed are *)
(* the prover's word.                                                      *)
IsView(V, S) ==
  CASE layout = "all_visible" -> V = Candidates(S)
    [] layout = "policy"      -> V \subseteq Candidates(S)
    [] OTHER                  -> /\ V \subseteq Allowed(S)
                                 /\ \A s \in Allowed(S) \ V : Content(s).item = 0

Selections(S) ==
  {f \in [1 .. TopK -> SlotsOf(S)] : \A j, k \in 1 .. TopK : f[j] = f[k] => j = k}

(* The selection f takes the view's slots first, nearest first, and leaves *)
(* none of them out for a farther one.                                     *)
SelectsNearest(f, V) ==
  /\ \A k \in 1 .. TopK : f[k] \in V <=> k <= Cardinality(V)
  /\ \A j, k \in 1 .. TopK :
       j <= k /\ f[k] \in V => Content(f[j]).dis <= Content(f[k]).dis
  /\ \A v \in V, k \in 1 .. TopK :
       f[k] \in V /\ (\A j \in 1 .. TopK : f[j] # v) => Content(f[k]).dis <= Content(v).dis

IsAnswer(a, S) ==
  \E f \in Selections(S) :
    /\ a = [k \in 1 .. TopK |-> Content(f[k]).item]
    /\ \E V \in SUBSET Candidates(S) : IsView(V, S) /\ SelectsNearest(f, V)

Init == answer = << >>

Answer ==
  /\ answer = << >>
  /\ \E S \in SUBSET Lists : Nearest(S) /\ IsAnswer(answer', S)
  /\ UNCHANGED <<index, center_dis, layout>>

Spec == Init /\ [][Answer]_vars
=============================================================================
