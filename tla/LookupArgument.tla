--------------------------- MODULE LookupArgument ---------------------------
(***************************************************************************)
(* The lookup argument of the set-based circuits: every row (probe,        *)
(* subspace, code, distance) a candidate uses is a row of the table of     *)
(* distances the circuit computes itself.  convert_ft_set_i64 (and its     *)
(* twin convert_ft_set for the flat index) compresses the rows with a      *)
(* challenge, pads the shorter list, and rearranges both lists in place    *)
(* into the witness f_, t_ that set_belong_gedget constrains.              *)
(*                                                                         *)
(* Abstractions: the field has P elements instead of 2^64 - 2^32 + 1; a    *)
(* sort is any permutation that is ascending; indices start at 1.          *)
(***************************************************************************)
EXTENDS Integers, FiniteSets

CONSTANTS P,          \* number of elements of the field F
          Columns,    \* rows: <<probe, subspace, code, distance>>
          FSets,      \* lists of rows that are looked up
          TSets       \* lists of rows of the table

ASSUME LookupAssumption ==
  /\ P \in Nat \ {0}
  /\ Columns \subseteq Int \X Int \X Int \X Int
  /\ \A s \in FSets \cup TSets : /\ Cardinality(DOMAIN s) \in Nat \ {0}
                               /\ s \in [1 .. Cardinality(DOMAIN s) -> Columns]

VARIABLES f_set, t_set, \* the rows
          alpha,        \* the challenge fs_hash[0] of the gadget
          f, t, i, pc   \* of convert_ft_set_i64

inputs == <<f_set, t_set, alpha>>
vars   == <<inputs, f, t, i, pc>>

Field == 0 .. P - 1

(* The field has no divisors of zero, and its characteristic is greater    *)
(* than the indices and distances of the rows lie apart.                   *)
ASSUME FieldAssumption ==
  \A a, b \in Field : (a * b) % P = 0 => a = 0 \/ b = 0

ASSUME RowAssumption ==
  \A r, s \in Columns : r # s => \E c \in 1 .. 4 : (r[c] - s[c]) % P # 0

(* compress_i64 and compress_gadget: Horner's rule.                        *)
Compress(row, a) ==
  (((row[1] * a + row[2]) * a + row[3]) * a + row[4]) % P

Size(s) == Cardinality(DOMAIN s)
sz      == IF Size(f_set) > Size(t_set) THEN Size(f_set) ELSE Size(t_set)

(* Both lists compressed and padded with their first element.              *)
Padded(s) ==
  [k \in 1 .. sz |-> Compress(s[IF k \in DOMAIN s THEN k ELSE 1], alpha)]

Bijections(S) ==
  {p \in [S -> S] : /\ \A x, y \in S : p[x] = p[y] => x = y
                    /\ \A y \in S : \E x \in S : p[x] = y}

Rearranged(s, p) == [k \in DOMAIN s |-> s[p[k]]]

PermutationOf(s, u) == \E p \in Bijections(DOMAIN u) : s = Rearranged(u, p)

Ascending(s, from) ==
  \A x, y \in DOMAIN s : from <= x /\ x <= y => s[x] <= s[y]

Swapped(s, x, y) == [s EXCEPT ![x] = s[y], ![y] = s[x]]

Init ==
  /\ f_set \in FSets /\ t_set \in TSets /\ alpha \in Field
  /\ f = Padded(f_set) /\ t = Padded(t_set)
  /\ i = 1 /\ pc = "sort_f"

SortF ==
  /\ pc = "sort_f"
  /\ \E p \in Bijections(1 .. sz) : f' = Rearranged(f, p)
  /\ Ascending(f', 1)
  /\ pc' = "first" /\ UNCHANGED <<inputs, t, i>>

(* Mutant: the element is overwritten, not exchanged.                      *)
MoveFirst_Overwrite ==
  /\ pc = "first"
  /\ t' = IF t[i] = f[1] THEN [t EXCEPT ![1] = f[1]] ELSE t
  /\ IF i = sz THEN i' = 2 /\ pc' = "sort_t" ELSE i' = i + 1 /\ pc' = pc
  /\ UNCHANGED <<inputs, f>>

(* `if t[i] == f[0]': bring it to the front.                               *)
MoveFirst ==
  /\ pc = "first"
  /\ t' = IF t[i] = f[1] THEN Swapped(t, 1, i) ELSE t
  /\ IF i = sz THEN i' = 2 /\ pc' = "sort_t" ELSE i' = i + 1 /\ pc' = pc
  /\ UNCHANGED <<inputs, f>>

(* t[1..].sort()                                                           *)
SortRest ==
  /\ pc = "sort_t"
  /\ \E p \in Bijections(1 .. sz) : p[1] = 1 /\ t' = Rearranged(t, p)
  /\ Ascending(t', 2)
  /\ pc' = IF sz = 1 THEN "done" ELSE "place"
  /\ UNCHANGED <<inputs, f, i>>

(* Mutant: a value is looked for behind position i only.                   *)
FirstOf_Behind(v) == {j \in i + 1 .. sz : t[j] = v /\ \A k \in i + 1 .. sz : t[k] = v => j <= k}

(* The first position that holds v, if any does.                           *)
FirstOf(v) == {j \in 1 .. sz : t[j] = v /\ \A k \in 1 .. sz : t[k] = v => j <= k}

(* The last loop: where a new value starts in f, t gets it too.            *)
Place ==
  /\ pc = "place"
  /\ IF f[i] # f[i - 1] /\ FirstOf(f[i]) # {}
     THEN \E j \in FirstOf(f[i]) : t' = Swapped(t, j, i)
     ELSE t' = t
  /\ IF i = sz THEN i' = i /\ pc' = "done" ELSE i' = i + 1 /\ pc' = pc
  /\ UNCHANGED <<inputs, f>>

(* f_ and t_ are inputs of the circuit: a prover may submit other lists,   *)
(* here with two entries exchanged and one replaced.                       *)
Altered(s) ==
  {[Swapped(s, x, y) EXCEPT ![k] = v] : x, y, k \in 1 .. sz, v \in Field}

Submit ==
  /\ pc = "done"
  /\ \/ f' \in Altered(f) /\ t' = t
     \/ t' \in Altered(t) /\ f' = f
  /\ pc' = "submitted" /\ UNCHANGED <<inputs, i>>

Next == SortF \/ MoveFirst \/ SortRest \/ Place \/ Submit

Spec == Init /\ [][Next]_vars

(***************************************************************************)
(* The constraints of set_belong_gedget.                                   *)
(***************************************************************************)
Factor(r, v) == (r - v) % P

(* Mutant: the last factor is left out.                                    *)
Product_Short(r, s) ==
  LET prod[k \in 0 .. sz] == IF k = 0 THEN 1 ELSE (prod[k - 1] * Factor(r, s[k])) % P
  IN  prod[sz - 1]

Product(r, s) ==
  LET prod[k \in 0 .. sz] == IF k = 0 THEN 1 ELSE (prod[k - 1] * Factor(r, s[k])) % P
  IN  prod[sz]

(* simple_set_equal_gadget, for the challenge r.                           *)
SetEqual(r, s, u) == Product(r, s) = Product(r, u)

(* Mutant: the constraint compares t[i] with t[i - 1].                     *)
Aligned_OfT ==
  f[1] = t[1] /\ \A k \in 2 .. sz : f[k] = t[k] \/ t[k] = t[k - 1]

Aligned ==
  f[1] = t[1] /\ \A k \in 2 .. sz : f[k] = t[k] \/ f[k] = f[k - 1]

(***************************************************************************)
(* Properties.                                                             *)
(***************************************************************************)
Covered == \A k \in DOMAIN f_set : \E j \in DOMAIN t_set : f_set[k] = t_set[j]

TypeOK ==
  /\ f \in [1 .. sz -> Field] /\ t \in [1 .. sz -> Field]
  /\ i \in 1 .. sz + 1 /\ alpha \in Field
  /\ pc \in {"sort_f", "first", "sort_t", "place", "done", "submitted"}

(* The in-place exchanges lose and duplicate nothing: the prover's f and t *)
(* stay permutations of the padded lists the circuit recomputes.           *)
Matches == PermutationOf(f, Padded(f_set)) /\ PermutationOf(t, Padded(t_set))
PermutationKept == pc # "submitted" => Matches

(* Completeness: if every row is in the table, the two lists the prover    *)
(* ends with satisfy the constraints between neighbours, for every         *)
(* challenge, list and padding (lines 41-59 of proof.rs).                  *)
HonestAligned == pc = "done" /\ Covered => Aligned

(* Soundness: whatever the prover submits, if it is made of the right      *)
(* elements and its neighbours satisfy the constraints, then every         *)
(* compressed row of f is one of the table.                                *)
Sound ==
  pc \in {"done", "submitted"} /\ Aligned /\ Matches =>
    \A k \in 1 .. sz : \E j \in 1 .. sz : Padded(f_set)[k] = Padded(t_set)[j]

(* How often a challenge misleads.  Two lists that are no permutations of  *)
(* each other agree in fewer than sz challenges.                           *)
Agreements(s, u) == Cardinality({r \in Field : SetEqual(r, s, u)})
ProductsTellApart ==
  pc = "submitted" =>
    /\ PermutationOf(f, Padded(f_set)) \/ Agreements(f, Padded(f_set)) < sz
    /\ PermutationOf(t, Padded(t_set)) \/ Agreements(t, Padded(t_set)) < sz

(* Two distinct rows collide under at most three challenges.               *)
CollisionsAreRare ==
  \A k \in DOMAIN f_set, j \in DOMAIN t_set :
    f_set[k] # t_set[j] =>
      Cardinality({a \in Field : Compress(f_set[k], a) = Compress(t_set[j], a)}) <= 3

(* What set_equal and compress rest on: the products are monic polynomials *)
(* of degree sz in the challenge, and distinct rows of four columns differ *)
(* by one of degree at most three.  Some challenge therefore tells every   *)
(* wrong submission from a right one.  (set_belong_gedget, compress_i64)   *)
ChallengesTellApart == ProductsTellApart /\ CollisionsAreRare
=============================================================================
