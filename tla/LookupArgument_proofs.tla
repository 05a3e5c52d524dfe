------------------------ MODULE LookupArgument_proofs -----------------------
(***************************************************************************)
(* The witness generation of the lookup argument is complete, and its      *)
(* constraints are sound, for every field, every list and every table.     *)
(* The inductive invariant says that f and t are permutations of the       *)
(* padded lists (PermutationKept), that f is ascending once it has been    *)
(* sorted, and that the positions the loops have passed satisfy the        *)
(* constraints (Placed): an exchange never moves an element that was put   *)
(* in place, because f is ascending and the element looked for is greater. *)
(* That a challenge finds the wrong lists rests on neither: the products   *)
(* of the gadget and the differences of compressed rows are polynomials    *)
(* (Polynomials) with few zeros (FewZeros), because P divides a product    *)
(* only if it divides a factor.                                            *)
(***************************************************************************)
EXTENDS LookupArgument, FiniteSetTheorems, WellFoundedInduction, TLAPS

(* The size of the lists is a positive number.                             *)
LEMMA Sizes ==
  ASSUME f_set \in FSets, t_set \in TSets
  PROVE  sz \in Nat \ {0}
  BY LookupAssumption DEF sz, Size

(* Padded lists are lists of field elements.                               *)
LEMMA Fields ==
  ASSUME NEW row \in Columns, NEW a \in Field
  PROVE  Compress(row, a) \in Field
<1>1. row \in Int \X Int \X Int \X Int
  BY LookupAssumption
<1>2. PICK r1 \in Int, r2 \in Int, r3 \in Int, r4 \in Int : row = <<r1, r2, r3, r4>>
  BY <1>1
<1>3. a \in Int /\ P \in Nat \ {0}
  BY LookupAssumption DEF Field
<1>4. (r1 * a + r2) * a \in Int
  BY <1>3
<1>5. ((r1 * a + r2) * a + r3) * a \in Int
  BY <1>3, <1>4
<1>6. \A x \in Int : x % P \in 0 .. P - 1
  BY <1>3
<1> QED BY <1>2, <1>5, <1>6 DEF Compress, Field

LEMMA PaddedType ==
  ASSUME f_set \in FSets, t_set \in TSets, alpha \in Field, NEW s \in {f_set, t_set}
  PROVE  Padded(s) \in [1 .. sz -> Field]
<1>1. s \in [1 .. Cardinality(DOMAIN s) -> Columns] /\ Cardinality(DOMAIN s) \in Nat \ {0}
  BY LookupAssumption
<1>2. \A k \in 1 .. sz : s[IF k \in DOMAIN s THEN k ELSE 1] \in Columns
  BY <1>1
<1> QED BY <1>2, Fields DEF Padded

-----------------------------------------------------------------------------
(* Permutations: the identity, an exchange, and one permutation after      *)
(* another.                                                                *)
LEMMA SamePermutation ==
  ASSUME NEW n \in Nat, NEW s, s = [k \in 1 .. n |-> s[k]]
  PROVE  PermutationOf(s, s)
<1> DEFINE p == [k \in 1 .. n |-> k]
<1>1. DOMAIN s = 1 .. n
  OBVIOUS
<1>2. p \in Bijections(1 .. n)
  BY DEF Bijections
<1>3. s = Rearranged(s, p)
  BY <1>1 DEF Rearranged
<1> QED BY <1>1, <1>2, <1>3 DEF PermutationOf

LEMMA Composed ==
  ASSUME NEW n \in Nat, NEW S, NEW u \in [1 .. n -> S], NEW s, PermutationOf(s, u),
         NEW q \in Bijections(1 .. n)
  PROVE  PermutationOf(Rearranged(s, q), u)
<1>1. PICK p \in Bijections(1 .. n) : s = Rearranged(u, p)
  BY DEF PermutationOf
<1> DEFINE r == [k \in 1 .. n |-> p[q[k]]]
<1>2. p \in [1 .. n -> 1 .. n] /\ q \in [1 .. n -> 1 .. n]
  BY DEF Bijections
<1>3. r \in Bijections(1 .. n)
  <2>1. r \in [1 .. n -> 1 .. n]
    BY <1>2
  <2>2. \A x, y \in 1 .. n : r[x] = r[y] => x = y
    BY <1>1, <1>2 DEF Bijections
  <2>3. \A y \in 1 .. n : \E x \in 1 .. n : r[x] = y
    <3> TAKE y \in 1 .. n
    <3>1. PICK z \in 1 .. n : p[z] = y
      BY <1>1 DEF Bijections
    <3>2. PICK x \in 1 .. n : q[x] = z
      BY DEF Bijections
    <3> QED BY <3>1, <3>2
  <2> QED BY <2>1, <2>2, <2>3 DEF Bijections
<1>4. Rearranged(s, q) = Rearranged(u, r)
  <2>1. DOMAIN u = 1 .. n /\ DOMAIN s = 1 .. n
    BY <1>1 DEF Rearranged
  <2> QED BY <1>1, <1>2, <2>1 DEF Rearranged
<1> QED BY <1>3, <1>4 DEF PermutationOf

LEMMA Exchange ==
  ASSUME NEW n \in Nat, NEW S, NEW s \in [1 .. n -> S], NEW x \in 1 .. n, NEW y \in 1 .. n
  PROVE  \E q \in Bijections(1 .. n) : Swapped(s, x, y) = Rearranged(s, q)
<1> DEFINE q == [k \in 1 .. n |-> IF k = x THEN y ELSE IF k = y THEN x ELSE k]
<1>1. q \in Bijections(1 .. n)
  <2>1. \A j \in 1 .. n : q[q[j]] = j
    OBVIOUS
  <2>2. q \in [1 .. n -> 1 .. n]
    OBVIOUS
  <2>3. \A j, k \in 1 .. n : q[j] = q[k] => j = k
    OBVIOUS
  <2> HIDE DEF q
  <2> QED BY <2>1, <2>2, <2>3 DEF Bijections
<1>2. Swapped(s, x, y) = Rearranged(s, q)
  BY DEF Swapped, Rearranged
<1> QED BY <1>1, <1>2

(* A nonempty set of natural numbers has a least element.                  *)
LEMMA Least ==
  ASSUME NEW T, T \subseteq Nat, T # {}
  PROVE  \E m \in T : \A n \in T : m <= n
<1>1. \E m \in T : \A n \in T : ~ (<<n, m>> \in OpToRel(<, Nat))
  BY NatLessThanWellFounded, WFMin, Zenon
<1>2. PICK m \in T : \A n \in T : ~ (<<n, m>> \in OpToRel(<, Nat))
  BY <1>1
<1>3. \A n \in T : m <= n
  <2> TAKE n \in T
  <2>1. <<n, m>> \notin OpToRel(<, Nat)
    BY <1>2
  <2>2. m \in Nat /\ n \in Nat
    OBVIOUS
  <2>3. ~ (n < m)
    BY <2>1, <2>2 DEF OpToRel
  <2> QED BY <2>2, <2>3
<1> QED BY <1>2, <1>3

-----------------------------------------------------------------------------
(* Where i is in each loop.                                                *)
Loops ==
  /\ pc = "sort_f" => i = 1
  /\ pc = "first"  => i \in 1 .. sz
  /\ pc = "sort_t" => i = 2
  /\ pc = "place"  => i \in 2 .. sz

Typed == f_set \in FSets /\ t_set \in TSets /\ TypeOK /\ Loops

LEMMA TypeInit == Init => Typed
<1> SUFFICES ASSUME Init PROVE Typed
  OBVIOUS
<1>1. f_set \in FSets /\ t_set \in TSets /\ alpha \in Field
  BY DEF Init
<1>2. f \in [1 .. sz -> Field] /\ t \in [1 .. sz -> Field]
  BY <1>1, PaddedType DEF Init
<1>3. sz \in Nat \ {0}
  BY <1>1, Sizes
<1> QED BY <1>1, <1>2, <1>3 DEF Init, Typed, TypeOK, Loops

LEMMA TypeStep == Typed /\ [Next]_vars => Typed'
<1> SUFFICES ASSUME Typed, [Next]_vars PROVE Typed'
  OBVIOUS
<1>1. inputs' = inputs
  BY DEF Next, SortF, MoveFirst, SortRest, Place, Submit, vars
<1>2. f_set' = f_set /\ t_set' = t_set /\ alpha' = alpha /\ sz' = sz
  BY <1>1 DEF inputs, sz, Size
<1>3. sz \in Nat \ {0}
  BY Sizes DEF Typed
<1>4. f \in [1 .. sz -> Field] /\ t \in [1 .. sz -> Field]
  BY DEF Typed, TypeOK
<1>5. \A s \in [1 .. sz -> Field] : \A p \in Bijections(1 .. sz) : Rearranged(s, p) \in [1 .. sz -> Field]
  BY DEF Rearranged, Bijections
<1>6. \A s \in [1 .. sz -> Field] : \A x, y \in 1 .. sz : Swapped(s, x, y) \in [1 .. sz -> Field]
  BY DEF Swapped
<1>7. f' \in [1 .. sz -> Field] /\ t' \in [1 .. sz -> Field]
  <2>1. CASE SortF
    BY <2>1, <1>4, <1>5 DEF SortF
  <2>2. CASE MoveFirst
    BY <2>2, <1>3, <1>4, <1>6 DEF MoveFirst, Typed, Loops
  <2>3. CASE SortRest
    BY <2>3, <1>4, <1>5 DEF SortRest
  <2>4. CASE Place
    <3>1. i \in 1 .. sz /\ f' = f
      BY <2>4, <1>3 DEF Place, Typed, Loops
    <3>2. \A v : FirstOf(v) \subseteq 1 .. sz
      BY DEF FirstOf
    <3> QED BY <2>4, <3>1, <3>2, <1>4, <1>6 DEF Place
  <2>5. CASE Submit
    <3>1. ASSUME NEW s \in [1 .. sz -> Field], NEW u \in Altered(s) PROVE u \in [1 .. sz -> Field]
      <4>1. PICK x, y, k \in 1 .. sz, v \in Field : u = [Swapped(s, x, y) EXCEPT ![k] = v]
        BY <3>1 DEF Altered
      <4> QED BY <4>1, <1>6
    <3> QED BY <2>5, <3>1, <1>4 DEF Submit
  <2>6. CASE UNCHANGED vars
    BY <2>6, <1>4 DEF vars
  <2> QED BY <2>1, <2>2, <2>3, <2>4, <2>5, <2>6 DEF Next
<1>8. /\ i' \in 1 .. sz + 1 /\ pc' \in {"sort_f", "first", "sort_t", "place", "done", "submitted"}
      /\ pc' = "sort_f" => i' = 1
      /\ pc' = "first"  => i' \in 1 .. sz
      /\ pc' = "sort_t" => i' = 2
      /\ pc' = "place"  => i' \in 2 .. sz
  BY <1>3 DEF Typed, TypeOK, Loops, Next, SortF, MoveFirst, SortRest, Place, Submit, vars
<1> QED BY <1>2, <1>7, <1>8 DEF Typed, TypeOK, Loops

(* In every state the lists hold sz field elements and the loops are       *)
(* within their bounds.                                                    *)
THEOREM TypeCorrect == Spec => []TypeOK
<1>1. Spec => []Typed
  BY TypeInit, TypeStep, PTL DEF Spec
<1>2. Typed => TypeOK
  BY DEF Typed
<1> QED BY <1>1, <1>2, PTL

-----------------------------------------------------------------------------
(* An exchange or a rearrangement of a permutation is a permutation.       *)
LEMMA KeepsMatching ==
  ASSUME Typed, Typed', [Next]_vars, PermutationKept
  PROVE  PermutationKept'
<1>1. inputs' = inputs
  BY DEF Next, SortF, MoveFirst, SortRest, Place, Submit, vars
<1>2. f_set' = f_set /\ t_set' = t_set /\ alpha' = alpha /\ sz' = sz
  BY <1>1 DEF inputs, sz, Size
<1>3. Padded(f_set)' = Padded(f_set) /\ Padded(t_set)' = Padded(t_set)
  BY <1>2 DEF Padded
<1> DEFINE F0 == Padded(f_set)
           T0 == Padded(t_set)
<1>4. sz \in Nat /\ sz # 0 /\ F0 \in [1 .. sz -> Field] /\ T0 \in [1 .. sz -> Field]
  BY Sizes, PaddedType DEF Typed, TypeOK
<1>5. f \in [1 .. sz -> Field] /\ t \in [1 .. sz -> Field]
  BY DEF Typed, TypeOK
<1>6. ASSUME pc \notin {"done", "submitted"}, ~ UNCHANGED vars
      PROVE  PermutationOf(f', F0) /\ PermutationOf(t', T0)
  <2>1. PermutationOf(f, F0) /\ PermutationOf(t, T0)
    BY <1>6 DEF PermutationKept, Matches
  <2> HIDE DEF F0, T0
  <2>2. \A p \in Bijections(1 .. sz) : PermutationOf(Rearranged(f, p), F0) /\ PermutationOf(Rearranged(t, p), T0)
    BY <2>1, <1>4, Composed
  <2>3. \A x, y \in 1 .. sz : PermutationOf(Swapped(t, x, y), T0)
    <3> TAKE x, y \in 1 .. sz
    <3>1. PICK p \in Bijections(1 .. sz) : Swapped(t, x, y) = Rearranged(t, p)
      BY <1>4, <1>5, Exchange
    <3> QED BY <3>1, <2>2
  <2>4. CASE SortF
    BY <2>4, <2>1, <2>2 DEF SortF
  <2>5. CASE MoveFirst
    <3>1. i \in 1 .. sz /\ 1 \in 1 .. sz
      BY <2>5, <1>4 DEF MoveFirst, Typed, Loops
    <3> QED BY <2>5, <3>1, <2>1, <2>3 DEF MoveFirst
  <2>6. CASE SortRest
    BY <2>6, <2>1, <2>2 DEF SortRest
  <2>7. CASE Place
    <3>1. i \in 1 .. sz
      BY <2>7, <1>4 DEF Place, Typed, Loops
    <3>2. \A v : FirstOf(v) \subseteq 1 .. sz
      BY DEF FirstOf
    <3> QED BY <2>7, <3>1, <3>2, <2>1, <2>3 DEF Place
  <2> QED BY <2>4, <2>5, <2>6, <2>7, <1>6 DEF Next, Submit
<1>7. CASE UNCHANGED vars
  <2>1. f' = f /\ t' = t /\ pc' = pc
    BY <1>7 DEF vars
  <2> QED BY <2>1, <1>3 DEF PermutationKept, Matches
<1>8. CASE pc \in {"done", "submitted"} /\ ~ UNCHANGED vars
  <2>1. pc' = "submitted"
    BY <1>8 DEF Next, SortF, MoveFirst, SortRest, Place, Submit, vars
  <2> QED BY <2>1 DEF PermutationKept
<1> QED BY <1>3, <1>6, <1>7, <1>8 DEF PermutationKept, Matches

(* Sorting and exchanging in place lose and duplicate nothing.             *)
THEOREM NothingLost == Spec => []PermutationKept
<1>1. Spec => []Typed
  BY TypeInit, TypeStep, PTL DEF Spec
<1>2. Init => PermutationKept
  <2> SUFFICES ASSUME Init PROVE PermutationKept
    OBVIOUS
  <2>1. Padded(f_set) = [k \in 1 .. sz |-> Padded(f_set)[k]] /\ Padded(t_set) = [k \in 1 .. sz |-> Padded(t_set)[k]]
    BY DEF Padded
  <2>2. sz \in Nat
    BY Sizes DEF Init
  <2>3. PermutationOf(Padded(f_set), Padded(f_set)) /\ PermutationOf(Padded(t_set), Padded(t_set))
    BY <2>1, <2>2, SamePermutation
  <2> QED BY <2>3 DEF Init, PermutationKept, Matches
<1>3. Typed /\ Typed' /\ [Next]_vars /\ PermutationKept => PermutationKept'
  BY KeepsMatching
<1> QED BY <1>1, <1>2, <1>3, PTL DEF Spec

-----------------------------------------------------------------------------
(* The elements of f and t are those of the padded lists.                  *)
LEMMA MatchingElements ==
  ASSUME Typed, Matches
  PROVE  /\ \A k \in 1 .. sz : \E j \in 1 .. sz : f[k] = Padded(f_set)[j]
         /\ \A j \in 1 .. sz : \E k \in 1 .. sz : f[k] = Padded(f_set)[j]
         /\ \A k \in 1 .. sz : \E j \in 1 .. sz : t[k] = Padded(t_set)[j]
         /\ \A j \in 1 .. sz : \E k \in 1 .. sz : t[k] = Padded(t_set)[j]
<1> DEFINE F0 == Padded(f_set)
           T0 == Padded(t_set)
<1>1. sz \in Nat /\ F0 \in [1 .. sz -> Field] /\ T0 \in [1 .. sz -> Field]
  BY Sizes, PaddedType DEF Typed, TypeOK
<1>2. PermutationOf(f, F0) /\ PermutationOf(t, T0)
  BY DEF Matches
<1> HIDE DEF F0, T0
<1> DEFINE Same(s, u) == /\ \A k \in 1 .. sz : \E j \in 1 .. sz : s[k] = u[j]
                         /\ \A j \in 1 .. sz : \E k \in 1 .. sz : s[k] = u[j]
<1>3. ASSUME NEW u \in [1 .. sz -> Field], NEW s, PermutationOf(s, u)
      PROVE  Same(s, u)
  <2>1. PICK p \in Bijections(1 .. sz) : s = Rearranged(u, p)
    BY <1>3 DEF PermutationOf
  <2>2. p \in [1 .. sz -> 1 .. sz] /\ \A j \in 1 .. sz : \E k \in 1 .. sz : p[k] = j
    BY <2>1 DEF Bijections
  <2>3. s = [k \in 1 .. sz |-> u[p[k]]]
    BY <2>1 DEF Rearranged
  <2> QED BY <2>2, <2>3
<1>4. Same(f, F0) /\ Same(t, T0)
  <2> HIDE DEF Same
  <2> QED BY <1>1, <1>2, <1>3
<1> QED BY <1>4 DEF F0, T0

(* Soundness of the constraints: where an element of f begins, the element *)
(* of t beside it is the same.                                             *)
LEMMA AlignedIsSound ==
  ASSUME Typed, Aligned, Matches
  PROVE  \A k \in 1 .. sz : \E j \in 1 .. sz : Padded(f_set)[k] = Padded(t_set)[j]
<1> DEFINE F0 == Padded(f_set)
           T0 == Padded(t_set)
<1>1. sz \in Nat /\ sz # 0 /\ F0 \in [1 .. sz -> Field] /\ T0 \in [1 .. sz -> Field]
  BY Sizes, PaddedType DEF Typed, TypeOK
<1>2. /\ \A x \in 1 .. sz : \E y \in 1 .. sz : f[y] = F0[x]
      /\ \A x \in 1 .. sz : \E y \in 1 .. sz : t[x] = T0[y]
  BY MatchingElements
<1> SUFFICES ASSUME NEW k \in 1 .. sz PROVE \E j \in 1 .. sz : F0[k] = T0[j]
  OBVIOUS
<1> HIDE DEF F0, T0
<1>3. PICK m \in 1 .. sz : f[m] = F0[k]
  BY <1>2
<1> DEFINE Same == {n \in 1 .. sz : f[n] = f[m]}
<1>4. PICK n \in Same : \A x \in Same : n <= x
  <2>1. Same \subseteq Nat /\ m \in Same
    BY <1>1
  <2> HIDE DEF Same
  <2> QED BY <2>1, Least
<1>5. f[n] = t[n]
  <2>1. CASE n = 1
    BY <2>1 DEF Aligned
  <2>2. CASE n # 1
    <3>1. n \in 2 .. sz /\ n - 1 \in 1 .. sz /\ ~ (n <= n - 1)
      BY <2>2, <1>1
    <3>2. f[n - 1] # f[n]
      BY <3>1, <1>4
    <3> QED BY <3>1, <3>2 DEF Aligned
  <2> QED BY <2>1, <2>2
<1>6. PICK j \in 1 .. sz : t[n] = T0[j]
  BY <1>2
<1> QED BY <1>3, <1>4, <1>5, <1>6

(* Lists of the right elements whose neighbours satisfy the constraints    *)
(* look up nothing that is not in the table, whoever made them.            *)
THEOREM ConstraintsAreSound == Spec => []Sound
<1>1. Spec => []Typed
  BY TypeInit, TypeStep, PTL DEF Spec
<1>2. Typed => Sound
  BY AlignedIsSound DEF Sound
<1> QED BY <1>1, <1>2, PTL

-----------------------------------------------------------------------------
(* What the prover's loops have reached so far.                            *)
Sorted == pc \in {"first", "sort_t", "place", "done"} => Ascending(f, 1)

Front ==
  /\ pc = "first"  => t[1] = f[1] \/ \A j \in 1 .. i - 1 : t[j] # f[1]
  /\ pc = "sort_t" => t[1] = f[1] \/ \A j \in 1 .. sz : t[j] # f[1]

InPlace(n) == t[1] = f[1] /\ \A j \in 2 .. n : f[j] = t[j] \/ f[j] = f[j - 1]

Placed ==
  /\ pc = "place" /\ Covered => InPlace(i - 1)
  /\ pc = "done"  /\ Covered => InPlace(sz)

LoopInv == Typed /\ PermutationKept /\ Sorted /\ Front /\ Placed

(* If every row is in the table, every element of f is one of t.           *)
LEMMA AllFound ==
  ASSUME Typed, Matches, Covered, NEW k \in 1 .. sz
  PROVE  \E m \in 1 .. sz : t[m] = f[k]
<1> DEFINE F0 == Padded(f_set)
           T0 == Padded(t_set)
<1>1. sz \in Nat /\ sz # 0 /\ F0 \in [1 .. sz -> Field] /\ T0 \in [1 .. sz -> Field]
  BY Sizes, PaddedType DEF Typed, TypeOK
<1>2. /\ \A x \in 1 .. sz : \E y \in 1 .. sz : f[x] = F0[y]
      /\ \A y \in 1 .. sz : \E x \in 1 .. sz : t[x] = T0[y]
  BY MatchingElements
<1>3. \A x \in 1 .. sz : \E y \in 1 .. sz : F0[x] = T0[y]
  <2> SUFFICES ASSUME NEW x \in 1 .. sz PROVE \E y \in 1 .. sz : F0[x] = T0[y]
    OBVIOUS
  <2>1. /\ DOMAIN f_set = 1 .. Size(f_set) /\ Size(f_set) \in Nat \ {0}
        /\ DOMAIN t_set = 1 .. Size(t_set) /\ Size(t_set) \in Nat \ {0}
    BY LookupAssumption DEF Typed, Size
  <2>2. PICK z \in DOMAIN f_set : F0[x] = Compress(f_set[z], alpha)
    <3>1. F0[x] = Compress(f_set[IF x \in DOMAIN f_set THEN x ELSE 1], alpha)
      BY DEF Padded
    <3>2. (IF x \in DOMAIN f_set THEN x ELSE 1) \in DOMAIN f_set
      BY <2>1
    <3> QED BY <3>1, <3>2
  <2>3. PICK y \in DOMAIN t_set : f_set[z] = t_set[y]
    BY <2>2 DEF Covered
  <2>4. y \in 1 .. sz
    BY <2>1 DEF sz
  <2>5. T0[y] = Compress(t_set[y], alpha)
    BY <2>4 DEF Padded
  <2> QED BY <2>2, <2>3, <2>4, <2>5
<1> HIDE DEF F0, T0
<1>4. PICK x \in 1 .. sz : f[k] = F0[x]
  BY <1>2
<1>5. PICK y \in 1 .. sz : F0[x] = T0[y]
  BY <1>3
<1>6. PICK m \in 1 .. sz : t[m] = T0[y]
  BY <1>2
<1> QED BY <1>4, <1>5, <1>6

(* A value that occurs in t has a first position there.                    *)
LEMMA FirstExists ==
  ASSUME sz \in Nat, NEW v, NEW m \in 1 .. sz, t[m] = v
  PROVE  FirstOf(v) # {}
<1> DEFINE S == {n \in 1 .. sz : t[n] = v}
<1>1. S \subseteq Nat /\ m \in S
  OBVIOUS
<1>2. \E n \in S : \A x \in S : n <= x
  <2> HIDE DEF S
  <2> QED BY <1>1, Least
<1> QED BY <1>2 DEF FirstOf

(* The step of the last loop: the positions it has passed stay in place,   *)
(* and position i joins them.                                              *)
LEMMA PlaceStep ==
  ASSUME Typed, PermutationKept, Sorted, Place, Covered, InPlace(i - 1)
  PROVE  t'[1] = f[1] /\ \A j \in 2 .. i : f[j] = t'[j] \/ f[j] = f[j - 1]
<1>1. sz \in Nat /\ i \in 2 .. sz /\ i \in 1 .. sz /\ i - 1 \in 1 .. sz
  BY Sizes DEF Typed, Loops, Place
<1>2. f \in [1 .. sz -> Field] /\ t \in [1 .. sz -> Field]
  BY DEF Typed, TypeOK
<1>3. CASE f[i] = f[i - 1]
  <2>1. t' = t
    BY <1>3 DEF Place
  <2> QED BY <2>1, <1>1, <1>3 DEF InPlace
<1>4. CASE f[i] # f[i - 1]
  <2>1. Matches
    BY DEF PermutationKept, Place
  <2>2. FirstOf(f[i]) # {}
    <3>1. PICK m \in 1 .. sz : t[m] = f[i]
      BY <2>1, <1>1, AllFound
    <3> QED BY <3>1, <1>1, FirstExists
  <2>3. PICK j \in FirstOf(f[i]) : t' = Swapped(t, j, i)
    BY <1>4, <2>2 DEF Place
  <2>4. j \in 1 .. sz /\ t[j] = f[i]
    BY DEF FirstOf
  <2>5. \A k \in 1 .. i - 1 : f[k] # f[i]
    <3> TAKE k \in 1 .. i - 1
    <3>1. Ascending(f, 1) /\ DOMAIN f = 1 .. sz
      BY <1>2 DEF Sorted, Place
    <3>2. k \in 1 .. sz /\ k <= i - 1 /\ i - 1 <= i /\ 1 <= k
      BY <1>1
    <3>3. f[k] <= f[i - 1] /\ f[i - 1] <= f[i]
      BY <3>1, <3>2, <1>1 DEF Ascending
    <3>4. f[k] \in Int /\ f[i - 1] \in Int /\ f[i] \in Int
      BY <1>1, <1>2, <3>2, LookupAssumption DEF Field
    <3> QED BY <3>3, <3>4, <1>4
  <2>6. t'[i] = f[i] /\ \A k \in 1 .. i - 1 : t[k] = f[k] => t'[k] = f[k]
    BY <2>3, <2>4, <2>5, <1>1, <1>2 DEF Swapped
  <2> QED BY <2>6, <1>1 DEF InPlace
<1> QED BY <1>3, <1>4

LEMMA LoopStep ==
  ASSUME LoopInv, Typed', PermutationKept', [Next]_vars
  PROVE  Sorted' /\ Front' /\ Placed'
<1>1. inputs' = inputs
  BY DEF Next, SortF, MoveFirst, SortRest, Place, Submit, vars
<1>2. sz' = sz /\ Covered' = Covered
  BY <1>1 DEF inputs, sz, Size, Covered
<1>3. sz \in Nat /\ sz # 0 /\ 1 \in 1 .. sz
  BY Sizes DEF LoopInv, Typed
<1>4. f \in [1 .. sz -> Field] /\ t \in [1 .. sz -> Field]
  BY DEF LoopInv, Typed, TypeOK
<1> USE DEF LoopInv
<1>5. CASE SortF
  BY <1>5, <1>2 DEF SortF, Sorted, Front, Placed, Typed, Loops
<1>6. CASE MoveFirst
  <2>1. f' = f /\ Sorted' /\ Placed'
    BY <1>6 DEF MoveFirst, Sorted, Placed, Ascending
  <2>2. i \in 1 .. sz /\ (t[1] = f[1] \/ \A j \in 1 .. i - 1 : t[j] # f[1])
    BY <1>6 DEF MoveFirst, Typed, Loops, Front
  <2>3. t'[1] = f[1] \/ \A j \in 1 .. i : t'[j] # f[1]
    BY <1>6, <1>3, <1>4, <2>2 DEF MoveFirst, Swapped
  <2> QED BY <1>6, <1>2, <1>3, <2>1, <2>2, <2>3 DEF MoveFirst, Front
<1>7. CASE SortRest
  <2>1. f' = f /\ Sorted' /\ Front'
    BY <1>7 DEF SortRest, Sorted, Front, Ascending
  <2>2. t'[1] = t[1]
    BY <1>7, <1>3, <1>4 DEF SortRest, Rearranged
  <2>3. Covered => t[1] = f[1]
    <3> HAVE Covered
    <3>1. Matches
      BY <1>7 DEF SortRest, PermutationKept
    <3>2. \E m \in 1 .. sz : t[m] = f[1]
      BY <3>1, <1>3, AllFound
    <3> QED BY <1>7, <3>2 DEF SortRest, Front
  <2> QED BY <1>7, <1>2, <1>3, <2>1, <2>2, <2>3 DEF SortRest, Placed, InPlace, Typed, Loops
<1>8. CASE Place
  <2>1. f' = f /\ Sorted' /\ Front' /\ i \in 2 .. sz
    BY <1>8 DEF Place, Sorted, Front, Ascending, Typed, Loops
  <2>2. Covered => t'[1] = f[1] /\ \A j \in 2 .. i : f[j] = t'[j] \/ f[j] = f[j - 1]
    <3> HAVE Covered
    <3>1. InPlace(i - 1)
      BY <1>8 DEF Place, Placed
    <3> QED BY <1>8, <3>1, PlaceStep
  <2>3. CASE i = sz
    BY <1>8, <1>2, <2>1, <2>2, <2>3 DEF Place, Placed, InPlace
  <2>4. CASE i # sz
    <3>1. i' = i + 1 /\ pc' = "place" /\ i' - 1 = i
      BY <1>8, <2>1, <2>4, <1>3 DEF Place
    <3> QED BY <1>2, <2>1, <2>2, <3>1 DEF Placed, InPlace
  <2> QED BY <2>3, <2>4
<1>9. CASE Submit
  BY <1>9 DEF Submit, Sorted, Front, Placed
<1>10. CASE UNCHANGED vars
  <2>1. f' = f /\ t' = t /\ i' = i /\ pc' = pc
    BY <1>10 DEF vars
  <2> QED BY <2>1, <1>2 DEF Sorted, Front, Placed, InPlace, Ascending
<1> QED BY <1>5, <1>6, <1>7, <1>8, <1>9, <1>10 DEF Next

(* Completeness: if every row looked up is a row of the table, the loops   *)
(* end with lists that satisfy the constraints.                            *)
THEOREM HonestProverAligned == Spec => []HonestAligned
<1>1. Spec => []Typed
  BY TypeInit, TypeStep, PTL DEF Spec
<1>2. Init => Sorted /\ Front /\ Placed
  BY DEF Init, Sorted, Front, Placed
<1>3. LoopInv /\ Typed' /\ PermutationKept' /\ [Next]_vars => LoopInv'
  BY LoopStep DEF LoopInv
<1>4. LoopInv => HonestAligned
  BY DEF LoopInv, Placed, InPlace, HonestAligned, Aligned
<1>5. Spec => [](Typed /\ PermutationKept)
  BY <1>1, NothingLost, PTL
<1>6. Init /\ Typed /\ PermutationKept => LoopInv
  BY <1>2 DEF LoopInv
<1> QED BY <1>3, <1>4, <1>5, <1>6, PTL DEF Spec

-----------------------------------------------------------------------------
(* A set of numbers with 0 and every successor holds them all.             *)
LEMMA AllNumbers ==
  ASSUME NEW T, 0 \in T, \A n \in T : n \in Nat => n + 1 \in T
  PROVE  Nat \subseteq T
<1> DEFINE Missing == Nat \ T
<1>1. SUFFICES ASSUME Missing # {} PROVE FALSE
  OBVIOUS
<1>2. PICK m \in Missing : \A n \in Missing : m <= n
  <2>1. Missing \subseteq Nat
    OBVIOUS
  <2> HIDE DEF Missing
  <2> QED BY <1>1, <2>1, Least
<1>3. m \in Nat /\ m # 0 /\ m - 1 \in Nat /\ ~ (m <= m - 1)
  OBVIOUS
<1>4. m - 1 \in T
  BY <1>2, <1>3
<1>5. (m - 1) + 1 \in T
  BY <1>3, <1>4
<1>6. (m - 1) + 1 = m
  BY <1>3
<1> QED BY <1>5, <1>6

(* Functions on the numbers may be defined by recursion.                   *)
Recursive(S, init, step) ==
  \E F \in [Nat -> S] : F[0] = init /\ \A n \in Nat : F[n + 1] = step[<<n, F[n]>>]

LEMMA Recursion ==
  ASSUME NEW S, NEW init \in S, NEW step \in [Nat \X S -> S]
  PROVE  Recursive(S, init, step)
<1> DEFINE Good(F, n) == /\ F \in [0 .. n -> S] /\ F[0] = init
                         /\ \A k \in 0 .. n - 1 : F[k + 1] = step[<<k, F[k]>>]
<1>1. \A n \in Nat : \E F : Good(F, n)
  <2> DEFINE T == {n \in Nat : \E F : Good(F, n)}
  <2>1. 0 \in T
    <3>1. Good([k \in 0 .. 0 |-> init], 0)
      OBVIOUS
    <3> QED BY <3>1
  <2>2. ASSUME NEW n \in Nat, n \in T PROVE n + 1 \in T
    <3>1. PICK F : Good(F, n)
      BY <2>2
    <3> DEFINE G == [k \in 0 .. n + 1 |-> IF k = n + 1 THEN step[<<n, F[n]>>] ELSE F[k]]
    <3>2. G \in [0 .. n + 1 -> S] /\ G[0] = init
      BY <3>1
    <3>3. ASSUME NEW k \in 0 .. n PROVE G[k + 1] = step[<<k, G[k]>>]
      <4>1. CASE k = n
        <5>1. k + 1 = n + 1 /\ k # n + 1 /\ k + 1 \in 0 .. n + 1 /\ k \in 0 .. n + 1
          BY <4>1
        <5>2. G[k + 1] = step[<<n, F[n]>>] /\ G[k] = F[k]
          BY <5>1
        <5> HIDE DEF G
        <5> QED BY <5>2, <4>1
      <4>2. CASE k # n
        <5>1. k \in 0 .. n - 1 /\ k \in Nat
          BY <4>2
        <5> QED BY <3>1, <5>1, <4>2
      <4> QED BY <4>1, <4>2
    <3> HIDE DEF G
    <3>4. Good(G, n + 1)
      BY <3>2, <3>3
    <3> QED BY <3>4
  <2> HIDE DEF T
  <2>3. Nat \subseteq T
    BY <2>1, <2>2, AllNumbers
  <2> QED BY <2>3 DEF T
<1>2. \A n \in Nat : \A m, p \in Nat : \A F, G :
        Good(F, m) /\ Good(G, p) /\ n <= m /\ n <= p => F[n] = G[n]
  <2> DEFINE T == {n \in Nat : \A m, p \in Nat : \A F, G :
                     Good(F, m) /\ Good(G, p) /\ n <= m /\ n <= p => F[n] = G[n]}
  <2>1. 0 \in T
    OBVIOUS
  <2>2. ASSUME NEW n \in Nat, n \in T PROVE n + 1 \in T
    <3> SUFFICES ASSUME NEW m \in Nat, NEW p \in Nat, NEW F, NEW G,
                        Good(F, m), Good(G, p), n + 1 <= m, n + 1 <= p
                 PROVE  F[n + 1] = G[n + 1]
      OBVIOUS
    <3>1. F[n] = G[n]
      <4>1. n <= m /\ n <= p
        OBVIOUS
      <4> HIDE DEF Good
      <4> QED BY <2>2, <4>1
    <3>2. n \in 0 .. m - 1 /\ n \in 0 .. p - 1
      OBVIOUS
    <3> QED BY <3>1, <3>2
  <2> HIDE DEF T
  <2>3. Nat \subseteq T
    BY <2>1, <2>2, AllNumbers
  <2> QED BY <2>3 DEF T
<1> DEFINE Upto(n) == CHOOSE F : Good(F, n)
           F == [n \in Nat |-> Upto(n)[n]]
<1>3. \A n \in Nat : Good(Upto(n), n)
  <2> HIDE DEF Good
  <2> QED BY <1>1
<1> HIDE DEF Upto
<1>4. F \in [Nat -> S] /\ F[0] = init
  BY <1>3
<1>5. ASSUME NEW n \in Nat PROVE F[n + 1] = step[<<n, F[n]>>]
  <2>1. Upto(n + 1)[n] = Upto(n)[n]
    <3>1. Good(Upto(n), n) /\ Good(Upto(n + 1), n + 1) /\ n <= n /\ n <= n + 1 /\ n + 1 \in Nat
      BY <1>3
    <3> HIDE DEF Good
    <3> QED BY <3>1, <1>2
  <2>2. n \in 0 .. (n + 1) - 1 /\ n + 1 \in Nat
    OBVIOUS
  <2>3. Upto(n + 1)[n + 1] = step[<<n, Upto(n + 1)[n]>>]
    BY <1>3, <2>2
  <2> HIDE DEF Good
  <2> QED BY <2>1, <2>2, <2>3
<1> HIDE DEF F, Good
<1> QED BY <1>4, <1>5 DEF Recursive

-----------------------------------------------------------------------------
(* Divisibility by the number of elements of the field.                    *)
Divides(x) == \E k \in Int : x = k * P

LEMMA Remainder ==
  ASSUME NEW x \in Int
  PROVE  /\ x % P \in Field /\ x % P \in Int /\ Divides(x - (x % P))
         /\ x % P = 0 <=> Divides(x)
<1>1. P \in Nat \ {0}
  BY LookupAssumption
<1>2. x \div P \in Int /\ x % P \in 0 .. P - 1 /\ x = P * (x \div P) + (x % P)
  BY <1>1
<1>3. Divides(x - (x % P))
  BY <1>1, <1>2 DEF Divides
<1>4. x % P = 0 => Divides(x)
  BY <1>1, <1>2 DEF Divides
<1>5. ASSUME Divides(x) PROVE x % P = 0
  <2>1. PICK k \in Int : x = k * P
    BY <1>5 DEF Divides
  <2> QED BY <2>1, <1>1
<1> QED BY <1>2, <1>3, <1>4, <1>5 DEF Field

LEMMA Multiples ==
  ASSUME NEW x \in Int, NEW y \in Int, Divides(x)
  PROVE  /\ Divides(x * y) /\ Divides(y * x)
         /\ Divides(y) => Divides(x + y) /\ Divides(x - y)
<1>1. P \in Int
  BY LookupAssumption
<1>2. PICK k \in Int : x = k * P
  BY DEF Divides
<1>3. k * y \in Int /\ x * y = (k * y) * P /\ y * x = (k * y) * P
  BY <1>1, <1>2
<1>4. ASSUME Divides(y) PROVE Divides(x + y) /\ Divides(x - y)
  <2>1. PICK m \in Int : y = m * P
    BY <1>4 DEF Divides
  <2>2. x + y = (k + m) * P /\ x - y = (k - m) * P /\ k + m \in Int /\ k - m \in Int
    BY <1>1, <1>2, <2>1
  <2> QED BY <2>2 DEF Divides
<1> QED BY <1>3, <1>4 DEF Divides

(* The field has no divisors of zero.                                      *)
LEMMA OneIsZero ==
  ASSUME NEW x \in Int, NEW y \in Int, Divides(x * y)
  PROVE  Divides(x) \/ Divides(y)
<1> DEFINE a == x % P
           b == y % P
<1>1. a \in Field /\ b \in Field /\ Divides(x - a) /\ Divides(y - b)
  BY Remainder
<1>2. (a = 0 <=> Divides(x)) /\ (b = 0 <=> Divides(y))
  BY Remainder
<1> HIDE DEF a, b
<1>3. a \in Int /\ b \in Int
  BY <1>1, LookupAssumption DEF Field
<1>4. x - a \in Int /\ y - b \in Int /\ x * y \in Int /\ a * b \in Int
  BY <1>3
<1>5. Divides((x - a) * y) /\ Divides(a * (y - b))
  BY <1>1, <1>3, <1>4, Multiples
<1>6. (x - a) * y \in Int /\ a * (y - b) \in Int /\ x * y - (x - a) * y \in Int /\ a * y \in Int
  BY <1>3, <1>4
<1>7. x * y - (x - a) * y = a * y /\ a * y - a * (y - b) = a * b
  BY <1>3
<1>8. Divides(a * y)
  BY <1>4, <1>5, <1>6, <1>7, Multiples
<1>9. Divides(a * b)
  BY <1>3, <1>5, <1>6, <1>7, <1>8, Multiples
<1>10. (a * b) % P = 0
  BY <1>4, <1>9, Remainder
<1>11. a = 0 \/ b = 0
  BY <1>1, <1>10, FieldAssumption
<1> QED BY <1>2, <1>11

(* Different elements of the field do not differ by a multiple of P.       *)
LEMMA Different ==
  ASSUME NEW x \in Field, NEW y \in Field, Divides(x - y)
  PROVE  x = y
<1>1. P \in Nat \ {0} /\ x \in 0 .. P - 1 /\ y \in 0 .. P - 1
  BY LookupAssumption DEF Field
<1>2. PICK k \in Int : x - y = k * P
  BY DEF Divides
<1>3. k = 0
  <2>1. k >= 1 => k * P >= P
    BY <1>1
  <2>2. k <= -1 => k * P <= -P
    BY <1>1
  <2> QED BY <1>1, <1>2, <2>1, <2>2
<1> QED BY <1>1, <1>2, <1>3

-----------------------------------------------------------------------------
(* Functions of the field that are polynomials of degree at most d: a      *)
(* constant, or at every point a value and a multiple of the distance from *)
(* the point by a polynomial of a lower degree.                            *)
Constant(h) == h \in [Field -> Int] /\ \A x, y \in Field : h[x] = h[y]

Over(X) ==
  {h \in [Field -> Int] :
     \A a \in Field : \E q \in X : \A x \in Field : h[x] = h[a] + (x - a) * q[x]}

Polynomials ==
  CHOOSE F \in [Nat -> SUBSET [Field -> Int]] :
    /\ F[0] = {h \in [Field -> Int] : Constant(h)}
    /\ \A d \in Nat : F[d + 1] = Over(F[d])

LEMMA PolynomialDegrees ==
  /\ Polynomials \in [Nat -> SUBSET [Field -> Int]]
  /\ Polynomials[0] = {h \in [Field -> Int] : Constant(h)}
  /\ \A d \in Nat : Polynomials[d + 1] = Over(Polynomials[d])
<1> DEFINE S == SUBSET [Field -> Int]
           init == {h \in [Field -> Int] : Constant(h)}
           step == [p \in Nat \X S |-> Over(p[2])]
<1>1. init \in S /\ step \in [Nat \X S -> S]
  BY DEF Over
<1>2. \A d \in Nat, X \in S : step[<<d, X>>] = Over(X)
  OBVIOUS
<1> HIDE DEF S, step, init
<1>3. PICK F \in [Nat -> S] : F[0] = init /\ \A n \in Nat : F[n + 1] = step[<<n, F[n]>>]
  <2>1. Recursive(S, init, step)
    BY <1>1, Recursion
  <2> QED BY <2>1 DEF Recursive
<1>4. \A n \in Nat : F[n + 1] = Over(F[n])
  BY <1>2, <1>3
<1> DEFINE Good(G) == G[0] = init /\ \A d \in Nat : G[d + 1] = Over(G[d])
<1>5. \E G \in [Nat -> S] : Good(G)
  BY <1>3, <1>4
<1>6. Polynomials = CHOOSE G \in [Nat -> S] : Good(G)
  BY DEF Polynomials, S, init
<1> HIDE DEF Good
<1>7. Polynomials \in [Nat -> S] /\ Good(Polynomials)
  BY <1>5, <1>6
<1> QED BY <1>7 DEF S, init, Good

LEMMA PolynomialFunctions ==
  ASSUME NEW d \in Nat, NEW h \in Polynomials[d]
  PROVE  h \in [Field -> Int] /\ \A x \in Field : x \in Int /\ h[x] \in Int
<1>1. Polynomials[d] \in SUBSET [Field -> Int]
  BY PolynomialDegrees
<1>2. \A x \in Field : x \in Int
  BY LookupAssumption DEF Field
<1> QED BY <1>1, <1>2

(* h is h(a) and a multiple of x - a.                                      *)
LEMMA Factored ==
  ASSUME NEW d \in Nat, NEW h \in Polynomials[d + 1], NEW a \in Field
  PROVE  \E q \in Polynomials[d] : \A x \in Field : h[x] = h[a] + (x - a) * q[x]
BY PolynomialDegrees DEF Over

LEMMA Nothing ==
  LET zero == [x \in Field |-> 0] IN zero \in Polynomials[0] /\ \A x \in Field : zero[x] = 0
<1> DEFINE zero == [x \in Field |-> 0]
<1>1. zero \in [Field -> Int] /\ Constant(zero)
  BY DEF Constant
<1> QED BY <1>1, PolynomialDegrees

LEMMA HigherDegree ==
  \A d \in Nat : Polynomials[d] \subseteq Polynomials[d + 1]
<1> DEFINE T == {d \in Nat : Polynomials[d] \subseteq Polynomials[d + 1]}
<1>1. 0 \in T
  <2> SUFFICES ASSUME NEW h \in Polynomials[0] PROVE h \in Polynomials[1]
    OBVIOUS
  <2>1. PICK z \in Polynomials[0] : \A x \in Field : z[x] = 0
    BY Nothing
  <2>2. h \in [Field -> Int] /\ Constant(h)
    BY PolynomialDegrees
  <2>3. \A a, x \in Field : h[x] = h[a] + (x - a) * z[x]
    <3> SUFFICES ASSUME NEW a \in Field, NEW x \in Field PROVE h[x] = h[a] + (x - a) * z[x]
      OBVIOUS
    <3>1. h[x] = h[a] /\ h[a] \in Int /\ x - a \in Int /\ z[x] = 0
      BY <2>1, <2>2, LookupAssumption DEF Constant, Field
    <3>2. \A k, m \in Int : m + k * 0 = m
      OBVIOUS
    <3> QED BY <3>1, <3>2
  <2>4. h \in Over(Polynomials[0])
    BY <2>1, <2>2, <2>3 DEF Over
  <2>5. Polynomials[0 + 1] = Over(Polynomials[0])
    BY PolynomialDegrees, Zenon
  <2>6. 0 + 1 = 1
    OBVIOUS
  <2> QED BY <2>4, <2>5, <2>6
<1>2. ASSUME NEW d \in Nat, d \in T PROVE d + 1 \in T
  <2> SUFFICES ASSUME NEW h \in Polynomials[d + 1] PROVE h \in Polynomials[d + 1 + 1]
    OBVIOUS
  <2>1. h \in Over(Polynomials[d])
    BY PolynomialDegrees
  <2>2. h \in Over(Polynomials[d + 1])
    BY <1>2, <2>1 DEF Over
  <2> QED BY <2>2, PolynomialDegrees
<1> HIDE DEF T
<1>3. Nat \subseteq T
  BY <1>1, <1>2, AllNumbers
<1> QED BY <1>3 DEF T

(* Sums and multiples.                                                     *)
Combined(g, c, h) == [x \in Field |-> g[x] + c * h[x]]

LEMMA Combination ==
  \A d \in Nat : \A g, h \in Polynomials[d] : \A c \in Int : Combined(g, c, h) \in Polynomials[d]
<1> DEFINE T == {d \in Nat : \A g, h \in Polynomials[d] : \A c \in Int :
                               Combined(g, c, h) \in Polynomials[d]}
<1>0. ASSUME NEW d \in Nat, NEW g \in Polynomials[d], NEW h \in Polynomials[d], NEW c \in Int
      PROVE  Combined(g, c, h) \in [Field -> Int]
  <2>1. \A x \in Field : g[x] \in Int /\ h[x] \in Int
    BY <1>0, PolynomialFunctions
  <2> QED BY <1>0, <2>1 DEF Combined
<1>1. 0 \in T
  <2> SUFFICES ASSUME NEW g \in Polynomials[0], NEW h \in Polynomials[0], NEW c \in Int
               PROVE  Combined(g, c, h) \in Polynomials[0]
    OBVIOUS
  <2>1. Constant(g) /\ Constant(h)
    BY PolynomialDegrees
  <2>2. Combined(g, c, h) \in [Field -> Int]
    BY <1>0
  <2>3. Constant(Combined(g, c, h))
    BY <2>1, <2>2 DEF Constant, Combined
  <2> QED BY <2>2, <2>3, PolynomialDegrees
<1>2. ASSUME NEW d \in Nat, d \in T PROVE d + 1 \in T
  <2> SUFFICES ASSUME NEW g \in Polynomials[d + 1], NEW h \in Polynomials[d + 1], NEW c \in Int
               PROVE  Combined(g, c, h) \in Polynomials[d + 1]
    OBVIOUS
  <2> DEFINE k == Combined(g, c, h)
  <2>1. k \in [Field -> Int]
    BY <1>0
  <2>2. ASSUME NEW a \in Field
        PROVE  \E q \in Polynomials[d] : \A x \in Field : k[x] = k[a] + (x - a) * q[x]
    <3>1. PICK q \in Polynomials[d] : \A x \in Field : g[x] = g[a] + (x - a) * q[x]
      BY <2>2, Factored
    <3>2. PICK r \in Polynomials[d] : \A x \in Field : h[x] = h[a] + (x - a) * r[x]
      BY <2>2, Factored
    <3>3. Combined(q, c, r) \in Polynomials[d]
      BY <1>2
    <3>4. ASSUME NEW x \in Field PROVE k[x] = k[a] + (x - a) * Combined(q, c, r)[x]
      <4>1. /\ k[x] = g[x] + c * h[x] /\ k[a] = g[a] + c * h[a]
            /\ Combined(q, c, r)[x] = q[x] + c * r[x]
        BY <3>4, <2>2 DEF Combined
      <4>2. /\ a \in Int /\ x \in Int /\ q[x] \in Int /\ r[x] \in Int
            /\ g[a] \in Int /\ h[a] \in Int
        BY <3>4, <2>2, PolynomialFunctions
      <4>3. \A m, n, s, u, w \in Int :
              (m + w * s) + c * (n + w * u) = (m + c * n) + w * (s + c * u)
        OBVIOUS
      <4>4. k[x] = (g[a] + (x - a) * q[x]) + c * (h[a] + (x - a) * r[x])
        BY <3>1, <3>2, <3>4, <4>1
      <4>5. x - a \in Int
        BY <4>2
      <4> HIDE DEF k
      <4> QED BY <4>1, <4>2, <4>3, <4>4, <4>5
    <3> HIDE DEF k
    <3> QED BY <3>3, <3>4
  <2> HIDE DEF k
  <2>3. k \in Over(Polynomials[d])
    BY <2>1, <2>2 DEF Over
  <2>4. k \in Polynomials[d + 1]
    BY <2>3, PolynomialDegrees
  <2> QED BY <2>4 DEF k
<1> HIDE DEF T
<1>3. Nat \subseteq T
  BY <1>1, <1>2, AllNumbers
<1> QED BY <1>3 DEF T

(* One more linear factor.                                                 *)
Raised(h, b) == [x \in Field |-> (x - b) * h[x]]

LEMMA OneDegreeMore ==
  ASSUME NEW d \in Nat, NEW h \in Polynomials[d], NEW b \in Int
  PROVE  Raised(h, b) \in Polynomials[d + 1]
<1>0. h \in [Field -> Int] /\ \A x \in Field : x \in Int /\ h[x] \in Int
  BY PolynomialFunctions
<1> DEFINE k == Raised(h, b)
<1>1. k \in [Field -> Int]
  BY <1>0 DEF Raised
<1>2. ASSUME NEW a \in Field
      PROVE  \E q \in Polynomials[d] : \A x \in Field : h[x] = h[a] + (x - a) * q[x]
  <2>1. CASE d = 0
    <3>1. PICK z \in Polynomials[0] : \A x \in Field : z[x] = 0
      BY Nothing
    <3>2. Constant(h)
      BY <2>1, PolynomialDegrees
    <3>3. \A m, n \in Int : m + n * 0 = m
      OBVIOUS
    <3>4. \A x \in Field : h[x] = h[a] + (x - a) * z[x]
      <4> TAKE x \in Field
      <4>1. h[x] = h[a] /\ h[a] \in Int /\ x - a \in Int /\ z[x] = 0
        BY <1>0, <1>2, <3>1, <3>2 DEF Constant
      <4> QED BY <4>1, <3>3
    <3> QED BY <2>1, <3>1, <3>4
  <2>2. CASE d # 0
    <3>1. d - 1 \in Nat /\ d - 1 + 1 = d
      BY <2>2
    <3>2. h \in Polynomials[d - 1 + 1]
      BY <3>1
    <3>3. PICK q \in Polynomials[d - 1] : \A x \in Field : h[x] = h[a] + (x - a) * q[x]
      BY <3>1, <3>2, <1>2, Factored
    <3>4. q \in Polynomials[d]
      BY <3>1, HigherDegree
    <3> QED BY <3>3, <3>4
  <2> QED BY <2>1, <2>2
<1>3. ASSUME NEW a \in Field
      PROVE  \E q \in Polynomials[d] : \A x \in Field : k[x] = k[a] + (x - a) * q[x]
  <2>1. PICK q \in Polynomials[d] : \A x \in Field : h[x] = h[a] + (x - a) * q[x]
    BY <1>2, <1>3
  <2>2. a \in Int /\ a - b \in Int /\ h[a] \in Int
    BY <1>0, <1>3
  <2>3. Combined(h, a - b, q) \in Polynomials[d]
    BY <2>2, Combination
  <2>4. ASSUME NEW x \in Field PROVE k[x] = k[a] + (x - a) * Combined(h, a - b, q)[x]
    <3>1. /\ k[x] = (x - b) * h[x] /\ k[a] = (a - b) * h[a]
          /\ Combined(h, a - b, q)[x] = h[x] + (a - b) * q[x]
      BY <2>4, <1>3 DEF Raised, Combined
    <3>2. h[x] = h[a] + (x - a) * q[x] /\ x \in Int /\ q[x] \in Int /\ h[x] \in Int
      BY <2>1, <2>4, <1>0, PolynomialFunctions
    <3>3. \A w, v, m, s \in Int :
            (w + v) * (m + w * s) = v * m + w * ((m + w * s) + v * s)
      OBVIOUS
    <3>4. x - b = (x - a) + (a - b) /\ x - a \in Int /\ a - b \in Int
      BY <2>2, <3>2
    <3>5. ((x - a) + (a - b)) * (h[a] + (x - a) * q[x])
            = (a - b) * h[a] + (x - a) * ((h[a] + (x - a) * q[x]) + (a - b) * q[x])
      BY <3>3, <3>4, <2>2, <3>2
    <3> HIDE DEF k
    <3> QED BY <3>1, <3>2, <3>4, <3>5
  <2> HIDE DEF k
  <2> QED BY <2>3, <2>4
<1> HIDE DEF k
<1>4. k \in Over(Polynomials[d])
  BY <1>1, <1>3 DEF Over
<1>5. k \in Polynomials[d + 1]
  BY <1>4, PolynomialDegrees
<1> QED BY <1>5 DEF k

(* A polynomial with more zeros than its degree is zero everywhere.        *)
LEMMA FewZeros ==
  \A d \in Nat : \A h \in Polynomials[d] : \A Z \in SUBSET Field :
    Cardinality(Z) > d /\ (\A x \in Z : Divides(h[x])) => \A x \in Field : Divides(h[x])
<1> DEFINE T == {d \in Nat : \A h \in Polynomials[d] : \A Z \in SUBSET Field :
                   Cardinality(Z) > d /\ (\A x \in Z : Divides(h[x])) => \A x \in Field : Divides(h[x])}
<1>0. ASSUME NEW Z \in SUBSET Field
      PROVE  /\ IsFiniteSet(Z) /\ Cardinality(Z) \in Nat /\ (Cardinality(Z) > 0 => Z # {})
             /\ \A a \in Z : Cardinality(Z \ {a}) = Cardinality(Z) - 1
  <2>1. IsFiniteSet(Field)
    BY LookupAssumption, FS_Interval DEF Field
  <2>2. IsFiniteSet(Z)
    BY <2>1, FS_Subset
  <2> QED BY <2>2, FS_CardinalityType, FS_EmptySet, FS_RemoveElement
<1>1. 0 \in T
  <2> SUFFICES ASSUME NEW h \in Polynomials[0], NEW Z \in SUBSET Field, Cardinality(Z) > 0,
                      \A x \in Z : Divides(h[x]), NEW x \in Field
               PROVE  Divides(h[x])
    OBVIOUS
  <2>1. PICK a \in Z : TRUE
    BY <1>0
  <2>2. h[x] = h[a]
    BY <2>1, PolynomialDegrees DEF Constant
  <2> QED BY <2>1, <2>2
<1>2. ASSUME NEW d \in Nat, d \in T PROVE d + 1 \in T
  <2> SUFFICES ASSUME NEW h \in Polynomials[d + 1], NEW Z \in SUBSET Field, Cardinality(Z) > d + 1,
                      \A x \in Z : Divides(h[x])
               PROVE  \A x \in Field : Divides(h[x])
    OBVIOUS
  <2>1. PICK a \in Z : TRUE
    BY <1>0
  <2>2. PICK q \in Polynomials[d] : \A x \in Field : h[x] = h[a] + (x - a) * q[x]
    BY <2>1, Factored
  <2>3. \A x \in Field : x \in Int /\ h[x] \in Int /\ q[x] \in Int
    BY <2>2, PolynomialFunctions
  <2>4. ASSUME NEW x \in Z \ {a} PROVE Divides(q[x])
    <3>1. Divides(h[x] - h[a])
      BY <2>1, <2>3, <2>4, Multiples
    <3>2. h[x] - h[a] = (x - a) * q[x] /\ x - a \in Int
      <4>1. \A m, n \in Int : (m + n) - m = n
        OBVIOUS
      <4>2. (x - a) * q[x] \in Int /\ x - a \in Int
        BY <2>1, <2>3, <2>4
      <4> QED BY <2>1, <2>2, <2>3, <2>4, <4>1, <4>2
    <3>3. Divides(x - a) \/ Divides(q[x])
      BY <3>1, <3>2, <2>3, <2>4, OneIsZero
    <3>4. ~ Divides(x - a)
      BY <2>1, <2>4, Different
    <3> QED BY <3>3, <3>4
  <2>5. \A x \in Field : Divides(q[x])
    <3>1. Z \ {a} \in SUBSET Field /\ Cardinality(Z \ {a}) > d
      BY <1>0, <2>1
    <3> QED BY <1>2, <3>1, <2>2, <2>4
  <2>6. \A x \in Field : Divides(h[a] + (x - a) * q[x])
    <3> TAKE x \in Field
    <3>1. x - a \in Int /\ q[x] \in Int /\ (x - a) * q[x] \in Int
      BY <2>1, <2>3
    <3>2. Divides((x - a) * q[x])
      BY <2>5, <3>1, Multiples
    <3>3. Divides(h[a]) /\ h[a] \in Int
      BY <2>1, <2>3
    <3> QED BY <3>1, <3>2, <3>3, Multiples
  <2> QED BY <2>2, <2>6
<1> HIDE DEF T
<1>3. Nat \subseteq T
  BY <1>1, <1>2, AllNumbers
<1> QED BY <1>3 DEF T

-----------------------------------------------------------------------------
(* The products of the gadget without the reductions modulo P: the product *)
(* of x - u[k] for the first elements of the list u.                       *)
Lists(n) == [1 .. n -> Field]

Term(u, x, k) == IF k \in DOMAIN u THEN x - u[k] ELSE 1

Whole(u, x) ==
  CHOOSE F \in [Nat -> Int] : F[0] = 1 /\ \A k \in Nat : F[k + 1] = F[k] * Term(u, x, k + 1)

LEMMA WholeProducts ==
  ASSUME NEW n \in Nat, NEW u \in Lists(n), NEW x \in Int
  PROVE  /\ Whole(u, x) \in [Nat -> Int]
         /\ Whole(u, x)[0] = 1
         /\ \A k \in Nat : Whole(u, x)[k + 1] = Whole(u, x)[k] * Term(u, x, k + 1)
         /\ \A k \in Nat : Term(u, x, k) \in Int
<1> DEFINE step == [p \in Nat \X Int |-> p[2] * Term(u, x, p[1] + 1)]
<1>1. \A k \in Nat : Term(u, x, k) \in Int
  BY LookupAssumption DEF Term, Field, Lists
<1>2. step \in [Nat \X Int -> Int] /\ 1 \in Int
  <2>1. \A k \in Nat, m \in Int : m * Term(u, x, k + 1) \in Int
    BY <1>1
  <2> QED BY <2>1
<1>3. \A k \in Nat, m \in Int : step[<<k, m>>] = m * Term(u, x, k + 1)
  OBVIOUS
<1> HIDE DEF step
<1>4. Recursive(Int, 1, step)
  BY <1>2, Recursion
<1>5. PICK F \in [Nat -> Int] : F[0] = 1 /\ \A k \in Nat : F[k + 1] = step[<<k, F[k]>>]
  BY <1>4 DEF Recursive
<1> DEFINE Good(G) == G[0] = 1 /\ \A k \in Nat : G[k + 1] = G[k] * Term(u, x, k + 1)
<1>6. Good(F)
  BY <1>3, <1>5
<1>7. Whole(u, x) = CHOOSE G \in [Nat -> Int] : Good(G)
  BY DEF Whole
<1> HIDE DEF Good
<1>8. Whole(u, x) \in [Nat -> Int] /\ Good(Whole(u, x))
  BY <1>6, <1>7
<1> QED BY <1>1, <1>8 DEF Good

LEMMA WholeStep ==
  ASSUME NEW n \in Nat, NEW u \in Lists(n), NEW x \in Int, NEW k \in 0 .. n - 1
  PROVE  /\ Whole(u, x)[k + 1] = Whole(u, x)[k] * (x - u[k + 1])
         /\ Whole(u, x)[k] \in Int /\ u[k + 1] \in Int /\ u[k + 1] \in Field
<1>1. k \in Nat /\ k + 1 \in 1 .. n /\ DOMAIN u = 1 .. n /\ u[k + 1] \in Field
  BY DEF Lists
<1>2. Whole(u, x) \in [Nat -> Int] /\ Whole(u, x)[k + 1] = Whole(u, x)[k] * Term(u, x, k + 1)
  BY <1>1, WholeProducts
<1> QED BY <1>1, <1>2, LookupAssumption DEF Term, Field

(* The product the gadget computes is the whole one modulo P.              *)
LEMMA ProductIsWhole ==
  ASSUME sz \in Nat, NEW u \in Lists(sz), NEW x \in Field
  PROVE  Product(x, u) \in Int /\ Divides(Whole(u, x)[sz] - Product(x, u))
<1>1. x \in Int /\ P \in Nat \ {0} /\ \A k \in 1 .. sz : u[k] \in Int /\ Factor(x, u[k]) \in Int
  <2>1. x \in Int /\ P \in Nat \ {0} /\ \A k \in 1 .. sz : u[k] \in Int
    BY LookupAssumption DEF Field, Lists
  <2>2. \A y \in Int : y % P \in Int
    BY Remainder, LookupAssumption DEF Field
  <2> QED BY <2>1, <2>2 DEF Factor
<1> DEFINE Next0(g, k) == IF k = 0 THEN 1 ELSE (g[k - 1] * Factor(x, u[k])) % P
           Good(g) == g = [k \in 0 .. sz |-> Next0(g, k)]
           prod == CHOOSE g : Good(g)
<1>2. Product(x, u) = prod[sz]
  BY DEF Product
<1>3. Good(prod)
  <2> DEFINE step == [p \in Nat \X Int |-> IF p[1] + 1 \in 1 .. sz THEN (p[2] * Factor(x, u[p[1] + 1])) % P ELSE 0]
  <2>1. step \in [Nat \X Int -> Int] /\ 1 \in Int
    <3>1. \A k \in 1 .. sz : \A m \in Int : (m * Factor(x, u[k])) % P \in Int
      <4>1. \A k \in 1 .. sz : \A m \in Int : m * Factor(x, u[k]) \in Int
        BY <1>1
      <4> QED BY <4>1, Remainder
    <3> QED BY <3>1
  <2>2. \A k \in Nat, m \in Int : k + 1 \in 1 .. sz => step[<<k, m>>] = (m * Factor(x, u[k + 1])) % P
    OBVIOUS
  <2> HIDE DEF step
  <2>3. Recursive(Int, 1, step)
    BY <2>1, Recursion
  <2>4. PICK F \in [Nat -> Int] : F[0] = 1 /\ \A k \in Nat : F[k + 1] = step[<<k, F[k]>>]
    BY <2>3 DEF Recursive
  <2> DEFINE g == [k \in 0 .. sz |-> F[k]]
  <2>5. \A k \in 0 .. sz : g[k] = Next0(g, k)
    <3> TAKE k \in 0 .. sz
    <3>1. CASE k = 0
      BY <3>1, <2>4
    <3>2. CASE k # 0
      <4>1. k - 1 \in Nat /\ k - 1 \in 0 .. sz /\ k \in 1 .. sz /\ (k - 1) + 1 = k
        BY <3>2
      <4>2. F[(k - 1) + 1] = (F[k - 1] * Factor(x, u[(k - 1) + 1])) % P
        BY <4>1, <2>2, <2>4
      <4> QED BY <4>1, <4>2, <3>2
    <3> QED BY <3>1, <3>2
  <2>6. g = [k \in 0 .. sz |-> g[k]]
    OBVIOUS
  <2> HIDE DEF g, Next0
  <2>7. Good(g)
    BY <2>5, <2>6
  <2> HIDE DEF Good
  <2> QED BY <2>7
<1> HIDE DEF prod
<1>4. prod[0] = 1 /\ \A k \in 0 .. sz - 1 : prod[k + 1] = (prod[k] * Factor(x, u[k + 1])) % P
  <2>1. prod[0] = Next0(prod, 0) /\ \A k \in 0 .. sz - 1 : prod[k + 1] = Next0(prod, k + 1)
    <3> HIDE DEF Next0
    <3> QED BY <1>3
  <2> QED BY <2>1
<1> HIDE DEF Good, Next0
<1> DEFINE W == Whole(u, x)
           T == {k \in Nat : k <= sz => prod[k] \in Int /\ Divides(W[k] - prod[k])}
<1>5. 0 \in T
  <2>1. W[0] = 1
    BY <1>1, WholeProducts
  <2>2. W[0] - prod[0] = 0 * P
    BY <1>1, <1>4, <2>1
  <2> QED BY <1>4, <2>2 DEF Divides
<1>6. ASSUME NEW k \in Nat, k \in T PROVE k + 1 \in T
  <2> SUFFICES ASSUME k + 1 <= sz PROVE prod[k + 1] \in Int /\ Divides(W[k + 1] - prod[k + 1])
    OBVIOUS
  <2>1. k \in 0 .. sz - 1 /\ k + 1 \in 1 .. sz /\ prod[k] \in Int /\ Divides(W[k] - prod[k])
    BY <1>6
  <2> DEFINE v == u[k + 1]
             e == x - v
             y == prod[k] * Factor(x, v)
  <2>2. W[k + 1] = W[k] * e /\ W[k] \in Int /\ e \in Int
    BY <1>1, <2>1, WholeStep
  <2>3. y \in Int /\ Factor(x, v) \in Int
    BY <1>1, <2>1
  <2>4. Divides(e - Factor(x, v))
    BY <2>2, Remainder DEF Factor
  <2>5. prod[k + 1] = y % P
    BY <1>4, <2>1
  <2> HIDE DEF e, y, W, T
  <2>6. prod[k + 1] \in Int /\ Divides(y - prod[k + 1])
    BY <2>3, <2>5, Remainder
  <2>7. Divides((W[k] - prod[k]) * e) /\ Divides(prod[k] * (e - Factor(x, v)))
    <3>1. W[k] - prod[k] \in Int /\ e - Factor(x, v) \in Int
      BY <2>1, <2>2, <2>3
    <3> QED BY <2>1, <2>2, <2>4, <3>1, Multiples
  <2>8. Divides((W[k] - prod[k]) * e + prod[k] * (e - Factor(x, v)))
    <3>1. (W[k] - prod[k]) * e \in Int /\ prod[k] * (e - Factor(x, v)) \in Int
      BY <2>1, <2>2, <2>3
    <3> QED BY <2>7, <3>1, Multiples
  <2>9. (W[k] - prod[k]) * e + prod[k] * (e - Factor(x, v)) = W[k] * e - y
    BY <2>1, <2>2, <2>3 DEF y
  <2>10. Divides((W[k] * e - y) + (y - prod[k + 1]))
    <3>1. W[k] * e - y \in Int /\ y - prod[k + 1] \in Int
      BY <2>2, <2>3, <2>6
    <3> QED BY <2>6, <2>8, <2>9, <3>1, Multiples
  <2>11. (W[k] * e - y) + (y - prod[k + 1]) = W[k + 1] - prod[k + 1]
    <3>1. W[k] * e \in Int
      BY <2>2
    <3> QED BY <2>2, <2>3, <2>6, <3>1
  <2> QED BY <2>6, <2>10, <2>11
<1> HIDE DEF T
<1>7. Nat \subseteq T
  BY <1>5, <1>6, AllNumbers
<1>8. sz \in T
  BY <1>7
<1> QED BY <1>2, <1>8 DEF T

(* The whole product as a function of the challenge: a polynomial.         *)
AsFunction(u, k) == [x \in Field |-> Whole(u, x)[k]]

LEMMA ProductDegree ==
  ASSUME NEW n \in Nat, NEW u \in Lists(n)
  PROVE  \A k \in 0 .. n : AsFunction(u, k) \in Polynomials[k]
<1> DEFINE T == {k \in Nat : k <= n => AsFunction(u, k) \in Polynomials[k]}
<1>0. \A x \in Field : x \in Int
  BY LookupAssumption DEF Field
<1>1. 0 \in T
  <2>1. \A x \in Field : AsFunction(u, 0)[x] = 1
    BY <1>0, WholeProducts DEF AsFunction
  <2>2. AsFunction(u, 0) = [x \in Field |-> AsFunction(u, 0)[x]]
    BY DEF AsFunction
  <2>3. AsFunction(u, 0) \in [Field -> Int] /\ Constant(AsFunction(u, 0))
    BY <2>1, <2>2 DEF Constant
  <2> QED BY <2>3, PolynomialDegrees
<1>2. ASSUME NEW k \in Nat, k \in T PROVE k + 1 \in T
  <2> SUFFICES ASSUME k + 1 <= n PROVE AsFunction(u, k + 1) \in Polynomials[k + 1]
    OBVIOUS
  <2>1. k \in 0 .. n - 1 /\ AsFunction(u, k) \in Polynomials[k]
    BY <1>2
  <2>2. \A x \in Field : /\ Whole(u, x)[k + 1] = Whole(u, x)[k] * (x - u[k + 1])
                         /\ Whole(u, x)[k] \in Int /\ u[k + 1] \in Int
    BY <1>0, <2>1, WholeStep
  <2>3. PICK b \in Int : b = u[k + 1]
    <3>1. k + 1 \in 1 .. n
      BY <2>1
    <3> QED BY <3>1, <1>0 DEF Lists
  <2>4. \A x \in Field : Whole(u, x)[k + 1] = (x - b) * Whole(u, x)[k]
    BY <1>0, <2>2, <2>3
  <2>5. AsFunction(u, k + 1) = Raised(AsFunction(u, k), b)
    BY <2>4 DEF AsFunction, Raised
  <2> QED BY <2>1, <2>5, OneDegreeMore
<1> HIDE DEF T
<1>3. Nat \subseteq T
  BY <1>1, <1>2, AllNumbers
<1> QED BY <1>3 DEF T

(* Both products are monic: their difference has a lower degree.           *)
Gap(s, u, k) == [x \in Field |-> Whole(s, x)[k] - Whole(u, x)[k]]

LEMMA GapDegree ==
  ASSUME NEW n \in Nat, NEW s \in Lists(n), NEW u \in Lists(n)
  PROVE  \A k \in 0 .. n - 1 : Gap(s, u, k + 1) \in Polynomials[k]
<1> DEFINE T == {k \in Nat : k + 1 <= n => Gap(s, u, k + 1) \in Polynomials[k]}
<1>0. \A x \in Field : x \in Int
  BY LookupAssumption DEF Field
<1>1. 0 \in T
  <2> SUFFICES ASSUME 1 <= n PROVE Gap(s, u, 1) \in Polynomials[0]
    OBVIOUS
  <2>1. 0 \in 0 .. n - 1 /\ 0 + 1 = 1 /\ 1 \in 1 .. n
    OBVIOUS
  <2>2. s[1] \in Int /\ u[1] \in Int
    BY <2>1, <1>0 DEF Lists
  <2>3. ASSUME NEW x \in Field PROVE Gap(s, u, 1)[x] = u[1] - s[1]
    <3>1. /\ Whole(s, x)[0 + 1] = Whole(s, x)[0] * (x - s[0 + 1])
          /\ Whole(u, x)[0 + 1] = Whole(u, x)[0] * (x - u[0 + 1])
      BY <1>0, <2>1, WholeStep
    <3>2. Whole(s, x)[0] = 1 /\ Whole(u, x)[0] = 1
      BY <1>0, WholeProducts
    <3>3. x \in Int
      BY <1>0
    <3>4. Whole(s, x)[1] = x - s[1] /\ Whole(u, x)[1] = x - u[1]
      BY <3>1, <3>2, <3>3, <2>1, <2>2
    <3> QED BY <2>2, <3>3, <3>4 DEF Gap
  <2>4. Gap(s, u, 1) = [x \in Field |-> Gap(s, u, 1)[x]]
    BY DEF Gap
  <2>5. Gap(s, u, 1) \in [Field -> Int] /\ Constant(Gap(s, u, 1))
    BY <2>2, <2>3, <2>4 DEF Constant
  <2> QED BY <2>5, PolynomialDegrees
<1>2. ASSUME NEW k \in Nat, k \in T PROVE k + 1 \in T
  <2> SUFFICES ASSUME k + 1 + 1 <= n PROVE Gap(s, u, k + 1 + 1) \in Polynomials[k + 1]
    OBVIOUS
  <2> DEFINE m == k + 1
  <2>1. m \in 0 .. n - 1 /\ m + 1 \in 1 .. n /\ m \in 0 .. n /\ m \in Nat
    OBVIOUS
  <2>2. Gap(s, u, m) \in Polynomials[k]
    BY <1>2
  <2> HIDE DEF m, T
  <2>3. s[m + 1] \in Int /\ u[m + 1] \in Int /\ u[m + 1] - s[m + 1] \in Int
    <3>1. s[m + 1] \in Int /\ u[m + 1] \in Int
      BY <2>1, <1>0 DEF Lists
    <3> QED BY <3>1
  <2>4. Raised(Gap(s, u, m), s[m + 1]) \in Polynomials[m]
    BY <2>2, <2>3, OneDegreeMore DEF m
  <2>5. AsFunction(u, m) \in Polynomials[m]
    BY <2>1, ProductDegree
  <2>6. Combined(Raised(Gap(s, u, m), s[m + 1]), u[m + 1] - s[m + 1], AsFunction(u, m)) \in Polynomials[m]
    BY <2>1, <2>3, <2>4, <2>5, Combination
  <2>7. ASSUME NEW x \in Field
        PROVE  Whole(s, x)[m + 1] - Whole(u, x)[m + 1]
                 = (x - s[m + 1]) * (Whole(s, x)[m] - Whole(u, x)[m]) + (u[m + 1] - s[m + 1]) * Whole(u, x)[m]
    <3>1. /\ Whole(s, x)[m + 1] = Whole(s, x)[m] * (x - s[m + 1]) /\ Whole(s, x)[m] \in Int
          /\ Whole(u, x)[m + 1] = Whole(u, x)[m] * (x - u[m + 1]) /\ Whole(u, x)[m] \in Int
      BY <1>0, <2>1, WholeStep
    <3>2. \A y, a, b, v, w \in Int :
            v * (y - a) - w * (y - b) = (y - a) * (v - w) + (b - a) * w
      OBVIOUS
    <3> QED BY <1>0, <2>3, <3>1, <3>2
  <2>8. Gap(s, u, m + 1)
          = Combined(Raised(Gap(s, u, m), s[m + 1]), u[m + 1] - s[m + 1], AsFunction(u, m))
    BY <2>7 DEF Gap, Combined, Raised, AsFunction
  <2> QED BY <2>6, <2>8 DEF m
<1> HIDE DEF T
<1>3. Nat \subseteq T
  BY <1>1, <1>2, AllNumbers
<1> QED BY <1>3 DEF T

-----------------------------------------------------------------------------
(* Products of shorter lists: the first elements, and all but one.         *)
First(u, m)   == [k \in 1 .. m |-> u[k]]
Without(u, j, m) == [k \in 1 .. m |-> IF k < j THEN u[k] ELSE u[k + 1]]

LEMMA WholeFirst ==
  ASSUME NEW m \in Nat, NEW u \in Lists(m + 1), NEW x \in Int
  PROVE  /\ First(u, m) \in Lists(m)
         /\ \A k \in 0 .. m : Whole(First(u, m), x)[k] = Whole(u, x)[k]
<1> DEFINE w == First(u, m)
<1>1. w \in Lists(m) /\ \A k \in 1 .. m : w[k] = u[k]
  BY DEF First, Lists
<1> HIDE DEF w
<1> DEFINE T == {k \in Nat : k <= m => Whole(w, x)[k] = Whole(u, x)[k]}
<1>2. 0 \in T
  <2>1. Whole(w, x)[0] = 1
    BY <1>1, WholeProducts
  <2>2. Whole(u, x)[0] = 1 /\ m + 1 \in Nat
    BY WholeProducts
  <2> QED BY <2>1, <2>2
<1>3. ASSUME NEW k \in Nat, k \in T PROVE k + 1 \in T
  <2> SUFFICES ASSUME k + 1 <= m PROVE Whole(w, x)[k + 1] = Whole(u, x)[k + 1]
    OBVIOUS
  <2>1. k \in 0 .. m - 1 /\ k \in 0 .. (m + 1) - 1 /\ k + 1 \in 1 .. m /\ m + 1 \in Nat
    OBVIOUS
  <2>2. Whole(w, x)[k + 1] = Whole(w, x)[k] * (x - w[k + 1])
    BY <1>1, <2>1, WholeStep
  <2>3. Whole(u, x)[k + 1] = Whole(u, x)[k] * (x - u[k + 1])
    BY <2>1, WholeStep
  <2> QED BY <1>1, <1>3, <2>1, <2>2, <2>3
<1> HIDE DEF T
<1>4. Nat \subseteq T
  BY <1>2, <1>3, AllNumbers
<1> QED BY <1>1, <1>4 DEF T, w

LEMMA WholeWithout ==
  ASSUME NEW m \in Nat, NEW u \in Lists(m + 1), NEW j \in 1 .. m + 1, NEW x \in Int
  PROVE  /\ Without(u, j, m) \in Lists(m)
         /\ Whole(u, x)[m + 1] = (x - u[j]) * Whole(Without(u, j, m), x)[m]
<1> DEFINE w == Without(u, j, m)
<1>1. w \in Lists(m) /\ \A k \in 1 .. m : w[k] = IF k < j THEN u[k] ELSE u[k + 1]
  BY DEF Without, Lists
<1>0. u[j] \in Int /\ m + 1 \in Nat
  BY LookupAssumption DEF Lists, Field
<1> HIDE DEF w
<1> DEFINE Same(k) == Whole(w, x)[k] = Whole(u, x)[k]
           More(k) == Whole(u, x)[k + 1] = (x - u[j]) * Whole(w, x)[k]
           T == {k \in Nat : k <= m => (k < j => Same(k)) /\ (j <= k + 1 => More(k))}
<1>2. ASSUME NEW k \in 0 .. m, k + 1 = j, Same(k) PROVE More(k)
  <2>1. k \in 0 .. (m + 1) - 1
    OBVIOUS
  <2>2. Whole(u, x)[k + 1] = Whole(u, x)[k] * (x - u[k + 1]) /\ Whole(u, x)[k] \in Int
    BY <1>0, <2>1, WholeStep
  <2>3. \A y, z \in Int : y * z = z * y
    OBVIOUS
  <2>4. x - u[j] \in Int
    BY <1>0
  <2> QED BY <1>2, <2>2, <2>3, <2>4
<1>3. 0 \in T
  <2>1. Whole(w, x)[0] = 1
    BY <1>1, WholeProducts
  <2>2. Whole(u, x)[0] = 1
    BY <1>0, WholeProducts
  <2>3. j <= 0 + 1 => 0 + 1 = j /\ 0 \in 0 .. m
    OBVIOUS
  <2>4. Same(0)
    BY <2>1, <2>2
  <2> HIDE DEF Same, More
  <2> QED BY <2>3, <2>4, <1>2
<1>4. ASSUME NEW k \in Nat, k \in T PROVE k + 1 \in T
  <2> SUFFICES ASSUME k + 1 <= m
               PROVE  (k + 1 < j => Same(k + 1)) /\ (j <= k + 1 + 1 => More(k + 1))
    BY DEF T
  <2>1. k \in 0 .. m - 1 /\ k + 1 \in 0 .. (m + 1) - 1 /\ k \in 0 .. (m + 1) - 1 /\ k + 1 \in 1 .. m /\ k + 1 \in 0 .. m
    OBVIOUS
  <2>2. Whole(w, x)[k + 1] = Whole(w, x)[k] * (x - w[k + 1]) /\ Whole(w, x)[k] \in Int /\ w[k + 1] \in Int
    BY <1>1, <2>1, WholeStep
  <2>3. Whole(u, x)[k + 1] = Whole(u, x)[k] * (x - u[k + 1])
    BY <1>0, <2>1, WholeStep
  <2>4. Whole(u, x)[k + 1 + 1] = Whole(u, x)[k + 1] * (x - u[k + 1 + 1])
    BY <1>0, <2>1, WholeStep
  <2>5. (k < j => Same(k)) /\ (j <= k + 1 => More(k))
    BY <1>4
  <2>6. k + 1 < j => Same(k + 1)
    <3> HAVE k + 1 < j
    <3>1. w[k + 1] = u[k + 1] /\ k < j
      BY <1>1, <2>1
    <3> QED BY <2>2, <2>3, <2>5, <3>1
  <2>7. ASSUME j <= k + 1 PROVE More(k + 1)
    <3>1. w[k + 1] = u[k + 1 + 1]
      BY <1>1, <2>1, <2>7
    <3>2. Whole(u, x)[k + 1] = (x - u[j]) * Whole(w, x)[k]
      BY <2>5, <2>7
    <3>3. \A a, b, c \in Int : (a * b) * c = a * (b * c)
      OBVIOUS
    <3>4. x - u[j] \in Int /\ x - w[k + 1] \in Int
      BY <1>0, <2>2
    <3> QED BY <2>2, <2>4, <3>1, <3>2, <3>3, <3>4
  <2>8. ASSUME j = k + 1 + 1 PROVE More(k + 1)
    <3>1. Same(k + 1)
      BY <2>6, <2>8
    <3> HIDE DEF Same, More
    <3> QED BY <2>1, <2>8, <3>1, <1>2
  <2>9. j <= k + 1 + 1 => j <= k + 1 \/ j = k + 1 + 1
    OBVIOUS
  <2> HIDE DEF Same, More
  <2> QED BY <2>6, <2>7, <2>8, <2>9
<1> HIDE DEF T
<1>5. Nat \subseteq T
  BY <1>3, <1>4, AllNumbers
<1>6. More(m)
  <2>1. m \in T /\ m <= m /\ j <= m + 1
    BY <1>5
  <2> HIDE DEF Same, More
  <2> QED BY <2>1 DEF T
<1> QED BY <1>1, <1>6 DEF w

(* Where a product is zero the list has an element, and conversely.        *)
LEMMA ZeroIsElement ==
  ASSUME NEW n \in Nat \ {0}, NEW u \in Lists(n), NEW x \in Field, Divides(Whole(u, x)[n])
  PROVE  \E j \in 1 .. n : u[j] = x
<1>1. x \in Int /\ P \in Nat \ {0} /\ n \in Nat
  BY LookupAssumption DEF Field
<1> DEFINE T == {k \in Nat : k <= n /\ Divides(Whole(u, x)[k]) => P = 1 \/ \E j \in 1 .. k : u[j] = x}
<1>2. 0 \in T
  <2>1. Whole(u, x)[0] = 1
    BY <1>1, WholeProducts
  <2>2. Divides(1) => P = 1
    <3>1. Divides(1) => 1 % P = 0
      BY Remainder
    <3>2. P > 1 => 1 % P = 1
      BY <1>1
    <3> QED BY <1>1, <3>1, <3>2
  <2> QED BY <2>1, <2>2
<1>3. ASSUME NEW k \in Nat, k \in T PROVE k + 1 \in T
  <2> SUFFICES ASSUME k + 1 <= n, Divides(Whole(u, x)[k + 1])
               PROVE  P = 1 \/ \E j \in 1 .. k + 1 : u[j] = x
    OBVIOUS
  <2>1. k \in 0 .. n - 1 /\ k + 1 \in 1 .. n
    OBVIOUS
  <2>2. /\ Whole(u, x)[k + 1] = Whole(u, x)[k] * (x - u[k + 1])
        /\ Whole(u, x)[k] \in Int /\ u[k + 1] \in Int /\ u[k + 1] \in Field
    BY <1>1, <2>1, WholeStep
  <2>3. x - u[k + 1] \in Int
    BY <1>1, <2>2
  <2>4. Divides(Whole(u, x)[k]) \/ Divides(x - u[k + 1])
    BY <2>2, <2>3, OneIsZero
  <2>5. Divides(x - u[k + 1]) => u[k + 1] = x
    BY <2>2, Different
  <2>6. Divides(Whole(u, x)[k]) => P = 1 \/ \E j \in 1 .. k : u[j] = x
    BY <1>3, <2>1
  <2> QED BY <2>1, <2>4, <2>5, <2>6
<1> HIDE DEF T
<1>4. Nat \subseteq T
  BY <1>2, <1>3, AllNumbers
<1>5. P = 1 \/ \E j \in 1 .. n : u[j] = x
  BY <1>1, <1>4 DEF T
<1>6. ASSUME P = 1 PROVE u[1] = x /\ 1 \in 1 .. n
  <2>1. 1 \in 1 .. n
    BY <1>1
  <2>2. u[1] \in Field /\ Field = {0}
    BY <1>6, <2>1 DEF Lists, Field
  <2> QED BY <2>1, <2>2
<1> QED BY <1>5, <1>6

LEMMA ElementIsZero ==
  ASSUME NEW m \in Nat, NEW u \in Lists(m + 1)
  PROVE  Whole(u, u[m + 1])[m + 1] = 0
<1>1. m \in 0 .. (m + 1) - 1 /\ m + 1 \in Nat /\ m + 1 \in 1 .. m + 1
  OBVIOUS
<1>2. u[m + 1] \in Int
  BY <1>1, LookupAssumption DEF Lists, Field
<1> DEFINE x == u[m + 1]
<1>3. Whole(u, x)[m + 1] = Whole(u, x)[m] * (x - u[m + 1]) /\ Whole(u, x)[m] \in Int
  BY <1>1, <1>2, WholeStep
<1>4. x - u[m + 1] = 0
  BY <1>2
<1>5. \A y \in Int : y * 0 = 0
  OBVIOUS
<1> HIDE DEF x
<1>6. Whole(u, x)[m + 1] = 0
  BY <1>3, <1>4, <1>5
<1> QED BY <1>6 DEF x

(* A permutation of all but one element, and that element.                 *)
LEMMA OneElementMore ==
  ASSUME NEW m \in Nat, NEW s \in Lists(m + 1), NEW u \in Lists(m + 1), NEW j \in 1 .. m + 1,
         u[j] = s[m + 1], PermutationOf(First(s, m), Without(u, j, m))
  PROVE  PermutationOf(s, u)
<1> DEFINE w == Without(u, j, m)
           skip(k) == IF k < j THEN k ELSE k + 1
<1>1. DOMAIN w = 1 .. m /\ DOMAIN u = 1 .. m + 1 /\ DOMAIN s = 1 .. m + 1
  BY DEF Without, Lists
<1>2. PICK p \in Bijections(1 .. m) : First(s, m) = Rearranged(w, p)
  BY <1>1 DEF PermutationOf
<1>3. p \in [1 .. m -> 1 .. m] /\ (\A x, y \in 1 .. m : p[x] = p[y] => x = y)
        /\ \A y \in 1 .. m : \E x \in 1 .. m : p[x] = y
  BY <1>2 DEF Bijections
<1>4. \A k \in 1 .. m : s[k] = u[skip(p[k])]
  <2> TAKE k \in 1 .. m
  <2>1. First(s, m)[k] = s[k] /\ Rearranged(w, p)[k] = w[p[k]] /\ p[k] \in 1 .. m
    BY <1>1, <1>3 DEF First, Rearranged
  <2>2. w[p[k]] = u[skip(p[k])]
    BY <2>1 DEF Without
  <2> QED BY <1>2, <2>1, <2>2
<1> DEFINE q == [k \in 1 .. m + 1 |-> IF k = m + 1 THEN j ELSE skip(p[k])]
<1>5. \A k \in 1 .. m + 1 : k = m + 1 \/ (k \in 1 .. m /\ p[k] \in 1 .. m)
  <2>1. \A k \in 1 .. m + 1 : k = m + 1 \/ k \in 1 .. m
    OBVIOUS
  <2> HIDE DEF q
  <2> QED BY <2>1, <1>3
<1>6. q \in [1 .. m + 1 -> 1 .. m + 1]
  BY <1>5
<1>7. \A x, y \in 1 .. m + 1 : q[x] = q[y] => x = y
  <2>1. \A k, l \in 1 .. m : (skip(k) = skip(l) => k = l) /\ skip(k) # j
    OBVIOUS
  <2> TAKE x, y \in 1 .. m + 1
  <2>2. CASE x = m + 1 /\ y = m + 1
    BY <2>2
  <2>3. CASE x # m + 1 /\ y = m + 1
    BY <2>1, <2>3, <1>5
  <2>4. CASE x = m + 1 /\ y # m + 1
    BY <2>1, <2>4, <1>5
  <2>5. CASE x # m + 1 /\ y # m + 1
    <3>1. q[x] = skip(p[x]) /\ q[y] = skip(p[y])
      BY <2>5
    <3> HIDE DEF q, skip
    <3>2. x \in 1 .. m /\ y \in 1 .. m /\ p[x] \in 1 .. m /\ p[y] \in 1 .. m
      BY <2>5, <1>5
    <3>3. skip(p[x]) = skip(p[y]) => p[x] = p[y]
      BY <2>1, <3>2
    <3> QED BY <3>1, <3>2, <3>3, <1>3
  <2> QED BY <2>2, <2>3, <2>4, <2>5
<1>8. \A y \in 1 .. m + 1 : \E x \in 1 .. m + 1 : q[x] = y
  <2> TAKE y \in 1 .. m + 1
  <2>1. CASE y = j
    <3>1. q[m + 1] = y /\ m + 1 \in 1 .. m + 1
      BY <2>1
    <3> QED BY <3>1
  <2>2. CASE y # j
    <3>1. PICK z \in 1 .. m : skip(z) = y
      <4>1. CASE y < j
        <5>1. y \in 1 .. m /\ skip(y) = y
          BY <4>1
        <5> QED BY <5>1
      <4>2. CASE ~ (y < j)
        <5>1. y - 1 \in 1 .. m /\ skip(y - 1) = y
          BY <4>2, <2>2
        <5> QED BY <5>1
      <4> QED BY <4>1, <4>2
    <3>2. PICK x \in 1 .. m : p[x] = z
      BY <1>3
    <3>3. x \in 1 .. m + 1 /\ x # m + 1
      OBVIOUS
    <3>4. q[x] = skip(p[x])
      BY <3>3
    <3> HIDE DEF q, skip
    <3> QED BY <3>1, <3>2, <3>3, <3>4
  <2> QED BY <2>1, <2>2
<1>9. \A k \in 1 .. m + 1 : s[k] = u[q[k]]
  <2> TAKE k \in 1 .. m + 1
  <2>1. CASE k = m + 1
    BY <2>1
  <2>2. CASE k # m + 1
    <3>1. q[k] = skip(p[k]) /\ k \in 1 .. m
      BY <2>2, <1>5
    <3> HIDE DEF q, skip
    <3> QED BY <1>4, <3>1
  <2> QED BY <2>1, <2>2
<1> HIDE DEF q
<1>10. q \in Bijections(1 .. m + 1)
  BY <1>6, <1>7, <1>8 DEF Bijections
<1>11. s = Rearranged(u, q)
  BY <1>1, <1>9 DEF Rearranged, Lists
<1> QED BY <1>1, <1>10, <1>11 DEF PermutationOf

(* Lists of n elements whose products agree at n points are permutations   *)
(* of each other.                                                          *)
Agree(s, u, n, Z) == \A x \in Z : Divides(Whole(s, x)[n] - Whole(u, x)[n])

LEMMA AgreementIsPermutation ==
  \A n \in Nat : \A s, u \in Lists(n) : \A Z \in SUBSET Field :
    Cardinality(Z) >= n /\ Agree(s, u, n, Z) => PermutationOf(s, u)
<1> DEFINE T == {n \in Nat : \A s, u \in Lists(n) : \A Z \in SUBSET Field :
                   Cardinality(Z) >= n /\ Agree(s, u, n, Z) => PermutationOf(s, u)}
<1>1. 0 \in T
  <2> SUFFICES ASSUME NEW s \in Lists(0), NEW u \in Lists(0) PROVE PermutationOf(s, u)
    OBVIOUS
  <2> DEFINE p == [k \in 1 .. 0 |-> k]
  <2>1. DOMAIN s = 1 .. 0 /\ DOMAIN u = 1 .. 0 /\ ~ \E k \in 1 .. 0 : TRUE
    BY DEF Lists
  <2>2. p \in Bijections(1 .. 0)
    BY <2>1 DEF Bijections
  <2>3. s = Rearranged(u, p)
    BY <2>1 DEF Rearranged, Lists
  <2> QED BY <2>1, <2>2, <2>3 DEF PermutationOf
<1>2. ASSUME NEW m \in Nat, m \in T PROVE m + 1 \in T
  <2> SUFFICES ASSUME NEW s \in Lists(m + 1), NEW u \in Lists(m + 1), NEW Z \in SUBSET Field,
                      Cardinality(Z) >= m + 1, Agree(s, u, m + 1, Z)
               PROVE  PermutationOf(s, u)
    OBVIOUS
  <2>0. m + 1 \in Nat /\ m + 1 \in Nat \ {0} /\ \A x \in Field : x \in Int
    BY LookupAssumption DEF Field
  <2>1. \A x \in Field : Divides(Whole(s, x)[m + 1] - Whole(u, x)[m + 1])
    <3>1. m \in 0 .. (m + 1) - 1
      OBVIOUS
    <3>2. Gap(s, u, m + 1) \in Polynomials[m]
      BY <2>0, <3>1, GapDegree
    <3>3. IsFiniteSet(Field)
      BY LookupAssumption, FS_Interval DEF Field
    <3>4. Cardinality(Z) \in Nat
      BY <3>3, FS_Subset, FS_CardinalityType
    <3>5. Cardinality(Z) > m
      BY <3>4
    <3>6. \A x \in Z : Divides(Gap(s, u, m + 1)[x])
      BY DEF Agree, Gap
    <3>7. \A x \in Field : Divides(Gap(s, u, m + 1)[x])
      BY <3>2, <3>5, <3>6, FewZeros
    <3> QED BY <3>7 DEF Gap
  <2> DEFINE a == s[m + 1]
  <2>2. a \in Field /\ a \in Int
    BY <2>0 DEF Lists
  <2>3. PICK j \in 1 .. m + 1 : u[j] = a
    <3>1. Divides(0 - Whole(u, a)[m + 1])
      BY <2>1, <2>2, ElementIsZero
    <3>2. Whole(u, a)[m + 1] \in Int
      <4>1. Whole(u, a) \in [Nat -> Int]
        BY <2>0, <2>2, WholeProducts
      <4> HIDE DEF a
      <4> QED BY <4>1, <2>0
    <3>3. Divides((0 - Whole(u, a)[m + 1]) * (-1))
      BY <3>1, <3>2, Multiples
    <3>4. (0 - Whole(u, a)[m + 1]) * (-1) = Whole(u, a)[m + 1]
      BY <3>2
    <3> HIDE DEF a
    <3> QED BY <2>0, <2>2, <3>3, <3>4, ZeroIsElement
  <2> DEFINE v == First(s, m)
             w == Without(u, j, m)
             Y == Z \ {a}
  <2>4. v \in Lists(m) /\ w \in Lists(m)
    <3>1. 0 \in Int
      OBVIOUS
    <3> QED BY <3>1, WholeFirst, WholeWithout
  <2>5. ASSUME NEW x \in Y PROVE Divides(Whole(v, x)[m] - Whole(w, x)[m])
    <3>1. x \in Field /\ x \in Int /\ x # a /\ m \in 0 .. (m + 1) - 1 /\ m \in 0 .. m
      BY <2>0, <2>5
    <3>2. Whole(v, x)[m] = Whole(s, x)[m]
      BY <3>1, WholeFirst
    <3>3. Whole(s, x)[m + 1] = Whole(s, x)[m] * (x - a) /\ Whole(s, x)[m] \in Int
      BY <2>0, <3>1, WholeStep
    <3>4. Whole(u, x)[m + 1] = (x - a) * Whole(w, x)[m]
      BY <2>3, <3>1, WholeWithout
    <3>5. Whole(w, x)[m] \in Int
      BY <2>4, <3>1, WholeProducts
    <3> HIDE DEF a, v, w
    <3>6. x - a \in Int /\ Whole(v, x)[m] - Whole(w, x)[m] \in Int
      BY <2>2, <3>1, <3>2, <3>3, <3>5
    <3>7. \A b, c, d \in Int : c * b - b * d = b * (c - d)
      OBVIOUS
    <3>8. Whole(s, x)[m + 1] - Whole(u, x)[m + 1] = (x - a) * (Whole(v, x)[m] - Whole(w, x)[m])
      BY <3>2, <3>3, <3>4, <3>5, <3>6, <3>7
    <3>9. Divides((x - a) * (Whole(v, x)[m] - Whole(w, x)[m]))
      BY <2>1, <3>1, <3>8
    <3>10. ~ Divides(x - a)
      BY <2>2, <3>1, Different
    <3> QED BY <3>6, <3>9, <3>10, OneIsZero
  <2>6. Y \in SUBSET Field /\ Cardinality(Y) >= m
    <3>1. IsFiniteSet(Field)
      BY LookupAssumption, FS_Interval DEF Field
    <3>2. IsFiniteSet(Z) /\ Cardinality(Z) \in Nat
      BY <3>1, FS_Subset, FS_CardinalityType
    <3>3. a \in Z => Cardinality(Y) = Cardinality(Z) - 1
      BY <3>2, FS_RemoveElement
    <3>4. a \notin Z => Y = Z
      OBVIOUS
    <3> HIDE DEF a, Y
    <3>5. Cardinality(Y) >= m
      BY <3>2, <3>3, <3>4
    <3> QED BY <3>5 DEF Y
  <2> HIDE DEF v, w, Y, T
  <2>7. Agree(v, w, m, Y)
    BY <2>5 DEF Agree
  <2>8. PermutationOf(v, w)
    BY <1>2, <2>4, <2>6, <2>7 DEF T
  <2> QED BY <2>3, <2>8, OneElementMore DEF v, w
<1> HIDE DEF T
<1>3. Nat \subseteq T
  BY <1>1, <1>2, AllNumbers
<1> QED BY <1>3 DEF T

-----------------------------------------------------------------------------
(* A wrong list agrees with the right one in fewer challenges than it has  *)
(* elements.                                                               *)
LEMMA FewAgreements ==
  ASSUME sz \in Nat, NEW s \in Lists(sz), NEW u \in Lists(sz)
  PROVE  PermutationOf(s, u) \/ Agreements(s, u) < sz
<1> DEFINE Z == {r \in Field : SetEqual(r, s, u)}
<1>1. IsFiniteSet(Field)
  BY LookupAssumption, FS_Interval DEF Field
<1>2. Z \in SUBSET Field
  OBVIOUS
<1>3. Cardinality(Z) \in Nat
  BY <1>1, <1>2, FS_Subset, FS_CardinalityType
<1>4. ASSUME NEW x \in Z PROVE Divides(Whole(s, x)[sz] - Whole(u, x)[sz])
  <2>1. x \in Field /\ x \in Int /\ Product(x, s) = Product(x, u)
    BY <1>4, LookupAssumption DEF SetEqual, Field
  <2>2. /\ Product(x, s) \in Int /\ Divides(Whole(s, x)[sz] - Product(x, s))
        /\ Product(x, u) \in Int /\ Divides(Whole(u, x)[sz] - Product(x, u))
    BY <2>1, ProductIsWhole
  <2>3. Whole(s, x)[sz] \in Int /\ Whole(u, x)[sz] \in Int
    BY <2>1, WholeProducts
  <2> DEFINE c == Whole(s, x)[sz] - Product(x, s)
             d == Whole(u, x)[sz] - Product(x, u)
  <2>4. c - d = Whole(s, x)[sz] - Whole(u, x)[sz] /\ c \in Int /\ d \in Int
    BY <2>1, <2>2, <2>3
  <2>5. Divides(c) /\ Divides(d)
    BY <2>2
  <2> HIDE DEF c, d
  <2> QED BY <2>4, <2>5, Multiples
<1>5. Agreements(s, u) = Cardinality(Z)
  BY DEF Agreements
<1> HIDE DEF Z
<1>6. Agree(s, u, sz, Z)
  BY <1>4 DEF Agree
<1>7. Cardinality(Z) >= sz => PermutationOf(s, u)
  BY <1>2, <1>6, AgreementIsPermutation
<1> QED BY <1>3, <1>5, <1>7

-----------------------------------------------------------------------------
(* The difference of two compressed rows is a polynomial with the          *)
(* differences of the columns as coefficients.                             *)
Line(c, d)           == [x \in Field |-> c * x + d]
Parabola(b, c, d)    == [x \in Field |-> (b * x + c) * x + d]
Cubic(a, b, c, d)    == [x \in Field |-> ((a * x + b) * x + c) * x + d]

Level(c) == [x \in Field |-> c]

LEMMA ConstantDegree ==
  ASSUME NEW c \in Int
  PROVE  Level(c) \in Polynomials[0] /\ \A x \in Field : Level(c)[x] = c
BY PolynomialDegrees DEF Constant, Level

LEMMA MultipliedDegree ==
  ASSUME NEW k \in Nat, NEW h \in Polynomials[k], NEW d \in Int
  PROVE  [x \in Field |-> h[x] * x + d] \in Polynomials[k + 1]
<1> DEFINE one == Level(1)
<1>1. \A n \in Nat : one \in Polynomials[n]
  <2> DEFINE T == {n \in Nat : one \in Polynomials[n]}
  <2>1. 0 \in T
    BY ConstantDegree
  <2>2. \A n \in T : n \in Nat => n + 1 \in T
    BY HigherDegree
  <2> HIDE DEF T
  <2>3. Nat \subseteq T
    BY <2>1, <2>2, AllNumbers
  <2> QED BY <2>3 DEF T
<1>2. Raised(h, 0) \in Polynomials[k + 1]
  BY OneDegreeMore
<1>3. Combined(Raised(h, 0), d, one) \in Polynomials[k + 1]
  <2>1. k + 1 \in Nat
    OBVIOUS
  <2> HIDE DEF one
  <2> QED BY <2>1, <1>1, <1>2, Combination
<1>4. \A x \in Field : h[x] * x + d = (x - 0) * h[x] + d * 1
  <2> TAKE x \in Field
  <2>1. x \in Int /\ h[x] \in Int
    BY PolynomialFunctions
  <2>2. \A y, z \in Int : y * z + d = (z - 0) * y + d * 1
    OBVIOUS
  <2> QED BY <2>1, <2>2
<1>5. [x \in Field |-> h[x] * x + d] = Combined(Raised(h, 0), d, one)
  BY <1>4 DEF Combined, Raised, Level
<1> QED BY <1>3, <1>5

LEMMA CubicDegrees ==
  ASSUME NEW a \in Int, NEW b \in Int, NEW c \in Int, NEW d \in Int
  PROVE  /\ Line(c, d) \in Polynomials[1]
         /\ Parabola(b, c, d) \in Polynomials[2]
         /\ Cubic(a, b, c, d) \in Polynomials[3]
<1>1. ASSUME NEW y \in Int, NEW z \in Int PROVE Line(y, z) \in Polynomials[1]
  <2> DEFINE h == Level(y)
  <2>1. h \in Polynomials[0]
    BY <1>1, ConstantDegree
  <2>2. Line(y, z) = [x \in Field |-> h[x] * x + z]
    BY DEF Line, Level
  <2> HIDE DEF h
  <2>3. [x \in Field |-> h[x] * x + z] \in Polynomials[0 + 1]
    BY <1>1, <2>1, MultipliedDegree
  <2>4. 0 + 1 = 1
    OBVIOUS
  <2> QED BY <2>2, <2>3, <2>4
<1>2. ASSUME NEW w \in Int, NEW y \in Int, NEW z \in Int PROVE Parabola(w, y, z) \in Polynomials[2]
  <2> DEFINE h == Line(w, y)
  <2>1. h \in Polynomials[1]
    BY <1>1, <1>2
  <2>2. Parabola(w, y, z) = [x \in Field |-> h[x] * x + z]
    BY DEF Line, Parabola
  <2> HIDE DEF h
  <2>3. [x \in Field |-> h[x] * x + z] \in Polynomials[1 + 1]
    BY <1>2, <2>1, MultipliedDegree
  <2>4. 1 + 1 = 2
    OBVIOUS
  <2> QED BY <2>2, <2>3, <2>4
<1>3. Cubic(a, b, c, d) \in Polynomials[3]
  <2> DEFINE h == Parabola(a, b, c)
  <2>1. h \in Polynomials[2]
    BY <1>2
  <2>2. Cubic(a, b, c, d) = [x \in Field |-> h[x] * x + d]
    BY DEF Cubic, Parabola
  <2> HIDE DEF h
  <2>3. [x \in Field |-> h[x] * x + d] \in Polynomials[2 + 1]
    BY <2>1, MultipliedDegree
  <2>4. 2 + 1 = 3
    OBVIOUS
  <2> QED BY <2>2, <2>3, <2>4
<1> QED BY <1>1, <1>2, <1>3

(* A polynomial that is zero everywhere has the last coefficient zero, and *)
(* what is left, if it has a lower degree than the field has elements, is  *)
(* zero too.                                                               *)
LEMMA LowerIsZero ==
  ASSUME NEW k \in Nat, NEW h \in Polynomials[k], NEW d \in Int, P > k + 1,
         \A x \in Field : Divides(h[x] * x + d)
  PROVE  Divides(d) /\ \A x \in Field : Divides(h[x])
<1>1. P \in Nat /\ 0 \in Field /\ \A x \in Field : x \in Int /\ h[x] \in Int
  BY LookupAssumption, PolynomialFunctions DEF Field
<1>2. Divides(d)
  <2>1. h[0] * 0 + d = d
    BY <1>1
  <2> QED BY <1>1, <2>1
<1> DEFINE Z == 1 .. P - 1
<1>3. Z \in SUBSET Field /\ Cardinality(Z) > k
  BY <1>1, FS_Interval DEF Field
<1>4. ASSUME NEW x \in Z PROVE Divides(h[x])
  <2>1. x \in Field /\ x \in Int /\ h[x] \in Int /\ h[x] * x \in Int /\ x # 0
    BY <1>1, <1>3
  <2>2. Divides((h[x] * x + d) - d)
    <3>1. h[x] * x + d \in Int /\ Divides(h[x] * x + d)
      BY <2>1
    <3> QED BY <1>2, <3>1, Multiples
  <2>3. (h[x] * x + d) - d = h[x] * x
    BY <2>1
  <2>4. Divides(h[x]) \/ Divides(x)
    BY <2>1, <2>2, <2>3, OneIsZero
  <2>5. ~ Divides(x - 0)
    BY <1>1, <2>1, Different
  <2>6. x - 0 = x
    BY <2>1
  <2> QED BY <2>4, <2>5, <2>6
<1> HIDE DEF Z
<1>5. \A x \in Field : Divides(h[x])
  BY <1>3, <1>4, FewZeros
<1> QED BY <1>2, <1>5

LEMMA CubicIsZero ==
  ASSUME NEW a \in Int, NEW b \in Int, NEW c \in Int, NEW d \in Int,
         NEW Z \in SUBSET Field, Cardinality(Z) > 3, \A x \in Z : Divides(Cubic(a, b, c, d)[x])
  PROVE  Divides(a) /\ Divides(b) /\ Divides(c) /\ Divides(d)
<1>0. P \in Nat /\ P > 3
  <2>1. IsFiniteSet(Field) /\ Cardinality(Field) = P /\ P \in Nat
    BY LookupAssumption, FS_Interval DEF Field
  <2>2. Cardinality(Z) <= P /\ Cardinality(Z) \in Nat
    BY <2>1, FS_Subset, FS_CardinalityType
  <2> QED BY <2>1, <2>2
<1>1. \A x \in Field : Divides(Cubic(a, b, c, d)[x])
  BY CubicDegrees, FewZeros
<1>2. Divides(d) /\ \A x \in Field : Divides(Parabola(a, b, c)[x])
  <2>1. \A x \in Field : Divides(Parabola(a, b, c)[x] * x + d)
    BY <1>1 DEF Cubic, Parabola
  <2>2. P > 2 + 1 /\ 2 \in Nat /\ Parabola(a, b, c) \in Polynomials[2]
    BY <1>0, CubicDegrees
  <2> QED BY <2>1, <2>2, LowerIsZero
<1>3. Divides(c) /\ \A x \in Field : Divides(Line(a, b)[x])
  <2>1. \A x \in Field : Divides(Line(a, b)[x] * x + c)
    BY <1>2 DEF Line, Parabola
  <2>2. P > 1 + 1 /\ 1 \in Nat /\ Line(a, b) \in Polynomials[1]
    BY <1>0, CubicDegrees
  <2> QED BY <2>1, <2>2, LowerIsZero
<1>4. Divides(b) /\ Divides(a)
  <2> DEFINE h == Level(a)
  <2>1. \A x \in Field : Divides(h[x] * x + b)
    BY <1>3 DEF Line, Level
  <2>2. P > 0 + 1 /\ 0 \in Nat /\ h \in Polynomials[0] /\ 0 \in Field
    <3>1. P > 0 + 1 /\ 0 \in Nat /\ 0 \in Field
      BY <1>0 DEF Field
    <3> QED BY <3>1, ConstantDegree
  <2>3. h[0] = a
    BY <2>2, ConstantDegree
  <2> HIDE DEF h
  <2>4. Divides(b) /\ \A x \in Field : Divides(h[x])
    BY <2>1, <2>2, LowerIsZero
  <2> QED BY <2>2, <2>3, <2>4
<1> QED BY <1>2, <1>3, <1>4

(* Different rows are compressed to the same element by at most three      *)
(* challenges.                                                             *)
LEMMA FewCollisions ==
  ASSUME NEW r \in Columns, NEW s \in Columns, r # s
  PROVE  Cardinality({a \in Field : Compress(r, a) = Compress(s, a)}) <= 3
<1> DEFINE Z == {a \in Field : Compress(r, a) = Compress(s, a)}
<1>1. IsFiniteSet(Field) /\ Z \in SUBSET Field
  BY LookupAssumption, FS_Interval DEF Field
<1>2. Cardinality(Z) \in Nat
  BY <1>1, FS_Subset, FS_CardinalityType
<1>3. r \in Int \X Int \X Int \X Int /\ s \in Int \X Int \X Int \X Int
  BY LookupAssumption
<1>4. /\ r[1] \in Int /\ r[2] \in Int /\ r[3] \in Int /\ r[4] \in Int
      /\ s[1] \in Int /\ s[2] \in Int /\ s[3] \in Int /\ s[4] \in Int
  BY <1>3
<1> DEFINE e(c) == r[c] - s[c]
<1>5. ASSUME NEW x \in Z PROVE Divides(Cubic(e(1), e(2), e(3), e(4))[x])
  <2>0. x \in Field /\ x \in Int /\ Compress(r, x) = Compress(s, x)
    BY <1>1, <1>5, LookupAssumption DEF Field
  <2> DEFINE Val(k1, k2, k3, k4) == ((k1 * x + k2) * x + k3) * x + k4
             y == Val(r[1], r[2], r[3], r[4])
             z == Val(s[1], s[2], s[3], s[4])
  <2>1. y \in Int /\ z \in Int
    <3>1. \A k1, k2, k3, k4 \in Int : Val(k1, k2, k3, k4) \in Int
      BY <2>0
    <3> HIDE DEF Val
    <3> QED BY <1>4, <3>1
  <2>2. y - z = Val(e(1), e(2), e(3), e(4))
    <3> DEFINE Apart(k1, k2, k3, k4, l1, l2, l3, l4) ==
                 Val(k1, k2, k3, k4) - Val(l1, l2, l3, l4) = Val(k1 - l1, k2 - l2, k3 - l3, k4 - l4)
    <3>1. \A k1, k2, k3, k4, l1, l2, l3, l4 \in Int : Apart(k1, k2, k3, k4, l1, l2, l3, l4)
      BY <2>0
    <3> HIDE DEF Val, Apart
    <3>2. Apart(r[1], r[2], r[3], r[4], s[1], s[2], s[3], s[4])
      BY <1>4, <3>1
    <3> QED BY <3>2 DEF Apart
  <2>3. y % P = z % P
    BY <2>0 DEF Compress
  <2> HIDE DEF y, z, e
  <2>4. Divides(y - (y % P)) /\ Divides(z - (z % P)) /\ y % P \in Int /\ z % P \in Int
    BY <2>1, Remainder
  <2>5. Divides((y - (y % P)) - (z - (z % P)))
    <3>1. y - (y % P) \in Int /\ z - (z % P) \in Int
      BY <2>1, <2>4
    <3> QED BY <2>4, <3>1, Multiples
  <2>6. (y - (y % P)) - (z - (z % P)) = y - z
    BY <2>1, <2>3, <2>4
  <2> QED BY <2>0, <2>2, <2>5, <2>6 DEF Cubic
<1>6. ASSUME Cardinality(Z) > 3 PROVE FALSE
  <2>1. e(1) \in Int /\ e(2) \in Int /\ e(3) \in Int /\ e(4) \in Int
    BY <1>4
  <2> HIDE DEF Z
  <2>2. Divides(e(1)) /\ Divides(e(2)) /\ Divides(e(3)) /\ Divides(e(4))
    <3> HIDE DEF e
    <3> QED BY <1>1, <1>5, <1>6, <2>1, CubicIsZero
  <2>3. \A c \in 1 .. 4 : e(c) % P = 0
    <3>1. \A c \in 1 .. 4 : c = 1 \/ c = 2 \/ c = 3 \/ c = 4
      OBVIOUS
    <3> HIDE DEF e
    <3>2. e(1) % P = 0 /\ e(2) % P = 0 /\ e(3) % P = 0 /\ e(4) % P = 0
      BY <2>1, <2>2, Remainder
    <3> QED BY <3>1, <3>2
  <2> QED BY <2>3, RowAssumption
<1> HIDE DEF Z
<1>7. Cardinality(Z) <= 3
  BY <1>2, <1>6
<1> QED BY <1>7 DEF Z

(* In a permutation of the right elements a challenge finds nothing; every *)
(* other list the prover submits, and every row that is not in the table,  *)
(* is told apart by all but a few challenges: by all but sz - 1 and all    *)
(* but three, however large the field is.                                  *)
THEOREM ChallengesFindTheWrong == Spec => []ChallengesTellApart
<1>1. Spec => []Typed
  BY TypeInit, TypeStep, PTL DEF Spec
<1>2. Typed => ChallengesTellApart
  <2> SUFFICES ASSUME Typed PROVE ChallengesTellApart
    OBVIOUS
  <2>1. f_set \in FSets /\ t_set \in TSets /\ alpha \in Field
    BY DEF Typed, TypeOK
  <2>2. sz \in Nat /\ f \in Lists(sz) /\ t \in Lists(sz)
    BY <2>1, Sizes DEF Typed, TypeOK, Lists
  <2>3. Padded(f_set) \in Lists(sz) /\ Padded(t_set) \in Lists(sz)
    BY <2>1, PaddedType DEF Lists
  <2>4. ProductsTellApart
    BY <2>2, <2>3, FewAgreements DEF ProductsTellApart
  <2>5. \A k \in DOMAIN f_set : f_set[k] \in Columns
    BY <2>1, LookupAssumption
  <2>6. \A j \in DOMAIN t_set : t_set[j] \in Columns
    BY <2>1, LookupAssumption
  <2>7. CollisionsAreRare
    BY <2>5, <2>6, FewCollisions DEF CollisionsAreRare
  <2> QED BY <2>4, <2>7 DEF ChallengesTellApart
<1> QED BY <1>1, <1>2, PTL
=============================================================================
