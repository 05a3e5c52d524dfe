-------------------------- MODULE AuthSearch_proofs -------------------------
(***************************************************************************)
(* For every snapshot, query, shape and prover: the honest prover never    *)
(* fails, committed labels leave no choice but the label of object 0, no   *)
(* accepted proof publishes an object the user may not see while TopK owed *)
(* ones are left (visible, nearer than the sentinel and not object 0 where *)
(* it may be hidden), every accepted answer is one the abstract view       *)
(* allows, and the plaintext programs agree with the honest proof.  The    *)
(* inductive invariant says that the witness chosen so far satisfies its   *)
(* constraints (Satisfied).                                                *)
(* The rest is counting: a one-to-one arrangement of all slots that is     *)
(* ascending puts every slot below the sentinel before every slot at it,   *)
(* and two arrangements ascending in the same key have the same keys.      *)
(***************************************************************************)
EXTENDS AuthSearch, FiniteSetTheorems, WellFoundedInduction, TLAPS

(* A number below the modulus is its own remainder.                        *)
LEMMA SmallRemainder ==
  ASSUME NEW m \in Nat, NEW x \in 0 .. m - 1
  PROVE  x % m = x
  OBVIOUS

(* comp_gadget returns 0 iff src <= dst, and the prover never fails on it. *)
THEOREM CompExact ==
  ASSUME NEW src \in 0 .. B - 1, NEW dst \in 0 .. B - 1
  PROVE  Provable(src, dst) /\ (Comp(src, dst) = 0 <=> src <= dst)
  <1> USE CompAssumption
  <1>1. dst - src + B \in 0 .. P - 1 /\ P \in Nat
    OBVIOUS
  <1>2. Delta(src, dst) = dst - src + B
    BY <1>1, SmallRemainder DEF Delta
  <1> QED
    BY <1>2 DEF Provable, Comp

LEMMA Shape ==
  /\ NList \in Nat \ {0} /\ N \in Nat \ {0} /\ NProbe \in Nat \ {0} /\ NProbe <= NList
  /\ NProbe * N \in Nat \ {0} /\ TopK \in Nat \ {0} /\ TopK <= NProbe * N
<1>1. /\ NList \in Nat \ {0} /\ N \in Nat \ {0} /\ NProbe \in Nat \ {0} /\ NProbe <= NList
      /\ TopK \in 1 .. NProbe * N
  BY ShapeAssumption
<1>2. NProbe * N \in Nat
  BY <1>1
<1> QED BY <1>1, <1>2

LEMMA BIsPositive == B \in Nat \ {0} /\ DMax \in Nat /\ DMax \in 0 .. B - 1
BY CompAssumption DEF DMax

LEMMA UpTo ==
  ASSUME NEW k \in Nat
  PROVE  IsFiniteSet(1 .. k) /\ Cardinality(1 .. k) = k
<1>1. IsFiniteSet(1 .. k) /\ Cardinality(1 .. k) = IF 1 > k THEN 0 ELSE k - 1 + 1
  BY FS_Interval
<1> QED BY <1>1

(* A nonempty set of natural numbers has a least element.                  *)
LEMMA Smallest ==
  ASSUME NEW T, T \subseteq Nat, T # {}
  PROVE  \E m \in T : \A n \in T : m <= n
<1>1. \E m \in T : \A n \in T : ~ (<<n, m>> \in OpToRel(<, Nat))
  BY NatLessThanWellFounded, WFMin, Zenon
<1>2. PICK m \in T : \A n \in T : ~ (<<n, m>> \in OpToRel(<, Nat))
  BY <1>1
<1>3. \A n \in T : m <= n
  <2> TAKE n \in T
  <2>1. <<n, m>> \notin OpToRel(<, Nat)
    BY <1>2
  <2>2. m \in Nat /\ n \in Nat
    OBVIOUS
  <2>3. ~ (n < m)
    BY <2>1, <2>2 DEF OpToRel
  <2> QED BY <2>2, <2>3
<1> QED BY <1>2, <1>3

-----------------------------------------------------------------------------
(***************************************************************************)
(* Sorting.  The rank of an element of a finite set under a strict total   *)
(* order is one more than the number of its predecessors; ranks are        *)
(* one-to-one, so every rank is taken, and the inverse is the sorted list. *)
(***************************************************************************)
StrictTotal(R, S) ==
  /\ \A x \in S : <<x, x>> \notin R
  /\ \A x, y, z \in S : <<x, y>> \in R /\ <<y, z>> \in R => <<x, z>> \in R
  /\ \A x, y \in S : x = y \/ <<x, y>> \in R \/ <<y, x>> \in R

Preds(R, S, x) == {y \in S : <<y, x>> \in R}

LEMMA PredsGrow ==
  ASSUME NEW S, IsFiniteSet(S), NEW R, StrictTotal(R, S),
         NEW x \in S, NEW y \in S, <<x, y>> \in R
  PROVE  Cardinality(Preds(R, S, x)) < Cardinality(Preds(R, S, y))
<1>1. Preds(R, S, x) \subseteq Preds(R, S, y)
  BY DEF Preds, StrictTotal
<1>2. x \in Preds(R, S, y) /\ x \notin Preds(R, S, x)
  BY DEF Preds, StrictTotal
<1>3. IsFiniteSet(Preds(R, S, y))
  BY FS_Subset DEF Preds
<1>4. /\ IsFiniteSet(Preds(R, S, x))
      /\ Cardinality(Preds(R, S, x)) <= Cardinality(Preds(R, S, y))
      /\ Cardinality(Preds(R, S, x)) # Cardinality(Preds(R, S, y))
  BY <1>1, <1>2, <1>3, FS_Subset
<1>5. Cardinality(Preds(R, S, x)) \in Nat /\ Cardinality(Preds(R, S, y)) \in Nat
  BY <1>3, <1>4, FS_CardinalityType
<1> QED BY <1>4, <1>5

Onto(f, S, T) == \A y \in T : \E x \in S : f[x] = y

LEMMA OntoIfAsMany ==
  ASSUME NEW S, NEW T, IsFiniteSet(T), Cardinality(S) = Cardinality(T),
         NEW f \in Injection(S, T)
  PROVE  Onto(f, S, T)
<1>1. f \in Surjection(S, T)
  BY FS_Injection
<1> QED BY <1>1 DEF Surjection, Onto

LEMMA SortExists ==
  ASSUME NEW S, IsFiniteSet(S), NEW R, StrictTotal(R, S)
  PROVE  \E p \in OneToOne(1 .. Cardinality(S), S) :
           \A q, r \in 1 .. Cardinality(S) : q < r => <<p[q], p[r]>> \in R
<1> DEFINE n == Cardinality(S)
           rank == [x \in S |-> Cardinality(Preds(R, S, x)) + 1]
<1>1. n \in Nat
  BY FS_CardinalityType
<1>2. \A x \in S : Cardinality(Preds(R, S, x)) \in Nat /\ Cardinality(Preds(R, S, x)) < n
  <2> TAKE x \in S
  <2>1. x \notin Preds(R, S, x) /\ Preds(R, S, x) \subseteq S
    BY DEF Preds, StrictTotal
  <2>2. /\ IsFiniteSet(Preds(R, S, x)) /\ Cardinality(Preds(R, S, x)) <= n
        /\ Cardinality(Preds(R, S, x)) # n
    BY <2>1, FS_Subset
  <2> QED BY <1>1, <2>2, FS_CardinalityType
<1>3. rank \in [S -> 1 .. n]
  BY <1>1, <1>2
<1>4. \A x, y \in S : <<x, y>> \in R => rank[x] < rank[y]
  <2> SUFFICES ASSUME NEW x \in S, NEW y \in S, <<x, y>> \in R PROVE rank[x] < rank[y]
    OBVIOUS
  <2>1. Cardinality(Preds(R, S, x)) < Cardinality(Preds(R, S, y))
    BY PredsGrow
  <2> QED BY <1>2, <2>1
<1> HIDE DEF rank, n
<1>5. \A x, y \in S : rank[x] = rank[y] => x = y
  <2> SUFFICES ASSUME NEW x \in S, NEW y \in S, rank[x] = rank[y] PROVE x = y
    OBVIOUS
  <2>1. rank[x] \in Int
    BY <1>1, <1>3
  <2>2. ~ (<<x, y>> \in R) /\ ~ (<<y, x>> \in R)
    BY <1>4, <2>1
  <2> QED BY <2>2 DEF StrictTotal
<1>6. rank \in Injection(S, 1 .. n)
  BY <1>3, <1>5 DEF Injection, IsInjective
<1>7. IsFiniteSet(1 .. n) /\ Cardinality(1 .. n) = n
  BY <1>1, FS_Interval
<1>8. Cardinality(S) = Cardinality(1 .. n)
  BY <1>7 DEF n
<1>9. \A k \in 1 .. n : \E x \in S : rank[x] = k
  <2>1. Onto(rank, S, 1 .. n)
    BY <1>6, <1>7, <1>8, OntoIfAsMany
  <2> QED BY <2>1 DEF Onto
<1> DEFINE p == [k \in 1 .. n |-> CHOOSE x \in S : rank[x] = k]
<1>10. \A k \in 1 .. n : p[k] \in S /\ rank[p[k]] = k
  BY <1>9
<1> HIDE DEF p
<1>11. p \in [1 .. n -> S]
  BY <1>10 DEF p
<1>12. \A q, r \in 1 .. n : p[q] = p[r] => q = r
  BY <1>10
<1>13. \A q, r \in 1 .. n : q < r => <<p[q], p[r]>> \in R
  <2> SUFFICES ASSUME NEW q \in 1 .. n, NEW r \in 1 .. n, q < r PROVE <<p[q], p[r]>> \in R
    OBVIOUS
  <2>1. p[q] \in S /\ p[r] \in S /\ rank[p[q]] = q /\ rank[p[r]] = r
    BY <1>10
  <2>2. ~ (<<p[r], p[q]>> \in R) /\ p[q] # p[r]
    BY <1>1, <1>4, <2>1
  <2> QED BY <2>1, <2>2 DEF StrictTotal
<1>14. p \in OneToOne(1 .. n, S)
  BY <1>11, <1>12 DEF OneToOne
<1> QED BY <1>13, <1>14 DEF n

-----------------------------------------------------------------------------
(***************************************************************************)
(* Slots, and the order in which the honest prover lists them.             *)
(***************************************************************************)
LEMMA ManySlots == IsFiniteSet(Pairs) /\ Cardinality(Pairs) = NProbe * N
<1>1. /\ IsFiniteSet(1 .. NProbe) /\ Cardinality(1 .. NProbe) = NProbe
      /\ IsFiniteSet(1 .. N) /\ Cardinality(1 .. N) = N
  BY Shape, FS_Interval
<1> DEFINE I == 1 .. NProbe
           J == 1 .. N
<1>2. IsFiniteSet(I) /\ IsFiniteSet(J)
  BY <1>1
<1> HIDE DEF I, J
<1>3. IsFiniteSet(I \X J) /\ Cardinality(I \X J) = Cardinality(I) * Cardinality(J)
  BY <1>2, FS_Product
<1> QED BY <1>1, <1>3 DEF I, J, Pairs

LEMMA ManyLists == IsFiniteSet(Lists) /\ Cardinality(Lists) = NList
BY Shape, FS_Interval DEF Lists

Snapshot == index \in Indexes /\ center_dis \in Centers

LEMMA Distances ==
  ASSUME Snapshot, NEW l \in Lists
  PROVE  center_dis[l] \in 0 .. B - 1
<1>1. center_dis \in [Lists -> 0 .. DMax]
  BY IndexAssumption DEF Snapshot
<1> QED BY <1>1, BIsPositive DEF DMax

LEMMA SlotType ==
  ASSUME Snapshot, NEW l \in Lists, NEW j \in 1 .. N
  PROVE  /\ index[l][j] \in SlotContents
         /\ index[l][j].valid \in {0, 1} /\ index[l][j].item \in Items
         /\ index[l][j].dis \in 0 .. DMax /\ index[l][j].label \in Labels
<1>1. index \in [Lists -> [1 .. N -> SlotContents]]
  BY IndexAssumption DEF Snapshot
<1>2. index[l][j] \in SlotContents
  BY <1>1
<1> QED BY <1>2 DEF SlotContents

LEMMA PairList ==
  ASSUME cluster_idx \in ListOrders, NEW s \in Pairs
  PROVE  s[1] \in 1 .. NList /\ cluster_idx[s[1]] \in Lists /\ s[2] \in 1 .. N
BY Shape DEF ListOrders, OneToOne, Pairs

(* HatD is the distance of a valid visible slot and the sentinel else.     *)
LEMMA HatDCases ==
  ASSUME Snapshot, cluster_idx \in ListOrders, NEW s \in Pairs
  PROVE  /\ HatD(s) \in 0 .. DMax
         /\ IF At(s).valid = 1 /\ Visibility(s) = 1
            THEN HatD(s) = At(s).dis ELSE HatD(s) = DMax
<1> DEFINE c == At(s)
<1>1. c.valid \in {0, 1} /\ c.dis \in 0 .. DMax
  BY PairList, SlotType DEF At, InList
<1>2. Visibility(s) \in {0, 1}
  BY DEF Visibility
<1>3. DMax \in Nat
  BY BIsPositive
<1>4. HatD(s) = c.valid * Visibility(s) * c.dis + (1 - c.valid * Visibility(s)) * DMax
  BY DEF HatD
<1> HIDE DEF c
<1>5. CASE c.valid = 1 /\ Visibility(s) = 1
  <2>1. HatD(s) = 1 * 1 * c.dis + (1 - 1 * 1) * DMax
    BY <1>4, <1>5
  <2>2. HatD(s) = c.dis
    BY <1>1, <1>3, <2>1
  <2> QED BY <1>1, <1>3, <1>5, <2>2 DEF c
<1>6. CASE ~ (c.valid = 1 /\ Visibility(s) = 1)
  <2>1. c.valid * Visibility(s) = 0
    BY <1>1, <1>2, <1>6
  <2>2. HatD(s) = 0 * c.dis + (1 - 0) * DMax
    BY <1>4, <2>1
  <2>3. HatD(s) = DMax
    BY <1>1, <1>3, <2>2
  <2> QED BY <1>3, <1>6, <2>3 DEF c
<1> QED BY <1>5, <1>6

LEMMA HonestProbeSorts ==
  ASSUME Snapshot
  PROVE  /\ HonestProbe \in ListOrders
         /\ \A q, r \in 1 .. NList :
              q < r => \/ center_dis[HonestProbe[q]] < center_dis[HonestProbe[r]]
                       \/ /\ center_dis[HonestProbe[q]] = center_dis[HonestProbe[r]]
                          /\ HonestProbe[q] < HonestProbe[r]
<1> DEFINE R == {e \in Lists \X Lists :
                   \/ center_dis[e[1]] < center_dis[e[2]]
                   \/ center_dis[e[1]] = center_dis[e[2]] /\ e[1] < e[2]}
<1>1. \A l \in Lists : l \in Int /\ center_dis[l] \in Int
  BY Distances, BIsPositive DEF Lists
<1>2. StrictTotal(R, Lists)
  BY <1>1 DEF StrictTotal
<1>3. \E c \in OneToOne(1 .. NList, Lists) :
        \A q, r \in 1 .. NList : q < r => <<c[q], c[r]>> \in R
  BY <1>2, ManyLists, SortExists
<1>4. \E c \in ListOrders :
        \A q, r \in 1 .. NList :
          q < r => \/ center_dis[c[q]] < center_dis[c[r]]
                   \/ center_dis[c[q]] = center_dis[c[r]] /\ c[q] < c[r]
  BY <1>3 DEF ListOrders
<1> QED BY <1>4 DEF HonestProbe

LEMMA HonestOrderSorts ==
  ASSUME Snapshot, cluster_idx \in ListOrders
  PROVE  /\ HonestOrder \in SlotOrders
         /\ \A q, r \in Ranks :
              q < r => \/ HatD(HonestOrder[q]) < HatD(HonestOrder[r])
                       \/ /\ HatD(HonestOrder[q]) = HatD(HonestOrder[r])
                          /\ Before(HonestOrder[q], HonestOrder[r])
<1> DEFINE R == {e \in Pairs \X Pairs :
                   \/ HatD(e[1]) < HatD(e[2])
                   \/ HatD(e[1]) = HatD(e[2]) /\ Before(e[1], e[2])}
<1>1. \A s \in Pairs : HatD(s) \in Int
  BY HatDCases, BIsPositive
<1>2. /\ \A s \in Pairs : ~ Before(s, s)
      /\ \A s, u, w \in Pairs : Before(s, u) /\ Before(u, w) => Before(s, w)
      /\ \A s, u \in Pairs : s = u \/ Before(s, u) \/ Before(u, s)
  BY Shape DEF Before, Pairs
<1>3. StrictTotal(R, Pairs)
  BY <1>1, <1>2 DEF StrictTotal
<1>4. \E p \in OneToOne(1 .. NProbe * N, Pairs) :
        \A q, r \in 1 .. NProbe * N : q < r => <<p[q], p[r]>> \in R
  BY <1>3, ManySlots, SortExists
<1>5. \E p \in SlotOrders :
        \A q, r \in Ranks :
          q < r => \/ HatD(p[q]) < HatD(p[r])
                   \/ HatD(p[q]) = HatD(p[r]) /\ Before(p[q], p[r])
  BY <1>4 DEF SlotOrders, Ranks
<1> QED BY <1>5 DEF HonestOrder

LEMMA HonestProbeOk == Snapshot => ProbeOk(HonestProbe)
<1> SUFFICES ASSUME Snapshot, NEW r \in 1 .. NList - 1
             PROVE  /\ Provable(center_dis[HonestProbe[r]], center_dis[HonestProbe[r + 1]])
                    /\ Comp(center_dis[HonestProbe[r]], center_dis[HonestProbe[r + 1]]) = 0
  BY DEF ProbeOk
<1>1. r \in 1 .. NList /\ r + 1 \in 1 .. NList /\ r < r + 1
  BY Shape
<1>2. HonestProbe[r] \in Lists /\ HonestProbe[r + 1] \in Lists
  BY <1>1, HonestProbeSorts DEF ListOrders, OneToOne
<1>3. /\ center_dis[HonestProbe[r]] \in 0 .. B - 1
      /\ center_dis[HonestProbe[r + 1]] \in 0 .. B - 1
  BY <1>2, Distances
<1>4. center_dis[HonestProbe[r]] <= center_dis[HonestProbe[r + 1]]
  BY <1>1, <1>3, HonestProbeSorts, BIsPositive
<1> QED BY <1>3, <1>4, CompExact

LEMMA HonestOrderOk == Snapshot /\ cluster_idx \in ListOrders => OrderOk(HonestOrder)
<1> SUFFICES ASSUME Snapshot, cluster_idx \in ListOrders, NEW r \in 1 .. NProbe * N - 1
             PROVE  /\ Provable(HatD(HonestOrder[r]), HatD(HonestOrder[r + 1]))
                    /\ Comp(HatD(HonestOrder[r]), HatD(HonestOrder[r + 1])) = 0
  BY DEF OrderOk
<1>1. r \in Ranks /\ r + 1 \in Ranks /\ r < r + 1
  BY Shape DEF Ranks
<1>2. HonestOrder[r] \in Pairs /\ HonestOrder[r + 1] \in Pairs
  BY <1>1, HonestOrderSorts DEF SlotOrders, OneToOne
<1>3. HatD(HonestOrder[r]) \in 0 .. B - 1 /\ HatD(HonestOrder[r + 1]) \in 0 .. B - 1
  BY <1>2, HatDCases DEF DMax
<1>4. HatD(HonestOrder[r]) <= HatD(HonestOrder[r + 1])
  BY <1>1, <1>3, HonestOrderSorts, BIsPositive
<1> QED BY <1>3, <1>4, CompExact

LEMMA HonestLabelsOk ==
  ASSUME Snapshot, cluster_idx \in ListOrders, honest => cluster_idx = HonestProbe,
         honest \/ layout = "all_visible"
  PROVE  HonestLabels \in [Pairs -> Labels] /\ LabelsOk(HonestLabels)
<1>1. \A s \in Pairs : At(s).label \in Labels
  BY PairList, SlotType DEF At, InList
<1>2. HonestLabels \in [Pairs -> Labels]
  <2>1. PaddingLabel \in Labels
    BY LabelAssumption DEF PaddingLabel, ObjectZero
  <2> QED BY <1>1, <2>1 DEF HonestLabels
<1>3. CASE layout = "all_visible"
  BY <1>2, <1>3 DEF LabelsOk, LabelsCommitted
<1>4. CASE honest /\ layout # "all_visible"
  <2>1. \A s \in Pairs :
          /\ cluster_idx[s[1]] \in HonestLists
          /\ <<At(s).item, At(s).label>> \in LeavesOf(cluster_idx[s[1]])
    BY <1>4, PairList DEF HonestLists, LeavesOf, Leaf, At, Pairs
  <2>2. \A s \in Pairs : layout # "policy" => HonestLabels[s] = At(s).label
    BY DEF HonestLabels
  <2>3. \A s \in Pairs : <<At(s).item, At(s).label>> \in LeavesFor(s)
    BY <2>1 DEF LeavesFor, FlatLeaves, AlignedLeaves
  <2> QED BY <1>2, <2>2, <2>3 DEF LabelsOk, LabelsCommitted
<1> QED BY <1>3, <1>4

(* What a leaf of a list's tree says of a valid slot with its item, if it  *)
(* is not a leaf of padding.                                               *)
LEMMA LeafTells ==
  ASSUME Snapshot, cluster_idx \in ListOrders, NEW s \in Pairs, At(s).valid = 1, NEW lb,
         NEW l \in Lists, <<At(s).item, lb>> \in LeavesOf(l)
  PROVE  lb = At(s).label \/ <<At(s).item, lb>> = DummyLeaf
<1>1. PICK l1 \in Lists, j1 \in 1 .. N : At(s) = index[l1][j1]
  BY PairList DEF At, InList
<1>2. WellFormed(index)
  BY IndexAssumption DEF Snapshot
<1>3. PICK j2 \in 1 .. N : At(s).item = index[l][j2].item /\ lb = index[l][j2].label
  BY DEF LeavesOf, Leaf, InList
<1>4. CASE index[l][j2].valid = 1
  <2>1. l1 = l /\ j1 = j2
    BY <1>1, <1>2, <1>3, <1>4 DEF WellFormed
  <2> QED BY <1>1, <1>3, <2>1
<1>5. CASE index[l][j2].valid = 0
  BY <1>2, <1>3, <1>5 DEF WellFormed, DummyLeaf
<1> QED BY <1>4, <1>5, SlotType

LEMMA LabelsForced ==
  ASSUME Snapshot, cluster_idx \in ListOrders, LabelsOk(labels), LabelsCommitted,
         NEW s \in Pairs, At(s).valid = 1
  PROVE  labels[s] = At(s).label \/ (MayHide(s) /\ labels[s] = Dummy)
<1>1. <<At(s).item, labels[s]>> \in LeavesFor(s)
  BY DEF LabelsOk
<1>2. CASE <<At(s).item, labels[s]>> = DummyLeaf
  BY <1>1, <1>2 DEF MayHide, DummyLeaf
<1>3. CASE \E l \in Lists : <<At(s).item, labels[s]>> \in LeavesOf(l)
  BY <1>2, <1>3, LeafTells
<1>4. \/ <<At(s).item, labels[s]>> = DummyLeaf
      \/ \E l \in Lists : <<At(s).item, labels[s]>> \in LeavesOf(l)
  <2>1. HonestLists \subseteq Lists
    BY HonestProbeSorts, Shape DEF HonestLists, ListOrders, OneToOne
  <2>2. cluster_idx[s[1]] \in Lists
    BY PairList
  <2> QED BY <1>1, <2>1, <2>2 DEF LeavesFor, FlatLeaves, AlignedLeaves
<1> QED BY <1>2, <1>3, <1>4

-----------------------------------------------------------------------------
(***************************************************************************)
(* Ascending arrangements.                                                 *)
(***************************************************************************)
(* What ascends from each place to the next ascends altogether.            *)
LEMMA Ascending ==
  ASSUME NEW n \in Nat, NEW f, \A r \in 1 .. n : f[r] \in Int,
         \A r \in 1 .. n - 1 : f[r] <= f[r + 1],
         NEW q \in 1 .. n, NEW r \in 1 .. n, q <= r
  PROVE  f[q] <= f[r]
<1> DEFINE T == {s \in 1 .. n : q <= s /\ f[s] < f[q]}
<1> SUFFICES ASSUME f[r] < f[q] PROVE FALSE
  OBVIOUS
<1>1. T \subseteq Nat /\ r \in T
  OBVIOUS
<1>2. PICK m \in T : \A s \in T : m <= s
  BY <1>1, Smallest, Zenon
<1>3. m - 1 \in 1 .. n - 1 /\ q <= m - 1 /\ m - 1 \notin T /\ (m - 1) + 1 = m
  BY <1>2
<1> QED BY <1>2, <1>3

(* A set of ranks closed downwards is the ranks up to its size.            *)
LEMMA PrefixCount ==
  ASSUME NEW n \in Nat, NEW R \in SUBSET (1 .. n),
         \A r \in R, q \in 1 .. n : q <= r => q \in R,
         NEW r \in 1 .. n
  PROVE  r \in R <=> r <= Cardinality(R)
<1> DEFINE T == {m \in Nat : m + 1 \notin R}
<1>1. T \subseteq Nat /\ n \in T
  OBVIOUS
<1>2. PICK m \in T : \A k \in T : m <= k
  BY <1>1, Smallest, Zenon
<1>3. \A k \in 1 .. n : k \in R <=> k <= m
  <2> TAKE k \in 1 .. n
  <2>1. ASSUME k \in R, m < k PROVE FALSE
    BY <1>2, <2>1
  <2>2. ASSUME k <= m PROVE k \in R
    <3>1. k - 1 \in Nat /\ k - 1 \notin T
      BY <1>2, <2>2
    <3> QED BY <3>1
  <2> QED BY <1>2, <2>1, <2>2
<1>4. R = 1 .. m
  <2>1. R \subseteq 1 .. n
    OBVIOUS
  <2>2. m \in Nat /\ m <= n
    BY <1>1, <1>2
  <2> HIDE DEF T
  <2>3. \A k \in R : k \in 1 .. m
    BY <1>3, <2>1, <2>2
  <2>4. \A k \in 1 .. m : k \in 1 .. n
    BY <2>2
  <2>5. \A k \in 1 .. m : k \in R
    BY <1>3, <2>2, <2>4
  <2> QED BY <2>3, <2>5
<1>5. Cardinality(R) = m
  BY <1>2, <1>4, FS_Interval
<1> QED BY <1>3, <1>5

(* Every slot is somewhere in an arrangement.                              *)
LEMMA AllArranged ==
  ASSUME NEW p \in SlotOrders
  PROVE  Onto(p, Ranks, Pairs)
<1>1. IsFiniteSet(Ranks) /\ Cardinality(Ranks) = NProbe * N
  BY Shape, FS_Interval DEF Ranks
<1>2. p \in Injection(Ranks, Pairs)
  BY DEF SlotOrders, OneToOne, Injection, IsInjective
<1>3. Cardinality(Ranks) = Cardinality(Pairs)
  BY <1>1, ManySlots
<1> QED BY <1>2, <1>3, ManySlots, OntoIfAsMany

LEMMA HatDAscends ==
  ASSUME Snapshot, cluster_idx \in ListOrders, NEW p \in SlotOrders, OrderOk(p),
         NEW q \in Ranks, NEW r \in Ranks, q <= r
  PROVE  HatD(p[q]) <= HatD(p[r])
<1> DEFINE f == [k \in Ranks |-> HatD(p[k])]
           n == NProbe * N
<1>1. \A k \in Ranks : p[k] \in Pairs /\ HatD(p[k]) \in 0 .. B - 1
  BY HatDCases DEF SlotOrders, OneToOne, DMax
<1>2. n \in Nat /\ Ranks = 1 .. n
  BY Shape DEF Ranks
<1>3. \A k \in 1 .. n - 1 : f[k] <= f[k + 1]
  <2> TAKE k \in 1 .. n - 1
  <2>1. k \in Ranks /\ k + 1 \in Ranks
    BY <1>2
  <2>2. Comp(HatD(p[k]), HatD(p[k + 1])) = 0
    BY DEF OrderOk
  <2> QED BY <1>1, <2>1, <2>2, CompExact
<1>4. \A k \in 1 .. n : f[k] \in Int
  BY <1>1, <1>2, BIsPositive
<1> HIDE DEF f, n
<1>5. f[q] <= f[r]
  BY <1>2, <1>3, <1>4, Ascending
<1> QED BY <1>5 DEF f

(* The slots that pass the gate below the sentinel come before all others, *)
(* so their ranks are the first ones, as many as there are such slots.     *)
Gated(s) == At(s).valid = 1 /\ Visibility(s) = 1 /\ At(s).dis < DMax

LEMMA GatedCases ==
  ASSUME Snapshot, cluster_idx \in ListOrders, NEW s \in Pairs
  PROVE  IF Gated(s) THEN HatD(s) = At(s).dis /\ HatD(s) < DMax ELSE HatD(s) = DMax
<1>1. At(s).dis \in 0 .. DMax
  BY PairList, SlotType DEF At, InList
<1> QED BY <1>1, HatDCases, BIsPositive DEF Gated

LEMMA GatedFirst ==
  ASSUME Snapshot, cluster_idx \in ListOrders, NEW p \in SlotOrders, OrderOk(p),
         NEW r \in Ranks
  PROVE  Gated(p[r]) <=> r <= Cardinality({s \in Pairs : Gated(s)})
<1> DEFINE G == {s \in Pairs : Gated(s)}
           R == {k \in Ranks : Gated(p[k])}
           f == [k \in R |-> p[k]]
<1>1. \A k \in Ranks : p[k] \in Pairs /\ (Gated(p[k]) <=> HatD(p[k]) < DMax)
                       /\ HatD(p[k]) \in 0 .. DMax
  BY HatDCases, GatedCases, BIsPositive DEF SlotOrders, OneToOne
<1>2. \A k \in R, q \in Ranks : q <= k => q \in R
  <2> SUFFICES ASSUME NEW k \in R, NEW q \in Ranks, q <= k PROVE HatD(p[q]) < DMax
    BY <1>1
  <2>1. HatD(p[q]) <= HatD(p[k]) /\ HatD(p[k]) < DMax
    BY <1>1, HatDAscends
  <2> QED BY <1>1, <2>1, BIsPositive
<1>3. NProbe * N \in Nat /\ Ranks = 1 .. NProbe * N
  BY Shape DEF Ranks
<1>4. Cardinality(G) = Cardinality(R)
  <2>1. \A s \in G : \E k \in R : f[k] = s
    BY AllArranged DEF Onto
  <2>2. f \in [R -> G] /\ \A j, k \in R : f[j] = f[k] => j = k
    BY <1>1 DEF SlotOrders, OneToOne
  <2>3. IsFiniteSet(R)
    <3>1. R \subseteq Ranks
      OBVIOUS
    <3>2. IsFiniteSet(Ranks)
      BY <1>3, FS_Interval
    <3> HIDE DEF R
    <3> QED BY <3>1, <3>2, FS_Subset
  <2> HIDE DEF f, G, R
  <2>4. f \in Bijection(R, G)
    BY <2>1, <2>2 DEF Bijection, Injection, Surjection, IsInjective
  <2> QED BY <2>3, <2>4, FS_Bijection DEF ExistsBijection
<1>5. r \in R <=> r <= Cardinality(R)
  <2>1. R \in SUBSET (1 .. NProbe * N) /\ r \in 1 .. NProbe * N
    BY <1>3
  <2>2. \A k \in R, q \in 1 .. NProbe * N : q <= k => q \in R
    BY <1>2, <1>3
  <2> HIDE DEF R
  <2> QED BY <1>3, <2>1, <2>2, PrefixCount
<1> QED BY <1>4, <1>5

(* What is owed to the user passes the gate, and only what the user may    *)
(* see does.                                                               *)
LEMMA OwedIsGated ==
  ASSUME Snapshot, cluster_idx \in ListOrders, LabelsOk(labels), LabelsCommitted,
         NEW s \in Pairs
  PROVE  (Owed(s) => Gated(s)) /\ (Gated(s) => Authorized(s))
<1>1. At(s).valid = 1 => labels[s] = At(s).label \/ (MayHide(s) /\ labels[s] = Dummy)
  BY LabelsForced
<1>2. layout # "all_visible"
  BY DEF LabelsCommitted
<1>3. Visibility(s) = 1 <=> labels[s] \in Visible
  BY <1>2 DEF Visibility
<1> QED BY <1>1, <1>3, LabelAssumption DEF Owed, Authorized, Gated

LEMMA FirstAreAuthorized ==
  ASSUME Snapshot, cluster_idx \in ListOrders, LabelsOk(labels), LabelsCommitted,
         NEW p \in SlotOrders, OrderOk(p),
         TopK <= Cardinality({s \in Pairs : Owed(s)}),
         NEW k \in 1 .. TopK
  PROVE  p[k] \in Pairs /\ Authorized(p[k])
<1> DEFINE G == {s \in Pairs : Gated(s)}
           O == {s \in Pairs : Owed(s)}
<1>1. O \subseteq G
  BY OwedIsGated
<1>2. IsFiniteSet(G)
  BY ManySlots, FS_Subset
<1>3. k \in Ranks /\ k \in Nat /\ p[k] \in Pairs
  BY Shape DEF Ranks, SlotOrders, OneToOne
<1>4. Gated(p[k]) <=> k <= Cardinality(G)
  BY <1>3, GatedFirst
<1>5. TopK <= Cardinality(O)
  OBVIOUS
<1> HIDE DEF G, O
<1>6. /\ Cardinality(O) <= Cardinality(G)
      /\ Cardinality(G) \in Nat /\ Cardinality(O) \in Nat
  BY <1>1, <1>2, FS_Subset, FS_CardinalityType
<1>7. Gated(p[k])
  BY Shape, <1>3, <1>4, <1>5, <1>6
<1> QED BY <1>3, <1>7, OwedIsGated

-----------------------------------------------------------------------------
(* The inductive invariant.                                                *)
Satisfied ==
  /\ pc # "failed"
  /\ pc # "probe" =>
       /\ cluster_idx \in ListOrders /\ ProbeOk(cluster_idx)
       /\ honest => cluster_idx = HonestProbe
  /\ pc \in {"order", "prove", "proved"} => labels \in [Pairs -> Labels] /\ LabelsOk(labels)
  /\ pc \in {"prove", "proved"} =>
       \E p \in SlotOrders : ordered = Arranged(p) /\ OrderOk(p)
  /\ pc = "proved" => answer = [k \in 1 .. TopK |-> ordered[k][1]]

IInv == TypeOK /\ Satisfied

LEMMA ArrangedType ==
  ASSUME Snapshot, cluster_idx \in ListOrders, NEW p \in SlotOrders
  PROVE  Arranged(p) \in [Ranks -> Items \X (0 .. DMax)]
<1>1. \A r \in Ranks : p[r] \in Pairs
  BY DEF SlotOrders, OneToOne
<1>2. \A r \in Ranks : At(p[r]).item \in Items /\ HatD(p[r]) \in 0 .. DMax
  BY <1>1, PairList, SlotType, HatDCases DEF At, InList
<1> QED BY <1>2 DEF Arranged

(* The trees and the order of the honest probe depend on the inputs only.  *)
LEMMA SameTrees ==
  ASSUME UNCHANGED inputs
  PROVE  /\ FlatLeaves' = FlatLeaves /\ HonestLists' = HonestLists
         /\ HonestProbe' = HonestProbe
         /\ \A l : LeavesOf(l)' = LeavesOf(l)
<1>1. index' = index /\ center_dis' = center_dis
  BY DEF inputs
<1>2. HonestProbe' = HonestProbe
  BY <1>1 DEF HonestProbe
<1>3. HonestLists' = HonestLists
  BY <1>2 DEF HonestLists
<1>4. \A l : LeavesOf(l)' = LeavesOf(l)
  BY <1>1 DEF LeavesOf, Leaf, InList
<1>5. FlatLeaves' = FlatLeaves
  BY <1>1, <1>3 DEF FlatLeaves, LeavesOf, Leaf, InList
<1> QED BY <1>2, <1>3, <1>4, <1>5

LEMMA SameLabelsOk ==
  ASSUME UNCHANGED <<inputs, cluster_idx>>, LabelsOk(labels')
  PROVE  LabelsOk(labels)'
<1>1. layout' = layout /\ index' = index /\ cluster_idx' = cluster_idx
  BY DEF inputs
<1>2. CASE LabelsCommitted
  <2>1. \A s \in Pairs : <<At(s).item, labels'[s]>> \in LeavesFor(s)
    BY <1>2 DEF LabelsOk
  <2>2. \A s \in Pairs : LeavesFor(s)' = LeavesFor(s) /\ At(s)' = At(s)
    BY <1>1, SameTrees DEF LeavesFor, AlignedLeaves, LeavesOf, Leaf, At, InList
  <2>3. \A s \in Pairs : (<<At(s).item, labels[s]>> \in LeavesFor(s))'
    BY <2>1, <2>2
  <2> QED BY <2>3 DEF LabelsOk
<1>3. CASE ~ LabelsCommitted
  BY <1>1, <1>3 DEF LabelsOk, LabelsCommitted
<1> QED BY <1>2, <1>3

LEMMA SameOrder ==
  ASSUME UNCHANGED <<inputs, cluster_idx, labels>>
  PROVE  \A p : Arranged(p)' = Arranged(p) /\ (OrderOk(p)' <=> OrderOk(p))
<1>1. layout' = layout /\ index' = index /\ cluster_idx' = cluster_idx /\ labels' = labels
  BY DEF inputs
<1>2. \A s : HatD(s)' = HatD(s) /\ At(s)' = At(s)
  BY <1>1 DEF HatD, At, InList, Visibility
<1>3. \A p : Arranged(p)' = Arranged(p)
  BY <1>2 DEF Arranged
<1>4. \A p : OrderOk(p)' <=> OrderOk(p)
  BY <1>1 DEF OrderOk, HatD, At, InList, Visibility
<1> QED BY <1>3, <1>4

LEMMA InvInit == Init => IInv
BY DEF Init, IInv, TypeOK, Satisfied

LEMMA InvStep == IInv /\ [Next]_vars => IInv'
<1> SUFFICES ASSUME IInv, [Next]_vars PROVE IInv'
  OBVIOUS
<1>1. Snapshot /\ TypeOK /\ Satisfied
  BY DEF IInv, TypeOK, Snapshot
<1>2. CASE Probe
  <2>1. UNCHANGED <<inputs, labels, ordered, answer>> /\ pc = "probe" /\ pc' = "label"
    BY <1>2 DEF Probe
  <2>2. /\ cluster_idx' \in ListOrders /\ ProbeOk(cluster_idx')
        /\ honest => cluster_idx' = HonestProbe
    BY <1>1, <1>2, HonestProbeSorts, HonestProbeOk DEF Probe
  <2>3. Satisfied'
    BY <2>1, <2>2 DEF Satisfied, ProbeOk, HonestProbe, inputs
  <2> QED BY <1>1, <2>1, <2>2, <2>3 DEF IInv, TypeOK, inputs
<1>3. CASE Label
  <2>1. /\ UNCHANGED <<inputs, cluster_idx, ordered, answer>> /\ pc = "label" /\ pc' = "order"
        /\ cluster_idx \in ListOrders /\ (honest => cluster_idx = HonestProbe)
    BY <1>1, <1>3 DEF Label, Satisfied
  <2>2. labels' \in [Pairs -> Labels] /\ LabelsOk(labels')
    <3>1. CASE honest \/ layout = "all_visible"
      BY <1>1, <1>3, <2>1, <3>1, HonestLabelsOk DEF Label
    <3>2. CASE ~ (honest \/ layout = "all_visible")
      BY <1>3, <3>2 DEF Label
    <3> QED BY <3>1, <3>2
  <2>3. LabelsOk(labels)'
    BY <2>1, <2>2, SameLabelsOk DEF inputs
  <2>4. Satisfied'
    BY <1>1, <2>1, <2>2, <2>3 DEF Satisfied, ProbeOk, HonestProbe, inputs
  <2> QED BY <1>1, <2>1, <2>2, <2>4 DEF IInv, TypeOK, inputs
<1>4. CASE Order
  <2>1. /\ UNCHANGED <<inputs, cluster_idx, labels, answer>> /\ pc = "order" /\ pc' = "prove"
        /\ cluster_idx \in ListOrders /\ labels \in [Pairs -> Labels] /\ LabelsOk(labels)
    BY <1>1, <1>4 DEF Order, Satisfied
  <2>2. PICK p \in SlotOrders : ordered' = Arranged(p) /\ OrderOk(p)
    <3>1. CASE honest
      BY <1>1, <1>4, <2>1, <3>1, HonestOrderSorts, HonestOrderOk DEF Order
    <3>2. CASE ~ honest
      BY <1>4, <3>2 DEF Order
    <3> QED BY <3>1, <3>2
  <2>3. ordered' = Arranged(p)' /\ OrderOk(p)'
    BY <2>1, <2>2, SameOrder DEF inputs
  <2>4. LabelsOk(labels)'
    BY <2>1, SameLabelsOk DEF inputs
  <2>5. Satisfied'
    BY <1>1, <2>1, <2>3, <2>4 DEF Satisfied, ProbeOk, HonestProbe, inputs
  <2>6. ordered' \in [Ranks -> Items \X (0 .. DMax)]
    BY <1>1, <2>1, <2>2, ArrangedType
  <2> QED BY <1>1, <2>1, <2>5, <2>6 DEF IInv, TypeOK, inputs
<1>5. CASE Prove
  <2>1. /\ UNCHANGED <<inputs, cluster_idx, labels, ordered>> /\ pc = "prove"
        /\ Constraints
    BY <1>1, <1>5 DEF Prove, Satisfied, Constraints
  <2>2. pc' = "proved" /\ answer' = [k \in 1 .. TopK |-> ordered[k][1]]
    BY <1>5, <2>1 DEF Prove
  <2>3. PICK p \in SlotOrders : ordered = Arranged(p) /\ OrderOk(p)
    BY <2>1 DEF Constraints
  <2>4. ordered' = Arranged(p)' /\ OrderOk(p)'
    BY <2>1, <2>3, SameOrder DEF inputs
  <2>5. LabelsOk(labels)'
    BY <2>1, SameLabelsOk DEF Constraints, inputs
  <2>6. Satisfied'
    BY <1>1, <2>1, <2>2, <2>4, <2>5 DEF Satisfied, ProbeOk, HonestProbe, inputs
  <2>7. answer' \in [1 .. TopK -> Items]
    <3>1. \A k \in 1 .. TopK : k \in Ranks
      BY Shape DEF Ranks
    <3>2. ordered \in [Ranks -> Items \X (0 .. DMax)]
      BY <1>1, <2>1 DEF TypeOK
    <3> QED BY <2>2, <3>1, <3>2
  <2> QED BY <1>1, <2>1, <2>2, <2>6, <2>7 DEF IInv, TypeOK, inputs
<1>6. CASE UNCHANGED vars
  <2>1. (pc' # "probe" => ProbeOk(cluster_idx)') /\ HonestProbe' = HonestProbe
    BY <1>1, <1>6 DEF Satisfied, ProbeOk, HonestProbe, vars, inputs
  <2>2. pc' \in {"order", "prove", "proved"} => LabelsOk(labels)'
    BY <1>1, <1>6, SameLabelsOk DEF Satisfied, vars, inputs
  <2>3. pc' \in {"prove", "proved"} =>
          (\E p \in SlotOrders : ordered = Arranged(p) /\ OrderOk(p))'
    BY <1>1, <1>6, SameOrder DEF Satisfied, vars, inputs
  <2>4. Satisfied'
    BY <1>1, <1>6, <2>1, <2>2, <2>3 DEF Satisfied, vars, inputs
  <2> QED BY <1>1, <1>6, <2>4 DEF IInv, TypeOK, vars, inputs
<1> QED BY <1>2, <1>3, <1>4, <1>5, <1>6 DEF Next

LEMMA IInvHolds == Spec => []IInv
<1>1. Init => IInv
  BY InvInit
<1>2. IInv /\ [Next]_vars => IInv'
  BY InvStep
<1> QED BY <1>1, <1>2, PTL DEF Spec

-----------------------------------------------------------------------------
(* Types: the witness has its shape whatever the prover chose.             *)
THEOREM TypeCorrect == Spec => []TypeOK
<1>1. IInv => TypeOK
  BY DEF IInv
<1> QED BY <1>1, IInvHolds, PTL

(* The honest prover's witness satisfies every constraint.                 *)
THEOREM Complete == Spec => []HonestAccepted
<1>1. IInv => HonestAccepted
  BY DEF IInv, Satisfied, HonestAccepted
<1> QED BY <1>1, IInvHolds, PTL

(* A label commitment leaves the prover no choice of labels, but to pass   *)
(* off object 0 as padding where a leaf of padding can be opened.          *)
THEOREM LabelsAreCommitted == Spec => []LabelsBound
<1>1. IInv => LabelsBound
  <2> SUFFICES ASSUME IInv, LabelsCommitted, pc \in {"order", "prove", "proved"},
                      NEW s \in Pairs, At(s).valid = 1
               PROVE  labels[s] = At(s).label \/ (MayHide(s) /\ labels[s] = Dummy)
    BY DEF LabelsBound
  <2>1. Snapshot /\ cluster_idx \in ListOrders /\ LabelsOk(labels)
    BY DEF IInv, TypeOK, Satisfied, Snapshot
  <2> QED BY <2>1, LabelsForced
<1> QED BY <1>1, IInvHolds, PTL

(* No accepted proof publishes an object its user may not see, while TopK  *)
(* visible objects are left in the probed lists, not counting object 0     *)
(* where it can be hidden nor objects as far as the sentinel.              *)
THEOREM NothingUnauthorized == Spec => []OnlyVisible
<1>1. IInv => OnlyVisible
  <2> SUFFICES ASSUME IInv, pc = "proved", LabelsCommitted,
                      TopK <= Cardinality({s \in Pairs : Owed(s)}),
                      NEW k \in 1 .. TopK
               PROVE  \E s \in Pairs : Authorized(s) /\ At(s).item = answer[k]
    BY DEF OnlyVisible
  <2>1. Snapshot /\ cluster_idx \in ListOrders /\ LabelsOk(labels)
    BY DEF IInv, TypeOK, Satisfied, Snapshot
  <2>2. PICK p \in SlotOrders : ordered = Arranged(p) /\ OrderOk(p)
    BY DEF IInv, Satisfied
  <2>3. p[k] \in Pairs /\ Authorized(p[k])
    BY <2>1, <2>2, FirstAreAuthorized
  <2>4. answer[k] = At(p[k]).item
    <3>1. k \in Ranks
      BY Shape DEF Ranks
    <3>2. answer = [j \in 1 .. TopK |-> ordered[j][1]]
      BY DEF IInv, Satisfied
    <3> QED BY <2>2, <3>1, <3>2 DEF Arranged
  <2> QED BY <2>3, <2>4
<1> QED BY <1>1, IInvHolds, PTL

-----------------------------------------------------------------------------
(***************************************************************************)
(* The refinement: the proof that is accepted is one step of               *)
(* AuthorizedView, and nothing before it is visible there.                 *)
(***************************************************************************)
LEMMA SameCardinality == \A S : View!Cardinality(S) = Cardinality(S)
BY Zenon DEF View!Cardinality, Cardinality

(* The lists probed, and the place of a slot in the snapshot.              *)
Probed   == {cluster_idx[i] : i \in 1 .. NProbe}
Place(s) == <<cluster_idx[s[1]], s[2]>>

(* static_nn_gadget: the lists probed are nearest, whatever their order.   *)
LEMMA ProbedNearest ==
  ASSUME Snapshot, cluster_idx \in ListOrders, ProbeOk(cluster_idx)
  PROVE  Probed \in SUBSET Lists /\ View!Nearest(Probed)
<1> DEFINE f == [r \in 1 .. NList |-> center_dis[cluster_idx[r]]]
<1>1. /\ cluster_idx \in [1 .. NList -> Lists]
      /\ \A q, r \in 1 .. NList : cluster_idx[q] = cluster_idx[r] => q = r
      /\ 1 .. NProbe \subseteq 1 .. NList /\ NList \in Nat
  BY Shape DEF ListOrders, OneToOne
<1>2. Cardinality(Probed) = NProbe
  <2> DEFINE I == 1 .. NProbe
             g == [i \in I |-> cluster_idx[i]]
  <2>1. g \in [I -> Probed] /\ \A i, j \in I : g[i] = g[j] => i = j
    BY <1>1 DEF Probed
  <2>2. \A l \in Probed : \E i \in I : g[i] = l
    BY DEF Probed
  <2>3. IsFiniteSet(I) /\ Cardinality(I) = NProbe
    BY Shape, FS_Interval
  <2> HIDE DEF I, g
  <2>4. g \in Bijection(I, Probed)
    BY <2>1, <2>2 DEF Bijection, Injection, Surjection, IsInjective
  <2> QED BY <2>3, <2>4, FS_Bijection DEF ExistsBijection
<1>3. \A r \in 1 .. NList : center_dis[cluster_idx[r]] \in 0 .. B - 1
  BY <1>1, Distances
<1>4. \A r \in 1 .. NList : f[r] \in Int
  BY <1>3, BIsPositive
<1>5. \A r \in 1 .. NList - 1 : f[r] <= f[r + 1]
  <2> TAKE r \in 1 .. NList - 1
  <2>1. r \in 1 .. NList /\ r + 1 \in 1 .. NList
    BY <1>1
  <2>2. Comp(center_dis[cluster_idx[r]], center_dis[cluster_idx[r + 1]]) = 0
    BY DEF ProbeOk
  <2> QED BY <1>3, <2>1, <2>2, CompExact
<1>6. ASSUME NEW a \in Probed, NEW b \in Lists \ Probed
      PROVE  center_dis[a] <= center_dis[b]
  <2>1. PICK i \in 1 .. NProbe : a = cluster_idx[i]
    BY DEF Probed
  <2>2. PICK r \in 1 .. NList : b = cluster_idx[r]
    <3>1. IsFiniteSet(1 .. NList) /\ Cardinality(1 .. NList) = NList
      BY Shape, FS_Interval
    <3>2. cluster_idx \in Injection(1 .. NList, Lists)
      BY <1>1 DEF Injection, IsInjective
    <3>3. Cardinality(1 .. NList) = Cardinality(Lists) /\ IsFiniteSet(Lists)
      BY <3>1, ManyLists
    <3>4. Onto(cluster_idx, 1 .. NList, Lists)
      BY <3>2, <3>3, OntoIfAsMany
    <3> QED BY <3>4 DEF Onto
  <2>3. i \in 1 .. NList /\ i <= r
    <3>1. r \notin 1 .. NProbe
      BY <2>2 DEF Probed
    <3> QED BY <1>1, <3>1, Shape
  <2> HIDE DEF f
  <2>4. f[i] <= f[r]
    BY <1>1, <1>4, <1>5, <2>3, Ascending
  <2> QED BY <2>1, <2>2, <2>3, <2>4 DEF f
<1> QED BY <1>1, <1>2, <1>6, SameCardinality DEF View!Nearest, Probed

LEMMA Places ==
  ASSUME cluster_idx \in ListOrders
  PROVE  /\ \A s \in Pairs : /\ Place(s) \in View!SlotsOf(Probed)
                             /\ View!Content(Place(s)) = At(s)
         /\ \A s, u \in Pairs : Place(s) = Place(u) => s = u
         /\ \A v \in View!SlotsOf(Probed) : \E s \in Pairs : v = Place(s)
<1>1. /\ cluster_idx \in [1 .. NList -> Lists]
      /\ \A q, r \in 1 .. NList : cluster_idx[q] = cluster_idx[r] => q = r
      /\ 1 .. NProbe \subseteq 1 .. NList
  BY Shape DEF ListOrders, OneToOne
<1>2. ASSUME NEW s \in Pairs
      PROVE  Place(s) \in View!SlotsOf(Probed) /\ View!Content(Place(s)) = At(s)
  BY DEF Pairs, Place, Probed, View!SlotsOf, View!Content, At, InList
<1>3. ASSUME NEW s \in Pairs, NEW u \in Pairs, Place(s) = Place(u)
      PROVE  s = u
  <2>1. s = <<s[1], s[2]>> /\ u = <<u[1], u[2]>> /\ s[1] \in 1 .. NList /\ u[1] \in 1 .. NList
    BY <1>1 DEF Pairs
  <2>2. cluster_idx[s[1]] = cluster_idx[u[1]] /\ s[2] = u[2]
    BY <1>3 DEF Place
  <2> QED BY <1>1, <2>1, <2>2
<1>4. ASSUME NEW v \in View!SlotsOf(Probed)
      PROVE  \E s \in Pairs : v = Place(s)
  <2>1. PICK i \in 1 .. NProbe, j \in 1 .. N : v = <<cluster_idx[i], j>>
    BY DEF View!SlotsOf, Probed
  <2>2. <<i, j>> \in Pairs /\ Place(<<i, j>>) = v
    BY <2>1 DEF Pairs, Place
  <2> QED BY <2>2
<1> QED BY <1>2, <1>3, <1>4

(* The slots that pass the gate are a view the layout allows.              *)
Seen == {Place(s) : s \in {u \in Pairs : Gated(u)}}

LEMMA SeenIsView ==
  ASSUME Snapshot, cluster_idx \in ListOrders, LabelsOk(labels), layout \in Layouts
  PROVE  Seen \in SUBSET View!Candidates(Probed) /\ View!IsView(Seen, Probed)
<1>1. Seen \subseteq View!Candidates(Probed)
  BY Places DEF Seen, Gated, View!Candidates
<1>2. ASSUME NEW s \in Pairs, Place(s) \in View!Candidates(Probed)
      PROVE  /\ At(s).valid = 1 /\ At(s).dis < DMax /\ View!Content(Place(s)) = At(s)
             /\ Place(s) \in Seen <=> Visibility(s) = 1
  <2>1. At(s).valid = 1 /\ At(s).dis < DMax /\ View!Content(Place(s)) = At(s)
    BY <1>2, Places DEF View!Candidates
  <2>2. Place(s) \in Seen <=> Gated(s)
    BY Places DEF Seen
  <2> QED BY <2>1, <2>2 DEF Gated
<1>3. \A v \in View!Candidates(Probed) : \E s \in Pairs : v = Place(s)
  BY Places DEF View!Candidates
<1>4. CASE layout = "all_visible"
  <2>1. \A v \in View!Candidates(Probed) : v \in Seen
    BY <1>2, <1>3, <1>4 DEF Visibility
  <2> QED BY <1>1, <1>4, <2>1 DEF View!IsView
<1>5. CASE layout = "policy"
  BY <1>1, <1>5 DEF View!IsView
<1>6. CASE LabelsCommitted
  <2>1. ASSUME NEW s \in Pairs, Place(s) \in Seen
        PROVE  At(s).label \in Visible
    <3>1. Gated(s)
      BY <2>1, Places DEF Seen
    <3> QED BY <1>6, <3>1, OwedIsGated DEF Authorized
  <2>2. Seen \subseteq View!Allowed(Probed)
    BY <1>1, <1>2, <1>3, <2>1 DEF View!Allowed
  <2>3. ASSUME NEW v \in View!Allowed(Probed), v \notin Seen
        PROVE  View!Content(v).item = 0
    <3>1. v \in View!Candidates(Probed) /\ View!Content(v).label \in Visible
      BY DEF View!Allowed
    <3>2. PICK s \in Pairs : v = Place(s)
      BY <1>3, <3>1
    <3>3. /\ Authorized(s) /\ At(s).dis < DMax /\ View!Content(v) = At(s)
          /\ Visibility(s) # 1 /\ At(s).valid = 1
      BY <1>2, <2>3, <3>1, <3>2 DEF Authorized
    <3>4. ~ Gated(s)
      BY <3>3 DEF Gated
    <3>5. MayHide(s)
      BY <1>6, <3>3, <3>4, OwedIsGated DEF Owed
    <3> QED BY <3>3, <3>5 DEF MayHide
  <2>4. layout # "all_visible" /\ layout # "policy"
    BY <1>6 DEF LabelsCommitted
  <2> QED BY <1>1, <2>2, <2>3, <2>4 DEF View!IsView
<1> QED BY <1>4, <1>5, <1>6, IndexAssumption DEF LabelsCommitted

(* The first TopK places of an ascending arrangement select from the view. *)
LEMMA SelectsSeen ==
  ASSUME Snapshot, cluster_idx \in ListOrders, NEW p \in SlotOrders, OrderOk(p),
         NEW f, f = [k \in 1 .. TopK |-> Place(p[k])]
  PROVE  f \in View!Selections(Probed) /\ View!SelectsNearest(f, Seen)
<1>1. \A k \in 1 .. TopK : k \in Ranks /\ k \in Nat
  BY Shape DEF Ranks
<1>2. /\ \A r \in Ranks : p[r] \in Pairs
      /\ \A q, r \in Ranks : p[q] = p[r] => q = r
  BY DEF SlotOrders, OneToOne
<1>3. f \in View!Selections(Probed)
  <2>1. \A k \in 1 .. TopK : f[k] \in View!SlotsOf(Probed)
    BY <1>1, <1>2, Places
  <2>2. \A j, k \in 1 .. TopK : f[j] = f[k] => j = k
    BY <1>1, <1>2, Places
  <2> QED BY <2>1, <2>2 DEF View!Selections
<1>4. Cardinality(Seen) = Cardinality({s \in Pairs : Gated(s)})
  <2> DEFINE G == {s \in Pairs : Gated(s)}
             g == [s \in G |-> Place(s)]
  <2>1. g \in [G -> Seen] /\ \A s, u \in G : g[s] = g[u] => s = u
    BY Places DEF Seen
  <2>2. \A v \in Seen : \E s \in G : g[s] = v
    BY DEF Seen
  <2>3. IsFiniteSet(G)
    BY ManySlots, FS_Subset
  <2>4. Seen = {Place(s) : s \in G}
    BY DEF Seen
  <2> HIDE DEF G, g
  <2>5. g \in Bijection(G, Seen)
    BY <2>1, <2>2 DEF Bijection, Injection, Surjection, IsInjective
  <2>6. Cardinality(Seen) = Cardinality(G)
    BY <2>3, <2>5, FS_Bijection DEF ExistsBijection
  <2> QED BY <2>6 DEF G
<1>5. \A k \in 1 .. TopK : /\ f[k] \in Seen <=> Gated(p[k])
                           /\ View!Content(f[k]) = At(p[k])
  BY <1>1, <1>2, Places DEF Seen
<1>6. \A k \in 1 .. TopK : f[k] \in Seen <=> k <= View!Cardinality(Seen)
  BY <1>1, <1>4, <1>5, GatedFirst, SameCardinality
<1>7. \A s \in Pairs : Gated(s) => HatD(s) = At(s).dis
  BY GatedCases
<1>8. ASSUME NEW j \in 1 .. TopK, NEW k \in 1 .. TopK, j <= k, f[k] \in Seen
      PROVE  View!Content(f[j]).dis <= View!Content(f[k]).dis
  <2>1. f[j] \in Seen
    <3>1. \A i \in 1 .. TopK : f[i] \in Seen <=> i <= Cardinality(Seen)
      BY <1>6, SameCardinality
    <3>2. Cardinality(Seen) \in Nat
      <4>1. IsFiniteSet({s \in Pairs : Gated(s)})
        BY ManySlots, FS_Subset
      <4> QED BY <1>4, <4>1, FS_CardinalityType
    <3> QED BY <1>1, <1>8, <3>1, <3>2
  <2>2. HatD(p[j]) <= HatD(p[k])
    BY <1>1, <1>8, HatDAscends
  <2> QED BY <1>1, <1>2, <1>5, <1>7, <1>8, <2>1, <2>2
<1>9. ASSUME NEW v \in Seen, NEW k \in 1 .. TopK, f[k] \in Seen,
             \A j \in 1 .. TopK : f[j] # v
      PROVE  View!Content(f[k]).dis <= View!Content(v).dis
  <2>1. PICK s \in Pairs : Gated(s) /\ v = Place(s)
    BY DEF Seen
  <2>2. PICK r \in Ranks : p[r] = s
    BY AllArranged DEF Onto
  <2>3. r \notin 1 .. TopK
    BY <1>9, <2>1, <2>2
  <2>4. k <= r
    BY <1>1, <2>3, Shape DEF Ranks
  <2>5. HatD(p[k]) <= HatD(p[r])
    BY <1>1, <2>4, HatDAscends
  <2> QED BY <1>1, <1>2, <1>5, <1>7, <1>9, <2>1, <2>2, <2>5, Places
<1> QED BY <1>3, <1>6, <1>8, <1>9 DEF View!SelectsNearest

LEMMA AnswerStep == IInv /\ [Next]_vars => [View!Answer]_(View!vars)
<1> SUFFICES ASSUME IInv, [Next]_vars PROVE [View!Answer]_(View!vars)
  OBVIOUS
<1>1. UNCHANGED <<index, center_dis, layout>>
  BY DEF Next, Probe, Label, Order, Prove, vars, inputs
<1>2. CASE Prove /\ Constraints
  <2>1. /\ Snapshot /\ layout \in Layouts /\ pc = "prove" /\ answer = << >>
        /\ cluster_idx \in ListOrders /\ ProbeOk(cluster_idx) /\ LabelsOk(labels)
    BY <1>2 DEF IInv, TypeOK, Prove, Constraints, Snapshot
  <2>2. PICK p \in SlotOrders : ordered = Arranged(p) /\ OrderOk(p)
    BY <1>2 DEF Constraints
  <2> DEFINE f == [k \in 1 .. TopK |-> Place(p[k])]
  <2>3. f \in View!Selections(Probed) /\ View!SelectsNearest(f, Seen)
    BY <2>1, <2>2, SelectsSeen
  <2>4. answer' = [k \in 1 .. TopK |-> View!Content(f[k]).item]
    <3>1. \A k \in 1 .. TopK : k \in Ranks
      BY Shape DEF Ranks
    <3>2. \A k \in 1 .. TopK : p[k] \in Pairs
      BY <3>1 DEF SlotOrders, OneToOne
    <3>3. \A k \in 1 .. TopK : ordered[k][1] = View!Content(f[k]).item
      BY <2>1, <2>2, <3>1, <3>2, Places DEF Arranged
    <3>4. answer' = [k \in 1 .. TopK |-> ordered[k][1]]
      BY <1>2 DEF Prove
    <3> QED BY <3>3, <3>4
  <2> HIDE DEF f
  <2>5. View!IsAnswer(answer', Probed)
    BY <2>1, <2>3, <2>4, SeenIsView DEF View!IsAnswer
  <2> QED BY <1>1, <2>1, <2>5, ProbedNearest DEF View!Answer
<1>3. CASE ~ (Prove /\ Constraints)
  BY <1>1, <1>3 DEF Next, Probe, Label, Order, Prove, vars, View!vars
<1> QED BY <1>2, <1>3

(* Every accepted proof, of any prover and under any layout, answers as    *)
(* AuthorizedView allows: the top k of a view of the nearest lists.        *)
THEOREM ImplementsView == Spec => AnswersView
<1>1. Init => View!Init
  BY DEF Init, View!Init
<1> QED BY <1>1, AnswerStep, IInvHolds, PTL DEF Spec, AnswersView, View!Spec

-----------------------------------------------------------------------------
(***************************************************************************)
(* The plaintext programs.  They rank the same slots by the same masked    *)
(* distance as the honest proof, and break ties by id first.               *)
(***************************************************************************)
Sorted(p, R) == p \in SlotOrders /\ \A q, r \in Ranks : q < r => <<p[q], p[r]>> \in R

RankedBy(key) ==
  {e \in Pairs \X Pairs :
     \/ key[e[1]] < key[e[2]]
     \/ key[e[1]] = key[e[2]] /\ Candidate(e[1]).item < Candidate(e[2]).item
     \/ /\ key[e[1]] = key[e[2]] /\ Candidate(e[1]).item = Candidate(e[2]).item
        /\ Before(e[1], e[2])}

MaskedKey == [s \in Pairs |-> MaskedDistance(Candidate(s))]
RawKey    == [s \in Pairs |-> RawDistance(Candidate(s))]

LEMMA Candidates ==
  ASSUME Snapshot, NEW s \in Pairs
  PROVE  LET c == Candidate(s)
         IN  /\ c.valid \in {0, 1} /\ c.item \in Int /\ c.dis \in 0 .. DMax
             /\ MaskedKey[s] = IF c.valid = 1 /\ VisibleBit(c) = 1 THEN c.dis ELSE DMax
             /\ RawKey[s] = IF c.valid = 1 THEN c.dis ELSE DMax + 1
<1> DEFINE c == Candidate(s)
<1>1. HonestProbe[s[1]] \in Lists /\ s[2] \in 1 .. N
  BY HonestProbeSorts, Shape DEF ListOrders, OneToOne, Pairs
<1>2. c.valid \in {0, 1} /\ c.item \in Int /\ c.dis \in 0 .. DMax
  <2>1. /\ c = index[HonestProbe[s[1]]][s[2]]
        /\ c.valid \in {0, 1} /\ c.item \in Items /\ c.dis \in 0 .. DMax
    BY <1>1, SlotType, Zenon DEF Candidate, InList
  <2>2. \A i \in Items : i \in Int
    BY ItemsAssumption
  <2> HIDE DEF c
  <2> QED BY <2>1, <2>2, Zenon
<1>3. VisibleBit(c) \in {0, 1}
  BY DEF VisibleBit
<1>4. /\ MaskedKey[s] = c.valid * (VisibleBit(c) * c.dis + (1 - VisibleBit(c)) * DMax)
                          + (1 - c.valid) * DMax
      /\ RawKey[s] = IF c.valid = 1 THEN c.dis ELSE DMax + 1
  BY DEF MaskedKey, MaskedDistance, RawKey, RawDistance
<1> HIDE DEF c
<1>5. MaskedKey[s] = IF c.valid = 1 /\ VisibleBit(c) = 1 THEN c.dis ELSE DMax
  <2>1. CASE c.valid = 0
    <3>1. MaskedKey[s] = 0 * (VisibleBit(c) * c.dis + (1 - VisibleBit(c)) * DMax) + (1 - 0) * DMax
      BY <1>4, <2>1
    <3>2. VisibleBit(c) * c.dis + (1 - VisibleBit(c)) * DMax \in Int
      BY <1>2, <1>3, BIsPositive
    <3> QED BY <2>1, <3>1, <3>2, BIsPositive
  <2>2. CASE c.valid = 1 /\ VisibleBit(c) = 0
    <3>1. MaskedKey[s] = 1 * (0 * c.dis + (1 - 0) * DMax) + (1 - 1) * DMax
      BY <1>4, <2>2
    <3> QED BY <1>2, <2>2, <3>1, BIsPositive
  <2>3. CASE c.valid = 1 /\ VisibleBit(c) = 1
    <3>1. MaskedKey[s] = 1 * (1 * c.dis + (1 - 1) * DMax) + (1 - 1) * DMax
      BY <1>4, <2>3
    <3> QED BY <1>2, <2>3, <3>1, BIsPositive
  <2> QED BY <1>2, <1>3, <2>1, <2>2, <2>3
<1> QED BY <1>2, <1>4, <1>5 DEF c

LEMMA KeyTypes == Snapshot => MaskedKey \in [Pairs -> Int] /\ RawKey \in [Pairs -> Int]
<1> SUFFICES ASSUME Snapshot PROVE MaskedKey \in [Pairs -> Int] /\ RawKey \in [Pairs -> Int]
  OBVIOUS
<1>1. \A s \in Pairs : MaskedKey[s] \in Int /\ RawKey[s] \in Int
  BY Candidates, BIsPositive
<1> QED BY <1>1 DEF MaskedKey, RawKey

LEMMA RankedByTotal ==
  ASSUME Snapshot, NEW key \in [Pairs -> Int]
  PROVE  StrictTotal(RankedBy(key), Pairs)
<1>1. \A s \in Pairs : Candidate(s).item \in Int /\ key[s] \in Int
  BY Candidates
<1>2. /\ \A s \in Pairs : ~ Before(s, s)
      /\ \A s, u, w \in Pairs : Before(s, u) /\ Before(u, w) => Before(s, w)
      /\ \A s, u \in Pairs : s = u \/ Before(s, u) \/ Before(u, s)
  BY Shape DEF Before, Pairs
<1> QED BY <1>1, <1>2 DEF StrictTotal, RankedBy

LEMMA RankedSorts ==
  ASSUME Snapshot
  PROVE  /\ Sorted(Ranked(MaskedDistance), RankedBy(MaskedKey))
         /\ Sorted(Ranked(RawDistance), RankedBy(RawKey))
<1>1. /\ \E p \in SlotOrders : \A q, r \in Ranks : q < r => <<p[q], p[r]>> \in RankedBy(MaskedKey)
      /\ \E p \in SlotOrders : \A q, r \in Ranks : q < r => <<p[q], p[r]>> \in RankedBy(RawKey)
  BY KeyTypes, RankedByTotal, ManySlots, SortExists DEF SlotOrders, Ranks
<1>2. \A p \in SlotOrders, q \in Ranks : p[q] \in Pairs
  BY DEF SlotOrders, OneToOne
<1>3. ASSUME NEW p \in SlotOrders, NEW q \in Ranks, NEW r \in Ranks
      PROVE  <<p[q], p[r]>> \in RankedBy(MaskedKey) <=>
               LET a == Candidate(p[q])
                   b == Candidate(p[r])
               IN  \/ MaskedDistance(a) < MaskedDistance(b)
                   \/ MaskedDistance(a) = MaskedDistance(b) /\ a.item < b.item
                   \/ MaskedDistance(a) = MaskedDistance(b) /\ a.item = b.item /\ Before(p[q], p[r])
  BY <1>2 DEF RankedBy, MaskedKey
<1>4. ASSUME NEW p \in SlotOrders, NEW q \in Ranks, NEW r \in Ranks
      PROVE  <<p[q], p[r]>> \in RankedBy(RawKey) <=>
               LET a == Candidate(p[q])
                   b == Candidate(p[r])
               IN  \/ RawDistance(a) < RawDistance(b)
                   \/ RawDistance(a) = RawDistance(b) /\ a.item < b.item
                   \/ RawDistance(a) = RawDistance(b) /\ a.item = b.item /\ Before(p[q], p[r])
  BY <1>2 DEF RankedBy, RawKey
<1>5. Sorted(Ranked(MaskedDistance), RankedBy(MaskedKey))
  BY <1>1, <1>3, Zenon DEF Ranked, Sorted
<1>6. Sorted(Ranked(RawDistance), RankedBy(RawKey))
  BY <1>1, <1>4, Zenon DEF Ranked, Sorted
<1> QED BY <1>5, <1>6

(* However ties are broken, the ranks have the same keys.                  *)
LEMMA KeyNotBelow ==
  ASSUME NEW key \in [Pairs -> Int], NEW p \in SlotOrders, NEW q \in SlotOrders,
         \A i, j \in Ranks : i < j => key[p[i]] <= key[p[j]],
         \A i, j \in Ranks : i < j => key[q[i]] <= key[q[j]],
         NEW k \in Ranks
  PROVE  ~ (key[p[k]] < key[q[k]])
<1> SUFFICES ASSUME key[p[k]] < key[q[k]] PROVE FALSE
  OBVIOUS
<1>1. \A i \in Ranks : i \in Nat \ {0} /\ p[i] \in Pairs /\ q[i] \in Pairs
  BY DEF Ranks, SlotOrders, OneToOne
<1>2. \A i \in 1 .. k : i \in Ranks
  BY Shape DEF Ranks
<1> DEFINE h == [i \in 1 .. k |-> CHOOSE j \in Ranks : q[j] = p[i]]
<1>3. \A i \in 1 .. k : h[i] \in Ranks /\ q[h[i]] = p[i]
  BY <1>1, <1>2, AllArranged DEF Onto
<1>4. \A i \in 1 .. k : h[i] \in 1 .. k - 1
  <2> TAKE i \in 1 .. k
  <2> HIDE DEF h
  <2>1. key[p[i]] <= key[p[k]]
    <3>1. i \in Ranks /\ (i < k \/ i = k)
      BY <1>1, <1>2
    <3> QED BY <1>1, <3>1
  <2>2. key[q[h[i]]] < key[q[k]]
    BY <1>1, <1>2, <1>3, <2>1
  <2>3. h[i] < k
    BY <1>1, <1>3, <2>2
  <2> QED BY <1>1, <1>3, <2>3
<1>5. h \in [1 .. k -> 1 .. k - 1]
  BY <1>4
<1>6. /\ IsFiniteSet(1 .. k) /\ Cardinality(1 .. k) = k
      /\ IsFiniteSet(1 .. k - 1) /\ Cardinality(1 .. k - 1) = k - 1
  <2>1. k \in Nat /\ k - 1 \in Nat
    BY <1>1
  <2> QED BY <2>1, UpTo
<1> HIDE DEF h
<1>7. Cardinality(1 .. k - 1) < Cardinality(1 .. k)
  BY <1>1, <1>6
<1>8. PICK i \in 1 .. k, j \in 1 .. k : i # j /\ h[i] = h[j]
  BY <1>5, <1>6, <1>7, FS_PigeonHole
<1> QED BY <1>2, <1>3, <1>8 DEF SlotOrders, OneToOne

LEMMA SameKeys ==
  ASSUME NEW key \in [Pairs -> Int], NEW p \in SlotOrders, NEW q \in SlotOrders,
         \A i, j \in Ranks : i < j => key[p[i]] <= key[p[j]],
         \A i, j \in Ranks : i < j => key[q[i]] <= key[q[j]],
         NEW k \in Ranks
  PROVE  key[p[k]] = key[q[k]]
<1>1. ~ (key[p[k]] < key[q[k]]) /\ ~ (key[q[k]] < key[p[k]])
  BY KeyNotBelow
<1>2. key[p[k]] \in Int /\ key[q[k]] \in Int
  BY DEF SlotOrders, OneToOne
<1> QED BY <1>1, <1>2

(* A slot's place in a sorted list is the number of slots before it.       *)
LEMMA RankOfSlot ==
  ASSUME NEW R, StrictTotal(R, Pairs), NEW p, Sorted(p, R), NEW r \in Ranks
  PROVE  r = Cardinality(Preds(R, Pairs, p[r])) + 1
<1>1. /\ \A q \in Ranks : q \in Nat \ {0} /\ p[q] \in Pairs
      /\ \A q, t \in Ranks : p[q] = p[t] => q = t
      /\ p \in SlotOrders
  BY DEF Ranks, Sorted, SlotOrders, OneToOne
<1>2. \A q \in Ranks : <<p[q], p[r]>> \in R <=> q < r
  <2> TAKE q \in Ranks
  <2>1. q < r => <<p[q], p[r]>> \in R
    BY DEF Sorted
  <2>2. r < q => <<p[r], p[q]>> \in R
    BY DEF Sorted
  <2>3. r < q \/ r = q \/ q < r
    BY <1>1
  <2>4. ~ (<<p[q], p[r]>> \in R /\ <<p[r], p[q]>> \in R) /\ ~ (<<p[r], p[r]>> \in R)
    BY <1>1 DEF StrictTotal
  <2> QED BY <1>1, <2>1, <2>2, <2>3, <2>4
<1> DEFINE I == 1 .. r - 1
           f == [q \in I |-> p[q]]
           Q == Preds(R, Pairs, p[r])
<1>3. \A q : q \in I <=> q \in Ranks /\ q < r
  BY <1>1, Shape DEF Ranks
<1>4. f \in [I -> Q] /\ \A q, t \in I : f[q] = f[t] => q = t
  BY <1>1, <1>2, <1>3 DEF Preds
<1>5. \A s \in Q : \E q \in I : f[q] = s
  <2> TAKE s \in Q
  <2>1. PICK q \in Ranks : p[q] = s
    BY <1>1, AllArranged DEF Onto, Preds
  <2> QED BY <1>2, <1>3, <2>1 DEF Preds
<1>6. IsFiniteSet(I) /\ Cardinality(I) = r - 1
  <2>1. r - 1 \in Nat
    BY <1>1
  <2> QED BY <2>1, UpTo
<1> HIDE DEF I, f, Q
<1>7. f \in Bijection(I, Q)
  BY <1>4, <1>5 DEF Bijection, Injection, Surjection, IsInjective
<1>8. Cardinality(Q) = r - 1
  BY <1>6, <1>7, FS_Bijection DEF ExistsBijection
<1> QED BY <1>1, <1>8 DEF Q

-----------------------------------------------------------------------------
(* The witness of the honest prover, step by step.                         *)
HonestInv ==
  honest =>
    /\ pc # "probe" => cluster_idx = HonestProbe
    /\ pc \in {"order", "prove", "proved"} => labels = HonestLabels
    /\ pc \in {"prove", "proved"} => ordered = Arranged(HonestOrder)

LEMMA HonestInvHolds == Spec => []HonestInv
<1>1. Init => HonestInv
  BY DEF Init, HonestInv
<1>2. HonestInv /\ [Next]_vars => HonestInv'
  <2> SUFFICES ASSUME HonestInv, [Next]_vars, honest' PROVE HonestInv'
    BY DEF HonestInv
  <2>1. honest /\ UNCHANGED inputs
    BY DEF Next, Probe, Label, Order, Prove, vars, inputs
  <2>2. HonestProbe' = HonestProbe
    BY <2>1, SameTrees
  <2>3. cluster_idx' = cluster_idx => HonestLabels' = HonestLabels
    BY <2>1 DEF inputs, HonestLabels, PaddingLabel, ObjectZero, At, InList
  <2>4. UNCHANGED <<cluster_idx, labels>> => Arranged(HonestOrder)' = Arranged(HonestOrder)
    <3> SUFFICES ASSUME UNCHANGED <<cluster_idx, labels>>
                 PROVE  Arranged(HonestOrder)' = Arranged(HonestOrder)
      OBVIOUS
    <3>1. index' = index /\ layout' = layout /\ cluster_idx' = cluster_idx /\ labels' = labels
      BY <2>1 DEF inputs
    <3>2. HonestOrder' = HonestOrder
      BY <3>1 DEF HonestOrder, HatD, At, InList, Visibility
    <3> QED BY <3>1, <3>2 DEF Arranged, HatD, At, InList, Visibility
  <2>5. CASE Probe
    BY <2>1, <2>2, <2>5 DEF Probe, HonestInv
  <2>6. CASE Label
    BY <2>1, <2>2, <2>3, <2>6 DEF Label, HonestInv
  <2>7. CASE Order
    BY <2>1, <2>2, <2>3, <2>4, <2>7 DEF Order, HonestInv
  <2>8. CASE Prove
    BY <2>1, <2>2, <2>3, <2>4, <2>8 DEF Prove, HonestInv
  <2>9. CASE UNCHANGED vars
    BY <2>1, <2>2, <2>3, <2>4, <2>9 DEF vars, HonestInv
  <2> QED BY <2>5, <2>6, <2>7, <2>8, <2>9 DEF Next
<1> QED BY <1>1, <1>2, PTL DEF Spec

(* The circuit masks for the honest witness as the reference does.         *)
LEMMA HonestHatD ==
  ASSUME Snapshot, cluster_idx = HonestProbe, labels = HonestLabels, NEW s \in Pairs
  PROVE  HatD(s) = MaskedKey[s] /\ At(s) = Candidate(s)
<1>1. At(s) = Candidate(s)
  BY DEF At, Candidate
<1>2. HonestProbe \in ListOrders
  BY HonestProbeSorts
<1>3. labels[s] = IF layout = "policy" /\ At(s).valid = 0 THEN PaddingLabel ELSE At(s).label
  BY DEF HonestLabels
<1>4. At(s).valid = 1 => (Visibility(s) = 1 <=> VisibleBit(At(s)) = 1)
  BY <1>3 DEF Visibility, VisibleBit
<1> QED BY <1>1, <1>2, <1>4, HatDCases, Candidates

LEMMA AgreesWithReference ==
  ASSUME Snapshot, cluster_idx = HonestProbe, labels = HonestLabels,
         ordered = Arranged(HonestOrder), answer = [k \in 1 .. TopK |-> ordered[k][1]],
         NEW k \in 1 .. TopK
  PROVE  LET c == AuthorizedTopK[k]
         IN  /\ ordered[k][2] = MaskedDistance(c)
             /\ \/ answer[k] = c.item
                \/ Cardinality({s \in Pairs : HatD(s) = MaskedDistance(c)}) > 1
<1> DEFINE p == HonestOrder
           q == Ranked(MaskedDistance)
           c == Candidate(q[k])
<1>1. k \in Ranks /\ AuthorizedTopK[k] = c
  BY Shape DEF Ranks, AuthorizedTopK
<1>2. HonestProbe \in ListOrders
  BY HonestProbeSorts
<1>3. \A s \in Pairs : HatD(s) = MaskedKey[s] /\ At(s) = Candidate(s) /\ MaskedKey[s] \in Int
  BY HonestHatD, KeyTypes
<1>4. p \in SlotOrders /\ \A i, j \in Ranks : i < j => MaskedKey[p[i]] <= MaskedKey[p[j]]
  <2>1. p \in SlotOrders /\ \A i \in Ranks : p[i] \in Pairs
    BY <1>2, HonestOrderSorts DEF SlotOrders, OneToOne
  <2>2. \A i, j \in Ranks : i < j => HatD(p[i]) < HatD(p[j]) \/ HatD(p[i]) = HatD(p[j])
    BY <1>2, HonestOrderSorts
  <2> HIDE DEF p
  <2> QED BY <1>3, <2>1, <2>2
<1>5. q \in SlotOrders /\ \A i, j \in Ranks : i < j => MaskedKey[q[i]] <= MaskedKey[q[j]]
  <2>1. Sorted(q, RankedBy(MaskedKey))
    BY RankedSorts
  <2> HIDE DEF p, q, c
  <2>2. q \in SlotOrders /\ \A i \in Ranks : q[i] \in Pairs
    BY <2>1 DEF Sorted, SlotOrders, OneToOne
  <2>3. \A i, j \in Ranks : i < j => <<q[i], q[j]>> \in RankedBy(MaskedKey)
    BY <2>1 DEF Sorted
  <2>4. \A s, u \in Pairs : <<s, u>> \in RankedBy(MaskedKey) => MaskedKey[s] <= MaskedKey[u]
    BY <1>3 DEF RankedBy
  <2> QED BY <2>2, <2>3, <2>4
<1> HIDE DEF p, q
<1>6. p[k] \in Pairs /\ q[k] \in Pairs
  BY <1>1, <1>4, <1>5 DEF SlotOrders, OneToOne
<1>7. MaskedKey[p[k]] = MaskedKey[q[k]]
  BY <1>1, <1>4, <1>5, KeyTypes, SameKeys
<1>8. MaskedDistance(c) = MaskedKey[q[k]]
  BY <1>6 DEF MaskedKey
<1>9. ordered[k] = <<At(p[k]).item, HatD(p[k])>> /\ answer[k] = At(p[k]).item
  BY <1>1 DEF Arranged, p
<1>10. ordered[k][2] = MaskedDistance(c)
  BY <1>3, <1>6, <1>7, <1>8, <1>9
<1>11. \/ answer[k] = c.item
       \/ Cardinality({s \in Pairs : HatD(s) = MaskedDistance(c)}) > 1
  <2> DEFINE T == {s \in Pairs : HatD(s) = MaskedDistance(c)}
  <2>1. CASE p[k] = q[k]
    BY <1>3, <1>6, <1>9, <2>1
  <2>2. CASE p[k] # q[k]
    <3>1. {p[k], q[k]} \subseteq T
      BY <1>3, <1>6, <1>7, <1>8
    <3>2. IsFiniteSet(T)
      BY ManySlots, FS_Subset
    <3>3. Cardinality({p[k], q[k]}) = 2
      <4>1. IsFiniteSet({p[k]}) /\ Cardinality({p[k]}) = 1
        BY FS_Singleton
      <4>2. Cardinality({p[k]} \cup {q[k]}) = 1 + 1
        BY <2>2, <4>1, FS_AddElement
      <4>3. {p[k]} \cup {q[k]} = {p[k], q[k]}
        OBVIOUS
      <4> QED BY <4>2, <4>3
    <3>4. Cardinality({p[k], q[k]}) <= Cardinality(T)
      BY <3>1, <3>2, FS_Subset
    <3>5. Cardinality(T) \in Nat
      BY <3>2, FS_CardinalityType
    <3> QED BY <3>3, <3>4, <3>5
  <2> QED BY <2>1, <2>2
<1> QED BY <1>1, <1>10, <1>11

-----------------------------------------------------------------------------
(* The slots a user may see precede a slot the user may see in the one     *)
(* list exactly if they do in the other.                                   *)
Passes(s)   == Candidate(s).valid = 1 /\ VisibleBit(Candidate(s)) = 1
Survives(s) == Passes(s) /\ Candidate(s).dis < DMax

LEMMA SurvivorsInOrder ==
  ASSUME Snapshot, NEW s \in Pairs, Survives(s), NEW u \in Pairs
  PROVE  <<u, s>> \in RankedBy(MaskedKey) <=> Survives(u) /\ <<u, s>> \in RankedBy(RawKey)
<1>1. MaskedKey[s] = RawKey[s] /\ MaskedKey[s] < DMax /\ MaskedKey[s] \in Int
  BY Candidates, BIsPositive DEF Survives, Passes
<1>2. CASE Passes(u)
  <2>1. MaskedKey[u] = RawKey[u] /\ MaskedKey[u] = Candidate(u).dis /\ Candidate(u).dis \in Int
    BY <1>2, Candidates, BIsPositive DEF Passes
  <2>2. <<u, s>> \in RankedBy(MaskedKey) => Candidate(u).dis < DMax
    BY <1>1, <2>1, BIsPositive DEF RankedBy
  <2> QED BY <1>1, <1>2, <2>1, <2>2 DEF RankedBy, Survives
<1>3. CASE ~ Passes(u)
  <2>1. MaskedKey[u] = DMax
    BY <1>3, Candidates DEF Passes
  <2> QED BY <1>1, <1>3, <2>1, BIsPositive DEF RankedBy, Survives
<1> QED BY <1>2, <1>3

LEMMA PrefixOfReference ==
  ASSUME Snapshot, NEW k \in PostFilter, Candidate(Ranked(RawDistance)[k]).dis < DMax
  PROVE  LET m == Cardinality({j \in PostFilter : j <= k})
         IN  m <= TopK /\ AuthorizedTopK[m] = Candidate(Ranked(RawDistance)[k])
<1> DEFINE raw == Ranked(RawDistance)
           msk == Ranked(MaskedDistance)
           s   == raw[k]
           F   == {j \in PostFilter : j < k}
           Q   == Preds(RankedBy(MaskedKey), Pairs, s)
           f   == [j \in F |-> raw[j]]
<1>1. /\ Sorted(raw, RankedBy(RawKey)) /\ Sorted(msk, RankedBy(MaskedKey))
      /\ StrictTotal(RankedBy(RawKey), Pairs) /\ StrictTotal(RankedBy(MaskedKey), Pairs)
  BY RankedSorts, KeyTypes, RankedByTotal
<1>2. /\ PostFilter = {j \in 1 .. TopK : Passes(raw[j])}
      /\ Candidate(s).dis < DMax
  BY DEF PostFilter, Passes
<1>3. \A j \in 1 .. TopK : j \in Ranks /\ j \in Nat \ {0}
  BY Shape DEF Ranks
<1> HIDE DEF raw, msk
<1>4. /\ raw \in SlotOrders /\ msk \in SlotOrders
      /\ \A j \in Ranks : raw[j] \in Pairs /\ msk[j] \in Pairs
      /\ \A i, j \in Ranks : raw[i] = raw[j] => i = j
  BY <1>1 DEF Sorted, SlotOrders, OneToOne
<1>5. k \in Ranks /\ k \in Nat \ {0} /\ k <= TopK /\ s \in Pairs /\ Survives(s)
  BY <1>2, <1>3, <1>4, Shape DEF Survives
<1>6. \A u \in Pairs : u \in Q <=> Survives(u) /\ <<u, s>> \in RankedBy(RawKey)
  BY <1>5, SurvivorsInOrder DEF Preds
<1>7. \A j \in Ranks : <<raw[j], s>> \in RankedBy(RawKey) <=> j < k
  <2> TAKE j \in Ranks
  <2>1. (j < k => <<raw[j], s>> \in RankedBy(RawKey)) /\ (k < j => <<s, raw[j]>> \in RankedBy(RawKey))
    BY <1>1, <1>5 DEF Sorted
  <2>2. j < k \/ j = k \/ k < j
    BY <1>5 DEF Ranks
  <2>3. /\ ~ (<<raw[j], s>> \in RankedBy(RawKey) /\ <<s, raw[j]>> \in RankedBy(RawKey))
        /\ ~ (<<s, s>> \in RankedBy(RawKey))
    BY <1>1, <1>4, <1>5 DEF StrictTotal
  <2>4. j < k => ~ (k < j)
    BY <1>5 DEF Ranks
  <2> QED BY <2>1, <2>2, <2>3, <2>4
<1>8. Cardinality(Q) = Cardinality(F) /\ IsFiniteSet(F)
  <2>1. \A j \in F : j \in Ranks /\ raw[j] \in Pairs /\ Survives(raw[j]) /\ j < k
    <3> TAKE j \in F
    <3>1. j \in Ranks /\ raw[j] \in Pairs /\ Passes(raw[j]) /\ j < k
      BY <1>2, <1>3, <1>4
    <3>2. <<raw[j], s>> \in RankedBy(RawKey)
      BY <1>7, <3>1
    <3>3. RawKey[raw[j]] <= RawKey[s] /\ RawKey[s] < DMax
      BY <1>4, <1>5, <3>1, <3>2, Candidates, BIsPositive DEF RankedBy, Survives, Passes
    <3>4. RawKey[raw[j]] = Candidate(raw[j]).dis /\ Candidate(raw[j]).dis \in Int
      BY <3>1, Candidates, BIsPositive DEF Passes
    <3> QED BY <1>5, <3>1, <3>3, <3>4, Candidates, BIsPositive DEF Survives, Passes
  <2>2. f \in [F -> Q] /\ \A i, j \in F : f[i] = f[j] => i = j
    BY <1>4, <1>6, <1>7, <2>1
  <2>3. \A u \in Q : \E j \in F : f[j] = u
    <3> TAKE u \in Q
    <3>1. u \in Pairs /\ Survives(u) /\ <<u, s>> \in RankedBy(RawKey)
      BY <1>6 DEF Preds
    <3>2. PICK j \in Ranks : raw[j] = u
      BY <1>4, <3>1, AllArranged DEF Onto
    <3>3. j < k
      BY <1>7, <3>1, <3>2
    <3>4. j \in 1 .. TopK
      BY <1>5, <3>3, Shape DEF Ranks
    <3> QED BY <1>2, <3>1, <3>2, <3>3, <3>4 DEF Survives
  <2>4. IsFiniteSet(F)
    <3>1. F \subseteq 1 .. TopK
      BY <1>2
    <3>2. IsFiniteSet(1 .. TopK)
      BY Shape, FS_Interval
    <3> HIDE DEF F
    <3> QED BY <3>1, <3>2, FS_Subset
  <2> HIDE DEF F, Q, f
  <2>5. f \in Bijection(F, Q)
    BY <2>2, <2>3 DEF Bijection, Injection, Surjection, IsInjective
  <2> QED BY <2>4, <2>5, FS_Bijection DEF ExistsBijection
<1>9. PICK t \in Ranks : msk[t] = s
  BY <1>4, <1>5, AllArranged DEF Onto
<1>10. t = Cardinality(F) + 1
  BY <1>1, <1>8, <1>9, RankOfSlot
<1>11. Cardinality({j \in PostFilter : j <= k}) = Cardinality(F) + 1
  <2>1. {j \in PostFilter : j <= k} = F \cup {k} /\ k \notin F
    BY <1>2, <1>5
  <2> HIDE DEF F
  <2> QED BY <1>8, <2>1, FS_AddElement
<1>12. t <= TopK
  <2>1. F \subseteq 1 .. k - 1
    BY <1>2, <1>5
  <2>2. IsFiniteSet(1 .. k - 1) /\ Cardinality(1 .. k - 1) = k - 1
    <3>1. k - 1 \in Nat
      BY <1>5
    <3> QED BY <3>1, UpTo
  <2> HIDE DEF F
  <2>3. Cardinality(F) <= k - 1 /\ Cardinality(F) \in Nat
    BY <1>8, <2>1, <2>2, FS_Subset, FS_CardinalityType
  <2> QED BY <1>5, <1>10, <2>3, Shape
<1>13. t \in 1 .. TopK
  BY <1>9, <1>12, Shape DEF Ranks
<1>14. AuthorizedTopK[t] = Candidate(s)
  BY <1>9, <1>13 DEF AuthorizedTopK, msk
<1> QED BY <1>10, <1>11, <1>12, <1>14 DEF raw

(* The honest proof and the plaintext reference agree rank by rank on the  *)
(* distance, and on the object unless several slots are at that distance;  *)
(* post-filtering returns a prefix of what the reference returns.          *)
THEOREM BaselinesAlwaysAgree == Spec => []BaselinesAgree
<1>1. IInv /\ HonestInv => ReferenceAgrees
  BY AgreesWithReference DEF IInv, TypeOK, Satisfied, Snapshot, HonestInv, ReferenceAgrees
<1>2. IInv => PostFilterIsPrefix
  BY PrefixOfReference DEF IInv, TypeOK, Snapshot, PostFilterIsPrefix
<1>3. IInv /\ HonestInv => BaselinesAgree
  BY <1>1, <1>2 DEF BaselinesAgree
<1> QED BY <1>3, IInvHolds, HonestInvHolds, PTL
=============================================================================
