------------------------- MODULE PlanningBench_proofs -------------------------
(***************************************************************************)
(* For every grid and every way to group it: a validated plan computes     *)
(* what the masked reference computes, whatever was altered; the planner's *)
(* own plans pass; their estimates are bounded; the layouts by access      *)
(* signature keep what they promise; and the workloads of the sweep are    *)
(* what was asked for.  The first needs what holds between validation and  *)
(* comparison (no error was found, so that the plan has no structural      *)
(* error), the second that the regions of a grouping name every slot once, *)
(* the third sums over those regions, the fourth counts them, and the last *)
(* follows the visible slots through every unit.                           *)
(***************************************************************************)
EXTENDS PlanningBench, FiniteSetTheorems, NaturalsInduction, WellFoundedInduction,
        TLAPS

Types == {"pure_visible", "pure_invisible", "impure"}

LEMMA ClassifiedTypes ==
  ASSUME NEW S PROVE ClassifyRegionType(S) \in Types
BY DEF ClassifyRegionType, Types

(* What the absence of structural errors says of slot i and of the region  *)
(* it is in.                                                               *)
LEMMA SlotIsInItsRegion ==
  ASSUME StructuralErrors = {}, NEW i \in Slots
  PROVE  \E r \in DOMAIN plan :
           /\ RegionOf(i) = plan[r]
           /\ i \in Named(r)
           /\ plan[r].type \in Types
<1>1. Mentions(i) # {}
  BY DEF StructuralErrors
<1>2. PICK m \in Mentions(i) : TRUE
  BY <1>1
<1>3. m[1] \in DOMAIN plan
  BY <1>2 DEF Mentions
<1>4. \E r \in DOMAIN plan : \E n \in Mentions(i) : n[1] = r
  BY <1>2, <1>3
<1> DEFINE r == CHOOSE q \in DOMAIN plan : \E n \in Mentions(i) : n[1] = q
<1>5. r \in DOMAIN plan /\ \E n \in Mentions(i) : n[1] = r
  BY <1>4
<1>6. PICK n \in Mentions(i) : n[1] = r
  BY <1>5
<1>7. n[2] \in DOMAIN plan[n[1]].slots /\ plan[n[1]].slots[n[2]] = i
  <2>1. PICK q \in DOMAIN plan : n \in {q} \X DOMAIN plan[q].slots
    BY <1>6 DEF Mentions
  <2>2. n[1] = q /\ n[2] \in DOMAIN plan[q].slots
    BY <2>1
  <2>3. plan[n[1]].slots[n[2]] = i
    BY <1>6 DEF Mentions
  <2> QED
    BY <2>2, <2>3
<1>8. i \in Named(r)
  BY <1>6, <1>7 DEF Named
<1>9. plan[r].type = ClassifyRegionType(Named(r))
  BY <1>5 DEF StructuralErrors
<1>10. plan[r].type \in Types
  BY <1>9, ClassifiedTypes
<1>11. RegionOf(i) = plan[r]
  BY DEF RegionOf
<1> QED
  BY <1>5, <1>8, <1>10, <1>11

LEMMA SlotScoresAgree ==
  ASSUME StructuralErrors = {}, NEW i \in Slots
  PROVE  ScoreSlotInRegion(i) = ScoreCandidate(grid[i])
<1>1. PICK r \in DOMAIN plan : /\ RegionOf(i) = plan[r]
                               /\ i \in Named(r)
                               /\ plan[r].type \in Types
  BY SlotIsInItsRegion
<1>2. grid[i].valid => /\ plan[r].type = "pure_visible" => grid[i].visible
                       /\ plan[r].type = "pure_invisible" => ~ grid[i].visible
  BY <1>1 DEF StructuralErrors
<1>3. CASE plan[r].type = "impure" \/ ~ grid[i].valid
  BY <1>1, <1>3 DEF ScoreSlotInRegion, ScoreCandidate
<1>4. CASE plan[r].type = "pure_visible" /\ grid[i].valid
  BY <1>1, <1>2, <1>4
     DEF ScoreSlotInRegion, ScoreCandidate, ComputeMaskedDistance
<1>5. CASE plan[r].type = "pure_invisible" /\ grid[i].valid
  BY <1>1, <1>2, <1>5
     DEF ScoreSlotInRegion, ScoreCandidate, ComputeMaskedDistance
<1> QED
  BY <1>1, <1>3, <1>4, <1>5 DEF Types

LEMMA StructureSuffices ==
  ASSUME StructuralErrors = {}
  PROVE  Equivalent(PlannedScores, MaskedScores)
<1>1. PlannedScores = MaskedScores
  BY SlotScoresAgree DEF PlannedScores, MaskedScores
<1> QED
  BY <1>1 DEF Equivalent

LEMMA NoComparisonError == "not equivalent" \notin StructuralErrors
BY DEF StructuralErrors

-----------------------------------------------------------------------------

CheckedPlan == (pc = "validated" /\ errors = {}) => StructuralErrors = {}

IInv == ValidatedEqualsMasked /\ CheckedPlan

LEMMA InitIInv == Init => IInv
BY DEF Init, PlanInit, IInv, ValidatedEqualsMasked, CheckedPlan

LEMMA ValidateIInv ==
  ASSUME IInv, ValidateProofPlan PROVE IInv'
<1>1. pc' \in {"raised", "validated"} /\ UNCHANGED <<grid, plan>>
  BY DEF ValidateProofPlan
<1>2. \/ errors' = errors /\ pc' = "raised"
      \/ errors' = StructuralErrors
  BY StructureSuffices DEF ValidateProofPlan
<1>3. StructuralErrors' = StructuralErrors
  BY <1>1 DEF StructuralErrors, Slots, Mentions, Named, ClassifyRegionType
<1>4. "not equivalent" \notin errors'
  BY <1>2, NoComparisonError DEF IInv, ValidatedEqualsMasked
<1> QED
  BY <1>1, <1>2, <1>3, <1>4 DEF IInv, ValidatedEqualsMasked, CheckedPlan

LEMMA CompareIInv ==
  ASSUME IInv, Compare PROVE IInv'
<1>1. errors' = errors /\ pc = "validated" /\ pc' \in {"compared", "raised"}
  BY DEF Compare
<1>2. ASSUME pc' = "compared", errors' = {}
      PROVE  Equivalent(planned', masked')
  <2>1. planned' = PlannedScores /\ masked' = MaskedScores
    BY <1>2 DEF Compare
  <2>2. StructuralErrors = {}
    BY <1>1, <1>2 DEF IInv, CheckedPlan
  <2>3. PlannedScores = MaskedScores
    BY <2>2, StructureSuffices DEF Equivalent
  <2> QED
    BY <2>1, <2>3 DEF Equivalent
<1>3. Equivalent(planned, masked)' <=> Equivalent(planned', masked')
  BY DEF Equivalent, AuthorizedTopK
<1> QED
  BY <1>1, <1>2, <1>3 DEF IInv, ValidatedEqualsMasked, CheckedPlan

(* Nothing is validated yet before the plan is handed on.                  *)
LEMMA PlanningIInv ==
  ASSUME IInv, UNCHANGED errors, pc' \in {"plan", "planned", "raised"}
  PROVE  IInv'
BY DEF IInv, ValidatedEqualsMasked, CheckedPlan

LEMMA StutterIInv ==
  ASSUME IInv, UNCHANGED vars PROVE IInv'
<1>1. UNCHANGED <<grid, plan, errors, planned, masked, pc>>
  BY DEF vars, planVars
<1>2. StructuralErrors' = StructuralErrors
  BY <1>1 DEF StructuralErrors, Slots, Mentions, Named, ClassifyRegionType
<1>3. Equivalent(planned, masked)' <=> Equivalent(planned, masked)
  BY <1>1 DEF Equivalent, AuthorizedTopK
<1> QED
  BY <1>1, <1>2, <1>3 DEF IInv, ValidatedEqualsMasked, CheckedPlan

(* Validation suffices: a plan that passed, however it was built and       *)
(* altered, scores every slot and selects the k best as the masked         *)
(* reference does, and its comparison with it never is what rejects it.    *)
(* (validate_proof_plan, compare_planned_vs_masked_reference)              *)
THEOREM ValidatedPlansAreEqual == Spec => []ValidatedEqualsMasked
<1>1. Init => IInv
  BY InitIInv
<1>2. IInv /\ [Next]_vars => IInv'
  <2> SUFFICES ASSUME IInv, [Next]_vars PROVE IInv'
    OBVIOUS
  <2>1. CASE BuildLayoutProofPlan
    BY <2>1, PlanningIInv DEF BuildLayoutProofPlan
  <2>2. CASE BuildProofPlan
    BY <2>2, PlanningIInv DEF BuildProofPlan
  <2>3. CASE Alter
    BY <2>3, PlanningIInv DEF Alter
  <2>4. CASE ValidateProofPlan
    BY <2>4, ValidateIInv
  <2>5. CASE Compare
    BY <2>5, CompareIInv
  <2>6. CASE UNCHANGED vars
    BY <2>6, StutterIInv
  <2> QED
    BY <2>1, <2>2, <2>3, <2>4, <2>5, <2>6 
       DEF Next, BuildAndCompareProofPlan, EvaluateCase, EvaluateLayout
<1>3. IInv => ValidatedEqualsMasked
  BY DEF IInv
<1> QED
  BY <1>1, <1>2, <1>3, PTL DEF Spec

-----------------------------------------------------------------------------
(***************************************************************************)
(* The planner's own plans pass.  The slots of a region are its group in   *)
(* ascending order: each of its slots has a rank, and ranks are found by   *)
(* counting.  So the regions of a grouping name every slot exactly once,   *)
(* whatever it groups by, and their types are what classification finds.   *)
(***************************************************************************)
RankIn(S, k) == Cardinality({i \in S : i < k})

(* Every place up to the size of a set of numbers is the rank of one.      *)
LEMMA RankTaken ==
  ASSUME NEW S, S \subseteq Nat, IsFiniteSet(S)
  PROVE  /\ \A k \in S : RankIn(S, k) \in 0 .. Cardinality(S) - 1
         /\ \A k, m \in S : RankIn(S, k) = RankIn(S, m) => k = m
         /\ \A j \in 1 .. Cardinality(S) : \E k \in S : RankIn(S, k) = j - 1
<1> DEFINE n == Cardinality(S)
           L(k) == {i \in S : i < k}
<1>1. n \in Nat
  BY FS_CardinalityType
<1>2. \A k : IsFiniteSet(L(k)) /\ Cardinality(L(k)) \in Nat
  <2> TAKE k
  <2>1. L(k) \in SUBSET S
    OBVIOUS
  <2> HIDE DEF L
  <2> QED BY <2>1, FS_Subset, FS_CardinalityType
<1>3. ASSUME NEW k \in S PROVE Cardinality(L(k)) < n
  <2>1. L(k) \in SUBSET S /\ k \notin L(k)
    OBVIOUS
  <2> HIDE DEF L
  <2>2. Cardinality(L(k)) <= n /\ Cardinality(L(k)) # n
    BY <2>1, FS_Subset
  <2> QED BY <1>1, <1>2, <2>2
<1>4. ASSUME NEW k \in S, NEW m \in S, k < m PROVE Cardinality(L(k)) < Cardinality(L(m))
  <2>1. L(k) \in SUBSET L(m) /\ k \in L(m) /\ k \notin L(k)
    <3>1. \A i \in S : i < k => i < m
      BY <1>4
    <3>2. ~ (k < k)
      OBVIOUS
    <3> QED BY <1>4, <3>1, <3>2
  <2> HIDE DEF L
  <2>2. Cardinality(L(k)) <= Cardinality(L(m)) /\ Cardinality(L(k)) # Cardinality(L(m))
    BY <1>2, <2>1, FS_Subset
  <2> QED BY <1>2, <2>2
<1> HIDE DEF L
<1>5. \A k, m \in S : Cardinality(L(k)) = Cardinality(L(m)) => k = m
  <2> SUFFICES ASSUME NEW k \in S, NEW m \in S, Cardinality(L(k)) = Cardinality(L(m)), k # m
               PROVE  FALSE
    OBVIOUS
  <2>1. k < m \/ m < k
    OBVIOUS
  <2>2. Cardinality(L(k)) < Cardinality(L(m)) \/ Cardinality(L(m)) < Cardinality(L(k))
    BY <1>4, <2>1
  <2> QED BY <1>2, <2>2
<1> DEFINE T == 0 .. n - 1
           f == [k \in S |-> Cardinality(L(k))]
<1>6. IsFiniteSet(T) /\ Cardinality(T) = n
  <2>1. 0 \in Int /\ n - 1 \in Int
    BY <1>1
  <2>2. IsFiniteSet(T) /\ Cardinality(T) = IF 0 > n - 1 THEN 0 ELSE (n - 1) - 0 + 1
    BY <2>1, FS_Interval
  <2> QED BY <1>1, <2>2
<1>7. \A k \in S : Cardinality(L(k)) \in T
  BY <1>1, <1>2, <1>3
<1>8. f \in Injection(S, T)
  BY <1>5, <1>7 DEF Injection, IsInjective
<1> HIDE DEF f, T, n
<1>9. f \in Surjection(S, T)
  BY <1>6, <1>8, FS_Injection DEF n
<1>10. \A j \in 1 .. n : \E k \in S : Cardinality(L(k)) = j - 1
  <2> TAKE j \in 1 .. n
  <2>1. j - 1 \in T
    BY <1>1 DEF T
  <2> QED BY <1>9, <2>1 DEF Surjection, f
<1> QED BY <1>5, <1>7, <1>10 DEF RankIn, L, T, n


LEMMA InOrderNames ==
  ASSUME NEW S, S \subseteq Nat, IsFiniteSet(S)
  PROVE  /\ DOMAIN InOrder(S) = 1 .. Cardinality(S)
         /\ \A p \in DOMAIN InOrder(S) : InOrder(S)[p] \in S
         /\ \A p, q \in DOMAIN InOrder(S) : InOrder(S)[p] = InOrder(S)[q] => p = q
         /\ \A i \in S : \E p \in DOMAIN InOrder(S) : InOrder(S)[p] = i
<1> DEFINE n == Cardinality(S)
           at(p) == CHOOSE i \in S : RankIn(S, i) = p - 1
<1>1. n \in Nat
  BY FS_CardinalityType
<1>2. InOrder(S) = [p \in 1 .. n |-> at(p)]
  BY DEF InOrder, RankIn
<1>3. \A p \in 1 .. n : at(p) \in S /\ RankIn(S, at(p)) = p - 1
  <2> TAKE p \in 1 .. n
  <2>1. \E i \in S : RankIn(S, i) = p - 1
    BY RankTaken
  <2> QED BY <2>1
<1> HIDE DEF at, n
<1>4. \A p, q \in 1 .. n : at(p) = at(q) => p = q
  <2> TAKE p, q \in 1 .. n
  <2> HAVE at(p) = at(q)
  <2>1. p - 1 = q - 1
    BY <1>3
  <2> QED BY <1>1, <2>1
<1>5. \A i \in S : \E p \in 1 .. n : at(p) = i
  <2> TAKE i \in S
  <2>1. RankIn(S, i) \in 0 .. n - 1
    BY RankTaken DEF n
  <2> DEFINE p == RankIn(S, i) + 1
  <2>2. p \in 1 .. n /\ p - 1 = RankIn(S, i)
    BY <1>1, <2>1
  <2>3. at(p) \in S /\ RankIn(S, at(p)) = RankIn(S, i)
    BY <1>3, <2>2
  <2>4. at(p) = i
    BY <2>3, RankTaken
  <2> QED BY <2>2, <2>4
<1> QED BY <1>2, <1>3, <1>4, <1>5 DEF n

(* Every slot is in one group.                                             *)
Partition(g) ==
  /\ \A k \in DOMAIN g : g[k] \subseteq Slots /\ g[k] # {}
  /\ \A i \in Slots : \E k \in DOMAIN g : i \in g[k]
  /\ \A k, l \in DOMAIN g : \A i : i \in g[k] /\ i \in g[l] => k = l

GridShape == \E n \in Nat : Slots = 1 .. n

LEMMA SlotsAreFinite ==
  ASSUME GridShape
  PROVE  \A S \in SUBSET Slots : IsFiniteSet(S) /\ S \subseteq Nat
<1>1. PICK n \in Nat : Slots = 1 .. n
  BY DEF GridShape
<1>2. IsFiniteSet(Slots) /\ Slots \subseteq Nat
  BY <1>1, FS_Interval
<1> TAKE S \in SUBSET Slots
<1>3. IsFiniteSet(S)
  BY <1>2, FS_Subset
<1> QED BY <1>2, <1>3

(* What a plan built from groups names, and where.                         *)
LEMMA BuiltPlanNames ==
  ASSUME GridShape, NEW g, Partition(g), UNCHANGED grid, plan' = PlanOf(g)
  PROVE  /\ DOMAIN plan' = DOMAIN g
         /\ \A r \in DOMAIN g : /\ plan'[r].type = ClassifyRegionType(g[r])
                                /\ Named(r)' = g[r]
                                /\ \A p, q \in DOMAIN plan'[r].slots :
                                     plan'[r].slots[p] = plan'[r].slots[q] => p = q
<1>1. DOMAIN plan' = DOMAIN g
  BY DEF PlanOf
<1>2. ASSUME NEW r \in DOMAIN g
      PROVE  /\ plan'[r].type = ClassifyRegionType(g[r])
             /\ Named(r)' = g[r]
             /\ \A p, q \in DOMAIN plan'[r].slots :
                  plan'[r].slots[p] = plan'[r].slots[q] => p = q
  <2>1. plan'[r] = MakeRegion(g[r])
    BY <1>2 DEF PlanOf
  <2>2. plan'[r].type = ClassifyRegionType(g[r]) /\ plan'[r].slots = InOrder(g[r])
    BY <2>1 DEF MakeRegion
  <2>3. g[r] \subseteq Nat /\ IsFiniteSet(g[r])
    BY <1>2, SlotsAreFinite DEF Partition
  <2> DEFINE s == InOrder(g[r])
  <2>4. /\ \A p \in DOMAIN s : s[p] \in g[r]
        /\ \A p, q \in DOMAIN s : s[p] = s[q] => p = q
        /\ \A i \in g[r] : \E p \in DOMAIN s : s[p] = i
    BY <2>3, InOrderNames
  <2> HIDE DEF s
  <2>5. Named(r)' = {s[p] : p \in DOMAIN s}
    BY <2>2 DEF Named, s
  <2>6. {s[p] : p \in DOMAIN s} = g[r]
    BY <2>4
  <2> QED BY <2>2, <2>4, <2>5, <2>6 DEF s
<1> QED BY <1>1, <1>2

LEMMA MentionsAre ==
  ASSUME NEW i, NEW m
  PROVE  m \in Mentions(i)' <=> \E r \in DOMAIN plan' : \E p \in DOMAIN plan'[r].slots :
                                   m = <<r, p>> /\ plan'[r].slots[p] = i
<1>1. ASSUME m \in Mentions(i)'
      PROVE  \E r \in DOMAIN plan' : \E p \in DOMAIN plan'[r].slots :
                m = <<r, p>> /\ plan'[r].slots[p] = i
  <2>1. m \in UNION {{r} \X DOMAIN plan'[r].slots : r \in DOMAIN plan'}
        /\ plan'[m[1]].slots[m[2]] = i
    BY <1>1 DEF Mentions
  <2>2. PICK r \in DOMAIN plan' : m \in {r} \X DOMAIN plan'[r].slots
    BY <2>1
  <2>3. m = <<r, m[2]>> /\ m[1] = r /\ m[2] \in DOMAIN plan'[r].slots
    BY <2>2
  <2>4. plan'[r].slots[m[2]] = i
    BY <2>1, <2>3
  <2> QED BY <2>3, <2>4
<1>2. ASSUME NEW r \in DOMAIN plan', NEW p \in DOMAIN plan'[r].slots,
             m = <<r, p>>, plan'[r].slots[p] = i
      PROVE  m \in Mentions(i)'
  <2>1. m \in {r} \X DOMAIN plan'[r].slots
    BY <1>2
  <2>2. m[1] = r /\ m[2] = p
    BY <1>2
  <2>3. m \in UNION {{q} \X DOMAIN plan'[q].slots : q \in DOMAIN plan'}
    BY <2>1
  <2>4. plan'[m[1]].slots[m[2]] = i
    BY <1>2, <2>2
  <2> QED BY <2>3, <2>4 DEF Mentions
<1> QED BY <1>1, <1>2

LEMMA BuiltPlanIsSound ==
  ASSUME GridShape, NEW g, Partition(g), UNCHANGED grid, plan' = PlanOf(g)
  PROVE  StructuralErrors' = {}
<1>1. Slots' = Slots
  BY DEF Slots
<1>2. ASSUME NEW i \in Slots', NEW m \in Mentions(i)', NEW n \in Mentions(i)'
      PROVE  m = n
  <2>1. PICK r \in DOMAIN plan' : \E p \in DOMAIN plan'[r].slots :
              m = <<r, p>> /\ plan'[r].slots[p] = i
    BY <1>2, MentionsAre
  <2>2. PICK q \in DOMAIN plan' : \E p \in DOMAIN plan'[q].slots :
              n = <<q, p>> /\ plan'[q].slots[p] = i
    BY <1>2, MentionsAre
  <2>3. i \in Named(r)' /\ i \in Named(q)'
    BY <2>1, <2>2 DEF Named
  <2>4. r = q
    <3>1. r \in DOMAIN g /\ q \in DOMAIN g /\ i \in g[r] /\ i \in g[q]
      BY <2>3, BuiltPlanNames
    <3> QED BY <3>1 DEF Partition
  <2>5. \A p, o \in DOMAIN plan'[r].slots :
          plan'[r].slots[p] = plan'[r].slots[o] => p = o
    BY BuiltPlanNames
  <2> QED BY <2>1, <2>2, <2>4, <2>5
<1>3. ASSUME NEW i \in Slots' PROVE Mentions(i)' # {}
  <2>1. PICK k \in DOMAIN g : i \in g[k]
    BY <1>1, <1>3 DEF Partition
  <2>2. k \in DOMAIN plan' /\ i \in Named(k)'
    BY <2>1, BuiltPlanNames
  <2>3. PICK p \in DOMAIN plan'[k].slots : plan'[k].slots[p] = i
    BY <2>2 DEF Named
  <2> QED BY <2>2, <2>3, MentionsAre
<1>4. \A r \in DOMAIN plan' : plan'[r].type = ClassifyRegionType(Named(r))'
  BY BuiltPlanNames DEF ClassifyRegionType
<1>5. ASSUME NEW r \in DOMAIN plan', NEW i \in Named(r)', grid'[i].valid
      PROVE  /\ plan'[r].type = "pure_visible" => grid'[i].visible
             /\ plan'[r].type = "pure_invisible" => ~ grid'[i].visible
  <2>1. plan'[r].type = ClassifyRegionType(Named(r))'
    BY <1>4
  <2> QED BY <1>5, <2>1 DEF ClassifyRegionType
<1> QED BY <1>2, <1>3, <1>4, <1>5 DEF StructuralErrors

LEMMA KeyedPartition ==
  ASSUME NEW f, NEW g, DOMAIN g = {f[i] : i \in Slots},
         \A k \in DOMAIN g : g[k] = {i \in Slots : f[i] = k}
  PROVE  Partition(g)
<1>1. \A i \in Slots : f[i] \in DOMAIN g /\ i \in g[f[i]]
  OBVIOUS
<1>2. \A k \in DOMAIN g : \A i : i \in g[k] => i \in Slots /\ f[i] = k
  OBVIOUS
<1> QED BY <1>1, <1>2 DEF Partition

(* All three groupings of build_proof_plan, and every layout.              *)
LEMMA GroupsPartition ==
  ASSUME Plannable PROVE Partition(Groups)
<1>1. CASE request.strategy = "acl_class"
  <2> DEFINE f == [i \in Slots |-> IF grid[i].valid THEN <<"acl", grid[i].class>>
                                   ELSE <<"invalid-list", grid[i].list>>]
  <2>1. Groups = GroupAclClass
    BY <1>1 DEF Groups
  <2>2. Groups = [k \in {f[i] : i \in Slots} |-> {i \in Slots : f[i] = k}]
    BY <2>1, Zenon DEF GroupAclClass, GroupBy
  <2> HIDE DEF f
  <2> QED BY <2>2, KeyedPartition
<1>2. CASE request.strategy = "ivf_list"
  <2> DEFINE f == [i \in Slots |-> grid[i].list]
  <2>1. Groups = GroupIvfList
    BY <1>2 DEF Groups
  <2>2. Groups = [k \in {f[i] : i \in Slots} |-> {i \in Slots : f[i] = k}]
    BY <2>1, Zenon DEF GroupIvfList, GroupBy
  <2> HIDE DEF f
  <2> QED BY <2>2, KeyedPartition
<1>3. CASE request.strategy = "fixed_block"
  <2> DEFINE before(i, j) == \/ grid[i].list < grid[j].list
                             \/ grid[i].list = grid[j].list /\ grid[i].slot < grid[j].slot
             f == [i \in Slots |->
                     Cardinality({j \in Slots : before(j, i)}) \div request.block_size]
  <2>1. Groups = GroupFixedBlock(request.block_size)
    BY <1>3 DEF Groups
  <2>2. Groups = [k \in {f[i] : i \in Slots} |-> {i \in Slots : f[i] = k}]
    BY <2>1, Zenon DEF GroupFixedBlock, GroupBy
  <2> HIDE DEF f
  <2> QED BY <2>2, KeyedPartition
<1> QED BY <1>1, <1>2, <1>3 DEF Plannable

LEMMA LayoutPartition ==
  ASSUME NEW layout, NEW merged_k, NEW signature
  PROVE  Partition(LayoutGroups(layout, merged_k, signature, grid))
<1> DEFINE g == LayoutGroups(layout, merged_k, signature, grid)
           f == [i \in Slots |-> LayoutKey(layout, merged_k, signature, grid, i)]
<1>1. g = [k \in {f[i] : i \in Slots} |-> {i \in Slots : f[i] = k}]
  BY Zenon DEF LayoutGroups, Slots
<1> HIDE DEF f, g
<1>2. Partition(g)
  BY <1>1, KeyedPartition
<1> QED BY <1>2 DEF g

(***************************************************************************)
(* The grids of the layout evaluation have the lists and slots they say:   *)
(* slot i is in list (i - 1) \div s.                                       *)
(***************************************************************************)
LEMMA DivMod ==
  ASSUME NEW a \in Nat, NEW s \in Nat \ {0}
  PROVE  /\ a \div s \in Nat /\ a % s \in 0 .. s - 1
         /\ a = s * (a \div s) + (a % s)
OBVIOUS

LEMMA DivModUnique ==
  ASSUME NEW s \in Nat \ {0}, NEW l \in Nat, NEW o \in 0 .. s - 1
  PROVE  (l * s + o) \div s = l /\ (l * s + o) % s = o
<1>1. l * s \in Nat
  OBVIOUS
<1> DEFINE a == l * s + o
           q == a \div s
           r == a % s
<1>2. a \in Nat /\ a = l * s + o
  BY <1>1
<1>3. q \in Nat /\ r \in 0 .. s - 1 /\ a = s * q + r
  BY <1>2, DivMod
<1> HIDE DEF a, q, r
<1>4. s * q = q * s /\ q * s \in Nat
  BY <1>3
<1>5. ASSUME NEW x \in Nat, NEW y \in Nat, x < y PROVE x * s + s <= y * s
  <2>1. PICK d \in Nat : y = x + 1 + d
    <3>1. y - x - 1 \in Nat /\ y = x + 1 + (y - x - 1)
      BY <1>5
    <3> QED BY <3>1
  <2>2. y * s = x * s + s + d * s
    BY <2>1
  <2>3. d * s \in Nat /\ x * s \in Nat
    OBVIOUS
  <2> QED BY <2>2, <2>3
<1>6. ~ (q < l)
  <2> SUFFICES ASSUME q < l PROVE FALSE
    OBVIOUS
  <2>1. q * s + s <= l * s
    BY <1>3, <1>5
  <2> QED BY <1>1, <1>2, <1>3, <1>4, <2>1
<1>7. ~ (l < q)
  <2> SUFFICES ASSUME l < q PROVE FALSE
    OBVIOUS
  <2>1. l * s + s <= q * s
    BY <1>3, <1>5
  <2> QED BY <1>1, <1>2, <1>3, <1>4, <2>1
<1>8. q = l
  BY <1>3, <1>6, <1>7
<1>9. r = o
  BY <1>1, <1>2, <1>3, <1>4, <1>8
<1> QED BY <1>8, <1>9 DEF a, q, r

LEMMA IntervalSize ==
  ASSUME NEW a \in Int, NEW b \in Int, a <= b + 1
  PROVE  IsFiniteSet(a .. b) /\ Cardinality(a .. b) = b - a + 1
<1>1. IsFiniteSet(a .. b) /\ Cardinality(a .. b) = IF a > b THEN 0 ELSE b - a + 1
  BY FS_Interval
<1> QED BY <1>1

LEMMA FilledGridCovers ==
  ASSUME NEW n \in Nat \ {0}, NEW s \in Nat \ {0},
         grid \in Seq(Range(grid)), Len(grid) = n * s,
         \A i \in Slots : grid[i].list = (i - 1) \div s /\ grid[i].slot = (i - 1) % s,
         request.n_probe = n, request.slots_per_list = s
  PROVE  CandidateCoverage
<1>1. n * s \in Nat /\ Slots = 1 .. n * s
  BY DEF Slots
<1>2. ASSUME NEW i \in Slots
      PROVE  /\ i - 1 \in Nat /\ grid[i].list \in 0 .. n - 1 /\ grid[i].slot \in 0 .. s - 1
             /\ i = grid[i].list * s + grid[i].slot + 1
  <2> DEFINE q == (i - 1) \div s
             r == (i - 1) % s
  <2>1. i \in Nat /\ i - 1 \in Nat /\ i <= n * s
    BY <1>1
  <2>2. q \in Nat /\ r \in 0 .. s - 1 /\ i - 1 = s * q + r
    BY <2>1, DivMod
  <2>3. grid[i].list = q /\ grid[i].slot = r
    OBVIOUS
  <2> HIDE DEF q, r
  <2>4. q < n
    <3> SUFFICES ASSUME n <= q PROVE FALSE
      BY <2>2
    <3>1. PICK d \in Nat : q = n + d
      <4>1. q - n \in Nat /\ q = n + (q - n)
        BY <2>2
      <4> QED BY <4>1
    <3>2. s * q = n * s + s * d /\ s * d \in Nat
      BY <3>1
    <3> DEFINE N == n * s
               D == s * d
               Q == s * q
    <3>3. N \in Nat /\ D \in Nat /\ Q = N + D /\ i - 1 = Q + r /\ i <= N
      BY <1>1, <2>1, <2>2, <3>2
    <3> HIDE DEF N, D, Q
    <3> QED BY <2>1, <2>2, <3>3
  <2>5. s * q = q * s
    BY <2>2
  <2>6. i = q * s + r + 1
    BY <2>1, <2>2, <2>5
  <2> QED BY <2>1, <2>2, <2>3, <2>4, <2>6
<1>3. ASSUME NEW l \in 0 .. n - 1, NEW o \in 0 .. s - 1
      PROVE  /\ l * s + o + 1 \in Slots
             /\ grid[l * s + o + 1].list = l
  <2>1. PICK d \in Nat : n = l + 1 + d
    <3>1. n - l - 1 \in Nat /\ n = l + 1 + (n - l - 1)
      OBVIOUS
    <3> QED BY <3>1
  <2>2. n * s = l * s + s + d * s /\ d * s \in Nat /\ l * s \in Nat
    BY <2>1
  <2> DEFINE i == l * s + o + 1
  <2>3. i \in 1 .. n * s /\ i - 1 = l * s + o
    <3> DEFINE N == n * s
               L == l * s
               D == d * s
    <3>1. N = L + s + D /\ N \in Nat /\ L \in Nat /\ D \in Nat /\ i = L + o + 1
      BY <1>1, <2>2
    <3> HIDE DEF N, L, D, i
    <3>2. i \in 1 .. N /\ i - 1 = L + o
      BY <3>1
    <3> QED BY <3>2 DEF N, L
  <2> HIDE DEF i
  <2>4. (i - 1) \div s = l
    <3>1. l \in Nat
      OBVIOUS
    <3>2. (l * s + o) \div s = l
      BY <3>1, DivModUnique
    <3> QED BY <2>3, <3>2
  <2> QED BY <1>1, <2>3, <2>4 DEF i
<1>4. grid # <<>>
  <2>1. 0 + 0 * s + 1 \in Slots
    BY <1>1, <1>3
  <2> QED BY <2>1 DEF Slots
<1>5. ASSUME NEW i \in Slots, NEW j \in Slots,
             <<grid[i].list, grid[i].slot>> = <<grid[j].list, grid[j].slot>>
      PROVE  i = j
  <2>1. grid[i].list = grid[j].list /\ grid[i].slot = grid[j].slot
    BY <1>5
  <2> QED BY <1>2, <2>1
<1> DEFINE lists == {grid[i].list : i \in Slots}
<1>6. lists = 0 .. n - 1
  <2>1. lists \subseteq 0 .. n - 1
    BY <1>2
  <2>2. ASSUME NEW l \in 0 .. n - 1 PROVE l \in lists
    <3>1. 0 \in 0 .. s - 1
      OBVIOUS
    <3>2. l * s + 0 + 1 \in Slots /\ grid[l * s + 0 + 1].list = l
      BY <1>3, <3>1
    <3> QED BY <3>2
  <2> QED BY <2>1, <2>2
<1>7. Cardinality(lists) = n
  <2>1. 0 \in Int /\ n - 1 \in Int /\ 0 <= n - 1 + 1 /\ n - 1 - 0 + 1 = n
    OBVIOUS
  <2>2. Cardinality(0 .. n - 1) = n - 1 - 0 + 1
    BY <2>1, IntervalSize
  <2> HIDE DEF lists
  <2> QED BY <1>6, <2>1, <2>2
<1>8. ASSUME NEW l \in 0 .. n - 1
      PROVE  Cardinality({i \in Slots : grid[i].list = l}) = s
  <2> DEFINE S == {i \in Slots : grid[i].list = l}
             a == l * s + 1
             b == l * s + s
  <2>1. l * s \in Nat /\ a \in Int /\ b \in Int /\ a <= b + 1 /\ b - a + 1 = s
    OBVIOUS
  <2>2. ASSUME NEW i \in S PROVE i \in a .. b
    <3>1. i = l * s + grid[i].slot + 1 /\ grid[i].slot \in 0 .. s - 1
      BY <1>2, <2>2
    <3> DEFINE L == l * s
               o == grid[i].slot
    <3>2. L \in Nat /\ o \in 0 .. s - 1 /\ i = L + o + 1 /\ a = L + 1 /\ b = L + s
      BY <2>1, <3>1
    <3> HIDE DEF L, o, a, b
    <3> QED BY <3>2
  <2>3. ASSUME NEW i \in a .. b PROVE i \in S
    <3> DEFINE o == i - (l * s + 1)
    <3>1. o \in 0 .. s - 1 /\ i = l * s + o + 1
      BY <2>1, <2>3
    <3> HIDE DEF o
    <3>2. l * s + o + 1 \in Slots /\ grid[l * s + o + 1].list = l
      BY <1>3, <3>1
    <3> QED BY <3>1, <3>2
  <2>4. S = a .. b
    BY <2>2, <2>3
  <2> HIDE DEF S, a, b
  <2>5. Cardinality(a .. b) = b - a + 1
    BY <2>1, IntervalSize
  <2>6. Cardinality(S) = s
    BY <2>1, <2>4, <2>5
  <2> QED BY <2>6 DEF S
<1>9. Len(grid) = request.n_probe * request.slots_per_list
  OBVIOUS
<1>10. \A i, j \in Slots :
         <<grid[i].list, grid[i].slot>> = <<grid[j].list, grid[j].slot>> => i = j
  BY <1>5
<1>11. \A l \in lists : Cardinality({i \in Slots : grid[i].list = l}) = s
  BY <1>6, <1>8
<1> QED BY <1>4, <1>7, <1>9, <1>10, <1>11, Zenon DEF CandidateCoverage

LEMMA LeastNatural ==
  ASSUME NEW S, S \subseteq Nat, S # {}
  PROVE  Min(S) \in S /\ \A m \in S : Min(S) <= m
<1>1. \E m \in S : \A k \in S : ~ (<<k, m>> \in OpToRel(<, Nat))
  BY NatLessThanWellFounded, WFMin, Zenon
<1>2. PICK m \in S : \A k \in S : ~ (<<k, m>> \in OpToRel(<, Nat))
  BY <1>1
<1>3. \A k \in S : m <= k
  <2> TAKE k \in S
  <2>1. m \in Nat /\ k \in Nat
    OBVIOUS
  <2>2. ~ (k < m)
    BY <1>2, <2>1 DEF OpToRel
  <2> QED BY <2>1, <2>2
<1> QED BY <1>3 DEF Min

(* The lists are the whole root of the number of objects.                  *)
LEMMA RootExists ==
  ASSUME NEW c, c.num_objects \in Nat \ {0}
  PROVE  /\ GridDims(c).n_lists \in Nat \ {0}
         /\ GridDims(c).slot_per_list \in Nat \ {0}
         /\ GridDims(c).n_lists * GridDims(c).slot_per_list >= c.num_objects
<1> DEFINE N == c.num_objects
           big == {m \in Nat : N < m * m}
<1>1. N \in Nat /\ N >= 1
  OBVIOUS
<1>2. N + 1 \in big
  <2>1. (N + 1) * (N + 1) = N * N + 2 * N + 1 /\ N * N \in Nat
    BY <1>1
  <2> HIDE DEF N
  <2>2. N < (N + 1) * (N + 1)
    BY <1>1, <2>1
  <2> QED BY <1>1, <2>2
<1> DEFINE m == Min(big)
<1>3. m \in big /\ \A k \in big : m <= k
  <2> HIDE DEF big
  <2> QED BY <1>2, LeastNatural DEF big
<1> HIDE DEF m, N
<1>4. m \in Nat /\ N < m * m /\ \A k \in Nat : N < k * k => m <= k
  BY <1>3
<1>5. m # 0 /\ m # 1
  BY <1>1, <1>4
<1> DEFINE r == m - 1
<1>6. r \in Nat \ {0} /\ r + 1 = m
  BY <1>4, <1>5
<1>7. ~ (N < r * r)
  BY <1>4, <1>6
<1> HIDE DEF r
<1>8. r * r \in Nat /\ r <= r * r
  <2>1. PICK d \in Nat : r = d + 1
    <3>1. r - 1 \in Nat /\ r = (r - 1) + 1
      BY <1>6
    <3> QED BY <3>1
  <2>2. r * r = d * d + d + r /\ d * d \in Nat
    BY <2>1
  <2> QED BY <1>6, <2>1, <2>2
<1>9. r \in 1 .. N /\ r * r <= N /\ N < (r + 1) * (r + 1)
  BY <1>1, <1>4, <1>6, <1>7, <1>8
<1> DEFINE n == CHOOSE x \in 1 .. N : x * x <= N /\ N < (x + 1) * (x + 1)
<1>10. n \in 1 .. N
  BY <1>9
<1> HIDE DEF n
<1> DEFINE s == (N + n - 1) \div n
<1>11. GridDims(c) = [n_lists |-> n, slot_per_list |-> s]
  BY Zenon DEF GridDims, n, N
<1>12. n \in Nat \ {0} /\ N + n - 1 \in Nat
  BY <1>1, <1>10
<1> DEFINE t == (N + n - 1) % n
<1>13. s \in Nat /\ t \in 0 .. n - 1 /\ N + n - 1 = n * s + t
  BY <1>12, DivMod
<1> HIDE DEF s, t
<1>14. n * s \in Nat /\ n * s >= N
  <2>1. n * s \in Nat
    BY <1>12, <1>13
  <2> DEFINE p == n * s
  <2>2. p \in Nat /\ N + n - 1 = p + t
    BY <1>13, <2>1
  <2> HIDE DEF p
  <2>3. p >= N
    BY <1>1, <1>12, <1>13, <2>2
  <2> QED BY <2>1, <2>3 DEF p
<1>15. s # 0
  <2> SUFFICES ASSUME s = 0 PROVE FALSE
    OBVIOUS
  <2>1. n * 0 = 0
    BY <1>12
  <2> QED BY <1>1, <1>14, <2>1
<1>16. GridDims(c).n_lists = n /\ GridDims(c).slot_per_list = s
  BY <1>11
<1> QED BY <1>12, <1>13, <1>14, <1>15, <1>16 DEF N

(* Subsets are counted by powers of two, which thus are numbers, not zero. *)
LEMMA PowerIsPositive ==
  ASSUME NEW d \in Nat PROVE 2 ^ d \in Nat \ {0}
<1> DEFINE S == 1 .. d
<1>1. IsFiniteSet(S) /\ Cardinality(S) = d
  BY IntervalSize
<1> HIDE DEF S
<1>2. IsFiniteSet(SUBSET S) /\ Cardinality(SUBSET S) = 2 ^ d
  BY <1>1, FS_SUBSET
<1>3. Cardinality(SUBSET S) \in Nat /\ Cardinality(SUBSET S) # 0
  <2>1. SUBSET S # {}
    OBVIOUS
  <2> QED BY <1>2, <2>1, FS_CardinalityType, FS_EmptySet
<1> QED BY <1>2, <1>3

LEMMA PlacedDimsArePositive ==
  ASSUME NEW c, c.num_objects \in Nat \ {0}
  PROVE  LET dims == PlacedDims(c, GridDims(c))
         IN /\ dims.n_lists \in Nat \ {0} /\ dims.slot_per_list \in Nat \ {0}
            /\ dims.n_lists * dims.slot_per_list >= c.num_objects
<1> DEFINE N == c.num_objects
           n == GridDims(c).n_lists
           s == GridDims(c).slot_per_list
           doubled == {d \in 0 .. N : n * 2 ^ d * s >= N}
<1>1. N \in Nat /\ n \in Nat \ {0} /\ s \in Nat \ {0} /\ n * s >= N
  BY RootExists
<1>2. 2 ^ 0 = 1
  <2>1. IsFiniteSet({}) /\ Cardinality({}) = 0
    BY FS_EmptySet
  <2>2. Cardinality(SUBSET {}) = 2 ^ 0
    BY <2>1, FS_SUBSET
  <2>3. SUBSET {} = {{}}
    OBVIOUS
  <2> QED BY <2>2, <2>3, FS_Singleton
<1>3. 0 \in doubled
  <2> HIDE DEF n, s, N
  <2>1. n * 2 ^ 0 * s = n * s
    BY <1>1, <1>2
  <2> QED BY <1>1, <2>1
<1> DEFINE d == Min(doubled)
<1>4. d \in Nat /\ n * 2 ^ d * s >= N
  <2>1. doubled \subseteq Nat
    BY <1>1
  <2>2. d \in doubled
    <3> HIDE DEF doubled
    <3> QED BY <1>3, <2>1, LeastNatural
  <2> HIDE DEF d, n, s
  <2> QED BY <2>1, <2>2
<1>5. PlacedDims(c, GridDims(c)) = [GridDims(c) EXCEPT !.n_lists = @ * 2 ^ d]
  BY Zenon DEF PlacedDims
<1>6. GridDims(c) = [n_lists |-> n, slot_per_list |-> s]
  BY DEF GridDims
<1> HIDE DEF n, s, d
<1>7. /\ PlacedDims(c, GridDims(c)).n_lists = n * 2 ^ d
      /\ PlacedDims(c, GridDims(c)).slot_per_list = s
  BY <1>5, <1>6
<1>8. n * 2 ^ d \in Nat \ {0}
  <2> DEFINE e == 2 ^ d
  <2>1. e \in Nat \ {0}
    BY <1>4, PowerIsPositive
  <2> HIDE DEF e
  <2>2. n * e \in Nat \ {0}
    BY <1>1, <2>1
  <2> QED BY <2>2 DEF e
<1> QED BY <1>1, <1>4, <1>7, <1>8

(* A function on the first n numbers is a sequence of length n.            *)
LEMMA ListShape ==
  ASSUME NEW n \in Nat, NEW g, g = [i \in 1 .. n |-> g[i]]
  PROVE  g \in Seq(Range(g)) /\ Len(g) = n /\ DOMAIN g = 1 .. n
<1>1. DOMAIN g = 1 .. n
  BY Zenon
<1>2. \A i \in 1 .. n : g[i] \in Range(g)
  BY <1>1 DEF Range
<1>3. g \in [1 .. n -> Range(g)]
  BY <1>2
<1>4. g \in Seq(Range(g))
  BY <1>3
<1> QED BY <1>1, <1>4

LEMMA InitialGrids ==
  ASSUME Init
  PROVE  GridShape /\ (workload.kind = "signature" => CandidateCoverage)
<1>1. CASE FreeInit
  <2>1. grid \in Seq(Range(grid)) /\ workload.kind = "free"
    BY <1>1, GridAssumption DEF FreeInit
  <2>2. DOMAIN grid = 1 .. Len(grid) /\ Len(grid) \in Nat
    BY <2>1
  <2> QED BY <2>1, <2>2 DEF GridShape, Slots
<1>2. CASE SweepInit
  <2>1. PICK w \in Sweeps : \E visible \in Visibilities(w) :
              /\ workload = [kind |-> "sweep", case |-> w]
              /\ grid = BuildSyntheticCandidates(w, visible)
    BY <1>2 DEF SweepInit
  <2>2. PICK visible \in Visibilities(w) : grid = BuildSyntheticCandidates(w, visible)
    BY <2>1
  <2>3. DOMAIN grid = 1 .. w.n_lists * w.slot_per_list
    BY <2>2, Zenon DEF BuildSyntheticCandidates
  <2>4. w.n_lists * w.slot_per_list \in Nat
    <3>1. w.n_lists \in Nat /\ w.slot_per_list \in Nat
      BY SweepAssumption
    <3> QED BY <3>1
  <2>5. workload.kind = "sweep"
    BY <2>1
  <2> QED BY <2>3, <2>4, <2>5 DEF GridShape, Slots
<1>3. CASE SignatureInit
  <2>1. PICK c \in SignatureCases : \E f \in SignatureAssignments(c),
          role \in Roles(c), l \in Layouts(c) :
            LET dims == PlacedDims(c, GridDims(c)) IN
            /\ grid = AccessSignatureGrid(c, dims, f, role)
            /\ request = [strategy |-> l[1], block_size |-> 0, bound |-> {},
                          n_probe |-> dims.n_lists,
                          slots_per_list |-> dims.slot_per_list]
    BY <1>3, Zenon DEF SignatureInit
  <2> DEFINE dims == PlacedDims(c, GridDims(c))
  <2>2. PICK f, role, layout :
            /\ grid = AccessSignatureGrid(c, dims, f, role)
            /\ request = [strategy |-> layout, block_size |-> 0, bound |-> {},
                          n_probe |-> dims.n_lists,
                          slots_per_list |-> dims.slot_per_list]
    BY <2>1, Zenon
  <2> DEFINE n == dims.n_lists
             s == dims.slot_per_list
  <2>3. n \in Nat \ {0} /\ s \in Nat \ {0}
    BY ObjectsAssumption, PlacedDimsArePositive
  <2> HIDE DEF dims
  <2>4. n * s \in Nat
    <3> HIDE DEF n, s
    <3> QED BY <2>3
  <2> DEFINE label(i) == IF i <= c.num_objects THEN SignatureToLabel(f[i])
                                               ELSE PaddingLabel
             cell(i) == [list |-> (i - 1) \div s, slot |-> (i - 1) % s, class |-> 0,
                         valid |-> i <= c.num_objects,
                         visible |-> UserForQueryRole(role, label(i)),
                         distance |-> i]
  <2>5. grid = [i \in 1 .. n * s |-> cell(i)]
    BY <2>2, Zenon DEF AccessSignatureGrid
  <2>6. \A i : cell(i).list = (i - 1) \div s /\ cell(i).slot = (i - 1) % s
    BY Zenon
  <2>7. request.n_probe = n /\ request.slots_per_list = s
    BY <2>2
  <2> HIDE DEF cell, n, s
  <2>8. grid = [i \in 1 .. n * s |-> grid[i]]
    BY <2>5
  <2>9. grid \in Seq(Range(grid)) /\ Len(grid) = n * s /\ DOMAIN grid = 1 .. n * s
    BY <2>4, <2>8, ListShape
  <2>10. \A i \in Slots : grid[i].list = (i - 1) \div s /\ grid[i].slot = (i - 1) % s
    BY <2>5, <2>6, <2>9 DEF Slots
  <2>11. CandidateCoverage
    BY <2>3, <2>7, <2>9, <2>10, FilledGridCovers
  <2> QED BY <2>4, <2>9, <2>11 DEF GridShape, Slots
<1> QED BY <1>1, <1>2, <1>3 DEF Init

-----------------------------------------------------------------------------
(* As long as nobody altered it, a plan has no structural error, and the   *)
(* grid it was built for covers its lists.                                 *)
Untouched ==
  (edits = 0 /\ plan # <<>>) =>
    StructuralErrors = {} /\ CandidateCoverage /\ errors = {} /\ pc # "raised"

HInv ==
  /\ GridShape
  /\ workload.kind = "signature" => CandidateCoverage
  /\ edits \in Nat
  /\ pc = "plan" => plan = <<>> /\ errors = {}
  /\ Untouched

LEMMA InitHInv == Init => HInv
<1> SUFFICES ASSUME Init PROVE HInv
  OBVIOUS
<1>1. plan = <<>> /\ edits = 0 /\ errors = {}
  BY DEF Init, PlanInit
<1> QED BY <1>1, InitialGrids DEF HInv, Untouched

LEMMA SameGridHInv ==
  ASSUME UNCHANGED <<grid, request>>
  PROVE  GridShape' = GridShape /\ CandidateCoverage' = CandidateCoverage
<1>1. Slots' = Slots
  BY DEF Slots
<1> QED BY <1>1 DEF GridShape, CandidateCoverage

LEMMA SamePlanErrors ==
  ASSUME UNCHANGED <<grid, plan>> PROVE StructuralErrors' = StructuralErrors
BY DEF StructuralErrors, Slots, Mentions, Named, ClassifyRegionType

(* A plan without structural errors names each slot once: it is executed.  *)
LEMMA SoundIsExecutable ==
  ASSUME StructuralErrors = {} PROVE Executable
<1> SUFFICES ASSUME NEW i \in Slots PROVE \E m \in Mentions(i) : Mentions(i) = {m}
  BY DEF Executable
<1>1. Mentions(i) # {} /\ \A m, n \in Mentions(i) : m = n
  BY DEF StructuralErrors
<1> QED BY <1>1

LEMMA BuildHInv ==
  ASSUME HInv, BuildProofPlan, UNCHANGED workload PROVE HInv'
<1>1. UNCHANGED <<grid, request, edits, errors>> /\ pc = "plan" /\ pc' \in {"planned", "raised"}
  BY DEF BuildProofPlan
<1>2. GridShape' = GridShape /\ CandidateCoverage' = CandidateCoverage
  BY <1>1, SameGridHInv
<1>3. Untouched'
  <2>1. CASE Plannable
    <3>1. plan' = PlanOf(Groups) /\ pc' = "planned"
      BY <2>1 DEF BuildProofPlan
    <3>2. Partition(Groups)
      BY <2>1, GroupsPartition
    <3>3. StructuralErrors' = {}
      BY <1>1, <3>1, <3>2, BuiltPlanIsSound DEF HInv
    <3>4. CandidateCoverage
      BY <2>1 DEF Plannable
    <3> QED BY <1>1, <1>2, <3>1, <3>3, <3>4 DEF HInv, Untouched
  <2>2. CASE ~ Plannable
    <3>1. plan' = <<>>
      BY <1>1, <2>2 DEF BuildProofPlan, HInv
    <3> QED BY <3>1 DEF Untouched
  <2> QED BY <2>1, <2>2
<1> QED BY <1>1, <1>2, <1>3 DEF HInv

LEMMA BuildLayoutHInv ==
  ASSUME HInv, BuildLayoutProofPlan, workload.kind = "signature", UNCHANGED workload
  PROVE  HInv'
<1>1. /\ UNCHANGED <<grid, request, edits, errors>> /\ pc = "plan" /\ pc' = "planned"
      /\ plan' = LayoutPlan(workload.layout, workload.merged_k)
  BY DEF BuildLayoutProofPlan
<1>2. GridShape' = GridShape /\ CandidateCoverage' = CandidateCoverage
  BY <1>1, SameGridHInv
<1> DEFINE g == LayoutGroups(workload.layout, workload.merged_k, workload.signature, grid)
<1>3. plan' = PlanOf(g)
  BY <1>1 DEF LayoutPlan
<1>4. Partition(g)
  BY LayoutPartition
<1> HIDE DEF g
<1>5. StructuralErrors' = {}
  BY <1>1, <1>3, <1>4, BuiltPlanIsSound DEF HInv
<1> QED BY <1>1, <1>2, <1>5 DEF HInv, Untouched

LEMMA AlterHInv ==
  ASSUME HInv, Alter, UNCHANGED workload PROVE HInv'
<1>1. UNCHANGED <<grid, request, pc>> /\ edits' = edits + 1 /\ pc = "planned"
  BY DEF Alter
<1>2. GridShape' = GridShape /\ CandidateCoverage' = CandidateCoverage
  BY <1>1, SameGridHInv
<1>3. edits' \in Nat /\ edits' # 0
  BY <1>1 DEF HInv
<1> QED BY <1>1, <1>2, <1>3 DEF HInv, Untouched

LEMMA ValidateHInv ==
  ASSUME HInv, ValidateProofPlan, UNCHANGED workload PROVE HInv'
<1>1. /\ UNCHANGED <<grid, request, plan, edits>>
      /\ pc = "planned" /\ pc' \in {"raised", "validated"}
  BY DEF ValidateProofPlan
<1>2. GridShape' = GridShape /\ CandidateCoverage' = CandidateCoverage
  BY <1>1, SameGridHInv
<1>3. StructuralErrors' = StructuralErrors
  BY <1>1, SamePlanErrors
<1>4. StructuralErrors = {} /\ CandidateCoverage => errors' = {} /\ pc' = "validated"
  BY StructureSuffices DEF ValidateProofPlan
<1> QED BY <1>1, <1>2, <1>3, <1>4 DEF HInv, Untouched

LEMMA CompareHInv ==
  ASSUME HInv, Compare, UNCHANGED workload PROVE HInv'
<1>1. /\ UNCHANGED <<grid, request, plan, edits, errors>>
      /\ pc' \in {"raised", "compared"}
  BY DEF Compare
<1>2. GridShape' = GridShape /\ CandidateCoverage' = CandidateCoverage
  BY <1>1, SameGridHInv
<1>3. StructuralErrors' = StructuralErrors
  BY <1>1, SamePlanErrors
<1>4. StructuralErrors = {} /\ CandidateCoverage => pc' = "compared"
  BY SoundIsExecutable DEF Compare
<1> QED BY <1>1, <1>2, <1>3, <1>4 DEF HInv, Untouched

LEMMA StutterHInv ==
  ASSUME HInv, UNCHANGED vars PROVE HInv'
<1>1. UNCHANGED <<grid, request, plan, edits, errors, pc, workload>>
  BY DEF vars, planVars
<1>2. GridShape' = GridShape /\ CandidateCoverage' = CandidateCoverage
  BY <1>1, SameGridHInv
<1>3. StructuralErrors' = StructuralErrors
  BY <1>1, SamePlanErrors
<1> QED BY <1>1, <1>2, <1>3 DEF HInv, Untouched

(* The planner's own plans pass: over every grid it could be built for,    *)
(* by class, list or block of any size, or after any layout of access      *)
(* signatures, a plan nobody altered has no error, and neither validation  *)
(* nor either reference raises.  (build_proof_plan, build_layout_proof_plan,*)
(* validate_proof_plan, run_authorized_reference_planned)                  *)
THEOREM BuiltPlansPass == Spec => []HonestPlansPass
<1>1. Init => HInv
  BY InitHInv
<1>2. HInv /\ [Next]_vars => HInv'
  <2> SUFFICES ASSUME HInv, [Next]_vars PROVE HInv'
    OBVIOUS
  <2>1. CASE Next /\ BuildProofPlan
    BY <2>1, BuildHInv DEF Next
  <2>2. CASE Next /\ Alter
    BY <2>2, AlterHInv DEF Next
  <2>3. CASE Next /\ ValidateProofPlan
    BY <2>3, ValidateHInv DEF Next
  <2>4. CASE Next /\ Compare
    BY <2>4, CompareHInv DEF Next
  <2>5. CASE Next /\ workload.kind = "signature" /\ BuildLayoutProofPlan
    BY <2>5, BuildLayoutHInv DEF Next
  <2>6. CASE UNCHANGED vars
    BY <2>6, StutterHInv
  <2> QED
    BY <2>1, <2>2, <2>3, <2>4, <2>5, <2>6
       DEF Next, BuildAndCompareProofPlan, EvaluateCase, EvaluateLayout
<1>3. HInv => HonestPlansPass
  BY DEF HInv, Untouched, HonestPlansPass
<1> QED
  BY <1>1, <1>2, <1>3, PTL DEF Spec

-----------------------------------------------------------------------------
(***************************************************************************)
(* Sums over regions.  A sum takes its terms in an order of its own, so    *)
(* first: it exists, any term can be split off it, and it may be taken     *)
(* over fewer regions by another one.                                      *)
(***************************************************************************)
Pick(s) == CHOOSE x \in s : TRUE

SumStep(f, h, s) == IF s = {} THEN 0 ELSE f[Pick(s)] + h[s \ {Pick(s)}]

Sums(U, f, h) == h = [s \in SUBSET U |-> SumStep(f, h, s)]

(* Among the subsets there is one none of whose smaller ones is bad.       *)
LEMMA LeastSubset ==
  ASSUME NEW U, IsFiniteSet(U), NEW bad \in SUBSET (SUBSET U), bad # {}
  PROVE  \E s \in bad : \A x \in s : s \ {x} \notin bad
<1> DEFINE sizes == {Cardinality(s) : s \in bad}
<1>1. \A s \in SUBSET U : IsFiniteSet(s) /\ Cardinality(s) \in Nat
  BY FS_Subset, FS_CardinalityType
<1>2. sizes \subseteq Nat /\ sizes # {}
  BY <1>1
<1>3. PICK n \in sizes : \A k \in sizes : n <= k
  <2> HIDE DEF sizes
  <2> QED BY <1>2, LeastNatural
<1>4. PICK s \in bad : Cardinality(s) = n
  BY <1>3
<1>5. ASSUME NEW x \in s, s \ {x} \in bad PROVE FALSE
  <2>1. Cardinality(s \ {x}) = Cardinality(s) - 1 /\ Cardinality(s) \in Nat
    BY <1>1, <1>4, FS_RemoveElement
  <2>2. Cardinality(s \ {x}) \in sizes
    BY <1>5
  <2>3. n <= Cardinality(s \ {x})
    BY <1>3, <2>2
  <2> QED BY <1>4, <2>1, <2>3
<1> QED BY <1>4, <1>5

LEMMA SumExists ==
  ASSUME NEW U, IsFiniteSet(U), NEW f
  PROVE  \E h : Sums(U, f, h)
<1> DEFINE Level(n) == {s \in SUBSET U : Cardinality(s) <= n}
           Built(n) == \E h : h = [s \in Level(n) |-> SumStep(f, h, s)]
           bad == {n \in Nat : ~ Built(n)}
<1>1. \A s \in SUBSET U : IsFiniteSet(s) /\ Cardinality(s) \in Nat
  BY FS_Subset, FS_CardinalityType
<1>2. Built(0)
  <2> DEFINE h == [s \in Level(0) |-> 0]
  <2>1. \A s \in Level(0) : s = {}
    <3> TAKE s \in Level(0)
    <3>1. Cardinality(s) = 0
      BY <1>1
    <3> QED BY <1>1, <3>1, FS_EmptySet
  <2> HIDE DEF Level
  <2>2. \A g : \A s \in Level(0) : SumStep(f, g, s) = 0
    BY <2>1 DEF SumStep
  <2>3. h = [s \in Level(0) |-> SumStep(f, h, s)]
    BY <2>2
  <2> QED BY <2>3
<1>3. ASSUME NEW m \in Nat, Built(m) PROVE Built(m + 1)
  <2>1. PICK g : g = [s \in Level(m) |-> SumStep(f, g, s)]
    BY <1>3
  <2> DEFINE h == [s \in Level(m + 1) |-> SumStep(f, g, s)]
  <2>2. Level(m) \subseteq Level(m + 1)
    BY <1>1
  <2>3. ASSUME NEW s \in Level(m + 1), s # {} PROVE s \ {Pick(s)} \in Level(m)
    <3>1. Pick(s) \in s
      BY <2>3 DEF Pick
    <3>2. IsFiniteSet(s) /\ Cardinality(s) \in Nat /\ Cardinality(s) <= m + 1
      BY <1>1
    <3>3. Cardinality(s \ {Pick(s)}) = Cardinality(s) - 1
      BY <3>1, <3>2, FS_RemoveElement
    <3> QED BY <3>2, <3>3
  <2> HIDE DEF Level
  <2>4. \A s \in Level(m) : h[s] = g[s]
    BY <2>1, <2>2
  <2>5. \A s \in Level(m + 1) : SumStep(f, g, s) = SumStep(f, h, s)
    <3> HIDE DEF h
    <3> QED BY <2>3, <2>4 DEF SumStep
  <2>6. h = [s \in Level(m + 1) |-> SumStep(f, h, s)]
    <3> DEFINE k == [s \in Level(m + 1) |-> SumStep(f, h, s)]
    <3>1. DOMAIN h = DOMAIN k /\ \A s \in Level(m + 1) : h[s] = k[s]
      BY <2>5
    <3>2. h = k
      BY <3>1
    <3> QED BY <3>2
  <2> QED BY <2>6
<1> HIDE DEF Built
<1>4. bad = {}
  <2> SUFFICES ASSUME bad # {} PROVE FALSE
    OBVIOUS
  <2>1. PICK n \in bad : \A k \in bad : n <= k
    BY LeastNatural
  <2>2. n # 0
    BY <1>2
  <2>3. n - 1 \in Nat /\ n - 1 \notin bad
    BY <2>1, <2>2
  <2>4. Built(n - 1 + 1)
    BY <1>3, <2>3
  <2>5. n - 1 + 1 = n
    OBVIOUS
  <2> QED BY <2>4, <2>5
<1>5. Cardinality(U) \in Nat
  BY FS_CardinalityType
<1>6. Built(Cardinality(U))
  BY <1>4, <1>5
<1>7. Level(Cardinality(U)) = SUBSET U
  <2>1. \A s \in SUBSET U : Cardinality(s) <= Cardinality(U)
    BY FS_Subset
  <2> QED BY <2>1
<1> HIDE DEF Level
<1> QED BY <1>6, <1>7 DEF Built, Sums

(* Sums of the same terms are the same.                                    *)
LEMMA SumsAgree ==
  ASSUME NEW U, IsFiniteSet(U), NEW T \in SUBSET U, NEW f, NEW h, Sums(U, f, h),
         NEW k, Sums(T, f, k)
  PROVE  k[T] = h[T]
<1> DEFINE bad == {s \in SUBSET T : k[s] # h[s]}
<1>1. bad = {}
  <2> SUFFICES ASSUME bad # {} PROVE FALSE
    OBVIOUS
  <2>1. IsFiniteSet(T)
    BY FS_Subset
  <2>2. PICK s \in bad : \A x \in s : s \ {x} \notin bad
    BY <2>1, LeastSubset
  <2>3. s \in SUBSET T /\ s \in SUBSET U
    OBVIOUS
  <2>4. k[s] = SumStep(f, k, s) /\ h[s] = SumStep(f, h, s)
    BY <2>3 DEF Sums
  <2>5. CASE s = {}
    BY <2>2, <2>4, <2>5 DEF SumStep
  <2>6. CASE s # {}
    <3>1. Pick(s) \in s
      BY <2>6 DEF Pick
    <3>2. k[s \ {Pick(s)}] = h[s \ {Pick(s)}]
      BY <2>2, <3>1
    <3> QED BY <2>2, <2>4, <3>2 DEF SumStep
  <2> QED BY <2>5, <2>6
<1> QED BY <1>1

LEMMA SumIsNatural ==
  ASSUME NEW U, IsFiniteSet(U), NEW f, \A x \in U : f[x] \in Nat, NEW h, Sums(U, f, h)
  PROVE  h[{}] = 0 /\ \A s \in SUBSET U : h[s] \in Nat
<1>1. \A s \in SUBSET U : h[s] = SumStep(f, h, s)
  BY DEF Sums
<1>2. h[{}] = 0
  BY <1>1 DEF SumStep
<1> DEFINE bad == {s \in SUBSET U : h[s] \notin Nat}
<1>3. bad = {}
  <2> SUFFICES ASSUME bad # {} PROVE FALSE
    OBVIOUS
  <2>1. PICK s \in bad : \A x \in s : s \ {x} \notin bad
    BY LeastSubset
  <2>2. s \in SUBSET U /\ s # {}
    BY <1>2
  <2>3. Pick(s) \in s
    BY <2>2 DEF Pick
  <2>4. h[s] = f[Pick(s)] + h[s \ {Pick(s)}]
    BY <1>1, <2>2 DEF SumStep
  <2>5. h[s \ {Pick(s)}] \in Nat /\ f[Pick(s)] \in Nat
    BY <2>1, <2>2, <2>3
  <2> QED BY <2>1, <2>4, <2>5
<1> QED BY <1>2, <1>3

(* Any term can be split off.                                              *)
Splits(U, f, h) == \A s \in SUBSET U : \A x \in s : h[s] = f[x] + h[s \ {x}]

LEMMA SumSplits ==
  ASSUME NEW U, IsFiniteSet(U), NEW f, \A x \in U : f[x] \in Nat, NEW h, Sums(U, f, h)
  PROVE  Splits(U, f, h)
<1>1. \A s \in SUBSET U : h[s] = SumStep(f, h, s) /\ h[s] \in Nat
  BY SumIsNatural DEF Sums
<1> DEFINE Apart(s) == \A x \in s : h[s] = f[x] + h[s \ {x}]
           bad == {s \in SUBSET U : ~ Apart(s)}
<1>2. bad = {}
  <2> SUFFICES ASSUME bad # {} PROVE FALSE
    OBVIOUS
  <2>1. PICK s \in bad : \A x \in s : s \ {x} \notin bad
    BY LeastSubset
  <2>2. s \in SUBSET U /\ s # {}
    BY <2>1
  <2> DEFINE c == Pick(s)
  <2>3. c \in s
    BY <2>2 DEF Pick
  <2>4. h[s] = f[c] + h[s \ {c}]
    BY <1>1, <2>2 DEF SumStep
  <2> HIDE DEF c
  <2>5. \A x \in s : Apart(s \ {x})
    BY <2>1, <2>2
  <2>6. ASSUME NEW x \in s, x # c PROVE h[s] = f[x] + h[s \ {x}]
    <3> DEFINE r == (s \ {c}) \ {x}
    <3>1. (s \ {x}) \ {c} = r /\ x \in s \ {c} /\ c \in s \ {x} /\ r \in SUBSET U
      BY <2>2, <2>3, <2>6
    <3>2. h[s \ {c}] = f[x] + h[r]
      BY <2>3, <2>5, <3>1
    <3>3. h[s \ {x}] = f[c] + h[r]
      BY <2>5, <3>1
    <3>4. f[x] \in Nat /\ f[c] \in Nat /\ h[r] \in Nat
      BY <1>1, <2>2, <2>3, <3>1
    <3> HIDE DEF r
    <3> QED BY <2>4, <3>2, <3>3, <3>4
  <2>7. Apart(s)
    BY <2>4, <2>6
  <2> QED BY <2>1, <2>7
<1> QED BY <1>2 DEF Splits

(* The sums of the model.                                                  *)
LEMMA SumFunctionIs ==
  ASSUME NEW U, IsFiniteSet(U), NEW K \in SUBSET U, NEW f, NEW h, Sums(U, f, h)
  PROVE  SumFunctionOnSet(f, K) = h[K]
<1> DEFINE sum == CHOOSE k : Sums(K, f, k)
<1>1. IsFiniteSet(K)
  BY FS_Subset
<1>2. Sums(K, f, sum)
  BY <1>1, SumExists, Zenon
<1>3. SumFunctionOnSet(f, K) = sum[K]
  BY Zenon DEF SumFunctionOnSet, FoldFunctionOnSet, MapThenFoldSet, Sums, SumStep, Pick
<1> HIDE DEF sum
<1>4. sum[K] = h[K]
  BY <1>2, SumsAgree
<1> QED BY <1>3, <1>4, Zenon

(* No term larger, no sum larger.                                          *)
LEMMA SumsCompare ==
  ASSUME NEW U, IsFiniteSet(U), NEW f, NEW g, \A x \in U : f[x] \in Nat /\ g[x] \in Nat,
         \A x \in U : f[x] <= g[x], NEW h, Sums(U, f, h), NEW k, Sums(U, g, k)
  PROVE  h[U] <= k[U]
<1> DEFINE bad == {s \in SUBSET U : ~ (h[s] <= k[s])}
<1>1. /\ \A s \in SUBSET U : h[s] \in Nat /\ k[s] \in Nat
      /\ h[{}] = 0 /\ k[{}] = 0
  BY SumIsNatural
<1>2. Splits(U, f, h) /\ Splits(U, g, k)
  BY SumSplits
<1>3. bad = {}
  <2> SUFFICES ASSUME bad # {} PROVE FALSE
    OBVIOUS
  <2>1. PICK s \in bad : \A x \in s : s \ {x} \notin bad
    BY LeastSubset
  <2>2. s \in SUBSET U /\ s # {}
    BY <1>1, <2>1
  <2>3. PICK x \in s : TRUE
    BY <2>2
  <2>4. h[s \ {x}] <= k[s \ {x}] /\ s \ {x} \in SUBSET U
    BY <2>1, <2>2
  <2>5. h[s] = f[x] + h[s \ {x}] /\ k[s] = g[x] + k[s \ {x}]
    BY <1>2, <2>2, <2>3 DEF Splits
  <2>6. x \in U /\ h[s \ {x}] \in Nat /\ k[s \ {x}] \in Nat
    BY <1>1, <2>2, <2>3, <2>4
  <2>7. f[x] \in Nat /\ g[x] \in Nat /\ f[x] <= g[x]
    BY <2>6
  <2> QED BY <2>1, <2>4, <2>5, <2>6, <2>7
<1> QED BY <1>3

(* Disjoint parts are counted by a sum.                                    *)
LEMMA SumCountsParts ==
  ASSUME NEW U, IsFiniteSet(U), NEW part, NEW f, NEW h, Sums(U, f, h),
         \A x \in U : IsFiniteSet(part[x]) /\ f[x] = Cardinality(part[x]),
         \A x, y \in U : x # y => part[x] \cap part[y] = {}
  PROVE  Cardinality(UNION {part[x] : x \in U}) = h[U]
<1> DEFINE All(s) == UNION {part[x] : x \in s}
           Good(s) == IsFiniteSet(All(s)) /\ Cardinality(All(s)) = h[s]
           bad == {s \in SUBSET U : ~ Good(s)}
<1>1. \A x \in U : f[x] \in Nat
  BY FS_CardinalityType
<1>2. /\ \A s \in SUBSET U : h[s] \in Nat
      /\ h[{}] = 0
  BY <1>1, SumIsNatural
<1>3. \A s \in SUBSET U : \A x \in s : h[s] = f[x] + h[s \ {x}]
  <2>1. Splits(U, f, h)
    BY <1>1, SumSplits
  <2> QED BY <2>1 DEF Splits
<1>4. Good({})
  <2>1. All({}) = {}
    OBVIOUS
  <2> HIDE DEF All
  <2> QED BY <1>2, <2>1, FS_EmptySet
<1>5. bad = {}
  <2> SUFFICES ASSUME bad # {} PROVE FALSE
    OBVIOUS
  <2>1. PICK s \in bad : \A x \in s : s \ {x} \notin bad
    <3> HIDE DEF Good
    <3> QED BY LeastSubset
  <2>2. s \in SUBSET U /\ s # {}
    BY <1>4, <2>1
  <2>3. PICK x \in s : TRUE
    BY <2>2
  <2> DEFINE r == s \ {x}
  <2>4. r \in SUBSET U /\ Good(r)
    BY <2>1, <2>2
  <2>5. All(s) = All(r) \cup part[x] /\ All(r) \cap part[x] = {}
    BY <2>2, <2>3
  <2>6. h[s] = f[x] + h[r] /\ x \in U /\ f[x] \in Nat
    BY <1>1, <1>3, <2>2, <2>3
  <2> HIDE DEF All, r
  <2>7. IsFiniteSet(part[x]) /\ f[x] = Cardinality(part[x])
    BY <2>6
  <2>8. /\ IsFiniteSet(All(s))
        /\ Cardinality(All(s)) = Cardinality(All(r)) + Cardinality(part[x]) - 0
    BY <2>4, <2>5, <2>7, FS_Union, FS_EmptySet
  <2>9. h[r] \in Nat
    BY <1>2, <2>4
  <2>10. Good(s)
    BY <2>4, <2>6, <2>7, <2>8, <2>9
  <2> QED BY <2>1, <2>10
<1> QED BY <1>5

-----------------------------------------------------------------------------
(***************************************************************************)
(* What a built plan is estimated to cost.                                 *)
(***************************************************************************)

(* A plan as it was built: the regions divide the grid.                    *)
Divided ==
  /\ IsFiniteSet(DOMAIN plan)
  /\ \A r \in DOMAIN plan : /\ Named(r) \subseteq Slots
                            /\ plan[r].type = ClassifyRegionType(Named(r))
  /\ \A i \in Slots : \E r \in DOMAIN plan : i \in Named(r)
  /\ \A r, q \in DOMAIN plan : r # q => Named(r) \cap Named(q) = {}

LEMMA BuiltPlanDivides ==
  ASSUME GridShape, NEW g, Partition(g), UNCHANGED grid, plan' = PlanOf(g)
  PROVE  Divided'
<1>1. /\ DOMAIN plan' = DOMAIN g
      /\ \A r \in DOMAIN g : plan'[r].type = ClassifyRegionType(g[r]) /\ Named(r)' = g[r]
  BY BuiltPlanNames
<1>2. Slots' = Slots /\ \A S : ClassifyRegionType(S)' = ClassifyRegionType(S)
  BY DEF Slots, ClassifyRegionType
<1>3. IsFiniteSet(DOMAIN g)
  <2> DEFINE f == [k \in DOMAIN g |-> CHOOSE i \in g[k] : TRUE]
  <2>1. \A k \in DOMAIN g : f[k] \in g[k]
    BY DEF Partition
  <2>2. \A k \in DOMAIN g : f[k] \in Slots
    BY <2>1 DEF Partition
  <2>3. \A k, l \in DOMAIN g : f[k] = f[l] => k = l
    BY <2>1 DEF Partition
  <2>4. f \in Injection(DOMAIN g, Slots)
    BY <2>2, <2>3 DEF Injection, IsInjective
  <2>5. IsFiniteSet(Slots)
    BY SlotsAreFinite
  <2> HIDE DEF f
  <2> QED BY <2>4, <2>5, FS_Injection
<1>4. \A r \in DOMAIN plan' : plan'[r].type = ClassifyRegionType(Named(r))'
  BY <1>1 DEF ClassifyRegionType
<1>5. \A r \in DOMAIN plan' : Named(r)' \subseteq Slots'
  BY <1>1, <1>2 DEF Partition
<1>6. \A i \in Slots' : \E r \in DOMAIN plan' : i \in Named(r)'
  BY <1>1, <1>2 DEF Partition
<1>7. \A r, q \in DOMAIN plan' : r # q => Named(r)' \cap Named(q)' = {}
  BY <1>1 DEF Partition
<1> QED BY <1>1, <1>3, <1>4, <1>5, <1>6, <1>7 DEF Divided

(* A region of type t with v valid slots: d distances, cost c.             *)
Priced(t, v, d, c) ==
  /\ v \in Nat /\ t \in Types
  /\ t = "pure_visible"   => v >= 1 /\ d = v /\ c = 5 + 10 * v
  /\ t = "pure_invisible" => v >= 1 /\ d = 0 /\ c = 5
  /\ t = "impure"         => d = v /\ c = 2 + 14 * v

AddUp(s, I, H, O, hv, hd, hc) ==
  /\ hd[s] = hv[s \ H]
  /\ hc[s] = 2 * Cardinality(s \cap I) + 5 * Cardinality(s \ I)
               + 4 * hv[s \cap I] + 10 * hv[s \ H]
  /\ hc[s] <= 14 * hv[s] + 2 * Cardinality(s \cap I) + Cardinality(s \cap O)

LEMMA PricesAddUp ==
  ASSUME NEW U, IsFiniteSet(U), NEW t, NEW v, NEW d, NEW c,
         \A k \in U : Priced(t[k], v[k], d[k], c[k]),
         NEW hv, Sums(U, v, hv), NEW hd, Sums(U, d, hd), NEW hc, Sums(U, c, hc),
         NEW I, I = {k \in U : t[k] = "impure"},
         NEW H, H = {k \in U : t[k] = "pure_invisible"},
         NEW O, O = {k \in U : t[k] = "pure_visible" /\ v[k] = 1}
  PROVE  AddUp(U, I, H, O, hv, hd, hc)
<1>1. \A k \in U : v[k] \in Nat /\ d[k] \in Nat /\ c[k] \in Nat
  BY DEF Priced, Types
<1>2. /\ \A s \in SUBSET U : hv[s] \in Nat /\ hd[s] \in Nat /\ hc[s] \in Nat
      /\ hv[{}] = 0 /\ hd[{}] = 0 /\ hc[{}] = 0
  BY <1>1, SumIsNatural
<1>3. Splits(U, v, hv) /\ Splits(U, d, hd) /\ Splits(U, c, hc)
  BY <1>1, SumSplits
<1>4. \A s \in SUBSET U : IsFiniteSet(s) /\ Cardinality(s) \in Nat
  BY FS_Subset, FS_CardinalityType
<1> DEFINE Good(s) == AddUp(s, I, H, O, hv, hd, hc)
           bad == {s \in SUBSET U : ~ Good(s)}
<1>5. Good({})
  <2>1. Cardinality({}) = 0 /\ {} \ H = {} /\ {} \ I = {} /\ {} \cap I = {} /\ {} \cap O = {}
    BY FS_EmptySet
  <2> QED BY <1>2, <2>1 DEF AddUp
<1>6. ASSUME NEW s \in SUBSET U, NEW x \in s, Good(s \ {x}) PROVE Good(s)
  <2> DEFINE r == s \ {x}
  <2>1. r \in SUBSET U /\ x \in U /\ x \notin r /\ s = r \cup {x}
    BY <1>6
  <2>2. Priced(t[x], v[x], d[x], c[x]) /\ v[x] \in Nat /\ d[x] \in Nat /\ c[x] \in Nat
    BY <1>1, <2>1
  <2>3. hv[s] = v[x] + hv[r] /\ hd[s] = d[x] + hd[r] /\ hc[s] = c[x] + hc[r]
    BY <1>3, <1>6 DEF Splits
  <2>4. Good(r)
    BY <1>6
  <2> HIDE DEF r
  <2> DEFINE a == Cardinality(r \cap I)
             b == Cardinality(r \ I)
             o == Cardinality(r \cap O)
             p == hv[r \cap I]
             q == hv[r \ H]
  <2>5. a \in Nat /\ b \in Nat /\ o \in Nat /\ p \in Nat /\ q \in Nat
    BY <1>2, <1>4, <2>1
  <2>6. /\ hv[r] \in Nat /\ hd[r] = q /\ hc[r] = 2 * a + 5 * b + 4 * p + 10 * q
        /\ hc[r] <= 14 * hv[r] + 2 * a + o
    BY <1>2, <2>1, <2>4 DEF AddUp
  <2>7. Cardinality(s \cap I) = IF x \in I THEN a + 1 ELSE a
    <3>1. s \cap I = IF x \in I THEN (r \cap I) \cup {x} ELSE r \cap I
      BY <2>1
    <3>2. x \notin r \cap I /\ IsFiniteSet(r \cap I)
      BY <1>4, <2>1
    <3> QED BY <3>1, <3>2, FS_AddElement
  <2>8. Cardinality(s \ I) = IF x \in I THEN b ELSE b + 1
    <3>1. s \ I = IF x \in I THEN r \ I ELSE (r \ I) \cup {x}
      BY <2>1
    <3>2. x \notin r \ I /\ IsFiniteSet(r \ I)
      BY <1>4, <2>1
    <3> QED BY <3>1, <3>2, FS_AddElement
  <2>9. Cardinality(s \cap O) = IF x \in O THEN o + 1 ELSE o
    <3>1. s \cap O = IF x \in O THEN (r \cap O) \cup {x} ELSE r \cap O
      BY <2>1
    <3>2. x \notin r \cap O /\ IsFiniteSet(r \cap O)
      BY <1>4, <2>1
    <3> QED BY <3>1, <3>2, FS_AddElement
  <2>10. hv[s \cap I] = IF x \in I THEN v[x] + p ELSE p
    <3>1. CASE x \in I
      <4>1. s \cap I \in SUBSET U /\ x \in s \cap I /\ (s \cap I) \ {x} = r \cap I
        BY <2>1, <3>1
      <4> QED BY <1>3, <3>1, <4>1 DEF Splits
    <3>2. CASE x \notin I
      <4>1. s \cap I = r \cap I
        BY <2>1, <3>2
      <4> QED BY <3>2, <4>1
    <3> QED BY <3>1, <3>2
  <2>11. hv[s \ H] = IF x \in H THEN q ELSE v[x] + q
    <3>1. CASE x \notin H
      <4>1. s \ H \in SUBSET U /\ x \in s \ H /\ (s \ H) \ {x} = r \ H
        BY <2>1, <3>1
      <4> QED BY <1>3, <3>1, <4>1 DEF Splits
    <3>2. CASE x \in H
      <4>1. s \ H = r \ H
        BY <2>1, <3>2
      <4> QED BY <3>2, <4>1
    <3> QED BY <3>1, <3>2
  <2>12. /\ x \in I <=> t[x] = "impure"
         /\ x \in H <=> t[x] = "pure_invisible"
         /\ x \in O <=> t[x] = "pure_visible" /\ v[x] = 1
    BY <2>1
  <2> HIDE DEF a, b, o, p, q
  <2> DEFINE vx == v[x]
             dx == d[x]
             cx == c[x]
             w == hv[r]
  <2>13. vx \in Nat /\ w \in Nat
    BY <2>2, <2>6
  <2>14. CASE t[x] = "pure_visible"
    <3>1. vx >= 1 /\ dx = vx /\ cx = 5 + 10 * vx /\ x \notin I /\ x \notin H
      BY <2>2, <2>12, <2>14 DEF Priced
    <3>2. Cardinality(s \cap O) = IF vx = 1 THEN o + 1 ELSE o
      BY <2>9, <2>12, <2>14
    <3>3. /\ hv[s] = vx + w /\ hd[s] = vx + q
          /\ hc[s] = 5 + 10 * vx + (2 * a + 5 * b + 4 * p + 10 * q)
          /\ Cardinality(s \cap I) = a /\ Cardinality(s \ I) = b + 1
          /\ hv[s \cap I] = p /\ hv[s \ H] = vx + q
      BY <2>3, <2>6, <2>7, <2>8, <2>10, <2>11, <3>1
    <3>4. 2 * a + 5 * b + 4 * p + 10 * q <= 14 * w + 2 * a + o
      BY <2>6
    <3> HIDE DEF vx, dx, cx, w
    <3>5. hc[s] = 2 * a + 5 * (b + 1) + 4 * p + 10 * (vx + q)
      BY <2>5, <2>13, <3>3
    <3>6. hc[s] <= 14 * (vx + w) + 2 * a + Cardinality(s \cap O)
      BY <2>5, <2>13, <3>1, <3>2, <3>3, <3>4
    <3> QED BY <3>3, <3>5, <3>6 DEF AddUp
  <2>15. CASE t[x] = "pure_invisible"
    <3>1. vx >= 1 /\ dx = 0 /\ cx = 5 /\ x \notin I /\ x \in H /\ x \notin O
      BY <2>2, <2>12, <2>15 DEF Priced
    <3>2. Cardinality(s \cap O) = o
      BY <2>9, <3>1
    <3>3. /\ hv[s] = vx + w /\ hd[s] = 0 + q
          /\ hc[s] = 5 + (2 * a + 5 * b + 4 * p + 10 * q)
          /\ Cardinality(s \cap I) = a /\ Cardinality(s \ I) = b + 1
          /\ hv[s \cap I] = p /\ hv[s \ H] = q
      BY <2>3, <2>6, <2>7, <2>8, <2>10, <2>11, <3>1
    <3>4. 2 * a + 5 * b + 4 * p + 10 * q <= 14 * w + 2 * a + o
      BY <2>6
    <3> HIDE DEF vx, dx, cx, w
    <3>5. hc[s] = 2 * a + 5 * (b + 1) + 4 * p + 10 * q /\ hd[s] = q
      BY <2>5, <2>13, <3>3
    <3>6. hc[s] <= 14 * (vx + w) + 2 * a + Cardinality(s \cap O)
      BY <2>5, <2>13, <3>1, <3>2, <3>3, <3>4
    <3> QED BY <3>3, <3>5, <3>6 DEF AddUp
  <2>16. CASE t[x] = "impure"
    <3>1. dx = vx /\ cx = 2 + 14 * vx /\ x \in I /\ x \notin H /\ x \notin O
      BY <2>2, <2>12, <2>16 DEF Priced
    <3>2. Cardinality(s \cap O) = o
      BY <2>9, <3>1
    <3>3. /\ hv[s] = vx + w /\ hd[s] = vx + q
          /\ hc[s] = 2 + 14 * vx + (2 * a + 5 * b + 4 * p + 10 * q)
          /\ Cardinality(s \cap I) = a + 1 /\ Cardinality(s \ I) = b
          /\ hv[s \cap I] = vx + p /\ hv[s \ H] = vx + q
      BY <2>3, <2>6, <2>7, <2>8, <2>10, <2>11, <3>1
    <3>4. 2 * a + 5 * b + 4 * p + 10 * q <= 14 * w + 2 * a + o
      BY <2>6
    <3> HIDE DEF vx, dx, cx, w
    <3>5. hc[s] = 2 * (a + 1) + 5 * b + 4 * (vx + p) + 10 * (vx + q)
      BY <2>5, <2>13, <3>3
    <3>6. hc[s] <= 14 * (vx + w) + 2 * (a + 1) + Cardinality(s \cap O)
      BY <2>5, <2>13, <3>1, <3>2, <3>3, <3>4
    <3> QED BY <3>3, <3>5, <3>6 DEF AddUp
  <2>17. t[x] \in Types
    BY <2>2 DEF Priced
  <2> QED BY <2>14, <2>15, <2>16, <2>17 DEF Types
<1>7. bad = {}
  <2> SUFFICES ASSUME bad # {} PROVE FALSE
    OBVIOUS
  <2>1. PICK s \in bad : \A x \in s : s \ {x} \notin bad
    <3> HIDE DEF Good
    <3> QED BY LeastSubset
  <2>2. s \in SUBSET U /\ s # {}
    BY <1>5, <2>1
  <2>3. PICK x \in s : TRUE
    BY <2>2
  <2>4. s \ {x} \in SUBSET U
    BY <2>2
  <2> HIDE DEF Good
  <2> QED BY <1>6, <2>1, <2>2, <2>3, <2>4
<1> QED BY <1>7

(* The least a plan can cost beside the final selection: the certificates  *)
(* of what is visible, of what is not and of padding, and the distances of *)
(* the visible slots.                                                      *)
Floor(vis, hid, padded) ==
  (IF vis > 0 THEN 5 + 10 * vis ELSE 0) + (IF hid > 0 THEN 5 ELSE 0)
    + (IF padded THEN 2 ELSE 0)

HasFloor(s, P, hv, hm, hc) ==
  hm[s] <= hv[s] /\ hc[s] >= Floor(hm[s], hv[s] - hm[s], s \cap P # {})

LEMMA CostsHaveFloor ==
  ASSUME NEW U, IsFiniteSet(U), NEW t, NEW v, NEW d, NEW c, NEW m,
         \A k \in U : Priced(t[k], v[k], d[k], c[k]) /\ m[k] \in Nat /\ m[k] <= d[k],
         NEW hv, Sums(U, v, hv), NEW hm, Sums(U, m, hm), NEW hc, Sums(U, c, hc),
         NEW P, P = {k \in U : v[k] = 0}
  PROVE  HasFloor(U, P, hv, hm, hc)
<1>1. \A k \in U : v[k] \in Nat /\ m[k] \in Nat /\ c[k] \in Nat
  BY DEF Priced, Types
<1>2. /\ \A s \in SUBSET U : hv[s] \in Nat /\ hm[s] \in Nat /\ hc[s] \in Nat
      /\ hv[{}] = 0 /\ hm[{}] = 0 /\ hc[{}] = 0
  <2>1. (\A s \in SUBSET U : hv[s] \in Nat) /\ hv[{}] = 0
    BY <1>1, SumIsNatural
  <2>2. (\A s \in SUBSET U : hm[s] \in Nat) /\ hm[{}] = 0
    BY <1>1, SumIsNatural
  <2>3. (\A s \in SUBSET U : hc[s] \in Nat) /\ hc[{}] = 0
    BY <1>1, SumIsNatural
  <2> QED BY <2>1, <2>2, <2>3
<1>3. Splits(U, v, hv) /\ Splits(U, m, hm) /\ Splits(U, c, hc)
  BY <1>1, SumSplits
<1> DEFINE Good(s) == HasFloor(s, P, hv, hm, hc)
           bad == {s \in SUBSET U : ~ Good(s)}
<1>4. Good({})
  <2>1. {} \cap P = {}
    OBVIOUS
  <2> QED BY <1>2, <2>1 DEF HasFloor, Floor
<1>5. ASSUME NEW s \in SUBSET U, NEW x \in s, Good(s \ {x}) PROVE Good(s)
  <2> DEFINE r == s \ {x}
             vx == v[x]
             mx == m[x]
             cx == c[x]
             a == hv[r]
             b == hm[r]
             e == hc[r]
             pad == r \cap P # {}
  <2>1. r \in SUBSET U /\ x \in U /\ s = r \cup {x}
    BY <1>5
  <2>2. /\ vx \in Nat /\ mx \in Nat /\ cx \in Nat
        /\ a \in Nat /\ b \in Nat /\ e \in Nat
    BY <1>1, <1>2, <2>1
  <2>3. hv[s] = vx + a /\ hm[s] = mx + b /\ hc[s] = cx + e
    BY <1>3, <1>5 DEF Splits
  <2>4. b <= a /\ e >= Floor(b, a - b, pad)
    BY <1>5 DEF HasFloor
  <2>5. s \cap P # {} <=> pad \/ vx = 0
    BY <2>1
  <2>6. /\ mx <= vx
        /\ vx = 0 => cx >= 2
        /\ mx > 0 => cx >= 5 + 10 * mx
        /\ vx > mx => cx >= 5
        /\ mx > 0 /\ vx > mx => cx >= 10 + 10 * mx
    <3>1. Priced(t[x], vx, d[x], cx) /\ mx <= d[x]
      BY <2>1
    <3> DEFINE tx == t[x]
               dx == d[x]
    <3>2. Priced(tx, vx, dx, cx) /\ mx <= dx
      BY <3>1
    <3> HIDE DEF vx, mx, cx, tx, dx
    <3>3. CASE tx = "pure_visible"
      BY <2>2, <3>2, <3>3 DEF Priced
    <3>4. CASE tx = "pure_invisible"
      BY <2>2, <3>2, <3>4 DEF Priced
    <3>5. CASE tx = "impure"
      BY <2>2, <3>2, <3>5 DEF Priced
    <3> QED BY <3>2, <3>3, <3>4, <3>5 DEF Priced, Types
  <2> HIDE DEF r, vx, mx, cx, a, b, e, pad
  <2>7. mx + b <= vx + a
    BY <2>2, <2>4, <2>6
  <2>8. cx + e >= Floor(mx + b, (vx + a) - (mx + b), pad \/ vx = 0)
    BY <2>2, <2>4, <2>6 DEF Floor
  <2> QED BY <2>3, <2>5, <2>7, <2>8 DEF HasFloor
<1>6. bad = {}
  <2> SUFFICES ASSUME bad # {} PROVE FALSE
    OBVIOUS
  <2>1. PICK s \in bad : \A x \in s : s \ {x} \notin bad
    <3> HIDE DEF Good
    <3> QED BY LeastSubset
  <2>2. s \in SUBSET U /\ s # {}
    BY <1>4, <2>1
  <2>3. PICK x \in s : TRUE
    BY <2>2
  <2>4. s \ {x} \in SUBSET U
    BY <2>2
  <2> HIDE DEF Good
  <2> QED BY <1>5, <2>1, <2>2, <2>3, <2>4
<1> QED BY <1>6

ValidPart(r)   == {i \in Named(r) : grid[i].valid}
VisiblePart(r) == {i \in ValidPart(r) : grid[i].visible}

RegionCost(r) ==
  CASE r.type = "pure_visible"   -> 5 + 10 * ValidCount(r)
    [] r.type = "pure_invisible" -> 5
    [] r.type = "impure"         -> 2 + (3 + 10 + 1) * ValidCount(r)

(* What each region contributes, and that it computes the distances of its *)
(* visible slots.                                                          *)
LEMMA RegionIsPriced ==
  ASSUME GridShape, Divided, NEW k \in DOMAIN plan
  PROVE  /\ IsFiniteSet(ValidPart(k)) /\ IsFiniteSet(VisiblePart(k))
         /\ ValidCount(plan[k]) = Cardinality(ValidPart(k))
         /\ Cardinality(VisiblePart(k)) <= RegionCounts(plan[k]).dist
         /\ RegionCounts(plan[k]).dist <= ValidCount(plan[k])
         /\ Priced(plan[k].type, ValidCount(plan[k]), RegionCounts(plan[k]).dist,
                   RegionCost(plan[k]))
<1>1. Named(k) \subseteq Slots /\ plan[k].type = ClassifyRegionType(Named(k))
  BY DEF Divided
<1> DEFINE V == ValidPart(k)
           W == VisiblePart(k)
<1>2. V \in SUBSET Slots /\ W \in SUBSET V
  BY <1>1 DEF ValidPart, VisiblePart
<1>3. IsFiniteSet(V) /\ IsFiniteSet(W) /\ Cardinality(V) \in Nat /\ Cardinality(W) \in Nat
  <2> HIDE DEF V, W
  <2> QED BY <1>2, SlotsAreFinite, FS_Subset, FS_CardinalityType
<1>4. Cardinality(W) <= Cardinality(V) /\ (W = V => Cardinality(W) = Cardinality(V))
  <2> HIDE DEF V, W
  <2> QED BY <1>2, <1>3, FS_Subset
<1>5. ValidCount(plan[k]) = Cardinality(V)
  <2>1. Range(plan[k].slots) = Named(k)
    BY DEF Range, Named
  <2> QED BY <2>1 DEF ValidCount, ValidPart
<1>6. V # {} => Cardinality(V) >= 1
  <2> HIDE DEF V
  <2> QED BY <1>3, FS_EmptySet
<1>7. W = {} => Cardinality(W) = 0
  BY FS_EmptySet
<1>8. /\ plan[k].type \in Types
      /\ plan[k].type = "pure_visible"   => V # {} /\ W = V
      /\ plan[k].type = "pure_invisible" => V # {} /\ W = {}
  BY <1>1 DEF ClassifyRegionType, Types, ValidPart, VisiblePart
<1> HIDE DEF V, W
<1> DEFINE n == Cardinality(V)
<1>9. CASE plan[k].type = "pure_visible"
  <2>1. RegionCounts(plan[k]).dist = n /\ RegionCost(plan[k]) = 5 + 10 * n
    BY <1>5, <1>9 DEF RegionCounts, RegionCost
  <2> QED BY <1>3, <1>4, <1>5, <1>6, <1>8, <1>9, <2>1 DEF Priced, Types, V, W
<1>10. CASE plan[k].type = "pure_invisible"
  <2>1. RegionCounts(plan[k]).dist = 0 /\ RegionCost(plan[k]) = 5
    BY <1>5, <1>10 DEF RegionCounts, RegionCost
  <2> QED BY <1>3, <1>5, <1>6, <1>7, <1>8, <1>10, <2>1 DEF Priced, Types, V, W
<1>11. CASE plan[k].type = "impure"
  <2>1. RegionCounts(plan[k]).dist = n /\ RegionCost(plan[k]) = 2 + 14 * n
    BY <1>3, <1>5, <1>11 DEF RegionCounts, RegionCost
  <2> QED BY <1>3, <1>4, <1>5, <1>11, <2>1 DEF Priced, Types, V, W
<1> QED BY <1>8, <1>9, <1>10, <1>11 DEF Types

(* Valid and visible slots, counted region by region.                      *)
LEMMA PartsOfTheGrid ==
  ASSUME Divided
  PROVE  /\ UNION {ValidPart(k) : k \in DOMAIN plan} = Valid
         /\ UNION {VisiblePart(k) : k \in DOMAIN plan} = {i \in Valid : grid[i].visible}
         /\ \A k, l \in DOMAIN plan : k # l => /\ ValidPart(k) \cap ValidPart(l) = {}
                                               /\ VisiblePart(k) \cap VisiblePart(l) = {}
<1>1. \A k \in DOMAIN plan : Named(k) \subseteq Slots
  BY DEF Divided
<1>2. \A i \in Slots : \E r \in DOMAIN plan : i \in Named(r)
  BY DEF Divided
<1>3. \A r, q \in DOMAIN plan : r # q => Named(r) \cap Named(q) = {}
  BY DEF Divided
<1>4. UNION {ValidPart(k) : k \in DOMAIN plan} = Valid
  BY <1>1, <1>2 DEF ValidPart, Valid
<1>5. UNION {VisiblePart(k) : k \in DOMAIN plan} = {i \in Valid : grid[i].visible}
  BY <1>1, <1>2 DEF ValidPart, VisiblePart, Valid
<1>6. \A k, l \in DOMAIN plan : k # l => ValidPart(k) \cap ValidPart(l) = {}
  BY <1>3 DEF ValidPart
<1>7. \A k, l \in DOMAIN plan : k # l => VisiblePart(k) \cap VisiblePart(l) = {}
  BY <1>3 DEF ValidPart, VisiblePart
<1> QED BY <1>4, <1>5, <1>6, <1>7

Hidden == {k \in DOMAIN plan : plan[k].type = "pure_invisible"}
Lone   == {k \in DOMAIN plan : plan[k].type = "pure_visible" /\ ValidCount(plan[k]) = 1}
Empty  == {k \in DOMAIN plan : ValidCount(plan[k]) = 0}

(* The estimates in terms of four sums over the regions.                   *)
LEMMA EstimatesAreSums ==
  ASSUME GridShape, Divided
  PROVE  \E hv, hd, hc, hm :
           LET D == DOMAIN plan IN
           /\ hv[D] = Cardinality(Valid) /\ hm[D] = VisibleCount
           /\ hm[D] <= hd[D] /\ hd[D] <= hv[D]
           /\ hv[D] \in Nat /\ hd[D] \in Nat /\ hm[D] \in Nat
           /\ DistanceCount(plan) = hd[D]
           /\ SumFunction([k \in D |-> RegionCost(plan[k])]) = hc[D]
           /\ \A K \in SUBSET D :
                SumFunctionOnSet([k \in D |-> ValidCount(plan[k])], K) = hv[K] /\ hv[K] \in Nat
           /\ AddUp(D, Impure, Hidden, Lone, hv, hd, hc)
           /\ HasFloor(D, Empty, hv, hm, hc)
<1> DEFINE D == DOMAIN plan
           t == [k \in D |-> plan[k].type]
           v == [k \in D |-> ValidCount(plan[k])]
           d == [k \in D |-> RegionCounts(plan[k]).dist]
           c == [k \in D |-> RegionCost(plan[k])]
           m == [k \in D |-> Cardinality(VisiblePart(k))]
           part == [k \in D |-> ValidPart(k)]
           seen == [k \in D |-> VisiblePart(k)]
<1>1. IsFiniteSet(D)
  BY DEF Divided
<1>2. \A k \in D : /\ IsFiniteSet(part[k]) /\ v[k] = Cardinality(part[k])
                   /\ IsFiniteSet(seen[k]) /\ m[k] = Cardinality(seen[k])
                   /\ m[k] <= d[k] /\ d[k] <= v[k]
                   /\ Priced(t[k], v[k], d[k], c[k])
  BY RegionIsPriced
<1>3. \A k \in D : v[k] \in Nat /\ d[k] \in Nat /\ m[k] \in Nat
  <2>1. \A k \in D : Priced(t[k], v[k], d[k], c[k]) /\ IsFiniteSet(seen[k])
                     /\ m[k] = Cardinality(seen[k])
    BY <1>2
  <2> HIDE DEF t, v, d, c, m, D, seen
  <2>2. \A k \in D : m[k] \in Nat
    BY <2>1, FS_CardinalityType
  <2>3. \A k \in D : v[k] \in Nat /\ d[k] \in Nat
    BY <2>1 DEF Priced, Types
  <2> QED BY <2>2, <2>3
<1>4. /\ DOMAIN d = D /\ DOMAIN c = D
      /\ Impure = {k \in D : t[k] = "impure"}
      /\ Hidden = {k \in D : t[k] = "pure_invisible"}
      /\ Lone = {k \in D : t[k] = "pure_visible" /\ v[k] = 1}
      /\ Empty = {k \in D : v[k] = 0}
  BY DEF Impure, Hidden, Lone, Empty
<1>5. /\ UNION {part[k] : k \in D} = Valid
      /\ UNION {seen[k] : k \in D} = {i \in Valid : grid[i].visible}
      /\ \A k, l \in D : k # l => part[k] \cap part[l] = {} /\ seen[k] \cap seen[l] = {}
  <2>1. UNION {part[k] : k \in D} = UNION {ValidPart(k) : k \in D}
        /\ UNION {seen[k] : k \in D} = UNION {VisiblePart(k) : k \in D}
    OBVIOUS
  <2>2. \A k \in D : part[k] = ValidPart(k) /\ seen[k] = VisiblePart(k)
    OBVIOUS
  <2> HIDE DEF part, seen
  <2> QED BY <2>1, <2>2, PartsOfTheGrid
<1>6. DistanceCount(plan) = SumFunctionOnSet(d, D)
  BY Zenon DEF DistanceCount, SumFunction
<1>7. SumFunction(c) = SumFunctionOnSet(c, D)
  BY <1>4, Zenon DEF SumFunction
<1> HIDE DEF t, v, d, c, m, D, part, seen
<1>8. PICK hv : Sums(D, v, hv)
  BY <1>1, SumExists
<1>9. PICK hd : Sums(D, d, hd)
  BY <1>1, SumExists
<1>10. PICK hc : Sums(D, c, hc)
  BY <1>1, SumExists
<1>11. PICK hm : Sums(D, m, hm)
  BY <1>1, SumExists
<1>12. \A s \in SUBSET D : hv[s] \in Nat /\ hd[s] \in Nat /\ hm[s] \in Nat
  <2>1. \A s \in SUBSET D : hv[s] \in Nat
    BY <1>1, <1>3, <1>8, SumIsNatural
  <2>2. \A s \in SUBSET D : hd[s] \in Nat
    BY <1>1, <1>3, <1>9, SumIsNatural
  <2>3. \A s \in SUBSET D : hm[s] \in Nat
    BY <1>1, <1>3, <1>11, SumIsNatural
  <2> QED BY <2>1, <2>2, <2>3
<1>13. hv[D] = Cardinality(Valid)
  <2>1. Cardinality(UNION {part[k] : k \in D}) = hv[D]
    <3>1. \A k \in D : IsFiniteSet(part[k]) /\ v[k] = Cardinality(part[k])
      BY <1>2
    <3>2. \A k, l \in D : k # l => part[k] \cap part[l] = {}
      BY <1>5
    <3> QED BY <1>1, <1>8, <3>1, <3>2, SumCountsParts
  <2> QED BY <1>5, <2>1
<1>14. hm[D] = VisibleCount
  <2>1. Cardinality(UNION {seen[k] : k \in D}) = hm[D]
    <3>1. \A k \in D : IsFiniteSet(seen[k]) /\ m[k] = Cardinality(seen[k])
      BY <1>2
    <3>2. \A k, l \in D : k # l => seen[k] \cap seen[l] = {}
      BY <1>5
    <3> QED BY <1>1, <1>11, <3>1, <3>2, SumCountsParts
  <2> QED BY <1>5, <2>1 DEF VisibleCount
<1>15. hm[D] <= hd[D]
  <2>1. \A k \in D : m[k] \in Nat /\ d[k] \in Nat
    BY <1>3
  <2>2. \A k \in D : m[k] <= d[k]
    BY <1>2
  <2> QED BY <1>1, <1>9, <1>11, <2>1, <2>2, SumsCompare
<1>16. hd[D] <= hv[D]
  <2>1. \A k \in D : d[k] \in Nat /\ v[k] \in Nat
    BY <1>3
  <2>2. \A k \in D : d[k] <= v[k]
    BY <1>2
  <2> QED BY <1>1, <1>8, <1>9, <2>1, <2>2, SumsCompare
<1>17. \A K \in SUBSET D : SumFunctionOnSet(v, K) = hv[K]
  BY <1>1, <1>8, SumFunctionIs
<1>18. DistanceCount(plan) = hd[D] /\ SumFunction(c) = hc[D]
  <2>1. SumFunctionOnSet(d, D) = hd[D]
    BY <1>1, <1>9, SumFunctionIs
  <2>2. SumFunctionOnSet(c, D) = hc[D]
    BY <1>1, <1>10, SumFunctionIs
  <2> QED BY <1>6, <1>7, <2>1, <2>2
<1>19. AddUp(D, Impure, Hidden, Lone, hv, hd, hc)
  <2>1. \A k \in D : Priced(t[k], v[k], d[k], c[k])
    BY <1>2
  <2> QED BY <1>1, <1>4, <1>8, <1>9, <1>10, <2>1, PricesAddUp
<1>20. D \in SUBSET D
  OBVIOUS
<1>21. HasFloor(D, Empty, hv, hm, hc)
  <2>1. \A k \in D : Priced(t[k], v[k], d[k], c[k]) /\ m[k] \in Nat /\ m[k] <= d[k]
    BY <1>2, <1>3
  <2> QED BY <1>1, <1>4, <1>8, <1>10, <1>11, <2>1, CostsHaveFloor
<1> QED
  BY <1>12, <1>13, <1>14, <1>15, <1>16, <1>17, <1>18, <1>19, <1>20, <1>21, Zenon DEF D, c, v

(* What a plan is estimated to cost, with the costs of its regions.        *)
LEMMA CostIsSum ==
  ASSUME NEW p, \A k \in DOMAIN p : p[k].type \in Types
  PROVE  /\ EstimateProofPlanCost(p).masked = Cardinality(Valid) * (3 + 10 + 1 + 1)
         /\ EstimateProofPlanCost(p).plan =
              SumFunction([k \in DOMAIN p |-> RegionCost(p[k])]) + Cardinality(Valid) * 1
<1> DEFINE n == Cardinality(Valid)
           D == DOMAIN p
           costs == EstimateProofPlanCost(p)
           cost == SumFunction([k \in D |-> RegionCost(p[k])])
           w == DefaultCostParams
           region(k) == CASE p[k].type = "pure_visible" ->
                               w.pure + w.dist * ValidCount(p[k])
                          [] p[k].type = "pure_invisible" -> w.pure
                          [] p[k].type = "impure" ->
                               w.impure + (w.vis + w.dist + w.mask) * ValidCount(p[k])
           sum == SumFunction([k \in D |-> region(k)])
<1>1. /\ w.dist = 10 /\ w.vis = 3 /\ w.mask = 1 /\ w.pure = 5 /\ w.impure = 2
      /\ w.topk = 1
  BY DEF DefaultCostParams
<1>2. \A k \in D : region(k) = RegionCost(p[k])
  <2> HIDE DEF w
  <2> QED BY <1>1 DEF RegionCost, Types
<1>3. sum = cost
  <2> HIDE DEF region
  <2> QED BY <1>2
<1>4. costs = [masked |-> n * (w.vis + w.dist + w.mask + w.topk),
               plan   |-> sum + n * w.topk,
               ideal  |-> n * w.vis + VisibleCount * (w.dist + w.topk) + w.compact]
  BY Zenon DEF EstimateProofPlanCost
<1> HIDE DEF sum, w, cost
<1>5. costs.masked = n * (w.vis + w.dist + w.mask + w.topk) /\ costs.plan = sum + n * w.topk
  BY <1>4
<1> QED BY <1>1, <1>3, <1>5 DEF w, cost

LEMMA DividedIsBounded ==
  ASSUME GridShape, Divided PROVE EstimatesAreBounded
<1> DEFINE D == DOMAIN plan
           n == Cardinality(Valid)
           parts == PlanCostBreakdown(plan, DefaultCostParams)
           costs == EstimateProofPlanCost(plan)
           valid == [k \in D |-> ValidCount(plan[k])]
           cost == SumFunction([k \in D |-> RegionCost(plan[k])])
<1>1. PICK hv, hd, hc, hm :
           /\ hv[D] = n /\ hm[D] = VisibleCount
           /\ hm[D] <= hd[D] /\ hd[D] <= hv[D]
           /\ hv[D] \in Nat /\ hd[D] \in Nat /\ hm[D] \in Nat
           /\ DistanceCount(plan) = hd[D]
           /\ cost = hc[D]
           /\ \A K \in SUBSET D : SumFunctionOnSet(valid, K) = hv[K] /\ hv[K] \in Nat
           /\ AddUp(D, Impure, Hidden, Lone, hv, hd, hc)
  BY EstimatesAreSums, Zenon
<1>2. IsFiniteSet(D)
  BY DEF Divided
<1>3. /\ Impure \in SUBSET D /\ D \ Impure \in SUBSET D /\ Lone \in SUBSET D
      /\ D \ Hidden \in SUBSET D
      /\ D \cap Impure = Impure /\ D \cap Lone = Lone
  BY DEF Impure, Hidden, Lone
<1> DEFINE a == Cardinality(Impure)
           b == Cardinality(D \ Impure)
           o == Cardinality(Lone)
<1>4. a \in Nat /\ b \in Nat /\ o \in Nat
  <2> HIDE DEF D
  <2> QED BY <1>2, <1>3, FS_Subset, FS_CardinalityType
<1>5. /\ DefaultCostParams.dist = 10 /\ DefaultCostParams.vis = 3
      /\ DefaultCostParams.mask = 1 /\ DefaultCostParams.pure = 5
      /\ DefaultCostParams.impure = 2 /\ DefaultCostParams.topk = 1
  BY DEF DefaultCostParams
<1>6. /\ parts.region = 2 * a + 5 * b
      /\ parts.visibility = 3 * SumFunctionOnSet(valid, Impure)
      /\ parts.distance = 10 * SumFunctionOnSet(valid, D \ Hidden)
      /\ parts.mask_topk = 1 * SumFunctionOnSet(valid, Impure) + 1 * n
  <2> HIDE DEF DefaultCostParams
  <2> QED BY <1>5 DEF PlanCostBreakdown, Impure, Hidden
<1>7. costs.masked = n * (3 + 10 + 1 + 1) /\ costs.plan = cost + n * 1
  <2>1. \A k \in D : plan[k].type \in Types
    BY ClassifiedTypes DEF Divided
  <2> QED BY <2>1, CostIsSum
<1>8. /\ SumFunctionOnSet(valid, Impure) = hv[Impure] /\ hv[Impure] \in Nat
      /\ SumFunctionOnSet(valid, D \ Hidden) = hv[D \ Hidden] /\ hv[D \ Hidden] \in Nat
  BY <1>1, <1>3
<1>9. /\ hd[D] = hv[D \ Hidden]
      /\ hc[D] = 2 * a + 5 * b + 4 * hv[Impure] + 10 * hv[D \ Hidden]
      /\ hc[D] <= 14 * hv[D] + 2 * a + o
  BY <1>1, <1>3 DEF AddUp
<1>10. n \in Nat
  BY <1>1
<1> HIDE DEF D, n, parts, costs, valid, cost, a, b, o
<1>11. DistanceCount(plan) \in VisibleCount .. n
  BY <1>1
<1>12. parts.distance = 10 * DistanceCount(plan)
  BY <1>1, <1>6, <1>8, <1>9
<1> DEFINE p == hv[Impure]
           q == hv[D \ Hidden]
           x == hc[D]
<1>13. /\ parts.region = 2 * a + 5 * b /\ parts.visibility = 3 * p
       /\ parts.distance = 10 * q /\ parts.mask_topk = 1 * p + 1 * n
       /\ costs.plan = x + n * 1 /\ costs.masked = n * (3 + 10 + 1 + 1)
       /\ x = 2 * a + 5 * b + 4 * p + 10 * q /\ x <= 14 * n + 2 * a + o
       /\ p \in Nat /\ q \in Nat
  BY <1>1, <1>6, <1>7, <1>8, <1>9
<1> HIDE DEF p, q, x
<1>14. costs.plan = parts.region + parts.visibility + parts.distance + parts.mask_topk
  BY <1>4, <1>10, <1>13
<1>15. costs.plan <= costs.masked + 2 * a + o
  BY <1>4, <1>10, <1>13
<1> QED
  BY <1>5, <1>11, <1>12, <1>14, <1>15 DEF EstimatesAreBounded, parts, costs, n, a, o, Lone, D

EInv == HInv /\ ((edits = 0 /\ pc = "planned") => Divided)

LEMMA SamePlanDivides ==
  ASSUME UNCHANGED <<grid, plan>> PROVE Divided' = Divided
BY DEF Divided, Slots, Named, ClassifyRegionType

LEMMA BuildDivides ==
  ASSUME HInv, BuildProofPlan, pc' = "planned" PROVE Divided'
<1>1. Plannable /\ UNCHANGED grid /\ plan' = PlanOf(Groups)
  BY DEF BuildProofPlan
<1>2. Partition(Groups)
  BY <1>1, GroupsPartition
<1> QED BY <1>1, <1>2, BuiltPlanDivides DEF HInv

LEMMA BuildLayoutDivides ==
  ASSUME HInv, BuildLayoutProofPlan PROVE Divided'
<1> DEFINE g == LayoutGroups(workload.layout, workload.merged_k, workload.signature, grid)
<1>1. UNCHANGED grid /\ plan' = PlanOf(g)
  BY DEF BuildLayoutProofPlan, LayoutPlan
<1>2. Partition(g)
  BY LayoutPartition
<1> HIDE DEF g
<1> QED BY <1>1, <1>2, BuiltPlanDivides DEF HInv

LEMMA EInvIsInductive ==
  ASSUME EInv, [Next]_vars PROVE EInv'
<1>1. CASE Next /\ BuildProofPlan
  BY <1>1, BuildHInv, BuildDivides DEF Next, EInv
<1>2. CASE Next /\ Alter
  <2>1. edits' = edits + 1 /\ edits \in Nat
    BY <1>2 DEF Alter, EInv, HInv
  <2> QED BY <1>2, <2>1, AlterHInv DEF Next, EInv
<1>3. CASE Next /\ ValidateProofPlan
  <2>1. pc' # "planned"
    BY <1>3 DEF ValidateProofPlan
  <2> QED BY <1>3, <2>1, ValidateHInv DEF Next, EInv
<1>4. CASE Next /\ Compare
  <2>1. pc' # "planned"
    BY <1>4 DEF Compare
  <2> QED BY <1>4, <2>1, CompareHInv DEF Next, EInv
<1>5. CASE Next /\ workload.kind = "signature" /\ BuildLayoutProofPlan
  BY <1>5, BuildLayoutHInv, BuildLayoutDivides DEF Next, EInv
<1>6. CASE UNCHANGED vars
  <2>1. UNCHANGED <<grid, plan, edits, pc>>
    BY <1>6 DEF vars, planVars
  <2> QED BY <1>6, <2>1, StutterHInv, SamePlanDivides DEF EInv
<1> QED
  BY <1>1, <1>2, <1>3, <1>4, <1>5, <1>6
     DEF Next, BuildAndCompareProofPlan, EvaluateCase, EvaluateLayout

(* The estimates of a plan nobody altered, for every grid and every way to *)
(* group it: its distances are between the visible and the valid slots,    *)
(* its parts add up to the cost that another function computes, and only   *)
(* the certificates of impure regions and of visible regions with a single *)
(* slot can make it dearer than masking.  (estimate_proof_plan_cost,       *)
(* _plan_cost_breakdown, _count_plan_distances)                            *)
THEOREM EstimatesHold == Spec => []EstimatesAreBounded
<1>1. Init => EInv
  <2> SUFFICES ASSUME Init PROVE EInv
    OBVIOUS
  <2>1. pc = "plan"
    BY DEF Init, PlanInit
  <2> QED BY <2>1, InitHInv DEF EInv
<1>2. EInv /\ [Next]_vars => EInv'
  BY EInvIsInductive
<1>3. EInv => EstimatesAreBounded
  <2> SUFFICES ASSUME EInv, edits = 0, pc = "planned" PROVE EstimatesAreBounded
    BY DEF EstimatesAreBounded
  <2> QED BY DividedIsBounded DEF EInv, HInv
<1> QED
  BY <1>1, <1>2, <1>3, PTL DEF Spec

-----------------------------------------------------------------------------
(***************************************************************************)
(* Layouts over access signatures.  A mask is determined by its number, so *)
(* a region of one signature holds one mask; the masks that occur have the *)
(* ranks from 0 on, so that merging counts them off.                       *)
(***************************************************************************)

(* A set and what an injective function makes of it are of one size.       *)
LEMMA SameSize ==
  ASSUME NEW A, IsFiniteSet(A), NEW f, DOMAIN f = A,
         \A x, y \in A : f[x] = f[y] => x = y
  PROVE  IsFiniteSet({f[x] : x \in A}) /\ Cardinality({f[x] : x \in A}) = Cardinality(A)
<1> DEFINE B == {f[x] : x \in A}
           g == [x \in A |-> f[x]]
<1>1. g \in [A -> B]
  OBVIOUS
<1>2. \A y \in B : \E x \in A : g[x] = y
  OBVIOUS
<1>3. \A x, y \in A : g[x] = g[y] => x = y
  OBVIOUS
<1> HIDE DEF B, g
<1>4. g \in Bijection(A, B)
  BY <1>1, <1>2, <1>3 DEF Bijection, Injection, Surjection, IsInjective
<1>5. ExistsBijection(A, B)
  BY <1>4 DEF ExistsBijection
<1>6. IsFiniteSet(B) /\ Cardinality(B) = Cardinality(A)
  BY <1>5, FS_Bijection
<1> QED BY <1>6 DEF B

LEMMA PowerDoubles ==
  ASSUME NEW n \in Nat PROVE 2 ^ (n + 1) = 2 * 2 ^ n
<1> DEFINE A == SUBSET (1 .. n)
           T == 1 .. n + 1
           f == [s \in A |-> s \cup {n + 1}]
           B == {f[s] : s \in A}
<1>1. IsFiniteSet(1 .. n) /\ Cardinality(1 .. n) = n
  BY IntervalSize
<1>2. IsFiniteSet(T) /\ Cardinality(T) = n + 1
  BY IntervalSize
<1>3. IsFiniteSet(A) /\ Cardinality(A) = 2 ^ n
  BY <1>1, FS_SUBSET
<1>4. Cardinality(SUBSET T) = 2 ^ (n + 1)
  BY <1>2, FS_SUBSET
<1>5. \A s, t \in A : f[s] = f[t] => s = t
  <2> SUFFICES ASSUME NEW s \in A, NEW t \in A, s \cup {n + 1} = t \cup {n + 1}
               PROVE  s = t
    OBVIOUS
  <2>1. n + 1 \notin 1 .. n
    OBVIOUS
  <2>2. n + 1 \notin s /\ n + 1 \notin t
    BY <2>1
  <2> QED BY <2>2
<1>6. IsFiniteSet(B) /\ Cardinality(B) = 2 ^ n
  <2> HIDE DEF A
  <2>1. DOMAIN f = A
    OBVIOUS
  <2> HIDE DEF f
  <2> QED BY <1>3, <1>5, <2>1, SameSize
<1>7. SUBSET T = A \cup B
  <2>1. A \cup B \subseteq SUBSET T
    <3>1. \A x \in 1 .. n : x \in T
      OBVIOUS
    <3>2. n + 1 \in T
      OBVIOUS
    <3> HIDE DEF T
    <3> QED BY <3>1, <3>2
  <2>2. ASSUME NEW s \in SUBSET T PROVE s \in A \cup B
    <3>1. CASE n + 1 \notin s
      <4>1. \A x \in s : x \in 1 .. n + 1 /\ x # n + 1
        BY <2>2, <3>1
      <4>2. \A x \in s : x \in 1 .. n
        BY <4>1
      <4> QED BY <4>2
    <3>2. CASE n + 1 \in s
      <4> DEFINE r == s \ {n + 1}
      <4>1. \A x \in r : x \in 1 .. n + 1 /\ x # n + 1
        BY <2>2
      <4>2. \A x \in r : x \in 1 .. n
        BY <4>1
      <4>3. r \in A /\ s = r \cup {n + 1}
        BY <3>2, <4>2
      <4> HIDE DEF r
      <4>4. s = f[r]
        BY <4>3
      <4> QED BY <4>3, <4>4
    <3> QED BY <3>1, <3>2
  <2> QED BY <2>1, <2>2
<1>8. A \cap B = {}
  <2>1. n + 1 \notin 1 .. n
    OBVIOUS
  <2>2. \A s \in A : n + 1 \notin s
    BY <2>1
  <2>3. \A s \in B : n + 1 \in s
    OBVIOUS
  <2> HIDE DEF A, B
  <2> QED BY <2>2, <2>3
<1> HIDE DEF A, B, T, f
<1>9. Cardinality(A \cup B) = Cardinality(A) + Cardinality(B) - 0
  BY <1>3, <1>6, <1>8, FS_Union, FS_EmptySet
<1>10. 2 ^ n \in Nat
  BY PowerIsPositive
<1> DEFINE p == 2 ^ n
           q == 2 ^ (n + 1)
<1>11. q = p + p /\ p \in Nat
  BY <1>3, <1>4, <1>6, <1>7, <1>9, <1>10
<1> HIDE DEF p, q
<1>12. q = 2 * p
  BY <1>11
<1> QED BY <1>12 DEF p, q

(* The number of a mask, and that no other mask has it.                    *)
LEMMA MaskNumbers ==
  ASSUME NEW R \in Nat
  PROVE  \A s, t \in SUBSET (0 .. R - 1) :
           /\ MaskNumber(s) \in Nat
           /\ MaskNumber(s) = MaskNumber(t) => s = t
<1> DEFINE U == 0 .. R - 1
           P == [b \in Nat |-> 2 ^ b]
<1>1. IsFiniteSet(U) /\ U \subseteq Nat
  BY IntervalSize
<1>2. \A b \in Nat : P[b] = 2 ^ b /\ P[b] \in Nat \ {0} /\ P[b + 1] = 2 * P[b]
  <2> TAKE b \in Nat
  <2>1. P[b] = 2 ^ b /\ P[b + 1] = 2 ^ (b + 1)
    OBVIOUS
  <2>2. 2 ^ b \in Nat \ {0}
    BY PowerIsPositive
  <2>3. 2 ^ (b + 1) = 2 * 2 ^ b
    BY PowerDoubles
  <2> HIDE DEF P
  <2> QED BY <2>1, <2>2, <2>3
<1>3. \A s \in SUBSET U : MaskNumber(s) = SumFunctionOnSet(P, s)
  BY DEF MaskNumber
<1> HIDE DEF P
<1>4. PICK h : Sums(U, P, h)
  BY <1>1, SumExists
<1>5. \A s \in SUBSET U : MaskNumber(s) = h[s]
  <2> HIDE DEF U
  <2> QED BY <1>1, <1>3, <1>4, SumFunctionIs
<1>6. \A x \in U : P[x] \in Nat
  BY <1>1, <1>2
<1>7. h[{}] = 0 /\ \A s \in SUBSET U : h[s] \in Nat
  <2> HIDE DEF U
  <2> QED BY <1>1, <1>4, <1>6, SumIsNatural
<1>8. \A s \in SUBSET U : \A x \in s : h[s] = P[x] + h[s \ {x}]
  <2> HIDE DEF U
  <2>1. Splits(U, P, h)
    BY <1>1, <1>4, <1>6, SumSplits
  <2> QED BY <2>1 DEF Splits
(* s without its bit k is a mask of the bits below.                        *)
<1>9. ASSUME NEW k \in Nat, k + 1 <= R, NEW s \in SUBSET (0 .. k)
      PROVE  s \in SUBSET U /\ s \ {k} \in SUBSET (0 .. k - 1)
  <2>1. \A x \in s : x \in 0 .. k /\ x \in 0 .. R - 1
    BY <1>9
  <2>2. \A x \in s \ {k} : x \in 0 .. k - 1
    BY <2>1
  <2> QED BY <2>1, <2>2
<1> DEFINE Small(k) == \A s \in SUBSET (0 .. k - 1) : h[s] < P[k]
           Apart(k) == \A s, t \in SUBSET (0 .. k - 1) : h[s] = h[t] => s = t
           Good(k) == Small(k) /\ Apart(k)
           bad == {k \in 0 .. R : ~ Good(k)}
<1>10. Good(0)
  <2>1. 0 .. 0 - 1 = {}
    OBVIOUS
  <2>2. \A s \in SUBSET (0 .. 0 - 1) : s = {}
    BY <2>1
  <2>3. P[0] \in Nat \ {0}
    BY <1>2
  <2>4. h[{}] < P[0]
    BY <1>7, <2>3
  <2>5. Small(0)
    BY <2>2, <2>4
  <2>6. Apart(0)
    BY <2>2
  <2> QED BY <2>5, <2>6
<1>11. ASSUME NEW k \in Nat, k + 1 <= R, Good(k) PROVE Good(k + 1)
  <2>1. (k + 1) - 1 = k
    OBVIOUS
  <2>2. P[k] \in Nat \ {0} /\ P[k + 1] = P[k] + P[k]
    BY <1>2
  <2>3. ASSUME NEW s \in SUBSET (0 .. k)
        PROVE  /\ h[s] \in Nat /\ h[s \ {k}] \in Nat /\ h[s \ {k}] < P[k]
               /\ h[s] = IF k \in s THEN P[k] + h[s \ {k}] ELSE h[s \ {k}]
    <3>1. s \in SUBSET U /\ s \ {k} \in SUBSET (0 .. k - 1) /\ s \ {k} \in SUBSET U
      BY <1>9, <1>11
    <3>2. h[s \ {k}] < P[k]
      BY <1>11, <3>1
    <3>3. k \notin s => s \ {k} = s
      OBVIOUS
    <3> HIDE DEF U
    <3> QED BY <1>7, <1>8, <3>1, <3>2, <3>3
  <2>4. ASSUME NEW s \in SUBSET (0 .. k) PROVE h[s] < P[k + 1]
    <3> DEFINE a == h[s]
               b == h[s \ {k}]
               p == P[k]
    <3>1. a \in Nat /\ b \in Nat /\ b < p /\ (a = p + b \/ a = b) /\ p \in Nat
      BY <2>2, <2>3
    <3> HIDE DEF a, b, p
    <3>2. a < p + p
      BY <3>1
    <3> QED BY <2>2, <3>2 DEF a, p
  <2>5. ASSUME NEW s \in SUBSET (0 .. k), NEW t \in SUBSET (0 .. k), h[s] = h[t]
        PROVE  s = t
    <3> DEFINE a == h[s]
               b == h[s \ {k}]
               d == h[t \ {k}]
               p == P[k]
    <3>0. /\ a \in Nat /\ b \in Nat /\ d \in Nat /\ p \in Nat /\ b < p /\ d < p
          /\ a = (IF k \in s THEN p + b ELSE b)
          /\ a = (IF k \in t THEN p + d ELSE d)
      BY <2>2, <2>3, <2>5
    <3> HIDE DEF a, b, d, p
    <3>1. k \in s <=> k \in t
      BY <3>0
    <3>2. h[s \ {k}] = h[t \ {k}]
      BY <3>0, <3>1 DEF b, d
    <3>3. s \ {k} \in SUBSET (0 .. k - 1) /\ t \ {k} \in SUBSET (0 .. k - 1)
      BY <1>9, <1>11
    <3>4. s \ {k} = t \ {k}
      BY <1>11, <3>2, <3>3
    <3> QED BY <3>1, <3>4
  <2> QED BY <2>1, <2>4, <2>5
<1>12. bad = {}
  <2> SUFFICES ASSUME bad # {} PROVE FALSE
    OBVIOUS
  <2> HIDE DEF Good
  <2>1. bad \subseteq Nat
    OBVIOUS
  <2>2. PICK k \in bad : \A j \in bad : k <= j
    BY <2>1, LeastNatural
  <2>3. k # 0
    BY <1>10, <2>2
  <2>4. k - 1 \in Nat /\ k - 1 + 1 <= R /\ k - 1 \in 0 .. R /\ ~ (k <= k - 1)
    BY <2>2, <2>3
  <2>5. Good(k - 1)
    BY <2>2, <2>4
  <2>6. Good(k - 1 + 1)
    BY <1>11, <2>4, <2>5
  <2>7. k - 1 + 1 = k
    BY <2>1
  <2> QED BY <2>2, <2>6, <2>7
<1>13. R \in 0 .. R
  OBVIOUS
<1>14. Apart(R)
  BY <1>12, <1>13
<1> QED BY <1>5, <1>7, <1>14

(* The masks that occur are counted off in the order of their numbers.     *)
Rank(signature, m) ==
  Cardinality({x \in Used(signature) : MaskNumber(x) < MaskNumber(m)})

LEMMA MasksAreRanked ==
  ASSUME NEW R \in Nat, NEW N \in Nat \ {0}, NEW f \in [1 .. N -> SUBSET (0 .. R - 1)]
  PROVE  /\ IsFiniteSet(Used(f)) /\ Cardinality(Used(f)) \in Nat \ {0}
         /\ \A m \in Used(f) : Rank(f, m) \in 0 .. Cardinality(Used(f)) - 1
         /\ \A l, m \in Used(f) : Rank(f, l) = Rank(f, m) => l = m
         /\ \A j \in 1 .. Cardinality(Used(f)) : \E m \in Used(f) : Rank(f, m) = j - 1
         /\ \A l, m \in Used(f) : MaskNumber(l) = MaskNumber(m) => l = m
<1> DEFINE U == Used(f)
           num == [m \in U |-> MaskNumber(m)]
           nums == {num[m] : m \in U}
<1>1. U \subseteq SUBSET (0 .. R - 1) /\ f[1] \in U
  BY DEF Used
<1>2. IsFiniteSet(U)
  <2>1. IsFiniteSet(0 .. R - 1)
    BY IntervalSize
  <2>2. IsFiniteSet(SUBSET (0 .. R - 1))
    BY <2>1, FS_SUBSET
  <2> HIDE DEF U
  <2> QED BY <1>1, <2>2, FS_Subset
<1>3. Cardinality(U) \in Nat \ {0}
  <2> HIDE DEF U
  <2> QED BY <1>1, <1>2, FS_CardinalityType, FS_EmptySet
<1>4. \A l, m \in U : MaskNumber(m) \in Nat /\ (MaskNumber(l) = MaskNumber(m) => l = m)
  <2> HIDE DEF U
  <2> QED BY <1>1, MaskNumbers
<1> HIDE DEF U
<1>5. DOMAIN num = U /\ \A l, m \in U : num[l] = num[m] => l = m
  BY <1>4
<1>6. IsFiniteSet(nums) /\ Cardinality(nums) = Cardinality(U)
  <2> HIDE DEF num
  <2> QED BY <1>2, <1>5, SameSize
<1>7. nums \subseteq Nat
  BY <1>4
<1>8. ASSUME NEW m \in U PROVE Rank(f, m) = RankIn(nums, MaskNumber(m))
  <2> DEFINE A == {x \in U : MaskNumber(x) < MaskNumber(m)}
             g == [x \in A |-> MaskNumber(x)]
  <2>1. A \in SUBSET U
    OBVIOUS
  <2>2. DOMAIN g = A /\ \A x, y \in A : g[x] = g[y] => x = y
    BY <1>4
  <2>3. {g[x] : x \in A} = {i \in nums : i < MaskNumber(m)}
    <3>1. {g[x] : x \in A} \subseteq {i \in nums : i < MaskNumber(m)}
      OBVIOUS
    <3>2. {i \in nums : i < MaskNumber(m)} \subseteq {g[x] : x \in A}
      OBVIOUS
    <3> QED BY <3>1, <3>2
  <2>4. Rank(f, m) = Cardinality(A)
    BY DEF Rank, U
  <2> HIDE DEF A, g, nums
  <2>5. IsFiniteSet(A)
    BY <1>2, <2>1, FS_Subset
  <2>6. Cardinality({g[x] : x \in A}) = Cardinality(A)
    BY <2>2, <2>5, SameSize
  <2> QED BY <2>3, <2>4, <2>6 DEF RankIn
<1>9. \A m \in U : MaskNumber(m) \in nums
  OBVIOUS
<1>10. \A i \in nums : \E m \in U : MaskNumber(m) = i
  OBVIOUS
<1> HIDE DEF nums
<1>11. /\ \A k \in nums : RankIn(nums, k) \in 0 .. Cardinality(nums) - 1
       /\ \A k, m \in nums : RankIn(nums, k) = RankIn(nums, m) => k = m
       /\ \A j \in 1 .. Cardinality(nums) : \E k \in nums : RankIn(nums, k) = j - 1
  BY <1>6, <1>7, RankTaken
<1>12. \A m \in U : Rank(f, m) \in 0 .. Cardinality(U) - 1
  BY <1>6, <1>8, <1>9, <1>11
<1>13. \A l, m \in U : Rank(f, l) = Rank(f, m) => l = m
  BY <1>4, <1>8, <1>9, <1>11
<1>14. \A j \in 1 .. Cardinality(U) : \E m \in U : Rank(f, m) = j - 1
  BY <1>6, <1>8, <1>10, <1>11
<1> QED BY <1>2, <1>3, <1>4, <1>12, <1>13, <1>14 DEF U

LEMMA DivAtLeast ==
  ASSUME NEW a \in Nat, NEW k \in Nat \ {0}, NEW q \in Nat, k * q <= a
  PROVE  q <= a \div k
<1> DEFINE p == a \div k
           r == a % k
<1>1. p \in Nat /\ r \in 0 .. k - 1 /\ a = k * p + r
  BY DivMod
<1> HIDE DEF p, r
<1>2. SUFFICES ASSUME ~ (q <= p) PROVE FALSE
  BY DEF p
<1>3. PICK d \in Nat : q = p + 1 + d
  <2>1. q - p - 1 \in Nat /\ q = p + 1 + (q - p - 1)
    BY <1>1, <1>2
  <2> QED BY <2>1
<1>4. k * q = k * p + k + k * d
  BY <1>1, <1>3
<1> DEFINE x == k * p
           y == k * d
           z == k * q
<1>5. x \in Nat /\ y \in Nat /\ z = x + k + y /\ z <= a /\ a = x + r
  BY <1>1, <1>3, <1>4
<1> HIDE DEF x, y, z
<1> QED BY <1>1, <1>5

(* Larger numbers and smaller divisors give larger quotients.              *)
LEMMA DivGrows ==
  ASSUME NEW a \in Nat, NEW b \in Nat, a <= b, NEW k \in Nat \ {0}, NEW l \in Nat \ {0}, l <= k
  PROVE  a \div k <= b \div l
<1> DEFINE q == a \div k
           r == a % k
<1>1. q \in Nat /\ r \in 0 .. k - 1 /\ a = k * q + r
  BY DivMod
<1> HIDE DEF q, r
<1>2. PICK d \in Nat : k = l + d
  <2>1. k - l \in Nat /\ k = l + (k - l)
    OBVIOUS
  <2> QED BY <2>1
<1>3. k * q = l * q + d * q /\ l * q \in Nat /\ d * q \in Nat
  BY <1>1, <1>2
<1> DEFINE x == l * q
           y == d * q
           z == k * q
<1>4. x \in Nat /\ y \in Nat /\ z = x + y /\ a = z + r
  BY <1>1, <1>3
<1> HIDE DEF x, y, z
<1>5. x <= b
  BY <1>1, <1>4
<1>6. l * q <= b
  BY <1>5 DEF x
<1>7. q <= b \div l
  BY <1>1, <1>6, DivAtLeast
<1> QED BY <1>7 DEF q

(* The workloads of the layout evaluation.                                 *)
Signed ==
  /\ workload.case \in SignatureCases
  /\ workload.signature \in SignatureAssignments(workload.case)
  /\ workload.role \in Roles(workload.case)
  /\ <<workload.layout, workload.merged_k>> \in Layouts(workload.case)
  /\ grid = AccessSignatureGrid(workload.case,
              PlacedDims(workload.case, GridDims(workload.case)),
              workload.signature, workload.role)

Objects == 1 .. workload.case.num_objects

(* Objects fill the grid from its first slot; padding is visible to nobody, *)
(* an object to the roles of its signature.                                *)
LEMMA SignedGrid ==
  ASSUME Signed
  PROVE  /\ workload.case.num_objects \in Nat \ {0}
         /\ workload.case.num_roles \in Nat /\ workload.case.num_signatures \in Nat
         /\ workload.signature \in
              [Objects -> SUBSET (0 .. workload.case.num_roles - 1)]
         /\ GridShape /\ Objects \subseteq Slots
         /\ Len(grid) \in Nat /\ Slots = 1 .. Len(grid)
         /\ workload.case.num_objects <= Len(grid)
         /\ \A i \in Slots :
              /\ grid[i].valid <=> i \in Objects
              /\ i \in Objects => (grid[i].visible <=> workload.role \in workload.signature[i])
<1> DEFINE c == workload.case
           N == c.num_objects
           f == workload.signature
           role == workload.role
           dims == PlacedDims(c, GridDims(c))
           n == dims.n_lists
           s == dims.slot_per_list
           label(i) == IF i <= N THEN SignatureToLabel(f[i]) ELSE PaddingLabel
           cell(i) == [list |-> (i - 1) \div s, slot |-> (i - 1) % s, class |-> 0,
                       valid |-> i <= N,
                       visible |-> UserForQueryRole(role, label(i)),
                       distance |-> i]
<1>1. N \in Nat \ {0} /\ c.num_roles \in Nat /\ c.num_signatures \in Nat
  BY ObjectsAssumption DEF Signed
<1>2. f \in [Objects -> SUBSET (0 .. c.num_roles - 1)]
  <2>1. f \in SignatureAssignments(c)
    BY DEF Signed
  <2>2. f \in [1 .. N -> SignatureMasks(c)]
    BY <2>1 DEF SignatureAssignments
  <2>3. SignatureMasks(c) \subseteq SUBSET (0 .. c.num_roles - 1)
    BY Zenon DEF SignatureMasks, Roles
  <2> QED BY <2>2, <2>3 DEF Objects
<1>3. n \in Nat \ {0} /\ s \in Nat \ {0} /\ n * s >= N
  BY <1>1, PlacedDimsArePositive
<1>4. n * s \in Nat
  <2> HIDE DEF n, s
  <2> QED BY <1>3
<1>5. grid = [i \in 1 .. n * s |-> cell(i)]
  <2>1. grid = AccessSignatureGrid(c, dims, f, role)
    BY DEF Signed
  <2> QED BY <2>1, Zenon DEF AccessSignatureGrid
<1>6. \A i : (cell(i).valid <=> i <= N) /\ (cell(i).visible <=> UserForQueryRole(role, label(i)))
  BY Zenon
<1> HIDE DEF n, s, cell, dims
<1>7. grid = [i \in 1 .. n * s |-> grid[i]]
  BY <1>5
<1>8. Len(grid) = n * s /\ Slots = 1 .. n * s
  BY <1>4, <1>7, ListShape DEF Slots
<1>9. GridShape
  BY <1>4, <1>8 DEF GridShape
<1>10. \A i \in Slots : grid[i].valid <=> i \in Objects
  <2> TAKE i \in Slots
  <2>1. grid[i] = cell(i) /\ i \in 1 .. n * s
    BY <1>5, <1>8
  <2>2. grid[i].valid <=> i <= N
    BY <1>6, <2>1
  <2> QED BY <1>1, <1>4, <2>1, <2>2 DEF Objects
<1>11. Objects \subseteq Slots
  BY <1>1, <1>3, <1>4, <1>8 DEF Objects
<1>12. ASSUME NEW i \in Objects PROVE grid[i].visible <=> role \in f[i]
  <2>1. grid[i] = cell(i)
    BY <1>5, <1>8, <1>11
  <2>2. label(i) = SignatureToLabel(f[i])
    BY <1>1 DEF Objects
  <2>3. grid[i].visible <=> UserForQueryRole(role, SignatureToLabel(f[i]))
    BY <1>6, <2>1, <2>2
  <2>4. CASE f[i] = {}
    <3>1. SignatureToLabel(f[i]).level = 999
      BY <2>4 DEF SignatureToLabel
    <3> QED BY <2>3, <2>4, <3>1 DEF UserForQueryRole
  <2>5. CASE f[i] # {}
    <3>1. SignatureToLabel(f[i]) = [tenant |-> "acme", level |-> 1, roles |-> f[i]]
      BY <2>5 DEF SignatureToLabel
    <3> QED BY <2>3, <2>5, <3>1 DEF UserForQueryRole
  <2> QED BY <2>4, <2>5
<1> QED BY <1>1, <1>2, <1>3, <1>4, <1>8, <1>9, <1>10, <1>11, <1>12

(* The slots that are valid and visible are those of visible objects.      *)
LEMMA SignedVisible ==
  ASSUME Signed
  PROVE  /\ Valid = Objects
         /\ VisibleCount = Cardinality({o \in DOMAIN workload.signature :
              ObjectVisibleForRole(workload.signature[o], workload.role)})
<1>1. Valid = Objects
  BY SignedGrid DEF Valid
<1>2. DOMAIN workload.signature = Objects
  BY SignedGrid
<1>3. \A i \in Objects : grid[i].visible <=> workload.role \in workload.signature[i]
  BY SignedGrid
<1>4. {i \in Valid : grid[i].visible} =
        {o \in DOMAIN workload.signature :
           ObjectVisibleForRole(workload.signature[o], workload.role)}
  BY <1>1, <1>2, <1>3 DEF ObjectVisibleForRole
<1> QED BY <1>1, <1>4 DEF VisibleCount

LEMMA PlanOfNames ==
  ASSUME GridShape, NEW g, Partition(g), plan = PlanOf(g)
  PROVE  /\ DOMAIN plan = DOMAIN g
         /\ \A r \in DOMAIN g : Named(r) = g[r]
<1>1. DOMAIN plan = DOMAIN g
  BY DEF PlanOf
<1>2. ASSUME NEW r \in DOMAIN g PROVE Named(r) = g[r]
  <2>1. plan[r].slots = InOrder(g[r])
    BY DEF PlanOf, MakeRegion
  <2>2. g[r] \subseteq Nat /\ IsFiniteSet(g[r])
    BY <1>2, SlotsAreFinite DEF Partition
  <2> DEFINE s == InOrder(g[r])
  <2>3. /\ \A p \in DOMAIN s : s[p] \in g[r]
        /\ \A i \in g[r] : \E p \in DOMAIN s : s[p] = i
    BY <2>2, InOrderNames
  <2> HIDE DEF s
  <2>4. Named(r) = {s[p] : p \in DOMAIN s}
    BY <2>1 DEF Named, s
  <2> QED BY <2>3, <2>4
<1> QED BY <1>1, <1>2

(* Slots of one region of a layout have one key.                           *)
LEMMA LayoutNames ==
  ASSUME GridShape, NEW layout, NEW k, plan = LayoutPlan(layout, k)
  PROVE  /\ DOMAIN plan = {LayoutKey(layout, k, workload.signature, grid, i) : i \in Slots}
         /\ \A r \in DOMAIN plan : \A i \in Named(r) :
              i \in Slots /\ LayoutKey(layout, k, workload.signature, grid, i) = r
<1> DEFINE g == LayoutGroups(layout, k, workload.signature, grid)
           key(i) == LayoutKey(layout, k, workload.signature, grid, i)
<1>1. g = [r \in {key(i) : i \in Slots} |-> {i \in Slots : key(i) = r}]
  BY Zenon DEF LayoutGroups, Slots
<1>2. Partition(g) /\ plan = PlanOf(g)
  BY LayoutPartition DEF LayoutPlan
<1> HIDE DEF g, key
<1>3. DOMAIN plan = DOMAIN g /\ \A r \in DOMAIN g : Named(r) = g[r]
  BY <1>2, PlanOfNames
<1> QED BY <1>1, <1>3 DEF key

(* The regions of plan are the keys of the slots; each names its own slots. *)
KeyedBy(layout, k) ==
  /\ DOMAIN plan = {LayoutKey(layout, k, workload.signature, grid, i) : i \in Slots}
  /\ \A r \in DOMAIN plan : \A i \in Named(r) :
       i \in Slots /\ LayoutKey(layout, k, workload.signature, grid, i) = r

LEMMA LayoutsAreKeyed ==
  ASSUME GridShape, NEW layout, NEW k, plan = LayoutPlan(layout, k)
  PROVE  KeyedBy(layout, k)
BY LayoutNames DEF KeyedBy

(* A layout that keeps signatures, or visible and other slots, apart.      *)
Separates(layout, k) ==
  \/ layout \in {"acl_signature", "oracle_authorized_view"}
  \/ layout = "merged_k" /\ k = 1

LEMMA SeparatedRegionsArePure ==
  ASSUME Signed, Divided, NEW layout, NEW k, plan = LayoutPlan(layout, k),
         Separates(layout, k)
  PROVE  \A r \in DOMAIN plan : Pure(r)
<1> DEFINE f == workload.signature
           R == workload.case.num_roles
           N == workload.case.num_objects
<1>1. /\ R \in Nat /\ N \in Nat \ {0} /\ f \in [1 .. N -> SUBSET (0 .. R - 1)]
      /\ GridShape
  BY SignedGrid DEF Objects
<1> SUFFICES ASSUME NEW r \in DOMAIN plan, HasValid(r) PROVE plan[r].type # "impure"
  BY DEF Pure, Impure
<1>2. ValidPart(r) # {}
  <2>1. ValidCount(plan[r]) = Cardinality(ValidPart(r))
    BY <1>1, RegionIsPriced
  <2> QED BY <2>1, FS_EmptySet DEF HasValid
<1>3. ASSUME NEW i \in ValidPart(r), NEW j \in ValidPart(r)
      PROVE  grid[i].visible <=> grid[j].visible
  <2>1. /\ i \in Slots /\ j \in Slots /\ grid[i].valid /\ grid[j].valid
        /\ LayoutKey(layout, k, f, grid, i) = LayoutKey(layout, k, f, grid, j)
    <3>1. i \in Named(r) /\ j \in Named(r) /\ grid[i].valid /\ grid[j].valid
      BY DEF ValidPart
    <3>2. \A x \in Named(r) : x \in Slots /\ LayoutKey(layout, k, f, grid, x) = r
      BY <1>1, LayoutNames
    <3> QED BY <3>1, <3>2
  <2>2. i \in Objects /\ j \in Objects
    BY <2>1, SignedGrid
  <2>3. f[i] \in Used(f) /\ f[j] \in Used(f)
    BY <1>1, <2>2 DEF Used, Objects
  <2>4. f[i] = f[j] => (grid[i].visible <=> grid[j].visible)
    BY <2>1, <2>2, SignedGrid
  <2> HIDE DEF f, R, N
  <2>5. CASE layout = "acl_signature"
    <3>1. MaskNumber(f[i]) = MaskNumber(f[j])
      BY <2>1, <2>5 DEF LayoutKey
    <3> QED BY <1>1, <2>3, <2>4, <3>1, MasksAreRanked
  <2>6. CASE layout = "oracle_authorized_view"
    <3> DEFINE a == IF grid[i].visible THEN 1 ELSE 0
               b == IF grid[j].visible THEN 1 ELSE 0
    <3>1. LayoutKey(layout, k, f, grid, i) = <<"oracle", a>>
      BY <2>1, <2>6 DEF LayoutKey
    <3>2. LayoutKey(layout, k, f, grid, j) = <<"oracle", b>>
      BY <2>1, <2>6 DEF LayoutKey
    <3> HIDE DEF a, b
    <3>3. <<"oracle", a>> = <<"oracle", b>>
      BY <2>1, <3>1, <3>2, Zenon
    <3>4. a = b
      BY <3>3
    <3> QED BY <3>4 DEF a, b
  <2>7. CASE layout = "merged_k" /\ k = 1
    <3>1. MergedRegion(f, 1, f[i]) = MergedRegion(f, 1, f[j])
      BY <2>1, <2>7 DEF LayoutKey
    <3>2. Rank(f, f[i]) \in Nat /\ Rank(f, f[j]) \in Nat
      BY <1>1, <2>3, MasksAreRanked
    <3>3. Rank(f, f[i]) \div 1 = Rank(f, f[j]) \div 1
      BY <3>1 DEF MergedRegion, Rank
    <3>4. Rank(f, f[i]) = Rank(f, f[j])
      BY <3>2, <3>3
    <3> QED BY <1>1, <2>3, <2>4, <3>4, MasksAreRanked
  <2> QED BY <2>5, <2>6, <2>7 DEF Separates
<1>4. plan[r].type = ClassifyRegionType(Named(r))
  BY DEF Divided
<1>5. (\A i \in ValidPart(r) : grid[i].visible) \/ (\A i \in ValidPart(r) : ~ grid[i].visible)
  BY <1>2, <1>3
<1> QED BY <1>2, <1>4, <1>5 DEF ClassifyRegionType, ValidPart

-----------------------------------------------------------------------------
(* How many regions there are: one for each key, and one for padding.      *)
Padding == IF workload.case.num_objects < Len(grid) THEN {<<"invalid-padding", 0>>} ELSE {}

LEMMA KeysOfLayout ==
  ASSUME Signed, NEW layout \in {"acl_signature", "merged_k", "oracle_authorized_view"}, NEW k
  PROVE  DOMAIN LayoutPlan(layout, k) =
           {LayoutKey(layout, k, workload.signature, grid, i) : i \in Objects} \cup Padding
<1> DEFINE key(i) == LayoutKey(layout, k, workload.signature, grid, i)
           N == workload.case.num_objects
<1>1. DOMAIN LayoutPlan(layout, k) = {key(i) : i \in Slots}
  BY Zenon DEF LayoutPlan, PlanOf, LayoutGroups, Slots
<1>2. \A i \in Slots : i \notin Objects => key(i) = <<"invalid-padding", 0>>
  BY SignedGrid DEF LayoutKey
<1>3. Objects \subseteq Slots
  BY SignedGrid
<1>4. (\E i \in Slots : i \notin Objects) <=> N < Len(grid)
  <2>1. /\ N \in Nat \ {0} /\ Len(grid) \in Nat /\ Slots = 1 .. Len(grid) /\ Objects = 1 .. N
        /\ N <= Len(grid)
    BY SignedGrid DEF Objects
  <2>2. N < Len(grid) => Len(grid) \in Slots /\ Len(grid) \notin Objects
    BY <2>1
  <2>3. \A i \in Slots : i \notin Objects => N < Len(grid)
    BY <2>1
  <2> QED BY <2>2, <2>3
<1> HIDE DEF key
<1>5. {key(i) : i \in Slots} = {key(i) : i \in Objects} \cup Padding
  BY <1>2, <1>3, <1>4 DEF Padding
<1> QED BY <1>1, <1>5 DEF key

(* Regions counted off by j, beside the one of padding.                    *)
LEMMA CountRegions ==
  ASSUME Signed, NEW K, IsFiniteSet(K), NEW n, Cardinality(K) = n, n \in Nat,
         <<"invalid-padding", 0>> \notin K
  PROVE  Cardinality(K \cup Padding) =
           n + IF workload.case.num_objects < Len(grid) THEN 1 ELSE 0
<1>1. CASE workload.case.num_objects < Len(grid)
  <2>1. K \cup Padding = K \cup {<<"invalid-padding", 0>>}
    BY <1>1 DEF Padding
  <2>2. Cardinality(K \cup Padding) = n + 1
    BY <2>1, FS_AddElement
  <2> QED BY <1>1, <2>2
<1>2. CASE ~ (workload.case.num_objects < Len(grid))
  <2>1. K \cup Padding = K
    BY <1>2 DEF Padding
  <2>2. Cardinality(K \cup Padding) = n
    BY <2>1, Zenon
  <2>3. n + 0 = n
    OBVIOUS
  <2> QED BY <1>2, <2>2, <2>3
<1> QED BY <1>1, <1>2

LEMMA SignatureRegions ==
  ASSUME Signed, NEW k
  PROVE  Cardinality(DOMAIN LayoutPlan("acl_signature", k)) =
           Cardinality(Used(workload.signature))
             + IF workload.case.num_objects < Len(grid) THEN 1 ELSE 0
<1> DEFINE f == workload.signature
           R == workload.case.num_roles
           N == workload.case.num_objects
           U == Used(f)
           name == [m \in U |-> <<"sig", MaskNumber(m)>>]
           K == {name[m] : m \in U}
<1>1. R \in Nat /\ N \in Nat \ {0} /\ f \in [1 .. N -> SUBSET (0 .. R - 1)]
  BY SignedGrid DEF Objects
<1>2. /\ IsFiniteSet(U) /\ Cardinality(U) \in Nat
      /\ \A l, m \in U : MaskNumber(l) = MaskNumber(m) => l = m
  <2> HIDE DEF f, R, N
  <2> QED BY <1>1, MasksAreRanked
<1>3. \A i \in Objects : LayoutKey("acl_signature", k, f, grid, i) = <<"sig", MaskNumber(f[i])>>
  BY SignedGrid DEF LayoutKey
<1>4. U = {f[i] : i \in Objects}
  BY <1>1 DEF Used, Objects
<1>5. {LayoutKey("acl_signature", k, f, grid, i) : i \in Objects} = K
  <2> HIDE DEF f
  <2>1. \A i \in Objects : LayoutKey("acl_signature", k, f, grid, i) = name[f[i]]
    BY <1>3, <1>4
  <2> HIDE DEF name, U
  <2> QED BY <1>4, <2>1
<1>6. <<"invalid-padding", 0>> \notin K
  OBVIOUS
<1>7. DOMAIN name = U /\ \A l, m \in U : name[l] = name[m] => l = m
  BY <1>2
<1>8. IsFiniteSet(K) /\ Cardinality(K) = Cardinality(U)
  <2> HIDE DEF name, U
  <2> QED BY <1>2, <1>7, SameSize
<1>9. DOMAIN LayoutPlan("acl_signature", k) = K \cup Padding
  BY <1>5, KeysOfLayout
<1> HIDE DEF K, U
<1> QED BY <1>2, <1>6, <1>8, <1>9, CountRegions DEF U

LEMMA MergedRegions ==
  ASSUME Signed, NEW k \in Nat \ {0}
  PROVE  Cardinality(DOMAIN LayoutPlan("merged_k", k)) =
           (Cardinality(Used(workload.signature)) - 1) \div k + 1
             + IF workload.case.num_objects < Len(grid) THEN 1 ELSE 0
<1> DEFINE f == workload.signature
           R == workload.case.num_roles
           N == workload.case.num_objects
           u == Cardinality(Used(f))
           last == (u - 1) \div k
           name == [j \in 0 .. last |-> <<"merged", j>>]
           K == {name[j] : j \in 0 .. last}
           key(i) == LayoutKey("merged_k", k, f, grid, i)
<1>1. R \in Nat /\ N \in Nat \ {0} /\ f \in [1 .. N -> SUBSET (0 .. R - 1)] /\ Objects = 1 .. N
  BY SignedGrid DEF Objects
<1>2. /\ u \in Nat \ {0}
      /\ \A m \in Used(f) : Rank(f, m) \in 0 .. u - 1
      /\ \A j \in 1 .. u : \E m \in Used(f) : Rank(f, m) = j - 1
  <2> HIDE DEF f, R, N
  <2> QED BY <1>1, MasksAreRanked
<1>3. \A i \in Objects : key(i) = <<"merged", Rank(f, f[i]) \div k>>
  BY SignedGrid DEF LayoutKey, MergedRegion, Rank
<1>4. \A i \in Objects : f[i] \in Used(f)
  BY <1>1 DEF Used
<1>5. \A m \in Used(f) : \E i \in Objects : f[i] = m
  BY <1>1 DEF Used
<1> HIDE DEF f, u, key
<1>6. u - 1 \in Nat /\ last \in Nat
  <2>1. u - 1 \in Nat
    BY <1>2
  <2> QED BY <2>1, DivMod
<1>7. ASSUME NEW i \in Objects PROVE key(i) \in K
  <2>1. Rank(f, f[i]) \in Nat /\ Rank(f, f[i]) <= u - 1
    BY <1>2, <1>4
  <2>2. Rank(f, f[i]) \div k <= last
    BY <1>6, <2>1, DivGrows
  <2>3. Rank(f, f[i]) \div k \in Nat
    BY <2>1, DivMod
  <2> DEFINE j == Rank(f, f[i]) \div k
  <2> HIDE DEF last, j
  <2>4. j \in 0 .. last /\ key(i) = <<"merged", j>>
    BY <1>3, <1>6, <2>2, <2>3 DEF j
  <2> QED BY <2>4
<1>8. ASSUME NEW j \in 0 .. last PROVE \E i \in Objects : key(i) = name[j]
  <2> DEFINE q == last
             r == (u - 1) % k
  <2>1. q \in Nat /\ r \in 0 .. k - 1 /\ u - 1 = k * q + r
    BY <1>6, DivMod
  <2> HIDE DEF q, r
  <2>2. j \in Nat /\ j <= q
    BY <1>6 DEF q
  <2>3. PICK d \in Nat : q = j + d
    <3>1. q - j \in Nat /\ q = j + (q - j)
      BY <2>1, <2>2
    <3> QED BY <3>1
  <2>4. k * q = j * k + k * d /\ j * k \in Nat /\ k * d \in Nat
    BY <2>2, <2>3
  <2> DEFINE x == j * k
             y == k * d
             z == k * q
  <2>5. x \in Nat /\ y \in Nat /\ z = x + y /\ u - 1 = z + r
    BY <2>1, <2>4
  <2> HIDE DEF x, y, z
  <2>6. x + 1 \in 1 .. u
    BY <1>2, <2>1, <2>5
  <2>7. PICK m \in Used(f) : Rank(f, m) = x
    <3> DEFINE place == x + 1
    <3>1. place \in 1 .. u /\ place - 1 = x
      BY <2>5, <2>6
    <3> HIDE DEF place
    <3> QED BY <1>2, <3>1
  <2>8. Rank(f, m) = j * k + 0
    BY <2>4, <2>5, <2>7 DEF x
  <2>9. (j * k + 0) \div k = j
    <3>1. 0 \in 0 .. k - 1
      OBVIOUS
    <3> QED BY <2>2, <3>1, DivModUnique
  <2>10. PICK i \in Objects : f[i] = m
    BY <1>5
  <2>11. key(i) = <<"merged", j>>
    BY <1>3, <2>8, <2>9, <2>10
  <2> QED BY <2>11
<1>9. \A i, j \in 0 .. last : name[i] = name[j] => i = j
  OBVIOUS
<1>10. <<"invalid-padding", 0>> \notin K
  OBVIOUS
<1>11. DOMAIN name = 0 .. last
  OBVIOUS
<1> HIDE DEF last, name
<1>12. {key(i) : i \in Objects} = K
  BY <1>7, <1>8
<1>13. IsFiniteSet(0 .. last) /\ Cardinality(0 .. last) = last + 1
  BY <1>6, IntervalSize
<1>14. IsFiniteSet(K) /\ Cardinality(K) = last + 1 /\ last + 1 \in Nat
  BY <1>6, <1>9, <1>11, <1>13, SameSize
<1>15. DOMAIN LayoutPlan("merged_k", k) = K \cup Padding
  BY <1>12, KeysOfLayout DEF key, f
<1> HIDE DEF K
<1>16. Cardinality(DOMAIN LayoutPlan("merged_k", k)) =
         last + 1 + IF workload.case.num_objects < Len(grid) THEN 1 ELSE 0
  BY <1>10, <1>14, <1>15, CountRegions
<1> QED BY <1>16 DEF last, u, f

(* The more signatures share a region, the less is stored.                 *)
LEMMA MergingStoresLess ==
  ASSUME Signed, NEW k \in Nat \ {0}
  PROVE  SaCommit("merged_k", k) <=
           SaCommit(IF k = 1 THEN "acl_signature" ELSE "merged_k", k - 1)
<1> DEFINE u == Cardinality(Used(workload.signature))
           pad == IF workload.case.num_objects < Len(grid) THEN 1 ELSE 0
           regions(layout, j) == Cardinality(DOMAIN LayoutPlan(layout, j))
           N == workload.case.num_objects
           s == workload.case.num_signatures
<1>1. N \in Nat \ {0} /\ s \in Nat /\ u \in Nat \ {0}
  <2>1. /\ workload.case.num_roles \in Nat /\ N \in Nat \ {0} /\ s \in Nat
        /\ workload.signature \in [1 .. N -> SUBSET (0 .. workload.case.num_roles - 1)]
    BY SignedGrid DEF Objects
  <2> HIDE DEF N, s
  <2> QED BY <2>1, MasksAreRanked
<1>2. regions("merged_k", k) = (u - 1) \div k + 1 + pad
  BY MergedRegions
<1>3. SaCommit("merged_k", k) = 50 * N + 1200 * regions("merged_k", k)
  BY DEF SaCommit, EstimateSaCommitment
<1>4. u - 1 \in Nat /\ pad \in Nat
  BY <1>1
<1>5. (u - 1) \div k \in Nat
  BY <1>4, DivMod
<1>6. CASE k = 1
  <2>1. regions("acl_signature", 0) = u + pad
    BY SignatureRegions
  <2>2. SaCommit("acl_signature", 0) = 50 * N + 200 * s + 1200 * regions("acl_signature", 0)
    BY DEF SaCommit, EstimateSaCommitment
  <2>3. (u - 1) \div 1 = u - 1
    BY <1>4
  <2> HIDE DEF u, pad, N, s, regions
  <2>4. regions("merged_k", 1) = u + pad
    BY <1>1, <1>2, <1>4, <1>6, <2>3
  <2>5. SaCommit("merged_k", 1) <= SaCommit("acl_signature", 0)
    BY <1>1, <1>3, <1>4, <1>6, <2>1, <2>2, <2>4
  <2> QED BY <1>6, <2>5
<1>7. CASE k # 1
  <2>1. k - 1 \in Nat \ {0} /\ k - 1 <= k
    BY <1>7
  <2>2. regions("merged_k", k - 1) = (u - 1) \div (k - 1) + 1 + pad
    BY <2>1, MergedRegions
  <2>3. SaCommit("merged_k", k - 1) = 50 * N + 1200 * regions("merged_k", k - 1)
    BY DEF SaCommit, EstimateSaCommitment
  <2>4. (u - 1) \div k <= (u - 1) \div (k - 1)
    BY <1>4, <2>1, DivGrows
  <2>5. (u - 1) \div (k - 1) \in Nat
    BY <1>4, <2>1, DivMod
  <2> DEFINE a == (u - 1) \div k
             b == (u - 1) \div (k - 1)
  <2> HIDE DEF u, pad, N, s, regions, a, b
  <2>6. /\ SaCommit("merged_k", k) = 50 * N + 1200 * (a + 1 + pad)
        /\ SaCommit("merged_k", k - 1) = 50 * N + 1200 * (b + 1 + pad)
        /\ a <= b /\ a \in Nat /\ b \in Nat
    BY <1>2, <1>3, <1>5, <2>2, <2>3, <2>4, <2>5 DEF a, b
  <2>7. SaCommit("merged_k", k) <= SaCommit("merged_k", k - 1)
    BY <1>1, <1>4, <2>6
  <2> QED BY <1>7, <2>7
<1> QED BY <1>6, <1>7

-----------------------------------------------------------------------------
(***************************************************************************)
(* No layout has a cheaper plan than the authorized view.                  *)
(***************************************************************************)
LEMMA PlanHasFloor ==
  ASSUME GridShape, Divided
  PROVE  /\ Cardinality(Valid) \in Nat /\ VisibleCount \in Nat
         /\ VisibleCount <= Cardinality(Valid)
         /\ EstimateProofPlanCost(plan).plan \in Int
         /\ EstimateProofPlanCost(plan).plan >=
              Floor(VisibleCount, Cardinality(Valid) - VisibleCount, Empty # {})
                + Cardinality(Valid)
<1> DEFINE D == DOMAIN plan
           n == Cardinality(Valid)
           cost == SumFunction([k \in D |-> RegionCost(plan[k])])
<1>1. PICK hv, hd, hc, hm :
           /\ hv[D] = n /\ hm[D] = VisibleCount
           /\ hv[D] \in Nat /\ hm[D] \in Nat /\ cost = hc[D]
           /\ \A K \in SUBSET D : hv[K] \in Nat
           /\ AddUp(D, Impure, Hidden, Lone, hv, hd, hc)
           /\ HasFloor(D, Empty, hv, hm, hc)
  BY EstimatesAreSums, Zenon
<1>2. D \cap Empty = Empty /\ D \cap Impure \in SUBSET D /\ D \ Impure \in SUBSET D
      /\ D \ Hidden \in SUBSET D
  BY DEF Empty
<1>3. IsFiniteSet(D)
  BY DEF Divided
<1>4. \A k \in D : plan[k].type \in Types
  BY ClassifiedTypes DEF Divided
<1>5. EstimateProofPlanCost(plan).plan = cost + n * 1
  BY <1>4, CostIsSum
<1>6. Cardinality(D \cap Impure) \in Nat /\ Cardinality(D \ Impure) \in Nat
  <2> HIDE DEF D
  <2> QED BY <1>2, <1>3, FS_Subset, FS_CardinalityType
<1>7. hv[D \cap Impure] \in Nat /\ hv[D \ Hidden] \in Nat
  BY <1>1, <1>2
<1> HIDE DEF D, n, cost
<1>8. cost \in Int
  BY <1>1, <1>6, <1>7 DEF AddUp
<1>9. VisibleCount <= n /\ cost >= Floor(VisibleCount, n - VisibleCount, Empty # {})
  BY <1>1, <1>2 DEF HasFloor
<1>10. n \in Nat /\ VisibleCount \in Nat
  BY <1>1
<1>11. Floor(VisibleCount, n - VisibleCount, Empty # {}) \in Int
  BY <1>10 DEF Floor
<1> DEFINE floor == Floor(VisibleCount, n - VisibleCount, Empty # {})
<1> HIDE DEF floor
<1>12. floor \in Int /\ cost >= floor
  BY <1>9, <1>11 DEF floor
<1>13. cost + n * 1 \in Int /\ cost + n * 1 >= floor + n
  BY <1>8, <1>10, <1>12
<1> QED BY <1>5, <1>9, <1>10, <1>13 DEF n, floor

(* The authorized view has at most three regions, with these costs.        *)
LEMMA RegionOfOracle ==
  ASSUME Signed, NEW r \in DOMAIN LayoutPlan("oracle_authorized_view", 0)
  PROVE  LET p == LayoutPlan("oracle_authorized_view", 0) IN
         /\ p[r].type \in Types
         /\ \/ /\ r = <<"oracle", 1>> /\ VisibleCount > 0
               /\ RegionCost(p[r]) = 5 + 10 * VisibleCount
            \/ /\ r = <<"oracle", 0>> /\ Cardinality(Valid) - VisibleCount > 0
               /\ RegionCost(p[r]) = 5
            \/ /\ r = <<"invalid-padding", 0>> /\ workload.case.num_objects < Len(grid)
               /\ RegionCost(p[r]) = 2
<1> DEFINE p == LayoutPlan("oracle_authorized_view", 0)
           key(i) == LayoutKey("oracle_authorized_view", 0, workload.signature, grid, i)
           g == LayoutGroups("oracle_authorized_view", 0, workload.signature, grid)
           seen == {i \in Valid : grid[i].visible}
           rest == {i \in Valid : ~ grid[i].visible}
           blank == {i \in Slots : ~ grid[i].valid}
<1>1. g = [k \in {key(i) : i \in Slots} |-> {i \in Slots : key(i) = k}]
  BY Zenon DEF LayoutGroups, Slots
<1>2. p = PlanOf(g)
  BY DEF LayoutPlan
<1>3. GridShape
  BY SignedGrid
<1>4. \A i \in Slots : key(i) = IF i \in seen THEN <<"oracle", 1>>
                               ELSE IF i \in rest THEN <<"oracle", 0>>
                               ELSE <<"invalid-padding", 0>>
  BY DEF LayoutKey, Valid
<1>5. seen \in SUBSET Valid /\ rest = Valid \ seen /\ blank = Slots \ Valid
      /\ Valid \in SUBSET Slots
  BY DEF Valid
<1>6. IsFiniteSet(Valid) /\ Cardinality(Valid) \in Nat
      /\ IsFiniteSet(seen) /\ Cardinality(seen) \in Nat
      /\ Cardinality(seen) <= Cardinality(Valid)
      /\ (Cardinality(seen) = Cardinality(Valid) => seen = Valid)
  <2>1. IsFiniteSet(Valid)
    BY <1>3, <1>5, SlotsAreFinite
  <2> HIDE DEF seen
  <2> QED BY <1>5, <2>1, FS_Subset, FS_CardinalityType
<1>7. VisibleCount = Cardinality(seen)
  BY DEF VisibleCount
<1> HIDE DEF key
<1>8. r \in DOMAIN g /\ r \in {key(i) : i \in Slots} /\ g[r] = {i \in Slots : key(i) = r}
  <2>1. DOMAIN p = DOMAIN g
    BY <1>2 DEF PlanOf
  <2> HIDE DEF p, g
  <2> QED BY <1>1, <2>1 DEF p
<1> DEFINE G == {i \in Slots : key(i) = r}
<1>9. p[r].type = ClassifyRegionType(G) /\ p[r].slots = InOrder(G)
  <2> HIDE DEF p, g
  <2> QED BY <1>2, <1>8 DEF PlanOf, MakeRegion
<1>10. ValidCount(p[r]) = Cardinality({i \in G : grid[i].valid})
  <2>1. G \subseteq Nat /\ IsFiniteSet(G)
    BY <1>3, SlotsAreFinite
  <2> DEFINE s == InOrder(G)
  <2> HIDE DEF G
  <2>2. /\ \A q \in DOMAIN s : s[q] \in G
        /\ \A i \in G : \E q \in DOMAIN s : s[q] = i
    BY <2>1, InOrderNames
  <2> HIDE DEF s
  <2>3. Range(s) = G
    BY <2>2 DEF Range
  <2> QED BY <1>9, <2>3 DEF ValidCount, s
<1>11. PICK i \in Slots : key(i) = r
  BY <1>8
<1>12. <<"oracle", 1>> # <<"oracle", 0>> /\ <<"oracle", 1>> # <<"invalid-padding", 0>>
       /\ <<"oracle", 0>> # <<"invalid-padding", 0>>
  OBVIOUS
<1>13. CASE i \in seen
  <2>1. r = <<"oracle", 1>>
    BY <1>4, <1>11, <1>13
  <2>2. G = seen /\ {j \in G : grid[j].valid} = seen
    BY <1>4, <1>5, <1>12, <2>1 DEF Valid
  <2>3. p[r].type = "pure_visible"
    BY <1>9, <1>13, <2>2 DEF ClassifyRegionType
  <2>4. seen # {} /\ Cardinality(seen) # 0
    BY <1>6, <1>13, FS_EmptySet
  <2>5. ValidCount(p[r]) = VisibleCount
    BY <1>7, <1>10, <2>2
  <2>6. RegionCost(p[r]) = 5 + 10 * VisibleCount
    <3> HIDE DEF p
    <3> QED BY <2>3, <2>5 DEF RegionCost
  <2>7. VisibleCount > 0
    BY <1>6, <1>7, <2>4
  <2> QED BY <2>1, <2>3, <2>6, <2>7 DEF Types
<1>14. CASE i \in rest
  <2>1. r = <<"oracle", 0>>
    BY <1>4, <1>11, <1>14
  <2>2. G = rest /\ {j \in G : grid[j].valid} = rest
    BY <1>4, <1>5, <1>12, <2>1 DEF Valid
  <2>3. p[r].type = "pure_invisible"
    BY <1>9, <1>14, <2>2 DEF ClassifyRegionType
  <2>4. Cardinality(Valid) - VisibleCount > 0
    <3>1. seen # Valid
      BY <1>14
    <3> HIDE DEF seen
    <3> QED BY <1>6, <1>7, <3>1
  <2>5. RegionCost(p[r]) = 5
    <3> HIDE DEF p
    <3> QED BY <2>3 DEF RegionCost
  <2> QED BY <2>1, <2>3, <2>4, <2>5 DEF Types
<1>15. CASE i \in blank
  <2>1. r = <<"invalid-padding", 0>>
    BY <1>4, <1>5, <1>11, <1>15
  <2>2. {j \in G : grid[j].valid} = {}
    BY <1>4, <1>5, <1>12, <2>1 DEF Valid
  <2>3. p[r].type = "impure"
    BY <1>9, <2>2 DEF ClassifyRegionType
  <2>4. ValidCount(p[r]) = 0
    BY <1>10, <2>2, FS_EmptySet
  <2>5. RegionCost(p[r]) = 2
    <3> HIDE DEF p
    <3> QED BY <2>3, <2>4 DEF RegionCost
  <2>6. workload.case.num_objects < Len(grid)
    BY <1>15, SignedGrid DEF Objects
  <2> QED BY <2>1, <2>3, <2>5, <2>6 DEF Types
<1> QED BY <1>5, <1>13, <1>14, <1>15

LEMMA OracleCostsFloor ==
  ASSUME Signed
  PROVE  /\ EstimateProofPlanCost(LayoutPlan("oracle_authorized_view", 0)).plan \in Int
         /\ EstimateProofPlanCost(LayoutPlan("oracle_authorized_view", 0)).plan <=
              Floor(VisibleCount, Cardinality(Valid) - VisibleCount,
                    workload.case.num_objects < Len(grid)) + Cardinality(Valid)
<1> DEFINE p == LayoutPlan("oracle_authorized_view", 0)
           D == DOMAIN p
           vis == VisibleCount
           n == Cardinality(Valid)
           padded == workload.case.num_objects < Len(grid)
           a == <<"oracle", 1>>
           b == <<"oracle", 0>>
           e == <<"invalid-padding", 0>>
           c == [k \in D |-> RegionCost(p[k])]
<1>1. \A k \in D : /\ p[k].type \in Types
                   /\ \/ k = a /\ vis > 0 /\ c[k] = 5 + 10 * vis
                      \/ k = b /\ n - vis > 0 /\ c[k] = 5
                      \/ k = e /\ padded /\ c[k] = 2
  <2> TAKE k \in D
  <2> HIDE DEF vis
  <2> QED BY RegionOfOracle DEF vis
<1>2. a # b /\ a # e /\ b # e
  OBVIOUS
<1>3. EstimateProofPlanCost(p).plan = SumFunction(c) + n * 1
  <2>1. \A k \in D : p[k].type \in Types
    BY <1>1
  <2> HIDE DEF p
  <2> QED BY <2>1, CostIsSum
<1>4. SumFunction(c) = SumFunctionOnSet(c, D)
  <2>1. DOMAIN c = D
    OBVIOUS
  <2> QED BY <2>1, Zenon DEF SumFunction
<1>5. n \in Nat /\ vis \in Nat
  <2>1. IsFiniteSet(Valid)
    <3>1. GridShape
      BY SignedGrid
    <3> QED BY <3>1, SlotsAreFinite DEF Valid
  <2>2. IsFiniteSet({i \in Valid : grid[i].visible})
    BY <2>1, FS_Subset
  <2> QED BY <2>1, <2>2, FS_CardinalityType DEF VisibleCount
<1> HIDE DEF p, D, c, a, b, e, vis, n, padded
<1>6. D \subseteq {a, b, e}
  BY <1>1
<1>7. IsFiniteSet(D)
  <2>1. IsFiniteSet({a, b, e})
    <3>1. {a, b, e} = ({a} \cup {b}) \cup {e}
      OBVIOUS
    <3>2. IsFiniteSet({a} \cup {b})
      BY FS_Singleton, FS_AddElement
    <3> QED BY <3>1, <3>2, FS_AddElement
  <2> QED BY <1>6, <2>1, FS_Subset
<1>8. PICK h : Sums(D, c, h)
  BY <1>7, SumExists
<1>9. SumFunctionOnSet(c, D) = h[D]
  BY <1>7, <1>8, SumFunctionIs
<1>10. \A k \in D : c[k] \in Nat
  BY <1>1, <1>5
<1>11. h[{}] = 0 /\ \A s \in SUBSET D : \A x \in s : h[s] = c[x] + h[s \ {x}]
  <2>1. Splits(D, c, h) /\ h[{}] = 0
    BY <1>7, <1>8, <1>10, SumSplits, SumIsNatural
  <2> QED BY <2>1 DEF Splits
<1> DEFINE D1 == D \ {a}
           D2 == D1 \ {b}
           D3 == D2 \ {e}
<1>12. D \in SUBSET D /\ D1 \in SUBSET D /\ D2 \in SUBSET D /\ D3 = {}
  BY <1>6
<1>13. h[D] = IF a \in D THEN c[a] + h[D1] ELSE h[D1]
  <2>1. CASE a \in D
    BY <1>11, <1>12, <2>1
  <2>2. CASE a \notin D
    <3>1. D1 = D
      BY <2>2
    <3> QED BY <2>2, <3>1
  <2> QED BY <2>1, <2>2
<1>14. h[D1] = IF b \in D THEN c[b] + h[D2] ELSE h[D2]
  <2>1. CASE b \in D
    <3>1. b \in D1
      BY <1>2, <2>1
    <3> HIDE DEF D1
    <3> QED BY <1>11, <1>12, <2>1, <3>1
  <2>2. CASE b \notin D
    <3>1. D2 = D1
      BY <2>2
    <3> QED BY <2>2, <3>1
  <2> QED BY <2>1, <2>2
<1>15. h[D2] = IF e \in D THEN c[e] + h[D3] ELSE h[D3]
  <2>1. CASE e \in D
    <3>1. e \in D2
      BY <1>2, <2>1
    <3> HIDE DEF D2
    <3> QED BY <1>11, <1>12, <2>1, <3>1
  <2>2. CASE e \notin D
    <3>1. D3 = D2
      BY <2>2
    <3> QED BY <2>2, <3>1
  <2> QED BY <2>1, <2>2
<1>16. h[D3] = 0
  BY <1>11, <1>12
<1>17. /\ a \in D => vis > 0 /\ c[a] = 5 + 10 * vis
       /\ b \in D => n - vis > 0 /\ c[b] = 5
       /\ e \in D => padded /\ c[e] = 2
  BY <1>1, <1>2
<1> DEFINE x == h[D]
           y == h[D1]
           z == h[D2]
<1>18. /\ (vis > 0 /\ x = 5 + 10 * vis + y) \/ x = y
       /\ (n - vis > 0 /\ y = 5 + z) \/ y = z
       /\ (padded /\ z = 2 + 0) \/ z = 0
  BY <1>13, <1>14, <1>15, <1>16, <1>17
<1> HIDE DEF x, y, z, D1, D2, D3
<1>19. x <= Floor(vis, n - vis, padded)
  BY <1>5, <1>18 DEF Floor
<1>20. x \in Int
  BY <1>5, <1>18
<1>21. Floor(vis, n - vis, padded) \in Int
  BY <1>5 DEF Floor
<1>22. x + n * 1 <= Floor(vis, n - vis, padded) + n /\ x + n * 1 \in Int
  BY <1>5, <1>19, <1>20, <1>21
<1> QED BY <1>3, <1>4, <1>9, <1>22 DEF x, vis, n, padded, p

LEMMA PaddingHasRegion ==
  ASSUME Signed, Divided, NEW layout, NEW k, plan = LayoutPlan(layout, k),
         layout \in {"acl_signature", "merged_k", "oracle_authorized_view"},
         workload.case.num_objects < Len(grid)
  PROVE  Empty # {}
<1> DEFINE e == <<"invalid-padding", 0>>
<1>1. GridShape
  BY SignedGrid
<1> HIDE DEF e
<1>0. KeyedBy(layout, k)
  BY <1>1, LayoutsAreKeyed
<1>2. e \in DOMAIN plan
  <2>1. e \in Padding
    BY DEF Padding, e
  <2> QED BY <2>1, KeysOfLayout DEF e
<1>3. ValidPart(e) = {}
  <2> SUFFICES ASSUME NEW i \in Named(e), grid[i].valid PROVE FALSE
    BY DEF ValidPart
  <2>1. i \in Slots /\ LayoutKey(layout, k, workload.signature, grid, i) = e
    BY <1>0, <1>2 DEF KeyedBy
  <2> QED BY <2>1 DEF LayoutKey, e
<1>4. ValidCount(plan[e]) = 0
  BY <1>1, <1>2, <1>3, RegionIsPriced, FS_EmptySet
<1> QED BY <1>2, <1>4 DEF Empty

LEMMA OracleIsCheapest ==
  ASSUME Signed, Divided, NEW k,
         NEW layout \in {"global", "acl_signature", "merged_k", "oracle_authorized_view"},
         plan = LayoutPlan(layout, k)
  PROVE  EstimateProofPlanCost(LayoutPlan("oracle_authorized_view", 0)).plan <=
           EstimateProofPlanCost(plan).plan
             + (IF layout = "global" /\ Cardinality(Valid) < Len(grid) THEN 2 ELSE 0)
<1> DEFINE n == Cardinality(Valid)
           vis == VisibleCount
           padded == n < Len(grid)
           oracle == EstimateProofPlanCost(LayoutPlan("oracle_authorized_view", 0)).plan
           cost == EstimateProofPlanCost(plan).plan
           empty == Empty # {}
<1>1. n = workload.case.num_objects
  <2>1. Valid = 1 .. workload.case.num_objects /\ workload.case.num_objects \in Nat
    BY SignedVisible, SignedGrid DEF Objects
  <2> QED BY <2>1, IntervalSize
<1>2. oracle \in Int /\ oracle <= Floor(vis, n - vis, padded) + n
  BY <1>1, OracleCostsFloor
<1>3. n \in Nat /\ vis \in Nat /\ cost \in Int /\ cost >= Floor(vis, n - vis, empty) + n
  BY SignedGrid, PlanHasFloor
<1>4. padded /\ layout # "global" => empty
  BY <1>1, PaddingHasRegion
<1> HIDE DEF n, vis, padded, oracle, cost, empty
<1>6. Floor(vis, n - vis, padded) \in Int /\ Floor(vis, n - vis, empty) \in Int
  BY <1>3 DEF Floor
<1>7. Floor(vis, n - vis, padded) <=
        Floor(vis, n - vis, empty) + (IF layout = "global" /\ padded THEN 2 ELSE 0)
  BY <1>3, <1>4 DEF Floor
<1> DEFINE x == Floor(vis, n - vis, padded)
           y == Floor(vis, n - vis, empty)
           z == IF layout = "global" /\ padded THEN 2 ELSE 0
<1>8. x \in Int /\ y \in Int /\ z \in Int /\ x <= y + z /\ oracle <= x + n /\ cost >= y + n
  BY <1>2, <1>3, <1>6, <1>7
<1> HIDE DEF x, y, z
<1>9. oracle <= cost + z
  BY <1>2, <1>3, <1>8
<1> QED BY <1>9 DEF oracle, cost, z, padded, n

-----------------------------------------------------------------------------
LInv ==
  /\ EInv
  /\ workload.kind = "signature" =>
       /\ Signed
       /\ pc = "planned" => Divided /\ plan = LayoutPlan(workload.layout, workload.merged_k)

LEMMA InitSigned ==
  ASSUME Init, workload.kind = "signature" PROVE Signed
<1>1. SignatureInit
  <2>1. ~ FreeInit
    BY DEF FreeInit
  <2>2. ~ SweepInit
    <3> SUFFICES ASSUME SweepInit PROVE FALSE
      OBVIOUS
    <3>1. \E w : workload = [kind |-> "sweep", case |-> w]
      BY Zenon DEF SweepInit
    <3> QED BY <3>1
  <2> QED BY <2>1, <2>2 DEF Init
<1> DEFINE Case(c, f, role, l) ==
             /\ workload = [kind |-> "signature", case |-> c, signature |-> f,
                            role |-> role, layout |-> l[1], merged_k |-> l[2]]
             /\ grid = AccessSignatureGrid(c, PlacedDims(c, GridDims(c)), f, role)
<1>0. PICK c \in SignatureCases : \E f \in SignatureAssignments(c),
        role \in Roles(c), l \in Layouts(c) : Case(c, f, role, l)
  BY <1>1, Zenon DEF SignatureInit
<1>2. PICK f \in SignatureAssignments(c), role \in Roles(c), l \in Layouts(c) :
        Case(c, f, role, l)
  BY <1>0
<1>3. /\ workload.case = c /\ workload.signature = f /\ workload.role = role
      /\ workload.layout = l[1] /\ workload.merged_k = l[2]
  BY <1>2
<1>4. l = <<l[1], l[2]>>
  <2>1. l \in ({"global", "acl_signature", "oracle_authorized_view"} \X {0})
                \cup ({"merged_k"} \X (1 .. c.num_signatures))
    BY <1>2 DEF Layouts
  <2> QED BY <2>1
<1> QED BY <1>2, <1>3, <1>4 DEF Signed

LEMMA SameSigned ==
  ASSUME UNCHANGED <<grid, workload>>
  PROVE  /\ Signed' <=> Signed
         /\ LayoutPlan(workload.layout, workload.merged_k)' =
              LayoutPlan(workload.layout, workload.merged_k)
<1>1. Signed' <=> Signed
  BY DEF Signed
<1> DEFINE g == LayoutGroups(workload.layout, workload.merged_k, workload.signature, grid)
<1>2. g' = g
  OBVIOUS
<1> HIDE DEF g
<1>3. PlanOf(g)' = PlanOf(g)
  BY <1>2 DEF PlanOf, MakeRegion, ClassifyRegionType, InOrder
<1> QED BY <1>1, <1>3 DEF LayoutPlan, g

LEMMA PromiseHolds ==
  ASSUME LInv PROVE LayoutsKeepTheirPromise
<1> SUFFICES ASSUME workload.kind = "signature", pc = "planned"
             PROVE  LayoutsKeepTheirPromise
  BY DEF LayoutsKeepTheirPromise
<1> DEFINE layout == workload.layout
           k == workload.merged_k
<1>1. Signed /\ Divided /\ plan = LayoutPlan(layout, k)
  BY DEF LInv
<1>2. /\ layout \in {"global", "acl_signature", "merged_k", "oracle_authorized_view"}
      /\ layout = "merged_k" => k \in Nat \ {0}
  <2>1. <<layout, k>> \in ({"global", "acl_signature", "oracle_authorized_view"} \X {0})
                           \cup ({"merged_k"} \X (1 .. workload.case.num_signatures))
    BY <1>1 DEF Signed, Layouts
  <2>2. workload.case.num_signatures \in Nat
    BY <1>1, SignedGrid
  <2> QED BY <2>1, <2>2
<1>3. VisibleCount = Cardinality({o \in DOMAIN workload.signature :
            ObjectVisibleForRole(workload.signature[o], workload.role)})
  BY <1>1, SignedVisible
<1>4. (layout \in {"acl_signature", "oracle_authorized_view"}
         \/ (layout = "merged_k" /\ k = 1)) => \A r \in DOMAIN plan : Pure(r)
  BY <1>1, SeparatedRegionsArePure DEF Separates
<1>5. layout = "merged_k" =>
        SaCommit("merged_k", k) <= SaCommit(IF k = 1 THEN "acl_signature"
                                            ELSE "merged_k", k - 1)
  BY <1>1, <1>2, MergingStoresLess
<1>6. EstimateProofPlanCost(LayoutPlan("oracle_authorized_view", 0)).plan <=
        EstimateProofPlanCost(plan).plan
          + (IF layout = "global" /\ Cardinality(Valid) < Len(grid) THEN 2 ELSE 0)
  BY <1>1, <1>2, OracleIsCheapest
<1> QED BY <1>3, <1>4, <1>5, <1>6, Zenon DEF LayoutsKeepTheirPromise

(* What the layouts promise, for every workload of access signatures: the  *)
(* plan sees exactly the objects whose signature has the role of the query,*)
(* no region of one signature is mixed, merging more signatures stores no  *)
(* more, and no layout has a cheaper plan than the authorized view, but    *)
(* for the certificate of padding.  (build_access_signature_workload,      *)
(* build_layout_proof_plan, estimate_sa_commitment)                        *)
THEOREM LayoutsHold == Spec => []LayoutsKeepTheirPromise
<1>1. Init => LInv
  <2> SUFFICES ASSUME Init PROVE LInv
    OBVIOUS
  <2>1. pc = "plan"
    BY DEF Init, PlanInit
  <2> QED BY <2>1, InitHInv, InitSigned DEF EInv, LInv
<1>2. LInv /\ [Next]_vars => LInv'
  <2> SUFFICES ASSUME LInv, [Next]_vars PROVE LInv'
    OBVIOUS
  <2>1. EInv'
    BY EInvIsInductive DEF LInv
  <2>2. UNCHANGED workload
    BY DEF Next, vars
  <2> SUFFICES ASSUME workload.kind = "signature"
               PROVE  /\ Signed'
                      /\ (pc = "planned")' =>
                           Divided' /\ plan' = LayoutPlan(workload.layout, workload.merged_k)'
    BY <2>1, <2>2 DEF LInv
  <2>3. Signed
    BY DEF LInv
  <2>4. CASE BuildLayoutProofPlan
    <3>1. UNCHANGED <<grid, workload>> /\ plan' = LayoutPlan(workload.layout, workload.merged_k)
      BY <2>2, <2>4 DEF BuildLayoutProofPlan
    <3>2. Divided'
      BY <2>4, BuildLayoutDivides DEF LInv, EInv
    <3> QED BY <2>3, <3>1, <3>2, SameSigned
  <2>5. CASE ValidateProofPlan \/ Compare
    <3>1. UNCHANGED <<grid, workload>> /\ pc' # "planned"
      BY <2>2, <2>5 DEF ValidateProofPlan, Compare
    <3> QED BY <2>3, <3>1, SameSigned
  <2>6. CASE UNCHANGED vars
    <3>1. UNCHANGED <<grid, plan, pc, workload>>
      BY <2>6 DEF vars, planVars
    <3> QED BY <2>3, <3>1, SameSigned, SamePlanDivides DEF LInv
  <2> QED
    BY <2>4, <2>5, <2>6
       DEF Next, BuildAndCompareProofPlan, EvaluateCase, EvaluateLayout
<1>3. LInv => LayoutsKeepTheirPromise
  BY PromiseHolds
<1> QED
  BY <1>1, <1>2, <1>3, PTL DEF Spec

-----------------------------------------------------------------------------
(***************************************************************************)
(* The workloads of the sweep.  Whichever way the visible slots are dealt  *)
(* out, each unit gets no more than it has, and all together get what was  *)
(* asked for; the positions in a unit are so many different ones.          *)
(***************************************************************************)
LEMMA ClampIs ==
  ASSUME NEW a \in Int, NEW b \in Int
  PROVE  Max({0, Min({a, b})}) = IF a <= b THEN (IF 0 <= a THEN a ELSE 0)
                                           ELSE (IF 0 <= b THEN b ELSE 0)
<1> DEFINE m == IF a <= b THEN a ELSE b
           c == IF 0 <= m THEN m ELSE 0
           low == {a, b}
           high == {0, m}
<1>1. m \in low /\ m \in Int /\ \A y \in low : m <= y
  OBVIOUS
<1>2. \A y \in low : (\A z \in low : y <= z) => y = m
  BY <1>1
<1>3. Min(low) = m
  <2> HIDE DEF low, m
  <2>1. Min(low) = CHOOSE y \in low : \A z \in low : y <= z
    BY Zenon DEF Min
  <2> QED BY <1>1, <1>2, <2>1
<1> HIDE DEF m
<1>4. c \in high /\ \A y \in high : c >= y
  BY <1>1
<1>5. \A y \in high : (\A z \in high : y >= z) => y = c
  BY <1>1, <1>4
<1>6. Max(high) = c
  <2> HIDE DEF high, c
  <2>1. Max(high) = CHOOSE y \in high : \A z \in high : y >= z
    BY Zenon DEF Max
  <2> QED BY <1>4, <1>5, <2>1
<1>7. Max({0, Min({a, b})}) = c
  BY <1>3, <1>6, Zenon
<1> QED BY <1>7 DEF m

LEMMA EveryNatural ==
  ASSUME NEW T, 0 \in T, \A n \in Nat : n \in T => n + 1 \in T
  PROVE  \A n \in Nat : n \in T
<1> DEFINE bad == {n \in Nat : n \notin T}
<1> SUFFICES ASSUME bad # {} PROVE FALSE
  OBVIOUS
<1>1. PICK n \in bad : \A k \in bad : n <= k
  BY LeastNatural
<1>2. n # 0
  BY <1>1
<1>3. n - 1 \in Nat /\ ~ (n <= n - 1)
  BY <1>1, <1>2
<1>4. n - 1 \in T
  BY <1>1, <1>3
<1>5. n - 1 + 1 = n /\ n - 1 + 1 \in T
  BY <1>1, <1>3, <1>4
<1> QED BY <1>1, <1>5

(* What is iterated exists, and stays where every step keeps it.           *)
Iterates(x, step, k, f) == f = [j \in 0 .. k |-> IF j = 0 THEN x ELSE step[j - 1][f[j - 1]]]

LEMMA IterationExists ==
  ASSUME NEW x, NEW step PROVE \A k \in Nat : \E f : Iterates(x, step, k, f)
<1> DEFINE T == {k \in Nat : \E f : Iterates(x, step, k, f)}
<1>1. 0 \in T
  <2> DEFINE f == [j \in 0 .. 0 |-> x]
             g == [j \in 0 .. 0 |-> IF j = 0 THEN x ELSE step[j - 1][f[j - 1]]]
  <2>1. \A j \in 0 .. 0 : j = 0
    OBVIOUS
  <2>2. f = g
    BY <2>1
  <2> QED BY <2>2 DEF Iterates
<1>2. ASSUME NEW k \in Nat, k \in T PROVE k + 1 \in T
  <2>1. PICK f : f = [j \in 0 .. k |-> IF j = 0 THEN x ELSE step[j - 1][f[j - 1]]]
    BY <1>2 DEF Iterates
  <2> DEFINE cell(h, j) == IF j = 0 THEN x ELSE step[j - 1][h[j - 1]]
             g == [j \in 0 .. k + 1 |-> cell(f, j)]
  <2>2. \A j \in 0 .. k : j \in 0 .. k + 1 /\ g[j] = f[j]
    <3>1. \A j \in 0 .. k : j \in 0 .. k + 1
      OBVIOUS
    <3>2. \A j \in 0 .. k : f[j] = cell(f, j)
      BY <2>1
    <3> HIDE DEF cell
    <3> QED BY <3>1, <3>2
  <2>3. ASSUME NEW j \in 0 .. k + 1 PROVE cell(f, j) = cell(g, j)
    <3>1. CASE j = 0
      BY <3>1
    <3>2. CASE j # 0
      <4>1. j - 1 \in 0 .. k
        BY <3>2
      <4>2. g[j - 1] = f[j - 1]
        BY <2>2, <4>1
      <4> HIDE DEF g
      <4> QED BY <3>2, <4>2
    <3> QED BY <3>1, <3>2
  <2> DEFINE e == [j \in 0 .. k + 1 |-> cell(g, j)]
  <2>4. DOMAIN g = DOMAIN e /\ \A j \in 0 .. k + 1 : g[j] = e[j]
    <3> HIDE DEF cell
    <3> QED BY <2>3
  <2>5. g = e
    <3> HIDE DEF cell
    <3> QED BY <2>4
  <2>6. Iterates(x, step, k + 1, g)
    BY <2>5, Zenon DEF Iterates
  <2> HIDE DEF g, e
  <2> QED BY <2>6
<1> HIDE DEF T
<1>3. \A k \in Nat : k \in T
  BY <1>1, <1>2, EveryNatural
<1> QED BY <1>3 DEF T

LEMMA IterationStays ==
  ASSUME NEW k \in Nat, NEW x, NEW step, NEW I,
         x \in I[0], \A j \in 1 .. k : \A y \in I[j - 1] : step[j - 1][y] \in I[j]
  PROVE  Iterated(x, step, k) \in I[k]
<1> DEFINE f == CHOOSE h : Iterates(x, step, k, h)
<1>1. Iterates(x, step, k, f)
  BY IterationExists, Zenon
<1>2. Iterated(x, step, k) = f[k]
  BY Zenon DEF Iterated, Iterates
<1> HIDE DEF f
<1> DEFINE T == {j \in Nat : j <= k => f[j] \in I[j]}
<1>3. 0 \in T
  <2>1. 0 \in 0 .. k
    OBVIOUS
  <2> QED BY <1>1, <2>1 DEF Iterates
<1>4. ASSUME NEW j \in Nat, j \in T PROVE j + 1 \in T
  <2> SUFFICES ASSUME j + 1 <= k PROVE f[j + 1] \in I[j + 1]
    OBVIOUS
  <2>1. j + 1 \in 1 .. k /\ j + 1 \in 0 .. k /\ j + 1 # 0 /\ j + 1 - 1 = j /\ j <= k
    OBVIOUS
  <2>2. f[j] \in I[j]
    BY <1>4, <2>1
  <2>3. step[j][f[j]] \in I[j + 1]
    BY <2>1, <2>2
  <2>4. f[j + 1] = step[j][f[j]]
    <3> DEFINE e == j + 1
               term(i) == IF i = 0 THEN x ELSE step[i - 1][f[i - 1]]
    <3>1. f = [i \in 0 .. k |-> term(i)]
      BY <1>1, Zenon DEF Iterates
    <3>2. term(e) = step[e - 1][f[e - 1]] /\ e \in 0 .. k /\ e - 1 = j
      BY <2>1
    <3> HIDE DEF term, e
    <3>3. f[e] = term(e)
      BY <3>1, <3>2
    <3>4. f[e] = step[j][f[j]]
      BY <3>2, <3>3
    <3> QED BY <3>4 DEF e
  <2> QED BY <2>3, <2>4
<1> HIDE DEF T
<1>5. k \in T
  BY <1>3, <1>4, EveryNatural
<1>6. f[k] \in I[k]
  BY <1>5 DEF T
<1> QED BY <1>2, <1>6

(* A total may be taken apart at any term.                                 *)
LEMMA TotalIs ==
  ASSUME NEW U, IsFiniteSet(U), NEW f, \A x \in U : f[x] \in Nat
  PROVE  /\ SumFunctionOnSet(f, {}) = 0
         /\ \A s \in SUBSET U :
              /\ SumFunctionOnSet(f, s) \in Nat
              /\ \A x \in s : /\ SumFunctionOnSet(f, s) = f[x] + SumFunctionOnSet(f, s \ {x})
                              /\ SumFunctionOnSet(f, s \ {x}) \in Nat
<1>1. PICK h : Sums(U, f, h)
  BY SumExists
<1>2. \A s \in SUBSET U : SumFunctionOnSet(f, s) = h[s]
  BY <1>1, SumFunctionIs
<1>3. h[{}] = 0 /\ \A s \in SUBSET U : h[s] \in Nat
  BY <1>1, SumIsNatural
<1>4. \A s \in SUBSET U : \A x \in s : h[s] = f[x] + h[s \ {x}]
  <2>1. Splits(U, f, h)
    BY <1>1, SumSplits
  <2> QED BY <2>1 DEF Splits
<1>5. \A s \in SUBSET U : \A x : s \ {x} \in SUBSET U
  OBVIOUS
<1>6. {} \in SUBSET U
  OBVIOUS
<1> QED BY <1>2, <1>3, <1>4, <1>5, <1>6

LEMMA TotalsAdd ==
  ASSUME NEW U, IsFiniteSet(U), NEW f, NEW g, NEW e,
         \A x \in U : f[x] \in Nat /\ g[x] \in Nat /\ e[x] = f[x] + g[x]
  PROVE  SumFunctionOnSet(e, U) = SumFunctionOnSet(f, U) + SumFunctionOnSet(g, U)
<1> DEFINE F(s) == SumFunctionOnSet(f, s)
           G(s) == SumFunctionOnSet(g, s)
           E(s) == SumFunctionOnSet(e, s)
           bad == {s \in SUBSET U : E(s) # F(s) + G(s)}
<1>0. \A x \in U : e[x] \in Nat
  OBVIOUS
<1>1. /\ F({}) = 0 /\ G({}) = 0 /\ E({}) = 0
      /\ \A s \in SUBSET U : \A x \in s : /\ F(s) = f[x] + F(s \ {x}) /\ F(s \ {x}) \in Nat
                                          /\ G(s) = g[x] + G(s \ {x}) /\ G(s \ {x}) \in Nat
                                          /\ E(s) = e[x] + E(s \ {x}) /\ E(s \ {x}) \in Nat
  BY <1>0, TotalIs
<1> HIDE DEF F, G, E
<1>2. bad = {}
  <2> SUFFICES ASSUME bad # {} PROVE FALSE
    OBVIOUS
  <2>1. PICK s \in bad : \A x \in s : s \ {x} \notin bad
    BY LeastSubset
  <2>2. s \in SUBSET U /\ s # {}
    BY <1>1
  <2>3. PICK x \in s : x \in U
    BY <2>2
  <2> DEFINE r == s \ {x}
  <2>4. r \in SUBSET U /\ r \notin bad
    BY <2>1, <2>2
  <2>5. E(r) = F(r) + G(r)
    BY <2>4
  <2>6. F(s) = f[x] + F(r) /\ G(s) = g[x] + G(r) /\ E(s) = e[x] + E(r)
    BY <1>1, <2>2
  <2>7. F(r) \in Nat /\ G(r) \in Nat /\ f[x] \in Nat /\ g[x] \in Nat /\ e[x] = f[x] + g[x]
    BY <1>1, <2>2, <2>3
  <2>8. E(s) = F(s) + G(s)
    <3> HIDE DEF r, bad
    <3> QED BY <2>5, <2>6, <2>7
  <2> QED BY <2>8
<1>3. U \notin bad
  BY <1>2
<1> QED BY <1>3 DEF F, G, E

LEMMA TotalsAgree ==
  ASSUME NEW U, IsFiniteSet(U), NEW f, NEW g, \A x \in U : f[x] \in Nat /\ g[x] = f[x]
  PROVE  SumFunctionOnSet(g, U) = SumFunctionOnSet(f, U)
<1> DEFINE z == [x \in U |-> 0]
<1>0. \A x \in U : z[x] = 0
  OBVIOUS
<1> HIDE DEF z
<1>1. \A x \in U : f[x] \in Nat /\ z[x] \in Nat /\ g[x] = f[x] + z[x] /\ f[x] = f[x] + z[x]
  BY <1>0
<1> DEFINE F == SumFunctionOnSet(f, U)
           Z == SumFunctionOnSet(z, U)
<1>2. SumFunctionOnSet(g, U) = F + Z
  BY <1>1, TotalsAdd
<1>3. SumFunctionOnSet(f, U) = F + Z
  BY <1>1, TotalsAdd
<1> QED BY <1>2, <1>3

(* Ranking by descending keys.                                             *)
LEMMA RankingIsOrder ==
  ASSUME NEW U, U \subseteq Nat, NEW key \in [U -> Nat]
  PROVE  /\ \A u \in U : Ahead(key, u) \in SUBSET U /\ u \notin Ahead(key, u)
         /\ \A u, v \in U : u # v => u \in Ahead(key, v) \/ v \in Ahead(key, u)
         /\ \A u, v \in U : u \in Ahead(key, v) => v \notin Ahead(key, u)
         /\ \A u, v, x \in U : u \in Ahead(key, v) /\ v \in Ahead(key, x) => u \in Ahead(key, x)
<1>1. DOMAIN key = U /\ \A u \in U : key[u] \in Nat /\ u \in Nat
  OBVIOUS
<1>2. \A u, v \in U : u \in Ahead(key, v) <=> key[u] > key[v] \/ (key[u] = key[v] /\ u < v)
  BY <1>1 DEF Ahead
<1>3. \A u \in U : Ahead(key, u) \in SUBSET U
  BY <1>1 DEF Ahead
<1> QED BY <1>1, <1>2, <1>3

LastOf(key, s, x) == s \ {x} \subseteq Ahead(key, x)

LEMMA LastExists ==
  ASSUME NEW U, U \subseteq Nat, IsFiniteSet(U), NEW key \in [U -> Nat]
  PROVE  \A s \in SUBSET U : s # {} => \E x \in s : LastOf(key, s, x)
<1> DEFINE Hindmost(x, r) == x \in r /\ r \ {x} \subseteq Ahead(key, x)
           bad == {r \in SUBSET U : r # {} /\ \A x \in r : ~ Hindmost(x, r)}
<1>1. bad = {}
  <2> SUFFICES ASSUME bad # {} PROVE FALSE
    OBVIOUS
  <2>1. PICK r \in bad : \A x \in r : r \ {x} \notin bad
    BY LeastSubset
  <2>2. PICK y \in r : y \in U
    OBVIOUS
  <2>3. CASE r \ {y} = {}
    <3>1. Hindmost(y, r)
      BY <2>2, <2>3
    <3> QED BY <2>2, <3>1
  <2>4. CASE r \ {y} # {}
    <3>1. r \ {y} \in SUBSET U /\ r \ {y} \notin bad
      BY <2>1, <2>2
    <3>2. PICK x \in r \ {y} : Hindmost(x, r \ {y})
      BY <2>4, <3>1
    <3>3. x \in U /\ x # y /\ x \in r
      BY <2>2, <3>2
    <3>4. CASE y \in Ahead(key, x)
      <4>1. Hindmost(x, r)
        BY <3>2, <3>3, <3>4
      <4> QED BY <3>3, <4>1
    <3>5. CASE x \in Ahead(key, y)
      <4>1. \A v \in r : v # y => v \in Ahead(key, y)
        <5> SUFFICES ASSUME NEW v \in r, v # y, v # x PROVE v \in Ahead(key, y)
          BY <3>5
        <5>1. v \in Ahead(key, x) /\ v \in U
          BY <3>2
        <5> QED BY <2>2, <3>3, <3>5, <5>1, RankingIsOrder
      <4>2. Hindmost(y, r)
        BY <2>2, <4>1
      <4> QED BY <2>2, <4>2
    <3> QED BY <2>2, <3>3, <3>4, <3>5, RankingIsOrder
  <2> QED BY <2>3, <2>4
<1>2. \A s \in SUBSET U : s \notin bad
  BY <1>1
<1> QED BY <1>2 DEF LastOf

(* What is shared out is the total, and nobody gets more than it can take. *)
LEMMA SharesAddUp ==
  ASSUME NEW U, U \subseteq Nat, IsFiniteSet(U), NEW key \in [U -> Nat], NEW total \in Nat,
         total <= SumFunctionOnSet(key, U)
  PROVE  /\ Shares(key, total) \in [U -> Nat]
         /\ \A u \in U : Shares(key, total)[u] <= key[u]
         /\ SumFunctionOnSet(Shares(key, total), U) = total
<1> DEFINE K(s) == SumFunctionOnSet(key, s)
           share == Shares(key, total)
           H(s) == SumFunctionOnSet(share, s)
<1>1. /\ K({}) = 0
      /\ \A s \in SUBSET U :
           /\ K(s) \in Nat
           /\ \A x \in s : K(s) = key[x] + K(s \ {x}) /\ K(s \ {x}) \in Nat
  BY TotalIs
<1>2. \A u \in U : Ahead(key, u) \in SUBSET U
  BY RankingIsOrder
<1>12. \A s \in SUBSET U : s # {} => \E x \in s : LastOf(key, s, x)
  BY LastExists
<1> DEFINE part(u) == Max({0, Min({key[u], total - K(Ahead(key, u))})})
<1>3. share = [u \in U |-> part(u)]
  BY Zenon DEF Shares
<1> HIDE DEF K
<1>4. ASSUME NEW u \in U
      PROVE  part(u) = IF key[u] <= total - K(Ahead(key, u))
                       THEN (IF 0 <= key[u] THEN key[u] ELSE 0)
                       ELSE (IF 0 <= total - K(Ahead(key, u)) THEN total - K(Ahead(key, u)) ELSE 0)
  <2>1. K(Ahead(key, u)) \in Nat
    BY <1>1, <1>2
  <2>2. key[u] \in Int /\ total - K(Ahead(key, u)) \in Int
    BY <2>1
  <2> QED BY <2>2, ClampIs
<1> HIDE DEF part
<1>5. ASSUME NEW u \in U PROVE part(u) \in Nat /\ part(u) <= key[u]
  <2>1. K(Ahead(key, u)) \in Nat /\ key[u] \in Nat
    BY <1>1, <1>2
  <2> DEFINE d == total - K(Ahead(key, u))
  <2>2. d \in Int
    BY <2>1
  <2>3. part(u) = IF key[u] <= d THEN (IF 0 <= key[u] THEN key[u] ELSE 0)
                                 ELSE (IF 0 <= d THEN d ELSE 0)
    BY <1>4
  <2> HIDE DEF d
  <2> QED BY <2>1, <2>2, <2>3
<1>6. share \in [U -> Nat] /\ \A u \in U : share[u] = part(u)
  BY <1>3, <1>5
<1> HIDE DEF share
<1>7. /\ H({}) = 0
      /\ \A s \in SUBSET U : \A x \in s : H(s) = share[x] + H(s \ {x}) /\ H(s \ {x}) \in Nat
  BY <1>6, TotalIs
<1> HIDE DEF H
<1> DEFINE Closed(s) == \A u \in s : Ahead(key, u) \subseteq s
           Least(s) == IF total <= K(s) THEN total ELSE K(s)
           bad == {s \in SUBSET U : Closed(s) /\ H(s) # Least(s)}
<1>8. bad = {}
  <2> SUFFICES ASSUME bad # {} PROVE FALSE
    OBVIOUS
  <2> HIDE DEF Closed, Least
  <2>0. bad \in SUBSET (SUBSET U)
    OBVIOUS
  <2>1. PICK s \in bad : \A x \in s : s \ {x} \notin bad
    <3> HIDE DEF bad
    <3> QED BY <2>0, LeastSubset
  <2>2. s \in SUBSET U /\ Closed(s) /\ H(s) # Least(s)
    OBVIOUS
  <2>12. \A q \in SUBSET U : Closed(q) /\ q \notin bad => H(q) = Least(q)
    OBVIOUS
  <2> HIDE DEF bad
  <2>3. s # {}
    BY <1>1, <1>7, <2>2 DEF Least
  <2>13. s \in SUBSET U
    BY <2>2
  <2>4. PICK x \in s : s \ {x} \subseteq Ahead(key, x)
    BY <1>12, <2>3, <2>13 DEF LastOf
  <2> DEFINE r == s \ {x}
  <2>5. x \in U /\ r \in SUBSET U
    BY <2>2
  <2>6. Ahead(key, x) = r
    <3>1. Ahead(key, x) \subseteq s
      BY <2>2 DEF Closed
    <3>2. x \notin Ahead(key, x)
      BY <2>5, RankingIsOrder
    <3> QED BY <2>4, <3>1, <3>2
  <2>7. Closed(r)
    <3> SUFFICES ASSUME NEW u \in r PROVE Ahead(key, u) \subseteq r
      BY DEF Closed
    <3>1. u \in U /\ u \in Ahead(key, x) /\ Ahead(key, u) \subseteq s
      BY <2>2, <2>4 DEF Closed
    <3>2. x \notin Ahead(key, u)
      BY <2>5, <3>1, RankingIsOrder
    <3> QED BY <3>1, <3>2
  <2>8. H(r) = Least(r)
    BY <2>1, <2>5, <2>7, <2>12
  <2>9. /\ K(s) = key[x] + K(r) /\ K(r) \in Nat /\ key[x] \in Nat
        /\ H(s) = share[x] + H(r)
    BY <1>1, <1>7, <2>2, <2>5
  <2>10. share[x] = IF key[x] <= total - K(r) THEN (IF 0 <= key[x] THEN key[x] ELSE 0)
                    ELSE (IF 0 <= total - K(r) THEN total - K(r) ELSE 0)
    BY <1>4, <1>6, <2>5, <2>6
  <2>11. H(s) = Least(s)
    <3> HIDE DEF r
    <3> QED BY <2>8, <2>9, <2>10 DEF Least
  <2> QED BY <2>2, <2>11
<1>9. Closed(U)
  BY <1>2
<1>10. H(U) = Least(U)
  BY <1>8, <1>9
<1>11. Least(U) = total
  BY <1>1 DEF K
<1> QED BY <1>5, <1>6, <1>10, <1>11 DEF share, H

LEMMA MinOfTwo ==
  ASSUME NEW a \in Int, NEW b \in Int
  PROVE  Min({a, b}) = IF a <= b THEN a ELSE b
<1> DEFINE m == IF a <= b THEN a ELSE b
           low == {a, b}
<1>1. m \in low /\ \A y \in low : m <= y
  OBVIOUS
<1>2. \A y \in low : (\A z \in low : y <= z) => y = m
  BY <1>1
<1>3. Min(low) = m
  <2> HIDE DEF low, m
  <2>1. Min(low) = CHOOSE y \in low : \A z \in low : y <= z
    BY Zenon DEF Min
  <2> QED BY <1>1, <1>2, <2>1
<1> QED BY <1>3

(* The units lie side by side: unit u reaches from E[u - 1] to E[u].       *)
Tiles(units, n, E) ==
  /\ n \in Nat /\ DOMAIN units = 1 .. n /\ Len(units) = n
  /\ E \in [0 .. n -> Nat] /\ E[0] = 0
  /\ \A u \in 1 .. n : /\ E[u - 1] < E[u]
                       /\ units[u].from = E[u - 1] /\ units[u].size = E[u] - E[u - 1]

LEMMA TimesGrows ==
  ASSUME NEW a \in Nat, NEW b \in Nat, NEW s \in Nat, a <= b
  PROVE  a * s <= b * s /\ a * s \in Nat /\ b * s \in Nat
<1>1. PICK d \in Nat : b = a + d
  <2>1. b - a \in Nat /\ b = a + (b - a)
    OBVIOUS
  <2> QED BY <2>1
<1>2. b * s = a * s + d * s /\ d * s \in Nat /\ a * s \in Nat
  BY <1>1
<1> DEFINE A == a * s
           B == b * s
           D == d * s
<1>3. B = A + D /\ D \in Nat /\ A \in Nat
  BY <1>2
<1> HIDE DEF A, B, D
<1>4. A <= B /\ A \in Nat /\ B \in Nat
  BY <1>3
<1> QED BY <1>4 DEF A, B

UnitSize(w) == IF w.grouping = "fixed_block" THEN w.block_size ELSE w.slot_per_list
UnitCount(w) == (w.n_valid + UnitSize(w) - 1) \div UnitSize(w)
UnitEnds(w) ==
  [u \in 0 .. UnitCount(w) |->
     IF u * UnitSize(w) <= w.n_valid THEN u * UnitSize(w) ELSE w.n_valid]

LEMMA UnitsTile ==
  ASSUME NEW w, w.n_valid \in Nat, UnitSize(w) \in Nat \ {0}
  PROVE  /\ Tiles(ClusterUnits(w), UnitCount(w), UnitEnds(w))
         /\ UnitEnds(w)[UnitCount(w)] = w.n_valid
<1> DEFINE size == UnitSize(w)
           N == w.n_valid
           n == (N + size - 1) \div size
           E == [u \in 0 .. n |-> IF u * size <= N THEN u * size ELSE N]
           cell(u) == [from |-> (u - 1) * size,
                       size |-> Min({u * size, N}) - (u - 1) * size]
           units == [u \in 1 .. n |-> cell(u)]
<1>1. ClusterUnits(w) = units
  BY Zenon DEF ClusterUnits, UnitSize
<1>2. UnitCount(w) = n /\ UnitEnds(w) = E
  BY Zenon DEF UnitCount, UnitEnds
<1>3. size \in Nat \ {0} /\ N \in Nat /\ N + size - 1 \in Nat
  OBVIOUS
<1> HIDE DEF size, N
<1>4. n \in Nat /\ \E r \in 0 .. size - 1 : N + size - 1 = size * n + r
  BY <1>3, DivMod
<1>5. PICK r \in 0 .. size - 1 : N + size - 1 = size * n + r
  BY <1>4
<1> HIDE DEF n
<1>6. n * size \in Nat /\ size * n = n * size
  BY <1>3, <1>4
<1>7. N <= n * size /\ n * size - size <= N - 1
  <2> DEFINE p == n * size
  <2>1. p \in Nat /\ N + size - 1 = p + r
    BY <1>5, <1>6
  <2> HIDE DEF p
  <2>2. N <= p /\ p - size <= N - 1
    BY <1>3, <2>1
  <2> QED BY <2>2 DEF p
<1>8. ASSUME NEW u \in 1 .. n
      PROVE  /\ (u - 1) * size \in Nat /\ u * size \in Nat
             /\ u * size = (u - 1) * size + size /\ (u - 1) * size < N
  <2>1. u - 1 \in Nat /\ n - 1 \in Nat /\ u - 1 <= n - 1 /\ u \in Nat
    BY <1>4
  <2>2. (u - 1) * size <= (n - 1) * size /\ (u - 1) * size \in Nat
    BY <1>3, <2>1, TimesGrows
  <2>3. (n - 1) * size = n * size - size
    BY <1>3, <1>4, <2>1
  <2>4. u * size = (u - 1) * size + size
    BY <1>3, <2>1
  <2> DEFINE a == (u - 1) * size
             b == n * size
             c == u * size
  <2>5. a <= b - size /\ b - size <= N - 1 /\ a \in Nat /\ b \in Nat /\ c = a + size
    BY <1>6, <1>7, <2>2, <2>3, <2>4
  <2> HIDE DEF a, b, c
  <2>6. a < N /\ a \in Nat /\ c \in Nat /\ c = a + size
    BY <1>3, <2>5
  <2> QED BY <2>6 DEF a, c
<1>9. \A u \in 0 .. n : u * size \in Nat
  <2> TAKE u \in 0 .. n
  <2>1. u \in Nat
    BY <1>4
  <2> QED BY <1>3, <2>1, TimesGrows
<1>10. E \in [0 .. n -> Nat] /\ \A u \in 0 .. n : E[u] = IF u * size <= N THEN u * size ELSE N
  <2>1. \A u \in 0 .. n : (IF u * size <= N THEN u * size ELSE N) \in Nat
    BY <1>3, <1>9
  <2> QED BY <2>1
<1> HIDE DEF E
<1>11. E[0] = 0
  <2>1. 0 \in 0 .. n /\ 0 * size = 0
    BY <1>3, <1>4
  <2> QED BY <1>3, <1>10, <2>1
<1>12. E[n] = N
  <2>1. n \in 0 .. n
    BY <1>4
  <2>2. E[n] = IF n * size <= N THEN n * size ELSE N
    BY <1>10, <2>1
  <2> DEFINE p == n * size
  <2>3. p \in Nat /\ N <= p /\ E[n] = IF p <= N THEN p ELSE N
    BY <1>6, <1>7, <2>2
  <2> HIDE DEF p
  <2> QED BY <1>3, <2>3
<1>13. ASSUME NEW u \in 1 .. n
       PROVE  /\ E[u - 1] < E[u]
              /\ units[u].from = E[u - 1] /\ units[u].size = E[u] - E[u - 1]
  <2>1. u \in 0 .. n /\ u - 1 \in 0 .. n
    BY <1>4
  <2> DEFINE a == (u - 1) * size
             c == u * size
  <2>2. a \in Nat /\ c \in Nat /\ c = a + size /\ a < N
    BY <1>8
  <2>3. /\ E[u - 1] = IF a <= N THEN a ELSE N
        /\ E[u] = IF c <= N THEN c ELSE N
    BY <1>10, <2>1
  <2>4. units[u] = [from |-> a, size |-> Min({c, N}) - a]
    OBVIOUS
  <2> HIDE DEF a, c, units
  <2>5. Min({c, N}) = IF c <= N THEN c ELSE N
    BY <1>3, <2>2, MinOfTwo
  <2> QED BY <1>3, <2>2, <2>3, <2>4, <2>5
<1>14. DOMAIN units = 1 .. n /\ Len(units) = n
  <2> HIDE DEF cell
  <2>1. units = [u \in 1 .. n |-> units[u]]
    OBVIOUS
  <2> HIDE DEF units
  <2> QED BY <1>4, <2>1, ListShape
<1> HIDE DEF units
<1>15. Tiles(units, n, E) /\ E[n] = N
  BY <1>4, <1>10, <1>11, <1>12, <1>13, <1>14 DEF Tiles
<1> QED BY <1>1, <1>2, <1>15 DEF N

(* What adds up step by step is the total.                                 *)
LEMMA PrefixTotals ==
  ASSUME NEW n \in Nat, NEW f \in [1 .. n -> Nat], NEW P,
         P[0] = 0, \A u \in 1 .. n : P[u] = P[u - 1] + f[u]
  PROVE  SumFunctionOnSet(f, 1 .. n) = P[n]
<1> DEFINE F(s) == SumFunctionOnSet(f, s)
           T == {u \in Nat : u <= n => F(1 .. u) = P[u]}
<1>0. IsFiniteSet(1 .. n) /\ \A x \in 1 .. n : f[x] \in Nat
  <2>1. 1 \in Int /\ n \in Int
    OBVIOUS
  <2> QED BY <2>1, FS_Interval
<1>1. /\ F({}) = 0
      /\ \A s \in SUBSET (1 .. n) : \A x \in s : F(s) = f[x] + F(s \ {x}) /\ F(s \ {x}) \in Nat
  BY <1>0, TotalIs
<1> HIDE DEF F
<1>2. 0 \in T
  <2>1. 1 .. 0 = {}
    OBVIOUS
  <2> QED BY <1>1, <2>1
<1>3. ASSUME NEW u \in Nat, u \in T PROVE u + 1 \in T
  <2> SUFFICES ASSUME u + 1 <= n PROVE F(1 .. u + 1) = P[u + 1]
    OBVIOUS
  <2>1. u + 1 \in 1 .. n /\ u + 1 - 1 = u /\ u <= n
    OBVIOUS
  <2>2. (1 .. u + 1) \ {u + 1} = 1 .. u
    OBVIOUS
  <2>3. 1 .. u + 1 \in SUBSET (1 .. n) /\ u + 1 \in 1 .. u + 1
    OBVIOUS
  <2> DEFINE s == 1 .. u + 1
             x == u + 1
  <2>7. s \in SUBSET (1 .. n) /\ x \in s /\ s \ {x} = 1 .. u
    BY <2>2, <2>3
  <2> HIDE DEF s, x
  <2>8. F(s) = f[x] + F(s \ {x}) /\ F(s \ {x}) \in Nat
    BY <1>1, <2>7
  <2>4. F(1 .. u + 1) = f[u + 1] + F(1 .. u) /\ F(1 .. u) \in Nat
    BY <2>7, <2>8 DEF s, x
  <2>5. F(1 .. u) = P[u]
    BY <1>3, <2>1
  <2>6. P[u + 1] = P[u] + f[u + 1] /\ f[u + 1] \in Nat
    BY <2>1
  <2> QED BY <2>4, <2>5, <2>6
<1> HIDE DEF T
<1>4. n \in T
  BY <1>2, <1>3, EveryNatural
<1>5. F(1 .. n) = P[n]
  BY <1>4 DEF T
<1> QED BY <1>5 DEF F

(* Counts of visible slots that fit the units and are k in all.            *)
Counted(c, units, n, k) ==
  /\ c \in [1 .. n -> Nat]
  /\ \A u \in 1 .. n : c[u] <= units[u].size
  /\ SumFunctionOnSet(c, 1 .. n) = k

LEMMA SizesAddUp ==
  ASSUME NEW units, NEW n, NEW E, Tiles(units, n, E)
  PROVE  /\ IsFiniteSet(1 .. n) /\ 1 .. n \subseteq Nat /\ E[n] \in Nat
         /\ \A u \in 1 .. n : /\ units[u].size \in Nat \ {0} /\ units[u].from \in Nat
                              /\ Cap(units, u) = units[u].size
         /\ SumFunctionOnSet([u \in 1 .. n |-> units[u].size], 1 .. n) = E[n]
<1>1. n \in Nat /\ E \in [0 .. n -> Nat] /\ E[0] = 0
  BY DEF Tiles
<1>2. IsFiniteSet(1 .. n) /\ 1 .. n \subseteq Nat
  <2>1. 1 \in Int /\ n \in Int
    BY <1>1
  <2> QED BY <1>1, <2>1, FS_Interval
<1>3. ASSUME NEW u \in 1 .. n
      PROVE  /\ units[u].size \in Nat \ {0} /\ units[u].from \in Nat
             /\ E[u] = E[u - 1] + units[u].size /\ E[u] \in Nat /\ E[u - 1] \in Nat
  <2>1. E[u - 1] < E[u] /\ units[u].from = E[u - 1] /\ units[u].size = E[u] - E[u - 1]
    BY DEF Tiles
  <2>2. u \in 0 .. n /\ u - 1 \in 0 .. n
    BY <1>1
  <2>3. E[u] \in Nat /\ E[u - 1] \in Nat
    BY <1>1, <2>2
  <2> DEFINE a == E[u - 1]
             b == E[u]
             z == units[u].size
  <2>4. a \in Nat /\ b \in Nat /\ a < b /\ z = b - a
    BY <2>1, <2>3
  <2> HIDE DEF a, b, z
  <2>5. z \in Nat \ {0} /\ b = a + z
    BY <2>4
  <2> QED BY <2>1, <2>3, <2>5 DEF a, b, z
<1> DEFINE f == [u \in 1 .. n |-> units[u].size]
<1>4. f \in [1 .. n -> Nat] /\ \A u \in 1 .. n : f[u] = units[u].size
  BY <1>3
<1> HIDE DEF f
<1>5. SumFunctionOnSet(f, 1 .. n) = E[n]
  <2>1. \A u \in 1 .. n : E[u] = E[u - 1] + f[u]
    BY <1>3, <1>4
  <2> QED BY <1>1, <1>4, <2>1, PrefixTotals
<1>6. E[n] \in Nat
  <2>1. n \in 0 .. n
    BY <1>1
  <2> QED BY <1>1, <2>1
<1> QED BY <1>2, <1>3, <1>5, <1>6 DEF f, Cap

LEMMA ClusteredCounted ==
  ASSUME NEW units, NEW n, NEW E, Tiles(units, n, E), NEW k \in Nat, k <= E[n]
  PROVE  /\ Counted(UnitVisibleCountsClustered(units, k), units, n, k)
         /\ \A u \in 1 .. n : UnitVisibleCountsClustered(units, k)[u] =
              IF E[u] <= k THEN E[u] - E[u - 1] ELSE IF E[u - 1] <= k THEN k - E[u - 1] ELSE 0
<1> DEFINE part(u) == Max({0, Min({Cap(units, u), k - Before(units, u)})})
           c == UnitVisibleCountsClustered(units, k)
           most(u) == IF E[u] <= k THEN E[u] - E[u - 1]
                      ELSE IF E[u - 1] <= k THEN k - E[u - 1] ELSE 0
<1>1. n \in Nat /\ DOMAIN units = 1 .. n /\ E \in [0 .. n -> Nat] /\ E[0] = 0
  BY DEF Tiles
<1>2. c = [u \in 1 .. n |-> part(u)]
  BY <1>1, Zenon DEF UnitVisibleCountsClustered
<1> HIDE DEF c
<1>3. ASSUME NEW u \in 1 .. n
      PROVE  /\ part(u) = most(u) /\ E[u] \in Nat /\ E[u - 1] \in Nat /\ E[u - 1] < E[u]
             /\ units[u].size = E[u] - E[u - 1]
  <2>1. E[u - 1] < E[u] /\ units[u].from = E[u - 1] /\ units[u].size = E[u] - E[u - 1]
    BY DEF Tiles
  <2>2. u \in 0 .. n /\ u - 1 \in 0 .. n
    BY <1>1
  <2>3. E[u] \in Nat /\ E[u - 1] \in Nat
    BY <1>1, <2>2
  <2> DEFINE a == E[u - 1]
             b == E[u]
  <2>4. Cap(units, u) = b - a /\ Before(units, u) = a
    BY <2>1 DEF Cap, Before
  <2>5. a \in Nat /\ b \in Nat /\ a < b
    BY <2>1, <2>3
  <2>6. part(u) = Max({0, Min({b - a, k - a})})
    BY <2>4, Zenon
  <2> HIDE DEF a, b, part
  <2>7. b - a \in Int /\ k - a \in Int
    BY <2>5
  <2>8. part(u) = IF b - a <= k - a THEN (IF 0 <= b - a THEN b - a ELSE 0)
                                    ELSE (IF 0 <= k - a THEN k - a ELSE 0)
    BY <2>6, <2>7, ClampIs
  <2>9. part(u) = IF b <= k THEN b - a ELSE IF a <= k THEN k - a ELSE 0
    BY <2>5, <2>8
  <2>10. part(u) = most(u)
    BY <2>9 DEF a, b
  <2> QED BY <2>1, <2>3, <2>10
<1> HIDE DEF part
<1> DEFINE P == [u \in 0 .. n |-> IF E[u] <= k THEN E[u] ELSE k]
<1>4. ASSUME NEW u \in 1 .. n
      PROVE  /\ most(u) \in Nat /\ most(u) <= units[u].size /\ P[u] = P[u - 1] + most(u)
  <2> DEFINE a == E[u - 1]
             b == E[u]
  <2>1. u \in 0 .. n /\ u - 1 \in 0 .. n
    BY <1>1
  <2>2. P[u] = (IF b <= k THEN b ELSE k) /\ P[u - 1] = (IF a <= k THEN a ELSE k)
    BY <2>1
  <2>3. most(u) = IF b <= k THEN b - a ELSE IF a <= k THEN k - a ELSE 0
    OBVIOUS
  <2>4. a \in Nat /\ b \in Nat /\ a < b /\ units[u].size = b - a
    BY <1>3
  <2> HIDE DEF a, b, most, P
  <2> QED BY <2>2, <2>3, <2>4
<1>5. c \in [1 .. n -> Nat] /\ \A u \in 1 .. n : c[u] = most(u)
  <2>1. \A u \in 1 .. n : part(u) = most(u) /\ part(u) \in Nat
    BY <1>3, <1>4
  <2> HIDE DEF most
  <2> QED BY <1>2, <2>1
<1>6. P[0] = 0 /\ P[n] = k
  <2>1. 0 \in 0 .. n /\ n \in 0 .. n
    BY <1>1
  <2>2. E[n] \in Nat
    BY <1>1, <2>1
  <2> QED BY <1>1, <2>1, <2>2
<1>7. \A u \in 1 .. n : P[u] = P[u - 1] + c[u] /\ c[u] <= units[u].size
  BY <1>4, <1>5
<1> HIDE DEF P
<1>8. SumFunctionOnSet(c, 1 .. n) = k
  BY <1>1, <1>5, <1>6, <1>7, PrefixTotals
<1>9. Counted(c, units, n, k)
  BY <1>5, <1>7, <1>8 DEF Counted
<1> QED BY <1>5, <1>9 DEF c

LEMMA OneTerm ==
  ASSUME NEW U, IsFiniteSet(U), NEW f, \A y \in U : f[y] \in Nat, NEW x \in U
  PROVE  /\ SumFunctionOnSet(f, U) = f[x] + SumFunctionOnSet(f, U \ {x})
         /\ SumFunctionOnSet(f, U \ {x}) \in Nat
<1>1. U \in SUBSET U
  OBVIOUS
<1> QED BY <1>1, TotalIs

(* One more for a unit is one more in all.                                 *)
LEMMA OneMore ==
  ASSUME NEW U, IsFiniteSet(U), NEW f \in [U -> Nat], NEW x \in U,
         NEW g \in [U -> Nat], g = [f EXCEPT ![x] = @ + 1]
  PROVE  SumFunctionOnSet(g, U) = SumFunctionOnSet(f, U) + 1
<1> DEFINE r == U \ {x}
<1>1. IsFiniteSet(r) /\ r \in SUBSET U /\ U \in SUBSET U
  BY FS_Subset
<1>2. \A y \in r : f[y] \in Nat /\ g[y] = f[y]
  OBVIOUS
<1>3. g[x] = f[x] + 1 /\ f[x] \in Nat
  OBVIOUS
<1>4. SumFunctionOnSet(g, r) = SumFunctionOnSet(f, r)
  BY <1>1, <1>2, TotalsAgree
<1>5. /\ SumFunctionOnSet(f, U) = f[x] + SumFunctionOnSet(f, r)
      /\ SumFunctionOnSet(g, U) = g[x] + SumFunctionOnSet(g, r)
      /\ SumFunctionOnSet(f, r) \in Nat
  <2>1. (\A y \in U : f[y] \in Nat) /\ (\A y \in U : g[y] \in Nat)
    OBVIOUS
  <2>2. /\ SumFunctionOnSet(f, U) = f[x] + SumFunctionOnSet(f, r)
        /\ SumFunctionOnSet(f, r) \in Nat
    BY <2>1, OneTerm
  <2>3. SumFunctionOnSet(g, U) = g[x] + SumFunctionOnSet(g, r)
    BY <2>1, OneTerm
  <2> QED BY <2>2, <2>3
<1> DEFINE a == SumFunctionOnSet(f, r)
           b == SumFunctionOnSet(g, r)
           A == SumFunctionOnSet(f, U)
           B == SumFunctionOnSet(g, U)
<1>6. a = b /\ A = f[x] + a /\ B = g[x] + b /\ a \in Nat
  BY <1>4, <1>5
<1> HIDE DEF a, b, A, B
<1>7. B = A + 1
  BY <1>3, <1>6
<1> QED BY <1>7 DEF A, B

LEMMA DealtOut ==
  ASSUME NEW units, NEW n, NEW E, Tiles(units, n, E), NEW k \in Nat, k < E[n],
         NEW d, Counted(d.counts, units, n, k), d.turn \in 1 .. n
  PROVE  /\ Counted(Deal(units, d).counts, units, n, k + 1)
         /\ Deal(units, d).turn \in 1 .. n
<1> DEFINE U == 1 .. n
           distance(u) == (u + n - d.turn) % n
           roomy == {u \in U : d.counts[u] < Cap(units, u)}
           next == CHOOSE u \in roomy : \A v \in roomy : distance(u) <= distance(v)
           c == d.counts
           g == [c EXCEPT ![next] = @ + 1]
<1>1. n \in Nat /\ DOMAIN units = 1 .. n /\ Len(units) = n
  BY DEF Tiles
<1>2. /\ IsFiniteSet(U) /\ U \subseteq Nat
      /\ \A u \in U : units[u].size \in Nat \ {0} /\ Cap(units, u) = units[u].size
      /\ SumFunctionOnSet([u \in U |-> units[u].size], U) = E[n]
  BY SizesAddUp
<1>3. c \in [U -> Nat] /\ (\A u \in U : c[u] <= units[u].size) /\ SumFunctionOnSet(c, U) = k
  BY DEF Counted
<1>4. Deal(units, d) = [counts |-> g, turn |-> (next % n) + 1]
  BY <1>1, Zenon DEF Deal
<1>5. roomy # {}
  <2> SUFFICES ASSUME roomy = {} PROVE FALSE
    OBVIOUS
  <2> DEFINE f == [u \in U |-> units[u].size]
  <2>1. \A u \in U : c[u] \in Nat /\ f[u] = c[u]
    <3> TAKE u \in U
    <3>1. ~ (c[u] < units[u].size)
      BY <1>2
    <3>2. c[u] \in Nat /\ c[u] <= units[u].size /\ units[u].size \in Nat /\ f[u] = units[u].size
      BY <1>2, <1>3
    <3> HIDE DEF f, c
    <3> QED BY <3>1, <3>2
  <2> HIDE DEF f, c
  <2>2. SumFunctionOnSet(f, U) = SumFunctionOnSet(c, U)
    BY <1>2, <2>1, TotalsAgree
  <2> QED BY <1>2, <1>3, <2>2 DEF f
<1>6. n \in Nat \ {0}
  BY <1>1
<1>7. \A u \in U : distance(u) \in Nat
  <2> TAKE u \in U
  <2>1. u + n - d.turn \in Nat
    BY <1>6
  <2> DEFINE a == u + n - d.turn
  <2> HIDE DEF a
  <2>2. a % n \in 0 .. n - 1
    BY <1>6, <2>1, DivMod DEF a
  <2> QED BY <2>2 DEF a
<1> HIDE DEF distance
<1>8. next \in roomy
  <2> DEFINE far == {distance(u) : u \in roomy}
  <2>1. far \subseteq Nat /\ far # {}
    BY <1>5, <1>7
  <2>2. PICK m \in far : \A q \in far : m <= q
    <3> HIDE DEF far
    <3> QED BY <2>1, LeastNatural
  <2>3. \E u \in roomy : \A v \in roomy : distance(u) <= distance(v)
    BY <2>2
  <2> HIDE DEF roomy
  <2> QED BY <2>3, Zenon
<1> HIDE DEF next
<1>9. next \in U /\ c[next] + 1 <= units[next].size /\ c[next] \in Nat
  <2>1. next \in U /\ c[next] < units[next].size /\ c[next] \in Nat
    BY <1>2, <1>3, <1>8
  <2>2. units[next].size \in Nat
    BY <1>2, <2>1
  <2> HIDE DEF c, U
  <2> QED BY <2>1, <2>2
<1> HIDE DEF c
<1>10. g \in [U -> Nat] /\ \A u \in U : g[u] <= units[u].size
  BY <1>3, <1>9
<1>11. SumFunctionOnSet(g, U) = k + 1
  <2> HIDE DEF g
  <2>1. g = [c EXCEPT ![next] = @ + 1]
    BY DEF g
  <2> QED BY <1>2, <1>3, <1>9, <1>10, <2>1, OneMore
<1>12. (next % n) + 1 \in 1 .. n
  <2>1. next \in Nat
    BY <1>9
  <2>2. next % n \in 0 .. n - 1
    BY <1>6, <2>1, DivMod
  <2> QED BY <1>6, <2>2
<1> HIDE DEF g
<1>13. Counted(g, units, n, k + 1)
  BY <1>10, <1>11 DEF Counted
<1>14. Deal(units, d).counts = g /\ Deal(units, d).turn = (next % n) + 1
  BY <1>4
<1> QED BY <1>12, <1>13, <1>14

(* Nobody holds more than there is.                                        *)
LEMMA TermIsLess ==
  ASSUME NEW U, IsFiniteSet(U), NEW f, \A y \in U : f[y] \in Nat, NEW x \in U
  PROVE  f[x] <= SumFunctionOnSet(f, U)
<1> DEFINE A == SumFunctionOnSet(f, U)
           b == SumFunctionOnSet(f, U \ {x})
<1>1. A = f[x] + b /\ b \in Nat /\ f[x] \in Nat
  BY OneTerm
<1> HIDE DEF A, b
<1>2. f[x] <= A
  BY <1>1
<1> QED BY <1>2 DEF A

LEMMA SpreadCounted ==
  ASSUME NEW units, NEW n, NEW E, Tiles(units, n, E), NEW k \in Nat, k <= E[n]
  PROVE  Counted(UnitVisibleCountsSpread(units, k), units, n, k)
<1> DEFINE U == 1 .. n
           none == [u \in U |-> 0]
           first == [counts |-> none, turn |-> 1]
           deals == [counts : [U -> 0 .. k], turn : U]
           step == [j \in 0 .. k - 1 |-> [d \in deals |-> Deal(units, d)]]
           Dealt(j) == {d \in [counts : [U -> Nat], turn : Nat] :
                          Counted(d.counts, units, n, j) /\ (n # 0 => d.turn \in U)}
           I == [j \in 0 .. k |-> Dealt(j)]
<1>1. n \in Nat /\ DOMAIN units = U
  BY DEF Tiles
<1>2. UnitVisibleCountsSpread(units, k) = Iterated(first, step, k).counts
  BY <1>1, Zenon DEF UnitVisibleCountsSpread
<1>3. /\ IsFiniteSet(U) /\ U \subseteq Nat /\ E[n] \in Nat
      /\ \A u \in U : units[u].size \in Nat \ {0}
  BY SizesAddUp
<1>4. first \in I[0]
  <2>1. 0 \in 0 .. k
    OBVIOUS
  <2>2. none \in [U -> Nat] /\ \A u \in U : none[u] = 0
    OBVIOUS
  <2>3. \A u \in U : none[u] <= units[u].size
    BY <1>3, <2>2
  <2>4. SumFunctionOnSet(none, U) = 0
    <3> DEFINE P == [u \in 0 .. n |-> 0]
    <3>1. P[0] = 0 /\ P[n] = 0 /\ \A u \in 1 .. n : P[u] = P[u - 1] + none[u]
      BY <1>1
    <3> HIDE DEF P, none
    <3> QED BY <1>1, <2>2, <3>1, PrefixTotals
  <2> HIDE DEF none
  <2>5. Counted(none, units, n, 0)
    BY <2>2, <2>3, <2>4 DEF Counted
  <2>6. n # 0 => 1 \in U
    BY <1>1
  <2>7. first \in [counts : [U -> Nat], turn : Nat] /\ first.counts = none /\ first.turn = 1
    BY <2>2
  <2> HIDE DEF first, U
  <2>8. first \in Dealt(0)
    BY <2>5, <2>6, <2>7
  <2> HIDE DEF Dealt
  <2> QED BY <2>1, <2>8
<1>5. ASSUME NEW j \in 1 .. k, NEW d \in I[j - 1] PROVE step[j - 1][d] \in I[j]
  <2>1. j - 1 \in 0 .. k /\ j \in 0 .. k /\ j - 1 \in 0 .. k - 1 /\ j - 1 \in Nat /\ j - 1 < k
        /\ j - 1 + 1 = j
    OBVIOUS
  <2>2. d \in Dealt(j - 1)
    <3> HIDE DEF Dealt
    <3> QED BY <1>5, <2>1
  <2>3. /\ d.counts \in [U -> Nat] /\ d.turn \in Nat /\ d = [counts |-> d.counts, turn |-> d.turn]
        /\ Counted(d.counts, units, n, j - 1) /\ (n # 0 => d.turn \in U)
    BY <2>2
  <2>4. n # 0
    <3> SUFFICES ASSUME n = 0 PROVE FALSE
      OBVIOUS
    <3>1. E[n] = 0
      BY DEF Tiles
    <3> QED BY <2>1, <3>1
  <2>5. j - 1 < E[n]
    BY <1>3, <2>1
  <2>6. d.turn \in U
    BY <2>3, <2>4
  <2>7. Counted(Deal(units, d).counts, units, n, j) /\ Deal(units, d).turn \in U
    BY <2>1, <2>3, <2>5, <2>6, DealtOut
  <2>8. ASSUME NEW u \in U PROVE d.counts[u] \in 0 .. k
    <3>1. SumFunctionOnSet(d.counts, U) = j - 1 /\ \A y \in U : d.counts[y] \in Nat
      BY <2>3 DEF Counted
    <3>2. d.counts[u] <= SumFunctionOnSet(d.counts, U)
      BY <1>3, <3>1, TermIsLess
    <3>3. d.counts[u] \in Nat /\ d.counts[u] <= j - 1
      BY <3>1, <3>2
    <3> QED BY <2>1, <3>3
  <2>9. d \in deals
    BY <2>3, <2>6, <2>8
  <2> HIDE DEF deals
  <2>10. step[j - 1][d] = Deal(units, d)
    BY <2>1, <2>9
  <2> DEFINE e == Deal(units, d)
  <2>11. e = [counts |-> e.counts, turn |-> e.turn]
    <3>1. \E a, b : Deal(units, d) = [counts |-> a, turn |-> b]
      BY Zenon DEF Deal
    <3>2. PICK a, b : e = [counts |-> a, turn |-> b]
      BY <3>1
    <3> HIDE DEF e
    <3>3. e.counts = a /\ e.turn = b
      BY <3>2
    <3> QED BY <3>2, <3>3
  <2> HIDE DEF e, step
  <2>12. Counted(e.counts, units, n, j) /\ e.turn \in U /\ e.turn \in Nat
    BY <1>1, <2>7 DEF e
  <2>13. e.counts \in [U -> Nat]
    BY <2>12 DEF Counted
  <2>14. e \in Dealt(j)
    BY <2>11, <2>12, <2>13
  <2> HIDE DEF Dealt
  <2> QED BY <2>1, <2>10, <2>14 DEF e
<1> HIDE DEF I, step, first
<1>6. Iterated(first, step, k) \in I[k]
  BY <1>4, <1>5, IterationStays
<1>7. I[k] = Dealt(k)
  <2>1. k \in 0 .. k
    OBVIOUS
  <2> HIDE DEF Dealt
  <2> QED BY <2>1 DEF I
<1>8. Iterated(first, step, k) \in Dealt(k)
  BY <1>6, <1>7
<1>9. Counted(Iterated(first, step, k).counts, units, n, k)
  BY <1>8
<1> QED BY <1>2, <1>9

(* Whatever counts are wanted, the adjusted ones are right.                *)
LEMMA AdjustedCounted ==
  ASSUME NEW units, NEW n, NEW E, Tiles(units, n, E), NEW k \in Nat, k <= E[n],
         NEW counts, \A u \in 1 .. n : counts[u] \in Int
  PROVE  Counted(AdjustUnitCounts(counts, units, k), units, n, k)
<1> DEFINE U == 1 .. n
           clamped == [u \in U |-> Max({0, Min({counts[u], Cap(units, u)})})]
           room == [u \in U |-> Cap(units, u) - clamped[u]]
           delta == k - SumFunctionOnSet(clamped, U)
           sizes == [u \in U |-> units[u].size]
           c == [u \in U |-> clamped[u] + IF delta > 0 THEN Shares(room, delta)[u]
                                                      ELSE - Shares(clamped, -delta)[u]]
<1>1. n \in Nat /\ DOMAIN units = U
  BY DEF Tiles
<1>2. AdjustUnitCounts(counts, units, k) = c
  BY <1>1, Zenon DEF AdjustUnitCounts
<1>3. /\ IsFiniteSet(U) /\ U \subseteq Nat /\ E[n] \in Nat
      /\ \A u \in U : units[u].size \in Nat \ {0} /\ Cap(units, u) = units[u].size
      /\ SumFunctionOnSet(sizes, U) = E[n]
  BY SizesAddUp
<1> HIDE DEF U
<1>4. /\ clamped \in [U -> Nat] /\ room \in [U -> Nat]
      /\ \A u \in U : clamped[u] <= units[u].size /\ sizes[u] = clamped[u] + room[u]
  <2> DEFINE m(u) == Max({0, Min({counts[u], Cap(units, u)})})
  <2>1. ASSUME NEW u \in U PROVE m(u) \in Nat /\ m(u) <= units[u].size
    <3>1. counts[u] \in Int /\ Cap(units, u) \in Int /\ units[u].size \in Nat
      BY <1>3 DEF U
    <3>2. m(u) = IF counts[u] <= Cap(units, u) THEN (IF 0 <= counts[u] THEN counts[u] ELSE 0)
                 ELSE (IF 0 <= Cap(units, u) THEN Cap(units, u) ELSE 0)
      BY <3>1, ClampIs
    <3> HIDE DEF m
    <3> QED BY <1>3, <3>1, <3>2
  <2>2. clamped = [u \in U |-> m(u)]
    OBVIOUS
  <2> HIDE DEF m, clamped
  <2>3. clamped \in [U -> Nat] /\ \A u \in U : clamped[u] <= units[u].size /\ clamped[u] \in Nat
    BY <2>1, <2>2
  <2>4. \A u \in U : /\ room[u] = units[u].size - clamped[u] /\ sizes[u] = units[u].size
                     /\ units[u].size \in Nat
    BY <1>3
  <2>5. DOMAIN room = U /\ room = [u \in U |-> room[u]]
    OBVIOUS
  <2> HIDE DEF room, sizes
  <2>6. \A u \in U : room[u] \in Nat /\ sizes[u] = clamped[u] + room[u]
    BY <2>3, <2>4
  <2> QED BY <2>3, <2>5, <2>6
<1> DEFINE C == SumFunctionOnSet(clamped, U)
           R == SumFunctionOnSet(room, U)
<1> HIDE DEF clamped, room, sizes
<1>5. E[n] = C + R /\ C \in Nat /\ R \in Nat
  <2>1. \A u \in U : clamped[u] \in Nat /\ room[u] \in Nat /\ sizes[u] = clamped[u] + room[u]
    BY <1>4
  <2>2. SumFunctionOnSet(sizes, U) = C + R
    BY <1>3, <2>1, TotalsAdd
  <2>3. U \in SUBSET U
    OBVIOUS
  <2>4. C \in Nat
    BY <1>3, <2>1, <2>3, TotalIs
  <2>5. R \in Nat
    BY <1>3, <2>1, <2>3, TotalIs
  <2> QED BY <1>3, <2>2, <2>4, <2>5
<1>6. CASE delta > 0
  <2> DEFINE s == Shares(room, delta)
  <2>1. delta \in Nat /\ delta <= R /\ C + delta = k
    <3> HIDE DEF C, R
    <3>1. delta = k - C
      BY DEF C
    <3> HIDE DEF delta
    <3> QED BY <1>3, <1>5, <1>6, <3>1
  <2> HIDE DEF delta
  <2>2. s \in [U -> Nat] /\ (\A u \in U : s[u] <= room[u]) /\ SumFunctionOnSet(s, U) = delta
    BY <1>3, <1>4, <2>1, SharesAddUp
  <2>3. c = [u \in U |-> clamped[u] + s[u]]
    BY <1>6
  <2> HIDE DEF s, c
  <2>4. \A u \in U : /\ c[u] = clamped[u] + s[u] /\ c[u] \in Nat /\ c[u] <= units[u].size
                     /\ clamped[u] \in Nat /\ s[u] \in Nat
    <3> TAKE u \in U
    <3>1. c[u] = clamped[u] + s[u] /\ clamped[u] \in Nat /\ s[u] \in Nat /\ s[u] <= room[u]
          /\ units[u].size = clamped[u] + room[u] /\ room[u] \in Nat
      BY <1>4, <2>2, <2>3 DEF sizes
    <3> QED BY <3>1
  <2>5. SumFunctionOnSet(c, U) = C + SumFunctionOnSet(s, U)
    BY <1>3, <2>4, TotalsAdd
  <2>6. SumFunctionOnSet(c, U) = k
    BY <2>1, <2>2, <2>5
  <2>7. c \in [U -> Nat]
    BY <2>3, <2>4
  <2> QED BY <1>2, <2>4, <2>6, <2>7 DEF Counted, U, c
<1>7. CASE ~ (delta > 0)
  <2> DEFINE t == - delta
             s == Shares(clamped, t)
  <2>1. t \in Nat /\ t <= C /\ C - t = k
    <3> HIDE DEF C, R
    <3>1. delta = k - C
      BY DEF C
    <3> HIDE DEF delta
    <3> QED BY <1>3, <1>5, <1>7, <3>1
  <2>3. c = [u \in U |-> clamped[u] + (- s[u])]
    BY <1>7
  <2> HIDE DEF delta, t
  <2>2. s \in [U -> Nat] /\ (\A u \in U : s[u] <= clamped[u]) /\ SumFunctionOnSet(s, U) = t
    BY <1>3, <1>4, <2>1, SharesAddUp
  <2> HIDE DEF s, c
  <2>4. \A u \in U : /\ clamped[u] = c[u] + s[u] /\ c[u] \in Nat /\ c[u] <= units[u].size
                     /\ s[u] \in Nat
    <3> TAKE u \in U
    <3>1. c[u] = clamped[u] + (- s[u]) /\ clamped[u] \in Nat /\ s[u] \in Nat
          /\ s[u] <= clamped[u] /\ clamped[u] <= units[u].size /\ units[u].size \in Nat
      BY <1>3, <1>4, <2>2, <2>3
    <3> QED BY <3>1
  <2>5. C = SumFunctionOnSet(c, U) + SumFunctionOnSet(s, U)
    BY <1>3, <2>4, TotalsAdd
  <2>6. SumFunctionOnSet(c, U) \in Nat
    <3>1. U \in SUBSET U /\ \A u \in U : c[u] \in Nat
      BY <2>4
    <3> QED BY <1>3, <3>1, TotalIs
  <2>7. SumFunctionOnSet(c, U) = k
    <3> DEFINE S == SumFunctionOnSet(c, U)
    <3>1. C = S + t /\ S \in Nat
      BY <2>2, <2>5, <2>6
    <3> HIDE DEF S, C
    <3>2. S = k
      BY <1>5, <2>1, <3>1
    <3> QED BY <3>2 DEF S
  <2>8. c \in [U -> Nat]
    BY <2>3, <2>4
  <2> QED BY <1>2, <2>4, <2>7, <2>8 DEF Counted, U, c
<1> QED BY <1>6, <1>7

(* Every locality deals out as many as are asked for.                      *)
LEMMA LocalityCounted ==
  ASSUME NEW units, NEW n, NEW E, Tiles(units, n, E), NEW k \in Nat, k <= E[n],
         NEW l \in 0 .. Quarters
  PROVE  Counted(UnitVisibleCountsLocality(units, k, l), units, n, k)
<1>1. CASE l = Quarters
  BY <1>1, ClusteredCounted DEF UnitVisibleCountsLocality
<1>2. CASE l # Quarters /\ l = 0
  BY <1>2, SpreadCounted DEF UnitVisibleCountsLocality
<1>3. CASE l # Quarters /\ l # 0
  <2> DEFINE U == DOMAIN units
             clustered == UnitVisibleCountsClustered(units, k)
             spread == UnitVisibleCountsSpread(units, k)
             raw == [u \in U |-> l * clustered[u] + (Quarters - l) * spread[u]]
             floors == [u \in U |-> raw[u] \div Quarters]
             fractions == [u \in U |-> raw[u] % Quarters]
             remainder == k - SumFunctionOnSet(floors, U)
             extra(u) == Cardinality({j \in 0 .. remainder - 1 :
                           j % Len(units) = Cardinality(Ahead(fractions, u))})
             counts == [u \in U |-> floors[u] + extra(u)]
  <2>1. UnitVisibleCountsLocality(units, k, l) = AdjustUnitCounts(counts, units, k)
    BY <1>3, Zenon DEF UnitVisibleCountsLocality
  <2>2. U = 1 .. n
    BY DEF Tiles
  <2>3. Counted(clustered, units, n, k) /\ Counted(spread, units, n, k)
    BY ClusteredCounted, SpreadCounted
  <2> HIDE DEF clustered, spread, U
  <2>4. \A u \in U : floors[u] \in Nat
    <3> TAKE u \in U
    <3>1. clustered[u] \in Nat /\ spread[u] \in Nat
      BY <2>2, <2>3 DEF Counted
    <3>2. l \in Nat /\ Quarters - l \in Nat
      BY DEF Quarters
    <3>3. raw[u] = l * clustered[u] + (Quarters - l) * spread[u]
      OBVIOUS
    <3>4. raw[u] \in Nat
      <4> DEFINE q == Quarters - l
                 a == l * clustered[u]
                 b == q * spread[u]
      <4>1. a \in Nat
        BY <3>1, <3>2
      <4>2. q \in Nat
        BY <3>2
      <4> HIDE DEF q
      <4>3. b \in Nat
        BY <3>1, <4>2
      <4> HIDE DEF a, b
      <4>4. a + b \in Nat
        BY <4>1, <4>3
      <4> QED BY <3>3, <4>4 DEF a, b, q
    <3> HIDE DEF raw
    <3>5. raw[u] \div Quarters \in Nat
      BY <3>4 DEF Quarters
    <3> QED BY <3>5
  <2>5. remainder \in Int
    <3>1. IsFiniteSet(U) /\ U \in SUBSET U
      BY <2>2, SizesAddUp
    <3> HIDE DEF floors
    <3>2. SumFunctionOnSet(floors, U) \in Nat
      BY <2>4, <3>1, TotalIs
    <3> QED BY <3>2
  <2> HIDE DEF remainder, floors, fractions
  <2>6. \A u : extra(u) \in Nat
    <3> TAKE u
    <3> DEFINE hit == {j \in 0 .. remainder - 1 :
                         j % Len(units) = Cardinality(Ahead(fractions, u))}
    <3>1. 0 \in Int /\ remainder - 1 \in Int
      BY <2>5
    <3>2. IsFiniteSet(0 .. remainder - 1) /\ hit \in SUBSET (0 .. remainder - 1)
      BY <3>1, FS_Interval
    <3> HIDE DEF hit
    <3>3. Cardinality(hit) \in Nat
      BY <3>2, FS_Subset, FS_CardinalityType
    <3> QED BY <3>3 DEF hit
  <2> HIDE DEF extra
  <2>7. \A u \in 1 .. n : counts[u] \in Int
    BY <2>2, <2>4, <2>6
  <2> HIDE DEF counts
  <2>8. Counted(AdjustUnitCounts(counts, units, k), units, n, k)
    BY <2>7, AdjustedCounted
  <2> QED BY <2>1, <2>8
<1> QED BY <1>1, <1>2, <1>3

(* Positions: the first numbers.                                           *)
LEMMA FirstNumbers ==
  ASSUME NEW m \in Nat
  PROVE  IsFiniteSet(0 .. m - 1) /\ Cardinality(0 .. m - 1) = m /\ 0 .. m - 1 \subseteq Nat
<1>1. 0 \in Int /\ m - 1 \in Int /\ 0 <= m - 1 + 1 /\ m - 1 - 0 + 1 = m
  OBVIOUS
<1>2. IsFiniteSet(0 .. m - 1) /\ Cardinality(0 .. m - 1) = m - 1 - 0 + 1
  BY <1>1, IntervalSize
<1> QED BY <1>1, <1>2

LEMMA GreatestPosition ==
  ASSUME NEW m \in Nat, NEW S, S \subseteq 0 .. m - 1, S # {}
  PROVE  Max(S) \in S
<1> DEFINE far == {m - 1 - x : x \in S}
<1>1. far \subseteq Nat /\ far # {}
  <2>1. \A x \in S : m - 1 - x \in Nat
    <3> TAKE x \in S
    <3>1. x \in 0 .. m - 1
      OBVIOUS
    <3> QED BY <3>1
  <2>2. PICK x \in S : TRUE
    OBVIOUS
  <2> QED BY <2>1, <2>2
<1>2. PICK d \in far : \A e \in far : d <= e
  <2> HIDE DEF far
  <2> QED BY <1>1, LeastNatural
<1>3. PICK x \in S : d = m - 1 - x
  BY <1>2
<1>4. \A y \in S : x >= y
  <2> TAKE y \in S
  <2>1. d <= m - 1 - y
    BY <1>2
  <2> QED BY <1>3, <2>1
<1>5. Max(S) = CHOOSE y \in S : \A z \in S : y >= z
  BY Zenon DEF Max
<1> QED BY <1>3, <1>4, <1>5

(* Positions that are picked one after the other beside those used before  *)
(* are so many different ones.                                             *)
Fresh(m, j, one) ==
  \A used \in SUBSET (0 .. m - 1) :
    Cardinality(used) = j => \E p \in 0 .. m - 1 : p \notin used /\ one[used] = used \cup {p}

LEMMA PickedAre ==
  ASSUME NEW m \in Nat, NEW k \in Nat, NEW step,
         \A j \in 0 .. k - 1 : Fresh(m, j, step[j])
  PROVE  /\ Iterated({}, step, k) \in SUBSET (0 .. m - 1)
         /\ Cardinality(Iterated({}, step, k)) = k
<1> DEFINE Some(j) == {used \in SUBSET (0 .. m - 1) : Cardinality(used) = j}
           I == [j \in 0 .. k |-> Some(j)]
<1>1. {} \in I[0]
  <2>1. 0 \in 0 .. k /\ Cardinality({}) = 0
    BY FS_EmptySet
  <2> QED BY <2>1
<1>2. ASSUME NEW j \in 1 .. k, NEW used \in I[j - 1] PROVE step[j - 1][used] \in I[j]
  <2>1. j - 1 \in 0 .. k /\ j \in 0 .. k /\ j - 1 \in 0 .. k - 1 /\ j - 1 + 1 = j
    OBVIOUS
  <2>2. used \in SUBSET (0 .. m - 1) /\ Cardinality(used) = j - 1
    BY <1>2, <2>1
  <2>3. Fresh(m, j - 1, step[j - 1])
    BY <2>1
  <2>4. PICK p \in 0 .. m - 1 : p \notin used /\ step[j - 1][used] = used \cup {p}
    BY <2>2, <2>3 DEF Fresh
  <2>5. IsFiniteSet(used)
    BY <2>2, FirstNumbers, FS_Subset
  <2>6. Cardinality(used \cup {p}) = j - 1 + 1
    BY <2>2, <2>4, <2>5, FS_AddElement
  <2>7. used \cup {p} \in SUBSET (0 .. m - 1)
    BY <2>2
  <2>8. used \cup {p} \in Some(j)
    BY <2>1, <2>6, <2>7
  <2> HIDE DEF Some
  <2> QED BY <2>1, <2>4, <2>8
<1> HIDE DEF I
<1>3. Iterated({}, step, k) \in I[k]
  BY <1>1, <1>2, IterationStays
<1>4. I[k] = Some(k)
  <2>1. k \in 0 .. k
    OBVIOUS
  <2> HIDE DEF Some
  <2> QED BY <2>1 DEF I
<1> QED BY <1>3, <1>4

LEMMA FreeExists ==
  ASSUME NEW m \in Nat, NEW j \in Nat, j < m, NEW used \in SUBSET (0 .. m - 1),
         Cardinality(used) = j
  PROVE  (0 .. m - 1) \ used # {}
<1> SUFFICES ASSUME (0 .. m - 1) \ used = {} PROVE FALSE
  OBVIOUS
<1>1. used = 0 .. m - 1
  OBVIOUS
<1>2. Cardinality(used) = m
  BY <1>1, FirstNumbers
<1> QED BY <1>2

LEMMA RoundIsNatural ==
  ASSUME NEW a \in Nat, NEW b \in Nat \ {0} PROVE RoundHalfEven(a, b) \in Nat
<1>1. a \div b \in Nat
  BY DivMod
<1> DEFINE q == a \div b
<1>2. RoundHalfEven(a, b) = q \/ RoundHalfEven(a, b) = q + 1
  BY Zenon DEF RoundHalfEven
<1> HIDE DEF q
<1>3. q \in Nat
  BY <1>1 DEF q
<1> QED BY <1>2, <1>3

(* Evenly spread positions are so many different ones.                     *)
LEMMA SpreadAre ==
  ASSUME NEW m \in Nat \ {0}, NEW k \in 0 .. m
  PROVE  SpreadIndices(m, k) \in SUBSET (0 .. m - 1) /\ Cardinality(SpreadIndices(m, k)) = k
<1>1. CASE k = 0
  <2>1. SpreadIndices(m, k) = {}
    BY <1>1 DEF SpreadIndices
  <2> QED BY <1>1, <2>1, FS_EmptySet
<1>2. CASE k # 0 /\ k >= m
  <2>1. SpreadIndices(m, k) = 0 .. m - 1
    BY <1>2, Zenon DEF SpreadIndices
  <2>2. k = m
    BY <1>2
  <2> QED BY <2>1, <2>2, FirstNumbers
<1>3. CASE k # 0 /\ ~ (k >= m) /\ k = 1
  <2>1. SpreadIndices(m, k) = {m \div 2}
    BY <1>3, Zenon DEF SpreadIndices
  <2>2. m \div 2 \in 0 .. m - 1
    BY <1>3
  <2>3. Cardinality({m \div 2}) = 1
    BY FS_Singleton
  <2> QED BY <1>3, <2>1, <2>2, <2>3
<1>4. CASE k # 0 /\ ~ (k >= m) /\ k # 1
  <2> DEFINE pos(j) == RoundHalfEven(j * (m - 1), k - 1)
             up(used, j) == pos(j) .. m - 1 \ used
             choice(used, j) == IF up(used, j) # {} THEN Min(up(used, j))
                                                    ELSE Max(0 .. m - 1 \ used)
             one(j) == [used \in SUBSET (0 .. m - 1) |-> used \cup {choice(used, j)}]
             step == [j \in 0 .. k - 1 |-> one(j)]
  <2>1. SpreadIndices(m, k) = Iterated({}, step, k)
    BY <1>4, Zenon DEF SpreadIndices, Picked
  <2>2. k \in Nat /\ k - 1 \in Nat \ {0} /\ m - 1 \in Nat /\ k < m
    BY <1>4
  <2>3. \A j \in 0 .. k - 1 : pos(j) \in Nat
    <3> TAKE j \in 0 .. k - 1
    <3>1. j \in Nat
      BY <2>2
    <3>2. j * (m - 1) \in Nat
      BY <2>2, <3>1, TimesGrows
    <3> QED BY <2>2, <3>2, RoundIsNatural
  <2> HIDE DEF pos
  <2>4. ASSUME NEW j \in 0 .. k - 1, NEW used \in SUBSET (0 .. m - 1), Cardinality(used) = j
        PROVE  choice(used, j) \in 0 .. m - 1 /\ choice(used, j) \notin used
    <3>1. CASE up(used, j) # {}
      <4>1. up(used, j) \subseteq Nat /\ up(used, j) \subseteq (0 .. m - 1) \ used
        BY <2>2, <2>3
      <4>2. choice(used, j) = Min(up(used, j))
        BY <3>1
      <4> HIDE DEF up, choice
      <4>3. Min(up(used, j)) \in up(used, j)
        BY <3>1, <4>1, LeastNatural
      <4> QED BY <4>1, <4>2, <4>3
    <3>2. CASE ~ (up(used, j) # {})
      <4>1. choice(used, j) = Max(0 .. m - 1 \ used)
        BY <3>2, Zenon
      <4> HIDE DEF up, choice
      <4>2. j \in Nat /\ j < m /\ m \in Nat
        BY <2>2
      <4> DEFINE free == (0 .. m - 1) \ used
      <4>3. free # {} /\ free \subseteq 0 .. m - 1
        BY <2>4, <4>2, FreeExists
      <4> HIDE DEF free
      <4>4. Max(free) \in free
        BY <4>2, <4>3, GreatestPosition
      <4> QED BY <4>1, <4>3, <4>4 DEF free
    <3> QED BY <3>1, <3>2
  <2> HIDE DEF choice
  <2>5. ASSUME NEW j \in 0 .. k - 1 PROVE Fresh(m, j, step[j])
    <3>1. step[j] = one(j)
      OBVIOUS
    <3> HIDE DEF step
    <3> QED BY <2>4, <3>1 DEF Fresh
  <2> HIDE DEF step
  <2>6. m \in Nat
    OBVIOUS
  <2> QED BY <2>1, <2>2, <2>5, <2>6, PickedAre
<1> QED BY <1>1, <1>2, <1>3, <1>4

LEMMA NthIs ==
  ASSUME NEW S, S \subseteq Nat, IsFiniteSet(S), NEW j \in Nat, j < Cardinality(S)
  PROVE  Nth(S, j) \in S
<1>1. j + 1 \in 1 .. Cardinality(S) /\ j + 1 - 1 = j
  BY FS_CardinalityType
<1>2. \A e \in 1 .. Cardinality(S) : \E i \in S : RankIn(S, i) = e - 1
  BY RankTaken
<1>3. PICK i \in S : RankIn(S, i) = j + 1 - 1
  BY <1>1, <1>2
<1>4. \E h \in S : Cardinality({g \in S : g < h}) = j
  BY <1>1, <1>3 DEF RankIn
<1> QED BY <1>4, Zenon DEF Nth

(* From every position a free one is reached by going around.              *)
LEMMA AroundToFree ==
  ASSUME NEW m \in Nat \ {0}, NEW pos \in Nat, NEW x \in 0 .. m - 1
  PROVE  \E d \in 0 .. m - 1 : (pos + d) % m = x
<1> DEFINE q == pos \div m
           r == pos % m
<1>1. q \in Nat /\ r \in 0 .. m - 1 /\ pos = m * q + r
  BY DivMod
<1> HIDE DEF q, r
<1>2. CASE r <= x
  <2> DEFINE d == x - r
  <2>1. d \in 0 .. m - 1 /\ pos + d = m * q + x /\ m * q = q * m
    <3> DEFINE p == m * q
    <3>1. p \in Nat /\ p = q * m /\ pos = p + r
      BY <1>1
    <3> HIDE DEF p
    <3>2. d \in 0 .. m - 1 /\ pos + d = p + x
      BY <1>1, <1>2, <3>1
    <3> QED BY <3>1, <3>2 DEF p
  <2>2. (q * m + x) % m = x
    BY <1>1, DivModUnique
  <2> HIDE DEF d
  <2>3. (pos + d) % m = x
    BY <2>1, <2>2
  <2> QED BY <2>1, <2>3
<1>3. CASE ~ (r <= x)
  <2> DEFINE d == x - r + m
  <2>1. d \in 0 .. m - 1 /\ pos + d = (q + 1) * m + x /\ q + 1 \in Nat
    <3> DEFINE p == m * q
    <3>1. p \in Nat /\ p + m = (q + 1) * m /\ pos = p + r
      BY <1>1
    <3> HIDE DEF p
    <3>2. d \in 0 .. m - 1 /\ pos + d = p + m + x
      BY <1>1, <1>3, <3>1
    <3> QED BY <1>1, <3>1, <3>2
  <2>2. ((q + 1) * m + x) % m = x
    BY <2>1, DivModUnique
  <2> HIDE DEF d
  <2>3. (pos + d) % m = x
    BY <2>1, <2>2
  <2> QED BY <2>1, <2>3
<1> QED BY <1>2, <1>3

(* In every unit so many positions are visible as it has been given.       *)
LEMMA PositionsAre ==
  ASSUME NEW m \in Nat \ {0}, NEW k \in 0 .. m, NEW l \in 0 .. Quarters
  PROVE  /\ UnitVisiblePositions(m, k, l) \in SUBSET (0 .. m - 1)
         /\ Cardinality(UnitVisiblePositions(m, k, l)) = k
         /\ l = Quarters => UnitVisiblePositions(m, k, l) = 0 .. k - 1
<1>0. k \in Nat /\ k <= m
  OBVIOUS
<1>1. CASE k >= m
  <2>1. UnitVisiblePositions(m, k, l) = 0 .. m - 1
    BY <1>1, Zenon DEF UnitVisiblePositions
  <2>2. k = m
    BY <1>0, <1>1
  <2> QED BY <2>1, <2>2, FirstNumbers
<1>2. CASE ~ (k >= m) /\ l = Quarters
  <2>1. UnitVisiblePositions(m, k, l) = 0 .. k - 1
    BY <1>2, Zenon DEF UnitVisiblePositions
  <2>2. 0 .. k - 1 \subseteq 0 .. m - 1
    BY <1>0
  <2> QED BY <1>0, <2>1, <2>2, FirstNumbers
<1>3. CASE ~ (k >= m) /\ l # Quarters /\ l = 0
  <2>1. UnitVisiblePositions(m, k, l) = SpreadIndices(m, k)
    BY <1>3, Zenon DEF UnitVisiblePositions
  <2> QED BY <1>3, <2>1, SpreadAre
<1>4. CASE ~ (k >= m) /\ l # Quarters /\ l # 0
  <2> DEFINE pos(j) == Wish(m, k, l, j)
             ds(used, j) == {d \in 0 .. m - 1 : (pos(j) + d) % m \notin used}
             choice(used, j) == (pos(j) + Min(ds(used, j))) % m
             one(j) == [used \in SUBSET (0 .. m - 1) |-> used \cup {choice(used, j)}]
             step == [j \in 0 .. k - 1 |-> one(j)]
  <2>1. UnitVisiblePositions(m, k, l) = Iterated({}, step, k)
    BY <1>4, Zenon DEF UnitVisiblePositions, Picked
  <2>2. \A j \in 0 .. k - 1 : pos(j) \in Nat
    <3> TAKE j \in 0 .. k - 1
    <3> DEFINE S == SpreadIndices(m, k)
               z == Nth(S, j)
    <3>1. S \in SUBSET (0 .. m - 1) /\ Cardinality(S) = k
      BY SpreadAre
    <3>2. IsFiniteSet(S) /\ S \subseteq Nat
      BY <3>1, FirstNumbers, FS_Subset
    <3>3. j \in Nat /\ j < k
      BY <1>0
    <3> HIDE DEF S
    <3>4. z \in Nat
      BY <3>1, <3>2, <3>3, NthIs
    <3> HIDE DEF z
    <3>5. l \in Nat /\ Quarters - l \in Nat /\ Quarters \in Nat \ {0}
      BY DEF Quarters
    <3>6. l * j \in Nat /\ (Quarters - l) * z \in Nat
      BY <3>3, <3>4, <3>5, TimesGrows
    <3>7. l * j + (Quarters - l) * z \in Nat
      BY <3>6
    <3>8. Wish(m, k, l, j) = RoundHalfEven(l * j + (Quarters - l) * z, Quarters)
      BY Zenon DEF Wish, S, z
    <3> QED BY <3>5, <3>7, <3>8, RoundIsNatural
  <2> HIDE DEF pos
  <2>3. ASSUME NEW j \in 0 .. k - 1, NEW used \in SUBSET (0 .. m - 1), Cardinality(used) = j
        PROVE  choice(used, j) \in 0 .. m - 1 /\ choice(used, j) \notin used
    <3>1. j \in Nat /\ j < m /\ m \in Nat
      BY <1>0
    <3>2. PICK x \in 0 .. m - 1 : x \notin used
      BY <2>3, <3>1, FreeExists
    <3>3. PICK e \in 0 .. m - 1 : (pos(j) + e) % m = x
      BY <2>2, AroundToFree
    <3>4. e \in ds(used, j) /\ ds(used, j) \subseteq Nat
      BY <3>2, <3>3
    <3> DEFINE D == ds(used, j)
               d == Min(D)
    <3>5. d \in D
      <4> HIDE DEF ds
      <4> QED BY <3>4, LeastNatural
    <3>6. d \in 0 .. m - 1 /\ (pos(j) + d) % m \notin used
      <4> HIDE DEF d
      <4> QED BY <3>5
    <3>7. choice(used, j) = (pos(j) + d) % m
      OBVIOUS
    <3> HIDE DEF d, choice
    <3>8. pos(j) + d \in Nat
      BY <2>2, <3>6
    <3>9. (pos(j) + d) % m \in 0 .. m - 1
      BY <3>8, DivMod
    <3> QED BY <3>6, <3>7, <3>9
  <2> HIDE DEF choice
  <2>4. ASSUME NEW j \in 0 .. k - 1 PROVE Fresh(m, j, step[j])
    <3>1. step[j] = one(j)
      OBVIOUS
    <3> HIDE DEF step
    <3> QED BY <2>3, <3>1 DEF Fresh
  <2> HIDE DEF step
  <2>5. m \in Nat
    OBVIOUS
  <2> QED BY <1>0, <1>4, <2>1, <2>4, <2>5, PickedAre
<1> QED BY <1>1, <1>2, <1>3, <1>4

(* Units lie one behind the other.                                         *)
LEMMA EndsGrow ==
  ASSUME NEW units, NEW n, NEW E, Tiles(units, n, E), NEW u \in 0 .. n, NEW v \in u .. n
  PROVE  E[u] <= E[v]
<1>1. n \in Nat /\ E \in [0 .. n -> Nat] /\ \A x \in 1 .. n : E[x - 1] < E[x]
  BY DEF Tiles
<1> DEFINE bad == {x \in Nat : x \in u .. n /\ ~ (E[u] <= E[x])}
<1>2. bad = {}
  <2> SUFFICES ASSUME bad # {} PROVE FALSE
    OBVIOUS
  <2>1. PICK x \in bad : \A y \in bad : x <= y
    <3>1. bad \subseteq Nat
      OBVIOUS
    <3> HIDE DEF bad
    <3> QED BY <3>1, LeastNatural
  <2>2. x \in u .. n /\ ~ (E[u] <= E[x])
    BY <2>1
  <2>3. E[x] \in Nat /\ E[u] \in Nat
    BY <1>1, <2>2
  <2>4. x # u
    BY <2>2, <2>3
  <2>5. x - 1 \in u .. n /\ x \in 1 .. n /\ x - 1 \in Nat
    BY <1>1, <2>2, <2>4
  <2>6. x - 1 \notin bad
    BY <2>1, <2>5
  <2>7. E[u] <= E[x - 1] /\ E[x - 1] \in Nat /\ E[x - 1] < E[x]
    BY <1>1, <2>5, <2>6
  <2> QED BY <2>2, <2>3, <2>7
<1>3. v \in Nat
  BY <1>1
<1> QED BY <1>2, <1>3

(* Localities show as many of the valid slots as they are asked for, and   *)
(* when visibility is clustered these are the first ones.                  *)
LEMMA LocalityVisible ==
  ASSUME NEW w, w.n_valid \in Nat, UnitSize(w) \in Nat \ {0},
         w.n_vis \in 0 .. w.n_valid, w.locality \in 0 .. Quarters
  PROVE  /\ AssignVisibilityLocality(w) \subseteq 0 .. w.n_valid - 1
         /\ Cardinality(AssignVisibilityLocality(w)) = w.n_vis
         /\ w.locality = Quarters => AssignVisibilityLocality(w) = 0 .. w.n_vis - 1
<1> DEFINE units == ClusterUnits(w)
           n == UnitCount(w)
           E == UnitEnds(w)
           N == w.n_valid
           k == w.n_vis
           l == w.locality
           U == 1 .. n
           counts == UnitVisibleCountsLocality(units, k, l)
           positions(u) == UnitVisiblePositions(units[u].size, counts[u], l)
           part(u) == {units[u].from + p : p \in positions(u)}
           P == [u \in U |-> part(u)]
           V == UNION {part(u) : u \in U}
<1>1. Tiles(units, n, E) /\ E[n] = N
  BY UnitsTile
<1>2. N \in Nat /\ k \in Nat /\ k <= N /\ l \in 0 .. Quarters
  OBVIOUS
<1>3. AssignVisibilityLocality(w) = V
  <2>1. DOMAIN ClusterUnits(w) = 1 .. n
    BY <1>1, Zenon DEF Tiles
  <2> QED BY <2>1, Zenon DEF AssignVisibilityLocality
<1> HIDE DEF units, n, E, N, k, l
<1>4. Counted(counts, units, n, k)
  BY <1>1, <1>2, LocalityCounted
<1>5. /\ n \in Nat /\ IsFiniteSet(U) /\ E \in [0 .. n -> Nat]
      /\ \A u \in U : /\ units[u].size \in Nat \ {0} /\ units[u].from = E[u - 1]
                      /\ units[u].size = E[u] - E[u - 1]
  <2>1. IsFiniteSet(U) /\ \A u \in U : units[u].size \in Nat \ {0}
    BY <1>1, SizesAddUp
  <2> QED BY <1>1, <2>1 DEF Tiles
<1> DEFINE c == counts
<1>6. c \in [U -> Nat] /\ (\A u \in U : c[u] <= units[u].size) /\ SumFunctionOnSet(c, U) = k
  BY <1>4 DEF Counted
<1> HIDE DEF counts
<1>7. ASSUME NEW u \in U
      PROVE  /\ positions(u) \in SUBSET (0 .. units[u].size - 1)
             /\ Cardinality(positions(u)) = c[u]
             /\ l = Quarters => positions(u) = 0 .. c[u] - 1
  <2>1. units[u].size \in Nat \ {0} /\ c[u] \in Nat /\ c[u] <= units[u].size
    BY <1>5, <1>6
  <2>2. c[u] \in 0 .. units[u].size
    BY <2>1
  <2> QED BY <1>2, <2>1, <2>2, PositionsAre
<1> HIDE DEF positions, c
<1>8. ASSUME NEW u \in U
      PROVE  /\ IsFiniteSet(part(u)) /\ Cardinality(part(u)) = c[u]
             /\ \A x \in part(u) : x \in Nat /\ E[u - 1] <= x /\ x < E[u]
  <2>1. units[u].from \in Nat /\ units[u].from = E[u - 1] /\ E[u] \in Nat
        /\ units[u].size = E[u] - E[u - 1]
    <3>1. u \in 0 .. n /\ u - 1 \in 0 .. n
      BY <1>5
    <3> QED BY <1>5, <3>1
  <2>2. /\ positions(u) \subseteq 0 .. units[u].size - 1
        /\ Cardinality(positions(u)) = c[u] /\ units[u].size \in Nat
    BY <1>5, <1>7
  <2>3. IsFiniteSet(positions(u))
    BY <2>2, FirstNumbers, FS_Subset
  <2> DEFINE A == positions(u)
             a == units[u].from
             f == [p \in A |-> a + p]
  <2>4. \A x, y \in A : f[x] = f[y] => x = y
    BY <2>1, <2>2
  <2>5. {f[p] : p \in A} = part(u)
    OBVIOUS
  <2>6. DOMAIN f = A
    OBVIOUS
  <2>7. \A x \in part(u) : x \in Nat /\ E[u - 1] <= x /\ x < E[u]
    BY <2>1, <2>2
  <2> HIDE DEF f, A
  <2>8. IsFiniteSet({f[p] : p \in A}) /\ Cardinality({f[p] : p \in A}) = Cardinality(A)
    BY <2>3, <2>4, <2>6, SameSize DEF A
  <2> HIDE DEF part
  <2> QED BY <2>2, <2>5, <2>7, <2>8 DEF A
<1> HIDE DEF part
<1>9. \A u, v \in U : u < v => part(u) \cap part(v) = {}
  <2> SUFFICES ASSUME NEW u \in U, NEW v \in U, u < v, NEW x \in part(u), x \in part(v)
               PROVE  FALSE
    OBVIOUS
  <2>1. u \in 0 .. n /\ v - 1 \in u .. n /\ v - 1 \in 0 .. n
    BY <1>5
  <2>2. E[u] <= E[v - 1]
    BY <1>1, <2>1, EndsGrow
  <2>3. x \in Nat /\ x < E[u] /\ E[v - 1] <= x
    BY <1>8
  <2>4. E[u] \in Nat /\ E[v - 1] \in Nat
    BY <1>5, <2>1
  <2> QED BY <2>2, <2>3, <2>4
<1>10. \A u, v \in U : u # v => part(u) \cap part(v) = {}
  <2> SUFFICES ASSUME NEW u \in U, NEW v \in U, u # v PROVE part(u) \cap part(v) = {}
    OBVIOUS
  <2>1. u < v \/ v < u
    BY <1>5
  <2> QED BY <1>9, <2>1
<1>11. Cardinality(V) = k
  <2>1. PICK h : Sums(U, c, h)
    BY <1>5, SumExists
  <2>2. \A u \in U : IsFiniteSet(P[u]) /\ c[u] = Cardinality(P[u])
    BY <1>8
  <2>3. \A u, v \in U : u # v => P[u] \cap P[v] = {}
    BY <1>10
  <2>4. {P[u] : u \in U} = {part(u) : u \in U}
    OBVIOUS
  <2> HIDE DEF P, U
  <2>5. Cardinality(UNION {P[u] : u \in U}) = h[U]
    BY <1>5, <2>1, <2>2, <2>3, SumCountsParts
  <2>6. SumFunctionOnSet(c, U) = h[U]
    BY <1>5, <2>1, SumFunctionIs
  <2> QED BY <1>6, <2>4, <2>5, <2>6
<1>12. V \subseteq 0 .. N - 1
  <2> SUFFICES ASSUME NEW u \in U, NEW x \in part(u) PROVE x \in 0 .. N - 1
    OBVIOUS
  <2>1. u \in 0 .. n /\ n \in u .. n /\ n \in 0 .. n
    BY <1>5
  <2>2. E[u] <= E[n] /\ E[u] \in Nat
    BY <1>1, <1>5, <2>1, EndsGrow
  <2>3. x \in Nat /\ x < E[u]
    BY <1>8
  <2> QED BY <1>1, <1>2, <2>2, <2>3
<1>13. ASSUME l = Quarters PROVE V = 0 .. k - 1
  <2>1. \A u \in U : c[u] = IF E[u] <= k THEN E[u] - E[u - 1]
                            ELSE IF E[u - 1] <= k THEN k - E[u - 1] ELSE 0
    <3>1. counts = UnitVisibleCountsClustered(units, k)
      BY <1>13, Zenon DEF counts, UnitVisibleCountsLocality
    <3>2. k <= E[n]
      BY <1>1, <1>2
    <3> QED BY <1>1, <1>2, <3>1, <3>2, ClusteredCounted DEF c
  <2>2. V \subseteq 0 .. k - 1
    <3> SUFFICES ASSUME NEW u \in U, NEW x \in part(u) PROVE x \in 0 .. k - 1
      OBVIOUS
    <3>1. u \in 0 .. n /\ u - 1 \in 0 .. n
      BY <1>5
    <3>2. E[u] \in Nat /\ E[u - 1] \in Nat /\ c[u] \in Nat /\ units[u].from = E[u - 1]
      BY <1>5, <1>6, <3>1
    <3>3. PICK p \in 0 .. c[u] - 1 : x = E[u - 1] + p
      <4>1. part(u) = {units[u].from + p : p \in 0 .. c[u] - 1}
        BY <1>7, <1>13 DEF part
      <4> QED BY <3>2, <4>1
    <3>4. x < E[u - 1] + c[u] /\ x \in Nat
      BY <3>2, <3>3
    <3> QED BY <1>2, <2>1, <3>2, <3>3, <3>4
  <2>3. IsFiniteSet(0 .. k - 1) /\ Cardinality(0 .. k - 1) = k
    BY <1>2, FirstNumbers
  <2> HIDE DEF V
  <2> QED BY <1>11, <2>2, <2>3, FS_Subset
<1> QED BY <1>3, <1>11, <1>12, <1>13 DEF N, k, l

(* Numbered from 0, things are so many as there are numbers.               *)
LEMMA NumberedSize ==
  ASSUME NEW T, IsFiniteSet(T), NEW f, DOMAIN f = T,
         \A x, y \in T : f[x] = f[y] => x = y,
         NEW c \in Nat, {f[x] : x \in T} = 0 .. c - 1
  PROVE  Cardinality(T) = c
<1>1. Cardinality({f[x] : x \in T}) = Cardinality(T)
  BY SameSize
<1> QED BY <1>1, FirstNumbers

(* The first c numbers of a set are c of them, or all there are.           *)
LEMMA FirstAre ==
  ASSUME NEW S, S \subseteq Nat, IsFiniteSet(S), NEW c \in Int
  PROVE  /\ First(c, S) \subseteq S /\ IsFiniteSet(First(c, S))
         /\ c <= 0 => First(c, S) = {}
         /\ c \in 0 .. Cardinality(S) => Cardinality(First(c, S)) = c
         /\ c >= Cardinality(S) => First(c, S) = S
<1> DEFINE T == First(c, S)
           m == Cardinality(S)
<1>1. T = {i \in S : RankIn(S, i) < c}
  BY DEF First, RankIn
<1>2. /\ \A i \in S : RankIn(S, i) \in 0 .. m - 1
      /\ \A i, j \in S : RankIn(S, i) = RankIn(S, j) => i = j
      /\ \A j \in 1 .. m : \E i \in S : RankIn(S, i) = j - 1
  BY RankTaken
<1>3. m \in Nat
  BY FS_CardinalityType
<1> HIDE DEF T, m
<1>4. T \subseteq S /\ IsFiniteSet(T)
  BY <1>1, FS_Subset
<1>5. ASSUME c <= 0 PROVE T = {}
  <2> SUFFICES ASSUME NEW i \in T PROVE FALSE
    OBVIOUS
  <2> DEFINE r == RankIn(S, i)
  <2>1. r < c /\ r \in 0 .. m - 1
    BY <1>1, <1>2
  <2> HIDE DEF r
  <2> QED BY <1>3, <1>5, <2>1
<1>6. ASSUME c \in 0 .. m PROVE Cardinality(T) = c
  <2>0. \E f : DOMAIN f = T /\ \A i \in T : f[i] = RankIn(S, i)
    <3> DEFINE f == [i \in T |-> RankIn(S, i)]
    <3>1. DOMAIN f = T /\ \A i \in T : f[i] = RankIn(S, i)
      OBVIOUS
    <3> QED BY <3>1
  <2>3. PICK f : DOMAIN f = T /\ \A i \in T : f[i] = RankIn(S, i)
    BY <2>0
  <2>1. \A i, j \in T : f[i] = f[j] => i = j
    BY <1>2, <1>4, <2>3
  <2>2. {f[i] : i \in T} = 0 .. c - 1
    <3>1. \A i \in T : f[i] \in 0 .. c - 1
      BY <1>1, <1>2, <1>3, <1>6, <2>3
    <3>2. ASSUME NEW x \in 0 .. c - 1 PROVE \E i \in T : f[i] = x
      <4>1. x + 1 \in 1 .. m /\ x + 1 - 1 = x /\ x < c
        BY <1>3, <1>6
      <4>2. PICK i \in S : RankIn(S, i) = x + 1 - 1
        BY <1>2, <4>1
      <4>3. i \in T
        BY <1>1, <4>1, <4>2
      <4> QED BY <2>3, <4>1, <4>2, <4>3
    <3> QED BY <3>1, <3>2
  <2>4. c \in Nat
    BY <1>6
  <2>5. IsFiniteSet(T)
    BY <1>4
  <2>6. DOMAIN f = T
    BY <2>3
  <2>7. \A x, y \in T : f[x] = f[y] => x = y
    BY <2>1
  <2>8. {f[x] : x \in T} = 0 .. c - 1
    BY <2>2
  <2> QED BY <2>4, <2>5, <2>6, <2>7, <2>8, NumberedSize
<1>7. ASSUME c >= m PROVE T = S
  <2>1. \A i \in S : RankIn(S, i) < c
    <3> TAKE i \in S
    <3> DEFINE r == RankIn(S, i)
    <3>1. r \in 0 .. m - 1
      BY <1>2
    <3> HIDE DEF r
    <3>2. r < c
      BY <1>3, <1>7, <3>1
    <3> QED BY <3>2 DEF r
  <2> QED BY <1>1, <2>1
<1> QED BY <1>4, <1>5, <1>6, <1>7 DEF T, m

(* Cutting a set of slots to k of them, or filling it up, leaves k.        *)
LEMMA CompletedAre ==
  ASSUME NEW N \in Nat, NEW k \in 0 .. N, NEW A \in SUBSET (0 .. N - 1)
  PROVE  LET all == First(k, A) \cup First(k - Cardinality(A), 0 .. N - 1 \ A)
         IN all \in SUBSET (0 .. N - 1) /\ Cardinality(all) = k
<1> DEFINE S == 0 .. N - 1
           B == S \ A
           a == Cardinality(A)
<1>1. IsFiniteSet(S) /\ Cardinality(S) = N /\ S \subseteq Nat
  BY FirstNumbers
<1>2. A \subseteq S /\ IsFiniteSet(A) /\ A \subseteq Nat
  BY <1>1, FS_Subset
<1>3. B \subseteq S /\ IsFiniteSet(B) /\ B \subseteq Nat
  BY <1>1, FS_Subset
<1>4. a \in Nat /\ Cardinality(B) = N - a
  <2>1. S \cap A = A
    BY <1>2
  <2>2. Cardinality(S \ A) = Cardinality(S) - Cardinality(S \cap A)
    BY <1>1, FS_Difference
  <2> QED BY <1>1, <1>2, <2>1, <2>2, FS_CardinalityType
<1> DEFINE C == First(k, A)
           D == First(k - a, B)
<1>5. k \in Int /\ k \in Nat /\ k - a \in Int /\ N \in Nat /\ k <= N
  BY <1>4
<1> HIDE DEF S, B, a
<1>6. /\ C \subseteq A /\ IsFiniteSet(C)
      /\ k \in 0 .. a => Cardinality(C) = k
      /\ k >= a => C = A
  BY <1>2, <1>5, FirstAre DEF a
<1>7. /\ D \subseteq B /\ IsFiniteSet(D)
      /\ k - a <= 0 => D = {}
      /\ k - a \in 0 .. Cardinality(B) => Cardinality(D) = k - a
  BY <1>3, <1>5, FirstAre
<1> HIDE DEF C, D
<1>8. C \cap D = {} /\ C \cup D \subseteq S
  BY <1>2, <1>3, <1>6, <1>7 DEF B
<1>9. Cardinality(C \cup D) = k
  <2>1. CASE k <= a
    <3>1. D = {} /\ k \in 0 .. a
      BY <1>4, <1>5, <1>7, <2>1
    <3>2. C \cup D = C
      BY <3>1
    <3> QED BY <1>6, <3>1, <3>2
  <2>2. CASE ~ (k <= a)
    <3>1. k - a \in 0 .. Cardinality(B) /\ k >= a
      BY <1>4, <1>5, <2>2
    <3>2. Cardinality(C) = a /\ Cardinality(D) = k - a
      BY <1>6, <1>7, <3>1 DEF a
    <3>3. Cardinality({}) = 0
      BY FS_EmptySet
    <3>4. Cardinality(C \cup D) = Cardinality(C) + Cardinality(D) - Cardinality(C \cap D)
      BY <1>6, <1>7, FS_Union
    <3> QED BY <1>4, <1>5, <1>8, <3>2, <3>3, <3>4
  <2> QED BY <2>1, <2>2
<1> QED BY <1>8, <1>9 DEF C, D, S, B, a

(* Regular slots are no more than shall be visible.                        *)
LEMMA MixedAre ==
  ASSUME NEW w, w.n_valid \in Nat, w.n_vis \in 1 .. w.n_valid
  PROVE  MixedBits(w) \in SUBSET (0 .. w.n_valid - 1) /\ Cardinality(MixedBits(w)) = w.n_vis
<1> DEFINE N == w.n_valid
           k == w.n_vis
           period == Max({1, N \div k})
           regular == {i \in 0 .. N - 1 : i % period = 0 /\ i \div period < k}
<1>1. N \in Nat /\ k \in Nat \ {0} /\ k <= N /\ k \in 0 .. N
  OBVIOUS
<1>2. MixedBits(w) = regular \cup First(k - Cardinality(regular), 0 .. N - 1 \ regular)
  BY Zenon DEF MixedBits
<1> HIDE DEF N, k
<1>3. period \in Nat \ {0}
  <2> DEFINE q == N \div k
  <2>1. q \in Nat
    BY <1>1, DivMod
  <2> HIDE DEF q
  <2>2. {1, q} \subseteq Int /\ \E x \in {1, q} : \A y \in {1, q} : x >= y
    BY <2>1
  <2>3. period = CHOOSE x \in {1, q} : \A y \in {1, q} : x >= y
    BY Zenon DEF Max, q
  <2> HIDE DEF period
  <2>4. period \in {1, q} /\ period >= 1
    BY <2>2, <2>3
  <2> QED BY <2>1, <2>4
<1> HIDE DEF period
<1>4. regular \in SUBSET (0 .. N - 1)
  OBVIOUS
<1>5. IsFiniteSet(regular)
  BY <1>1, <1>4, FirstNumbers, FS_Subset
<1>6. Cardinality(regular) <= k /\ Cardinality(regular) \in Nat
  <2> DEFINE f == [i \in regular |-> i \div period]
  <2>1. \A i \in regular : i \div period \in 0 .. k - 1 /\ i = period * (i \div period)
    <3> TAKE i \in regular
    <3>1. i \in Nat /\ i % period = 0 /\ i \div period < k
      BY <1>1
    <3> DEFINE q == i \div period
    <3>2. q \in Nat /\ i = period * q + 0
      BY <1>3, <3>1, DivMod
    <3> HIDE DEF q
    <3>3. period * q \in Nat
      BY <1>3, <3>2
    <3>4. i = period * q
      BY <3>2, <3>3
    <3> QED BY <1>1, <3>1, <3>2, <3>4 DEF q
  <2>2. DOMAIN f = regular /\ \A i \in regular : f[i] = i \div period
    OBVIOUS
  <2> HIDE DEF f, regular
  <2>3. ASSUME NEW i \in regular, NEW j \in regular, f[i] = f[j] PROVE i = j
    <3>1. i \div period = j \div period
      BY <2>2, <2>3
    <3>2. i = period * (i \div period) /\ j = period * (j \div period)
      BY <2>1
    <3> QED BY <3>1, <3>2, Zenon
  <2>4. {f[i] : i \in regular} \subseteq 0 .. k - 1
    BY <2>1, <2>2
  <2>5. Cardinality({f[i] : i \in regular}) = Cardinality(regular)
    BY <1>5, <2>2, <2>3, SameSize
  <2>6. IsFiniteSet(0 .. k - 1) /\ Cardinality(0 .. k - 1) = k
    BY <1>1, FirstNumbers
  <2>7. Cardinality({f[i] : i \in regular}) <= k
    BY <2>4, <2>6, FS_Subset
  <2> QED BY <1>5, <2>5, <2>7, FS_CardinalityType
<1> HIDE DEF regular
<1>7. First(k, regular) = regular
  <2>1. regular \subseteq Nat /\ k \in Int /\ k >= Cardinality(regular)
    BY <1>1, <1>4, <1>6
  <2> QED BY <1>5, <2>1, FirstAre
<1>8. LET all == First(k, regular) \cup First(k - Cardinality(regular), 0 .. N - 1 \ regular)
      IN all \in SUBSET (0 .. N - 1) /\ Cardinality(all) = k
  BY <1>1, <1>4, CompletedAre
<1> QED BY <1>2, <1>7, <1>8 DEF N, k

Clustered(w) == w.mode = "clustered" \/ (w.mode = "locality" /\ w.locality = Quarters)

(* Every mode but the beta model shows as many valid slots as it is asked  *)
(* for, and visibility that is clustered shows the first ones.             *)
LEMMA VisibilitiesAre ==
  ASSUME NEW w \in Sweeps, w.mode # "beta", NEW V \in Visibilities(w), w.slot_per_list # 0
  PROVE  /\ V \subseteq 0 .. w.n_valid - 1 /\ Cardinality(V) = w.n_vis
         /\ Clustered(w) => V = 0 .. w.n_vis - 1
<1> DEFINE N == w.n_valid
           k == w.n_vis
<1>1. /\ w.n_lists \in Nat /\ w.slot_per_list \in Nat
      /\ N \in 0 .. w.n_lists * w.slot_per_list /\ k \in 0 .. N
      /\ w.grouping = "fixed_block" => w.block_size \in Nat \ {0}
      /\ w.mode \in {"clustered", "mixed", "adversarial_mixed", "beta", "locality"}
      /\ w.mode = "locality" => w.locality \in 0 .. Quarters
  BY Zenon, SweepAssumption
<1>2. UnitSize(w) \in Nat \ {0}
  BY <1>1 DEF UnitSize
<1>3. N \in Nat /\ k \in Nat /\ k <= N
  BY <1>1
<1>4. CASE w.mode = "locality"
  <2>1. V = AssignVisibilityLocality(w)
    BY <1>4, Zenon DEF Visibilities
  <2>2. w.locality \in 0 .. Quarters
    BY <1>1, <1>4
  <2> QED BY <1>1, <1>2, <1>3, <1>4, <2>1, <2>2, LocalityVisible DEF Clustered
<1>5. CASE w.mode # "locality"
  <2>1. V = AssignVisibilityBits(w)
    BY <1>5, Zenon DEF Visibilities
  <2>2. Clustered(w) <=> w.mode = "clustered"
    BY <1>5 DEF Clustered
  <2>3. CASE w.mode = "clustered" \/ k \in {0, N}
    <3>1. AssignVisibilityBits(w) = 0 .. k - 1
      <4>1. CASE w.mode = "clustered"
        BY <4>1 DEF AssignVisibilityBits
      <4>2. CASE w.mode # "clustered"
        BY <2>3, <4>2 DEF AssignVisibilityBits
      <4> QED BY <4>1, <4>2
    <3>2. 0 .. k - 1 \subseteq 0 .. N - 1
      BY <1>3
    <3>3. Cardinality(0 .. k - 1) = k
      BY <1>3, FirstNumbers
    <3> QED BY <2>1, <3>1, <3>2, <3>3
  <2>4. CASE w.mode = "mixed" /\ k \notin {0, N}
    <3>1. AssignVisibilityBits(w) = MixedBits(w)
      BY <2>4 DEF AssignVisibilityBits
    <3>2. k \in 1 .. N
      BY <1>3, <2>4
    <3> QED BY <1>3, <2>1, <2>2, <2>4, <3>1, <3>2, MixedAre
  <2>5. CASE w.mode = "adversarial_mixed" /\ k \notin {0, N}
    <3>1. AssignVisibilityBits(w) = AdversarialBits(w)
      BY <2>5 DEF AssignVisibilityBits
    <3>2. \E odd \in SUBSET (0 .. N - 1) :
            AdversarialBits(w) = First(k, odd) \cup First(k - Cardinality(odd), 0 .. N - 1 \ odd)
      <4> DEFINE odd == {i \in 0 .. w.n_valid - 1 :
                \E u \in DOMAIN ClusterUnits(w) :
                  /\ i \in ClusterUnits(w)[u].from .. ClusterUnits(w)[u].from + ClusterUnits(w)[u].size - 1
                  /\ (i - ClusterUnits(w)[u].from) % 2 = 0}
      <4>1. AdversarialBits(w) = First(k, odd) \cup First(k - Cardinality(odd), 0 .. N - 1 \ odd)
        BY Zenon DEF AdversarialBits
      <4>2. odd \in SUBSET (0 .. N - 1)
        OBVIOUS
      <4> HIDE DEF odd
      <4> QED BY <4>1, <4>2
    <3>3. PICK odd \in SUBSET (0 .. N - 1) :
            AdversarialBits(w) = First(k, odd) \cup First(k - Cardinality(odd), 0 .. N - 1 \ odd)
      BY <3>2
    <3>4. LET all == First(k, odd) \cup First(k - Cardinality(odd), 0 .. N - 1 \ odd)
          IN all \in SUBSET (0 .. N - 1) /\ Cardinality(all) = k
      <4>1. N \in Nat /\ k \in 0 .. N
        BY <1>1, <1>3
      <4> HIDE DEF N, k
      <4> QED BY <4>1, CompletedAre
    <3> QED BY <2>1, <2>2, <2>5, <3>1, <3>3, <3>4
  <2> QED BY <1>1, <1>5, <2>3, <2>4, <2>5
<1> QED BY <1>4, <1>5

-----------------------------------------------------------------------------
(* The grid of a sweep, and what groups its slots.                         *)
Swept ==
  LET w == workload.case IN
  /\ w \in Sweeps
  /\ \E V \in Visibilities(w) : grid = BuildSyntheticCandidates(w, V)
  /\ request.strategy = w.grouping /\ request.block_size = w.block_size

(* Valid slots of one region are those with the same quotient by d.        *)
Regioned(d) ==
  /\ d \in Nat \ {0}
  /\ \A r \in DOMAIN plan : \A i, j \in Valid :
       i \in Named(r) => (j \in Named(r) <=> (i - 1) \div d = (j - 1) \div d)

LEMMA SweptGrid ==
  ASSUME NEW w \in Sweeps, NEW V, grid = BuildSyntheticCandidates(w, V)
  PROVE  /\ w.n_lists * w.slot_per_list \in Nat
         /\ Slots = 1 .. w.n_lists * w.slot_per_list
         /\ \A i \in Slots : /\ grid[i].list = (i - 1) \div w.slot_per_list
                             /\ grid[i].slot = (i - 1) % w.slot_per_list
                             /\ grid[i].class = grid[i].list
                             /\ grid[i].valid <=> i <= w.n_valid
                             /\ grid[i].visible <=> i - 1 \in V
<1> DEFINE s == w.slot_per_list
           N == w.n_lists * s
           cell(i) == LET l == (i - 1) \div s
                      IN [list |-> l, slot |-> (i - 1) % s, class |-> l,
                          valid |-> i <= w.n_valid, visible |-> i - 1 \in V,
                          distance |-> i]
<1>1. w.n_lists \in Nat /\ s \in Nat
  BY SweepAssumption
<1>2. N \in Nat
  <2> HIDE DEF s
  <2> QED BY <1>1
<1>3. grid = [i \in 1 .. N |-> cell(i)]
  BY Zenon DEF BuildSyntheticCandidates
<1>4. \A i : /\ cell(i).list = (i - 1) \div s /\ cell(i).slot = (i - 1) % s
             /\ cell(i).class = (i - 1) \div s
             /\ cell(i).valid = (i <= w.n_valid) /\ cell(i).visible = (i - 1 \in V)
  BY Zenon
<1> HIDE DEF cell, N
<1>5. Slots = 1 .. N /\ \A i \in Slots : grid[i] = cell(i)
  BY <1>3 DEF Slots
<1> HIDE DEF s
<1>6. ASSUME NEW i \in Slots
      PROVE  /\ grid[i].list = (i - 1) \div s /\ grid[i].slot = (i - 1) % s
             /\ grid[i].class = grid[i].list
             /\ grid[i].valid <=> i <= w.n_valid
             /\ grid[i].visible <=> i - 1 \in V
  BY <1>4, <1>5, Zenon
<1> QED BY <1>2, <1>5, <1>6 DEF N, s

LEMMA ShiftedSize ==
  ASSUME NEW V, IsFiniteSet(V), \A x \in V : x \in Nat
  PROVE  Cardinality({x + 1 : x \in V}) = Cardinality(V)
<1> DEFINE f == [x \in V |-> x + 1]
<1>1. \A x, y \in V : f[x] = f[y] => x = y
  OBVIOUS
<1>2. DOMAIN f = V /\ {f[x] : x \in V} = {x + 1 : x \in V}
  OBVIOUS
<1> HIDE DEF f
<1>3. Cardinality({f[x] : x \in V}) = Cardinality(V)
  BY <1>1, <1>2, SameSize
<1> QED BY <1>2, <1>3

LEMMA SweptVisible ==
  ASSUME NEW w \in Sweeps, NEW V, grid = BuildSyntheticCandidates(w, V),
         V \subseteq 0 .. w.n_valid - 1
  PROVE  /\ GridShape /\ Valid = 1 .. w.n_valid
         /\ VisibleCount = Cardinality(V)
<1> DEFINE N == w.n_lists * w.slot_per_list
           m == w.n_valid
<1>1. N \in Nat /\ m \in Nat /\ m <= N
  <2>1. N \in Nat
    BY SweptGrid
  <2>2. m \in 0 .. N
    BY SweepAssumption
  <2> HIDE DEF N, m
  <2> QED BY <2>1, <2>2
<1>2. Slots = 1 .. N /\ \A i \in Slots : /\ grid[i].valid <=> i <= m
                                         /\ grid[i].visible <=> i - 1 \in V
  BY SweptGrid
<1> HIDE DEF N
<1>3. V \subseteq 0 .. m - 1
  OBVIOUS
<1> HIDE DEF m
<1>4. Valid = 1 .. m
  BY <1>1, <1>2 DEF Valid
<1>5. IsFiniteSet(V) /\ V \subseteq Nat
  BY <1>1, <1>3, FirstNumbers, FS_Subset
<1>6. {i \in Valid : grid[i].visible} = {x + 1 : x \in V}
  <2>1. ASSUME NEW i \in Valid, grid[i].visible PROVE \E x \in V : x + 1 = i
    <3>1. i \in Slots /\ i \in Int /\ i - 1 \in V
      BY <1>1, <1>2, <1>4, <2>1
    <3> QED BY <3>1
  <2>2. ASSUME NEW x \in V PROVE x + 1 \in Valid /\ grid[x + 1].visible
    <3>1. x + 1 \in Slots /\ x + 1 \in Valid /\ x + 1 - 1 = x
      BY <1>1, <1>2, <1>3, <1>4
    <3> QED BY <1>2, <3>1
  <2> QED BY <2>1, <2>2
<1>7. Cardinality({x + 1 : x \in V}) = Cardinality(V)
  BY <1>5, ShiftedSize
<1> QED BY <1>1, <1>2, <1>4, <1>6, <1>7 DEF VisibleCount, GridShape, m

(* When the first k valid slots are the visible ones, a mixed region has   *)
(* slot k, and regions have no slot in common.                             *)
LEMMA OneMixedRegion ==
  ASSUME GridShape, Divided, NEW d, Regioned(d), NEW m \in Nat, Valid = 1 .. m,
         NEW k \in 0 .. m, \A i \in Valid : grid[i].visible <=> i <= k
  PROVE  Cardinality({r \in Impure : HasValid(r)}) <= 1
<1> DEFINE R == {r \in Impure : HasValid(r)}
<1>1. ASSUME NEW r \in R PROVE r \in DOMAIN plan /\ k \in Named(r)
  <2>1. r \in DOMAIN plan /\ plan[r].type = "impure" /\ ValidCount(plan[r]) > 0
    BY DEF Impure, HasValid
  <2>2. ValidCount(plan[r]) = Cardinality(ValidPart(r))
    BY <2>1, RegionIsPriced
  <2>3. ValidPart(r) # {}
    BY <2>1, <2>2, FS_EmptySet
  <2>4. ValidPart(r) \subseteq Valid
    BY <2>1 DEF Divided, ValidPart, Valid
  <2>5. ClassifyRegionType(Named(r)) = "impure"
    BY <2>1 DEF Divided
  <2>6. ~ (\A i \in ValidPart(r) : grid[i].visible) /\ ~ (\A i \in ValidPart(r) : ~ grid[i].visible)
    <3>1. ValidPart(r) = {i \in Named(r) : grid[i].valid}
      BY Zenon DEF ValidPart
    <3>2. ASSUME \A i \in ValidPart(r) : grid[i].visible PROVE FALSE
      <4>1. ClassifyRegionType(Named(r)) = "pure_visible"
        BY <2>3, <3>1, <3>2, Zenon DEF ClassifyRegionType
      <4> QED BY <2>5, <4>1
    <3>3. ASSUME \A i \in ValidPart(r) : ~ grid[i].visible PROVE FALSE
      <4>1. ~ (\A i \in ValidPart(r) : grid[i].visible)
        BY <2>3, <3>3
      <4>2. ClassifyRegionType(Named(r)) = "pure_invisible"
        BY <2>3, <3>1, <3>3, <4>1, Zenon DEF ClassifyRegionType
      <4> QED BY <2>5, <4>2
    <3> QED BY <3>2, <3>3
  <2>7. PICK i \in ValidPart(r) : grid[i].visible
    BY <2>6
  <2>8. PICK j \in ValidPart(r) : ~ grid[j].visible
    BY <2>6
  <2>9. i \in 1 .. m /\ i <= k /\ j \in 1 .. m /\ k < j
    BY <2>4, <2>7, <2>8
  <2>10. i \in Named(r) /\ j \in Named(r) /\ i \in Valid /\ j \in Valid /\ k \in Valid
    BY <2>4, <2>7, <2>8, <2>9 DEF ValidPart
  <2> DEFINE a == (i - 1) \div d
             b == (k - 1) \div d
             c == (j - 1) \div d
  <2>11. d \in Nat \ {0} /\ a = c
    BY <2>1, <2>10 DEF Regioned
  <2>12. i - 1 \in Nat /\ k - 1 \in Nat /\ j - 1 \in Nat /\ i - 1 <= k - 1 /\ k - 1 <= j - 1
    BY <2>9
  <2>13. a <= b /\ b <= c
    <3> DEFINE x == i - 1
               y == k - 1
               z == j - 1
    <3>1. x \in Nat /\ y \in Nat /\ z \in Nat /\ x <= y /\ y <= z
      BY <2>12
    <3>2. d \in Nat \ {0} /\ d <= d
      BY <2>11
    <3> HIDE DEF x, y, z
    <3>3. x \div d <= y \div d
      BY <3>1, <3>2, DivGrows
    <3>4. y \div d <= z \div d
      BY <3>1, <3>2, DivGrows
    <3> QED BY <3>3, <3>4 DEF x, y, z
  <2>14. a \in Nat /\ b \in Nat /\ c \in Nat
    BY <2>11, <2>12, DivMod
  <2> HIDE DEF a, b, c
  <2>15. a = b
    BY <2>11, <2>13, <2>14
  <2> QED BY <2>1, <2>10, <2>15 DEF Regioned, a, b
<1>2. \A r, q \in R : r = q
  BY <1>1 DEF Divided
<1> HIDE DEF R
<1>3. CASE R = {}
  <2>1. Cardinality(R) = 0
    BY <1>3, FS_EmptySet
  <2> QED BY <2>1 DEF R
<1>4. CASE R # {}
  <2>1. PICK r \in R : TRUE
    BY <1>4
  <2>2. R = {r}
    BY <1>2
  <2>3. Cardinality(R) = 1
    BY <2>2, FS_Singleton
  <2> QED BY <2>3 DEF R
<1> QED BY <1>3, <1>4

LEMMA KeyedRegions ==
  ASSUME GridShape, NEW f, NEW g, g = [k \in {f[i] : i \in Slots} |-> {i \in Slots : f[i] = k}],
         plan = PlanOf(g), NEW d \in Nat \ {0},
         \A i, j \in Valid : f[i] = f[j] <=> (i - 1) \div d = (j - 1) \div d
  PROVE  Regioned(d)
<1>1. Partition(g)
  BY KeyedPartition
<1>2. DOMAIN plan = DOMAIN g /\ \A r \in DOMAIN g : Named(r) = g[r]
  BY <1>1, PlanOfNames
<1>3. ASSUME NEW r \in DOMAIN plan, NEW i \in Valid, NEW j \in Valid, i \in Named(r)
      PROVE  j \in Named(r) <=> (i - 1) \div d = (j - 1) \div d
  <2>1. Named(r) = {x \in Slots : f[x] = r}
    BY <1>2
  <2>2. i \in Slots /\ j \in Slots
    BY DEF Valid
  <2>3. f[i] = f[j] <=> (i - 1) \div d = (j - 1) \div d
    OBVIOUS
  <2>4. f[i] = r /\ (j \in Named(r) <=> f[j] = r)
    BY <1>3, <2>1, <2>2
  <2> QED BY <2>3, <2>4, Zenon
<1> QED BY <1>3 DEF Regioned

LEMMA LexicographicOrder ==
  ASSUME NEW a \in Nat, NEW b \in Nat, NEW s \in Nat \ {0}
  PROVE  (a \div s < b \div s \/ (a \div s = b \div s /\ a % s < b % s)) <=> a < b
<1> DEFINE p == a \div s
           q == b \div s
           x == a % s
           y == b % s
<1>1. p \in Nat /\ q \in Nat /\ x \in Nat /\ y \in Nat /\ a = s * p + x /\ b = s * q + y
  BY DivMod
<1>2. s <= s
  OBVIOUS
<1>3. a <= b => p <= q
  BY <1>2, DivGrows
<1>4. b <= a => q <= p
  BY <1>2, DivGrows
<1> HIDE DEF p, q, x, y
<1>5. CASE p = q
  <2> DEFINE z == s * p
  <2>1. z \in Nat /\ a = z + x /\ b = z + y
    BY <1>1, <1>5
  <2> HIDE DEF z
  <2>2. x < y <=> a < b
    BY <1>1, <2>1
  <2>3. ~ (p < q)
    BY <1>1, <1>5
  <2> QED BY <1>5, <2>2, <2>3 DEF p, q, x, y
<1>6. CASE p # q
  <2>1. p < q <=> a < b
    BY <1>1, <1>3, <1>4, <1>6
  <2> QED BY <1>6, <2>1 DEF p, q, x, y
<1> QED BY <1>5, <1>6

LEMMA EmptyGrid ==
  ASSUME Swept, grid # <<>> PROVE workload.case.slot_per_list \in Nat \ {0}
<1> DEFINE w == workload.case
           N == w.n_lists * w.slot_per_list
<1>1. w \in Sweeps /\ w.n_lists \in Nat /\ w.slot_per_list \in Nat
  BY SweepAssumption DEF Swept
<1>2. PICK V : grid = BuildSyntheticCandidates(w, V)
  BY Zenon DEF Swept
<1> SUFFICES ASSUME w.slot_per_list = 0 PROVE FALSE
  BY <1>1
<1>3. N = 0
  <2> HIDE DEF w
  <2> QED BY <1>1
<1>4. grid = [i \in 1 .. N |-> grid[i]]
  BY <1>2, Zenon DEF BuildSyntheticCandidates
<1> HIDE DEF N
<1>5. grid \in Seq(Range(grid)) /\ Len(grid) = 0
  BY <1>3, <1>4, ListShape
<1>6. grid = <<>>
  BY <1>5
<1> QED BY <1>6

(* Lists, classes and blocks take the valid slots in order.                *)
LEMMA SweptRegions ==
  ASSUME Swept, grid # <<>>, plan = PlanOf(Groups),
         request.strategy \in {"acl_class", "ivf_list", "fixed_block"}
  PROVE  \E d : Regioned(d)
<1> DEFINE w == workload.case
           s == w.slot_per_list
           N == w.n_lists * s
<1>1. w \in Sweeps /\ s \in Nat \ {0}
  BY EmptyGrid DEF Swept
<1>2. PICK V : grid = BuildSyntheticCandidates(w, V)
  BY Zenon DEF Swept
<1>3. /\ N \in Nat /\ Slots = 1 .. N
      /\ \A i \in Slots : /\ grid[i].list = (i - 1) \div s
                          /\ grid[i].slot = (i - 1) % s
                          /\ grid[i].class = grid[i].list
  BY <1>1, <1>2, SweptGrid
<1> HIDE DEF N
<1>4. GridShape
  BY <1>3 DEF GridShape
<1>5. Valid \subseteq Slots /\ \A i \in Valid : grid[i].valid
  BY DEF Valid
<1>6. CASE request.strategy = "acl_class"
  <2> DEFINE f == [i \in Slots |-> IF grid[i].valid THEN <<"acl", grid[i].class>>
                                   ELSE <<"invalid-list", grid[i].list>>]
             g == [k \in {f[i] : i \in Slots} |-> {i \in Slots : f[i] = k}]
  <2>1. Groups = GroupAclClass
    BY <1>6 DEF Groups
  <2>2. Groups = g
    BY <2>1, Zenon DEF GroupAclClass, GroupBy
  <2>3. \A i, j \in Valid : f[i] = f[j] <=> (i - 1) \div s = (j - 1) \div s
    <3> TAKE i, j \in Valid
    <3>1. f[i] = <<"acl", grid[i].class>> /\ f[j] = <<"acl", grid[j].class>>
      BY <1>5
    <3>2. grid[i].class = (i - 1) \div s /\ grid[j].class = (j - 1) \div s
      BY <1>3, <1>5
    <3> HIDE DEF f, s
    <3> QED BY <3>1, <3>2
  <2> HIDE DEF f, s
  <2> QED BY <1>1, <1>4, <2>2, <2>3, KeyedRegions
<1>7. CASE request.strategy = "ivf_list"
  <2> DEFINE f == [i \in Slots |-> grid[i].list]
             g == [k \in {f[i] : i \in Slots} |-> {i \in Slots : f[i] = k}]
  <2>1. Groups = GroupIvfList
    BY <1>7 DEF Groups
  <2>2. Groups = g
    BY <2>1, Zenon DEF GroupIvfList, GroupBy
  <2>3. \A i, j \in Valid : f[i] = f[j] <=> (i - 1) \div s = (j - 1) \div s
    BY <1>3, <1>5
  <2> HIDE DEF f, s
  <2> QED BY <1>1, <1>4, <2>2, <2>3, KeyedRegions
<1>8. CASE request.strategy = "fixed_block"
  <2> DEFINE bs == request.block_size
             before(i, j) == \/ grid[i].list < grid[j].list
                             \/ grid[i].list = grid[j].list /\ grid[i].slot < grid[j].slot
             rank(i) == Cardinality({j \in Slots : before(j, i)})
             f == [i \in Slots |-> rank(i) \div bs]
             g == [k \in {f[i] : i \in Slots} |-> {i \in Slots : f[i] = k}]
  <2>1. Groups = GroupFixedBlock(bs)
    BY <1>8 DEF Groups
  <2>2. Groups = g
    BY <2>1, Zenon DEF GroupFixedBlock, GroupBy
  <2>3. bs \in Nat \ {0}
    <3>1. w.grouping = "fixed_block" /\ bs = w.block_size
      BY <1>8 DEF Swept
    <3> QED BY <1>1, <3>1, SweepAssumption
  <2>4. ASSUME NEW i \in Slots PROVE rank(i) = i - 1
    <3>1. i \in 1 .. N /\ i - 1 \in Nat /\ i - 1 \in Int /\ 1 \in Int /\ 1 <= i - 1 + 1
      BY <1>3
    <3>2. ASSUME NEW j \in Slots PROVE before(j, i) <=> j < i
      <4> DEFINE a == j - 1
                 b == i - 1
      <4>1. a \in Nat /\ b \in Nat /\ (a < b <=> j < i)
        BY <1>3
      <4>2. /\ grid[j].list = a \div s /\ grid[j].slot = a % s
            /\ grid[i].list = b \div s /\ grid[i].slot = b % s
        BY <1>3
      <4> HIDE DEF a, b, s
      <4>3. (a \div s < b \div s \/ (a \div s = b \div s /\ a % s < b % s)) <=> a < b
        BY <1>1, <4>1, LexicographicOrder
      <4> QED BY <4>1, <4>2, <4>3
    <3> HIDE DEF before
    <3>3. {j \in Slots : before(j, i)} = 1 .. i - 1
      BY <1>3, <3>1, <3>2
    <3>4. Cardinality(1 .. i - 1) = i - 1 - 1 + 1
      BY <3>1, IntervalSize
    <3>5. rank(i) = Cardinality(1 .. i - 1)
      BY <3>3
    <3> HIDE DEF rank
    <3> QED BY <3>1, <3>4, <3>5
  <2>5. \A i \in Slots : f[i] = rank(i) \div bs
    BY Zenon
  <2> HIDE DEF f, rank, bs
  <2>6. \A i, j \in Valid : f[i] = f[j] <=> (i - 1) \div bs = (j - 1) \div bs
    BY <1>5, <2>4, <2>5
  <2> QED BY <1>4, <2>2, <2>3, <2>6, KeyedRegions
<1> QED BY <1>6, <1>7, <1>8

LEMMA SweptWorkloads ==
  ASSUME Swept, workload.case.mode # "beta", grid # <<>>, Divided, plan = PlanOf(Groups),
         request.strategy \in {"acl_class", "ivf_list", "fixed_block"}
  PROVE  /\ VisibleCount = workload.case.n_vis
         /\ Clustered(workload.case) => Cardinality({k \in Impure : HasValid(k)}) <= 1
<1> DEFINE w == workload.case
           m == w.n_valid
           n == w.n_vis
<1>1. w \in Sweeps /\ w.slot_per_list # 0
  BY EmptyGrid DEF Swept
<1>2. PICK V \in Visibilities(w) : grid = BuildSyntheticCandidates(w, V)
  BY Zenon DEF Swept
<1>3. /\ V \subseteq 0 .. m - 1 /\ Cardinality(V) = n
      /\ Clustered(w) => V = 0 .. n - 1
  BY <1>1, VisibilitiesAre
<1>4. GridShape /\ Valid = 1 .. m /\ VisibleCount = n
  BY <1>1, <1>2, <1>3, SweptVisible
<1>5. m \in Nat /\ n \in 0 .. m
  <2>1. /\ w.n_lists \in Nat /\ w.slot_per_list \in Nat
        /\ m \in 0 .. w.n_lists * w.slot_per_list /\ n \in 0 .. m
    BY <1>1, SweepAssumption
  <2> HIDE DEF w, m, n
  <2> QED BY <2>1
<1>6. ASSUME Clustered(w) PROVE Cardinality({k \in Impure : HasValid(k)}) <= 1
  <2>1. PICK d : Regioned(d)
    BY SweptRegions
  <2>2. \A i \in Slots : grid[i].visible <=> i - 1 \in V
    BY <1>1, <1>2, SweptGrid
  <2> HIDE DEF m, n
  <2>3. V = 0 .. n - 1
    BY <1>3, <1>6
  <2>4. \A i \in Valid : grid[i].visible <=> i <= n
    <3> TAKE i \in Valid
    <3>1. i \in Slots /\ i \in 1 .. m
      BY <1>4 DEF Valid
    <3>2. i - 1 \in 0 .. n - 1 <=> i <= n
      BY <1>5, <3>1
    <3> QED BY <2>2, <2>3, <3>1, <3>2
  <2> QED BY <1>4, <1>5, <2>1, <2>4, OneMixedRegion
<1> QED BY <1>4, <1>6

WInv ==
  /\ EInv
  /\ workload.kind = "sweep" =>
       /\ Swept
       /\ pc = "planned" => /\ Divided /\ grid # <<>> /\ plan = PlanOf(Groups)
                            /\ request.strategy \in {"acl_class", "ivf_list", "fixed_block"}

LEMMA InitSwept ==
  ASSUME Init, workload.kind = "sweep" PROVE Swept
<1>1. SweepInit
  <2>1. ~ FreeInit
    BY DEF FreeInit
  <2>2. ~ SignatureInit
    <3> SUFFICES ASSUME SignatureInit PROVE FALSE
      OBVIOUS
    <3>1. \E c, f, role, l, k :
            workload = [kind |-> "signature", case |-> c, signature |-> f,
                        role |-> role, layout |-> l, merged_k |-> k]
      BY Zenon DEF SignatureInit
    <3> QED BY <3>1
  <2> QED BY <2>1, <2>2 DEF Init
<1> DEFINE Case(w, V) ==
             /\ workload = [kind |-> "sweep", case |-> w]
             /\ grid = BuildSyntheticCandidates(w, V)
             /\ request.strategy = w.grouping /\ request.block_size = w.block_size
<1>2. PICK w \in Sweeps : \E V \in Visibilities(w) : Case(w, V)
  BY <1>1 DEF SweepInit
<1>3. PICK V \in Visibilities(w) : Case(w, V)
  BY <1>2
<1>4. workload.case = w
  BY <1>3
<1> QED BY <1>3, <1>4 DEF Swept

LEMMA SameGroups ==
  ASSUME UNCHANGED <<grid, request>> PROVE PlanOf(Groups)' = PlanOf(Groups)
<1>1. GroupIvfList' = GroupIvfList
  BY DEF GroupIvfList, GroupBy, Slots
<1>2. GroupAclClass' = GroupAclClass
  BY DEF GroupAclClass, GroupBy, Slots
<1>3. GroupFixedBlock(request.block_size)' = GroupFixedBlock(request.block_size)
  BY DEF GroupFixedBlock, GroupBy, Slots
<1>4. Groups' = Groups
  BY <1>1, <1>2, <1>3 DEF Groups
<1> QED BY <1>4 DEF PlanOf, MakeRegion, ClassifyRegionType, InOrder

LEMMA SameSwept ==
  ASSUME UNCHANGED <<grid, request, workload>> PROVE Swept' <=> Swept
BY DEF Swept

(* The workloads of the sweep, for every number of lists, slots and        *)
(* visible slots, every block size, locality and mode but the beta model:  *)
(* rounding, dealing out, clamping and moving on show exactly as many      *)
(* slots as the case asks for, and clustered visibility mixes at most one  *)
(* list, class or block.  (assign_visibility_locality,                     *)
(* assign_visibility_bits)                                                 *)
THEOREM WorkloadsHold == Spec => []WorkloadIsAsAsked
<1>1. Init => WInv
  <2> SUFFICES ASSUME Init PROVE WInv
    OBVIOUS
  <2>1. pc = "plan"
    BY DEF Init, PlanInit
  <2> QED BY <2>1, InitHInv, InitSwept DEF EInv, WInv
<1>2. WInv /\ [Next]_vars => WInv'
  <2> SUFFICES ASSUME WInv, [Next]_vars PROVE WInv'
    OBVIOUS
  <2>1. EInv'
    BY EInvIsInductive DEF WInv
  <2>2. UNCHANGED <<workload, grid, request>>
    BY DEF Next, vars, planVars, BuildAndCompareProofPlan, EvaluateCase, EvaluateLayout,
           BuildProofPlan, Alter, BuildLayoutProofPlan, ValidateProofPlan, Compare
  <2> SUFFICES ASSUME workload.kind = "sweep"
               PROVE  /\ Swept'
                      /\ (pc = "planned")' =>
                           /\ Divided' /\ grid' # <<>> /\ plan' = PlanOf(Groups)'
                           /\ request'.strategy \in {"acl_class", "ivf_list", "fixed_block"}
    BY <2>1, <2>2 DEF WInv
  <2>3. Swept'
    BY <2>2, SameSwept DEF WInv
  <2>4. CASE BuildProofPlan
    <3> SUFFICES ASSUME pc' = "planned"
                 PROVE  /\ Divided' /\ grid' # <<>> /\ plan' = PlanOf(Groups)'
                        /\ request'.strategy \in {"acl_class", "ivf_list", "fixed_block"}
      BY <2>3
    <3>1. Plannable /\ plan' = PlanOf(Groups)
      BY <2>4 DEF BuildProofPlan
    <3>2. Divided'
      BY <2>4, BuildDivides DEF WInv, EInv
    <3>3. plan' = PlanOf(Groups)'
      BY <2>2, <3>1, SameGroups
    <3> QED BY <2>2, <3>1, <3>2, <3>3 DEF Plannable, CandidateCoverage
  <2>5. CASE ValidateProofPlan \/ Compare
    <3>1. pc' # "planned"
      BY <2>5 DEF ValidateProofPlan, Compare
    <3> QED BY <2>3, <3>1
  <2>6. CASE UNCHANGED vars
    <3>1. UNCHANGED <<plan, pc>>
      BY <2>6 DEF vars, planVars
    <3> QED BY <2>2, <2>3, <3>1, SameGroups, SamePlanDivides DEF WInv
  <2> QED
    BY <2>4, <2>5, <2>6
       DEF Next, BuildAndCompareProofPlan, EvaluateCase, EvaluateLayout
<1>3. WInv => WorkloadIsAsAsked
  <2> SUFFICES ASSUME WInv, workload.kind = "sweep", pc = "planned",
                      workload.case.mode # "beta"
               PROVE  WorkloadIsAsAsked
    BY DEF WorkloadIsAsAsked
  <2>1. /\ VisibleCount = workload.case.n_vis
        /\ Clustered(workload.case) => Cardinality({k \in Impure : HasValid(k)}) <= 1
    BY SweptWorkloads DEF WInv
  <2> QED BY <2>1, Zenon DEF WorkloadIsAsAsked, Clustered
<1> QED
  BY <1>1, <1>2, <1>3, PTL DEF Spec
=============================================================================
