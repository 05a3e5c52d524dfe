---------------------------- MODULE ProofPlanning ----------------------------
(***************************************************************************)
(* A proof plan divides the slots of a candidate grid into regions.  What  *)
(* a region is taken for decides how its slots are scored: the slots of a  *)
(* pure region without looking at their labels.  A plan is built from the  *)
(* grid, possibly altered by whoever hands it on, validated, and executed  *)
(* beside the masked reference.                                            *)
(*                                                                         *)
(* A candidate is [list, slot, class, valid, visible, distance]; `visible' *)
(* is the verdict of the policy on its label (module AuthPolicy).  Its id  *)
(* only breaks ties: ids are taken to be in the order of the slots.  A     *)
(* plan maps the keys of its regions to [type, slots], `slots' being a     *)
(* sequence of positions in the grid.                                      *)
(***************************************************************************)
EXTENDS Integers, Sequences, FiniteSets, FiniteSetsExt, SequencesExt

CONSTANTS DMax,        \* the distance of what may not be returned
          TopK,
          MaxEdits     \* alterations of a plan on its way

VARIABLES grid,
          request,     \* [strategy, block_size, bound, n_probe, slots_per_list]
          plan, edits,
          errors, planned, masked,
          pc

planVars == <<grid, request, plan, edits, errors, planned, masked, pc>>

Slots == DOMAIN grid
Valid == {i \in Slots : grid[i].valid}

PlanInit ==
  /\ plan = <<>> /\ edits = 0
  /\ errors = {} /\ planned = <<>> /\ masked = <<>>
  /\ pc = "plan"

(***************************************************************************)
(* The reference.                                                          *)
(***************************************************************************)

ComputeMaskedDistance(c, visibility) ==
  LET hat == IF visibility THEN c.distance ELSE DMax
  IN [hat |-> hat, masked |-> IF c.valid THEN hat ELSE DMax]

ScoreCandidate(c) == ComputeMaskedDistance(c, c.visible)

(* The slots of the k best by masked distance, ties by id.                 *)
AuthorizedTopK(scored) ==
  {i \in DOMAIN scored :
     TopK > Cardinality({j \in DOMAIN scored :
               \/ scored[j].masked < scored[i].masked
               \/ scored[j].masked = scored[i].masked /\ j < i})}

(* n_probe and slots_per_list are 0 where the caller does not state them.  *)
CandidateCoverage ==
  LET placed(i) == <<grid[i].list, grid[i].slot>>
      lists     == {grid[i].list : i \in Slots}
  IN /\ grid # <<>>
     /\ \A i, j \in Slots : placed(i) = placed(j) => i = j
     /\ (request.n_probe # 0 /\ request.slots_per_list # 0) =>
          /\ Len(grid) = request.n_probe * request.slots_per_list
          /\ Cardinality(lists) = request.n_probe
          /\ \A l \in lists : request.slots_per_list =
                                Cardinality({i \in Slots : grid[i].list = l})

(***************************************************************************)
(* Building a plan.                                                        *)
(***************************************************************************)

(* Padding neither makes a region pure nor spoils it; a region of padding  *)
(* alone is impure.                                                        *)
ClassifyRegionType(S) ==
  LET V == {i \in S : grid[i].valid}
  IN IF V # {} /\ (\A i \in V : grid[i].visible) THEN "pure_visible"
     ELSE IF V # {} /\ (\A i \in V : ~ grid[i].visible) THEN "pure_invisible"
     ELSE "impure"

(* The slots S in ascending order: the p-th has p - 1 before it.           *)
InOrder(S) ==
  [p \in 1 .. Cardinality(S) |->
     CHOOSE i \in S : Cardinality({j \in S : j < i}) = p - 1]

MakeRegion(S) == [type |-> ClassifyRegionType(S), slots |-> InOrder(S)]

(* The slots of the regions of a grouping, keyed by what they share.       *)
GroupBy(key(_)) ==
  [k \in {key(i) : i \in Slots} |-> {i \in Slots : key(i) = k}]

GroupIvfList == GroupBy(LAMBDA i : grid[i].list)

GroupAclClass ==
  GroupBy(LAMBDA i : IF grid[i].valid THEN <<"acl", grid[i].class>>
                                      ELSE <<"invalid-list", grid[i].list>>)

(* Mutant: the last, shorter block is left out.                            *)
GroupFixedBlock_Whole(block_size) ==
  [b \in 0 .. (Len(grid) \div block_size) - 1 |->
     {i \in Slots : (i - 1) \div block_size = b}]

(* Blocks of slots in the order of lists and slots.                        *)
GroupFixedBlock(block_size) ==
  LET before(i, j) == \/ grid[i].list < grid[j].list
                      \/ grid[i].list = grid[j].list /\ grid[i].slot < grid[j].slot
  IN GroupBy(LAMBDA i : Cardinality({j \in Slots : before(j, i)}) \div block_size)

Groups ==
  CASE request.strategy = "acl_class"   -> GroupAclClass
    [] request.strategy = "ivf_list"    -> GroupIvfList
    [] request.strategy = "fixed_block" -> GroupFixedBlock(request.block_size)

PlanOf(groups) == [k \in DOMAIN groups |-> MakeRegion(groups[k])]

(* What build_proof_plan raises for: no coverage, a strategy it does not   *)
(* know, blocks of no size, and a valid candidate whose class is not among *)
(* the bindings handed in.                                                 *)
Plannable ==
  /\ CandidateCoverage
  /\ request.strategy \in {"acl_class", "ivf_list", "fixed_block"}
  /\ request.strategy = "fixed_block" => request.block_size > 0
  /\ request.strategy = "acl_class" =>
       \A i \in Valid : grid[i].class \in request.bound

BuildProofPlan ==
  /\ pc = "plan"
  /\ IF Plannable
     THEN plan' = PlanOf(Groups) /\ pc' = "planned"
     ELSE UNCHANGED plan /\ pc' = "raised"
  /\ UNCHANGED <<grid, request, edits, errors, planned, masked>>

(* A plan is data, and whoever proves may hand on another one: a region    *)
(* of another type, with a slot more or less, or one region more.          *)
Alter ==
  /\ pc = "planned" /\ edits < MaxEdits
  /\ edits' = edits + 1
  /\ \/ \E r \in DOMAIN plan, t \in {"pure_visible", "pure_invisible", "impure"} :
          plan' = [plan EXCEPT ![r].type = t]
     \/ \E r \in DOMAIN plan : \E p \in DOMAIN plan[r].slots :
          plan' = [plan EXCEPT ![r].slots = RemoveAt(@, p)]
     \/ \E r \in DOMAIN plan, i \in Slots :
          plan' = [plan EXCEPT ![r].slots = Append(@, i)]
     \/ \E r \in DOMAIN plan :
          plan' = [k \in DOMAIN plan \ {r} |-> plan[k]]
  /\ UNCHANGED <<grid, request, errors, planned, masked, pc>>

(***************************************************************************)
(* Executing a plan.                                                       *)
(***************************************************************************)

(* The places of the plan that name slot i.                                *)
Mentions(i) ==
  {m \in UNION {{r} \X DOMAIN plan[r].slots : r \in DOMAIN plan} :
     plan[m[1]].slots[m[2]] = i}

(* _index_to_region raises for a slot that is named twice, and its caller  *)
(* for one that is not named.                                              *)
Executable == \A i \in Slots : \E m \in Mentions(i) : Mentions(i) = {m}

RegionOf(i) == plan[CHOOSE r \in DOMAIN plan : \E m \in Mentions(i) : m[1] = r]

ScoreSlotInRegion(i) ==
  LET type == RegionOf(i).type
  IN ComputeMaskedDistance(grid[i],
       IF type = "impure" \/ ~ grid[i].valid THEN grid[i].visible
                                             ELSE type = "pure_visible")

PlannedScores == [i \in Slots |-> ScoreSlotInRegion(i)]
MaskedScores  == [i \in Slots |-> ScoreCandidate(grid[i])]

Equivalent(s, t) == s = t /\ AuthorizedTopK(s) = AuthorizedTopK(t)

(***************************************************************************)
(* Validation.                                                             *)
(***************************************************************************)

Named(r) == {plan[r].slots[p] : p \in DOMAIN plan[r].slots}

(* Mutant: the type a plan claims is believed.                             *)
StructuralErrors_Trusting ==
  (IF \E i \in Slots : \E m, n \in Mentions(i) : m # n
   THEN {"duplicate coverage"} ELSE {})
  \cup (IF \E i \in Slots : Mentions(i) = {} THEN {"missing coverage"} ELSE {})

StructuralErrors ==
  (IF \E i \in Slots : \E m, n \in Mentions(i) : m # n
   THEN {"duplicate coverage"} ELSE {})
  \cup (IF \E r \in DOMAIN plan : plan[r].type # ClassifyRegionType(Named(r))
        THEN {"claimed type"} ELSE {})
  \cup (IF \E r \in DOMAIN plan : \E i \in Named(r) :
             /\ grid[i].valid
             /\ \/ plan[r].type = "pure_visible" /\ ~ grid[i].visible
                \/ plan[r].type = "pure_invisible" /\ grid[i].visible
        THEN {"slot against the type of its region"} ELSE {})
  \cup (IF \E i \in Slots : Mentions(i) = {} THEN {"missing coverage"} ELSE {})

(* The comparison runs behind the structural checks only.  It checks the   *)
(* coverage of the grid first, and raises where that fails.                *)
ValidateProofPlan ==
  /\ pc = "planned"
  /\ IF StructuralErrors = {} /\ ~ CandidateCoverage
     THEN UNCHANGED errors /\ pc' = "raised"
     ELSE /\ errors' = IF \/ StructuralErrors # {}
                          \/ Equivalent(PlannedScores, MaskedScores)
                       THEN StructuralErrors
                       ELSE {"not equivalent"}
          /\ pc' = "validated"
  /\ UNCHANGED <<grid, request, plan, edits, planned, masked>>

(* Both references on one grid.  A plan may be executed whatever its       *)
(* validation said.                                                        *)
Compare ==
  /\ pc = "validated"
  /\ IF CandidateCoverage /\ Executable
     THEN /\ planned' = PlannedScores /\ masked' = MaskedScores
          /\ pc' = "compared"
     ELSE UNCHANGED <<planned, masked>> /\ pc' = "raised"
  /\ UNCHANGED <<grid, request, plan, edits, errors>>

(***************************************************************************)
(* What a plan p is estimated to cost.                                     *)
(***************************************************************************)

DefaultCostParams ==
  [dist |-> 10, vis |-> 3, mask |-> 1, pure |-> 5, impure |-> 2, topk |-> 1,
   compact |-> 5]

ValidCount(r) == Cardinality({i \in Range(r.slots) : grid[i].valid})
VisibleCount  == Cardinality({i \in Valid : grid[i].visible})

(* Mutant: pure invisible regions are computed after all.                  *)
RegionCounts_All(r) ==
  [dist |-> ValidCount(r), vis |-> IF r.type = "impure" THEN ValidCount(r) ELSE 0]

RegionCounts(r) ==
  CASE r.type = "pure_visible"   -> [dist |-> ValidCount(r), vis |-> 0]
    [] r.type = "pure_invisible" -> [dist |-> 0, vis |-> 0]
    [] r.type = "impure"         -> [dist |-> ValidCount(r), vis |-> ValidCount(r)]

DistanceCount(p) == SumFunction([k \in DOMAIN p |-> RegionCounts(p[k]).dist])

(* _plan_cost_breakdown goes through the regions once more, with weights c. *)
PlanCostBreakdown(p, c) ==
  LET impure == {k \in DOMAIN p : p[k].type = "impure"}
      hidden == {k \in DOMAIN p : p[k].type = "pure_invisible"}
      valid(K) == SumFunctionOnSet([k \in DOMAIN p |-> ValidCount(p[k])], K)
  IN [region     |-> c.impure * Cardinality(impure)
                       + c.pure * Cardinality(DOMAIN p \ impure),
      visibility |-> c.vis * valid(impure),
      distance   |-> c.dist * valid(DOMAIN p \ hidden),
      mask_topk  |-> c.mask * valid(impure) + c.topk * Cardinality(Valid)]

EstimateProofPlanCost(p) ==
  LET c == DefaultCostParams
      region(k) == CASE p[k].type = "pure_visible" ->
                          c.pure + c.dist * ValidCount(p[k])
                     [] p[k].type = "pure_invisible" -> c.pure
                     [] p[k].type = "impure" ->
                          c.impure + (c.vis + c.dist + c.mask) * ValidCount(p[k])
      n_valid == Cardinality(Valid)
  IN [masked |-> n_valid * (c.vis + c.dist + c.mask + c.topk),
      plan   |-> SumFunction([k \in DOMAIN p |-> region(k)]) + n_valid * c.topk,
      ideal  |-> n_valid * c.vis + VisibleCount * (c.dist + c.topk) + c.compact]
=============================================================================
