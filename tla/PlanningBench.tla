---------------------------- MODULE PlanningBench ----------------------------
(***************************************************************************)
(* Plans over the grids they are made for: any grid, those of the sweep of *)
(* visible ratios, and those of access signatures with their layouts.  A   *)
(* behaviour is one case of a benchmark: a workload, its plan, validation, *)
(* and both references.                                                    *)
(***************************************************************************)
EXTENDS ProofPlanning, SweepWorkload, AccessSignatures

CONSTANTS FreeGrids, FreeRequests,   \* what callers may bring themselves
          Sweeps,                    \* cases of bench_proof_planning_model
          SignatureCases             \* configurations of the layout evaluation

(* Grids are lists.  A sweep has whole numbers of lists and slots, no more *)
(* valid slots than slots (build_synthetic_candidates raises) nor visible  *)
(* than valid ones (their number is clamped); blocks have a size.          *)
(* The layout evaluation raises without objects.                           *)
ASSUME GridAssumption == \A g \in FreeGrids : g \in Seq(Range(g))
ASSUME SweepAssumption ==
  \A w \in Sweeps :
    /\ w.n_lists \in Nat /\ w.slot_per_list \in Nat
    /\ w.n_valid \in 0 .. w.n_lists * w.slot_per_list /\ w.n_vis \in 0 .. w.n_valid
    /\ w.grouping = "fixed_block" => w.block_size \in Nat \ {0}
    /\ w.mode \in {"clustered", "mixed", "adversarial_mixed", "beta", "locality"}
    /\ w.mode = "locality" => w.locality \in 0 .. Quarters
ASSUME ObjectsAssumption ==
  \A c \in SignatureCases : /\ c.num_objects \in Nat \ {0}
                            /\ c.num_roles \in Nat /\ c.num_signatures \in Nat

VARIABLE workload

vars == <<planVars, workload>>

FreeInit ==
  /\ workload = [kind |-> "free"]
  /\ grid \in FreeGrids
  /\ request \in FreeRequests

SweepInit ==
  \E w \in Sweeps : \E visible \in Visibilities(w) :
    /\ workload = [kind |-> "sweep", case |-> w]
    /\ grid = BuildSyntheticCandidates(w, visible)
    /\ request = [strategy |-> w.grouping, block_size |-> w.block_size,
                  bound |-> {grid[i].class : i \in DOMAIN grid},
                  n_probe |-> w.n_lists, slots_per_list |-> w.slot_per_list]

Layouts(c) ==
  ({"global", "acl_signature", "oracle_authorized_view"} \X {0})
    \cup ({"merged_k"} \X (1 .. c.num_signatures))

SignatureInit ==
  \E c \in SignatureCases : \E f \in SignatureAssignments(c),
     role \in Roles(c), l \in Layouts(c) :
    LET dims == PlacedDims(c, GridDims(c)) IN
    /\ workload = [kind |-> "signature", case |-> c, signature |-> f,
                   role |-> role, layout |-> l[1], merged_k |-> l[2]]
    /\ grid = AccessSignatureGrid(c, dims, f, role)
    /\ request = [strategy |-> l[1], block_size |-> 0, bound |-> {},
                  n_probe |-> dims.n_lists, slots_per_list |-> dims.slot_per_list]

Init == PlanInit /\ (FreeInit \/ SweepInit \/ SignatureInit)

LayoutPlan(layout, merged_k) ==
  PlanOf(LayoutGroups(layout, merged_k, workload.signature, grid))

(* build_layout_proof_plan does not look at the coverage of the grid.      *)
BuildLayoutProofPlan ==
  /\ pc = "plan"
  /\ plan' = LayoutPlan(workload.layout, workload.merged_k)
  /\ pc' = "planned"
  /\ UNCHANGED <<grid, request, edits, errors, planned, masked>>

(* What a caller brings is planned, and its plan may be altered on the way. *)
BuildAndCompareProofPlan ==
  /\ workload.kind = "free"
  /\ BuildProofPlan \/ Alter \/ ValidateProofPlan \/ Compare

(* evaluate_case of the sweep, and evaluate_layout: plan, validate, compare. *)
EvaluateCase ==
  /\ workload.kind = "sweep"
  /\ BuildProofPlan \/ ValidateProofPlan \/ Compare

EvaluateLayout ==
  /\ workload.kind = "signature"
  /\ BuildLayoutProofPlan \/ ValidateProofPlan \/ Compare

Next ==
  /\ UNCHANGED workload
  /\ BuildAndCompareProofPlan \/ EvaluateCase \/ EvaluateLayout

Spec == Init /\ [][Next]_vars

-----------------------------------------------------------------------------

(* What validation checks of the structure of a plan suffices: execution   *)
(* over regions never differs from the masked reference, so that the       *)
(* comparison at its end never is what rejects a plan, whatever was        *)
(* altered.  (validate_proof_plan, "prover cannot self-declare")           *)
ValidatedEqualsMasked ==
  /\ "not equivalent" \notin errors
  /\ (pc = "compared" /\ errors = {}) => Equivalent(planned, masked)

(* A plan nobody altered is executed, and passes, over every grid it could *)
(* be built for, whatever groups it: ragged blocks, lists of padding,      *)
(* classes that mix visible objects with others.                           *)
HonestPlansPass ==
  (edits = 0 /\ plan # <<>>) => (errors = {} /\ pc # "raised")

HasValid(k) == ValidCount(plan[k]) > 0
Impure      == {k \in DOMAIN plan : plan[k].type = "impure"}

(* The estimates of a built plan: it computes at least the distances of    *)
(* the visible slots and at most those of all valid ones; its parts add up *)
(* to its cost, which two functions compute on their own; and it never     *)
(* costs more than masking beyond the certificates of impure regions and   *)
(* of visible regions with a single slot.                                  *)
EstimatesAreBounded ==
  (edits = 0 /\ pc = "planned") =>
    LET parts == PlanCostBreakdown(plan, DefaultCostParams)
        costs == EstimateProofPlanCost(plan)
        lone  == {k \in DOMAIN plan :
                    plan[k].type = "pure_visible" /\ ValidCount(plan[k]) = 1}
    IN /\ DistanceCount(plan) \in VisibleCount .. Cardinality(Valid)
       /\ parts.distance = DefaultCostParams.dist * DistanceCount(plan)
       /\ costs.plan = parts.region + parts.visibility + parts.distance
                         + parts.mask_topk
       /\ costs.plan <= costs.masked + 2 * Cardinality(Impure) + Cardinality(lone)

(* Every locality and every purity mode but the beta model shows exactly   *)
(* as many slots as the case asks for, after all rounding, clamping and    *)
(* moving on, and visibility that is clustered leaves at most one list or  *)
(* block with mixed slots.  (docstrings of assign_visibility_locality and  *)
(* assign_visibility_bits)                                                 *)
WorkloadIsAsAsked ==
  (workload.kind = "sweep" /\ pc = "planned" /\ workload.case.mode # "beta") =>
    LET w == workload.case
        clustered == w.mode = "clustered" \/ (w.mode = "locality" /\ w.locality = Quarters)
    IN /\ VisibleCount = w.n_vis
       /\ clustered => Cardinality({k \in Impure : HasValid(k)}) <= 1

Pure(k) == ~ HasValid(k) \/ k \notin Impure

(* The amplification the evaluation records: num_regions is the number of  *)
(* regions of the plan.                                                    *)
SaCommit(layout, merged_k) ==
  EstimateSaCommitment(layout, workload.case,
    Cardinality(DOMAIN LayoutPlan(layout, merged_k)),
    MapThenSumSet(LAMBDA o : Cardinality(workload.signature[o]),
                  DOMAIN workload.signature))

(* Over access signatures: the plan sees the objects whose signature has   *)
(* the role of the query, no region of one signature is mixed for any      *)
(* role, the regions of one signature store no less than merged ones, and  *)
(* the more are merged the less; and no layout has a cheaper plan than the *)
(* authorized view itself, save for the certificate of padding that the    *)
(* single region of the global layout does not need.                       *)
LayoutsKeepTheirPromise ==
  (workload.kind = "signature" /\ pc = "planned") =>
    LET layout == workload.layout
        k      == workload.merged_k
        padded == Cardinality(Valid) < Len(grid)
        oracle == EstimateProofPlanCost(LayoutPlan("oracle_authorized_view", 0)).plan
    IN /\ VisibleCount = Cardinality({o \in DOMAIN workload.signature :
              ObjectVisibleForRole(workload.signature[o], workload.role)})
       /\ (layout \in {"acl_signature", "oracle_authorized_view"}
             \/ (layout = "merged_k" /\ k = 1)) => \A r \in DOMAIN plan : Pure(r)
       /\ layout = "merged_k" =>
             SaCommit("merged_k", k) <= SaCommit(IF k = 1 THEN "acl_signature"
                                                 ELSE "merged_k", k - 1)
       /\ oracle <= EstimateProofPlanCost(plan).plan
                      + (IF layout = "global" /\ padded THEN 2 ELSE 0)
=============================================================================
