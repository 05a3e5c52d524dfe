------------------------------ MODULE Rebalance ------------------------------
(***************************************************************************)
(* rebalance_clusters of ivf_pq/rebalance.py: samples are moved out of the *)
(* clusters that exceed cluster_bound, in rounds.  A round fixes the free  *)
(* clusters and their capacity, proposes for every sample of every         *)
(* overfull cluster its nearest free cluster, and then tries the proposals *)
(* in the order of their cost.  The proposals are computed once per round, *)
(* so the sizes and capacities they were computed from go stale while they *)
(* are carried out; the tests inside the loop are there for that.          *)
(*                                                                         *)
(* Abstractions: the vectors are represented by the squared distance of    *)
(* each sample to each center (`dist', fixed, any values from DistRows);   *)
(* np.argsort is not stable, so proposals of equal cost come in any order. *)
(***************************************************************************)
EXTENDS Integers, FiniteSets

CONSTANTS Samples,      \* 0 .. N - 1, the rows of vecs
          Clusters,     \* 0 .. n_list - 1, the rows of centers
          Bounds,       \* values the caller may pass as cluster_bound
          LabelCounts,  \* values labels.shape[0] may have
          DistRows,     \* distances one sample may have: Clusters -> Int
          InitialLabels \* labellings k-means may hand over

ASSUME SamplesAssumption  == IsFiniteSet(Samples)
ASSUME ClustersAssumption == Clusters \subseteq Int /\ IsFiniteSet(Clusters)
ASSUME BoundsAssumption   == Bounds \subseteq Int
ASSUME DistAssumption     == DistRows \subseteq [Clusters -> Int]
ASSUME LabelsAssumption   == InitialLabels \subseteq [Samples -> Clusters]

VARIABLES
  dist,                 \* squared distances, sample by cluster
  cluster_bound,
  n_labels,             \* labels.shape[0]
  original_labels,
  new_labels,
  sizes,                \* the loop's running sizes, per cluster
  capacity_map,         \* free cluster |-> samples it can still take
  proposal,             \* candidate sample |-> [src, tgt] of this round
  todo,                 \* candidates the round has not tried yet
  moved_in_this_round,
  result,               \* <<id_groups, changed_count>> once returned
  pc                    \* "call", "round", "migrate", "done", "failed",
                        \* "rejected" (ValueError)

input == <<dist, cluster_bound, n_labels, original_labels>>
vars  == <<input, new_labels, sizes, capacity_map, proposal, todo,
           moved_in_this_round, result, pc>>

(* np.bincount(labels, minlength=n_list) *)
Members(labels, c) == {s \in Samples : labels[s] = c}
BinCount(labels) == [c \in Clusters |-> Cardinality(Members(labels, c))]

(* Mutant: a full cluster counts as free. *)
Free_NotStrict(sz) == {c \in Clusters : sz[c] <= cluster_bound}

(* Mutant: the last place of a cluster is not used. *)
Free_LastPlaceUnused(sz) == {c \in Clusters : sz[c] + 1 < cluster_bound}

Overfull(sz) == {c \in Clusters : sz[c] > cluster_bound}
Free(sz)     == {c \in Clusters : sz[c] < cluster_bound}

(* The argument checks that raise ValueError. *)
BadArguments ==
  \/ cluster_bound <= 0
  \/ n_labels # Cardinality(Samples)
  \/ Cardinality(Clusters) * cluster_bound < Cardinality(Samples)

(* np.argmin over the free clusters: the first one at the least distance. *)
IsNearest(s, c, free) ==
  \A d \in free : \/ dist[s][c] < dist[s][d]
                  \/ dist[s][c] = dist[s][d] /\ c <= d

(* The candidate lists of a round, as a function from the samples of the   *)
(* overfull clusters.                                                      *)
Proposals(cand, free) ==
  {[s \in cand |-> [src |-> new_labels[s], tgt |-> tgt[s]]] :
     tgt \in {t \in [cand -> free] : \A s \in cand : IsNearest(s, t[s], free)}}

Cost(s) == dist[s][proposal[s].tgt] - dist[s][proposal[s].src]


(* np.argsort(cand_cost): a candidate is tried when no other is cheaper. *)
IsCheapest(s) == \A r \in todo : Cost(s) <= Cost(r)

Capacity(c) == IF c \in DOMAIN capacity_map THEN capacity_map[c] ELSE 0

(* Mutants: a test of the loop is missing. *)
CanMigrate_NoCapacityTest(s) ==
  /\ sizes[proposal[s].src] > cluster_bound
  /\ new_labels[s] = proposal[s].src
CanMigrate_NoSourceTest(s) ==
  /\ Capacity(proposal[s].tgt) > 0
  /\ new_labels[s] = proposal[s].src

(* The three tests in front of a migration. *)
CanMigrate(s) ==
  /\ sizes[proposal[s].src] > cluster_bound
  /\ Capacity(proposal[s].tgt) > 0
  /\ new_labels[s] = proposal[s].src

-----------------------------------------------------------------------------
Init ==
  /\ dist \in [Samples -> DistRows]
  /\ cluster_bound \in Bounds
  /\ n_labels \in LabelCounts
  /\ original_labels \in InitialLabels
  /\ new_labels = original_labels
  /\ sizes = [c \in Clusters |-> 0]
  /\ capacity_map = <<>>
  /\ proposal = <<>>
  /\ todo = {}
  /\ moved_in_this_round = 0
  /\ result = <<>>
  /\ pc = "call"

CheckArguments ==
  /\ pc = "call"
  /\ pc' = IF BadArguments THEN "rejected" ELSE "round"
  /\ UNCHANGED <<input, new_labels, sizes, capacity_map, proposal, todo,
                 moved_in_this_round, result>>

(* Top of the loop with an overfull cluster left: either one of the two    *)
(* defensive RuntimeErrors, or the proposals of a new round.               *)
BeginRound ==
  /\ pc = "round"
  /\ sizes' = BinCount(new_labels)
  /\ Overfull(sizes') # {}
  /\ LET free == Free(sizes')
         cand == {s \in Samples : new_labels[s] \in Overfull(sizes')}
     IN IF free = {} \/ cand = {}
        THEN /\ pc' = "failed"
             /\ UNCHANGED <<capacity_map, proposal, todo, moved_in_this_round>>
        ELSE /\ capacity_map' = [c \in free |-> cluster_bound - sizes'[c]]
             /\ proposal' \in Proposals(cand, free)
             /\ todo' = cand
             /\ moved_in_this_round' = 0
             /\ pc' = "migrate"
  /\ UNCHANGED <<input, new_labels, result>>

(* The three `continue's. *)
Skip(s) ==
  /\ pc = "migrate"
  /\ s \in todo /\ IsCheapest(s)
  /\ ~CanMigrate(s)
  /\ todo' = todo \ {s}
  /\ UNCHANGED <<input, new_labels, sizes, capacity_map, proposal,
                 moved_in_this_round, result, pc>>


(* The body of the loop when the three tests pass. *)
Migrate(s) ==
  /\ pc = "migrate"
  /\ s \in todo /\ IsCheapest(s)
  /\ CanMigrate(s)
  /\ LET src == proposal[s].src
         tgt == proposal[s].tgt
     IN /\ new_labels' = [new_labels EXCEPT ![s] = tgt]
        /\ sizes' = [sizes EXCEPT ![src] = @ - 1, ![tgt] = @ + 1]
        /\ capacity_map' = [capacity_map EXCEPT ![tgt] = @ - 1]
  /\ todo' = todo \ {s}
  /\ moved_in_this_round' = moved_in_this_round + 1
  /\ UNCHANGED <<input, proposal, result, pc>>

EndRound ==
  /\ pc = "migrate"
  /\ todo = {}
  /\ pc' = IF moved_in_this_round = 0 THEN "failed" ELSE "round"
  /\ UNCHANGED <<input, new_labels, sizes, capacity_map, proposal, todo,
                 moved_in_this_round, result>>

(* Top of the loop with no overfull cluster: build id_groups and return. *)
Return ==
  /\ pc = "round"
  /\ sizes' = BinCount(new_labels)
  /\ Overfull(sizes') = {}
  /\ result' = [id_groups     |-> [c \in Clusters |-> Members(new_labels, c)],
                changed_count |-> Cardinality({s \in Samples :
                                     new_labels[s] # original_labels[s]})]
  /\ pc' = "done"
  /\ UNCHANGED <<input, new_labels, capacity_map, proposal, todo,
                 moved_in_this_round>>

Next ==
  \/ CheckArguments
  \/ BeginRound
  \/ \E s \in Samples : Skip(s)
  \/ \E s \in Samples : Migrate(s)
  \/ EndRound
  \/ Return

(* One sequential call: the interpreter keeps executing it. *)
Fairness == WF_vars(Next)
Spec == Init /\ [][Next]_vars /\ Fairness
-----------------------------------------------------------------------------
TypeOK ==
  /\ dist \in [Samples -> DistRows]
  /\ cluster_bound \in Bounds
  /\ n_labels \in LabelCounts
  /\ original_labels \in [Samples -> Clusters]
  /\ new_labels \in [Samples -> Clusters]
  /\ sizes \in [Clusters -> Int]
  /\ todo \subseteq DOMAIN proposal
  /\ DOMAIN proposal \subseteq Samples
  /\ \A s \in DOMAIN proposal :
       proposal[s] \in [src : Clusters, tgt : DOMAIN capacity_map]
  /\ DOMAIN capacity_map \subseteq Clusters
  /\ \A c \in DOMAIN capacity_map : capacity_map[c] \in Int
  /\ moved_in_this_round \in Nat
  /\ pc \in {"call", "round", "migrate", "done", "failed", "rejected"}

(* While proposals are carried out, the three views of the assignment that *)
(* the loop keeps by hand agree: the running sizes are the sizes of the    *)
(* clusters, and what is left of a free cluster's capacity is the bound    *)
(* less its size.                                                          *)
BookkeepingAgrees ==
  pc = "migrate" =>
    /\ sizes = BinCount(new_labels)
    /\ \A c \in DOMAIN capacity_map :
         /\ capacity_map[c] = cluster_bound - sizes[c]
         /\ capacity_map[c] >= 0

(* The three RuntimeErrors of the loop ("no target cluster", "no           *)
(* candidate", "no progress") are unreachable for arguments that pass the  *)
(* checks.                                                                 *)
NeverStuck == pc # "failed"

(* Sample moves once at most in the whole call: what migrated stays where  *)
(* it was put, although later rounds start from the new labels.            *)
MovesOnce ==
  [][\A s \in Samples : new_labels[s] # original_labels[s]
                          => new_labels'[s] = new_labels[s]]_vars

(* The result needs no more migrations than any assignment within the      *)
(* bound does: exactly the surplus of the clusters that were too large,    *)
(* every cluster that was within the bound keeps all of its own samples,   *)
(* and no cluster ends above the bound.                                    *)
Surplus(c) == LET n == Cardinality(Members(original_labels, c))
              IN IF n > cluster_bound THEN n - cluster_bound ELSE 0
ReturnsMinimalChange ==
  pc = "done" =>
    /\ \A c \in Clusters :
         LET gone == Members(original_labels, c) \ Members(new_labels, c)
         IN Cardinality(gone) = Surplus(c)
    /\ \A c \in Clusters : Cardinality(result.id_groups[c]) <= cluster_bound


(* Every call returns or raises ValueError. *)
Terminates == <>(pc \in {"done", "rejected"})

(* The loop implements the abstract reassignment. *)
Abstract == INSTANCE BalancedAssignment WITH
  assign     <- new_labels,
  limit      <- cluster_bound,
  wellFormed <- n_labels = Cardinality(Samples),
  status     <- IF pc = "done" THEN "delivered"
                ELSE IF pc = "rejected" THEN "rejected" ELSE "working"
Reassigns == Abstract!Spec
=============================================================================
