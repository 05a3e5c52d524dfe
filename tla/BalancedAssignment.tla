------------------------- MODULE BalancedAssignment -------------------------
(***************************************************************************)
(* What ivf_pq/rebalance.py promises about the assignment of samples to    *)
(* the clusters of an inverted file, with no word about rounds, candidate  *)
(* lists or costs: a sample only ever leaves a cluster that holds too many *)
(* samples, it only ever enters a cluster that has room left, the result   *)
(* is delivered once no cluster is too large, and the only requests that   *)
(* are rejected are those that nobody could serve.                         *)
(***************************************************************************)
EXTENDS Integers, FiniteSets

CONSTANTS Samples,   \* the rows of the sample matrix
          Clusters   \* the rows of the center matrix

VARIABLES assign,    \* the cluster of each sample
          limit,     \* the largest size a cluster may have
          wellFormed,\* do the shapes of the arguments agree?
          status     \* "working", "delivered" or "rejected"

vars == <<assign, limit, wellFormed, status>>

Size(c) == Cardinality({s \in Samples : assign[s] = c})

Feasible ==
  /\ wellFormed
  /\ limit \in Nat \ {0}
  /\ Cardinality(Clusters) * limit >= Cardinality(Samples)

Init ==
  /\ assign \in [Samples -> Clusters]
  /\ wellFormed \in BOOLEAN
  /\ status = "working"

Reject ==
  /\ status = "working"
  /\ ~Feasible
  /\ status' = "rejected"
  /\ UNCHANGED <<assign, limit, wellFormed>>

(* One sample moves from a crowded cluster to one with room. *)
Move(s, c) ==
  /\ status = "working"
  /\ Feasible
  /\ Size(assign[s]) > limit
  /\ Size(c) < limit
  /\ assign' = [assign EXCEPT ![s] = c]
  /\ UNCHANGED <<limit, wellFormed, status>>

Deliver ==
  /\ status = "working"
  /\ Feasible
  /\ \A c \in Clusters : Size(c) <= limit
  /\ status' = "delivered"
  /\ UNCHANGED <<assign, limit, wellFormed>>

Next ==
  \/ Reject
  \/ \E s \in Samples, c \in Clusters : Move(s, c)
  \/ Deliver

Spec == Init /\ [][Next]_vars
=============================================================================
