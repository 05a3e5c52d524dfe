----------------------------- MODULE MCRebalance -----------------------------
(* Four samples and four clusters, with one cluster that is overfull by    *)
(* enough for several rounds, or with two that compete for the free ones.  *)
EXTENDS Rebalance

(* Rows with a least distance at cluster 0, 1 or 2, a flat one, and one    *)
(* with two clusters at the least distance.                                *)
Rows == {[c \in Clusters |-> IF c = d THEN 0 ELSE 1 + c] : d \in {0, 1, 2}}
        \cup {[c \in Clusters |-> 1], [c \in Clusters |-> IF c \in {2, 3} THEN 0 ELSE 1]}

Labels == {l \in [Samples -> Clusters] :
             \/ Cardinality(Members(l, 0)) >= 3
             \/ Cardinality(Members(l, 0)) = 2 /\ Cardinality(Members(l, 1)) = 2}
=============================================================================
