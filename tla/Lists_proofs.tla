----------------------------- MODULE Lists_proofs -----------------------------
(***************************************************************************)
(* Proofs about the lists of the index: that clusters become lists of      *)
(* equal length (Rebalance), and that the trees over their slots bind      *)
(* labels to them (SlotAlignedTree).                                       *)
(***************************************************************************)
EXTENDS Rebalance, SlotAlignedTree, FiniteSetTheorems, WellFoundedInduction, TLAPS

(***************************************************************************)
(* Proofs about Rebalance for every set of samples and clusters, every     *)
(* bound and all distances.  The safety of a round rests on one inductive  *)
(* invariant: the running sizes are the true sizes, the remaining capacity *)
(* of a free cluster is the bound less its size, and a candidate that was  *)
(* not tried yet still is where the round found it.  That the result takes *)
(* no more moves than it must rests on which clusters give and which take. *)
(***************************************************************************)

(* The part of the invariant that is about the proposals of a round.       *)
RoundInv ==
  pc = "migrate" =>
    /\ \A s \in todo : new_labels[s] = proposal[s].src
    /\ \A s \in DOMAIN proposal : proposal[s].src \notin DOMAIN capacity_map
    /\ \A c \in Clusters \ DOMAIN capacity_map : sizes[c] >= cluster_bound
    /\ moved_in_this_round = 0 =>
         /\ todo # {}
         /\ \A s \in todo : sizes[proposal[s].src] > cluster_bound
         /\ \A c \in DOMAIN capacity_map : capacity_map[c] > 0

ArgumentsInv == pc \in {"round", "migrate", "done", "failed"} => ~BadArguments

(* A sample that was moved sits in a cluster within the bound.             *)
MovedInv ==
  \A s \in Samples :
    new_labels[s] # original_labels[s]
      => Cardinality(Members(new_labels, new_labels[s])) <= cluster_bound

IInv == /\ TypeOK /\ BookkeepingAgrees /\ RoundInv
        /\ ArgumentsInv /\ MovedInv /\ NeverStuck

-----------------------------------------------------------------------------
(* Members and their number, for any labelling.                            *)
LEMMA MembersFinite ==
  ASSUME NEW labels, NEW c
  PROVE  /\ IsFiniteSet(Members(labels, c))
         /\ Cardinality(Members(labels, c)) \in Nat
<1>1. Members(labels, c) \in SUBSET Samples
  BY DEF Members
<1>2. IsFiniteSet(Members(labels, c))
  BY <1>1, SamplesAssumption, FS_Subset
<1>3. QED
  BY <1>2, FS_CardinalityType

(* One member fewer in src, one more in tgt, all else as it was.           *)
OneMoved(labels, new, src, tgt) ==
  \A c \in Clusters :
    Cardinality(Members(new, c)) =
      IF c = src THEN Cardinality(Members(labels, c)) - 1
      ELSE IF c = tgt THEN Cardinality(Members(labels, c)) + 1
      ELSE Cardinality(Members(labels, c))

(* What one migration does to the number of members of every cluster.      *)
LEMMA MembersAfterMove ==
  ASSUME NEW labels \in [Samples -> Clusters], NEW s \in Samples,
         NEW src, NEW tgt \in Clusters, src # tgt, labels[s] = src,
         NEW new, new = [labels EXCEPT ![s] = tgt]
  PROVE  OneMoved(labels, new, src, tgt)
<1> USE DEF OneMoved
<1> TAKE c \in Clusters
<1>1. IsFiniteSet(Members(labels, c))
  BY MembersFinite
<1>2. CASE c = src
  <2>1. Members(new, c) = Members(labels, c) \ {s} /\ s \in Members(labels, c)
    BY <1>2 DEF Members
  <2>2. Cardinality(Members(new, c)) = Cardinality(Members(labels, c)) - 1
    BY <2>1, <1>1, FS_RemoveElement
  <2>3. QED
    BY <2>2, <1>2
<1>3. CASE c = tgt
  <2>1. Members(new, c) = Members(labels, c) \cup {s} /\ s \notin Members(labels, c)
    BY <1>3 DEF Members
  <2>2. QED
    BY <2>1, <1>1, <1>3, FS_AddElement
<1>4. CASE c # src /\ c # tgt
  <2>1. Members(new, c) = Members(labels, c)
    BY <1>4 DEF Members
  <2>2. QED
    BY <2>1, <1>4
<1>5. QED
  BY <1>2, <1>3, <1>4

(* If the clusters together have room for all samples and one of them is   *)
(* too large, another one has room left: were every cluster filled to the  *)
(* bound, the pairs of a cluster and a position below the bound could be   *)
(* sent one to one to the samples, with one sample of the large cluster    *)
(* left over.                                                              *)
LEMMA RoomLeft ==
  ASSUME NEW labels \in [Samples -> Clusters], NEW b \in Nat \ {0},
         Cardinality(Clusters) * b >= Cardinality(Samples),
         NEW big \in Clusters, Cardinality(Members(labels, big)) > b
  PROVE  \E c \in Clusters : Cardinality(Members(labels, c)) < b
<1> DEFINE n(c) == Cardinality(Members(labels, c))
           nth == [c \in Clusters |->
                     CHOOSE f : f \in Bijection(1 .. n(c), Members(labels, c))]
           x == nth[big][b + 1]
           Cells == Clusters \X (1 .. b)
           place == [p \in Cells |-> nth[p[1]][p[2]]]
<1> SUFFICES ASSUME \A c \in Clusters : n(c) >= b PROVE FALSE
  BY MembersFinite
<1>1. \A c \in Clusters : nth[c] \in Bijection(1 .. n(c), Members(labels, c))
  BY MembersFinite, FS_CardinalityType DEF ExistsBijection
<1>2. \A c \in Clusters :
        /\ \A i \in 1 .. n(c) : /\ nth[c][i] \in Samples
                                /\ labels[nth[c][i]] = c
        /\ \A i, j \in 1 .. n(c) : nth[c][i] = nth[c][j] => i = j
  <2> TAKE c \in Clusters
  <2> HIDE DEF nth
  <2>1. nth[c] \in Injection(1 .. n(c), Members(labels, c))
    BY <1>1 DEF Bijection
  <2>2. nth[c] \in [1 .. n(c) -> Members(labels, c)] /\ IsInjective(nth[c])
    BY <2>1 DEF Injection
  <2>3. QED
    BY <2>2 DEF IsInjective, Members
<1> HIDE DEF nth
<1>3. \A c \in Clusters : n(c) \in Nat
  BY MembersFinite
<1>4. place \in Injection(Cells, Samples \ {x})
  <2>1. b + 1 \in 1 .. n(big)
    BY <1>3
  <2>2. ASSUME NEW p \in Cells
        PROVE  place[p] \in Samples \ {x} /\ labels[place[p]] = p[1]
    <3>1. p[1] \in Clusters /\ p[2] \in 1 .. n(p[1]) /\ p[2] # b + 1
      BY <1>3
    <3>2. QED
      BY <3>1, <2>1, <1>2
  <2>3. ASSUME NEW p \in Cells, NEW q \in Cells, place[p] = place[q]
        PROVE  p = q
    <3>1. p[1] = q[1]
      BY <2>2, <2>3
    <3>2. p[1] \in Clusters /\ p[2] \in 1 .. n(p[1]) /\ q[2] \in 1 .. n(p[1])
      BY <3>1, <1>3
    <3>3. p[2] = q[2]
      BY <3>1, <3>2, <2>3, <1>2
    <3>4. QED
      BY <3>1, <3>3
  <2>4. QED
    BY <2>2, <2>3 DEF Injection, IsInjective
<1>5. x \in Samples
  BY <1>2, <1>3
<1>6. /\ IsFiniteSet(Samples \ {x})
      /\ Cardinality(Samples \ {x}) = Cardinality(Samples) - 1
  BY <1>5, SamplesAssumption, FS_RemoveElement
<1>7. Cardinality(Cells) <= Cardinality(Samples) - 1
  BY <1>4, <1>6, FS_Injection
<1>8. Cardinality(1 .. b) = b /\ IsFiniteSet(1 .. b)
  BY FS_Interval
<1>9. Cardinality(Cells) = Cardinality(Clusters) * b
  BY <1>8, ClustersAssumption, FS_Product
<1>10. Cardinality(Samples) \in Nat /\ Cardinality(Clusters) * b \in Int
  BY SamplesAssumption, ClustersAssumption, FS_CardinalityType
<1> QED
  BY <1>7, <1>9, <1>10
-----------------------------------------------------------------------------
LEMMA BoundType == ~BadArguments /\ cluster_bound \in Bounds
                     => cluster_bound \in Nat \ {0}
BY BoundsAssumption DEF BadArguments

LEMMA InitIInv == Init => IInv
BY LabelsAssumption DEF Init, input, IInv, TypeOK, BookkeepingAgrees, RoundInv,
   ArgumentsInv, MovedInv, NeverStuck

(* A round begins with true sizes, room in every target and nothing tried; *)
(* none of the RuntimeErrors is raised.                                    *)
LEMMA BeginRoundIInv == IInv /\ BeginRound => IInv'
<1> SUFFICES ASSUME IInv, BeginRound PROVE IInv'
  OBVIOUS
<1> USE DEF IInv
<1> DEFINE cand == {s \in Samples : new_labels[s] \in Overfull(sizes')}
           free == Free(sizes')
<1>1. /\ pc = "round" /\ sizes' = BinCount(new_labels)
      /\ UNCHANGED <<dist, cluster_bound, n_labels, original_labels,
                     new_labels, result>>
      /\ ~BadArguments /\ TypeOK
  BY DEF BeginRound, ArgumentsInv, input
<1>2. cluster_bound \in Nat \ {0}
  BY <1>1, BoundType DEF TypeOK
<1>3. \A c \in Clusters : /\ sizes'[c] = Cardinality(Members(new_labels, c))
                          /\ sizes'[c] \in Nat
  BY <1>1, MembersFinite DEF BinCount
<1>4. PICK big \in Clusters : sizes'[big] > cluster_bound
  BY <1>1 DEF BeginRound, Overfull
<1>5. free # {}
  <2>1. /\ new_labels \in [Samples -> Clusters]
        /\ Cardinality(Clusters) * cluster_bound >= Cardinality(Samples)
    <3>1. Cardinality(Clusters) \in Nat /\ Cardinality(Samples) \in Nat
      BY SamplesAssumption, ClustersAssumption, FS_CardinalityType
    <3>2. QED
      BY <3>1, <1>1, <1>2 DEF TypeOK, BadArguments
  <2>2. Cardinality(Members(new_labels, big)) > cluster_bound
    BY <1>3, <1>4
  <2>3. \E c \in Clusters : Cardinality(Members(new_labels, c)) < cluster_bound
    BY <2>1, <2>2, <1>2, RoomLeft
  <2>4. QED
    BY <2>3, <1>3 DEF Free
<1>6. cand # {}
  <2>1. Members(new_labels, big) # {}
    BY <1>2, <1>3, <1>4, FS_EmptySet
  <2>2. QED
    BY <2>1, <1>4, <1>1 DEF Members, Overfull, TypeOK
<1>7. /\ pc' = "migrate" /\ todo' = cand /\ moved_in_this_round' = 0
      /\ capacity_map' = [c \in free |-> cluster_bound - sizes'[c]]
      /\ proposal' \in Proposals(cand, free)
  BY <1>5, <1>6 DEF BeginRound
<1>8. /\ DOMAIN proposal' = cand
      /\ \A s \in cand : /\ proposal'[s] \in [src : Clusters, tgt : free]
                         /\ proposal'[s].src = new_labels[s]
  <2>1. PICK tgt \in [cand -> free] :
          proposal' = [s \in cand |-> [src |-> new_labels[s], tgt |-> tgt[s]]]
    BY <1>7 DEF Proposals
  <2>2. \A s \in cand : new_labels[s] \in Clusters
    BY <1>1 DEF TypeOK
  <2>3. QED
    BY <2>1, <2>2
<1>9. TypeOK'
  BY <1>1, <1>3, <1>7, <1>8, <1>2 DEF TypeOK, Free, BinCount
<1>10. BookkeepingAgrees'
  BY <1>1, <1>2, <1>3, <1>7 DEF BookkeepingAgrees, Free, BinCount
<1>11. RoundInv'
  BY <1>1, <1>2, <1>3, <1>6, <1>7, <1>8 DEF RoundInv, Free, Overfull
<1>12. ArgumentsInv' /\ MovedInv' /\ NeverStuck'
  BY <1>1, <1>7 DEF ArgumentsInv, MovedInv, NeverStuck, BadArguments, Members
<1>13. QED
  BY <1>9, <1>10, <1>11, <1>12

(* A skipped candidate changes nothing but the list of candidates; before  *)
(* the first migration of a round no candidate is skipped.                 *)
LEMMA SkipIInv == ASSUME NEW s \in Samples, IInv, Skip(s) PROVE IInv'
<1> USE DEF IInv
<1>1. /\ pc = "migrate" /\ s \in todo /\ todo' = todo \ {s} /\ ~CanMigrate(s)
      /\ UNCHANGED <<dist, cluster_bound, n_labels, original_labels, new_labels,
                     sizes, capacity_map, proposal, moved_in_this_round,
                     result, pc>>
  BY DEF Skip, input
<1>2. moved_in_this_round # 0
  BY <1>1 DEF RoundInv, CanMigrate, Capacity, TypeOK
<1>3. TypeOK' /\ NeverStuck' /\ ArgumentsInv' /\ MovedInv'
  BY <1>1 DEF TypeOK, NeverStuck, ArgumentsInv, MovedInv, Members, BadArguments
<1>4. BookkeepingAgrees'
  BY <1>1 DEF BookkeepingAgrees, BinCount, Members
<1>5. RoundInv'
  BY <1>1, <1>2 DEF RoundInv
<1>6. QED
  BY <1>3, <1>4, <1>5

(* A migration keeps the books: source and target differ, the source had   *)
(* more than the bound, the target ends within it.                         *)
LEMMA MigrateFacts ==
  ASSUME NEW s \in Samples, IInv, Migrate(s)
  PROVE  LET src == proposal[s].src
             tgt == proposal[s].tgt
         IN /\ src \in Clusters /\ tgt \in DOMAIN capacity_map
            /\ tgt \in Clusters /\ src # tgt
            /\ src \notin DOMAIN capacity_map
            /\ new_labels[s] = src
            /\ new_labels' = [new_labels EXCEPT ![s] = tgt]
            /\ sizes[src] > cluster_bound /\ sizes[tgt] < cluster_bound
            /\ cluster_bound \in Nat
            /\ \A c \in Clusters :
                 /\ sizes[c] = Cardinality(Members(new_labels, c))
                 /\ sizes[c] \in Nat
                 /\ sizes'[c] = Cardinality(Members(new_labels', c))
                 /\ sizes'[c] = IF c = src THEN sizes[c] - 1
                                ELSE IF c = tgt THEN sizes[c] + 1 ELSE sizes[c]
<1> USE DEF IInv
<1> DEFINE src == proposal[s].src
           tgt == proposal[s].tgt
<1>1. /\ pc = "migrate" /\ s \in todo /\ CanMigrate(s)
      /\ new_labels' = [new_labels EXCEPT ![s] = tgt]
      /\ sizes' = [sizes EXCEPT ![src] = @ - 1, ![tgt] = @ + 1]
  BY DEF Migrate
<1>2. s \in DOMAIN proposal /\ proposal[s] \in [src : Clusters, tgt : DOMAIN capacity_map]
  BY <1>1 DEF TypeOK
<1>3. /\ src \in Clusters /\ tgt \in DOMAIN capacity_map /\ tgt \in Clusters
      /\ src \notin DOMAIN capacity_map /\ src # tgt /\ new_labels[s] = src
  BY <1>1, <1>2 DEF TypeOK, RoundInv
<1>4. \A c \in Clusters : /\ sizes[c] = Cardinality(Members(new_labels, c))
                          /\ sizes[c] \in Nat
  BY <1>1, MembersFinite DEF BookkeepingAgrees, BinCount
<1>5. cluster_bound \in Nat \ {0}
  BY <1>1, BoundType DEF ArgumentsInv, NeverStuck, BookkeepingAgrees, TypeOK, RoundInv
<1>6. sizes[src] > cluster_bound /\ sizes[tgt] < cluster_bound
  BY <1>1, <1>3, <1>4, <1>5 DEF CanMigrate, Capacity, BookkeepingAgrees
<1>7. \A c \in Clusters :
        sizes'[c] = IF c = src THEN sizes[c] - 1
                    ELSE IF c = tgt THEN sizes[c] + 1 ELSE sizes[c]
  <2>1. sizes \in [Clusters -> Int]
    BY DEF TypeOK
  <2> HIDE DEF src, tgt
  <2>2. QED
    BY ONLY <2>1, <1>1, <1>3
<1>8. OneMoved(new_labels, new_labels', src, tgt)
  <2>1. new_labels \in [Samples -> Clusters]
    BY DEF TypeOK
  <2>2. new_labels' = [new_labels EXCEPT ![s] = tgt]
    BY <1>1
  <2>3. tgt \in Clusters /\ src # tgt /\ new_labels[s] = src
    BY <1>3
  <2> HIDE DEF src, tgt
  <2>4. QED
    BY ONLY <2>1, <2>2, <2>3, s \in Samples, MembersAfterMove
<1>9. QED
  BY <1>1, <1>3, <1>4, <1>5, <1>6, <1>7, <1>8 DEF OneMoved

LEMMA MigrateIInv == ASSUME NEW s \in Samples, IInv, Migrate(s) PROVE IInv'
<1> USE DEF IInv
<1> DEFINE src == proposal[s].src
           tgt == proposal[s].tgt
<1>1. /\ pc = "migrate" /\ s \in todo /\ todo' = todo \ {s}
      /\ sizes' = [sizes EXCEPT ![src] = @ - 1, ![tgt] = @ + 1]
      /\ capacity_map' = [capacity_map EXCEPT ![tgt] = @ - 1]
      /\ moved_in_this_round' = moved_in_this_round + 1
      /\ UNCHANGED <<dist, cluster_bound, n_labels, original_labels,
                     proposal, result, pc>>
  BY DEF Migrate, input
<1>2. /\ src \in Clusters /\ tgt \in DOMAIN capacity_map
      /\ tgt \in Clusters /\ src # tgt /\ src \notin DOMAIN capacity_map
      /\ new_labels[s] = src
      /\ new_labels' = [new_labels EXCEPT ![s] = tgt]
      /\ sizes[src] > cluster_bound /\ sizes[tgt] < cluster_bound
      /\ cluster_bound \in Nat
  BY MigrateFacts
<1>3. \A c \in Clusters :
        /\ sizes[c] = Cardinality(Members(new_labels, c)) /\ sizes[c] \in Nat
        /\ sizes'[c] = Cardinality(Members(new_labels', c))
        /\ sizes'[c] = IF c = src THEN sizes[c] - 1
                       ELSE IF c = tgt THEN sizes[c] + 1 ELSE sizes[c]
  BY MigrateFacts
<1>4. TypeOK'
  BY <1>1, <1>2 DEF TypeOK
<1>5. BookkeepingAgrees'
  <2>1. sizes' = BinCount(new_labels')
    BY <1>1, <1>3, <1>4 DEF BinCount, TypeOK
  <2>2. ASSUME NEW c \in DOMAIN capacity_map'
        PROVE  capacity_map'[c] = cluster_bound' - sizes'[c] /\ capacity_map'[c] >= 0
    <3>1. c \in DOMAIN capacity_map /\ c \in Clusters /\ c # src
      BY <1>1, <1>2 DEF TypeOK
    <3>2. capacity_map[c] = cluster_bound - sizes[c] /\ capacity_map[c] >= 0
      BY <3>1, <1>1 DEF BookkeepingAgrees
    <3>3. QED
      BY <3>1, <3>2, <1>1, <1>2, <1>3 DEF TypeOK
  <2>3. QED
    BY <2>1, <2>2 DEF BookkeepingAgrees
<1>6. RoundInv'
  <2>1. \A r \in todo' : new_labels'[r] = proposal'[r].src
    BY <1>1, <1>2 DEF RoundInv, TypeOK
  <2>2. ASSUME NEW c \in Clusters, c \notin DOMAIN capacity_map'
        PROVE  sizes'[c] >= cluster_bound'
    <3>1. c \notin DOMAIN capacity_map /\ c # tgt
      BY <1>1, <1>2, <2>2
    <3>2. sizes[c] >= cluster_bound
      BY <3>1, <1>1 DEF RoundInv
    <3>3. sizes'[c] = IF c = src THEN sizes[c] - 1 ELSE sizes[c]
      BY <3>1, <1>3
    <3>4. QED
      BY <3>2, <3>3, <1>1, <1>2, <1>3
  <2>3. moved_in_this_round' # 0
    BY <1>1 DEF TypeOK
  <2>4. \A r \in DOMAIN proposal' : proposal'[r].src \notin DOMAIN capacity_map'
    BY <1>1 DEF RoundInv
  <2>5. QED
    BY <2>1, <2>2, <2>3, <2>4 DEF RoundInv
<1>7. MovedInv'
  <2> SUFFICES ASSUME NEW r \in Samples, new_labels'[r] # original_labels[r]
               PROVE  Cardinality(Members(new_labels', new_labels'[r])) <= cluster_bound
    BY <1>1 DEF MovedInv
  <2>1. CASE r = s
    <3>1. new_labels'[r] = tgt
      BY <2>1, <1>2 DEF TypeOK
    <3>2. Cardinality(Members(new_labels', tgt)) = sizes[tgt] + 1
      BY <1>2, <1>3
    <3>3. sizes[tgt] \in Nat
      BY <1>2, <1>3
    <3>4. QED
      BY <3>1, <3>2, <3>3, <1>2
  <2>2. CASE r # s
    <3>1. new_labels'[r] = new_labels[r] /\ new_labels[r] \in Clusters
      BY <2>2, <1>2 DEF TypeOK
    <3>2. sizes[new_labels[r]] <= cluster_bound
      BY <3>1, <1>3 DEF MovedInv
    <3>3. Cardinality(Members(new_labels', new_labels[r])) = sizes'[new_labels[r]]
      BY <3>1, <1>3
    <3>4. sizes'[new_labels[r]] <= cluster_bound
      <4> DEFINE c == new_labels[r]
      <4>1. /\ sizes[c] \in Nat /\ c # src
            /\ sizes'[c] = IF c = tgt THEN sizes[c] + 1 ELSE sizes[c]
        BY <3>1, <3>2, <1>2, <1>3
      <4>2. QED
        BY <4>1, <3>2, <1>2
    <3>5. QED
      BY <3>1, <3>3, <3>4
  <2>3. QED
    BY <2>1, <2>2
<1>8. ArgumentsInv' /\ NeverStuck'
  BY <1>1 DEF ArgumentsInv, NeverStuck, BadArguments
<1>9. QED
  BY <1>4, <1>5, <1>6, <1>7, <1>8

LEMMA OthersIInv ==
  IInv /\ (CheckArguments \/ EndRound \/ Return \/ UNCHANGED vars) => IInv'
<1> SUFFICES ASSUME IInv, CheckArguments \/ EndRound \/ Return \/ UNCHANGED vars
             PROVE  IInv'
  OBVIOUS
<1> USE DEF IInv
<1>1. CASE CheckArguments
  BY <1>1 DEF CheckArguments, TypeOK, BookkeepingAgrees, RoundInv, ArgumentsInv,
     MovedInv, NeverStuck, BadArguments, Members, input
<1>2. CASE EndRound
  BY <1>2 DEF EndRound, TypeOK, BookkeepingAgrees, RoundInv, ArgumentsInv,
     MovedInv, NeverStuck, BadArguments, Members, input
<1>3. CASE Return
  <2>1. sizes' \in [Clusters -> Int]
    BY <1>3, MembersFinite DEF Return, BinCount
  <2>2. QED
    BY <1>3, <2>1 DEF Return, TypeOK, BookkeepingAgrees, RoundInv, ArgumentsInv,
       MovedInv, NeverStuck, BadArguments, Members, input
<1>4. CASE UNCHANGED vars
  BY <1>4 DEF vars, input, TypeOK, BookkeepingAgrees, RoundInv, ArgumentsInv,
     MovedInv, NeverStuck, BadArguments, Members, BinCount
<1>5. QED
  BY <1>1, <1>2, <1>3, <1>4

(* The inductive invariant holds in every reachable state.                 *)
THEOREM IInvHolds == Spec => []IInv
<1>1. IInv /\ [Next]_vars => IInv'
  BY BeginRoundIInv, SkipIInv, MigrateIInv, OthersIInv DEF Next
<1>2. QED
  BY InitIInv, <1>1, PTL DEF Spec

(* Types are respected by every step.                                      *)
THEOREM TypeCorrect == Spec => []TypeOK
BY IInvHolds, PTL DEF IInv

(* The sizes and capacities the loop keeps by hand are the true ones.      *)
THEOREM BookkeepingCorrect == Spec => []BookkeepingAgrees
BY IInvHolds, PTL DEF IInv

(* None of the RuntimeErrors of the loop is ever raised.                   *)
THEOREM NeverStuckCorrect == Spec => []NeverStuck
BY IInvHolds, PTL DEF IInv

(* No sample is migrated a second time.                                    *)
THEOREM MovesOnceCorrect == Spec => MovesOnce
<1>1. ASSUME IInv, [Next]_vars, NEW s \in Samples,
             new_labels[s] # original_labels[s]
      PROVE  new_labels'[s] = new_labels[s]
  <2>1. CASE \E r \in Samples : Migrate(r)
    <3>1. PICK r \in Samples : Migrate(r)
      BY <2>1
    <3>2. CASE r = s
      <4>1. /\ new_labels[s] \in Clusters
            /\ sizes[new_labels[s]] > cluster_bound
            /\ sizes[new_labels[s]] = Cardinality(Members(new_labels, new_labels[s]))
            /\ sizes[new_labels[s]] \in Nat /\ cluster_bound \in Nat
        BY <3>1, <3>2, <1>1, MigrateFacts
      <4>2. sizes[new_labels[s]] <= cluster_bound
        BY <4>1, <1>1 DEF IInv, MovedInv
      <4>3. QED
        BY <4>1, <4>2
    <3>3. CASE r # s
      BY <3>1, <3>3, <1>1 DEF Migrate, IInv, TypeOK
    <3>4. QED
      BY <3>2, <3>3
  <2>2. CASE ~\E r \in Samples : Migrate(r)
    BY <2>2, <1>1 DEF Next, CheckArguments, BeginRound, Skip, EndRound, Return, vars
  <2>3. QED
    BY <2>1, <2>2
<1>2. IInv /\ [Next]_vars =>
        [\A s \in Samples : new_labels[s] # original_labels[s]
                              => new_labels'[s] = new_labels[s]]_vars
  BY <1>1
<1>3. QED
  BY IInvHolds, <1>2, PTL DEF Spec, MovesOnce

-----------------------------------------------------------------------------
(* Why no call moves more than it must.  A cluster that came with more     *)
(* than the bound only gives, and never below the bound; any other cluster *)
(* only takes, and never above it.                                         *)
GivesOrTakes ==
  \A c \in Clusters :
    LET orig == Members(original_labels, c)
        now  == Members(new_labels, c)
    IN IF Cardinality(orig) > cluster_bound
       THEN now \subseteq orig /\ Cardinality(now) >= cluster_bound
       ELSE orig \subseteq now /\ Cardinality(now) <= cluster_bound

(* What is returned are the clusters, and none of them is overfull.        *)
ResultInv ==
  pc = "done" =>
    \A c \in Clusters :
      /\ result.id_groups[c] = Members(new_labels, c)
      /\ Cardinality(Members(new_labels, c)) <= cluster_bound

LEMMA InitGivesOrTakes == Init => GivesOrTakes /\ ResultInv
<1> SUFFICES ASSUME Init PROVE GivesOrTakes /\ ResultInv
  OBVIOUS
<1>1. cluster_bound \in Int /\ pc = "call" /\ new_labels = original_labels
  BY BoundsAssumption DEF Init
<1>2. \A c : Cardinality(Members(original_labels, c)) \in Nat
  BY MembersFinite
<1>3. QED
  BY <1>1, <1>2 DEF GivesOrTakes, ResultInv

(* A migration takes from a cluster above the bound and gives to one below *)
(* it; the invariant says which kind of cluster each of them is.           *)
LEMMA MigrateGivesOrTakes ==
  ASSUME NEW s \in Samples, IInv, GivesOrTakes, Migrate(s)
  PROVE  GivesOrTakes' /\ ResultInv'
<1> DEFINE src == proposal[s].src
           tgt == proposal[s].tgt
<1>1. /\ src \in Clusters /\ tgt \in Clusters /\ src # tgt
      /\ new_labels[s] = src
      /\ new_labels' = [new_labels EXCEPT ![s] = tgt]
      /\ sizes[src] > cluster_bound /\ sizes[tgt] < cluster_bound
      /\ cluster_bound \in Nat
  BY MigrateFacts
<1>2. \A c \in Clusters :
        /\ sizes[c] = Cardinality(Members(new_labels, c)) /\ sizes[c] \in Nat
        /\ sizes'[c] = Cardinality(Members(new_labels', c))
        /\ sizes'[c] = IF c = src THEN sizes[c] - 1
                       ELSE IF c = tgt THEN sizes[c] + 1 ELSE sizes[c]
  BY MigrateFacts
<1>3. /\ new_labels \in [Samples -> Clusters]
      /\ pc' = "migrate" /\ cluster_bound' = cluster_bound
      /\ original_labels' = original_labels
  BY DEF Migrate, input, IInv, TypeOK
<1>4. \A c : Cardinality(Members(original_labels, c)) \in Nat
  BY MembersFinite
<1> HIDE DEF src, tgt
<1>5. ASSUME NEW c \in Clusters
      PROVE  LET orig == Members(original_labels, c)
                 now  == Members(new_labels', c)
             IN IF Cardinality(orig) > cluster_bound
                THEN now \subseteq orig /\ Cardinality(now) >= cluster_bound
                ELSE orig \subseteq now /\ Cardinality(now) <= cluster_bound
  <2> DEFINE orig == Members(original_labels, c)
             old  == Members(new_labels, c)
             now  == Members(new_labels', c)
  <2>1. IF Cardinality(orig) > cluster_bound
        THEN old \subseteq orig /\ Cardinality(old) >= cluster_bound
        ELSE orig \subseteq old /\ Cardinality(old) <= cluster_bound
    BY DEF GivesOrTakes
  <2>2. now = IF c = src THEN old \ {s} ELSE IF c = tgt THEN old \cup {s} ELSE old
    BY <1>1, <1>3 DEF Members
  <2>3. /\ sizes[c] = Cardinality(old) /\ sizes[c] \in Nat
        /\ Cardinality(now) = IF c = src THEN sizes[c] - 1
                              ELSE IF c = tgt THEN sizes[c] + 1 ELSE sizes[c]
        /\ Cardinality(orig) \in Nat
    BY <1>2, <1>4
  <2>4. IF Cardinality(orig) > cluster_bound
        THEN now \subseteq orig /\ Cardinality(now) >= cluster_bound
        ELSE orig \subseteq now /\ Cardinality(now) <= cluster_bound
    <3> HIDE DEF orig, old, now
    <3>1. CASE c = src
      BY <2>1, <2>2, <2>3, <3>1, <1>1
    <3>2. CASE c = tgt
      BY <2>1, <2>2, <2>3, <3>2, <1>1
    <3>3. CASE c # src /\ c # tgt
      BY <2>1, <2>2, <2>3, <3>3
    <3>4. QED
      BY <3>1, <3>2, <3>3
  <2>5. QED
    BY <2>4
<1>6. QED
  BY <1>3, <1>5 DEF GivesOrTakes, ResultInv

LEMMA OthersGivesOrTakes ==
  ASSUME IInv, GivesOrTakes, ResultInv, [Next]_vars,
         ~\E s \in Samples : Migrate(s)
  PROVE  GivesOrTakes' /\ ResultInv'
<1>1. UNCHANGED <<cluster_bound, original_labels, new_labels>>
  BY DEF Next, CheckArguments, BeginRound, Skip, EndRound, Return, vars, input
<1>2. GivesOrTakes'
  BY <1>1 DEF GivesOrTakes, Members
<1>3. CASE Return
  <2>1. /\ result'.id_groups = [c \in Clusters |-> Members(new_labels, c)]
        /\ sizes' = BinCount(new_labels) /\ Overfull(sizes') = {}
    BY <1>3 DEF Return
  <2>2. cluster_bound \in Int /\ \A c : Cardinality(Members(new_labels, c)) \in Nat
    BY BoundsAssumption, MembersFinite DEF IInv, TypeOK
  <2>3. \A c \in Clusters : Cardinality(Members(new_labels, c)) <= cluster_bound
    BY <2>1, <2>2 DEF Overfull, BinCount
  <2>4. QED
    BY <1>1, <1>2, <2>1, <2>3 DEF ResultInv, Members
<1>4. CASE ~Return
  <2>1. pc' = "done" => pc = "done" /\ result' = result
    BY <1>4 DEF Next, CheckArguments, BeginRound, Skip, EndRound, vars
  <2>2. QED
    BY <1>1, <1>2, <2>1 DEF ResultInv, Members
<1>5. QED
  BY <1>3, <1>4

(* A call that returns has moved exactly the surplus out of every cluster  *)
(* that was too large, and no sample out of any other: an assignment       *)
(* within the bound cannot do with less.                                   *)
THEOREM LeastChange == Spec => []ReturnsMinimalChange
<1>1. IInv /\ GivesOrTakes /\ ResultInv /\ [Next]_vars => GivesOrTakes' /\ ResultInv'
  BY MigrateGivesOrTakes, OthersGivesOrTakes
<1>2. ASSUME IInv, GivesOrTakes, ResultInv PROVE ReturnsMinimalChange
  <2> SUFFICES ASSUME pc = "done", NEW c \in Clusters
               PROVE  /\ Cardinality(Members(original_labels, c)
                                       \ Members(new_labels, c)) = Surplus(c)
                      /\ Cardinality(result.id_groups[c]) <= cluster_bound
    BY DEF ReturnsMinimalChange
  <2> DEFINE orig == Members(original_labels, c)
             now  == Members(new_labels, c)
  <2>1. /\ IsFiniteSet(orig) /\ IsFiniteSet(now)
        /\ Cardinality(orig) \in Nat /\ Cardinality(now) \in Nat
        /\ cluster_bound \in Int
    BY <1>2, MembersFinite, BoundsAssumption DEF IInv, TypeOK
  <2>2. result.id_groups[c] = now /\ Cardinality(now) <= cluster_bound
    BY <1>2 DEF ResultInv
  <2>3. IF Cardinality(orig) > cluster_bound
        THEN now \subseteq orig /\ Cardinality(now) >= cluster_bound
        ELSE orig \subseteq now
    BY <1>2 DEF GivesOrTakes
  <2>4. Surplus(c) = IF Cardinality(orig) > cluster_bound
                     THEN Cardinality(orig) - cluster_bound ELSE 0
    BY DEF Surplus
  <2> HIDE DEF orig, now
  <2>5. CASE Cardinality(orig) > cluster_bound
    <3>1. Cardinality(now) = cluster_bound /\ orig \cap now = now
      BY <2>1, <2>2, <2>3, <2>5
    <3>2. Cardinality(orig \ now) = Cardinality(orig) - Cardinality(orig \cap now)
      BY <2>1, FS_Difference
    <3>3. QED
      BY <2>2, <2>4, <2>5, <3>1, <3>2 DEF orig, now
  <2>6. CASE ~(Cardinality(orig) > cluster_bound)
    <3>1. orig \ now = {}
      BY <2>3, <2>6
    <3>2. Cardinality(orig \ now) = 0
      BY <3>1, FS_EmptySet
    <3>3. QED
      BY <2>2, <2>4, <2>6, <3>2 DEF orig, now
  <2>7. QED
    BY <2>5, <2>6
<1>3. QED
  BY InitGivesOrTakes, IInvHolds, <1>1, <1>2, PTL DEF Spec

-----------------------------------------------------------------------------
LEMMA SameCardinality == \A A : Abstract!Cardinality(A) = Cardinality(A)
BY Zenon DEF Abstract!Cardinality, Cardinality

LEMMA SizeIsMembers == \A c : Abstract!Size(c) = Cardinality(Members(new_labels, c))
BY SameCardinality DEF Abstract!Size, Members

LEMMA FeasibleIsNotBad == cluster_bound \in Bounds =>
                            (Abstract!Feasible <=> ~BadArguments)
<1>1. Cardinality(Clusters) \in Nat /\ Cardinality(Samples) \in Nat
  BY SamplesAssumption, ClustersAssumption, FS_CardinalityType
<1>2. QED
  BY <1>1, BoundsAssumption, SameCardinality DEF Abstract!Feasible, BadArguments

(* Every migration is a move of the abstract specification, returning is   *)
(* delivering, raising ValueError is rejecting; all else is invisible.     *)
LEMMA StepSimulates == IInv /\ [Next]_vars => [Abstract!Next]_(Abstract!vars)
<1> SUFFICES ASSUME IInv, [Next]_vars PROVE [Abstract!Next]_(Abstract!vars)
  OBVIOUS
<1>0. TypeOK /\ cluster_bound \in Bounds
  BY DEF IInv, TypeOK
<1>1. ASSUME NEW s \in Samples, Migrate(s)
      PROVE  Abstract!Move(s, proposal[s].tgt) /\ proposal[s].tgt \in Clusters
  <2>1. /\ pc = "migrate" /\ pc' = pc
        /\ UNCHANGED <<cluster_bound, n_labels>>
    BY <1>1 DEF Migrate, input
  <2>2. /\ proposal[s].tgt \in Clusters
        /\ new_labels[s] \in Clusters
        /\ new_labels' = [new_labels EXCEPT ![s] = proposal[s].tgt]
        /\ Cardinality(Members(new_labels, new_labels[s])) > cluster_bound
        /\ Cardinality(Members(new_labels, proposal[s].tgt)) < cluster_bound
    BY <1>1, MigrateFacts
  <2>3. Abstract!Feasible
    BY <1>0, <2>1, FeasibleIsNotBad
       DEF IInv, ArgumentsInv, BookkeepingAgrees, RoundInv, NeverStuck, Abstract!Feasible
  <2>4. QED
    BY <2>1, <2>2, <2>3, SizeIsMembers DEF Abstract!Move
<1>2. CASE CheckArguments
  <2>1. CASE BadArguments
    BY <1>0, <1>2, <2>1, FeasibleIsNotBad DEF CheckArguments, input, Abstract!Next,
       Abstract!Reject
  <2>2. CASE ~BadArguments
    BY <1>2, <2>2 DEF CheckArguments, input, Abstract!vars
  <2>3. QED
    BY <2>1, <2>2
<1>3. CASE Return
  <2>1. /\ pc = "round" /\ pc' = "done"
        /\ UNCHANGED <<cluster_bound, n_labels, new_labels>>
        /\ sizes' = BinCount(new_labels) /\ Overfull(sizes') = {}
    BY <1>3 DEF Return, input
  <2>2. \A c \in Clusters : Cardinality(Members(new_labels, c)) <= cluster_bound
    <3>1. \A c \in Clusters : Cardinality(Members(new_labels, c)) \in Nat
      BY MembersFinite
    <3>2. QED
      BY <2>1, <3>1, <1>0, BoundsAssumption DEF BinCount, Overfull
  <2>3. Abstract!Feasible
    BY <1>0, <2>1, FeasibleIsNotBad DEF IInv, ArgumentsInv
  <2>4. QED
    BY <2>1, <2>2, <2>3, SizeIsMembers DEF Abstract!Next, Abstract!Deliver
<1>4. CASE BeginRound
  <2>1. /\ pc = "round" /\ pc' \in {"migrate", "failed"}
        /\ UNCHANGED <<cluster_bound, n_labels, new_labels>>
    BY <1>4 DEF BeginRound, input
  <2>2. QED
    BY <2>1 DEF Abstract!vars
<1>5. CASE EndRound \/ (\E s \in Samples : Skip(s)) \/ UNCHANGED vars
  BY <1>5 DEF EndRound, Skip, vars, input, Abstract!vars
<1>6. QED
  BY <1>1, <1>2, <1>3, <1>4, <1>5 DEF Next, Abstract!Next

(* rebalance_clusters implements the abstract reassignment.                *)
THEOREM ImplementsAbstract == Spec => Reassigns
<1>1. Init => Abstract!Init
  BY LabelsAssumption DEF Init, Abstract!Init
<1>2. QED
  BY <1>1, StepSimulates, IInvHolds, PTL DEF Spec, Reassigns, Abstract!Spec

-----------------------------------------------------------------------------
(***************************************************************************)
(* An accepted opening binds the label of one slot (Bound), for trees of   *)
(* any size, any committed labels and any prover, if hashes do not         *)
(* collide.  Walking up, the invariant looks down: wherever the hash       *)
(* reached so far occurs on the level reached so far, the leaf below it    *)
(* at the position summed up so far holds the claim.                       *)
(*                                                                         *)
(* And an honest opening is never rejected (HonestOpens), whatever the     *)
(* hashes: k levels up, what is left of the path is the path from there,   *)
(* and the hash reached is the entry over the index.                       *)
(***************************************************************************)

Heap(t, n, w) == \A k \in 0 .. n - w - 1 : t[k] = Node(t[2 * k + w], t[2 * k + w + 1])

IntraWidth == IF phase = "intra" THEN width ELSE 1
TopWidth   == IF phase = "top" THEN width ELSE 1

IntraTrees ==
  \A l \in Lists :
    /\ Heap(intra[l], S, IntraWidth)
    /\ \A j \in 0 .. S - 1 : intra[l][S - IntraWidth + j] = LeafHash(Label(l, j))

TopTree ==
  phase # "intra" =>
    /\ Heap(top, L, TopWidth)
    /\ \A j \in 0 .. L - 1 : top[L - TopWidth + j] = TopLeaf(j)

TreeBounds ==
  /\ phase \in {"intra", "climb"} => width <= S
  /\ phase \in {"top", "climb_top"} => width <= L
  /\ phase = "climb" => pow * width = S
  /\ phase = "climb_top" => pow * width = L

ClimbsInner ==
  phase = "climb" =>
    \A l \in Lists, k \in 0 .. width - 1 :
      curr = intra[l][width - 1 + k] => claim = Label(l, k * pow + pos)

Rooted ==
  phase \in {"climb_top", "accepted"} =>
    \A l \in Lists : list_auth_root = intra[l][0] => claim = Label(l, slot_pos)

ClimbsTop ==
  phase = "climb_top" =>
    \A k \in 0 .. width - 1 :
      curr = top[width - 1 + k] => list_auth_root = TopLeaf(k * pow + pos)

TreeInv == Typed /\ IntraTrees /\ TopTree /\ TreeBounds /\ ClimbsInner /\ Rooted /\ ClimbsTop /\ Bound

(* The padded sizes are sizes.                                             *)
LEMMA SizesFit ==
  ASSUME commitment \in Commitments
  PROVE  /\ S \in Sizes /\ L \in Sizes /\ S \in Nat \ {0} /\ L \in Nat \ {0}
         /\ commitment.slots <= S /\ commitment.n_list <= L
         /\ commitment.slots \in Nat \ {0} /\ commitment.n_list \in Nat \ {0}
<1>1. Fits(S, commitment.slots)
  BY CommitmentsAssumption DEF S, NextPow2
<1>2. Fits(L, commitment.n_list)
  BY CommitmentsAssumption DEF L, NextPow2
<1> QED  BY <1>1, <1>2, SizesAssumption, CommitmentsAssumption DEF Fits

(* Every leaf of a list is labelled with a value.                          *)
LEMMA LabelsAreValues ==
  ASSUME commitment \in Commitments, NEW l \in Lists, NEW j \in Nat
  PROVE  Label(l, j) \in Values
<1>1. commitment.label \in [0 .. commitment.n_list - 1 -> [0 .. commitment.slots - 1 -> Values]]
  BY CommitmentsAssumption
<1>2. CASE j < commitment.slots
  <2>1. j \in 0 .. commitment.slots - 1
    BY <1>2, CommitmentsAssumption
  <2> QED  BY <1>1, <1>2, <2>1 DEF Label, Lists
<1>3. CASE ~(j < commitment.slots)
  BY <1>3, CommitmentsAssumption DEF Label
<1> QED  BY <1>2, <1>3

(* Halving a size gives a size.                                            *)
LEMMA Halves ==
  ASSUME NEW w \in Sizes, w > 1
  PROVE  /\ w \div 2 \in Sizes /\ w = 2 * (w \div 2) /\ w \div 2 \in Nat \ {0}
<1>1. w \in Nat \ {0} /\ w % 2 = 0 /\ w \div 2 \in Sizes
  BY SizesAssumption
<1>2. w = 2 * (w \div 2)
  BY <1>1
<1> QED  BY <1>1, <1>2, SizesAssumption

Halvable(n, w) ==
  n \in Nat /\ w \in Nat /\ w \div 2 \in Nat \ {0} /\ w = 2 * (w \div 2) /\ w <= n

(* Grow keeps a heap a heap and moves the leaves along.                    *)
LEMMA GrowHeap ==
  ASSUME NEW t, NEW n, NEW w, Halvable(n, w), Heap(t, n, w)
  PROVE  /\ Heap(Grow(t, n, w), n, w \div 2)
         /\ \A j \in 0 .. n - 1 : Grow(t, n, w)[n - (w \div 2) + j] = t[n - w + j]
<1> DEFINE g == Grow(t, n, w)
           h == w \div 2
<1>0. h \in Nat \ {0} /\ w = 2 * h /\ n \in Nat /\ w \in Nat /\ w <= n
  BY DEF Halvable
<1>1. \A k \in 0 .. 2 * n - h - 1 :
        g[k] = IF k < h THEN Node(t[2 * k], t[2 * k + 1]) ELSE t[k - h]
  BY <1>0 DEF Grow
<1> HIDE DEF g, h
<1>2. ASSUME NEW k \in 0 .. n - h - 1
      PROVE  g[k] = Node(g[2 * k + h], g[2 * k + h + 1])
  <2>1. /\ k \in 0 .. 2 * n - h - 1
        /\ 2 * k + h \in 0 .. 2 * n - h - 1 /\ 2 * k + h + 1 \in 0 .. 2 * n - h - 1
        /\ ~(2 * k + h < h) /\ ~(2 * k + h + 1 < h)
    BY <1>0
  <2>2. g[2 * k + h] = t[2 * k] /\ g[2 * k + h + 1] = t[2 * k + 1]
    <3>1. (2 * k + h) - h = 2 * k /\ (2 * k + h + 1) - h = 2 * k + 1
      BY <1>0
    <3> QED  BY <1>1, <2>1, <3>1
  <2>3. CASE k < h
    BY <1>1, <2>1, <2>2, <2>3
  <2>4. CASE ~(k < h)
    <3>1. g[k] = t[k - h]
      BY <1>1, <2>1, <2>4
    <3>2. k - h \in 0 .. n - w - 1
      BY <1>0, <2>4
    <3>3. t[k - h] = Node(t[2 * (k - h) + w], t[2 * (k - h) + w + 1])
      BY <3>2 DEF Heap
    <3>4. 2 * (k - h) + w = 2 * k /\ 2 * (k - h) + w + 1 = 2 * k + 1
      BY <1>0
    <3> QED  BY <2>2, <3>1, <3>3, <3>4
  <2> QED  BY <2>3, <2>4
<1>3. ASSUME NEW j \in 0 .. n - 1
      PROVE  g[n - h + j] = t[n - w + j]
  <2>1. n - h + j \in 0 .. 2 * n - h - 1 /\ ~(n - h + j < h) /\ (n - h + j) - h = n - w + j
    BY <1>0
  <2> QED  BY <1>1, <2>1
<1>4. Heap(g, n, h)
  BY <1>2 DEF Heap
<1> QED  BY <1>3, <1>4 DEF g, h

LEMMA InitTreeInv == TreeInit => TreeInv
<1> SUFFICES ASSUME TreeInit PROVE TreeInv
  OBVIOUS
<1> USE DEF TreeInit
<1>0. commitment \in Commitments
  OBVIOUS
<1>1. S \in Sizes /\ S \in Nat \ {0} /\ commitment.n_list \in Nat \ {0}
  BY <1>0, SizesFit
<1>2. Typed
  BY <1>1, CommitmentsAssumption DEF Typed, Lists
<1>3. IntraTrees
  <2>1. ASSUME NEW l \in Lists PROVE Heap(intra[l], S, IntraWidth)
    BY <1>1 DEF Heap, IntraWidth
  <2>2. ASSUME NEW l \in Lists, NEW j \in 0 .. S - 1
        PROVE  intra[l][S - IntraWidth + j] = LeafHash(Label(l, j))
    <3>1. IntraWidth = S /\ S - S + j = j
      BY <1>1 DEF IntraWidth
    <3> QED  BY <3>1
  <2> QED  BY <2>1, <2>2 DEF IntraTrees
<1> QED
  BY <1>1, <1>2, <1>3 DEF TreeInv, TopTree, TreeBounds, ClimbsInner, Rooted, ClimbsTop, Bound

LEMMA TypedInductive == ASSUME Typed, TreeBounds, [TreeNext]_treeVars PROVE Typed'
<1>1. /\ S \in Sizes /\ L \in Sizes /\ S \in Nat \ {0} /\ L \in Nat \ {0}
      /\ commitment.slots \in Nat \ {0}
  BY SizesFit DEF Typed
<1>2. commitment' = commitment => S' = S /\ Lists' = Lists
  BY DEF S, Lists, NextPow2
<1> USE DEF Typed
<1>3. CASE GrowIntra \/ GrowTop
  <2>1. width' \in Sizes
    BY <1>3, Halves DEF GrowIntra, GrowTop
  <2> QED  BY <1>2, <1>3, <2>1 DEF GrowIntra, GrowTop, trees, opening, walk, inner
<1>4. CASE StartTop
  BY <1>1, <1>2, <1>4 DEF StartTop, opening, walk, inner
<1>5. CASE Open
  <2>1. list_id' \in Lists /\ commitment' = commitment
    BY <1>5 DEF Open, trees
  <2>2. claim' \in Values
    <3>1. CASE honest'
      <4>1. PICK j \in 0 .. commitment.slots - 1 : claim' = Label(list_id', j)
        BY <1>5, <3>1 DEF Open
      <4>2. j \in Nat
        BY <1>1
      <4> QED  BY <2>1, <4>1, <4>2, LabelsAreValues
    <3>2. CASE ~honest'
      BY <1>5, <3>2 DEF Open
    <3> QED  BY <3>1, <3>2
  <2> QED  BY <1>1, <1>2, <1>5, <2>1, <2>2 DEF Open, trees, inner
<1>6. CASE Climb
  <2>1. PICK step \in Steps :
          IF step[1] \in {0, 1}
          THEN /\ curr' = Back(step[1], step[2])
               /\ pos' = pos + step[1] * pow /\ pow' = 2 * pow
               /\ width' = width \div 2 /\ phase' = phase
          ELSE phase' = "rejected" /\ UNCHANGED <<curr, pos, pow, width>>
    BY <1>6 DEF Climb
  <2>2. /\ commitment' = commitment /\ honest' = honest /\ list_id' = list_id
        /\ claim' = claim /\ slot_pos' = slot_pos
    BY <1>6 DEF Climb, trees, opening, inner
  <2>3. CASE step[1] \in {0, 1}
    <3>1. width' \in Sizes
      BY <1>6, <2>1, <2>3, Halves DEF Climb
    <3>2. pow' \in Nat \ {0} /\ pos' \in 0 .. pow' - 1
      <4>1. CASE step[1] = 0
        BY <2>1, <4>1
      <4>2. CASE step[1] = 1
        BY <2>1, <4>2
      <4> QED  BY <2>3, <4>1, <4>2
    <3> QED  BY <1>2, <2>1, <2>2, <2>3, <3>1, <3>2
  <2>4. CASE step[1] \notin {0, 1}
    BY <1>2, <2>1, <2>2, <2>4
  <2> QED  BY <2>3, <2>4
<1>7. CASE Connect
  <2>1. pow = S /\ pos \in 0 .. S - 1
    BY <1>7 DEF Connect, TreeBounds
  <2> QED  BY <1>1, <1>2, <1>7, <2>1 DEF Connect, trees, opening
<1>8. CASE Verify
  BY <1>2, <1>8 DEF Verify, trees, opening, walk, inner
<1>9. CASE UNCHANGED treeVars
  BY <1>2, <1>9 DEF treeVars, trees, opening, walk, inner
<1> QED  BY <1>3, <1>4, <1>5, <1>6, <1>7, <1>8, <1>9 DEF TreeNext

(* What depends on the commitment alone keeps its value.                   *)
LEMMA SameShape ==
  ASSUME commitment' = commitment
  PROVE  /\ S' = S /\ L' = L /\ Lists' = Lists
         /\ \A l, j : Label(l, j)' = Label(l, j)
         /\ intra' = intra => \A l : TopLeaf(l)' = TopLeaf(l)
BY DEF S, L, Lists, NextPow2, Label, TopLeaf

LEMMA TreesInductive ==
  ASSUME Typed, TreeBounds, IntraTrees, TopTree, [TreeNext]_treeVars
  PROVE  IntraTrees' /\ TopTree'
<1>1. S \in Nat \ {0} /\ L \in Nat \ {0}
  BY SizesFit DEF Typed
<1>2. commitment' = commitment
  BY DEF TreeNext, GrowIntra, StartTop, GrowTop, Open, Climb, Connect, Verify, treeVars, trees
<1>3. /\ S' = S /\ L' = L /\ Lists' = Lists
      /\ \A l, j : Label(l, j)' = Label(l, j)
      /\ intra' = intra => \A l : TopLeaf(l)' = TopLeaf(l)
  BY <1>2, SameShape
<1>4. CASE GrowIntra
  <2>1. /\ width \in Sizes /\ width > 1 /\ width <= S
        /\ IntraWidth = width /\ IntraWidth' = width \div 2
        /\ phase' = "intra"
    BY <1>4 DEF GrowIntra, TreeBounds, Typed, IntraWidth
  <2>2. Halvable(S, width)
    BY <1>1, <2>1, Halves, SizesAssumption DEF Halvable
  <2>3. ASSUME NEW l \in Lists
        PROVE  /\ Heap(intra'[l], S, width \div 2)
               /\ \A j \in 0 .. S - 1 : intra'[l][S - (width \div 2) + j] = LeafHash(Label(l, j))
    <3>1. intra'[l] = Grow(intra[l], S, width)
      BY <1>4 DEF GrowIntra
    <3>2. /\ Heap(intra[l], S, width)
          /\ \A j \in 0 .. S - 1 : intra[l][S - width + j] = LeafHash(Label(l, j))
      BY <2>1 DEF IntraTrees
    <3>3. /\ Heap(Grow(intra[l], S, width), S, width \div 2)
          /\ \A j \in 0 .. S - 1 :
               Grow(intra[l], S, width)[S - (width \div 2) + j] = intra[l][S - width + j]
      BY <2>2, <3>2, GrowHeap
    <3> QED  BY <3>1, <3>2, <3>3
  <2>4. IntraTrees'
    BY <1>3, <2>1, <2>3 DEF IntraTrees, Heap
  <2> QED  BY <2>1, <2>4 DEF TopTree
<1>5. ASSUME intra' = intra, IntraWidth' = IntraWidth
      PROVE  IntraTrees'
  BY <1>3, <1>5 DEF IntraTrees, Heap
<1>6. CASE StartTop
  <2>1. IntraWidth' = IntraWidth /\ intra' = intra /\ TopWidth' = L
    BY <1>6 DEF StartTop, IntraWidth, TopWidth
  <2>2. ASSUME NEW j \in 0 .. L - 1 PROVE top'[L - L + j] = TopLeaf(j)
    <3>1. L - L + j = j
      BY <1>1
    <3> QED  BY <1>6, <3>1 DEF StartTop
  <2>3. Heap(top', L, L)
    BY <1>1 DEF Heap
  <2>4. TopTree'
    BY <1>3, <2>1, <2>2, <2>3 DEF TopTree, Heap
  <2> QED  BY <1>5, <2>1, <2>4
<1>7. CASE GrowTop
  <2>1. /\ width \in Sizes /\ width > 1 /\ width <= L
        /\ TopWidth = width /\ TopWidth' = width \div 2
        /\ phase = "top" /\ IntraWidth' = IntraWidth /\ intra' = intra
    BY <1>7 DEF GrowTop, TreeBounds, Typed, IntraWidth, TopWidth, trees
  <2>2. Halvable(L, width)
    BY <1>1, <2>1, Halves, SizesAssumption DEF Halvable
  <2>3. /\ Heap(top, L, width)
        /\ \A j \in 0 .. L - 1 : top[L - width + j] = TopLeaf(j)
    BY <2>1 DEF TopTree
  <2>4. /\ Heap(Grow(top, L, width), L, width \div 2)
        /\ \A j \in 0 .. L - 1 :
             Grow(top, L, width)[L - (width \div 2) + j] = top[L - width + j]
    BY <2>2, <2>3, GrowHeap
  <2>5. top' = Grow(top, L, width)
    BY <1>7 DEF GrowTop
  <2>6. TopTree'
    BY <1>3, <2>1, <2>3, <2>4, <2>5 DEF TopTree, Heap
  <2> QED  BY <1>5, <2>1, <2>6
<1>8. CASE Open \/ Climb \/ Connect \/ Verify \/ UNCHANGED treeVars
  <2>1. intra' = intra /\ top' = top
    BY <1>8 DEF Open, Climb, Connect, Verify, treeVars, trees
  <2>2. IntraWidth' = IntraWidth /\ TopWidth' = TopWidth /\ (phase' = "intra" <=> phase = "intra")
    BY <1>8 DEF Open, Climb, Connect, Verify, treeVars, IntraWidth, TopWidth
  <2>3. TopTree'
    BY <1>3, <2>1, <2>2 DEF TopTree, Heap
  <2> QED  BY <1>5, <2>1, <2>2, <2>3
<1> QED  BY <1>4, <1>6, <1>7, <1>8 DEF TreeNext

LEMMA BoundsInductive == ASSUME Typed, TreeBounds, [TreeNext]_treeVars PROVE TreeBounds'
<1>1. S \in Nat \ {0} /\ L \in Nat \ {0} /\ width \in Nat \ {0}
  BY SizesFit, SizesAssumption DEF Typed
<1>2. S' = S /\ L' = L
  BY SameShape DEF TreeNext, GrowIntra, StartTop, GrowTop, Open, Climb, Connect, Verify, treeVars, trees
<1>3. CASE GrowIntra \/ GrowTop
  <2>1. width' < width
    BY <1>1, <1>3 DEF GrowIntra, GrowTop
  <2> QED  BY <1>1, <1>2, <1>3, <2>1 DEF GrowIntra, GrowTop, Typed, TreeBounds
<1>4. CASE StartTop
  BY <1>1, <1>2, <1>4 DEF StartTop, TreeBounds
<1>5. CASE Open
  BY <1>1, <1>2, <1>5 DEF Open, TreeBounds
<1>6. CASE Climb
  <2>1. PICK step \in Steps :
          IF step[1] \in {0, 1}
          THEN /\ curr' = Back(step[1], step[2])
               /\ pos' = pos + step[1] * pow /\ pow' = 2 * pow
               /\ width' = width \div 2 /\ phase' = phase
          ELSE phase' = "rejected" /\ UNCHANGED <<curr, pos, pow, width>>
    BY <1>6 DEF Climb
  <2>2. CASE step[1] \in {0, 1}
    <3>1. PICK h \in Nat : width = 2 * h /\ width' = h
      BY <1>6, <2>1, <2>2, Halves DEF Climb, Typed
    <3>2. /\ pow \in Nat /\ pow' = 2 * pow /\ phase' = phase /\ phase \in {"climb", "climb_top"}
          /\ h <= width
      BY <1>1, <1>6, <2>1, <2>2, <3>1 DEF Climb, Typed
    <3>3. (2 * pow) * h = pow * width
      BY <3>1, <3>2
    <3>4. phase = "climb" => h <= S /\ (2 * pow) * h = S
      BY <1>1, <3>2, <3>3 DEF TreeBounds
    <3>5. phase = "climb_top" => h <= L /\ (2 * pow) * h = L
      BY <1>1, <3>2, <3>3 DEF TreeBounds
    <3> QED  BY <1>2, <3>1, <3>2, <3>4, <3>5 DEF TreeBounds
  <2>3. CASE step[1] \notin {0, 1}
    BY <2>1, <2>3 DEF TreeBounds
  <2> QED  BY <2>2, <2>3
<1>7. CASE Connect
  BY <1>1, <1>2, <1>7 DEF Connect, TreeBounds
<1>8. CASE Verify
  BY <1>1, <1>2, <1>8 DEF Verify, TreeBounds
<1>9. CASE UNCHANGED treeVars
  BY <1>1, <1>2, <1>9 DEF treeVars, walk, TreeBounds
<1> QED  BY <1>3, <1>4, <1>5, <1>6, <1>7, <1>8, <1>9 DEF TreeNext

LEMMA NodeInjective ==
  ASSUME CollisionFree, NEW a, NEW b, NEW c, NEW d, Node(a, b) = Node(c, d)
  PROVE  a = c /\ b = d
BY DEF CollisionFree

TwiceBelow(n, w, h) == n \in Nat /\ w \in Nat /\ h \in Nat \ {0} /\ w = 2 * h /\ w <= n

(* With d and s, x has led to entry k of the level of h entries.           *)
LeadsTo(t, h, k, d, s, x) ==
  k \in 0 .. h - 1 /\ t[h - 1 + k] = IF d = 0 THEN Node(x, s) ELSE Node(s, x)

(* Then x is the entry below it on the level of w entries.                 *)
IsBelow(t, w, k, d, x) ==
  2 * k + d \in 0 .. w - 1 /\ x = t[w - 1 + (2 * k + d)]

(* One level up a complete tree: if the new hash is an entry of the upper  *)
(* level, the old one is the entry below it in the given direction.        *)
LEMMA OneLevel ==
  ASSUME CollisionFree, NEW t, NEW n, NEW w, NEW h, TwiceBelow(n, w, h), Heap(t, n, 1),
         NEW d \in {0, 1}, NEW s, NEW x, NEW k, LeadsTo(t, h, k, d, s, x)
  PROVE  IsBelow(t, w, k, d, x)
<1>0. k \in 0 .. h - 1 /\ t[h - 1 + k] = IF d = 0 THEN Node(x, s) ELSE Node(s, x)
  BY DEF LeadsTo
<1> DEFINE c == h - 1 + k
<1>1. /\ c \in 0 .. n - 1 - 1 /\ 2 * c + 1 = w - 1 + 2 * k
      /\ 2 * c + 1 + 1 = w - 1 + (2 * k + 1)
  BY <1>0 DEF TwiceBelow
<1>2. t[c] = Node(t[2 * c + 1], t[2 * c + 1 + 1])
  BY <1>1 DEF Heap
<1>3. t[c] = Node(t[w - 1 + 2 * k], t[w - 1 + (2 * k + 1)])
  BY <1>1, <1>2
<1>4. CASE d = 0
  <2>1. Node(x, s) = Node(t[w - 1 + 2 * k], t[w - 1 + (2 * k + 1)])
    BY <1>0, <1>3, <1>4
  <2>2. x = t[w - 1 + 2 * k]
    BY <2>1, NodeInjective
  <2>3. 2 * k + d = 2 * k /\ 2 * k \in 0 .. w - 1
    BY <1>0, <1>4 DEF TwiceBelow
  <2> QED  BY <2>2, <2>3 DEF IsBelow
<1>5. CASE d = 1
  <2>1. Node(s, x) = Node(t[w - 1 + 2 * k], t[w - 1 + (2 * k + 1)])
    BY <1>0, <1>3, <1>5
  <2>2. x = t[w - 1 + (2 * k + 1)]
    BY <2>1, NodeInjective
  <2>3. 2 * k + d = 2 * k + 1 /\ 2 * k + 1 \in 0 .. w - 1
    BY <1>0, <1>5 DEF TwiceBelow
  <2> QED  BY <2>2, <2>3 DEF IsBelow
<1> QED  BY <1>4, <1>5

(* The position below: twice the step in pow is the step in 2 * pow.       *)
LEMMA SamePosition ==
  ASSUME NEW k \in Nat, NEW d \in {0, 1}, NEW p \in Nat, NEW q \in Nat
  PROVE  (2 * k + d) * q + p = k * (2 * q) + (p + d * q)
<1>1. CASE d = 0
  BY <1>1
<1>2. CASE d = 1
  BY <1>2
<1> QED  BY <1>1, <1>2

LEMMA ClimbInductive ==
  ASSUME CollisionFree, TreeInv, Climb
  PROVE  ClimbsInner' /\ ClimbsTop'
<1>1. PICK step \in Steps :
        IF step[1] \in {0, 1}
        THEN /\ curr' = Back(step[1], step[2])
             /\ pos' = pos + step[1] * pow /\ pow' = 2 * pow
             /\ width' = width \div 2 /\ phase' = phase
        ELSE phase' = "rejected" /\ UNCHANGED <<curr, pos, pow, width>>
  BY DEF Climb
<1>2. CASE step[1] \notin {0, 1}
  BY <1>1, <1>2 DEF ClimbsInner, ClimbsTop
<1>3. CASE step[1] \in {0, 1}
  <2>1. PICK h \in Nat \ {0} :
          width' = h /\ width = 2 * h /\ width \in Nat /\ pow \in Nat /\ pos \in Nat
    BY <1>1, <1>3, Halves, SizesAssumption DEF Climb, TreeInv, Typed
  <2>2. /\ S \in Nat /\ L \in Nat /\ Lists' = Lists /\ \A l, j : Label(l, j)' = Label(l, j)
        /\ \A l : TopLeaf(l)' = TopLeaf(l)
        /\ intra' = intra /\ top' = top /\ claim' = claim /\ list_auth_root' = list_auth_root
    BY SizesFit, SameShape DEF Climb, TreeInv, Typed, trees, opening, inner
  <2>3. /\ curr' = Back(step[1], step[2]) /\ pos' = pos + step[1] * pow
        /\ pow' = 2 * pow /\ phase' = phase
    BY <1>1, <1>3
  <2>4. ASSUME NEW k \in 0 .. h - 1
        PROVE  (2 * k + step[1]) * pow + pos = k * pow' + pos'
    BY <1>3, <2>1, <2>3, SamePosition
  <2>5. ASSUME phase = "climb", NEW l \in Lists, NEW k \in 0 .. h - 1,
               curr' = intra[l][h - 1 + k]
        PROVE  claim = Label(l, k * pow' + pos')
    <3>1. Heap(intra[l], S, 1) /\ TwiceBelow(S, width, h)
      BY <2>1, <2>2, <2>5 DEF TreeInv, IntraTrees, IntraWidth, TreeBounds, TwiceBelow
    <3>2. LeadsTo(intra[l], h, k, step[1], step[2], curr)
      BY <2>3, <2>5 DEF Back, LeadsTo
    <3>3. IsBelow(intra[l], width, k, step[1], curr)
      BY <1>3, <3>1, <3>2, OneLevel
    <3>4. claim = Label(l, (2 * k + step[1]) * pow + pos)
      BY <2>5, <3>3 DEF TreeInv, ClimbsInner, IsBelow
    <3> QED  BY <2>4, <3>4
  <2>6. ASSUME phase = "climb_top", NEW k \in 0 .. h - 1, curr' = top[h - 1 + k]
        PROVE  list_auth_root = TopLeaf(k * pow' + pos')
    <3>1. Heap(top, L, 1) /\ TwiceBelow(L, width, h)
      BY <2>1, <2>2, <2>6 DEF TreeInv, TopTree, TopWidth, TreeBounds, TwiceBelow
    <3>2. LeadsTo(top, h, k, step[1], step[2], curr)
      BY <2>3, <2>6 DEF Back, LeadsTo
    <3>3. IsBelow(top, width, k, step[1], curr)
      BY <1>3, <3>1, <3>2, OneLevel
    <3>4. list_auth_root = TopLeaf((2 * k + step[1]) * pow + pos)
      BY <2>6, <3>3 DEF TreeInv, ClimbsTop, IsBelow
    <3> QED  BY <2>4, <3>4
  <2>7. ClimbsInner'
    BY <2>1, <2>2, <2>3, <2>5 DEF ClimbsInner
  <2>8. ClimbsTop'
    BY <2>1, <2>2, <2>3, <2>6 DEF ClimbsTop
  <2> QED  BY <2>7, <2>8
<1> QED  BY <1>2, <1>3

LEMMA OpeningInductive ==
  ASSUME CollisionFree, TreeInv, [TreeNext]_treeVars
  PROVE  ClimbsInner' /\ Rooted' /\ ClimbsTop' /\ Bound'
<1>1. /\ S \in Nat \ {0} /\ L \in Nat \ {0} /\ commitment \in Commitments
      /\ commitment' = commitment
  BY SizesFit DEF TreeInv, Typed, TreeNext, GrowIntra, StartTop, GrowTop, Open, Climb, Connect, Verify,
                  treeVars, trees
<1>2. /\ S' = S /\ L' = L /\ Lists' = Lists /\ \A l, j : Label(l, j)' = Label(l, j)
      /\ intra' = intra => \A l : TopLeaf(l)' = TopLeaf(l)
  BY <1>1, SameShape
<1>3. CASE GrowIntra \/ StartTop \/ GrowTop
  BY <1>3 DEF GrowIntra, StartTop, GrowTop, ClimbsInner, Rooted, ClimbsTop, Bound
<1>4. CASE Open
  <2>1. /\ curr' = LeafHash(claim') /\ pos' = 0 /\ pow' = 1 /\ width' = S /\ phase' = "climb"
        /\ intra' = intra /\ phase = "top"
    BY <1>4 DEF Open, trees
  <2>2. claim' \in Values
    BY TypedInductive DEF TreeInv, Typed
  <2>3. ASSUME NEW l \in Lists, NEW k \in 0 .. S - 1, curr' = intra[l][S - 1 + k]
        PROVE  claim' = Label(l, k * pow' + pos')
    <3>1. intra[l][S - 1 + k] = LeafHash(Label(l, k))
      BY <2>1, <2>3 DEF TreeInv, IntraTrees, IntraWidth
    <3>2. Label(l, k) \in Values
      BY <1>1, <2>3, LabelsAreValues
    <3>3. claim' = Label(l, k)
      BY <2>1, <2>2, <2>3, <3>1, <3>2 DEF CollisionFree
    <3>4. k * pow' + pos' = k
      BY <1>1, <2>1, <2>3
    <3> QED  BY <3>3, <3>4
  <2> QED  BY <1>2, <2>1, <2>3 DEF ClimbsInner, Rooted, ClimbsTop, Bound
<1>5. CASE Climb
  <2>1. phase' \in {phase, "rejected"} /\ phase \in {"climb", "climb_top"}
    BY <1>5 DEF Climb
  <2>2. /\ intra' = intra /\ claim' = claim /\ list_auth_root' = list_auth_root
        /\ slot_pos' = slot_pos
    BY <1>5 DEF Climb, trees, opening, inner
  <2> QED  BY <1>2, <1>5, <2>1, <2>2, ClimbInductive DEF Rooted, Bound, TreeInv
<1>6. CASE Connect
  <2>1. /\ list_auth_root' = curr /\ slot_pos' = pos /\ pos' = 0 /\ pow' = 1 /\ width' = L
        /\ curr' = curr /\ claim' = claim /\ intra' = intra /\ top' = top
        /\ phase = "climb" /\ width = 1 /\ phase' = "climb_top"
    BY <1>6 DEF Connect, trees, opening
  <2>2. ASSUME NEW l \in Lists, curr = intra[l][0] PROVE claim = Label(l, pos)
    <3>1. 0 \in 0 .. width - 1 /\ width - 1 + 0 = 0 /\ 0 * pow + pos = pos
      BY <2>1 DEF TreeInv, Typed
    <3> QED  BY <2>1, <2>2, <3>1 DEF TreeInv, ClimbsInner
  <2>3. ASSUME NEW k \in 0 .. L - 1, curr = top[L - 1 + k]
        PROVE  curr = TopLeaf(k * 1 + 0)
    <3>1. top[L - 1 + k] = TopLeaf(k)
      BY <2>1, <2>3 DEF TreeInv, TopTree, TopWidth
    <3> QED  BY <2>3, <3>1
  <2> QED  BY <1>2, <2>1, <2>2, <2>3 DEF ClimbsInner, Rooted, ClimbsTop, Bound
<1>7. CASE Verify
  <2>1. /\ phase = "climb_top" /\ width = 1 /\ phase' \in {"accepted", "rejected"}
        /\ phase' = "accepted" => curr = top[0] /\ pos = list_id
        /\ intra' = intra /\ claim' = claim /\ list_auth_root' = list_auth_root
        /\ slot_pos' = slot_pos /\ list_id' = list_id
    BY <1>7 DEF Verify, trees, opening, inner
  <2>2. ASSUME phase' = "accepted" PROVE claim = Label(list_id, slot_pos)
    <3>1. 0 \in 0 .. width - 1 /\ width - 1 + 0 = 0 /\ 0 * pow + pos = pos /\ list_id \in Lists
      BY <2>1 DEF TreeInv, Typed
    <3>2. list_auth_root = TopLeaf(list_id)
      BY <2>1, <2>2, <3>1 DEF TreeInv, ClimbsTop
    <3> QED  BY <2>1, <3>1, <3>2 DEF TreeInv, Rooted, TopLeaf
  <2> QED  BY <1>2, <2>1, <2>2 DEF ClimbsInner, Rooted, ClimbsTop, Bound, TreeInv
<1>8. CASE UNCHANGED treeVars
  BY <1>2, <1>8 DEF treeVars, trees, opening, walk, inner, ClimbsInner, Rooted, ClimbsTop, Bound, TreeInv
<1> QED  BY <1>3, <1>4, <1>5, <1>6, <1>7, <1>8 DEF TreeNext

THEOREM TreeInvHolds == CollisionFree => (TreeSpec => []TreeInv)
<1> SUFFICES ASSUME CollisionFree PROVE TreeSpec => []TreeInv
  OBVIOUS
<1>1. TreeInit => TreeInv
  BY InitTreeInv
<1>2. TreeInv /\ [TreeNext]_treeVars => TreeInv'
  BY TypedInductive, TreesInductive, BoundsInductive, OpeningInductive DEF TreeInv
<1> QED  BY <1>1, <1>2, PTL DEF TreeSpec

(* If hashes do not collide, an accepted opening claims the label that is  *)
(* committed for its list and slot (auth_label_merkle_verify_gadget and    *)
(* slot_aligned_probe_row_verify_gadget).                                  *)
THEOREM OpeningsAreBound == CollisionFree => (TreeSpec => []Bound)
<1>1. TreeInv => Bound
  BY DEF TreeInv
<1> QED  BY <1>1, TreeInvHolds, PTL

-----------------------------------------------------------------------------
(***************************************************************************)
(* Honest openings are accepted, whatever the hashes.  A path climbs as    *)
(* many levels as tree_depth says, and a size is that power of two; going  *)
(* down along the bits of an index leads, on the level of w entries, to    *)
(* the index over the leaves below one entry.  The facts about powers come *)
(* from counting subsets; that the recursive functions exist, and what     *)
(* they are, from an explicit solution and the least argument where they   *)
(* could differ from it.                                                   *)
(***************************************************************************)
LEMMA DivMod ==
  ASSUME NEW a \in Nat, NEW s \in Nat \ {0}
  PROVE  /\ a \div s \in Nat /\ a % s \in 0 .. s - 1
         /\ a = s * (a \div s) + (a % s)
OBVIOUS

LEMMA DivModUnique ==
  ASSUME NEW s \in Nat \ {0}, NEW l \in Nat, NEW o \in 0 .. s - 1
  PROVE  (l * s + o) \div s = l /\ (l * s + o) % s = o
<1>1. l * s \in Nat
  OBVIOUS
<1> DEFINE a == l * s + o
           q == a \div s
           r == a % s
<1>2. a \in Nat /\ a = l * s + o
  BY <1>1
<1>3. q \in Nat /\ r \in 0 .. s - 1 /\ a = s * q + r
  BY <1>2, DivMod
<1> HIDE DEF a, q, r
<1>4. s * q = q * s /\ q * s \in Nat
  BY <1>3
<1>5. ASSUME NEW x \in Nat, NEW y \in Nat, x < y PROVE x * s + s <= y * s
  <2>1. PICK d \in Nat : y = x + 1 + d
    <3>1. y - x - 1 \in Nat /\ y = x + 1 + (y - x - 1)
      BY <1>5
    <3> QED BY <3>1
  <2>2. y * s = x * s + s + d * s
    BY <2>1
  <2>3. d * s \in Nat /\ x * s \in Nat
    OBVIOUS
  <2> QED BY <2>2, <2>3
<1>6. ~ (q < l)
  <2> SUFFICES ASSUME q < l PROVE FALSE
    OBVIOUS
  <2>1. q * s + s <= l * s
    BY <1>3, <1>5
  <2> QED BY <1>1, <1>2, <1>3, <1>4, <2>1
<1>7. ~ (l < q)
  <2> SUFFICES ASSUME l < q PROVE FALSE
    OBVIOUS
  <2>1. l * s + s <= q * s
    BY <1>3, <1>5
  <2> QED BY <1>1, <1>2, <1>3, <1>4, <2>1
<1>8. q = l
  BY <1>3, <1>6, <1>7
<1>9. r = o
  BY <1>1, <1>2, <1>3, <1>4, <1>8
<1> QED BY <1>8, <1>9 DEF a, q, r

LEMMA LeastNatural ==
  ASSUME NEW T, T \subseteq Nat, T # {}
  PROVE  \E m \in T : \A n \in T : m <= n
<1>1. PICK m \in T : \A n \in T : ~ (<<n, m>> \in OpToRel(<, Nat))
  BY NatLessThanWellFounded, WFMin, Zenon
<1>2. \A n \in T : m <= n
  <2> TAKE n \in T
  <2>1. m \in Nat /\ n \in Nat
    OBVIOUS
  <2>2. ~ (n < m)
    BY <1>1, <2>1 DEF OpToRel
  <2> QED BY <2>1, <2>2
<1> QED BY <1>2

Pow2(k) == 2 ^ k

LEMMA Subsets ==
  ASSUME NEW k \in Nat
  PROVE  /\ IsFiniteSet(SUBSET (1 .. k)) /\ Cardinality(SUBSET (1 .. k)) = Pow2(k)
         /\ Pow2(k) \in Nat \ {0}
<1> DEFINE A == 1 .. k
<1>1. IsFiniteSet(A) /\ Cardinality(A) = k
  <2>1. IsFiniteSet(A) /\ Cardinality(A) = IF 1 > k THEN 0 ELSE k - 1 + 1
    BY FS_Interval
  <2> QED BY <2>1
<1> HIDE DEF A
<1>2. IsFiniteSet(SUBSET A) /\ Cardinality(SUBSET A) = 2 ^ k
  BY <1>1, FS_SUBSET
<1>3. Cardinality(SUBSET A) \in Nat /\ Cardinality(SUBSET A) # 0
  <2>1. SUBSET A # {}
    OBVIOUS
  <2> QED BY <1>2, <2>1, FS_CardinalityType, FS_EmptySet
<1> QED BY <1>2, <1>3 DEF A, Pow2

LEMMA Powers ==
  /\ Pow2(0) = 1
  /\ \A k \in Nat : Pow2(k) \in Nat \ {0} /\ Pow2(k + 1) = 2 * Pow2(k)
<1>1. Pow2(0) = 1
  <2>1. 0 \in Nat /\ SUBSET (1 .. 0) = {{}}
    OBVIOUS
  <2>2. Cardinality({{}}) = Pow2(0)
    BY <2>1, Subsets
  <2> QED BY <2>2, FS_Singleton
<1>2. ASSUME NEW k \in Nat PROVE Pow2(k + 1) = 2 * Pow2(k)
  <2> DEFINE x == k + 1
             old == SUBSET (1 .. k)
             new == {s \cup {x} : s \in old}
             f == [s \in old |-> s \cup {x}]
  <2>1. x \in Nat /\ x \notin 1 .. k /\ 1 .. k + 1 = (1 .. k) \cup {x}
    OBVIOUS
  <2>2. IsFiniteSet(old) /\ Cardinality(old) = Pow2(k) /\ Pow2(k) \in Nat
    BY Subsets
  <2>3. Cardinality(SUBSET (1 .. k + 1)) = Pow2(k + 1)
    BY <2>1, Subsets
  <2>4. \A s \in old : x \notin s
    BY <2>1
  <2>5. SUBSET (1 .. k + 1) = old \cup new
    <3>1. old \cup new \subseteq SUBSET (1 .. k + 1)
      BY <2>1
    <3>2. ASSUME NEW s \in SUBSET (1 .. k + 1) PROVE s \in old \cup new
      <4>1. CASE x \notin s
        BY <2>1, <4>1
      <4>2. CASE x \in s
        <5>1. s \ {x} \in old /\ s = (s \ {x}) \cup {x}
          BY <2>1, <4>2
        <5> QED BY <5>1
      <4> QED BY <4>1, <4>2
    <3> QED BY <3>1, <3>2
  <2>6. f \in Bijection(old, new)
    <3>1. f \in [old -> new]
      OBVIOUS
    <3>2. \A s, t \in old : f[s] = f[t] => s = t
      <4> TAKE s, t \in old
      <4> HAVE f[s] = f[t]
      <4>1. s \cup {x} = t \cup {x} /\ x \notin s /\ x \notin t
        BY <2>4
      <4> HIDE DEF x
      <4> QED BY <4>1
    <3>3. \A u \in new : \E s \in old : f[s] = u
      OBVIOUS
    <3> QED BY <3>1, <3>2, <3>3 DEF Bijection, Injection, Surjection, IsInjective
  <2>7. old \cap new = {}
    BY <2>4
  <2> HIDE DEF old, new, f
  <2>8. IsFiniteSet(new) /\ Cardinality(new) = Cardinality(old)
    BY <2>2, <2>6, FS_Bijection DEF ExistsBijection
  <2>9. Cardinality(old \cup new)
          = Cardinality(old) + Cardinality(new) - Cardinality(old \cap new)
    BY <2>2, <2>8, FS_Union
  <2>10. Cardinality(old \cap new) = 0
    BY <2>7, FS_EmptySet
  <2>11. Pow2(k + 1) = Cardinality(old \cup new)
    BY <2>3, <2>5, Zenon
  <2> HIDE DEF x
  <2> QED BY <2>2, <2>8, <2>9, <2>10, <2>11
<1> QED BY <1>1, <1>2, Subsets

(* Powers grow.                                                            *)
LEMMA PowersGrow ==
  ASSUME NEW d \in Nat, NEW e \in Nat, d < e
  PROVE  2 * Pow2(d) <= Pow2(e)
<1> DEFINE bad == {k \in Nat : ~ (2 * Pow2(d) <= Pow2(d + 1 + k))}
<1>1. bad = {}
  <2> SUFFICES ASSUME bad # {} PROVE FALSE
    OBVIOUS
  <2>1. PICK k \in bad : \A m \in bad : k <= m
    BY LeastNatural
  <2>2. Pow2(d) \in Nat /\ Pow2(d + 1) = 2 * Pow2(d)
    BY Powers
  <2>3. k # 0
    <3>1. d + 1 + 0 = d + 1
      OBVIOUS
    <3> QED BY <2>2, <3>1
  <2>4. k - 1 \in Nat /\ k - 1 \notin bad
    BY <2>1, <2>3
  <2>5. 2 * Pow2(d) <= Pow2(d + 1 + (k - 1))
    BY <2>4
  <2>6. d + 1 + (k - 1) \in Nat /\ d + 1 + k = d + 1 + (k - 1) + 1
    OBVIOUS
  <2>7. Pow2(d + 1 + k) = 2 * Pow2(d + 1 + (k - 1)) /\ Pow2(d + 1 + (k - 1)) \in Nat
    BY <2>6, Powers
  <2> QED BY <2>2, <2>5, <2>7
<1>2. e - d - 1 \in Nat /\ d + 1 + (e - d - 1) = e
  OBVIOUS
<1> QED BY <1>1, <1>2

(* What is left of an index, and its next bit, when it is halved again.    *)
LEMMA HalveIndex ==
  ASSUME NEW a \in Nat, NEW s \in Nat \ {0}
  PROVE  /\ (a \div s) % 2 \in {0, 1}
         /\ a \div s = 2 * (a \div (2 * s)) + ((a \div s) % 2)
         /\ a % (2 * s) = (a % s) + ((a \div s) % 2) * s
         /\ a \div (2 * s) \in Nat
<1> DEFINE q == a \div (2 * s)
           r == a % (2 * s)
           b == IF r < s THEN 0 ELSE 1
           o == IF r < s THEN r ELSE r - s
<1>1. 2 * s \in Nat \ {0}
  OBVIOUS
<1>2. q \in Nat /\ r \in 0 .. 2 * s - 1 /\ a = (2 * s) * q + r
  BY <1>1, DivMod
<1> HIDE DEF q, r
<1>3. b \in {0, 1} /\ o \in 0 .. s - 1 /\ r = b * s + o
  BY <1>2
<1>4. (2 * s) * q = (2 * q) * s
  BY <1>2
<1>5. a = (2 * q + b) * s + o
  <2>1. (2 * q + b) * s = (2 * q) * s + b * s
    BY <1>2, <1>3
  <2> HIDE DEF b, o
  <2>2. b * s \in Nat /\ (2 * q) * s \in Nat
    BY <1>2, <1>3
  <2> QED BY <1>2, <1>3, <1>4, <2>1, <2>2
<1> HIDE DEF b, o
<1>6. 2 * q + b \in Nat
  BY <1>2, <1>3
<1>7. a \div s = 2 * q + b /\ a % s = o
  BY <1>3, <1>5, <1>6, DivModUnique
<1>8. (2 * q + b) % 2 = b
  BY <1>2, <1>3
<1>9. (a \div s) % 2 = b
  BY <1>7, <1>8
<1>10. r = o + b * s
  <2>1. b * s \in Nat
    BY <1>3
  <2> QED BY <1>2, <1>3, <2>1
<1> QED BY <1>2, <1>3, <1>7, <1>9, <1>10 DEF q, r

-----------------------------------------------------------------------------
Between(n, d) == Pow2(d) <= n /\ n < Pow2(d + 1)

Log(n) == CHOOSE d \in Nat : Between(n, d)

LEMMA OneLog ==
  ASSUME NEW n \in Nat, NEW d \in Nat, NEW e \in Nat, Between(n, d), Between(n, e)
  PROVE  d = e
<1>1. Pow2(d) \in Nat /\ Pow2(e) \in Nat /\ Pow2(d + 1) = 2 * Pow2(d)
      /\ Pow2(e + 1) = 2 * Pow2(e)
  BY Powers
<1>2. ~ (d < e)
  BY <1>1, PowersGrow DEF Between
<1>3. ~ (e < d)
  BY <1>1, PowersGrow DEF Between
<1> QED BY <1>2, <1>3

LEMMA HalfLog ==
  ASSUME NEW n \in Nat, n > 1, NEW d \in Nat, Between(n \div 2, d)
  PROVE  Between(n, d + 1)
<1> DEFINE m == n \div 2
<1>1. m \in Nat /\ 2 * m <= n /\ n <= 2 * m + 1
  OBVIOUS
<1>2. /\ Pow2(d) \in Nat /\ Pow2(d + 1) = 2 * Pow2(d)
      /\ Pow2(d + 1 + 1) = 2 * Pow2(d + 1)
  BY Powers
<1>3. Pow2(d) <= m /\ m < Pow2(d + 1)
  BY DEF Between
<1> HIDE DEF m
<1> QED BY <1>1, <1>2, <1>3 DEF Between

LEMMA LogExists ==
  ASSUME NEW n \in Nat \ {0}
  PROVE  Log(n) \in Nat /\ Between(n, Log(n))
<1> DEFINE bad == {m \in Nat \ {0} : ~ \E d \in Nat : Between(m, d)}
<1>1. bad = {}
  <2> SUFFICES ASSUME bad # {} PROVE FALSE
    OBVIOUS
  <2>1. PICK m \in bad : \A k \in bad : m <= k
    BY LeastNatural
  <2>2. Between(1, 0)
    <3>1. 0 \in Nat /\ Pow2(0) = 1 /\ Pow2(0 + 1) = 2 * Pow2(0)
      BY Powers
    <3> QED BY <3>1 DEF Between
  <2>3. m # 1
    BY <2>1, <2>2
  <2>4. m \in Nat /\ m > 1
    BY <2>1, <2>3
  <2>5. m \div 2 \in Nat \ {0} /\ m \div 2 < m
    BY <2>4
  <2>6. m \div 2 \notin bad
    BY <2>1, <2>4, <2>5
  <2>7. PICK d \in Nat : Between(m \div 2, d)
    BY <2>5, <2>6
  <2>8. Between(m, d + 1)
    BY <2>4, <2>7, HalfLog
  <2> QED BY <2>1, <2>8
<1>2. \E d \in Nat : Between(n, d)
  BY <1>1
<1> QED BY <1>2 DEF Log

DepthStep(f, n) == IF n <= 1 THEN 0 ELSE 1 + f[n \div 2]

LEMMA DepthExists == tree_depth = [n \in Nat |-> DepthStep(tree_depth, n)]
<1> DEFINE f == [n \in Nat |-> IF n <= 1 THEN 0 ELSE Log(n)]
<1>1. ASSUME NEW n \in Nat PROVE f[n] = DepthStep(f, n)
  <2>1. CASE n <= 1
    BY <2>1 DEF DepthStep
  <2>2. CASE n > 1
    <3> DEFINE m == n \div 2
    <3>1. m \in Nat \ {0} /\ n \in Nat \ {0} /\ m < n
      BY <2>2
    <3>2. Log(m) \in Nat /\ Between(m, Log(m)) /\ Log(n) \in Nat /\ Between(n, Log(n))
      BY <3>1, LogExists
    <3>3. Between(n, Log(m) + 1)
      BY <2>2, <3>2, HalfLog
    <3>4. Log(n) = Log(m) + 1
      BY <3>2, <3>3, OneLog
    <3>5. m = 1 => Log(m) = 0
      <4>1. 0 \in Nat /\ Pow2(0) = 1 /\ Pow2(0 + 1) = 2 * Pow2(0)
        BY Powers
      <4>2. Between(1, 0)
        BY <4>1 DEF Between
      <4> HIDE DEF m
      <4> QED BY <3>1, <3>2, <4>1, <4>2, OneLog
    <3>6. f[n] = Log(n) /\ f[m] = Log(m)
      <4> HIDE DEF m
      <4> QED BY <2>2, <3>1, <3>5
    <3> HIDE DEF f
    <3> QED BY <2>2, <3>2, <3>4, <3>6 DEF DepthStep
  <2> QED BY <2>1, <2>2
<1>2. f = [n \in Nat |-> DepthStep(f, n)]
  <2> DEFINE g == [n \in Nat |-> DepthStep(f, n)]
  <2>1. DOMAIN f = DOMAIN g /\ \A n \in Nat : f[n] = g[n]
    BY <1>1
  <2>2. f = g
    <3>1. f = [n \in Nat |-> f[n]] /\ g = [n \in Nat |-> g[n]]
      OBVIOUS
    <3> HIDE DEF f, g
    <3> QED BY <2>1, <3>1
  <2> QED BY <2>2
<1> HIDE DEF f
<1>3. \E h : h = [n \in Nat |-> DepthStep(h, n)]
  BY <1>2
<1> QED BY <1>3, Zenon DEF tree_depth, DepthStep

LEMMA DepthOfSize ==
  ASSUME NEW n \in Sizes
  PROVE  tree_depth[n] \in Nat /\ Pow2(tree_depth[n]) = n
<1> DEFINE bad == {m \in Sizes : ~ (tree_depth[m] \in Nat /\ Pow2(tree_depth[m]) = m)}
<1>1. \A m \in Nat : tree_depth[m] = DepthStep(tree_depth, m)
  BY DepthExists
<1>2. bad = {}
  <2> SUFFICES ASSUME bad # {} PROVE FALSE
    OBVIOUS
  <2>1. bad \subseteq Nat
    BY SizesAssumption
  <2>2. PICK m \in bad : \A k \in bad : m <= k
    BY <2>1, LeastNatural
  <2>3. m \in Sizes /\ m \in Nat \ {0}
    BY SizesAssumption
  <2>4. CASE m = 1
    <3>1. tree_depth[m] = 0
      BY <1>1, <2>4 DEF DepthStep
    <3> QED BY <2>4, <3>1, Powers
  <2>5. CASE m > 1
    <3> DEFINE h == m \div 2
    <3>1. h \in Sizes /\ m = 2 * h /\ h \in Nat \ {0}
      BY <2>3, <2>5, Halves
    <3>2. tree_depth[m] = 1 + tree_depth[h]
      BY <1>1, <2>3, <2>5 DEF DepthStep
    <3> HIDE DEF h
    <3>3. h \notin bad
      BY <2>2, <2>3, <3>1
    <3>4. tree_depth[h] \in Nat /\ Pow2(tree_depth[h]) = h
      BY <3>1, <3>3
    <3>5. Pow2(tree_depth[h] + 1) = 2 * h
      BY <3>4, Powers
    <3>6. tree_depth[m] = tree_depth[h] + 1
      BY <3>2, <3>4
    <3> QED BY <2>2, <3>1, <3>4, <3>5, <3>6
  <2> QED BY <2>3, <2>4, <2>5
<1> QED BY <1>2

-----------------------------------------------------------------------------
(* The entry over index i, k levels below the root of a tree of depth d.   *)
Over(i, d, k) == Pow2(k) - 1 + (i \div Pow2(d - k))

DownStep(f, i, d, k) ==
  IF k = 0 THEN 0 ELSE 2 * f[k - 1] + ((i \div 2 ^ (d - k)) % 2) + 1

Descends(f, i, d) == f = [k \in 0 .. d |-> DownStep(f, i, d, k)]

LEMMA OverRoot ==
  ASSUME NEW d \in Nat, NEW i \in 0 .. Pow2(d) - 1
  PROVE  Over(i, d, 0) = 0
<1>1. Pow2(d) \in Nat \ {0} /\ Pow2(0) = 1 /\ i \in Nat
  BY Powers
<1>2. 0 * Pow2(d) + i = i /\ 0 \in Nat
  BY <1>1
<1>3. i \div Pow2(d) = 0
  BY <1>1, <1>2, DivModUnique
<1>4. d - 0 = d
  OBVIOUS
<1> QED BY <1>1, <1>3, <1>4 DEF Over

LEMMA OverStep ==
  ASSUME NEW d \in Nat, NEW i \in 0 .. Pow2(d) - 1, NEW k \in 1 .. d
  PROVE  /\ Over(i, d, k) = 2 * Over(i, d, k - 1) + ((i \div Pow2(d - k)) % 2) + 1
         /\ (i \div Pow2(d - k)) % 2 \in {0, 1}
<1>1. i \in Nat
  BY Powers
<1> DEFINE s == Pow2(d - k)
           b == (i \div s) % 2
<1>3. d - k \in Nat /\ k - 1 \in Nat /\ (d - k) + 1 = d - (k - 1) /\ (k - 1) + 1 = k
  OBVIOUS
<1>4. s \in Nat \ {0} /\ Pow2(d - (k - 1)) = 2 * s
  BY <1>3, Powers
<1>5. Pow2(k) = 2 * Pow2(k - 1) /\ Pow2(k - 1) \in Nat
  BY <1>3, Powers
<1>6. /\ b \in {0, 1} /\ i \div s = 2 * (i \div (2 * s)) + b
      /\ i \div (2 * s) \in Nat
  <2> HIDE DEF s
  <2> QED BY <1>1, <1>4, HalveIndex
<1>7. /\ Over(i, d, k) = Pow2(k) - 1 + (i \div s)
      /\ Over(i, d, k - 1) = Pow2(k - 1) - 1 + (i \div (2 * s))
  BY <1>4 DEF Over
<1> HIDE DEF s, b
<1>8. Over(i, d, k) = 2 * Over(i, d, k - 1) + b + 1
  BY <1>5, <1>6, <1>7
<1> QED BY <1>6, <1>8 DEF s, b

LEMMA DescentExists ==
  ASSUME NEW d \in Nat, NEW i \in 0 .. Pow2(d) - 1
  PROVE  \E f : Descends(f, i, d)
<1> DEFINE f == [k \in 0 .. d |-> Over(i, d, k)]
<1>1. ASSUME NEW k \in 0 .. d PROVE f[k] = DownStep(f, i, d, k)
  <2>1. CASE k = 0
    <3>1. Over(i, d, 0) = 0
      BY OverRoot
    <3>2. f[0] = 0
      BY <3>1
    <3> QED BY <2>1, <3>2 DEF DownStep
  <2>2. CASE k # 0
    <3>1. k \in 1 .. d /\ k - 1 \in 0 .. d
      BY <2>2
    <3>2. Over(i, d, k) = 2 * Over(i, d, k - 1) + ((i \div Pow2(d - k)) % 2) + 1
      BY <3>1, OverStep
    <3>3. f[k] = Over(i, d, k) /\ f[k - 1] = Over(i, d, k - 1)
      BY <3>1
    <3> HIDE DEF f
    <3> QED BY <2>2, <3>2, <3>3 DEF DownStep, Pow2
  <2> QED BY <2>1, <2>2
<1>2. f = [k \in 0 .. d |-> DownStep(f, i, d, k)]
  <2> DEFINE g == [k \in 0 .. d |-> DownStep(f, i, d, k)]
  <2>1. \A k \in 0 .. d : f[k] = g[k]
    BY <1>1
  <2>2. f = [k \in 0 .. d |-> f[k]] /\ g = [k \in 0 .. d |-> g[k]]
    OBVIOUS
  <2>3. f = g
    <3> HIDE DEF f, g
    <3> QED BY <2>1, <2>2
  <2> QED BY <2>3
<1> HIDE DEF f
<1>3. Descends(f, i, d)
  BY <1>2 DEF Descends
<1> QED BY <1>3

LEMMA DescentIsOver ==
  ASSUME NEW d \in Nat, NEW i \in 0 .. Pow2(d) - 1, NEW f, Descends(f, i, d)
  PROVE  \A k \in 0 .. d : f[k] = Over(i, d, k)
<1> DEFINE bad == {k \in 0 .. d : f[k] # Over(i, d, k)}
<1>1. \A k \in 0 .. d : f[k] = DownStep(f, i, d, k)
  BY DEF Descends
<1>2. bad = {}
  <2> SUFFICES ASSUME bad # {} PROVE FALSE
    OBVIOUS
  <2>1. bad \subseteq Nat
    OBVIOUS
  <2>2. PICK k \in bad : \A m \in bad : k <= m
    BY <2>1, LeastNatural
  <2>3. CASE k = 0
    <3>1. f[0] = 0
      BY <1>1, <2>3 DEF DownStep
    <3> QED BY <2>2, <2>3, <3>1, OverRoot
  <2>4. CASE k # 0
    <3>1. k \in 1 .. d /\ k - 1 \in 0 .. d
      BY <2>4
    <3>2. k - 1 \notin bad
      BY <2>2, <3>1
    <3>3. f[k - 1] = Over(i, d, k - 1)
      BY <3>1, <3>2
    <3>4. Over(i, d, k) = 2 * Over(i, d, k - 1) + ((i \div Pow2(d - k)) % 2) + 1
      BY <3>1, OverStep
    <3>5. f[k] = 2 * f[k - 1] + ((i \div 2 ^ (d - k)) % 2) + 1
      BY <1>1, <2>4, <3>1 DEF DownStep
    <3> QED BY <2>2, <3>3, <3>4, <3>5 DEF Pow2
  <2> QED BY <2>3, <2>4
<1> QED BY <1>2

(* What the honest prover has for level m, counted from the leaves.        *)
PathStep(i, t, d, m) ==
  <<(i \div Pow2(m - 1)) % 2, t[Sibling(Over(i, d, d + 1 - m))]>>

LEMMA PathIs ==
  ASSUME NEW n \in Sizes, NEW i \in 0 .. n - 1, NEW t
  PROVE  HashTreePath(i, t, n) =
           [m \in 1 .. tree_depth[n] |-> PathStep(i, t, tree_depth[n], m)]
<1> DEFINE d == tree_depth[n]
           f == CHOOSE g : Descends(g, i, d)
           one == [m \in 1 .. d |->
                     <<(i \div 2 ^ (m - 1)) % 2, t[Sibling(f[d + 1 - m])]>>]
           two == [m \in 1 .. d |-> PathStep(i, t, d, m)]
<1>1. HashTreePath(i, t, n) = one
  BY Zenon DEF HashTreePath, Descends, DownStep
<1>2. d \in Nat /\ i \in 0 .. Pow2(d) - 1
  BY DepthOfSize
<1> HIDE DEF d
<1>3. Descends(f, i, d)
  <2>1. \E g : Descends(g, i, d)
    BY <1>2, DescentExists
  <2> QED BY <2>1, Zenon
<1> HIDE DEF f
<1>4. \A k \in 0 .. d : f[k] = Over(i, d, k)
  BY <1>2, <1>3, DescentIsOver
<1>5. ASSUME NEW m \in 1 .. d PROVE f[d + 1 - m] = Over(i, d, d + 1 - m)
  <2>1. d + 1 - m \in 0 .. d
    BY <1>2
  <2> QED BY <1>4, <2>1
<1>6. one = two
  BY <1>5, Zenon DEF PathStep, Pow2
<1> QED BY <1>1, <1>6 DEF d

LEMMA PowersMultiply ==
  ASSUME NEW d \in Nat, NEW k \in 0 .. d
  PROVE  Pow2(k) * Pow2(d - k) = Pow2(d)
<1> DEFINE bad == {m \in 0 .. d : Pow2(m) * Pow2(d - m) # Pow2(d)}
<1>1. bad = {}
  <2> SUFFICES ASSUME bad # {} PROVE FALSE
    OBVIOUS
  <2>1. bad \subseteq Nat
    OBVIOUS
  <2>2. PICK m \in bad : \A l \in bad : m <= l
    BY <2>1, LeastNatural
  <2>3. m # 0
    <3>1. d - 0 = d /\ Pow2(0) = 1 /\ Pow2(d) \in Nat
      BY Powers
    <3> QED BY <2>2, <3>1
  <2>4. /\ m - 1 \in 0 .. d /\ m - 1 \in Nat /\ d - m \in Nat
        /\ (m - 1) + 1 = m /\ d - (m - 1) = (d - m) + 1
    BY <2>3
  <2>5. Pow2(m - 1) * Pow2(d - (m - 1)) = Pow2(d)
    BY <2>2, <2>4
  <2> DEFINE a == Pow2(m - 1)
             b == Pow2(d - m)
  <2>6. a \in Nat /\ b \in Nat /\ Pow2(m) = 2 * a /\ Pow2(d - (m - 1)) = 2 * b
    BY <2>4, Powers
  <2>7. a * (2 * b) = Pow2(d)
    BY <2>5, <2>6
  <2>8. (2 * a) * b # Pow2(d)
    BY <2>2, <2>6
  <2> HIDE DEF a, b
  <2>9. a * (2 * b) = (2 * a) * b
    BY <2>6
  <2> QED BY <2>7, <2>8, <2>9
<1> QED BY <1>1

-----------------------------------------------------------------------------
(* k levels up the path of index i in tree t of depth d: what is left of   *)
(* the path, the entry reached, and the bits summed up.                    *)
OnWay(i, t, n, k, pw, w, rest, x, p) ==
  LET d == tree_depth[n] IN
    /\ pw = Pow2(k) /\ w = Pow2(d - k)
    /\ rest = [m \in 1 .. d - k |-> PathStep(i, t, d, k + m)]
    /\ x = t[w - 1 + (i \div pw)]
    /\ p = i % pw

Walks(i, t, n, pw, w, rest, x, p) ==
  i \in 0 .. n - 1 /\ \E k \in 0 .. tree_depth[n] : OnWay(i, t, n, k, pw, w, rest, x, p)

Climbing(i, t, n) == Walks(i, t, n, pow, width, path, curr, pos)

HonestClimbs ==
  /\ honest /\ phase = "climb" => \E i \in Nat : Climbing(i, intra[list_id], S)
  /\ honest /\ phase = "climb_top" => Climbing(list_id, top, L)

HInv == Typed /\ TreeBounds /\ IntraTrees /\ TopTree /\ HonestClimbs /\ HonestOpens

(* Where the path starts.                                                  *)
LEMMA AtTheLeaf ==
  ASSUME NEW n \in Sizes, NEW i \in 0 .. n - 1, NEW t,
         pow' = 1, width' = n, pos' = 0, path' = HashTreePath(i, t, n),
         curr' = t[n - 1 + i]
  PROVE  Walks(i, t, n, pow', width', path', curr', pos')
<1> DEFINE d == tree_depth[n]
<1>1. d \in Nat /\ Pow2(d) = n /\ Pow2(0) = 1
  BY DepthOfSize, Powers
<1>2. path' = [m \in 1 .. d |-> PathStep(i, t, d, m)]
  BY PathIs
<1>3. n \in Nat \ {0} /\ i \in Nat
  BY SizesAssumption
<1>4. i \div 1 = i /\ i % 1 = 0
  BY <1>3
<1> HIDE DEF d
<1>5. [m \in 1 .. d |-> PathStep(i, t, d, m)] = [m \in 1 .. d - 0 |-> PathStep(i, t, d, 0 + m)]
  <2>1. d - 0 = d /\ \A m \in 1 .. d : 0 + m = m
    BY <1>1
  <2> QED BY <2>1
<1>6. 0 \in 0 .. d /\ d - 0 = d
  BY <1>1
<1>7. OnWay(i, t, n, 0, pow', width', path', curr', pos')
  BY <1>1, <1>2, <1>4, <1>5, <1>6 DEF OnWay, d
<1> QED BY <1>6, <1>7 DEF d, Walks

(* Where it ends.                                                          *)
LEMMA AtTheRoot ==
  ASSUME NEW n \in Sizes, NEW i, NEW t, Climbing(i, t, n), width = 1
  PROVE  curr = t[0] /\ pos = i
<1> DEFINE d == tree_depth[n]
<1>1. d \in Nat /\ Pow2(d) = n /\ Pow2(0) = 1 /\ n \in Nat \ {0}
  BY DepthOfSize, Powers, SizesAssumption
<1>2. i \in 0 .. n - 1
  BY DEF Climbing, Walks
<1>3. PICK k \in 0 .. d : OnWay(i, t, n, k, pow, width, path, curr, pos)
  BY DEF Climbing, Walks
<1>4. k = d
  <2> SUFFICES ASSUME k # d PROVE FALSE
    OBVIOUS
  <2>1. d - k \in Nat /\ 0 < d - k
    BY <1>1
  <2>2. 2 * Pow2(0) <= Pow2(d - k)
    BY <2>1, PowersGrow
  <2> QED BY <1>1, <1>3, <2>2 DEF OnWay
<1>5. pow = n
  BY <1>1, <1>3, <1>4 DEF OnWay
<1>6. i \div n = 0 /\ i % n = i
  <2>1. 0 * n + i = i /\ 0 \in Nat
    BY <1>1, <1>2
  <2> QED BY <1>1, <1>2, <2>1, DivModUnique
<1>7. width - 1 + 0 = 0
  OBVIOUS
<1> QED BY <1>3, <1>5, <1>6, <1>7 DEF OnWay

(* One level up: the sibling of an entry is the other child of its parent. *)
OneOfTwo(t, h, q, b, x, s) ==
  /\ b \in {0, 1} /\ q \in 0 .. h - 1
  /\ x = t[2 * h - 1 + (2 * q + b)] /\ s = t[Sibling(2 * h - 1 + (2 * q + b))]

LEMMA ParentOfBoth ==
  ASSUME NEW t, NEW n \in Nat, NEW h \in Nat \ {0}, 2 * h <= n, Heap(t, n, 1),
         NEW q, NEW b, NEW x, NEW s, OneOfTwo(t, h, q, b, x, s)
  PROVE  t[h - 1 + q] = IF b = 0 THEN Node(x, s) ELSE Node(s, x)
<1> DEFINE c == h - 1 + q
           a == 2 * q + b
<1>0. /\ b \in {0, 1} /\ q \in 0 .. h - 1
      /\ x = t[2 * h - 1 + a] /\ s = t[Sibling(2 * h - 1 + a)]
  BY DEF OneOfTwo
<1>1. c \in 0 .. n - 1 - 1
  BY <1>0
<1>2. t[c] = Node(t[2 * c + 1], t[2 * c + 1 + 1])
  BY <1>1 DEF Heap
<1>3. CASE b = 0
  <2>1. 2 * h - 1 + a = 2 * c + 1 /\ (2 * c + 1) % 2 # 0 /\ 2 * c + 1 \in Nat
    BY <1>0, <1>1, <1>3
  <2>2. Sibling(2 * h - 1 + a) = 2 * c + 1 + 1
    BY <2>1 DEF Sibling
  <2> QED BY <1>0, <1>2, <1>3, <2>1, <2>2
<1>4. CASE b = 1
  <2>1. 2 * h - 1 + a = 2 * c + 1 + 1 /\ (2 * c + 1 + 1) % 2 = 0 /\ 2 * c + 1 \in Nat
    BY <1>0, <1>1, <1>4
  <2>2. Sibling(2 * h - 1 + a) = 2 * c + 1
    BY <2>1 DEF Sibling
  <2> QED BY <1>0, <1>2, <1>4, <2>1, <2>2
<1> QED BY <1>0, <1>3, <1>4

LEMMA OneLevelUp ==
  ASSUME NEW n \in Sizes, NEW i, NEW t, Climbing(i, t, n), width > 1, width \in Nat,
         Heap(t, n, 1), honest, Climb
  PROVE  /\ phase' = phase
         /\ Walks(i, t, n, pow', width', path', curr', pos')
<1> DEFINE d == tree_depth[n]
<1>1. d \in Nat /\ Pow2(d) = n /\ Pow2(0) = 1 /\ n \in Nat \ {0}
  BY DepthOfSize, Powers, SizesAssumption
<1>2. i \in 0 .. n - 1 /\ i \in Nat
  BY <1>1 DEF Climbing, Walks
<1>3. PICK k \in 0 .. d : OnWay(i, t, n, k, pow, width, path, curr, pos)
  BY DEF Climbing, Walks
<1>4. k < d
  <2> SUFFICES ASSUME ~ (k < d) PROVE FALSE
    OBVIOUS
  <2>1. d - k = 0
    BY <1>1
  <2> QED BY <1>1, <1>3, <2>1 DEF OnWay
<1>5. /\ pow = Pow2(k) /\ width = Pow2(d - k)
      /\ path = [m \in 1 .. d - k |-> PathStep(i, t, d, k + m)]
      /\ curr = t[width - 1 + (i \div pow)]
      /\ pos = i % pow
  BY <1>3 DEF OnWay
<1> HIDE DEF d
<1> DEFINE h == Pow2(d - (k + 1))
           b == (i \div pow) % 2
           q == i \div (2 * pow)
           s == t[Sibling(width - 1 + (i \div pow))]
<1>6. d - (k + 1) \in Nat /\ d - k = d - (k + 1) + 1 /\ k \in Nat /\ k + 1 \in 0 .. d
  BY <1>1, <1>4
<1>7. h \in Nat \ {0} /\ width = 2 * h
  BY <1>5, <1>6, Powers
<1>8. pow \in Nat \ {0} /\ Pow2(k + 1) = 2 * pow
  BY <1>5, <1>6, Powers
<1>9. /\ b \in {0, 1} /\ i \div pow = 2 * q + b /\ q \in Nat
      /\ i % (2 * pow) = (i % pow) + b * pow
  BY <1>2, <1>8, HalveIndex
<1>10. Head(path) = <<b, s>>
  <2>1. 1 \in 1 .. d - k /\ d - k \in Nat
    BY <1>1, <1>4, <1>6
  <2>2. path[1] = PathStep(i, t, d, k + 1) /\ Head(path) = path[1]
    BY <1>5, <2>1
  <2>3. (k + 1) - 1 = k /\ d + 1 - (k + 1) = d - k
    BY <1>1, <1>6
  <2>4. d - (d - k) = k
    BY <1>1, <1>6
  <2>5. PathStep(i, t, d, k + 1) = <<(i \div Pow2(k)) % 2, t[Sibling(Over(i, d, d - k))]>>
    BY <2>3 DEF PathStep
  <2>6. Over(i, d, d - k) = width - 1 + (i \div pow)
    BY <1>5, <2>4 DEF Over
  <2> QED BY <1>5, <2>2, <2>5, <2>6
<1>11. Tail(path) = [m \in 1 .. d - (k + 1) |-> PathStep(i, t, d, (k + 1) + m)]
  <2> DEFINE rest == [m \in 1 .. d - (k + 1) |-> PathStep(i, t, d, (k + 1) + m)]
             e == d - k
  <2>1. e \in Nat /\ e >= 1 /\ e - 1 = d - (k + 1)
    BY <1>1, <1>4, <1>6
  <2> DEFINE R == {PathStep(i, t, d, k + m) : m \in 1 .. e}
  <2>2. path \in [1 .. e -> R]
    BY <1>5
  <2> HIDE DEF R
  <2>3. path \in Seq(R) /\ Len(path) = e
    BY <2>1, <2>2
  <2> HIDE DEF e
  <2>4. Tail(path) = [m \in 1 .. e - 1 |-> path[m + 1]]
    <3>1. Tail(path) \in Seq(R) /\ Len(Tail(path)) = e - 1
      BY <2>1, <2>3
    <3>2. \A m \in 1 .. e - 1 : Tail(path)[m] = path[m + 1]
      BY <2>1, <2>3
    <3> DEFINE z == Tail(path)
    <3>3. z \in Seq(R) /\ Len(z) = e - 1 /\ e - 1 \in Nat
      BY <2>1, <3>1
    <3> HIDE DEF z
    <3>4. z \in [1 .. Len(z) -> R]
      BY <3>3
    <3>5. z = [m \in 1 .. e - 1 |-> z[m]]
      BY <3>3, <3>4, Zenon
    <3> QED BY <3>2, <3>5 DEF z
  <2>5. \A m \in 1 .. e - 1 : m + 1 \in 1 .. e /\ k + (m + 1) = (k + 1) + m
    BY <1>6, <2>1
  <2>6. \A m \in 1 .. e - 1 : path[m + 1] = PathStep(i, t, d, (k + 1) + m)
    BY <1>5, <2>5 DEF e
  <2> QED BY <2>1, <2>4, <2>6
<1> HIDE DEF b, s
<1>12. /\ curr' = Back(b, s) /\ pos' = pos + b * pow /\ pow' = 2 * pow
       /\ width' = width \div 2 /\ phase' = phase /\ path' = Tail(path)
  <2>1. Steps = {<<b, s>>} /\ <<b, s>>[1] = b /\ <<b, s>>[2] = s
    BY <1>10 DEF Steps
  <2>2. PICK step \in Steps :
           IF step[1] \in {0, 1}
           THEN /\ curr' = Back(step[1], step[2])
                /\ pos' = pos + step[1] * pow /\ pow' = 2 * pow
                /\ width' = width \div 2 /\ phase' = phase
           ELSE phase' = "rejected" /\ UNCHANGED <<curr, pos, pow, width>>
    BY DEF Climb
  <2>3. step[1] = b /\ step[2] = s
    BY <2>1
  <2>4. path' = Tail(path)
    BY DEF Climb
  <2> QED BY <1>9, <2>2, <2>3, <2>4
<1>13. q < h
  <2> SUFFICES ASSUME ~ (q < h) PROVE FALSE
    OBVIOUS
  <2>1. PICK x \in Nat : q = h + x
    <3>1. q - h \in Nat /\ q = h + (q - h)
      BY <1>7, <1>9
    <3> QED BY <3>1
  <2> DEFINE r == i % pow
  <2>2. i = pow * (i \div pow) + r /\ r \in Nat
    <3> HIDE DEF h, q
    <3>1. r \in 0 .. pow - 1 /\ i = pow * (i \div pow) + r
      BY <1>2, <1>8, DivMod
    <3> HIDE DEF r
    <3> QED BY <1>8, <3>1
  <2>3. pow * width = n
    BY <1>5, <1>6, <1>1, PowersMultiply
  <2> HIDE DEF r, h, q
  <2>4. i \div pow = width + (2 * x + b)
    BY <1>7, <1>9, <2>1
  <2>5. pow * (i \div pow) = pow * width + pow * (2 * x + b)
    BY <1>7, <1>8, <1>9, <2>4
  <2>6. pow * (2 * x + b) \in Nat
    BY <1>8, <1>9
  <2> QED BY <1>1, <1>2, <2>2, <2>3, <2>5, <2>6
<1>14. curr' = t[h - 1 + q]
  <2>1. 2 * h <= n
    <3>1. pow * width = n
      BY <1>5, <1>6, <1>1, PowersMultiply
    <3>2. PICK x \in Nat : pow = x + 1
      <4>1. pow - 1 \in Nat /\ pow = (pow - 1) + 1
        BY <1>8
      <4> QED BY <4>1
    <3>3. pow * width = x * width + width /\ x * width \in Nat
      BY <3>2
    <3> QED BY <1>1, <1>7, <3>1, <3>3
  <2>2. i \div pow \in Nat /\ q \in 0 .. h - 1
    BY <1>7, <1>9, <1>13
  <2>3. curr = t[2 * h - 1 + (i \div pow)] /\ s = t[Sibling(2 * h - 1 + (i \div pow))]
    BY <1>5, <1>7 DEF s
  <2>4. OneOfTwo(t, h, q, b, curr, s)
    BY <1>9, <2>2, <2>3 DEF OneOfTwo
  <2> HIDE DEF h, q
  <2>6. t[h - 1 + q] = IF b = 0 THEN Node(curr, s) ELSE Node(s, curr)
    BY <1>1, <1>7, <2>1, <2>4, ParentOfBoth
  <2> QED BY <1>12, <2>6 DEF Back
<1>15. width' = h
  BY <1>7, <1>12
<1>16. OnWay(i, t, n, k + 1, pow', width', path', curr', pos')
  <2>1. pow' = Pow2(k + 1) /\ width' = Pow2(d - (k + 1))
    BY <1>8, <1>12, <1>15
  <2>2. curr' = t[width' - 1 + (i \div pow')]
    BY <1>12, <1>14, <1>15
  <2>3. pos' = i % pow'
    BY <1>5, <1>9, <1>12
  <2> QED BY <1>11, <1>12, <2>1, <2>2, <2>3 DEF OnWay, d
<1> QED BY <1>2, <1>6, <1>12, <1>16 DEF d, Walks

(* The trees are complete once they are climbed.                           *)
LEMMA Complete ==
  ASSUME Typed, IntraTrees, TopTree, phase \notin {"intra", "top"}
  PROVE  /\ \A l \in Lists : Heap(intra[l], S, 1)
         /\ \A l \in Lists, j \in 0 .. S - 1 : intra[l][S - 1 + j] = LeafHash(Label(l, j))
         /\ Heap(top, L, 1)
         /\ \A j \in 0 .. L - 1 : top[L - 1 + j] = TopLeaf(j)
BY DEF IntraTrees, TopTree, IntraWidth, TopWidth

LEMMA HonestOpenStep ==
  ASSUME Typed, IntraTrees, HonestClimbs, Open
  PROVE  HonestClimbs' /\ HonestOpens'
<1>1. S \in Sizes /\ commitment.slots <= S /\ commitment.slots \in Nat \ {0} /\ S \in Nat \ {0}
  BY SizesFit DEF Typed
<1>2. S' = S /\ intra' = intra /\ phase' = "climb" /\ width' = S /\ pow' = 1 /\ pos' = 0
      /\ list_id' \in Lists
  BY SameShape DEF Open, trees
<1>3. ASSUME honest'
      PROVE  \E i \in Nat : Walks(i, intra[list_id'], S, pow', width', path', curr', pos')
  <2>1. PICK j \in 0 .. commitment.slots - 1 :
          claim' = Label(list_id', j) /\ path' = HashTreePath(j, intra[list_id'], S)
    BY <1>3 DEF Open
  <2>2. j \in 0 .. S - 1 /\ j \in Nat
    BY <1>1
  <2>3. intra[list_id'][S - 1 + j] = LeafHash(Label(list_id', j))
    BY <1>2, <2>2 DEF IntraTrees, IntraWidth, Open
  <2>4. curr' = intra[list_id'][S - 1 + j]
    BY <2>1, <2>3 DEF Open
  <2> DEFINE t == intra[list_id']
  <2> HIDE DEF t
  <2>5. Walks(j, t, S, pow', width', path', curr', pos')
    BY <1>1, <1>2, <2>1, <2>2, <2>4, AtTheLeaf DEF t
  <2> QED BY <2>2, <2>5 DEF t
<1> QED BY <1>2, <1>3 DEF HonestClimbs, HonestOpens, Climbing

LEMMA HonestClimbStep ==
  ASSUME Typed, TreeBounds, IntraTrees, TopTree, HonestClimbs, HonestOpens, Climb
  PROVE  HonestClimbs' /\ HonestOpens'
<1>1. S \in Sizes /\ L \in Sizes
  BY SizesFit DEF Typed
<1>2. /\ S' = S /\ L' = L /\ intra' = intra /\ top' = top
      /\ list_id' = list_id /\ honest' = honest /\ list_id \in Lists
  BY SameShape DEF Climb, trees, opening, Typed
<1>3. width > 1 /\ width \in Nat
  BY SizesAssumption DEF Climb, Typed
<1>4. CASE ~honest
  BY <1>2, <1>4 DEF HonestClimbs, HonestOpens
<1>5. CASE honest /\ phase = "climb"
  <2>1. PICK i \in Nat : Climbing(i, intra[list_id], S)
    BY <1>5 DEF HonestClimbs
  <2>2. Heap(intra[list_id], S, 1)
    BY <1>2, <1>5, Complete
  <2> DEFINE t == intra[list_id]
  <2> HIDE DEF t
  <2>3. phase' = phase /\ Walks(i, t, S, pow', width', path', curr', pos')
    BY <1>1, <1>3, <1>5, <2>1, <2>2, OneLevelUp DEF t
  <2> QED BY <1>2, <1>5, <2>3 DEF HonestClimbs, HonestOpens, Climbing, t
<1>6. CASE honest /\ phase = "climb_top"
  <2>1. Climbing(list_id, top, L)
    BY <1>6 DEF HonestClimbs
  <2>2. Heap(top, L, 1)
    BY <1>6, Complete
  <2>3. phase' = phase /\ Walks(list_id, top, L, pow', width', path', curr', pos')
    BY <1>1, <1>3, <1>6, <2>1, <2>2, OneLevelUp
  <2> QED BY <1>2, <1>6, <2>3 DEF HonestClimbs, HonestOpens, Climbing
<1> QED BY <1>4, <1>5, <1>6 DEF Climb

LEMMA HonestConnectStep ==
  ASSUME Typed, IntraTrees, TopTree, HonestClimbs, Connect
  PROVE  HonestClimbs' /\ HonestOpens'
<1>1. S \in Sizes /\ L \in Sizes /\ L \in Nat \ {0} /\ commitment.n_list <= L
      /\ commitment.n_list \in Nat \ {0}
  BY SizesFit DEF Typed
<1>2. /\ L' = L /\ top' = top /\ list_id' = list_id /\ honest' = honest
      /\ list_id \in Lists /\ phase' = "climb_top" /\ curr' = curr
      /\ pow' = 1 /\ pos' = 0 /\ width' = L
  BY SameShape DEF Connect, trees, opening, Typed
<1>3. ASSUME honest
      PROVE  Walks(list_id, top, L, pow', width', path', curr', pos')
  <2>1. PICK i \in Nat : Climbing(i, intra[list_id], S)
    BY <1>3 DEF HonestClimbs, Connect
  <2> DEFINE t == intra[list_id]
  <2> HIDE DEF t
  <2>2. curr = t[0]
    BY <1>1, <2>1, AtTheRoot DEF Connect, t
  <2>3. list_id \in 0 .. L - 1
    BY <1>1, <1>2 DEF Lists
  <2>4. top[L - 1 + list_id] = TopLeaf(list_id)
    BY <2>3, Complete DEF Connect
  <2>5. curr' = top[L - 1 + list_id]
    BY <1>2, <2>2, <2>4 DEF TopLeaf, t
  <2>6. path' = HashTreePath(list_id, top, L)
    BY <1>3 DEF Connect
  <2> QED BY <1>1, <1>2, <2>3, <2>5, <2>6, AtTheLeaf
<1> QED BY <1>2, <1>3 DEF HonestClimbs, HonestOpens, Climbing

LEMMA HonestVerifyStep ==
  ASSUME Typed, HonestClimbs, Verify
  PROVE  HonestClimbs' /\ HonestOpens'
<1>1. L \in Sizes
  BY SizesFit DEF Typed
<1>2. honest => curr = top[0] /\ pos = list_id
  BY <1>1, AtTheRoot DEF HonestClimbs, Verify
<1> QED BY <1>2 DEF HonestClimbs, HonestOpens, Verify, opening

LEMMA HInvInductive == HInv /\ [TreeNext]_treeVars => HInv'
<1> SUFFICES ASSUME HInv, [TreeNext]_treeVars PROVE HInv'
  OBVIOUS
<1> USE DEF HInv
<1>1. Typed' /\ TreeBounds' /\ IntraTrees' /\ TopTree'
  BY TypedInductive, BoundsInductive, TreesInductive
<1> SUFFICES HonestClimbs' /\ HonestOpens'
  BY <1>1
<1>2. CASE GrowIntra \/ StartTop \/ GrowTop
  BY <1>2 DEF GrowIntra, StartTop, GrowTop, HonestClimbs, HonestOpens
<1>3. CASE Open
  BY <1>3, HonestOpenStep
<1>4. CASE Climb
  BY <1>4, HonestClimbStep
<1>5. CASE Connect
  BY <1>5, HonestConnectStep
<1>6. CASE Verify
  BY <1>6, HonestVerifyStep
<1>7. CASE UNCHANGED treeVars
  <2>1. S' = S /\ L' = L
    BY <1>7, SameShape DEF treeVars, trees
  <2> QED
    BY <1>7, <2>1 DEF treeVars, trees, opening, walk, HonestClimbs, HonestOpens, Climbing
<1> QED BY <1>2, <1>3, <1>4, <1>5, <1>6, <1>7 DEF TreeNext

(* HonestOpens: whatever the numbers of lists and slots and whatever is    *)
(* committed, padding included, the path hash_tree_path gives for a slot   *)
(* leads merkle_back_gadget to the root of its list, the one for list_id   *)
(* leads on to the upper root, and the directions sum up to list_id: the   *)
(* circuit never rejects it.  Nothing is assumed of the hashes.            *)
THEOREM HonestAlwaysOpens == TreeSpec => []HonestOpens
<1>1. TreeInit => HInv
  BY InitTreeInv DEF TreeInit, TreeInv, HInv, HonestClimbs, HonestOpens
<1>2. HInv /\ [TreeNext]_treeVars => HInv'
  BY HInvInductive
<1>3. HInv => HonestOpens
  BY DEF HInv
<1> QED BY <1>1, <1>2, <1>3, PTL DEF TreeSpec
=============================================================================
