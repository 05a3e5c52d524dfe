----------------------------- MODULE AuthSearch -----------------------------
(***************************************************************************)
(* One proof of an authorized search by the set-based circuits: all        *)
(* visible, policy, committed and slot aligned.  The honest prover fills   *)
(* the witness the way the Python adapter and the proof drivers do; any    *)
(* other prover may choose what the constraints leave open.  Prove either  *)
(* fails or publishes the first TopK items of the ordered list.            *)
(*                                                                         *)
(* Abstractions: contents are bound to the snapshot by the Merkle paths of *)
(* standalone_commitment_gadget (merkled is set); a product of factors at  *)
(* a random challenge is equality of multisets and the lookup of distances *)
(* is membership (LookupArgument); a label is visible to the proof's user  *)
(* or not (auth_policy_visibility_gadget); probes and slots count from 1.  *)
(***************************************************************************)
EXTENDS CompGadget, FiniteSets

CONSTANTS NList, N, NProbe, TopK,
          Items,        \* ids of objects, and 0 in padding slots
          Labels,       \* authorization labels
          Visible,      \* the labels the user of the proof may see
          Dummy,        \* the label of padding, all zero
          DefaultLabel, \* default_label of the adapter
          Layouts,      \* circuits to choose from
          Indexes,      \* committed snapshots
          Centers       \* distances of the query to the centers

Lists == 0 .. NList - 1
DMax  == B - 1
Pairs == (1 .. NProbe) \X (1 .. N)

SlotContents ==
  [valid : {0, 1}, item : Items, dis : 0 .. DMax, label : Labels]

ASSUME ShapeAssumption ==
  /\ NList \in Nat \ {0} /\ N \in Nat \ {0} /\ NProbe \in 1 .. NList
  /\ TopK \in 1 .. NProbe * N

(* Ids of objects are row numbers, counted from 0.                         *)
ASSUME ItemsAssumption == Items \subseteq Nat

ASSUME LabelAssumption ==
  Visible \subseteq Labels /\ Dummy \in Labels \ Visible /\ DefaultLabel \in Labels

(* Every object has one slot.  Padding slots are filled with zeros, so     *)
(* they have the id of object 0.                                           *)
WellFormed(ix) ==
  \A l1, l2 \in Lists, j1, j2 \in 1 .. N :
    /\ ix[l1][j1].valid = 0 => ix[l1][j1].item = 0 /\ ix[l1][j1].label = Dummy
    /\ ix[l1][j1].valid = 1 /\ ix[l2][j2].valid = 1 /\ ix[l1][j1].item = ix[l2][j2].item
         => l1 = l2 /\ j1 = j2

ASSUME IndexAssumption ==
  /\ Indexes \subseteq [Lists -> [1 .. N -> SlotContents]]
  /\ \A ix \in Indexes : WellFormed(ix)
  /\ Centers \subseteq [Lists -> 0 .. DMax]
  /\ Layouts \subseteq {"all_visible", "policy", "committed", "slot_aligned"}

VARIABLES index, center_dis, layout, honest, pc,
          cluster_idx, \* the list at every rank of cluster_idx_dis
          labels,      \* slot_labels, per probe and slot
          ordered,     \* ordered_vpqss_item_dis
          answer       \* the items made public, << >> without a proof

inputs == <<index, center_dis, layout, honest>>
vars   == <<inputs, pc, cluster_idx, labels, ordered, answer>>

OneToOne(S, T) == {f \in [S -> T] : \A x, y \in S : f[x] = f[y] => x = y}

Ranks      == 1 .. NProbe * N
ListOrders == OneToOne(1 .. NList, Lists)
SlotOrders == OneToOne(Ranks, Pairs)

(* Slots are laid out probe by probe.                                      *)
Before(s, u) == s[1] < u[1] \/ (s[1] = u[1] /\ s[2] < u[2])

InList(l, j) == index[l][j]
At(s)        == InList(cluster_idx[s[1]], s[2])

(* np.argsort(dist2, kind="stable")                                        *)
HonestProbe ==
  CHOOSE c \in ListOrders :
    \A q, r \in 1 .. NList :
      q < r => \/ center_dis[c[q]] < center_dis[c[r]]
               \/ center_dis[c[q]] = center_dis[c[r]] /\ c[q] < c[r]

HonestLists == {HonestProbe[i] : i \in 1 .. NProbe}

(* static_nn_gadget                                                        *)
ProbeOk(c) ==
  \A r \in 1 .. NList - 1 :
    /\ Provable(center_dis[c[r]], center_dis[c[r + 1]])
    /\ Comp(center_dis[c[r]], center_dis[c[r + 1]]) = 0

Init ==
  /\ index \in Indexes /\ center_dis \in Centers /\ layout \in Layouts
  /\ honest \in BOOLEAN /\ pc = "probe"
  /\ cluster_idx = << >> /\ labels = << >> /\ ordered = << >> /\ answer = << >>

Probe ==
  /\ pc = "probe"
  /\ IF honest THEN cluster_idx' = HonestProbe
               ELSE cluster_idx' \in ListOrders /\ ProbeOk(cluster_idx')
  /\ pc' = "label" /\ UNCHANGED <<inputs, labels, ordered, answer>>

(***************************************************************************)
(* Labels.  Both trees are built for the lists of the honest probe; the    *)
(* flat one is filled up to a power of two, the other lists of the slot    *)
(* aligned one hold dummy leaves only.                                     *)
(***************************************************************************)
Leaf(c)     == <<c.item, c.label>>
DummyLeaf   == <<0, Dummy>>
LeavesOf(l) == {Leaf(InList(l, j)) : j \in 1 .. N}
PowerOfTwo  == \E e \in Ranks \cup {0} : 2 ^ e = NProbe * N

FlatLeaves ==
  (UNION {LeavesOf(l) : l \in HonestLists}) \cup (IF PowerOfTwo THEN {} ELSE {DummyLeaf})

AlignedLeaves(l) == IF l \in HonestLists THEN LeavesOf(l) ELSE {DummyLeaf}

LabelsCommitted == layout \in {"committed", "slot_aligned"}

(* The leaves the label of a probed slot may be opened to.                 *)
LeavesFor(s) ==
  IF layout = "committed" THEN FlatLeaves ELSE AlignedLeaves(cluster_idx[s[1]])

(* auth_label_merkle_verify_gadget and slot_aligned_probe_row_verify_gadget *)
LabelsOk(ls) ==
  LabelsCommitted => \A s \in Pairs : <<At(s).item, ls[s]>> \in LeavesFor(s)

(* labels.get(cid, default) for padding, whose cid is 0: the label of      *)
(* object 0 if there is one.                                               *)
ObjectZero ==
  {lb \in Labels : \E l \in Lists, j \in 1 .. N :
                     /\ InList(l, j).valid = 1 /\ InList(l, j).item = 0
                     /\ InList(l, j).label = lb}

PaddingLabel == IF ObjectZero = {} THEN DefaultLabel ELSE CHOOSE lb \in ObjectZero : TRUE

HonestLabels ==
  [s \in Pairs |-> IF layout = "policy" /\ At(s).valid = 0 THEN PaddingLabel ELSE At(s).label]

Label ==
  /\ pc = "label"
  /\ IF honest \/ layout = "all_visible"
     THEN labels' = HonestLabels
     ELSE labels' \in [Pairs -> Labels] /\ LabelsOk(labels')
  /\ pc' = "order" /\ UNCHANGED <<inputs, cluster_idx, ordered, answer>>

Visibility(s) == IF layout = "all_visible" \/ labels[s] \in Visible THEN 1 ELSE 0

(* Mutant: the gate ignores the visibility bit.                            *)
HatD_ValidOnly(s) ==
  LET g == At(s).valid IN g * At(s).dis + (1 - g) * DMax

(* auth_mask_distance_gadget                                               *)
HatD(s) ==
  LET g == At(s).valid * Visibility(s) IN g * At(s).dis + (1 - g) * DMax

Arranged(p) == [r \in Ranks |-> <<At(p[r]).item, HatD(p[r])>>]

(* Mutant: the first two entries are not compared.                         *)
OrderOk_ButFirst(p) ==
  \A r \in 2 .. NProbe * N - 1 :
    Provable(HatD(p[r]), HatD(p[r + 1])) /\ Comp(HatD(p[r]), HatD(p[r + 1])) = 0

OrderOk(p) ==
  \A r \in 1 .. NProbe * N - 1 :
    Provable(HatD(p[r]), HatD(p[r + 1])) /\ Comp(HatD(p[r]), HatD(p[r + 1])) = 0

(* sort_by_key(|row| row[1]) is stable.                                    *)
HonestOrder ==
  CHOOSE p \in SlotOrders :
    \A q, r \in Ranks :
      q < r => \/ HatD(p[q]) < HatD(p[r])
               \/ HatD(p[q]) = HatD(p[r]) /\ Before(p[q], p[r])

Order ==
  /\ pc = "order"
  /\ IF honest THEN ordered' = Arranged(HonestOrder)
               ELSE \E p \in SlotOrders : OrderOk(p) /\ ordered' = Arranged(p)
  /\ pc' = "prove" /\ UNCHANGED <<inputs, cluster_idx, labels, answer>>

Constraints ==
  /\ cluster_idx \in ListOrders /\ ProbeOk(cluster_idx)
  /\ LabelsOk(labels)
  /\ \E p \in SlotOrders : ordered = Arranged(p) /\ OrderOk(p)

(* data.prove fails if a constraint does; the first TopK items of the list *)
(* are public inputs of the proof.                                         *)
Prove ==
  /\ pc = "prove"
  /\ IF Constraints
     THEN pc' = "proved" /\ answer' = [k \in 1 .. TopK |-> ordered[k][1]]
     ELSE pc' = "failed" /\ answer' = answer
  /\ UNCHANGED <<inputs, cluster_idx, labels, ordered>>

Next == Probe \/ Label \/ Order \/ Prove

Spec == Init /\ [][Next]_vars

(***************************************************************************)
(* The plaintext reference on the candidates of the honest buffers, and    *)
(* the post-filtering baseline.                                            *)
(***************************************************************************)
VisibleBit(c) == IF layout = "all_visible" \/ c.label \in Visible THEN 1 ELSE 0

MaskedDistance(c) ==
  LET hat == VisibleBit(c) * c.dis + (1 - VisibleBit(c)) * DMax
  IN  c.valid * hat + (1 - c.valid) * DMax

Candidate(s) == InList(HonestProbe[s[1]], s[2])

(* sorted(..., key=(key, cid)) of the first K candidates.                  *)
Ranked(Key(_)) ==
  CHOOSE p \in SlotOrders :
    \A q, r \in Ranks :
      q < r => LET a == Candidate(p[q])
                   b == Candidate(p[r])
               IN  \/ Key(a) < Key(b)
                   \/ Key(a) = Key(b) /\ a.item < b.item
                   \/ Key(a) = Key(b) /\ a.item = b.item /\ Before(p[q], p[r])

AuthorizedTopK == [k \in 1 .. TopK |-> Candidate(Ranked(MaskedDistance)[k])]

(* Only valid candidates are ranked: the others go last.                   *)
RawDistance(c) == IF c.valid = 1 THEN c.dis ELSE DMax + 1

(* Mutant: one more candidate than top_k is looked at.                     *)
PostFilter_OneMore ==
  LET raw == Ranked(RawDistance)
  IN  {k \in Ranks : k <= TopK + 1 /\ Candidate(raw[k]).valid = 1 /\ VisibleBit(Candidate(raw[k])) = 1}

(* The ranks that survive the filter.                                      *)
PostFilter ==
  LET raw == Ranked(RawDistance)
  IN  {k \in 1 .. TopK : Candidate(raw[k]).valid = 1 /\ VisibleBit(Candidate(raw[k])) = 1}

(***************************************************************************)
(* Properties.                                                             *)
(***************************************************************************)
TypeOK ==
  /\ index \in Indexes /\ center_dis \in Centers /\ layout \in Layouts
  /\ honest \in BOOLEAN /\ pc \in {"probe", "label", "order", "prove", "proved", "failed"}
  /\ pc # "probe" => cluster_idx \in ListOrders
  /\ pc \notin {"probe", "label"} => labels \in [Pairs -> Labels]
  /\ pc \in {"prove", "proved", "failed"} => ordered \in [Ranks -> Items \X (0 .. DMax)]
  /\ IF pc = "proved" THEN answer \in [1 .. TopK -> Items] ELSE answer = << >>

(* The witness the adapter and the drivers build satisfies every           *)
(* constraint, padding and ties included (auth_*_proof end with Ok).       *)
HonestAccepted == honest => pc # "failed"

(* Padding shares its id with object 0.  Where the label of object 0 can   *)
(* be opened to a leaf of padding, the object may pass for padding.        *)
MayHide(s) == At(s).item = 0 /\ DummyLeaf \in LeavesFor(s)

(* With a label commitment the prover has no choice of labels: those of    *)
(* valid slots are the committed ones, also when equal center distances    *)
(* let the prover probe another list.  The one exception is object 0.      *)
LabelsBound ==
  LabelsCommitted /\ pc \in {"order", "prove", "proved"} =>
    \A s \in Pairs : At(s).valid = 1 =>
      labels[s] = At(s).label \/ (MayHide(s) /\ labels[s] = Dummy)

(* No accepted proof publishes an object the user may not see, if at least *)
(* TopK slots of the probed lists hold objects that the user may see       *)
(* (phase6_visibility_gated_design.md, line 145).  An object as far as the *)
(* sentinel does not count, and neither does object 0 if it may be hidden. *)
Authorized(s) == At(s).valid = 1 /\ At(s).label \in Visible

Owed(s) == Authorized(s) /\ At(s).dis < DMax /\ ~ MayHide(s)

OnlyVisible ==
  /\ pc = "proved" /\ LabelsCommitted
  /\ TopK <= Cardinality({s \in Pairs : Owed(s)})
  => \A k \in 1 .. TopK : \E s \in Pairs : Authorized(s) /\ At(s).item = answer[k]

(* The honest proof and the plaintext reference break ties differently,    *)
(* by slot and by id, and still agree: rank by rank on the distance, and   *)
(* on the object where its distance is its own.                            *)
ReferenceAgrees ==
  pc = "proved" /\ honest =>
    \A k \in 1 .. TopK :
      LET c == AuthorizedTopK[k]
      IN  /\ ordered[k][2] = MaskedDistance(c)
          /\ \/ answer[k] = c.item
             \/ Cardinality({s \in Pairs : HatD(s) = MaskedDistance(c)}) > 1

(* Post-filtering returns a prefix of the authorized answer: it may lose   *)
(* objects, it never adds or reorders one.  An object as far as the        *)
(* sentinel is excepted: the reference ranks it among the masked ones.     *)
PostFilterIsPrefix ==
  pc = "probe" /\ honest => \A k \in PostFilter :
    LET c == Candidate(Ranked(RawDistance)[k])
        m == Cardinality({j \in PostFilter : j <= k})
    IN  c.dis < DMax => m <= TopK /\ AuthorizedTopK[m] = c

(* Both plaintext programs a proof is compared with agree with it, each as *)
(* far as its own order of ties and of filtering lets it.                  *)
BaselinesAgree == ReferenceAgrees /\ PostFilterIsPrefix

(* Every accepted proof of every prover answers as AuthorizedView allows.  *)
View == INSTANCE AuthorizedView

AnswersView == View!Spec
=============================================================================
