----------------------------- MODULE AclClasses -----------------------------
(***************************************************************************)
(* One authorized query under ACL classes.  Labels of the objects in the   *)
(* probed slots are grouped into classes, each slot is bound to a class,   *)
(* both are committed in trees, and the policy is evaluated once per row   *)
(* of a fixed table of classes; a slot selects its row and inherits the    *)
(* verdict.  The honest prover builds the witness as the Python builder    *)
(* and the proof driver do; any other chooses what the constraints leave   *)
(* open, under the committed roots.                                        *)
(*                                                                         *)
(* Abstractions: slots of all probed lists are numbered row by row; a slot *)
(* is shown or masked (the distances, their order and the answer are those *)
(* of AuthSearch); an opening that verifies leads to a committed leaf      *)
(* (SlotAlignedTree).                                                      *)
(***************************************************************************)
EXTENDS AuthPolicy

CONSTANTS NSlots,
          Radix,      \* 2^8, the width of a field of a default class id
          Grids,      \* contents of the slots
          Users,
          Epochs,     \* epochs of the checkpoint
          TableSizes  \* values of n_acl_max, 0 when it is not given

Slots == 1 .. NSlots

ASSUME SizeAssumption ==
  NSlots \in Nat \ {0} /\ Radix \in Nat \ {0} /\ TableSizes \subseteq Nat

(* Labels are looked up by id, also for padding, which has id 0.  Projects *)
(* and levels that do not fit their field would overlap the next one.      *)
ASSUME GridAssumption ==
  \A g \in Grids : \A s, t \in Slots :
       /\ g[s].valid \in {0, 1} /\ g[s].cid \in Nat
       /\ {g[s].label.project, g[s].label.level} \subseteq 0 .. Radix - 1
       /\ g[s].label.epoch \in Nat
       /\ g[s].valid = 0 => g[s].cid = 0
       /\ g[s].cid = g[t].cid => g[s].label = g[t].label
       /\ g[s].cid = g[t].cid /\ g[s].valid = 1 /\ g[t].valid = 1 => s = t

ASSUME UserAssumption ==
  \A u \in Users :
    IsFiniteSet(u.projects) /\ u.projects \subseteq Int /\ u.clearance \in Nat

VARIABLES grid, user, epoch, table_size, honest,
          grouping,     \* "default" class ids, or a class "per_object"
          pc, errors,   \* errors: the calls that raised
          bindings,     \* by object: class and epoch
          class_labels, \* by class
          scored,       \* the slots the compressed reference shows
          rows,         \* the selected class table, with the leaves opened
          bound,        \* by slot: the binding opened
          selectors,    \* by slot: the rows selected
          shown         \* the slots a proof leaves unmasked

inputs == <<grid, user, epoch, table_size, honest, grouping>>
vars   == <<inputs, pc, errors, bindings, class_labels, scored, rows, bound, selectors, shown>>

Valid(s) == grid[s].valid = 1
Cid(s)   == grid[s].cid

Init ==
  /\ grid \in Grids /\ user \in Users /\ epoch \in Epochs
  /\ table_size \in TableSizes /\ honest \in BOOLEAN
  /\ grouping \in {"default", "per_object"}
  /\ pc = "fixture" /\ errors = {}
  /\ bindings = << >> /\ class_labels = << >> /\ scored = {}
  /\ rows = << >> /\ bound = << >> /\ selectors = << >> /\ shown = {}

(***************************************************************************)
(* Classes.  build_acl_fixtures_from_candidates takes padding along; the   *)
(* tests and scripts that make a class per object do not.                  *)
(***************************************************************************)
(* Mutant: the level is not part of the class id.                          *)
DefaultClassId_NoLevel(l) ==
  ((TenantId[l.tenant] * Radix + l.project) * Radix) * Radix + (l.epoch % Radix)

(* _default_class_id_from_label: fields side by side, the epoch cut off    *)
DefaultClassId(l) ==
  ((TenantId[l.tenant] * Radix + l.project) * Radix + l.level) * Radix + (l.epoch % Radix)

ClassId(s) == IF grouping = "default" THEN DefaultClassId(grid[s].label) ELSE Cid(s)

Grouped == IF grouping = "default" THEN Slots ELSE {s \in Slots : Valid(s)}

(* acl_class_label_from_auth_label knows this label.                       *)
Known(l) == l.tenant \in DOMAIN TenantId /\ l.project \in ZkProjects

ClassLabel(l) ==
  [tenant_id |-> TenantId[l.tenant], project |-> l.project, level |-> l.level,
   state |-> l.state, epoch |-> l.epoch]

First(S) == CHOOSE s \in S : \A t \in S : s <= t

(* The first label of a class counts; candidates of one id have one label. *)
Fixture ==
  /\ pc = "fixture"
  /\ IF \E s \in Grouped : ~ Known(grid[s].label)
     THEN /\ pc' = "raised" /\ errors' = {"fixture"}
          /\ UNCHANGED <<bindings, class_labels>>
     ELSE /\ bindings' =
               [c \in {Cid(s) : s \in Grouped} |->
                  LET s == CHOOSE t \in Grouped : Cid(t) = c
                  IN  [class |-> ClassId(s), epoch |-> grid[s].label.epoch]]
          /\ class_labels' =
               [k \in {ClassId(s) : s \in Grouped} |->
                  ClassLabel(grid[First({t \in Grouped : ClassId(t) = k})].label)]
          /\ pc' = "score" /\ errors' = errors
  /\ UNCHANGED <<inputs, scored, rows, bound, selectors, shown>>

(* to_auth_label                                                           *)
Expanded(k) ==
  [tenant |-> TenantName(class_labels[k].tenant_id), project |-> class_labels[k].project,
   level |-> class_labels[k].level, state |-> class_labels[k].state,
   epoch |-> class_labels[k].epoch, roles |-> {}]

ClassOf(s) == bindings[Cid(s)].class

ClassVisible(s) == Visible(user, Expanded(ClassOf(s)), epoch)

(* authorized_topk_acl_compressed: the verdicts are kept by the ids of     *)
(* valid slots and looked up for every slot.                               *)
Score ==
  /\ pc = "score"
  /\ IF \A s \in Slots : \E t \in Slots : Valid(t) /\ Cid(t) = Cid(s)
     THEN scored' = {s \in Slots : Valid(s) /\ ClassVisible(s)} /\ errors' = errors
     ELSE scored' = scored /\ errors' = errors \cup {"score"}
  /\ pc' = "table"
  /\ UNCHANGED <<inputs, bindings, class_labels, rows, bound, selectors, shown>>

(***************************************************************************)
(* The trees and the table of selected classes.                            *)
(***************************************************************************)
DummyLabel == [tenant |-> 0, project |-> 0, level |-> 0, state |-> 0, epoch |-> 0]
DummyClass == [id |-> 0, label |-> DummyLabel]
PowersOfTwo == {2 ^ e : e \in 0 .. NSlots + 1}

(* next_pow2                                                               *)
NextPow2(n) == CHOOSE p \in PowersOfTwo : p >= n /\ \A q \in PowersOfTwo : q >= n => p <= q

EncodeClass(c) ==
  [tenant |-> c.tenant_id, project |-> c.project, level |-> c.level,
   state |-> StateId(c.state), epoch |-> c.epoch]

ClassLeaf(k) ==
  [id |-> k,
   label |-> IF k \in DOMAIN class_labels THEN EncodeClass(class_labels[k]) ELSE DummyLabel]

(* build_acl_class_tree: class 0 is added if it is missing, dummies fill   *)
(* the tree up to a power of two.                                          *)
CommittedIds == DOMAIN class_labels \cup {0}

ClassLeaves ==
  {ClassLeaf(k) : k \in CommittedIds}
  \cup (IF Cardinality(CommittedIds) \in PowersOfTwo THEN {} ELSE {DummyClass})

Used == {ClassOf(s) : s \in {t \in Slots : Valid(t)}}

TableLength == IF table_size = 0 THEN NextPow2(Cardinality(Used)) ELSE table_size

Row(id, label, valid, opened) == [id |-> id, label |-> label, valid |-> valid, opened |-> opened]

(* _build_selected_class_table; a row is opened by its class id.           *)
HonestRow(j) ==
  IF j <= Cardinality(Used)
  THEN LET k == CHOOSE i \in Used : Cardinality({u \in Used : u < i}) = j - 1
       IN  Row(k, EncodeClass(class_labels[k]), 1, ClassLeaf(k))
  ELSE Row(0, DummyLabel, 0, ClassLeaf(0))

RowOk(r) == r.opened \in ClassLeaves /\ r.opened = [id |-> r.id, label |-> r.label]

Table ==
  /\ pc = "table"
  /\ IF ~ Encodable(user) \/ DOMAIN class_labels = {} \/ Cardinality(Used) > TableLength
     THEN pc' = "raised" /\ errors' = errors \cup {"table"} /\ rows' = rows
     ELSE /\ IF honest
             THEN rows' = [j \in 1 .. TableLength |-> HonestRow(j)]
             ELSE rows' \in [1 .. TableLength ->
                    {Row(leaf.id, leaf.label, v, leaf) : leaf \in ClassLeaves, v \in {0, 1}}]
          /\ pc' = "bind" /\ errors' = errors
  /\ UNCHANGED <<inputs, bindings, class_labels, scored, bound, selectors, shown>>

(* _bindings_row_major_from_grid                                           *)
Binding(s) ==
  IF Valid(s) THEN [cid |-> Cid(s), class |-> ClassOf(s), epoch |-> bindings[Cid(s)].epoch]
              ELSE [cid |-> Cid(s), class |-> 0, epoch |-> 0]

DummyBinding == [cid |-> 0, class |-> 0, epoch |-> 0]

BindingLeaves ==
  {Binding(s) : s \in Slots} \cup (IF NSlots \in PowersOfTwo THEN {} ELSE {DummyBinding})

(* Mutant: the binding opened may be another object's.                     *)
BindingOk_AnyCid(s, b) == b \in BindingLeaves

(* verify_object_class_binding_opening_gadget, on the item of the slot     *)
BindingOk(s, b) == b \in BindingLeaves /\ b.cid = Cid(s)

Bind ==
  /\ pc = "bind"
  /\ IF honest THEN bound' = [s \in Slots |-> Binding(s)]
               ELSE /\ bound' \in [Slots -> BindingLeaves]
                    /\ \A s \in Slots : BindingOk(s, bound'[s])
  /\ pc' = "select"
  /\ UNCHANGED <<inputs, errors, bindings, class_labels, scored, rows, selectors, shown>>

(* acl_class_table_match_gadget                                            *)
MatchOk(s, sel) ==
  /\ sel \subseteq DOMAIN rows
  /\ \A j \in sel : rows[j].valid = 1 /\ bound[s].class = rows[j].id
  /\ Cardinality(sel) = grid[s].valid

Select ==
  /\ pc = "select"
  /\ IF honest
     THEN selectors' =
            [s \in Slots |-> IF Valid(s)
                             THEN {First({j \in 1 .. Cardinality(Used) : rows[j].id = ClassOf(s)})}
                             ELSE {}]
     ELSE /\ selectors' \in [Slots -> {{}} \cup {{j} : j \in DOMAIN rows}]
          /\ \A s \in Slots : MatchOk(s, selectors'[s])
  /\ pc' = "prove"
  /\ UNCHANGED <<inputs, errors, bindings, class_labels, scored, rows, bound, shown>>

(***************************************************************************)
(* The verdicts: acl_class_policy_once_gadget and inheritance in the       *)
(* circuit, policy_visibility_witness in the driver.                       *)
(***************************************************************************)
RowVisible(r)   == r.valid = 1 /\ PolicyGadget(EncodeUser(user), r.label, epoch)
RowWitnessed(r) == r.valid = 1 /\ PolicyWitness(EncodeUser(user), r.label, epoch)

Inherits(s)  == Valid(s) /\ \E j \in selectors[s] : RowVisible(rows[j])
Witnessed(s) == Valid(s) /\ \E j \in selectors[s] : RowWitnessed(rows[j])

(* The sorted list is the one masked by the circuit's verdicts.            *)
Constraints ==
  /\ \A j \in DOMAIN rows : RowOk(rows[j])
  /\ \A s \in Slots : BindingOk(s, bound[s]) /\ MatchOk(s, selectors[s])
  /\ honest => \A s \in Slots : Witnessed(s) <=> Inherits(s)

Prove ==
  /\ pc = "prove"
  /\ IF Constraints THEN pc' = "proved" /\ shown' = {s \in Slots : Inherits(s)}
                    ELSE pc' = "failed" /\ shown' = shown
  /\ UNCHANGED <<inputs, errors, bindings, class_labels, scored, rows, bound, selectors>>

Next == Fixture \/ Score \/ Table \/ Bind \/ Select \/ Prove

Spec == Init /\ [][Next]_vars

(***************************************************************************)
(* Properties.                                                             *)
(***************************************************************************)
(* What the properties assume of labels: that a class can express them,    *)
(* and that default class ids tell them apart.                             *)
Expressible ==
  \A s \in Grouped : grid[s].label.roles = {} /\ grid[s].label.tenant \in ZkTenants

Separated ==
  \/ grouping = "per_object"
  \/ \A s \in Slots : grid[s].label.state = "active" /\ grid[s].label.epoch < Radix

Authorized == {s \in Slots : Valid(s) /\ Visible(user, grid[s].label, epoch)}

(* The circuit accepts the witness of the builder and the driver, except   *)
(* that a class numbered 0 takes the place of the dummy class that padding *)
(* rows of the table are opened with.                                      *)
HonestAccepted ==
  honest /\ pc \in {"proved", "failed"} =>
    (pc = "failed" <=> 0 \in DOMAIN class_labels /\ Cardinality(Used) < TableLength)

(* The committed trees leave no prover a choice of verdicts: a slot is     *)
(* shown if and only if the class its object was bound to passes, except   *)
(* that object 0, whose id padding shares, may be hidden.                  *)
Passes(s) ==
  Valid(s) /\ PolicyGadget(EncodeUser(user), ClassLeaf(ClassOf(s)).label, epoch)

Inherited ==
  pc = "proved" =>
    \A s \in Slots :
      /\ s \in shown => Passes(s)
      /\ Passes(s) /\ Cid(s) # 0 => s \in shown

(* Evaluating the policy once per class gives what evaluating it on every  *)
(* object's own label does.                                                *)
SameAsObjectLevel ==
  pc \notin {"fixture", "score", "raised"} /\ "score" \notin errors /\ Expressible /\ Separated
    => scored = Authorized

(* No accepted proof shows more than the reference policy authorizes; an   *)
(* honest one shows it all, if epochs are those of the checkpoint and the  *)
(* user's projects fit the circuit.                                        *)
ShowsAuthorized ==
  pc = "proved" /\ Expressible /\ Separated =>
    /\ shown \subseteq Authorized
    /\ /\ honest /\ user.epoch = epoch
       /\ \A s \in Slots : grid[s].label.epoch # 0
       /\ Cardinality(user.projects) <= MaxProjects
       => shown = Authorized

(* "Semantics match run_authorized_reference" (acl_class.py, line 338):    *)
(* where the object-level reference has an answer, the compressed one does *)
(* not raise.                                                              *)
ReferenceAnswers == "score" \notin errors

=============================================================================
