-------------------------- MODULE AclClasses_proofs --------------------------
(***************************************************************************)
(* Theorems about ACL classes, for every number of slots, registry, width  *)
(* of the fields of a class id, user and prover.  Trees leave one leaf to  *)
(* a class and one binding to an object other than 0; equal default ids    *)
(* mean equal fields; so the class a slot inherits from carries the label  *)
(* of its own object.                                                      *)
(***************************************************************************)
EXTENDS AclClasses, FiniteSetTheorems, NaturalsInduction, WellFoundedInduction, TLAPS

(* A nonempty set of numbers has a first.                                  *)
LEMMA FirstNumber ==
  ASSUME NEW S, S \subseteq Nat, S # {}
  PROVE  First(S) \in S /\ \A n \in S : First(S) <= n
<1>1. \E m \in S : \A n \in S : ~ (<<n, m>> \in OpToRel(<, Nat))
  BY NatLessThanWellFounded, WFMin, Zenon
<1>2. PICK m \in S : \A n \in S : ~ (<<n, m>> \in OpToRel(<, Nat))
  BY <1>1
<1>3. \A n \in S : m <= n
  <2> TAKE n \in S
  <2>1. m \in Nat /\ n \in Nat
    OBVIOUS
  <2>2. ~ (n < m)
    BY <1>2, <2>1 DEF OpToRel
  <2> QED BY <2>1, <2>2
<1> QED BY <1>3 DEF First

LEMMA FirstSlot ==
  ASSUME NEW S, S \subseteq Slots, S # {}
  PROVE  First(S) \in S
<1>1. S \subseteq Nat
  BY DEF Slots
<1> QED BY <1>1, FirstNumber

(* Fields side by side can be read off again.                              *)
LEMMA FieldsApart ==
  ASSUME NEW a \in Nat, NEW c \in Nat, NEW b \in 0 .. Radix - 1, NEW d \in 0 .. Radix - 1,
         a * Radix + b = c * Radix + d
  PROVE  a = c /\ b = d
<1>1. Radix \in Nat
  BY SizeAssumption
<1>2. ASSUME NEW x \in Nat, NEW y \in Nat, x < y
      PROVE  x * Radix + Radix <= y * Radix
  <2>1. PICK k \in Nat : y = x + 1 + k
    <3>1. y - x - 1 \in Nat /\ y = x + 1 + (y - x - 1)
      BY <1>2
    <3> QED BY <3>1
  <2>2. y * Radix = x * Radix + Radix + k * Radix
    BY <1>1, <2>1
  <2>3. k * Radix \in Nat /\ x * Radix \in Nat
    BY <1>1
  <2> QED BY <1>1, <2>2, <2>3
<1>3. a * Radix \in Nat /\ c * Radix \in Nat
  BY <1>1
<1>4. ~ (a < c)
  <2> SUFFICES ASSUME a < c PROVE FALSE
    OBVIOUS
  <2>1. a * Radix + Radix <= c * Radix
    BY <1>2
  <2> QED BY <1>1, <1>3, <2>1
<1>5. ~ (c < a)
  <2> SUFFICES ASSUME c < a PROVE FALSE
    OBVIOUS
  <2>1. c * Radix + Radix <= a * Radix
    BY <1>2
  <2> QED BY <1>1, <1>3, <2>1
<1>6. a = c
  BY <1>4, <1>5
<1>7. b = d
  BY <1>1, <1>3, <1>6
<1> QED BY <1>6, <1>7

IsLabel(l) ==
  /\ Known(l) /\ l.project \in 0 .. Radix - 1 /\ l.level \in 0 .. Radix - 1 /\ l.epoch \in Nat

LEMMA Packed ==
  ASSUME NEW a \in Nat \ {0}, NEW b \in 0 .. Radix - 1
  PROVE  a * Radix + b \in Nat \ {0}
<1>1. Radix \in Nat \ {0}
  BY SizeAssumption
<1>2. PICK k \in Nat : a = 1 + k
  <2>1. a - 1 \in Nat /\ a = 1 + (a - 1)
    OBVIOUS
  <2> QED BY <2>1
<1>3. k * Radix \in Nat
  BY <1>1
<1>4. a * Radix = Radix + k * Radix
  BY <1>1, <1>2
<1> QED BY <1>1, <1>3, <1>4

(* Equal default ids mean equal fields, and no default id is 0.            *)
LEMMA DefaultIds ==
  ASSUME NEW l, NEW m, IsLabel(l), IsLabel(m)
  PROVE  /\ DefaultClassId(l) # 0 /\ DefaultClassId(l) \in Nat
         /\ DefaultClassId(l) = DefaultClassId(m) =>
              /\ TenantId[l.tenant] = TenantId[m.tenant]
              /\ l.project = m.project /\ l.level = m.level
              /\ l.epoch % Radix = m.epoch % Radix
<1> DEFINE A(x) == TenantId[x.tenant] * Radix + x.project
           B(x) == A(x) * Radix + x.level
           E(x) == x.epoch % Radix
<1>1. ASSUME NEW x, IsLabel(x)
      PROVE  TenantId[x.tenant] \in Nat \ {0} /\ E(x) \in 0 .. Radix - 1
  BY <1>1, RegistryAssumption, SizeAssumption DEF IsLabel, Known
<1>2. ASSUME NEW x, IsLabel(x)
      PROVE  A(x) \in Nat \ {0} /\ B(x) \in Nat \ {0}
  <2>1. A(x) \in Nat \ {0}
    BY <1>1, <1>2, Packed DEF IsLabel
  <2> HIDE DEF A
  <2>2. B(x) \in Nat \ {0}
    BY <1>2, <2>1, Packed DEF IsLabel
  <2> QED BY <2>1, <2>2
<1>3. \A x : DefaultClassId(x) = B(x) * Radix + E(x)
  BY DEF DefaultClassId
<1> HIDE DEF E, B
<1>4. DefaultClassId(l) # 0 /\ DefaultClassId(l) \in Nat
  BY <1>1, <1>2, <1>3, Packed
<1>5. ASSUME DefaultClassId(l) = DefaultClassId(m)
      PROVE  /\ TenantId[l.tenant] = TenantId[m.tenant]
             /\ l.project = m.project /\ l.level = m.level /\ E(l) = E(m)
  <2>1. B(l) = B(m) /\ E(l) = E(m)
    <3>1. B(l) \in Nat /\ B(m) \in Nat /\ E(l) \in 0 .. Radix - 1 /\ E(m) \in 0 .. Radix - 1
      BY <1>1, <1>2
    <3>2. B(l) * Radix + E(l) = B(m) * Radix + E(m)
      BY <1>3, <1>5
    <3> QED BY <3>1, <3>2, FieldsApart
  <2>2. A(l) = A(m) /\ l.level = m.level
    <3>1. A(l) * Radix + l.level = A(m) * Radix + m.level
      BY <2>1 DEF B
    <3>2. A(l) \in Nat /\ A(m) \in Nat
      BY <1>2
    <3> HIDE DEF A
    <3> QED BY <3>1, <3>2, FieldsApart DEF IsLabel
  <2>3. TenantId[l.tenant] \in Nat /\ TenantId[m.tenant] \in Nat
    BY <1>1
  <2>4. TenantId[l.tenant] = TenantId[m.tenant] /\ l.project = m.project
    BY <2>2, <2>3, FieldsApart DEF IsLabel
  <2> QED BY <2>1, <2>2, <2>4
<1> QED BY <1>4, <1>5 DEF E

-----------------------------------------------------------------------------
(***************************************************************************)
(* The inductive invariant: what the fixtures say of the slots, what an    *)
(* honest witness is, and the verdicts of an accepted proof.               *)
(***************************************************************************)
Built ==
  /\ \A s \in Grouped : Known(grid[s].label)
  /\ DOMAIN class_labels = {ClassId(s) : s \in Grouped}
  /\ \A s \in Grouped : ClassOf(s) = ClassId(s)
  /\ \A k \in DOMAIN class_labels :
       \E t \in Grouped : ClassId(t) = k /\ class_labels[k] = ClassLabel(grid[t].label)

TypeOK ==
  /\ grid \in Grids /\ user \in Users /\ honest \in BOOLEAN
  /\ grouping \in {"default", "per_object"}
  /\ pc \in {"fixture", "score", "table", "bind", "select", "prove", "proved", "failed", "raised"}
  /\ shown \subseteq Slots

Witnessing == {"bind", "select", "prove", "proved", "failed"}

HonestVerdicts ==
  honest => \A s \in Slots : Passes(s) => s \in shown

IInv ==
  /\ TypeOK
  /\ pc \in {"score", "table"} \cup Witnessing => Built
  /\ pc \in {"table"} \cup Witnessing =>
       "score" \in errors \/ scored = {s \in Slots : Valid(s) /\ ClassVisible(s)}
  /\ pc \in Witnessing =>
       Encodable(user) /\ (honest => rows = [j \in 1 .. TableLength |-> HonestRow(j)])
  /\ pc \in {"select", "prove", "proved", "failed"} /\ honest =>
       bound = [s \in Slots |-> Binding(s)]
  /\ Inherited
  /\ pc = "proved" => HonestVerdicts

(* The labels of a grid are well formed, and are looked up by id.          *)
LEMMA GridFacts ==
  ASSUME TypeOK
  PROVE  /\ \A s \in Slots : Known(grid[s].label) => IsLabel(grid[s].label)
         /\ \A s \in Slots : Cid(s) \in Nat /\ grid[s].valid \in {0, 1}
         /\ \A s \in Slots : ~ Valid(s) => Cid(s) = 0
         /\ \A s, t \in Slots : Cid(s) = Cid(t) => grid[s].label = grid[t].label
         /\ \A s, t \in Slots : Cid(s) = Cid(t) /\ Valid(s) /\ Valid(t) => s = t
BY GridAssumption DEF TypeOK, IsLabel, Known, Cid, Valid

LEMMA GroupedSlots ==
  Grouped \subseteq Slots /\ \A s \in Slots : Valid(s) => s \in Grouped
BY DEF Grouped

(* Slots of one object are in one class.                                   *)
LEMMA ClassById ==
  ASSUME TypeOK, NEW s \in Slots, NEW t \in Slots, Cid(s) = Cid(t)
  PROVE  ClassId(s) = ClassId(t)
BY GridFacts DEF ClassId

(* Class 0 holds object 0 alone.                                           *)
LEMMA ClassZero ==
  ASSUME TypeOK, Built, NEW s \in Grouped, ClassId(s) = 0
  PROVE  grouping = "per_object" /\ Cid(s) = 0
<1>1. Known(grid[s].label) /\ s \in Slots
  BY GroupedSlots DEF Built
<1>2. IsLabel(grid[s].label)
  BY <1>1, GridFacts
<1>3. DefaultClassId(grid[s].label) # 0
  BY <1>2, DefaultIds
<1> QED BY <1>3 DEF ClassId, TypeOK

(* The class of a valid slot exists and was made from slots of that class. *)
LEMMA ClassExists ==
  ASSUME Built, NEW s \in Slots, Valid(s)
  PROVE  ClassOf(s) = ClassId(s) /\ ClassOf(s) \in DOMAIN class_labels
BY GroupedSlots DEF Built

(* Under the conditions of the properties a class carries the label of     *)
(* each of its objects.                                                    *)
LEMMA ClassIsOwn ==
  ASSUME TypeOK, Built, Separated, NEW s \in Slots, Valid(s)
  PROVE  class_labels[ClassOf(s)] = ClassLabel(grid[s].label)
<1>1. s \in Grouped /\ ClassOf(s) = ClassId(s) /\ ClassOf(s) \in DOMAIN class_labels
  BY ClassExists, GroupedSlots
<1>2. PICK t \in Grouped : /\ ClassId(t) = ClassId(s)
                           /\ class_labels[ClassOf(s)] = ClassLabel(grid[t].label)
  BY <1>1 DEF Built
<1>3. t \in Slots /\ IsLabel(grid[s].label) /\ IsLabel(grid[t].label)
  BY <1>1, GridFacts, GroupedSlots DEF Built
<1>4. CASE grouping = "per_object"
  <2>1. Cid(s) = Cid(t)
    BY <1>2, <1>4 DEF ClassId
  <2> QED BY <1>2, <1>3, <2>1, GridFacts
<1>5. CASE grouping = "default"
  <2> DEFINE l == grid[s].label
             m == grid[t].label
  <2>1. DefaultClassId(l) = DefaultClassId(m)
    BY <1>2, <1>5 DEF ClassId
  <2>2. /\ TenantId[l.tenant] = TenantId[m.tenant] /\ l.project = m.project
        /\ l.level = m.level /\ l.epoch % Radix = m.epoch % Radix
    BY <1>3, <2>1, DefaultIds
  <2>3. l.state = m.state /\ l.epoch < Radix /\ m.epoch < Radix
    BY <1>3, <1>5 DEF Separated
  <2>4. l.epoch \in Nat /\ m.epoch \in Nat /\ Radix \in Nat \ {0}
    BY <1>3, SizeAssumption DEF IsLabel
  <2>5. l.epoch = m.epoch
    BY <2>2, <2>3, <2>4
  <2>6. ClassLabel(l) = ClassLabel(m)
    BY <2>2, <2>3, <2>5 DEF ClassLabel
  <2> QED BY <1>2, <2>6
<1> QED BY <1>4, <1>5 DEF TypeOK

LEMMA NameOfTenant ==
  ASSUME NEW t \in ZkTenants
  PROVE  TenantName(TenantId[t]) = t
BY RegistryAssumption DEF TenantName

(* Then its verdict is that of the object's own label.                     *)
LEMMA VerdictIsOwn ==
  ASSUME TypeOK, Built, Separated, Expressible, NEW s \in Slots, Valid(s)
  PROVE  ClassVisible(s) <=> Visible(user, grid[s].label, epoch)
<1> DEFINE l == grid[s].label
<1>1. class_labels[ClassOf(s)] = ClassLabel(l)
  BY ClassIsOwn
<1>2. s \in Grouped
  BY GroupedSlots
<1>3. l.roles = {} /\ l.tenant \in ZkTenants
  BY <1>2 DEF Expressible
<1>4. Expanded(ClassOf(s)) =
        [tenant |-> l.tenant, project |-> l.project, level |-> l.level,
         state |-> l.state, epoch |-> l.epoch, roles |-> {}]
  BY <1>1, <1>3, NameOfTenant DEF Expanded, ClassLabel
<1> QED BY <1>3, <1>4 DEF ClassVisible, Visible

-----------------------------------------------------------------------------
(***************************************************************************)
(* Constraints leave no choice of verdicts.                                *)
(***************************************************************************)
LEMMA DummyHidden ==
  ASSUME Encodable(user)
  PROVE  ~ PolicyGadget(EncodeUser(user), DummyLabel, epoch)
<1>1. TenantId[user.tenant] # 0
  BY RegistryAssumption DEF Encodable
<1> QED BY <1>1 DEF PolicyGadget, EncodeUser, DummyLabel

LEMMA OneLeaf ==
  ASSUME NEW leaf \in ClassLeaves
  PROVE  \/ leaf.label = ClassLeaf(leaf.id).label
         \/ leaf.id = 0 /\ leaf.label = DummyLabel
<1>1. CASE \E k \in CommittedIds : leaf = ClassLeaf(k)
  BY <1>1 DEF ClassLeaf
<1>2. CASE leaf = DummyClass
  BY <1>2 DEF DummyClass
<1> QED BY <1>1, <1>2 DEF ClassLeaves

LEMMA BoundTo ==
  ASSUME TypeOK, NEW s \in Slots, Valid(s), NEW b, BindingOk(s, b)
  PROVE  b.class = ClassOf(s) \/ (b.class = 0 /\ Cid(s) = 0)
<1>1. b.cid = Cid(s)
  BY DEF BindingOk
<1>2. CASE b = DummyBinding
  BY <1>1, <1>2 DEF DummyBinding
<1>3. CASE \E t \in Slots : b = Binding(t)
  <2>1. PICK t \in Slots : b = Binding(t)
    BY <1>3
  <2>2. b.cid = Cid(t)
    BY <2>1 DEF Binding
  <2>3. CASE Valid(t)
    <3>1. t = s
      BY <1>1, <2>2, <2>3, GridFacts
    <3>2. b.class = ClassOf(s)
      BY <2>1, <3>1 DEF Binding
    <3> QED BY <3>2
  <2>4. CASE ~ Valid(t)
    BY <1>1, <2>1, <2>2, <2>4, GridFacts DEF Binding
  <2> QED BY <2>3, <2>4
<1> QED BY <1>2, <1>3 DEF BindingOk, BindingLeaves

(* A slot is bound to class 0 only if that is its class, or none is.       *)
LEMMA LeafOfSlot ==
  ASSUME TypeOK, Built, NEW s \in Slots, Valid(s), NEW k, k = ClassOf(s) \/ (k = 0 /\ Cid(s) = 0)
  PROVE  k = ClassOf(s) \/ ClassLeaf(k).label = DummyLabel
<1> SUFFICES ASSUME k = 0, Cid(s) = 0, 0 \in DOMAIN class_labels
             PROVE  k = ClassOf(s)
  BY DEF ClassLeaf
<1>1. PICK t \in Grouped : ClassId(t) = 0
  BY DEF Built
<1>2. grouping = "per_object"
  BY <1>1, ClassZero
<1>3. ClassId(s) = 0
  BY <1>2 DEF ClassId
<1> QED BY <1>3, ClassExists

LEMMA ShownPasses ==
  ASSUME TypeOK, Built, Encodable(user), Constraints, NEW s \in Slots, Inherits(s)
  PROVE  Passes(s)
<1>1. PICK j \in selectors[s] : RowVisible(rows[j])
  BY DEF Inherits
<1>2. Valid(s) /\ MatchOk(s, selectors[s]) /\ BindingOk(s, bound[s])
  BY DEF Inherits, Constraints
<1>3. j \in DOMAIN rows /\ bound[s].class = rows[j].id
  BY <1>2 DEF MatchOk
<1>4. rows[j].opened \in ClassLeaves /\ rows[j].opened = [id |-> rows[j].id, label |-> rows[j].label]
  BY <1>3 DEF Constraints, RowOk
<1>5. rows[j].label = ClassLeaf(rows[j].id).label \/ rows[j].label = DummyLabel
  BY <1>4, OneLeaf
<1>6. PolicyGadget(EncodeUser(user), rows[j].label, epoch)
  BY <1>1 DEF RowVisible
<1>7. rows[j].label = ClassLeaf(rows[j].id).label /\ rows[j].label # DummyLabel
  BY <1>5, <1>6, DummyHidden
<1>8. rows[j].id = ClassOf(s) \/ (rows[j].id = 0 /\ Cid(s) = 0)
  BY <1>2, <1>3, BoundTo
<1>9. rows[j].id = ClassOf(s)
  BY <1>2, <1>7, <1>8, LeafOfSlot
<1> QED BY <1>2, <1>6, <1>7, <1>9 DEF Passes

LEMMA Selected ==
  ASSUME Constraints, NEW s \in Slots, Valid(s)
  PROVE  \E j \in selectors[s] : /\ j \in DOMAIN rows /\ rows[j].valid = 1
                                 /\ rows[j].id = bound[s].class /\ RowOk(rows[j])
<1>1. MatchOk(s, selectors[s]) /\ Cardinality(selectors[s]) = 1
  BY DEF Constraints, MatchOk, Valid
<1>2. selectors[s] # {}
  BY <1>1, FS_EmptySet
<1>3. PICK j : j \in selectors[s]
  BY <1>2
<1> QED BY <1>1, <1>3 DEF MatchOk, Constraints

LEMMA PassesShown ==
  ASSUME TypeOK, Built, Encodable(user), Constraints, NEW s \in Slots, Passes(s), Cid(s) # 0
  PROVE  Inherits(s)
<1>1. Valid(s)
  BY DEF Passes
<1>2. PICK j \in selectors[s] : /\ j \in DOMAIN rows /\ rows[j].valid = 1
                               /\ rows[j].id = bound[s].class /\ RowOk(rows[j])
  BY <1>1, Selected
<1>3. rows[j].id = ClassOf(s)
  BY <1>1, <1>2, BoundTo DEF Constraints
<1>4. rows[j].id # 0
  <2> SUFFICES ASSUME ClassOf(s) = 0 PROVE FALSE
    BY <1>3
  <2>1. s \in Grouped /\ ClassId(s) = 0
    BY <1>1, ClassExists, GroupedSlots
  <2> QED BY <2>1, ClassZero
<1>5. rows[j].label = ClassLeaf(ClassOf(s)).label
  BY <1>2, <1>3, <1>4, OneLeaf DEF RowOk
<1> QED BY <1>1, <1>2, <1>5 DEF Inherits, RowVisible, Passes

(* The honest witness shows object 0 as well.                              *)
LEMMA HonestShown ==
  ASSUME TypeOK, Built, Encodable(user), Constraints, NEW s \in Slots, Passes(s),
         rows = [j \in 1 .. TableLength |-> HonestRow(j)],
         bound = [t \in Slots |-> Binding(t)]
  PROVE  Inherits(s)
<1>1. Valid(s)
  BY DEF Passes
<1>2. PICK j \in selectors[s] : /\ j \in DOMAIN rows /\ rows[j].valid = 1
                               /\ rows[j].id = bound[s].class /\ RowOk(rows[j])
  BY <1>1, Selected
<1>3. rows[j].id = ClassOf(s)
  BY <1>1, <1>2 DEF Binding
<1>4. rows[j] = HonestRow(j)
  BY <1>2
<1>5. rows[j].opened = ClassLeaf(rows[j].id)
  <2> DEFINE k == CHOOSE i \in Used : Cardinality({u \in Used : u < i}) = j - 1
  <2>1. rows[j] = Row(k, EncodeClass(class_labels[k]), 1, ClassLeaf(k))
    BY <1>2, <1>4 DEF HonestRow, Row
  <2> HIDE DEF k
  <2> QED BY <2>1 DEF Row
<1>6. rows[j].label = ClassLeaf(ClassOf(s)).label
  BY <1>2, <1>3, <1>5 DEF RowOk
<1> QED BY <1>1, <1>2, <1>6 DEF Inherits, RowVisible, Passes

-----------------------------------------------------------------------------
(***************************************************************************)
(* The invariant holds.                                                    *)
(***************************************************************************)
LEMMA InitIInv == Init => IInv
BY DEF Init, IInv, TypeOK, Witnessing, Inherited

LEMMA FixtureBuilds ==
  ASSUME TypeOK, Fixture, pc' = "score"
  PROVE  Built'
<1>1. /\ \A s \in Grouped : Known(grid[s].label)
      /\ bindings' =
           [c \in {Cid(s) : s \in Grouped} |->
              LET s == CHOOSE t \in Grouped : Cid(t) = c
              IN  [class |-> ClassId(s), epoch |-> grid[s].label.epoch]]
      /\ class_labels' =
           [k \in {ClassId(s) : s \in Grouped} |->
              ClassLabel(grid[First({t \in Grouped : ClassId(t) = k})].label)]
      /\ grid' = grid /\ grouping' = grouping
  BY DEF Fixture, inputs
<1>2. /\ Grouped' = Grouped
      /\ \A s : ClassId(s)' = ClassId(s) /\ Cid(s)' = Cid(s)
  BY <1>1 DEF Grouped, ClassId, Cid, Valid
<1>3. ASSUME NEW s \in Grouped
      PROVE  bindings'[Cid(s)].class = ClassId(s)
  <2> DEFINE t == CHOOSE u \in Grouped : Cid(u) = Cid(s)
  <2>1. t \in Grouped /\ Cid(t) = Cid(s)
    OBVIOUS
  <2>2. bindings'[Cid(s)] = [class |-> ClassId(t), epoch |-> grid[t].label.epoch]
    BY <1>1
  <2>3. ClassId(t) = ClassId(s)
    BY <2>1, ClassById, GroupedSlots
  <2> HIDE DEF t
  <2> QED BY <2>2, <2>3
<1>4. ASSUME NEW k \in DOMAIN class_labels'
      PROVE  \E t \in Grouped : ClassId(t) = k /\ class_labels'[k] = ClassLabel(grid[t].label)
  <2> DEFINE T == {t \in Grouped : ClassId(t) = k}
  <2>1. k \in {ClassId(s) : s \in Grouped}
    BY <1>1
  <2>2. T # {} /\ T \subseteq Slots
    BY <2>1, GroupedSlots
  <2>3. First(T) \in T
    BY <2>2, FirstSlot
  <2>4. class_labels'[k] = ClassLabel(grid[First(T)].label)
    BY <1>1, <2>1
  <2> QED BY <2>3, <2>4
<1>5. (\A s \in Grouped : ClassOf(s) = ClassId(s))'
  BY <1>2, <1>3 DEF ClassOf
<1>6. (\A k \in DOMAIN class_labels :
          \E t \in Grouped : ClassId(t) = k /\ class_labels[k] = ClassLabel(grid[t].label))'
  BY <1>1, <1>2, <1>4 DEF ClassLabel
<1>7. (\A s \in Grouped : Known(grid[s].label))'
  BY <1>1, <1>2 DEF Known
<1>8. (DOMAIN class_labels = {ClassId(s) : s \in Grouped})'
  BY <1>1, <1>2
<1> QED BY <1>5, <1>6, <1>7, <1>8 DEF Built

(* What a step leaves alone.                                               *)
Frame ==
  UNCHANGED <<grid, user, epoch, table_size, honest, grouping, bindings, class_labels>>

LEMMA FrameKeeps ==
  ASSUME Frame
  PROVE  /\ Built' <=> Built
         /\ \A s : Valid(s)' = Valid(s) /\ Cid(s)' = Cid(s) /\ ClassVisible(s)' = ClassVisible(s)
                  /\ Passes(s)' = Passes(s) /\ Binding(s)' = Binding(s)
         /\ TableLength' = TableLength /\ \A j : HonestRow(j)' = HonestRow(j)
<1>1. \A s : Valid(s)' = Valid(s) /\ Cid(s)' = Cid(s) /\ ClassId(s)' = ClassId(s)
             /\ ClassOf(s)' = ClassOf(s)
  BY DEF Frame, Valid, Cid, ClassId, ClassOf
<1>2. Grouped' = Grouped
  BY <1>1 DEF Frame, Grouped
<1>3. Built' <=> Built
  <2>1. (\A s \in Grouped : Known(grid[s].label))' <=> \A s \in Grouped : Known(grid[s].label)
    BY <1>2 DEF Frame, Known
  <2>2. (DOMAIN class_labels = {ClassId(s) : s \in Grouped})'
          <=> DOMAIN class_labels = {ClassId(s) : s \in Grouped}
    BY <1>1, <1>2 DEF Frame
  <2>3. (\A s \in Grouped : ClassOf(s) = ClassId(s))' <=> \A s \in Grouped : ClassOf(s) = ClassId(s)
    BY <1>1, <1>2
  <2>4. \A s : ClassLabel(grid[s].label)' = ClassLabel(grid[s].label)
    BY DEF Frame, ClassLabel
  <2>5. (\A k \in DOMAIN class_labels :
           \E t \in Grouped : ClassId(t) = k /\ class_labels[k] = ClassLabel(grid[t].label))'
          <=> \A k \in DOMAIN class_labels :
                 \E t \in Grouped : ClassId(t) = k /\ class_labels[k] = ClassLabel(grid[t].label)
    BY <1>1, <1>2, <2>4 DEF Frame
  <2> QED BY <2>1, <2>2, <2>3, <2>5 DEF Built
<1>4. \A k : ClassLeaf(k)' = ClassLeaf(k) /\ Expanded(k)' = Expanded(k)
  BY DEF Frame, ClassLeaf, Expanded, EncodeClass
<1>5. \A s : ClassVisible(s)' = ClassVisible(s)
  BY <1>1, <1>4 DEF Frame, ClassVisible
<1>6. \A s : Passes(s)' = Passes(s)
  BY <1>1, <1>4 DEF Frame, Passes
<1>7. \A s : Binding(s)' = Binding(s)
  BY <1>1 DEF Frame, Binding
<1>8. Used' = Used
  BY <1>1 DEF Used
<1>9. TableLength' = TableLength /\ \A j : HonestRow(j)' = HonestRow(j)
  BY <1>4, <1>8 DEF Frame, TableLength, HonestRow, Row, EncodeClass
<1> QED BY <1>1, <1>3, <1>5, <1>6, <1>7, <1>9

(* The conjuncts of the invariant that look at the witness.                *)
Scores     == "score" \in errors \/ scored = {s \in Slots : Valid(s) /\ ClassVisible(s)}
HonestRows == Encodable(user) /\ (honest => rows = [j \in 1 .. TableLength |-> HonestRow(j)])
HonestBound == honest => bound = [s \in Slots |-> Binding(s)]

LEMMA TypeKept ==
  ASSUME TypeOK, Next
  PROVE  TypeOK'
BY DEF TypeOK, Next, Fixture, Score, Table, Bind, Select, Prove, inputs

LEMMA StepFixture ==
  ASSUME IInv, Fixture
  PROVE  IInv'
<1>1. TypeOK /\ TypeOK'
  BY TypeKept DEF IInv, Next
<1>2. CASE pc' = "score"
  <2>1. Built'
    BY <1>1, <1>2, FixtureBuilds
  <2> QED BY <1>1, <1>2, <2>1 DEF IInv, Witnessing, Inherited
<1>3. CASE pc' = "raised"
  BY <1>1, <1>3 DEF IInv, Witnessing, Inherited
<1> QED BY <1>2, <1>3 DEF Fixture

LEMMA StepScore ==
  ASSUME IInv, Score
  PROVE  IInv'
<1>1. TypeOK'
  BY TypeKept DEF IInv, Next
<1>2. Frame /\ pc' = "table" /\ Built
  BY DEF Score, Frame, inputs, IInv
<1>3. Built'
  BY <1>2, FrameKeeps
<1>4. Scores'
  <2>1. "score" \in errors' \/ scored' = {s \in Slots : Valid(s) /\ ClassVisible(s)}
    BY DEF Score
  <2>2. \A s : Valid(s)' = Valid(s) /\ ClassVisible(s)' = ClassVisible(s)
    BY <1>2, FrameKeeps
  <2> QED BY <2>1, <2>2 DEF Scores
<1> QED BY <1>1, <1>2, <1>3, <1>4 DEF IInv, Witnessing, Inherited, Scores

(* Steps after the scores keep them, the fixtures and the honest rows.     *)
LEMMA Carried ==
  ASSUME IInv, Frame, errors' = errors, scored' = scored,
         pc \in {"table"} \cup Witnessing
  PROVE  /\ Built' /\ Scores'
         /\ pc \in Witnessing /\ rows' = rows => HonestRows'
         /\ HonestBound /\ bound' = bound => HonestBound'
<1>1. Built /\ Scores
  BY DEF IInv, Scores
<1>2. Built'
  BY <1>1, FrameKeeps
<1>3. \A s : Valid(s)' = Valid(s) /\ ClassVisible(s)' = ClassVisible(s) /\ Binding(s)' = Binding(s)
  BY FrameKeeps
<1>4. Scores'
  BY <1>1, <1>3 DEF Scores
<1>5. TableLength' = TableLength /\ \A j : HonestRow(j)' = HonestRow(j)
  BY FrameKeeps
<1>6. ASSUME pc \in Witnessing, rows' = rows
      PROVE  HonestRows'
  <2>1. HonestRows
    BY <1>6 DEF IInv, HonestRows
  <2>2. Encodable(user)' = Encodable(user) /\ honest' = honest
    BY DEF Frame, Encodable
  <2> QED BY <1>5, <1>6, <2>1, <2>2 DEF HonestRows
<1>7. ASSUME HonestBound, bound' = bound
      PROVE  HonestBound'
  BY <1>3, <1>7 DEF HonestBound, Frame
<1> QED BY <1>2, <1>4, <1>6, <1>7

LEMMA StepTable ==
  ASSUME IInv, Table
  PROVE  IInv'
<1>1. TypeOK'
  BY TypeKept DEF IInv, Next
<1>2. CASE pc' = "raised"
  BY <1>1, <1>2 DEF IInv, Witnessing, Inherited
<1>3. CASE pc' # "raised"
  <2>1. /\ Frame /\ pc = "table" /\ pc' = "bind" /\ errors' = errors /\ scored' = scored
        /\ Encodable(user)
        /\ honest => rows' = [j \in 1 .. TableLength |-> HonestRow(j)]
    BY <1>3 DEF Table, Frame, inputs
  <2>2. Built' /\ Scores'
    BY <2>1, Carried
  <2>3. HonestRows'
    <3>1. TableLength' = TableLength /\ \A j : HonestRow(j)' = HonestRow(j)
      BY <2>1, FrameKeeps
    <3>2. Encodable(user)' = Encodable(user) /\ honest' = honest
      BY <2>1 DEF Frame, Encodable
    <3> QED BY <2>1, <3>1, <3>2 DEF HonestRows
  <2> QED BY <1>1, <2>1, <2>2, <2>3 DEF IInv, Witnessing, Inherited, Scores, HonestRows
<1> QED BY <1>2, <1>3

LEMMA StepBind ==
  ASSUME IInv, Bind
  PROVE  IInv'
<1>1. TypeOK'
  BY TypeKept DEF IInv, Next
<1>2. /\ Frame /\ pc = "bind" /\ pc' = "select" /\ errors' = errors /\ scored' = scored
      /\ rows' = rows /\ (honest => bound' = [s \in Slots |-> Binding(s)])
  BY DEF Bind, Frame, inputs
<1>3. Built' /\ Scores' /\ HonestRows'
  BY <1>2, Carried DEF Witnessing
<1>4. HonestBound'
  <2>1. \A s : Binding(s)' = Binding(s)
    BY <1>2, FrameKeeps
  <2> QED BY <1>2, <2>1 DEF HonestBound, Frame
<1> QED BY <1>1, <1>2, <1>3, <1>4 DEF IInv, Witnessing, Inherited, Scores, HonestRows, HonestBound

LEMMA StepSelect ==
  ASSUME IInv, Select
  PROVE  IInv'
<1>1. TypeOK'
  BY TypeKept DEF IInv, Next
<1>2. /\ Frame /\ pc = "select" /\ pc' = "prove" /\ errors' = errors /\ scored' = scored
      /\ rows' = rows /\ bound' = bound
  BY DEF Select, Frame, inputs
<1>3. HonestBound
  BY <1>2 DEF IInv, HonestBound
<1>4. Built' /\ Scores' /\ HonestRows' /\ HonestBound'
  BY <1>2, <1>3, Carried DEF Witnessing
<1> QED BY <1>1, <1>2, <1>4 DEF IInv, Witnessing, Inherited, Scores, HonestRows, HonestBound

LEMMA StepProve ==
  ASSUME IInv, Prove
  PROVE  IInv'
<1>1. TypeOK /\ TypeOK'
  BY TypeKept DEF IInv, Next
<1>2. /\ Frame /\ pc = "prove" /\ errors' = errors /\ scored' = scored
      /\ rows' = rows /\ bound' = bound /\ pc' \in {"proved", "failed"}
  BY DEF Prove, Frame, inputs
<1>3. Built /\ HonestRows /\ HonestBound
  BY <1>2 DEF IInv, Witnessing, HonestRows, HonestBound
<1>4. Built' /\ Scores' /\ HonestRows' /\ HonestBound'
  BY <1>2, <1>3, Carried DEF Witnessing
<1>5. CASE pc' = "failed"
  BY <1>1, <1>4, <1>5 DEF IInv, Witnessing, Inherited, Scores, HonestRows, HonestBound
<1>6. CASE pc' = "proved"
  <2>1. Constraints /\ shown' = {s \in Slots : Inherits(s)}
    BY <1>6 DEF Prove
  <2>2. \A s : Passes(s)' = Passes(s) /\ Cid(s)' = Cid(s)
    BY <1>2, FrameKeeps
  <2>3. ASSUME NEW s \in Slots, s \in shown'
        PROVE  Passes(s)'
    BY <1>1, <1>3, <2>1, <2>2, <2>3, ShownPasses DEF HonestRows
  <2>4. ASSUME NEW s \in Slots, Passes(s)', Cid(s)' # 0
        PROVE  s \in shown'
    BY <1>1, <1>3, <2>1, <2>2, <2>4, PassesShown DEF HonestRows
  <2>5. Inherited'
    BY <2>3, <2>4 DEF Inherited
  <2>6. HonestVerdicts'
    <3>1. honest' = honest
      BY <1>2 DEF Frame
    <3>2. ASSUME honest, NEW s \in Slots, Passes(s)'
          PROVE  s \in shown'
      <4>1. rows = [j \in 1 .. TableLength |-> HonestRow(j)] /\ bound = [t \in Slots |-> Binding(t)]
        BY <1>3, <3>2 DEF HonestRows, HonestBound
      <4>2. Passes(s) /\ Encodable(user)
        BY <1>3, <2>2, <3>2 DEF HonestRows
      <4>3. Inherits(s)
        BY <1>1, <1>3, <2>1, <4>1, <4>2, HonestShown
      <4> QED BY <2>1, <4>3
    <3> QED BY <3>1, <3>2 DEF HonestVerdicts
  <2> QED BY <1>1, <1>4, <1>6, <2>5, <2>6 DEF IInv, Witnessing, Scores, HonestRows, HonestBound
<1> QED BY <1>2, <1>5, <1>6

LEMMA InductIInv == IInv /\ [Next]_vars => IInv'
<1> SUFFICES ASSUME IInv, [Next]_vars PROVE IInv'
  OBVIOUS
<1>1. CASE Next
  BY <1>1, StepFixture, StepScore, StepTable, StepBind, StepSelect, StepProve DEF Next
<1>2. CASE UNCHANGED vars
  <2>1. /\ Frame /\ errors' = errors /\ scored' = scored /\ rows' = rows /\ bound' = bound
        /\ shown' = shown /\ pc' = pc
    BY <1>2 DEF vars, inputs, Frame
  <2>2. Built' <=> Built
    BY <2>1, FrameKeeps
  <2>3. TypeOK'
    BY <2>1 DEF IInv, TypeOK, Frame
  <2>4. /\ \A s : Valid(s)' = Valid(s) /\ Cid(s)' = Cid(s) /\ ClassVisible(s)' = ClassVisible(s)
                 /\ Passes(s)' = Passes(s) /\ Binding(s)' = Binding(s)
        /\ TableLength' = TableLength /\ \A j : HonestRow(j)' = HonestRow(j)
    BY <2>1, FrameKeeps
  <2>5. Scores' <=> Scores
    BY <2>1, <2>4 DEF Scores
  <2>6. HonestRows' <=> HonestRows
    BY <2>1, <2>4 DEF HonestRows, Encodable, Frame
  <2>7. HonestBound' <=> HonestBound
    BY <2>1, <2>4 DEF HonestBound, Frame
  <2>8. Inherited'
    BY <2>1, <2>4 DEF IInv, Inherited
  <2>9. HonestVerdicts' <=> HonestVerdicts
    BY <2>1, <2>4 DEF HonestVerdicts, Frame
  <2> QED BY <2>1, <2>2, <2>3, <2>5, <2>6, <2>7, <2>8, <2>9
          DEF IInv, Witnessing, Scores, HonestRows, HonestBound
<1> QED BY <1>1, <1>2

(* The invariant of every execution.                                       *)
THEOREM Invariant == Spec => []IInv
BY InitIInv, InductIInv, PTL DEF Spec

(* The committed trees leave no prover a choice of verdicts.               *)
THEOREM InheritedAlways == Spec => []Inherited
<1>1. IInv => Inherited
  BY DEF IInv
<1> QED BY <1>1, Invariant, PTL

(* The policy evaluated once per class agrees with the policy evaluated on *)
(* every object's label.                                                   *)
THEOREM SameAsObjectLevelAlways == Spec => []SameAsObjectLevel
<1>1. IInv => SameAsObjectLevel
  <2> SUFFICES ASSUME IInv, pc \notin {"fixture", "score", "raised"}, "score" \notin errors,
                      Expressible, Separated
               PROVE  scored = Authorized
    BY DEF SameAsObjectLevel
  <2>1. TypeOK /\ Built /\ scored = {s \in Slots : Valid(s) /\ ClassVisible(s)}
    BY DEF IInv, TypeOK, Witnessing
  <2> QED BY <2>1, VerdictIsOwn DEF Authorized
<1> QED BY <1>1, Invariant, PTL

(* The places for projects hold all projects of a user who has no more.    *)
LEMMA ProjectsFit ==
  ASSUME NEW u \in Users, Cardinality(u.projects) <= MaxProjects
  PROVE  FirstProjects(u) = u.projects
<1> SUFFICES ASSUME NEW p \in u.projects
             PROVE  Cardinality({q \in u.projects : q < p}) < MaxProjects
  BY DEF FirstProjects
<1> DEFINE Below == {q \in u.projects : q < p}
<1>1. IsFiniteSet(u.projects) /\ u.projects \subseteq Int /\ MaxProjects \in Nat
  BY UserAssumption, RegistryAssumption
<1>2. Below \subseteq u.projects \ {p}
  BY <1>1
<1>3. /\ IsFiniteSet(u.projects \ {p})
      /\ Cardinality(u.projects \ {p}) = Cardinality(u.projects) - 1
  BY <1>1, FS_RemoveElement
<1>4. IsFiniteSet(Below) /\ Cardinality(Below) <= Cardinality(u.projects \ {p})
  BY <1>2, <1>3, FS_Subset
<1>5. Cardinality(Below) \in Nat /\ Cardinality(u.projects) \in Nat
  BY <1>1, <1>4, FS_CardinalityType
<1> HIDE DEF Below
<1>6. Cardinality(Below) < MaxProjects
  BY <1>1, <1>3, <1>4, <1>5
<1> QED BY <1>6 DEF Below

Encoded(l) ==
  [tenant |-> TenantId[l.tenant], project |-> l.project, level |-> l.level,
   state |-> StateId(l.state), epoch |-> l.epoch]

(* The leaf of the slot's class carries the label of its object.           *)
LEMMA LeafIsOwn ==
  ASSUME TypeOK, Built, Separated, NEW s \in Slots, Valid(s)
  PROVE  ClassLeaf(ClassOf(s)).label = Encoded(grid[s].label)
<1>1. ClassOf(s) \in DOMAIN class_labels
  BY ClassExists
<1>2. class_labels[ClassOf(s)] = ClassLabel(grid[s].label)
  BY ClassIsOwn
<1> QED BY <1>1, <1>2 DEF ClassLeaf, EncodeClass, ClassLabel, Encoded

(* What the circuit asks of an encoded label.                              *)
LEMMA EncodedPasses ==
  ASSUME NEW l, NEW e
  PROVE  PolicyGadget(EncodeUser(user), Encoded(l), e) <=>
           /\ TenantId[user.tenant] = TenantId[l.tenant] /\ l.project \in FirstProjects(user)
           /\ l.level <= user.clearance /\ StateId(l.state) = 1
           /\ user.epoch = e /\ l.epoch = e
BY DEF PolicyGadget, EncodeUser, Encoded

LEMMA PassesAuthorized ==
  ASSUME TypeOK, Built, Encodable(user), Separated, Expressible, NEW s \in Slots, Passes(s)
  PROVE  s \in Authorized
<1> DEFINE l == grid[s].label
<1>1. Valid(s) /\ s \in Grouped
  BY GroupedSlots DEF Passes
<1>2. l.roles = {} /\ l.tenant \in ZkTenants /\ user.tenant \in ZkTenants
  BY <1>1 DEF Expressible, Encodable
<1>3. PolicyGadget(EncodeUser(user), ClassLeaf(ClassOf(s)).label, epoch)
  BY DEF Passes
<1>4. /\ TenantId[user.tenant] = TenantId[l.tenant]
      /\ l.project \in FirstProjects(user) /\ l.level <= user.clearance
      /\ StateId(l.state) = 1 /\ l.epoch = epoch
  BY <1>1, <1>3, LeafIsOwn, EncodedPasses
<1>5. l.tenant = user.tenant
  BY <1>2, <1>4, RegistryAssumption
<1>6. l.project \in user.projects /\ l.state = "active"
  BY <1>4 DEF FirstProjects, StateId
<1> QED BY <1>1, <1>2, <1>4, <1>5, <1>6 DEF Authorized, Visible

LEMMA AuthorizedPasses ==
  ASSUME TypeOK, Built, Separated, user.epoch = epoch, Cardinality(user.projects) <= MaxProjects,
         NEW s \in Authorized, grid[s].label.epoch # 0
  PROVE  Passes(s)
<1> DEFINE l == grid[s].label
<1>1. s \in Slots /\ Valid(s) /\ Visible(user, l, epoch)
  BY DEF Authorized
<1>2. /\ l.tenant = user.tenant /\ l.project \in FirstProjects(user) /\ l.level <= user.clearance
      /\ StateId(l.state) = 1 /\ l.epoch = epoch
  BY <1>1, ProjectsFit DEF Visible, StateId, TypeOK
<1>3. PolicyGadget(EncodeUser(user), ClassLeaf(ClassOf(s)).label, epoch)
  BY <1>1, <1>2, LeafIsOwn, EncodedPasses
<1> QED BY <1>1, <1>3 DEF Passes

(* No accepted proof shows more than the reference policy authorizes, and  *)
(* an honest one shows it all under the conditions of the property.        *)
THEOREM ShowsAuthorizedAlways == Spec => []ShowsAuthorized
<1>1. IInv => ShowsAuthorized
  <2> SUFFICES ASSUME IInv, pc = "proved", Expressible, Separated
               PROVE  /\ shown \subseteq Authorized
                      /\ /\ honest /\ user.epoch = epoch
                         /\ \A s \in Slots : grid[s].label.epoch # 0
                         /\ Cardinality(user.projects) <= MaxProjects
                         => Authorized \subseteq shown
    BY DEF ShowsAuthorized
  <2>1. TypeOK /\ Built /\ Encodable(user) /\ Inherited /\ HonestVerdicts
    BY DEF IInv, Witnessing
  <2>2. ASSUME NEW s \in shown
        PROVE  s \in Authorized
    <3>1. s \in Slots /\ Passes(s)
      BY <2>1 DEF TypeOK, Inherited
    <3> QED BY <2>1, <3>1, PassesAuthorized
  <2>3. ASSUME honest, user.epoch = epoch, Cardinality(user.projects) <= MaxProjects,
               \A s \in Slots : grid[s].label.epoch # 0, NEW s \in Authorized
        PROVE  s \in shown
    <3>1. s \in Slots
      BY DEF Authorized
    <3>2. Passes(s)
      BY <2>1, <2>3, <3>1, AuthorizedPasses
    <3> QED BY <2>1, <2>3, <3>1, <3>2 DEF HonestVerdicts
  <2> QED BY <2>2, <2>3
<1> QED BY <1>1, Invariant, PTL

-----------------------------------------------------------------------------
(***************************************************************************)
(* The honest witness satisfies the constraints.  The rows of the table    *)
(* are the used classes in ascending order (every place has one, by        *)
(* counting), and a slot finds its class among them.                       *)
(***************************************************************************)
RankIn(S, k) == Cardinality({i \in S : i < k})

(* Every place up to the size of a set of numbers is the rank of one.      *)
LEMMA RankTaken ==
  ASSUME NEW S, S \subseteq Nat, IsFiniteSet(S)
  PROVE  /\ \A k \in S : RankIn(S, k) \in 0 .. Cardinality(S) - 1
         /\ \A k, m \in S : RankIn(S, k) = RankIn(S, m) => k = m
         /\ \A j \in 1 .. Cardinality(S) : \E k \in S : RankIn(S, k) = j - 1
<1> DEFINE n == Cardinality(S)
           L(k) == {i \in S : i < k}
<1>1. n \in Nat
  BY FS_CardinalityType
<1>2. \A k : IsFiniteSet(L(k)) /\ Cardinality(L(k)) \in Nat
  <2> TAKE k
  <2>1. L(k) \in SUBSET S
    OBVIOUS
  <2> HIDE DEF L
  <2> QED BY <2>1, FS_Subset, FS_CardinalityType
<1>3. ASSUME NEW k \in S PROVE Cardinality(L(k)) < n
  <2>1. L(k) \in SUBSET S /\ k \notin L(k)
    OBVIOUS
  <2> HIDE DEF L
  <2>2. Cardinality(L(k)) <= n /\ Cardinality(L(k)) # n
    BY <2>1, FS_Subset
  <2> QED BY <1>1, <1>2, <2>2
<1>4. ASSUME NEW k \in S, NEW m \in S, k < m PROVE Cardinality(L(k)) < Cardinality(L(m))
  <2>1. L(k) \in SUBSET L(m) /\ k \in L(m) /\ k \notin L(k)
    <3>1. \A i \in S : i < k => i < m
      BY <1>4
    <3>2. ~ (k < k)
      OBVIOUS
    <3> QED BY <1>4, <3>1, <3>2
  <2> HIDE DEF L
  <2>2. Cardinality(L(k)) <= Cardinality(L(m)) /\ Cardinality(L(k)) # Cardinality(L(m))
    BY <1>2, <2>1, FS_Subset
  <2> QED BY <1>2, <2>2
<1> HIDE DEF L
<1>5. \A k, m \in S : Cardinality(L(k)) = Cardinality(L(m)) => k = m
  <2> SUFFICES ASSUME NEW k \in S, NEW m \in S, Cardinality(L(k)) = Cardinality(L(m)), k # m
               PROVE  FALSE
    OBVIOUS
  <2>1. k < m \/ m < k
    OBVIOUS
  <2>2. Cardinality(L(k)) < Cardinality(L(m)) \/ Cardinality(L(m)) < Cardinality(L(k))
    BY <1>4, <2>1
  <2> QED BY <1>2, <2>2
<1> DEFINE T == 0 .. n - 1
           f == [k \in S |-> Cardinality(L(k))]
<1>6. IsFiniteSet(T) /\ Cardinality(T) = n
  <2>1. 0 \in Int /\ n - 1 \in Int
    BY <1>1
  <2>2. IsFiniteSet(T) /\ Cardinality(T) = IF 0 > n - 1 THEN 0 ELSE (n - 1) - 0 + 1
    BY <2>1, FS_Interval
  <2> QED BY <1>1, <2>2
<1>7. \A k \in S : Cardinality(L(k)) \in T
  BY <1>1, <1>2, <1>3
<1>8. f \in Injection(S, T)
  BY <1>5, <1>7 DEF Injection, IsInjective
<1> HIDE DEF f, T, n
<1>9. f \in Surjection(S, T)
  BY <1>6, <1>8, FS_Injection DEF n
<1>10. \A j \in 1 .. n : \E k \in S : Cardinality(L(k)) = j - 1
  <2> TAKE j \in 1 .. n
  <2>1. j - 1 \in T
    BY <1>1 DEF T
  <2> QED BY <1>9, <2>1 DEF Surjection, f
<1> QED BY <1>5, <1>7, <1>10 DEF RankIn, L, T, n

(* The used classes are finitely many numbers with a committed label.      *)
LEMMA UsedClasses ==
  ASSUME TypeOK, Built
  PROVE  /\ IsFiniteSet(Used) /\ Cardinality(Used) \in 0 .. NSlots
         /\ Used \subseteq Nat /\ Used \subseteq DOMAIN class_labels
         /\ \A s \in Slots : Valid(s) => ClassOf(s) \in Used
<1> DEFINE V == {s \in Slots : Valid(s)}
           f == [s \in V |-> ClassOf(s)]
<1>1. IsFiniteSet(Slots) /\ Cardinality(Slots) = NSlots /\ NSlots \in Nat
  <2>1. IsFiniteSet(1 .. NSlots) /\ Cardinality(1 .. NSlots) = IF 1 > NSlots THEN 0 ELSE NSlots - 1 + 1
    BY SizeAssumption, FS_Interval
  <2> QED BY <2>1, SizeAssumption DEF Slots
<1>2. IsFiniteSet(V) /\ Cardinality(V) <= NSlots
  <2>1. V \in SUBSET Slots
    OBVIOUS
  <2> HIDE DEF V
  <2> QED BY <1>1, <2>1, FS_Subset
<1>3. Used = {ClassOf(s) : s \in V}
  BY DEF Used
<1>4. f \in Surjection(V, Used)
  BY <1>3 DEF Surjection
<1> HIDE DEF f, V
<1>5. IsFiniteSet(Used) /\ Cardinality(Used) <= Cardinality(V)
  BY <1>2, <1>4, FS_Surjection
<1>6. Cardinality(Used) \in Nat /\ Cardinality(V) \in Nat
  BY <1>2, <1>5, FS_CardinalityType
<1>7. ASSUME NEW s \in Slots, Valid(s)
      PROVE  ClassOf(s) \in Nat /\ ClassOf(s) \in DOMAIN class_labels
  <2>1. ClassOf(s) = ClassId(s) /\ ClassOf(s) \in DOMAIN class_labels /\ s \in Grouped
    BY <1>7, ClassExists, GroupedSlots
  <2>2. IsLabel(grid[s].label) /\ Cid(s) \in Nat
    BY <2>1, GridFacts DEF Built
  <2> QED BY <2>1, <2>2, DefaultIds DEF ClassId
<1> QED BY <1>1, <1>2, <1>3, <1>5, <1>6, <1>7 DEF V

(* 2^n is the number of subsets of a set of size n, so it is at least n    *)
(* and the length of the table is a number.                                *)
LEMMA PowersReach ==
  ASSUME NEW n \in Nat
  PROVE  2 ^ n \in Nat /\ n <= 2 ^ n
<1> DEFINE S == 1 .. n
           f == [x \in S |-> {x}]
<1>1. IsFiniteSet(S) /\ Cardinality(S) = n
  <2>1. IsFiniteSet(1 .. n) /\ Cardinality(1 .. n) = IF 1 > n THEN 0 ELSE n - 1 + 1
    BY FS_Interval
  <2> QED BY <2>1
<1>2. f \in Injection(S, SUBSET S)
  <2>1. \A x \in S : f[x] = {x} /\ f[x] \in SUBSET S
    OBVIOUS
  <2>2. f \in [S -> SUBSET S]
    BY <2>1
  <2> HIDE DEF f, S
  <2> QED BY <2>1, <2>2 DEF Injection, IsInjective
<1> HIDE DEF f, S
<1>3. IsFiniteSet(SUBSET S) /\ Cardinality(SUBSET S) = 2 ^ n
  BY <1>1, FS_SUBSET
<1>4. Cardinality(S) <= Cardinality(SUBSET S)
  BY <1>2, <1>3, FS_Injection
<1> QED BY <1>1, <1>3, <1>4, FS_CardinalityType

LEMMA TableFits ==
  ASSUME TypeOK, Built, table_size \in Nat
  PROVE  TableLength \in Nat
<1> DEFINE n == Cardinality(Used)
           S == {p \in PowersOfTwo : p >= n}
<1>1. n \in 0 .. NSlots /\ n \in Nat /\ n \in 0 .. NSlots + 1
  BY UsedClasses, SizeAssumption
<1> HIDE DEF n
<1>2. PowersOfTwo \subseteq Nat
  BY PowersReach, SizeAssumption DEF PowersOfTwo
<1>3. 2 ^ n \in S
  BY <1>1, PowersReach DEF PowersOfTwo
<1>4. S \subseteq Nat /\ S # {}
  BY <1>2, <1>3
<1>5. First(S) \in S /\ \A q \in S : First(S) <= q
  BY <1>4, FirstNumber
<1>6. NextPow2(n) \in PowersOfTwo
  BY <1>5 DEF NextPow2
<1> QED BY <1>2, <1>6 DEF TableLength, n

-----------------------------------------------------------------------------
HonestSelector(s) ==
  IF Valid(s)
  THEN {First({j \in 1 .. Cardinality(Used) : HonestRow(j).id = ClassOf(s)})}
  ELSE {}

LEMMA HonestRowIs ==
  ASSUME TypeOK, Built, NEW j \in 1 .. Cardinality(Used)
  PROVE  \E k \in Used : /\ RankIn(Used, k) = j - 1
                         /\ HonestRow(j) = Row(k, EncodeClass(class_labels[k]), 1, ClassLeaf(k))
<1> DEFINE k == CHOOSE i \in Used : Cardinality({u \in Used : u < i}) = j - 1
<1>1. \E i \in Used : Cardinality({u \in Used : u < i}) = j - 1
  BY UsedClasses, RankTaken DEF RankIn
<1>2. k \in Used /\ Cardinality({u \in Used : u < k}) = j - 1
  BY <1>1
<1>3. Cardinality(Used) \in Nat
  BY UsedClasses
<1>4. j <= Cardinality(Used)
  BY <1>3
<1>5. HonestRow(j) = Row(k, EncodeClass(class_labels[k]), 1, ClassLeaf(k))
  BY <1>4, Zenon DEF HonestRow
<1> QED BY <1>2, <1>5 DEF RankIn

(* The labels of rows and leaves have levels that compare.                 *)
LEMMA RowLevels ==
  ASSUME TypeOK, Built, NEW k \in DOMAIN class_labels
  PROVE  /\ EncodeClass(class_labels[k]).level \in Nat
         /\ EncodeClass(class_labels[k]).tenant # 0
<1>1. PICK t \in Grouped : class_labels[k] = ClassLabel(grid[t].label)
  BY DEF Built
<1>2. t \in Slots /\ Known(grid[t].label)
  BY GroupedSlots DEF Built
<1>3. grid[t].label.level \in Nat /\ TenantId[grid[t].label.tenant] # 0
  <2>1. grid[t].label.level \in 0 .. Radix - 1
    BY <1>2, GridAssumption DEF TypeOK
  <2>2. TenantId[grid[t].label.tenant] # 0
    BY <1>2, RegistryAssumption DEF Known
  <2> QED BY <2>1, <2>2, SizeAssumption
<1> QED BY <1>1, <1>3 DEF EncodeClass, ClassLabel

(* Row by row: a used class is opened by its leaf, padding by the leaf of  *)
(* class 0, which is the dummy unless a class is numbered 0.               *)
LEMMA HonestRowOk ==
  ASSUME TypeOK, Built, NEW j \in Nat \ {0}
  PROVE  /\ j <= Cardinality(Used) => RowOk(HonestRow(j)) /\ HonestRow(j).label.level \in Nat
         /\ j > Cardinality(Used) =>
              /\ RowOk(HonestRow(j)) <=> 0 \notin DOMAIN class_labels
              /\ HonestRow(j).valid = 0
<1>1. Cardinality(Used) \in Nat
  BY UsedClasses
<1>2. ASSUME j <= Cardinality(Used)
      PROVE  RowOk(HonestRow(j)) /\ HonestRow(j).label.level \in Nat
  <2>1. j \in 1 .. Cardinality(Used)
    BY <1>1, <1>2
  <2>2. PICK k \in Used :
          HonestRow(j) = Row(k, EncodeClass(class_labels[k]), 1, ClassLeaf(k))
    BY <2>1, HonestRowIs
  <2>3. k \in DOMAIN class_labels
    BY UsedClasses
  <2>4. ClassLeaf(k) = [id |-> k, label |-> EncodeClass(class_labels[k])]
    BY <2>3 DEF ClassLeaf
  <2>5. ClassLeaf(k) \in ClassLeaves
    BY <2>3 DEF ClassLeaves, CommittedIds
  <2>6. EncodeClass(class_labels[k]).level \in Nat
    BY <2>3, RowLevels
  <2> QED BY <2>2, <2>4, <2>5, <2>6 DEF RowOk, Row
<1>3. ASSUME j > Cardinality(Used)
      PROVE  /\ RowOk(HonestRow(j)) <=> 0 \notin DOMAIN class_labels
             /\ HonestRow(j).valid = 0
  <2>1. HonestRow(j) = Row(0, DummyLabel, 0, ClassLeaf(0))
    BY <1>1, <1>3 DEF HonestRow
  <2>2. ClassLeaf(0) \in ClassLeaves
    BY DEF ClassLeaves, CommittedIds
  <2>3. CASE 0 \notin DOMAIN class_labels
    <3>1. ClassLeaf(0) = [id |-> 0, label |-> DummyLabel]
      BY <2>3 DEF ClassLeaf
    <3> QED BY <2>1, <2>2, <2>3, <3>1 DEF RowOk, Row
  <2>4. CASE 0 \in DOMAIN class_labels
    <3>1. ClassLeaf(0).label = EncodeClass(class_labels[0])
      BY <2>4 DEF ClassLeaf
    <3>2. ClassLeaf(0).label.tenant # 0
      BY <2>4, <3>1, RowLevels
    <3>3. ~ RowOk(HonestRow(j))
      BY <2>1, <3>2 DEF RowOk, Row, DummyLabel
    <3> QED BY <2>1, <2>4, <3>3 DEF Row
  <2> QED BY <2>3, <2>4
<1> QED BY <1>2, <1>3

(* A valid slot finds the row of its class among the used ones.            *)
LEMMA HonestSelects ==
  ASSUME TypeOK, Built, NEW s \in Slots, Valid(s)
  PROVE  \E j \in 1 .. Cardinality(Used) :
           /\ HonestSelector(s) = {j} /\ HonestRow(j).id = ClassOf(s)
           /\ HonestRow(j).valid = 1
<1> DEFINE R == {j \in 1 .. Cardinality(Used) : HonestRow(j).id = ClassOf(s)}
           n == Cardinality(Used)
<1>1. n \in Nat /\ ClassOf(s) \in Used /\ IsFiniteSet(Used) /\ Used \subseteq Nat
  BY UsedClasses
<1>2. RankIn(Used, ClassOf(s)) \in 0 .. n - 1
  BY <1>1, RankTaken
<1> DEFINE r == RankIn(Used, ClassOf(s)) + 1
<1>3. r \in 1 .. n /\ RankIn(Used, ClassOf(s)) = r - 1
  BY <1>1, <1>2
<1> HIDE DEF r
<1>4. PICK k \in Used : /\ RankIn(Used, k) = r - 1
                        /\ HonestRow(r) = Row(k, EncodeClass(class_labels[k]), 1, ClassLeaf(k))
  BY <1>3, HonestRowIs
<1>5. k = ClassOf(s)
  BY <1>1, <1>3, <1>4, RankTaken
<1>6. r \in R
  BY <1>3, <1>4, <1>5 DEF Row
<1>7. R \subseteq Nat /\ R # {}
  BY <1>1, <1>6
<1>8. HonestSelector(s) = {First(R)}
  BY DEF HonestSelector
<1> HIDE DEF R
<1>9. First(R) \in R
  BY <1>7, FirstNumber
<1> DEFINE j == First(R)
<1>10. j \in 1 .. n /\ HonestRow(j).id = ClassOf(s) /\ HonestSelector(s) = {j}
  BY <1>8, <1>9 DEF R
<1> HIDE DEF j
<1>11. HonestRow(j).valid = 1
  <2>1. PICK m \in Used : HonestRow(j) = Row(m, EncodeClass(class_labels[m]), 1, ClassLeaf(m))
    BY <1>10, HonestRowIs
  <2> QED BY <2>1 DEF Row
<1> QED BY <1>10, <1>11

LEMMA WitnessIsGadget ==
  ASSUME TypeOK, NEW l, l.level \in Nat
  PROVE  PolicyWitness(EncodeUser(user), l, epoch) <=> PolicyGadget(EncodeUser(user), l, epoch)
<1>1. EncodeUser(user).clearance \in Nat
  BY UserAssumption DEF TypeOK, EncodeUser
<1> QED BY <1>1 DEF PolicyWitness, PolicyGadget

LEMMA HonestConstraints ==
  ASSUME TypeOK, Built, honest, TableLength \in Nat, Cardinality(Used) <= TableLength,
         rows = [j \in 1 .. TableLength |-> HonestRow(j)],
         bound = [s \in Slots |-> Binding(s)],
         selectors = [s \in Slots |-> HonestSelector(s)]
  PROVE  Constraints <=> ~ (0 \in DOMAIN class_labels /\ Cardinality(Used) < TableLength)
<1>1. Cardinality(Used) \in Nat
  BY UsedClasses
<1>2. ASSUME NEW s \in Slots PROVE BindingOk(s, bound[s])
  BY DEF BindingOk, BindingLeaves, Binding
<1>3. ASSUME NEW s \in Slots, Valid(s)
      PROVE  /\ MatchOk(s, selectors[s])
             /\ \A j \in selectors[s] : RowWitnessed(rows[j]) <=> RowVisible(rows[j])
  <2>1. PICK j \in 1 .. Cardinality(Used) :
               /\ HonestSelector(s) = {j} /\ HonestRow(j).id = ClassOf(s)
               /\ HonestRow(j).valid = 1
    BY <1>3, HonestSelects
  <2>2. j \in 1 .. TableLength /\ j \in Nat \ {0} /\ j <= Cardinality(Used)
    BY <1>1
  <2>3. rows[j] = HonestRow(j) /\ DOMAIN rows = 1 .. TableLength /\ selectors[s] = {j}
    BY <2>1, <2>2
  <2>4. bound[s].class = ClassOf(s)
    BY <1>3 DEF Binding
  <2>5. Cardinality({j}) = 1
    BY FS_Singleton
  <2>6. MatchOk(s, selectors[s])
    BY <1>3, <2>1, <2>2, <2>3, <2>4, <2>5 DEF MatchOk, Valid
  <2>7. HonestRow(j).label.level \in Nat
    BY <2>2, HonestRowOk
  <2>8. RowWitnessed(rows[j]) <=> RowVisible(rows[j])
    BY <2>3, <2>7, WitnessIsGadget DEF RowWitnessed, RowVisible
  <2> QED BY <2>3, <2>6, <2>8
<1>4. ASSUME NEW s \in Slots, ~ Valid(s) PROVE MatchOk(s, selectors[s])
  <2>1. selectors[s] = {} /\ grid[s].valid = 0
    BY <1>4, GridFacts DEF HonestSelector, Valid
  <2> QED BY <2>1, FS_EmptySet DEF MatchOk
<1>5. ASSUME NEW s \in Slots PROVE Witnessed(s) <=> Inherits(s)
  <2>1. CASE Valid(s)
    BY <1>3, <2>1 DEF Witnessed, Inherits
  <2>2. CASE ~ Valid(s)
    BY <2>2 DEF Witnessed, Inherits
  <2> QED BY <2>1, <2>2
<1>6. Constraints <=> \A j \in 1 .. TableLength : RowOk(HonestRow(j))
  <2>1. Constraints <=> \A j \in DOMAIN rows : RowOk(rows[j])
    BY <1>2, <1>3, <1>4, <1>5 DEF Constraints
  <2> QED BY <2>1
<1>7. ASSUME NEW j \in 1 .. TableLength
      PROVE  RowOk(HonestRow(j)) <=> j <= Cardinality(Used) \/ 0 \notin DOMAIN class_labels
  <2>1. j \in Nat \ {0} /\ (j <= Cardinality(Used) \/ j > Cardinality(Used))
    BY <1>1
  <2> QED BY <1>1, <2>1, HonestRowOk
<1>8. CASE Cardinality(Used) < TableLength
  <2>1. TableLength \in 1 .. TableLength /\ ~ (TableLength <= Cardinality(Used))
    BY <1>1, <1>8
  <2> QED BY <1>6, <1>7, <1>8, <2>1
<1>9. CASE ~ (Cardinality(Used) < TableLength)
  <2>1. \A j \in 1 .. TableLength : j <= Cardinality(Used)
    BY <1>1, <1>9
  <2> QED BY <1>6, <1>7, <1>9, <2>1
<1> QED BY <1>8, <1>9

-----------------------------------------------------------------------------
HonestWay ==
  /\ table_size \in TableSizes
  /\ pc \in Witnessing => Cardinality(Used) <= TableLength
  /\ pc \in {"prove", "proved", "failed"} /\ honest =>
       selectors = [s \in Slots |-> HonestSelector(s)]
  /\ HonestAccepted

LEMMA FrameKeepsTable ==
  ASSUME Frame
  PROVE  /\ Used' = Used /\ TableLength' = TableLength
         /\ \A s : HonestSelector(s)' = HonestSelector(s)
<1>1. \A s : Valid(s)' = Valid(s) /\ ClassOf(s)' = ClassOf(s)
  BY DEF Frame, Valid, ClassOf, Cid
<1>2. Used' = Used
  BY <1>1 DEF Used
<1>3. \A j : HonestRow(j)' = HonestRow(j)
  BY FrameKeeps
<1> QED BY <1>1, <1>2, <1>3, FrameKeeps DEF HonestSelector

LEMMA HonestWayStep == IInv /\ HonestWay /\ [Next]_vars => HonestWay'
<1> SUFFICES ASSUME IInv, HonestWay, [Next]_vars PROVE HonestWay'
  OBVIOUS
<1>1. table_size' \in TableSizes /\ honest' = honest
  BY DEF HonestWay, Next, Fixture, Score, Table, Bind, Select, Prove, vars, inputs
<1>2. CASE Fixture
  BY <1>1, <1>2 DEF Fixture, HonestWay, Witnessing, HonestAccepted
<1>3. CASE Score
  BY <1>1, <1>3 DEF Score, HonestWay, Witnessing, HonestAccepted
<1>4. CASE Table
  <2>1. Frame
    BY <1>4 DEF Table, Frame, inputs
  <2>2. pc' # "raised" => Cardinality(Used) <= TableLength
    <3>1. Built /\ TypeOK /\ pc = "table"
      BY <1>4 DEF IInv, Table
    <3>2. Cardinality(Used) \in Nat /\ TableLength \in Nat
      BY <3>1, UsedClasses, TableFits, SizeAssumption DEF HonestWay
    <3>3. pc' # "raised" => ~ (Cardinality(Used) > TableLength)
      BY <1>4 DEF Table
    <3> QED BY <3>2, <3>3
  <2>3. pc' \in {"bind", "raised"}
    BY <1>4 DEF Table
  <2> QED BY <1>1, <2>1, <2>2, <2>3, FrameKeepsTable DEF HonestWay, Witnessing, HonestAccepted
<1>5. CASE Bind
  <2>1. Frame /\ pc = "bind" /\ pc' = "select"
    BY <1>5 DEF Bind, Frame, inputs
  <2> QED BY <1>1, <2>1, FrameKeepsTable DEF HonestWay, Witnessing, HonestAccepted
<1>6. CASE Select
  <2>1. Frame /\ pc = "select" /\ pc' = "prove"
    BY <1>6 DEF Select, Frame, inputs
  <2>2. ASSUME honest
        PROVE  selectors' = [s \in Slots |-> HonestSelector(s)]
    <3>1. rows = [j \in 1 .. TableLength |-> HonestRow(j)] /\ Built /\ TypeOK
      BY <2>1, <2>2 DEF IInv, Witnessing
    <3>2. Cardinality(Used) <= TableLength /\ Cardinality(Used) \in Nat /\ TableLength \in Nat
      BY <2>1, <3>1, UsedClasses, TableFits, SizeAssumption DEF HonestWay, Witnessing
    <3>3. \A j \in 1 .. Cardinality(Used) : rows[j] = HonestRow(j)
      BY <3>1, <3>2
    <3>4. \A s : {j \in 1 .. Cardinality(Used) : rows[j].id = ClassOf(s)}
                   = {j \in 1 .. Cardinality(Used) : HonestRow(j).id = ClassOf(s)}
      BY <3>3
    <3>5. selectors' =
            [s \in Slots |-> IF Valid(s)
                             THEN {First({j \in 1 .. Cardinality(Used) : rows[j].id = ClassOf(s)})}
                             ELSE {}]
      BY <1>6, <2>2 DEF Select
    <3> QED BY <3>4, <3>5 DEF HonestSelector
  <2> QED BY <1>1, <2>1, <2>2, FrameKeepsTable DEF HonestWay, Witnessing, HonestAccepted
<1>7. CASE Prove
  <2>1. Frame /\ pc = "prove" /\ pc' \in {"proved", "failed"} /\ selectors' = selectors
        /\ (pc' = "failed" <=> ~ Constraints) /\ class_labels' = class_labels
    BY <1>7 DEF Prove, Frame, inputs
  <2>2. /\ Used' = Used /\ TableLength' = TableLength
        /\ \A s : HonestSelector(s)' = HonestSelector(s)
    BY <2>1, FrameKeepsTable
  <2>3. Cardinality(Used) <= TableLength
        /\ (honest => selectors = [s \in Slots |-> HonestSelector(s)])
    BY <2>1 DEF HonestWay, Witnessing
  <2>4. ASSUME honest
        PROVE  Constraints <=> ~ (0 \in DOMAIN class_labels /\ Cardinality(Used) < TableLength)
    <3>1. /\ rows = [j \in 1 .. TableLength |-> HonestRow(j)] /\ Built /\ TypeOK
          /\ bound = [s \in Slots |-> Binding(s)]
      BY <2>1, <2>4 DEF IInv, Witnessing
    <3>2. TableLength \in Nat
      BY <3>1, TableFits, SizeAssumption DEF HonestWay
    <3> QED BY <2>3, <2>4, <3>1, <3>2, HonestConstraints
  <2>5. HonestAccepted'
    BY <1>1, <2>1, <2>2, <2>4 DEF HonestAccepted
  <2> QED BY <1>1, <2>1, <2>2, <2>3, <2>5 DEF HonestWay
<1>8. CASE UNCHANGED vars
  <2>1. Frame /\ pc' = pc /\ selectors' = selectors /\ class_labels' = class_labels
    BY <1>8 DEF vars, inputs, Frame
  <2> QED BY <1>1, <2>1, FrameKeepsTable DEF HonestWay, HonestAccepted
<1> QED BY <1>2, <1>3, <1>4, <1>5, <1>6, <1>7, <1>8 DEF Next

(* The honest witness is accepted unless class 0 takes the place of the    *)
(* dummy that padding rows are opened with: it fails exactly then.         *)
THEOREM HonestAcceptedAlways == Spec => []HonestAccepted
<1>1. Init => HonestWay
  BY DEF Init, HonestWay, Witnessing, HonestAccepted
<1>2. HonestWay => HonestAccepted
  BY DEF HonestWay
<1> QED BY <1>1, <1>2, Invariant, HonestWayStep, PTL DEF Spec
=============================================================================
