--------------------------- MODULE Restarts_proofs ---------------------------
(***************************************************************************)
(* Proofs about two scripts that are killed and started again, and that    *)
(* decide from what is on disk what is left to do.  The first part is      *)
(* about CalibrationResume, the second about TexmexPrepare.                *)
(*                                                                         *)
(* With --skip-existing no (query, k) is ever appended twice (AtMostOnce): *)
(* the rows of the file are always among the `completed' keys of the       *)
(* running process, and a batch is made of keys that are not.              *)
(*                                                                         *)
(* As long as no write was cut, a run that returns 0 is complete           *)
(* (DoneIsComplete): a key the process has passed has a row, so a sum of   *)
(* rows over the keys of a summary line counts all of them.                *)
(***************************************************************************)
EXTENDS CalibrationResume, TexmexPrepare, TLAPS, FiniteSetTheorems, FunctionTheorems,
        WellFoundedInduction

(* The keys of `completed' cover the file, and the batch avoids them.      *)
CompletedCoversFile ==
  pc \in {"loop", "append"} => \A key \in Keys : rows[key] > 0 => key \in completed

BatchIsNew == batch \cap completed = {}

SkipsExisting == pc \in {"loop", "append"} => "skip_existing" \in args.flags

IInv == /\ TypeOK /\ AtMostOnce /\ CompletedCoversFile /\ BatchIsNew
        /\ SkipsExisting

(* What a reader sees of a batch is part of the batch.                     *)
LEMMA ReadableSubset == \A S : Readable(S) \subseteq S
BY DEF Readable

(* First of a nonempty set of keys is a member of it.                      *)
LEMMA FirstMember ==
  ASSUME NEW S, S \subseteq Keys, S # {}
  PROVE  First(S) \in S
<1> DEFINE T == {key[2] : key \in S}
<1>1. T \subseteq Nat /\ T # {}
  <2>1. \A key \in S : key[2] \in Ks
    BY DEF Keys
  <2>2. PICK key \in S : TRUE
    OBVIOUS
  <2>3. key[2] \in T
    OBVIOUS
  <2>4. T \subseteq Ks
    BY <2>1
  <2>5. Ks \subseteq Nat
    BY CalibrationAssumption
  <2> HIDE DEF T
  <2> QED
    BY <2>3, <2>4, <2>5
<1> HIDE DEF T
<1>2. PICK k \in T : \A other \in T : ~(<<other, k>> \in OpToRel(<, Nat))
  BY <1>1, NatLessThanWellFounded, WFMin, Zenon
<1>3. ASSUME NEW other \in T PROVE k <= other
  <2>1. k \in Nat /\ other \in Nat
    BY <1>1
  <2>2. other < k => <<other, k>> \in OpToRel(<, Nat)
    BY <2>1 DEF OpToRel
  <2>3. ~(other < k)
    BY <2>2, <1>2, Zenon
  <2> QED
    BY <2>1, <2>3
<1>4. \E key \in S : \A other \in S : key[2] <= other[2]
  BY <1>3 DEF T
<1> QED
  BY <1>4, Zenon DEF First

(* The types hold initially and every step keeps them.                     *)
LEMMA TypeStep == TypeOK /\ [Next]_vars => TypeOK'
<1> SUFFICES ASSUME TypeOK, [Next]_vars PROVE TypeOK'
  OBVIOUS
<1> USE DEF TypeOK
<1>1. ASSUME NEW given \in FlagChoices, NEW calib \in CalibrationSets,
             NEW ks \in KsChoices, Start(given, calib, ks)
      PROVE  TypeOK'
  <2>1. CompletedKeys \subseteq Keys
    BY DEF CompletedKeys
  <2> QED
    BY <1>1, <2>1, CalibrationAssumption DEF Start, LoadCompleted, file
<1>2. CASE Visit
  <2>1. PICK q \in left : /\ left' = left \ {q}
                          /\ batch' = {q} \X PendingKs(q)
                          /\ pc' = IF PendingKs(q) = {} THEN "loop" ELSE "append"
    BY <1>2 DEF Visit
  <2>2. PendingKs(q) \subseteq Ks /\ q \in Queries
    BY DEF PendingKs
  <2>3. batch' \subseteq Keys
    BY <2>1, <2>2 DEF Keys
  <2>4. ASSUME PendingKs(q) # {} PROVE batch' # {}
    <3>1. PICK k \in PendingKs(q) : TRUE
      BY <2>4
    <3>2. <<q, k>> \in batch'
      BY <2>1, <3>1
    <3> QED
      BY <3>2
  <2>5. ASSUME PendingKs(q) = {} PROVE batch' = {}
    BY <2>1, <2>5
  <2> QED
    BY <1>2, <2>1, <2>3, <2>4, <2>5 DEF Visit, file
<1>3. CASE AppendBatch
  <2>1. rows' \in [Keys -> Nat]
    BY <1>3 DEF AppendBatch, AddRows
  <2> QED
    BY <1>3, <2>1 DEF AppendBatch
<1>4. CASE AppendTorn
  <2>1. PICK whole \in SUBSET batch :
          /\ AddRows(whole)
          /\ tornKeys' \in {tornKeys, tornKeys \cup TornKey(whole)}
          /\ whole = batch => tornKeys' = tornKeys
          /\ malformed' \in BOOLEAN /\ openEnd' \in BOOLEAN
    BY <1>4 DEF AppendTorn
  <2>2. rows' \in [Keys -> Nat]
    BY <2>1 DEF AddRows
  <2>3. tornKeys' \subseteq Keys
    <3>1. CASE whole = batch
      BY <2>1, <3>1
    <3>2. CASE whole # batch
      <4>1. First(batch \ whole) \in batch \ whole
        BY <3>2, FirstMember
      <4> QED
        BY <2>1, <4>1 DEF TornKey
    <3> QED
      BY <3>1, <3>2
  <2> QED
    BY <1>4, <2>1, <2>2, <2>3 DEF AppendTorn
<1>5. CASE OpenMetrics \/ CloseMetrics \/ AggregateRows \/ CloseSummary \/ Kill
  BY <1>5 DEF OpenMetrics, CloseMetrics, AggregateRows, CloseSummary, Kill,
              file, memory
<1>6. CASE UNCHANGED vars
  BY <1>6 DEF vars, file, memory
<1> QED
  BY <1>1, <1>2, <1>3, <1>4, <1>5, <1>6 DEF Next, Step, StartAny

(* The files are missing and no process runs at first.                     *)
LEMMA TypeInit == Init => TypeOK
<1> SUFFICES ASSUME Init PROVE TypeOK
  OBVIOUS
<1>1. rows \in [Keys -> Nat]
  BY DEF Init
<1>2. args.calib = {} /\ args.ks = {}
  BY DEF Init
<1> QED
  BY <1>1, <1>2 DEF Init, TypeOK

(* Types are respected: the script keeps its files and sets well formed.   *)
THEOREM TypeCorrect == Spec => []TypeOK
BY TypeInit, TypeStep, PTL DEF Spec

(* A batch adds at most one row per key, and only for keys of the batch.   *)
LEMMA RowsAdded ==
  ASSUME TypeOK, NEW S \in SUBSET batch, AddRows(S)
  PROVE  \A key \in Keys : \/ rows'[key] = rows[key]
                           \/ key \in batch /\ rows'[key] = rows[key] + 1
BY ReadableSubset DEF TypeOK, AddRows

(* A key that is new to the process has no row in the file.                *)
LEMMA NewKeysHaveNoRow ==
  ASSUME TypeOK, CompletedCoversFile, BatchIsNew, pc = "append",
         NEW key \in batch
  PROVE  rows[key] = 0
BY DEF TypeOK, CompletedCoversFile, BatchIsNew

(* The inductive step: what a run appends is new, and what is in the file  *)
(* is in the `completed' set of the run.                                   *)
LEMMA IInvStep ==
  ASSUME \A given \in FlagChoices : "skip_existing" \in given
  PROVE  IInv /\ [Next]_vars => IInv'
<1> SUFFICES ASSUME IInv, [Next]_vars PROVE IInv'
  OBVIOUS
<1> USE DEF IInv
<1>0. TypeOK'
  BY TypeStep
<1>1. ASSUME NEW given \in FlagChoices, NEW calib \in CalibrationSets,
             NEW ks \in KsChoices, Start(given, calib, ks)
      PROVE  IInv'
  <2>1. given # {} /\ "skip_existing" \in given
    OBVIOUS
  <2>2. completed' = CompletedKeys /\ batch' = {} /\ rows' = rows
    BY <1>1, <2>1 DEF Start, LoadCompleted, file
  <2>3. args'.flags = given
    BY <1>1 DEF Start
  <2> QED
    BY <1>0, <2>1, <2>2, <2>3
       DEF AtMostOnce, CompletedCoversFile, BatchIsNew, SkipsExisting, CompletedKeys
<1>2. CASE Visit
  <2>1. PICK q \in left : batch' = {q} \X PendingKs(q)
    BY <1>2 DEF Visit
  <2>2. \A k \in PendingKs(q) : <<q, k>> \notin completed
    BY <1>2 DEF PendingKs, SkipsExisting, Visit
  <2>3. BatchIsNew'
    BY <1>2, <2>1, <2>2 DEF BatchIsNew, Visit
  <2> QED
    BY <1>0, <1>2, <2>3 DEF Visit, file, AtMostOnce, CompletedCoversFile, SkipsExisting
<1>3. CASE AppendBatch
  <2>1. AddRows(batch) /\ pc = "append"
    BY <1>3 DEF AppendBatch
  <2>2. \A key \in Keys : \/ rows'[key] = rows[key]
                          \/ key \in batch /\ rows'[key] = rows[key] + 1
    BY <2>1, RowsAdded
  <2>3. \A key \in batch : rows[key] = 0
    BY <2>1, NewKeysHaveNoRow
  <2>4. AtMostOnce'
    BY <2>2, <2>3 DEF AtMostOnce
  <2>5. CompletedCoversFile'
    BY <1>3, <2>2, <2>1 DEF CompletedCoversFile, AppendBatch
  <2> QED
    BY <1>0, <1>3, <2>4, <2>5 DEF AppendBatch, BatchIsNew, SkipsExisting
<1>4. CASE AppendTorn
  <2>1. PICK whole \in SUBSET batch : AddRows(whole)
    BY <1>4 DEF AppendTorn
  <2>2. \A key \in Keys : \/ rows'[key] = rows[key]
                          \/ key \in batch /\ rows'[key] = rows[key] + 1
    BY <2>1, RowsAdded
  <2>3. \A key \in batch : rows[key] = 0
    BY <1>4, NewKeysHaveNoRow DEF AppendTorn
  <2>4. AtMostOnce'
    BY <2>2, <2>3 DEF AtMostOnce
  <2> QED
    BY <1>0, <1>4, <2>4
       DEF AppendTorn, BatchIsNew, SkipsExisting, CompletedCoversFile
<1>5. CASE OpenMetrics \/ CloseMetrics \/ AggregateRows \/ CloseSummary \/ Kill
  BY <1>0, <1>5 DEF OpenMetrics, CloseMetrics, AggregateRows, CloseSummary, Kill,
     file, memory, AtMostOnce, BatchIsNew, SkipsExisting, CompletedCoversFile
<1>6. CASE UNCHANGED vars
  BY <1>0, <1>6 DEF vars, file, memory, AtMostOnce, BatchIsNew, SkipsExisting,
     CompletedCoversFile
<1> QED
  BY <1>1, <1>2, <1>3, <1>4, <1>5, <1>6 DEF Next, Step, StartAny

(* If every run is started with --skip-existing, a (query, k) never has    *)
(* two rows in the checkpoint, however runs are killed, cut and restarted. *)
THEOREM AtMostOnceWithSkipExisting ==
  ASSUME \A given \in FlagChoices : "skip_existing" \in given
  PROVE  Spec => []AtMostOnce
<1>1. Init => IInv
  <2> SUFFICES ASSUME Init PROVE IInv
    OBVIOUS
  <2>1. rows = [key \in Keys |-> 0] /\ pc = "down" /\ batch = {}
    BY DEF Init
  <2>2. TypeOK
    BY TypeInit
  <2> QED
    BY <2>1, <2>2
       DEF IInv, AtMostOnce, CompletedCoversFile, BatchIsNew, SkipsExisting
<1>2. IInv /\ [Next]_vars => IInv'
  BY IInvStep
<1>3. IInv => AtMostOnce
  BY DEF IInv
<1> QED
  BY <1>1, <1>2, <1>3, PTL DEF Spec

-----------------------------------------------------------------------------
(* As long as no write was cut the file ends with a line break.            *)
EndsWithLine == ~cut => ~openEnd

DiskInv == TypeOK /\ EndsWithLine /\ SkipsOnlyWhatIsOnDisk

(* Behind a file that ends with its line, a batch is readable as a whole.  *)
LEMMA BatchReachesDisk ==
  ASSUME TypeOK, ~openEnd, AddRows(batch)
  PROVE  \A key \in Keys :
           rows'[key] >= rows[key] /\ (key \in batch => rows'[key] > 0)
<1>1. Readable(batch) = batch
  BY DEF Readable
<1> QED
  BY <1>1 DEF TypeOK, AddRows

(* No step lets the process know of a key that a crash would lose.         *)
LEMMA DiskStep == DiskInv /\ [Next]_vars => DiskInv'
<1> SUFFICES ASSUME DiskInv, [Next]_vars PROVE DiskInv'
  OBVIOUS
<1>0. TypeOK /\ TypeOK'
  BY TypeStep DEF DiskInv
<1> USE DEF DiskInv
<1>1. ASSUME NEW given \in FlagChoices, NEW calib \in CalibrationSets,
             NEW ks \in KsChoices, Start(given, calib, ks)
      PROVE  DiskInv'
  <2>1. CompletedKeys' = CompletedKeys /\ UNCHANGED <<cut, openEnd>>
    BY <1>1 DEF Start, file, CompletedKeys
  <2>2. completed' \subseteq CompletedKeys
    BY <1>1 DEF Start, LoadCompleted
  <2> QED
    BY <1>0, <2>1, <2>2 DEF EndsWithLine, SkipsOnlyWhatIsOnDisk
<1>2. CASE Visit
  <2>1. CompletedKeys' = CompletedKeys /\ UNCHANGED <<cut, openEnd, completed>>
    BY <1>2 DEF Visit, file, CompletedKeys
  <2>2. pc = "loop"
    BY <1>2 DEF Visit
  <2> QED
    BY <1>0, <2>1, <2>2 DEF EndsWithLine, SkipsOnlyWhatIsOnDisk
<1>3. CASE AppendBatch
  <2>1. /\ pc = "append" /\ AddRows(batch) /\ openEnd' = FALSE
        /\ completed' = completed \cup batch /\ UNCHANGED <<tornKeys, cut>>
    BY <1>3 DEF AppendBatch
  <2>2. ASSUME ~cut PROVE completed' \subseteq CompletedKeys'
    <3>1. completed \subseteq CompletedKeys
      BY <2>1, <2>2 DEF SkipsOnlyWhatIsOnDisk
    <3>2. \A key \in Keys : rows'[key] >= rows[key] /\ (key \in batch => rows'[key] > 0)
      BY <2>1, <2>2, BatchReachesDisk DEF EndsWithLine
    <3>3. rows \in [Keys -> Nat] /\ rows' \in [Keys -> Nat] /\ batch \subseteq Keys
      BY <1>0 DEF TypeOK
    <3>4. CompletedKeys \subseteq CompletedKeys'
      BY <2>1, <3>2, <3>3 DEF CompletedKeys
    <3>5. batch \subseteq CompletedKeys'
      BY <3>2, <3>3 DEF CompletedKeys
    <3> QED
      BY <2>1, <3>1, <3>4, <3>5
  <2> QED
    BY <1>0, <2>1, <2>2 DEF EndsWithLine, SkipsOnlyWhatIsOnDisk
<1>4. CASE AppendTorn
  BY <1>0, <1>4 DEF AppendTorn, EndsWithLine, SkipsOnlyWhatIsOnDisk
<1>5. CASE OpenMetrics \/ CloseMetrics \/ AggregateRows \/ CloseSummary \/ Kill
  BY <1>0, <1>5 DEF OpenMetrics, CloseMetrics, AggregateRows, CloseSummary, Kill,
     file, memory, EndsWithLine, SkipsOnlyWhatIsOnDisk, CompletedKeys
<1>6. CASE UNCHANGED vars
  BY <1>0, <1>6 DEF vars, file, memory, EndsWithLine, SkipsOnlyWhatIsOnDisk,
     CompletedKeys
<1> QED
  BY <1>1, <1>2, <1>3, <1>4, <1>5, <1>6 DEF Next, Step, StartAny

(* Whatever the flags: what a running process will skip is in the file, so *)
(* a kill loses nothing but the batch being evaluated (append_csv before   *)
(* completed.add).                                                         *)
THEOREM NothingIsSkippedUnwritten == Spec => []SkipsOnlyWhatIsOnDisk
<1>1. Init => DiskInv
  BY TypeInit DEF Init, DiskInv, EndsWithLine, SkipsOnlyWhatIsOnDisk
<1>2. DiskInv /\ [Next]_vars => DiskInv'
  BY DiskStep
<1>3. DiskInv => SkipsOnlyWhatIsOnDisk
  BY DEF DiskInv
<1> QED
  BY <1>1, <1>2, <1>3, PTL DEF Spec

-----------------------------------------------------------------------------
(***************************************************************************)
(* A calibration that returns 0 is complete.  Two parts: a key the loop    *)
(* went past has a row (it was evaluated, or skipped since it had one),    *)
(* and the sum of the rows of a group is at least the number of its keys   *)
(* that have a row.  The fold that sums is a recursive function; that it   *)
(* exists, and what it is bounded by, are shown for ever larger subsets by *)
(* looking at the least size where that would fail.                        *)
(***************************************************************************)
Pick(s) == CHOOSE x \in s : TRUE

SumStep(f, h, s) == IF s = {} THEN 0 ELSE f[Pick(s)] + h[s \ {Pick(s)}]

Sums(S, f, h) == h = [s \in SUBSET S |-> SumStep(f, h, s)]

LEMMA LeastNatural ==
  ASSUME NEW T, T \subseteq Nat, T # {}
  PROVE  \E m \in T : \A n \in T : m <= n
<1>1. PICK m \in T : \A n \in T : ~ (<<n, m>> \in OpToRel(<, Nat))
  BY NatLessThanWellFounded, WFMin, Zenon
<1>2. \A n \in T : m <= n
  <2> TAKE n \in T
  <2>1. m \in Nat /\ n \in Nat
    OBVIOUS
  <2>2. ~ (n < m)
    BY <1>1, <2>1 DEF OpToRel
  <2> QED BY <2>1, <2>2
<1> QED BY <1>2

LEMMA OneLess ==
  ASSUME NEW s, IsFiniteSet(s), s # {}
  PROVE  /\ Pick(s) \in s /\ IsFiniteSet(s \ {Pick(s)})
         /\ Cardinality(s) \in Nat \ {0}
         /\ Cardinality(s \ {Pick(s)}) = Cardinality(s) - 1
<1>1. Pick(s) \in s
  BY DEF Pick
<1>2. Cardinality(s) \in Nat /\ Cardinality(s) # 0
  BY FS_CardinalityType, FS_EmptySet
<1> QED BY <1>1, <1>2, FS_RemoveElement

LEMMA SumExists ==
  ASSUME NEW S, IsFiniteSet(S), NEW f
  PROVE  \E h : Sums(S, f, h)
<1> DEFINE Level(n) == {s \in SUBSET S : Cardinality(s) <= n}
           Built(n) == \E h : h = [s \in Level(n) |-> SumStep(f, h, s)]
           bad == {n \in Nat : ~ Built(n)}
<1>1. \A s \in SUBSET S : IsFiniteSet(s) /\ Cardinality(s) \in Nat
  BY FS_Subset, FS_CardinalityType
<1>2. Built(0)
  <2> DEFINE h == [s \in Level(0) |-> 0]
  <2>1. \A s \in Level(0) : s = {}
    <3> TAKE s \in Level(0)
    <3>1. Cardinality(s) = 0
      BY <1>1
    <3> QED BY <1>1, <3>1, FS_EmptySet
  <2> HIDE DEF Level
  <2>2. \A g : \A s \in Level(0) : SumStep(f, g, s) = 0
    BY <2>1 DEF SumStep
  <2>3. h = [s \in Level(0) |-> SumStep(f, h, s)]
    BY <2>2
  <2> QED BY <2>3
<1>3. ASSUME NEW m \in Nat, Built(m) PROVE Built(m + 1)
  <2>1. PICK g : g = [s \in Level(m) |-> SumStep(f, g, s)]
    BY <1>3
  <2> DEFINE h == [s \in Level(m + 1) |-> SumStep(f, g, s)]
  <2>2. Level(m) \subseteq Level(m + 1)
    BY <1>1
  <2>3. \A s \in Level(m + 1) : s # {} => s \ {Pick(s)} \in Level(m)
    <3> SUFFICES ASSUME NEW s \in Level(m + 1), s # {}
                 PROVE  s \ {Pick(s)} \in Level(m)
      OBVIOUS
    <3>1. IsFiniteSet(s) /\ Cardinality(s) \in Nat /\ Cardinality(s) <= m + 1
      BY <1>1
    <3>2. Cardinality(s \ {Pick(s)}) = Cardinality(s) - 1
      BY <3>1, OneLess
    <3> QED BY <3>1, <3>2
  <2> HIDE DEF Level
  <2>4. \A s \in Level(m) : h[s] = g[s]
    BY <2>1, <2>2
  <2>5. \A s \in Level(m + 1) : SumStep(f, g, s) = SumStep(f, h, s)
    <3> HIDE DEF h
    <3> QED BY <2>3, <2>4 DEF SumStep
  <2>6. h = [s \in Level(m + 1) |-> SumStep(f, h, s)]
    <3> DEFINE k == [s \in Level(m + 1) |-> SumStep(f, h, s)]
    <3>1. DOMAIN h = DOMAIN k /\ \A s \in Level(m + 1) : h[s] = k[s]
      BY <2>5
    <3>2. h = k
      BY <3>1
    <3> QED BY <3>2
  <2> QED BY <2>6
<1> HIDE DEF Built
<1>4. bad = {}
  <2> SUFFICES ASSUME bad # {} PROVE FALSE
    OBVIOUS
  <2>1. PICK n \in bad : \A k \in bad : n <= k
    BY LeastNatural
  <2>2. n # 0
    BY <1>2
  <2>3. n - 1 \in Nat /\ n - 1 \notin bad
    BY <2>1, <2>2
  <2>4. Built(n - 1 + 1)
    BY <1>3, <2>3
  <2>5. n - 1 + 1 = n
    OBVIOUS
  <2> QED BY <2>4, <2>5
<1>5. Cardinality(S) \in Nat
  BY FS_CardinalityType
<1>6. Built(Cardinality(S))
  BY <1>4, <1>5
<1>7. Level(Cardinality(S)) = SUBSET S
  <2>1. \A s \in SUBSET S : Cardinality(s) <= Cardinality(S)
    BY FS_Subset
  <2> QED BY <2>1
<1> HIDE DEF Level
<1> QED BY <1>6, <1>7 DEF Built, Sums

(* A sum of numbers is at least the number of those that are not 0.        *)
LEMMA SumCounts ==
  ASSUME NEW S, IsFiniteSet(S), NEW f, \A x \in S : f[x] \in Nat,
         NEW h, Sums(S, f, h)
  PROVE  h[S] \in Nat /\ h[S] >= Cardinality({x \in S : f[x] > 0})
<1>0. h = [s \in SUBSET S |-> SumStep(f, h, s)]
  BY DEF Sums
<1> DEFINE rest(s) == s \ {Pick(s)}
           some(s) == {x \in s : f[x] > 0}
           Good(s) == h[s] \in Nat /\ h[s] >= Cardinality(some(s))
           bad == {s \in SUBSET S : ~ Good(s)}
           sizes == {Cardinality(s) : s \in bad}
<1>1. \A s \in SUBSET S : IsFiniteSet(s) /\ Cardinality(s) \in Nat
  BY FS_Subset, FS_CardinalityType
<1>2. Good({})
  <2>1. h[{}] = 0
    BY <1>0 DEF SumStep
  <2>2. some({}) = {} /\ Cardinality({}) = 0
    BY FS_EmptySet
  <2> QED BY <2>1, <2>2
<1>3. ASSUME NEW s \in SUBSET S, s # {}, Good(rest(s)) PROVE Good(s)
  <2> DEFINE x == Pick(s)
             r == rest(s)
  <2>1. x \in s /\ x \in S /\ r \in SUBSET S
    BY <1>1, <1>3, OneLess
  <2>2. h[s] = f[x] + h[r]
    BY <1>0, <1>3 DEF SumStep
  <2>3. f[x] \in Nat /\ h[r] \in Nat /\ h[r] >= Cardinality(some(r))
    BY <1>3, <2>1
  <2>4. IsFiniteSet(some(r)) /\ Cardinality(some(r)) \in Nat
    <3>1. some(r) \in SUBSET S
      BY <2>1
    <3> HIDE DEF some, r
    <3> QED BY <1>1, <3>1
  <2>5. CASE f[x] > 0
    <3>1. some(s) = some(r) \cup {x} /\ x \notin some(r)
      BY <2>1, <2>5
    <3> HIDE DEF some, r, x
    <3>2. Cardinality(some(s)) = Cardinality(some(r)) + 1
      BY <2>4, <3>1, FS_AddElement
    <3> QED BY <2>2, <2>3, <2>4, <2>5, <3>2
  <2>6. CASE ~ (f[x] > 0)
    <3>1. some(s) = some(r)
      BY <2>1, <2>6
    <3> HIDE DEF some, r, x
    <3> QED BY <2>2, <2>3, <2>4, <2>6, <3>1
  <2> QED BY <2>5, <2>6
<1> HIDE DEF Good
<1>4. bad = {}
  <2> SUFFICES ASSUME bad # {} PROVE FALSE
    OBVIOUS
  <2>1. sizes \subseteq Nat /\ sizes # {}
    BY <1>1
  <2>2. PICK n \in sizes : \A k \in sizes : n <= k
    <3> HIDE DEF sizes
    <3> QED BY <2>1, LeastNatural
  <2>3. PICK s \in bad : Cardinality(s) = n
    BY <2>2
  <2>4. s # {}
    BY <1>2, <2>3
  <2>5. /\ IsFiniteSet(s) /\ Cardinality(rest(s)) = Cardinality(s) - 1
        /\ rest(s) \in SUBSET S
    BY <1>1, <2>3, <2>4, OneLess
  <2>6. rest(s) \notin bad
    <3> SUFFICES ASSUME rest(s) \in bad PROVE FALSE
      OBVIOUS
    <3>1. Cardinality(rest(s)) \in sizes
      OBVIOUS
    <3>2. Cardinality(s) <= Cardinality(s) - 1 /\ Cardinality(s) \in Nat
      BY <1>1, <2>2, <2>3, <2>5, <3>1
    <3> QED BY <3>2
  <2>7. Good(s)
    BY <1>3, <2>4, <2>5, <2>6
  <2> QED BY <2>3, <2>7
<1>5. Good(S)
  BY <1>4
<1> QED BY <1>5 DEF Good

LEMMA FoldCounts ==
  ASSUME NEW S, IsFiniteSet(S), NEW f, \A x \in S : f[x] \in Nat
  PROVE  /\ FoldFunctionOnSet(+, 0, f, S) \in Nat
         /\ FoldFunctionOnSet(+, 0, f, S) >= Cardinality({x \in S : f[x] > 0})
<1> DEFINE sum == CHOOSE h : Sums(S, f, h)
<1>1. Sums(S, f, sum)
  BY SumExists, Zenon
<1>2. FoldFunctionOnSet(+, 0, f, S) = sum[S]
  BY Zenon DEF FoldFunctionOnSet, MapThenFoldSet, Sums, SumStep, Pick
<1> HIDE DEF sum
<1>3. sum[S] \in Nat /\ sum[S] >= Cardinality({x \in S : f[x] > 0})
  BY <1>1, SumCounts
<1> QED BY <1>2, <1>3, Zenon

-----------------------------------------------------------------------------
NothingTorn == ~cut => tornKeys = {}

HasRow(key) == rows[key] > 0

(* What the loop went past is in the file, or in the batch at hand.        *)
PassedHasRows ==
  pc \in {"loop", "append"} /\ ~cut =>
    \A q \in args.calib \ left, k \in args.ks : <<q, k>> \in batch \/ HasRow(<<q, k>>)

AllHaveRows ==
  pc \in {"metrics", "aggregate", "summary", "done"} /\ ~cut =>
    \A q \in args.calib, k \in args.ks : HasRow(<<q, k>>)

FilesAreCopies ==
  /\ pc \in {"aggregate", "summary", "done"} => metrics = [state |-> "whole", rows |-> rows]
  /\ pc = "done" => summary = [state |-> "whole", num_queries |-> Aggregate]

CInv == DiskInv /\ NothingTorn /\ PassedHasRows /\ AllHaveRows /\ FilesAreCopies

LEMMA SameAggregate ==
  ASSUME rows' = rows PROVE Aggregate' = Aggregate
<1> DEFINE Of(r) ==
             [gk \in Groups \X Ks |->
                FoldFunctionOnSet(+, 0, r,
                  {key \in Keys : Group[key[1]] = gk[1] /\ key[2] = gk[2]})]
<1>1. Aggregate = Of(rows)
  BY Zenon DEF Aggregate, FoldFunctionOnSet, MapThenFoldSet
<1>2. Aggregate' = Of(rows')
  BY Zenon DEF Aggregate, FoldFunctionOnSet, MapThenFoldSet
<1> HIDE DEF Of
<1> QED BY <1>1, <1>2

LEMMA CStepVisit ==
  ASSUME CInv, Visit, DiskInv' PROVE CInv'
<1>1. /\ pc = "loop" /\ pc' \in {"loop", "append"}
      /\ UNCHANGED <<rows, tornKeys, cut, args, completed>>
  BY DEF Visit, file
<1>2. PICK q \in left : left' = left \ {q} /\ batch' = {q} \X PendingKs(q)
  BY DEF Visit
<1>3. batch = {} /\ rows \in [Keys -> Nat] /\ args.calib \subseteq Queries
      /\ args.ks \subseteq Ks /\ left \subseteq args.calib
  BY <1>1 DEF CInv, DiskInv, TypeOK
<1>4. ASSUME ~cut, NEW p \in args.calib \ left', NEW k \in args.ks
      PROVE  <<p, k>> \in batch' \/ HasRow(<<p, k>>)
  <2>1. CASE p # q
    <3>1. p \in args.calib \ left
      BY <1>2, <1>4, <2>1
    <3> QED BY <1>1, <1>3, <1>4, <3>1 DEF CInv, PassedHasRows
  <2>2. CASE p = q /\ k \in PendingKs(q)
    BY <1>2, <2>2
  <2>3. CASE p = q /\ k \notin PendingKs(q)
    <3>1. <<p, k>> \in completed
      BY <1>4, <2>3 DEF PendingKs
    <3>2. <<p, k>> \in CompletedKeys /\ tornKeys = {}
      BY <1>1, <1>4, <3>1 DEF CInv, DiskInv, SkipsOnlyWhatIsOnDisk, NothingTorn
    <3> QED BY <3>2 DEF CompletedKeys, HasRow
  <2> QED BY <2>1, <2>2, <2>3
<1> QED BY <1>1, <1>4 DEF CInv, NothingTorn, PassedHasRows, AllHaveRows, FilesAreCopies,
           HasRow

LEMMA CStepAppend ==
  ASSUME CInv, AppendBatch, DiskInv' PROVE CInv'
<1>1. /\ pc = "append" /\ pc' = "loop" /\ AddRows(batch)
      /\ UNCHANGED <<tornKeys, cut, args, left>>
  BY DEF AppendBatch
<1>2. ASSUME ~cut, NEW q \in args.calib \ left, NEW k \in args.ks
      PROVE  HasRow(<<q, k>>)'
  <2>1. <<q, k>> \in Keys
    BY DEF CInv, DiskInv, TypeOK, Keys
  <2>2. <<q, k>> \in batch \/ rows[<<q, k>>] > 0
    BY <1>1, <1>2 DEF CInv, PassedHasRows, HasRow
  <2>3. TypeOK /\ ~ openEnd
    BY <1>2 DEF CInv, DiskInv, EndsWithLine
  <2> DEFINE key == <<q, k>>
  <2>4. rows'[key] >= rows[key] /\ (key \in batch => rows'[key] > 0)
    BY <1>1, <2>1, <2>3, BatchReachesDisk
  <2>5. rows[key] \in Nat /\ rows'[key] \in Nat
    BY <2>1 DEF CInv, DiskInv, TypeOK
  <2>6. key \in batch \/ rows[key] > 0
    BY <2>2
  <2> HIDE DEF key
  <2>7. rows'[key] > 0
    BY <2>4, <2>5, <2>6
  <2> QED BY <2>7 DEF key, HasRow
<1> QED BY <1>1, <1>2 DEF CInv, NothingTorn, PassedHasRows, AllHaveRows, FilesAreCopies

LEMMA CStepMetrics ==
  ASSUME CInv, OpenMetrics \/ CloseMetrics, DiskInv' PROVE CInv'
<1>1. UNCHANGED <<rows, tornKeys, cut, args, left, batch>>
  BY DEF OpenMetrics, CloseMetrics, file, memory
<1>2. CASE OpenMetrics
  <2>1. pc = "loop" /\ left = {} /\ pc' = "metrics" /\ batch = {}
    BY <1>2 DEF OpenMetrics, CInv, DiskInv, TypeOK
  <2>2. ~cut => \A q \in args.calib, k \in args.ks : HasRow(<<q, k>>)
    BY <2>1 DEF CInv, PassedHasRows
  <2> QED BY <1>1, <2>1, <2>2
         DEF CInv, NothingTorn, PassedHasRows, AllHaveRows, FilesAreCopies, HasRow
<1>3. CASE CloseMetrics
  <2>1. /\ pc = "metrics" /\ pc' = "aggregate"
        /\ metrics' = [state |-> "whole", rows |-> rows]
    BY <1>3 DEF CloseMetrics
  <2> QED BY <1>1, <2>1
         DEF CInv, NothingTorn, PassedHasRows, AllHaveRows, FilesAreCopies, HasRow
<1> QED BY <1>2, <1>3

LEMMA CStepSummary ==
  ASSUME CInv, AggregateRows \/ CloseSummary, DiskInv' PROVE CInv'
<1>1. UNCHANGED <<rows, tornKeys, cut, args, metrics>>
  BY DEF AggregateRows, CloseSummary, file, memory
<1>2. CASE AggregateRows
  <2>1. pc = "aggregate" /\ pc' \in {"summary", "failed"}
    BY <1>2 DEF AggregateRows
  <2> QED BY <1>1, <2>1
         DEF CInv, NothingTorn, PassedHasRows, AllHaveRows, FilesAreCopies, HasRow
<1>3. CASE CloseSummary
  <2>1. /\ pc = "summary" /\ pc' = "done"
        /\ summary' = [state |-> "whole", num_queries |-> Aggregate]
    BY <1>3 DEF CloseSummary
  <2>2. Aggregate' = Aggregate
    BY <1>1, SameAggregate
  <2> QED BY <1>1, <2>1, <2>2
         DEF CInv, NothingTorn, PassedHasRows, AllHaveRows, FilesAreCopies, HasRow
<1> QED BY <1>2, <1>3

LEMMA CStep == CInv /\ [Next]_vars => CInv'
<1> SUFFICES ASSUME CInv, [Next]_vars PROVE CInv'
  OBVIOUS
<1>0. DiskInv'
  BY DiskStep DEF CInv
<1>1. ASSUME NEW given \in FlagChoices, NEW calib \in CalibrationSets,
             NEW ks \in KsChoices, Start(given, calib, ks)
      PROVE  CInv'
  <2>1. /\ pc' = "loop" /\ left' = calib /\ args'.calib = calib
        /\ UNCHANGED <<tornKeys, cut>>
    BY <1>1 DEF Start, file
  <2> QED BY <1>0, <2>1 DEF CInv, NothingTorn, PassedHasRows, AllHaveRows, FilesAreCopies
<1>2. CASE Visit
  BY <1>0, <1>2, CStepVisit
<1>3. CASE AppendBatch
  BY <1>0, <1>3, CStepAppend
<1>4. CASE AppendTorn
  <2>1. cut' = TRUE /\ pc' = "failed"
    BY <1>4 DEF AppendTorn
  <2> QED BY <1>0, <2>1 DEF CInv, NothingTorn, PassedHasRows, AllHaveRows, FilesAreCopies
<1>5. CASE OpenMetrics \/ CloseMetrics
  BY <1>0, <1>5, CStepMetrics
<1>6. CASE AggregateRows \/ CloseSummary
  BY <1>0, <1>6, CStepSummary
<1>7. CASE Kill
  <2>1. pc' = "down" /\ UNCHANGED <<tornKeys, cut>>
    BY <1>7 DEF Kill, file
  <2> QED BY <1>0, <2>1 DEF CInv, NothingTorn, PassedHasRows, AllHaveRows, FilesAreCopies
<1>8. CASE UNCHANGED vars
  <2>1. UNCHANGED <<rows, tornKeys, cut, args, left, batch, metrics, summary, pc>>
    BY <1>8 DEF vars, file, memory
  <2>2. Aggregate' = Aggregate
    BY <2>1, SameAggregate
  <2> QED BY <1>0, <2>1, <2>2
         DEF CInv, NothingTorn, PassedHasRows, AllHaveRows, FilesAreCopies, HasRow
<1> QED
  BY <1>1, <1>2, <1>3, <1>4, <1>5, <1>6, <1>7, <1>8 DEF Next, Step, StartAny

(* The entry of a group and a k counts a row for each of its queries.      *)
LEMMA SummaryCounts ==
  ASSUME TypeOK, NEW g \in Groups, NEW k \in args.ks,
         \A q \in args.calib : HasRow(<<q, k>>)
  PROVE  Aggregate[<<g, k>>] >= Cardinality({q \in args.calib : Group[q] = g})
<1> DEFINE K == {key \in Keys : Group[key[1]] = g /\ key[2] = k}
           written == {key \in K : rows[key] > 0}
           asked == {q \in args.calib : Group[q] = g}
<1>1. k \in Ks /\ args.calib \subseteq Queries /\ rows \in [Keys -> Nat]
  BY DEF TypeOK
<1>2. Aggregate[<<g, k>>] = FoldFunctionOnSet(+, 0, rows, K)
  <2>1. <<g, k>> \in Groups \X Ks /\ <<g, k>>[1] = g /\ <<g, k>>[2] = k
    BY <1>1
  <2> QED BY <2>1, Zenon DEF Aggregate
<1>3. IsFiniteSet(K) /\ IsFiniteSet(written)
  <2>1. IsFiniteSet(Keys)
    BY CalibrationAssumption, FS_Product DEF Keys
  <2>2. K \in SUBSET Keys /\ written \in SUBSET Keys
    OBVIOUS
  <2> HIDE DEF K, written
  <2> QED BY <2>1, <2>2, FS_Subset
<1>4. FoldFunctionOnSet(+, 0, rows, K) \in Nat
      /\ FoldFunctionOnSet(+, 0, rows, K) >= Cardinality(written)
  <2>1. \A key \in K : rows[key] \in Nat
    BY <1>1
  <2> HIDE DEF K
  <2> QED BY <1>3, <2>1, FoldCounts
<1>5. IsFiniteSet(asked)
  <2>1. asked \in SUBSET Queries /\ IsFiniteSet(Queries)
    BY <1>1, CalibrationAssumption
  <2> HIDE DEF asked
  <2> QED BY <2>1, FS_Subset
<1> DEFINE f == [q \in asked |-> <<q, k>>]
<1>6. f \in Injection(asked, written)
  <2>1. \A q \in asked : <<q, k>> \in written
    <3> TAKE q \in asked
    <3>1. <<q, k>> \in Keys /\ <<q, k>>[1] = q /\ <<q, k>>[2] = k
      BY <1>1 DEF Keys
    <3>2. rows[<<q, k>>] > 0
      BY DEF HasRow
    <3> QED BY <3>1, <3>2
  <2> HIDE DEF asked, written
  <2>2. f \in [asked -> written]
    BY <2>1
  <2>3. \A p, q \in asked : f[p] = f[q] => p = q
    OBVIOUS
  <2> QED BY <2>2, <2>3 DEF Injection, IsInjective
<1> HIDE DEF f, asked, written
<1>7. Cardinality(asked) <= Cardinality(written)
  BY <1>3, <1>5, <1>6, FS_Injection
<1>8. Cardinality(asked) \in Nat /\ Cardinality(written) \in Nat
  BY <1>3, <1>5, FS_CardinalityType
<1> DEFINE total == FoldFunctionOnSet(+, 0, rows, K)
<1>9. Aggregate[<<g, k>>] = total /\ total \in Nat /\ total >= Cardinality(written)
  BY <1>2, <1>4, Zenon
<1> HIDE DEF total
<1>10. Aggregate[<<g, k>>] >= Cardinality(asked)
  BY <1>7, <1>8, <1>9
<1> QED BY <1>10 DEF asked

(* A run that returns 0 is complete, whatever was killed before it and     *)
(* whatever its flags skip, as long as no write was cut: every key it was  *)
(* asked for has a row, the metrics are those rows, and the summary counts *)
(* every query.  (main, append_csv, aggregate_checkpoint_rows)             *)
THEOREM ReturnedRunsAreComplete == Spec => []DoneIsComplete
<1>1. Init => CInv
  BY TypeInit DEF Init, CInv, DiskInv, EndsWithLine, SkipsOnlyWhatIsOnDisk, NothingTorn,
     PassedHasRows, AllHaveRows, FilesAreCopies
<1>2. CInv /\ [Next]_vars => CInv'
  BY CStep
<1>3. CInv => DoneIsComplete
  <2> SUFFICES ASSUME CInv, pc = "done", ~cut
               PROVE  /\ args.calib \X args.ks \subseteq {key \in Keys : rows[key] > 0}
                      /\ metrics = [state |-> "whole", rows |-> rows]
                      /\ \A g \in Groups, k \in args.ks :
                           summary.num_queries[<<g, k>>] >=
                             Cardinality({q \in args.calib : Group[q] = g})
    BY DEF DoneIsComplete
  <2>1. TypeOK /\ metrics = [state |-> "whole", rows |-> rows]
        /\ summary.num_queries = Aggregate
    BY DEF CInv, DiskInv, FilesAreCopies
  <2>2. \A q \in args.calib, k \in args.ks : HasRow(<<q, k>>)
    BY DEF CInv, AllHaveRows
  <2>3. args.calib \X args.ks \subseteq {key \in Keys : rows[key] > 0}
    BY <2>1, <2>2 DEF TypeOK, Keys, HasRow
  <2>4. \A g \in Groups, k \in args.ks :
          Aggregate[<<g, k>>] >= Cardinality({q \in args.calib : Group[q] = g})
    BY <2>1, <2>2, SummaryCounts
  <2> QED BY <2>1, <2>3, <2>4
<1> QED
  BY <1>1, <1>2, <1>3, PTL DEF Spec

-----------------------------------------------------------------------------
(* Datasets, and how they get there.                                       *)
TexmexType ==
  /\ tree \in [Roles -> {"none", "partial", "whole"}]
  /\ root \in [Roles -> {"none", "link", "regular"}]
  /\ source \in {"ftp", "http"}
  /\ risks = [kinds |-> risks.kinds, left |-> risks.left]

Calm   == risks.kinds \cap UnfinishedTransfers = {}
Untorn == risks.kinds \cap TornExtractions = {}

FirstPieces(n) == [i \in 1 .. n |-> i]

(* If no transfer is left unfinished at the end of a run, an archive at    *)
(* rest is empty or whole; one that is received grows in order.            *)
InOrder ==
  /\ phase = "receive" => piece \in 1 .. Pieces + 1 /\ archive = FirstPieces(piece - 1)
  /\ phase = "connect" => \E n \in 0 .. Pieces : archive = FirstPieces(n)
  /\ phase = "extract" => archive = Body
  /\ phase \notin {"receive", "connect", "extract"} => archive \in {<<>>, Body}

(* If no extraction is cut, a file in part is the one being written, and   *)
(* what it is written from is whole.                                       *)
OnlyOpenIsPartial ==
  /\ \A r \in Roles : tree[r] = "partial" => phase = "members" /\ r \in open
  /\ phase = "members" => archive = Body

TInv == TexmexType /\ (Calm => InOrder) /\ (Untorn => OnlyOpenIsPartial)

(* Sequences are what their elements make them; pieces are numbered.       *)
LEMMA SameSequence ==
  ASSUME NEW S, NEW s \in Seq(S), NEW t \in Seq(S), Len(s) = Len(t),
         \A i \in 1 .. Len(s) : s[i] = t[i]
  PROVE  s = t
OBVIOUS

LEMMA PiecesInOrder ==
  ASSUME TexmexAssumption
  PROVE  /\ Pieces \in Nat \ {0}
         /\ FirstPieces(0) = <<>> /\ Body = FirstPieces(Pieces)
         /\ \A n \in Nat : /\ Len(FirstPieces(n)) = n
                           /\ Append(FirstPieces(n), n + 1) = FirstPieces(n + 1)
<1>1. Pieces \in Nat \ {0}
  BY DEF TexmexAssumption
<1>2. FirstPieces(0) = <<>>
  BY DEF FirstPieces
<1>3. Body = FirstPieces(Pieces)
  BY DEF Body, FirstPieces
<1>4. ASSUME NEW n \in Nat
      PROVE  /\ Len(FirstPieces(n)) = n
             /\ Append(FirstPieces(n), n + 1) = FirstPieces(n + 1)
  <2>1. FirstPieces(n) \in Seq(Nat) /\ Len(FirstPieces(n)) = n
    BY DEF FirstPieces
  <2>2. FirstPieces(n + 1) \in Seq(Nat) /\ Len(FirstPieces(n + 1)) = n + 1
    BY DEF FirstPieces
  <2>3. \A i \in 1 .. n + 1 : Append(FirstPieces(n), n + 1)[i] = FirstPieces(n + 1)[i]
    BY <2>1 DEF FirstPieces
  <2>4. /\ Append(FirstPieces(n), n + 1) \in Seq(Nat)
        /\ Len(Append(FirstPieces(n), n + 1)) = n + 1
    BY <2>1
  <2>5. Append(FirstPieces(n), n + 1) = FirstPieces(n + 1)
    <3> HIDE DEF FirstPieces
    <3> QED BY <2>2, <2>3, <2>4, SameSequence
  <2> QED BY <2>1, <2>5
<1> QED BY <1>1, <1>2, <1>3, <1>4

(* A fault is one of the kinds that may happen, and leaves them as they are. *)
LEMMA FaultsStay ==
  ASSUME TexmexType, PrepareNext
  PROVE  /\ risks' = [kinds |-> risks.kinds, left |-> risks'.left]
         /\ (Calm' <=> Calm) /\ (Untorn' <=> Untorn)
<1>1. UNCHANGED risks \/ \E kind, where : Happens(kind, where)
  BY DEF PrepareNext, StartAnyPrepare, StartPrepare, PrepareStep, Fault, Normalise,
         Decide, Connect, Receive, EndOfBody, Extract,
         Unreadable, CloseMember, Finish, OpenMember, Refused,
         ConnectWhole, ConnectAgain, Timeout, ExtractFails,
         KillPrepare, RemoveTree
<1>2. risks' = [kinds |-> risks.kinds, left |-> risks'.left]
  <2>1. CASE UNCHANGED risks
    BY <2>1 DEF TexmexType
  <2>2. CASE \E kind, where : Happens(kind, where)
    <3>1. risks' = [risks EXCEPT !.left = @ - 1]
      BY <2>2 DEF Happens
    <3> QED BY <3>1 DEF TexmexType
  <2> QED BY <1>1, <2>1, <2>2
<1>3. risks'.kinds = risks.kinds
  BY <1>2
<1> QED BY <1>2, <1>3 DEF Calm, Untorn

(* A step keeps names and sources what they are.                           *)
LEMMA RootFollows ==
  ASSUME TexmexType, PrepareNext
  PROVE  /\ root' \in [Roles -> {"none", "link", "regular"}]
         /\ source' \in {"ftp", "http"}
<1>1. UNCHANGED root \/ Normalise
  BY DEF PrepareNext, StartAnyPrepare, StartPrepare, PrepareStep, Fault, dataset,
         Decide, Connect, Receive, EndOfBody, Extract,
         Unreadable, CloseMember, Finish, OpenMember, Refused,
         ConnectWhole, ConnectAgain, Timeout, ExtractFails,
         KillPrepare, RemoveTree
<1>2. CASE Normalise
  BY <1>2 DEF Normalise, Normalised, TexmexType
<1>3. source' \in {"ftp", "http"}
  BY DEF TexmexType, PrepareNext, StartAnyPrepare, StartPrepare, PrepareStep, Fault,
         Normalise, NextSource,
         Decide, Connect, Receive, EndOfBody, Extract,
         Unreadable, CloseMember, Finish, OpenMember, Refused,
         ConnectWhole, ConnectAgain, Timeout, ExtractFails,
         KillPrepare, RemoveTree
<1> QED BY <1>1, <1>2, <1>3 DEF TexmexType

LEMMA TreeIsTyped ==
  ASSUME TexmexType, PrepareNext
  PROVE  tree' \in [Roles -> {"none", "partial", "whole"}]
<1>1. \/ UNCHANGED tree \/ CloseMember \/ RemoveTree
      \/ \E r \in Roles : OpenMember(r)
  BY DEF PrepareNext, StartAnyPrepare, StartPrepare, PrepareStep, Fault, dataset,
         Normalise,
         Decide, Connect, Receive, EndOfBody, Extract,
         Unreadable, Finish, Refused,
         ConnectWhole, ConnectAgain, Timeout, ExtractFails,
         KillPrepare
<1> QED BY <1>1 DEF TexmexType, CloseMember, RemoveTree, OpenMember

(* What a step does to the files extracted.                                *)
LEMMA TreeFollows ==
  ASSUME TexmexType, Untorn, OnlyOpenIsPartial, PrepareNext
  PROVE  OnlyOpenIsPartial'
<1>1. tree \in [Roles -> {"none", "partial", "whole"}]
  BY DEF TexmexType
<1>2. CASE \E r \in Roles : OpenMember(r)
  <2>1. PICK r \in Roles : OpenMember(r)
    BY <1>2
  <2>2. /\ phase = "members" /\ open = {} /\ open' = {r} /\ UNCHANGED <<archive, phase>>
        /\ tree' = [tree EXCEPT ![r] = "partial"]
    BY <2>1 DEF OpenMember
  <2>3. \A q \in Roles : tree[q] # "partial"
    BY <2>2 DEF OnlyOpenIsPartial
  <2> QED BY <1>1, <2>2, <2>3 DEF OnlyOpenIsPartial
<1>3. CASE CloseMember
  <2>1. /\ phase = "members" /\ open' = {} /\ UNCHANGED archive /\ phase' \in {"extracted", phase}
        /\ tree' = [r \in Roles |->
                      IF r \in open /\ archive = Body THEN "whole" ELSE tree[r]]
    BY <1>3 DEF CloseMember
  <2>2. archive = Body
    BY <2>1 DEF OnlyOpenIsPartial
  <2>3. \A r \in Roles : tree'[r] # "partial"
    BY <1>1, <2>1, <2>2 DEF OnlyOpenIsPartial
  <2>4. Body' = Body
    BY DEF Body
  <2> QED BY <1>1, <2>1, <2>2, <2>3, <2>4 DEF OnlyOpenIsPartial
<1>4. CASE RemoveTree
  BY <1>4 DEF RemoveTree, OnlyOpenIsPartial
<1>5. CASE Extract
  BY <1>1, <1>5 DEF Extract, ReadableArchive, dataset, Body, OnlyOpenIsPartial
<1>6. CASE KillPrepare \/ ExtractFails
  <2>1. phase # "members"
    <3> SUFFICES ASSUME phase = "members" PROVE FALSE
      OBVIOUS
    <3>1. CASE KillPrepare
      <4>1. <<"kill", "extract">> \in risks.kinds
        BY <3>1 DEF KillPrepare, Happens, Where
      <4> QED BY <4>1 DEF Untorn, TornExtractions
    <3>2. CASE ExtractFails
      <4>1. <<"oserror", "extract">> \in risks.kinds
        BY <3>2 DEF ExtractFails, Happens
      <4> QED BY <4>1 DEF Untorn, TornExtractions
    <3> QED BY <1>6, <3>1, <3>2
  <2>2. phase' # "members" /\ UNCHANGED tree
    BY <1>6 DEF KillPrepare, ExtractFails, dataset
  <2> QED BY <1>1, <2>1, <2>2 DEF OnlyOpenIsPartial
<1>7. CASE \/ StartAnyPrepare \/ Normalise \/ Decide \/ Connect
           \/ Receive \/ EndOfBody \/ Unreadable \/ Finish
           \/ Refused \/ ConnectWhole \/ ConnectAgain \/ Timeout
  <2>1. phase # "members" /\ phase' # "members" /\ UNCHANGED tree
    BY <1>7 DEF StartAnyPrepare, StartPrepare, Normalise, Decide, Connect,
         Receive, EndOfBody, Unreadable, Finish, Refused,
         ConnectWhole, ConnectAgain, Timeout, NextSource, dataset
  <2> QED BY <1>1, <2>1 DEF OnlyOpenIsPartial
<1> QED BY <1>2, <1>3, <1>4, <1>5, <1>6, <1>7 DEF PrepareNext, PrepareStep, Fault

(* What a step does to the archive.                                        *)
LEMMA ArchiveFollows ==
  ASSUME TexmexAssumption, TexmexType, Calm, InOrder, PrepareNext
  PROVE  InOrder'
<1>1. /\ Pieces \in Nat \ {0}
      /\ FirstPieces(0) = <<>> /\ Body = FirstPieces(Pieces)
      /\ \A n \in Nat : /\ Len(FirstPieces(n)) = n
                        /\ Append(FirstPieces(n), n + 1) = FirstPieces(n + 1)
  BY PiecesInOrder
<1>2. Body' = Body /\ \A n : FirstPieces(n)' = FirstPieces(n)
  BY DEF Body, FirstPieces
<1>3. /\ \A kind \in {"200", "short", "refused", "timeout"} :
           ~ (<<kind, "http">> \in risks.kinds)
      /\ ~ (<<"short", "ftp">> \in risks.kinds) /\ ~ (<<"kill", "download">> \in risks.kinds)
  BY DEF Calm, UnfinishedTransfers
<1>4. CASE /\ phase \notin {"receive", "connect", "extract"}
           /\ phase' \notin {"receive", "connect", "extract"} /\ UNCHANGED archive
  BY <1>2, <1>4 DEF InOrder
<1>5. CASE Decide
  <2>1. /\ phase = "decide" /\ UNCHANGED archive /\ phase' \in {"link", "extract", "connect"}
        /\ phase' = "extract" => archive # <<>>
        /\ phase' = "connect" => archive = <<>>
    BY <1>5 DEF Decide, dataset
  <2>2. archive \in {<<>>, Body}
    BY <2>1 DEF InOrder
  <2>3. 0 \in 0 .. Pieces
    BY <1>1
  <2> QED BY <1>1, <1>2, <2>1, <2>2, <2>3 DEF InOrder
<1>6. CASE Connect
  <2>1. PICK n \in 0 .. Pieces : archive = FirstPieces(n)
    BY <1>6 DEF Connect, InOrder
  <2>2. Len(archive) = n
    BY <1>1, <2>1
  <2>3. CASE Resuming
    <3>1. phase' = "receive" /\ piece' = n + 1 /\ archive' = FirstPieces(n)
      BY <1>6, <2>1, <2>2, <2>3 DEF Connect
    <3>2. piece' \in 1 .. Pieces + 1 /\ piece' - 1 = n
      BY <1>1, <3>1
    <3> QED BY <1>2, <3>1, <3>2 DEF InOrder
  <2>4. CASE ~ Resuming
    <3>1. phase' = "receive" /\ piece' = 1 /\ archive' = <<>>
      BY <1>6, <2>4 DEF Connect
    <3>2. piece' \in 1 .. Pieces + 1 /\ piece' - 1 = 0
      BY <1>1, <3>1
    <3> QED BY <1>1, <1>2, <3>1, <3>2 DEF InOrder
  <2> QED BY <2>3, <2>4
<1>7. CASE ConnectWhole
  BY <1>3, <1>7 DEF ConnectWhole, Happens
<1>8. CASE ConnectAgain
  <2>1. archive' = <<>> /\ Resuming /\ ((piece' = 1 /\ phase' = "receive") \/ NextSource)
    BY <1>8 DEF ConnectAgain
  <2>2. CASE piece' = 1 /\ phase' = "receive"
    <3>1. piece' \in 1 .. Pieces + 1 /\ piece' - 1 = 0
      BY <1>1, <2>2
    <3> QED BY <1>1, <1>2, <2>1, <2>2, <3>1 DEF InOrder
  <2>3. CASE NextSource
    <3>1. phase' = "link"
      BY <2>1, <2>3 DEF NextSource, Resuming
    <3> QED BY <1>2, <2>1, <3>1 DEF InOrder
  <2> QED BY <2>1, <2>2, <2>3
<1>9. CASE Refused
  <2>1. phase = "connect" /\ UNCHANGED archive /\ NextSource
    BY <1>9 DEF Refused, dataset
  <2>2. PICK n \in 0 .. Pieces : archive = FirstPieces(n)
    BY <2>1 DEF InOrder
  <2>3. CASE source = "ftp"
    <3>1. phase' = "connect"
      BY <2>1, <2>3 DEF NextSource
    <3> QED BY <1>2, <2>1, <2>2, <3>1 DEF InOrder
  <2>4. CASE source # "ftp"
    <3>1. phase' = "link"
      BY <2>1, <2>4 DEF NextSource
    <3>2. Len(archive) >= Pieces
      <4>1. ~ Happens("refused", source)
        BY <1>3, <2>4 DEF TexmexType, Happens
      <4> QED BY <1>9, <4>1 DEF Refused
    <3>3. archive = Body
      BY <1>1, <2>2, <3>2
    <3> QED BY <1>2, <2>1, <3>1, <3>3 DEF InOrder
  <2> QED BY <2>3, <2>4
<1>10. CASE Receive
  <2> DEFINE n == piece - 1
  <2>1. /\ phase = "receive" /\ phase' = phase /\ piece <= Pieces /\ piece' = piece + 1
        /\ archive' = Append(archive, piece)
    BY <1>10 DEF Receive
  <2>2. piece \in 1 .. Pieces + 1 /\ archive = FirstPieces(n)
    BY <2>1 DEF InOrder
  <2>3. n \in Nat /\ piece = n + 1 /\ piece' - 1 = n + 1 /\ piece' \in 1 .. Pieces + 1
    BY <1>1, <2>1, <2>2
  <2> HIDE DEF n
  <2>4. archive' = FirstPieces(n + 1)
    BY <1>1, <2>1, <2>2, <2>3
  <2> QED BY <1>2, <2>1, <2>3, <2>4 DEF InOrder
<1>11. CASE EndOfBody
  <2>1. phase = "receive" /\ phase' = "extract" /\ UNCHANGED archive
    BY <1>11 DEF EndOfBody, dataset
  <2>2. piece > Pieces
    <3>1. ~ Happens("short", source)
      BY <1>3 DEF TexmexType, Happens
    <3> QED BY <1>11, <3>1 DEF EndOfBody
  <2>3. piece \in 1 .. Pieces + 1 /\ archive = FirstPieces(piece - 1)
    BY <2>1 DEF InOrder
  <2>4. piece - 1 = Pieces
    BY <1>1, <2>2, <2>3
  <2> QED BY <1>1, <1>2, <2>1, <2>3, <2>4 DEF InOrder
<1>12. CASE Timeout
  <2>1. phase = "receive" /\ UNCHANGED archive /\ NextSource
    BY <1>12 DEF Timeout, dataset
  <2>2. source = "ftp"
    BY <1>3, <1>12 DEF TexmexType, Timeout, Happens
  <2>3. phase' = "connect"
    BY <2>1, <2>2 DEF NextSource
  <2>4. piece \in 1 .. Pieces + 1 /\ archive = FirstPieces(piece - 1)
    BY <2>1 DEF InOrder
  <2> DEFINE n == piece - 1
  <2>5. archive' = FirstPieces(n)
    BY <2>1, <2>4
  <2>6. n \in 0 .. Pieces
    BY <1>1, <2>4
  <2> HIDE DEF n
  <2>7. \E k \in 0 .. Pieces : archive' = FirstPieces(k)
    BY <2>5, <2>6
  <2> QED BY <2>3, <2>7 DEF InOrder, FirstPieces
<1>13. CASE Extract \/ Unreadable
  <2>1. phase = "extract" /\ UNCHANGED archive /\ phase' \notin {"receive", "connect", "extract"}
    BY <1>13 DEF Extract, Unreadable, dataset
  <2> QED BY <1>2, <2>1 DEF InOrder
<1>14. CASE KillPrepare
  <2>1. phase' = "down" /\ UNCHANGED archive /\ ~ (Where = "download")
    BY <1>3, <1>14 DEF KillPrepare, Happens, dataset
  <2>2. phase # "receive" /\ (phase = "connect" => archive = <<>>)
    BY <2>1 DEF Where
  <2> QED BY <1>2, <2>1, <2>2 DEF InOrder
<1>15. CASE \/ StartAnyPrepare \/ Normalise \/ CloseMember \/ Finish
            \/ (\E r \in Roles : OpenMember(r))
            \/ ExtractFails \/ RemoveTree
  <2>1. /\ phase \notin {"receive", "connect", "extract"}
        /\ phase' \notin {"receive", "connect", "extract"} /\ UNCHANGED archive
    BY <1>15 DEF StartAnyPrepare, StartPrepare, Normalise, CloseMember, Finish,
         OpenMember, ExtractFails, RemoveTree, dataset
  <2> QED BY <1>4, <2>1
<1> QED
  BY <1>5, <1>6, <1>7, <1>8, <1>9, <1>10, <1>11, <1>12, <1>13, <1>14, <1>15
     DEF PrepareNext, PrepareStep, Fault

LEMMA TexmexStep ==
  ASSUME TexmexAssumption
  PROVE  TInv /\ [PrepareNext]_prepareVars => TInv'
<1> SUFFICES ASSUME TInv, [PrepareNext]_prepareVars PROVE TInv'
  OBVIOUS
<1>1. CASE PrepareNext
  <2>1. TexmexType'
    BY <1>1, FaultsStay, RootFollows, TreeIsTyped DEF TInv, TexmexType, Roles
  <2>2. Calm' => InOrder'
    BY <1>1, FaultsStay, ArchiveFollows DEF TInv
  <2>3. Untorn' => OnlyOpenIsPartial'
    BY <1>1, FaultsStay, TreeFollows DEF TInv
  <2> QED BY <2>1, <2>2, <2>3 DEF TInv
<1>2. CASE UNCHANGED prepareVars
  <2>1. UNCHANGED <<archive, tree, root, phase, source, piece, open, risks>>
    BY <1>2 DEF prepareVars, dataset
  <2>2. TexmexType' /\ (Calm' <=> Calm) /\ (Untorn' <=> Untorn)
    BY <2>1 DEF TInv, TexmexType, Roles, Calm, Untorn
  <2>3. InOrder' <=> InOrder
    BY <2>1 DEF InOrder, FirstPieces, Body
  <2>4. OnlyOpenIsPartial' <=> OnlyOpenIsPartial
    BY <2>1 DEF OnlyOpenIsPartial, Roles, Body
  <2> QED BY <2>2, <2>3, <2>4 DEF TInv
<1> QED BY <1>1, <1>2

LEMMA TexmexInit == PrepareInit => TInv
<1> SUFFICES ASSUME PrepareInit PROVE TInv
  OBVIOUS
<1>1. TexmexType
  <2>1. PICK k \in FaultChoices : risks = [kinds |-> k, left |-> MaxFaults]
    BY DEF PrepareInit
  <2>2. risks = [kinds |-> risks.kinds, left |-> risks.left]
    BY <2>1
  <2> QED BY <2>2 DEF PrepareInit, TexmexType
<1>2. InOrder
  BY DEF PrepareInit, InOrder
<1>3. OnlyOpenIsPartial
  BY DEF PrepareInit, OnlyOpenIsPartial
<1> QED BY <1>1, <1>2, <1>3 DEF TInv

(* Whatever is killed, refused, cut or removed: an archive is extracted    *)
(* only with all its bytes in order, unless a run may end in the middle of *)
(* a transfer; and a dataset is reported ready only with whole files,      *)
(* unless an extraction may be cut.                                        *)
THEOREM PreparedIsWhole == PrepareSpec => []BytesAreWhole
<1>1. TInv => BytesAreWhole
  <2> SUFFICES ASSUME TInv PROVE BytesAreWhole
    OBVIOUS
  <2>1. OnlyWholeExtracted
    BY DEF OnlyWholeExtracted, TInv, Calm, InOrder
  <2>2. ReadyMeansWhole
    <3> SUFFICES ASSUME phase = "done", Status = "ready", Untorn,
                        NEW r \in Required, root[r] # "regular"
                 PROVE  tree[r] = "whole"
      BY DEF ReadyMeansWhole, Untorn
    <3>1. r \in Roles
      BY DEF Roles
    <3>2. Exists(r)
      BY DEF Status
    <3>3. tree[r] # "none"
      BY <3>2 DEF Exists
    <3>4. tree[r] # "partial" /\ tree[r] \in {"none", "partial", "whole"}
      BY <3>1 DEF TInv, OnlyOpenIsPartial, TexmexType
    <3> QED BY <3>3, <3>4
  <2> QED BY <2>1, <2>2 DEF BytesAreWhole
<1>2. TInv /\ [PrepareNext]_prepareVars => TInv'
  BY TexmexStep, TexmexAssumption
<1> QED BY <1>1, <1>2, TexmexInit, PTL DEF PrepareSpec

(* Whole files stay as long as no run gets to an extraction, and none does *)
(* that finds the dataset ready.                                           *)
Settled ==
  /\ phase \in {"down", "done", "normalise", "decide", "link"}
  /\ WholeThere /\ <<"remove", "tree">> \notin risks.kinds

LEMMA StaysSettled ==
  ASSUME TexmexType, Settled, PrepareNext
  PROVE  Settled'
<1>1. risks'.kinds = risks.kinds
  BY FaultsStay
<1>2. \A r \in Required : r \in Roles
  BY DEF Roles
<1>3. CASE Normalise
  <2>1. phase' \in {"decide", "link"} /\ UNCHANGED tree /\ root' = [r \in Roles |-> Normalised(r)]
    BY <1>3 DEF Normalise
  <2>2. ASSUME NEW r \in Required PROVE root'[r] = root[r]
    BY <1>2, <2>1, <2>2 DEF Settled, WholeThere, Normalised
  <2> QED BY <1>1, <2>1, <2>2 DEF Settled, WholeThere
<1>4. CASE Decide
  <2>1. \A r \in Required : Exists(r)
    BY DEF Settled, WholeThere, Exists
  <2>2. phase' = "link" /\ UNCHANGED <<tree, root>>
    BY <1>4, <2>1 DEF Decide, Status, dataset
  <2> QED BY <1>1, <2>2 DEF Settled, WholeThere
<1>5. CASE StartAnyPrepare \/ Finish \/ KillPrepare
  <2>1. phase' \in {"normalise", "done", "down"} /\ UNCHANGED <<tree, root>>
    BY <1>5 DEF StartAnyPrepare, StartPrepare, Finish, KillPrepare, dataset
  <2> QED BY <1>1, <2>1 DEF Settled, WholeThere
<1>6. CASE RemoveTree
  BY <1>6 DEF RemoveTree, Happens, Settled
<1>7. ASSUME \/ Connect \/ Receive \/ EndOfBody \/ Extract \/ Unreadable \/ CloseMember
             \/ \E r \in Roles : OpenMember(r)
             \/ Refused \/ ConnectWhole \/ ConnectAgain \/ Timeout \/ ExtractFails
      PROVE  FALSE
  BY <1>7 DEF Settled, Connect, Receive, EndOfBody, Extract, Unreadable, CloseMember,
     OpenMember, Refused, ConnectWhole, ConnectAgain, Timeout, ExtractFails
<1> QED BY <1>3, <1>4, <1>5, <1>6, <1>7 DEF PrepareNext, PrepareStep, Fault

(* What a run has left whole stays whole, whatever later runs are asked    *)
(* for and wherever they are cut, until somebody removes files.            *)
THEOREM WholeForever == PrepareSpec => StaysWhole
<1>1. TInv /\ [PrepareNext]_prepareVars => TInv'
  BY TexmexStep, TexmexAssumption
<1>2. TInv /\ Settled /\ [PrepareNext]_prepareVars => Settled'
  <2> SUFFICES ASSUME TInv, Settled, [PrepareNext]_prepareVars PROVE Settled'
    OBVIOUS
  <2>1. CASE PrepareNext
    BY <2>1, StaysSettled DEF TInv
  <2>2. CASE UNCHANGED prepareVars
    BY <2>2 DEF prepareVars, dataset, Settled, WholeThere
  <2> QED BY <2>1, <2>2
<1>3. phase = "done" /\ WholeThere /\ <<"remove", "tree">> \notin risks.kinds => Settled
  BY DEF Settled
<1>4. Settled => WholeThere
  BY DEF Settled
<1> QED BY <1>1, <1>2, <1>3, <1>4, TexmexInit, PTL DEF PrepareSpec, StaysWhole
=============================================================================
