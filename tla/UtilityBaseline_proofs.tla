------------------------ MODULE UtilityBaseline_proofs ------------------------
(***************************************************************************)
(* For all configurations, usages and kills.  A forced run over all        *)
(* configurations never stops: the first invariant (Progress) says that    *)
(* every configuration a loop is done with has its summary file, or the    *)
(* process is about to write it, so nothing is left to be recovered from a *)
(* trace.  Resumed runs complete: the second one (Sound) says that every   *)
(* summary file at rest is whole and has one row, that of its own          *)
(* configuration, so that a file that exists may be taken for a result.    *)
(* Rows of an older version are not lost: the third one (Kept) says that,  *)
(* as long as no run is killed, no file is damaged, and either every old   *)
(* row was split or none was; the fourth (Sourced), that a row that is not *)
(* an old one comes from a result that was measured.                       *)
(***************************************************************************)
EXTENDS UtilityBaseline, FiniteSetTheorems, WellFoundedInduction, TLAPS

Loop         == {"config", "bench", "trace", "rows"}
Closing      == {"migrate", "collect", "finish"}
ConfigWrites == [path : Kinds \X Configs, rows : SUBSET Rows]

Pending(c) == \E i \in DOMAIN writes : writes[i].path = <<"summary", c>>
Aggregates == "aggregate_only" \in flags

TypeOK ==
  /\ disk = [p \in Paths |-> disk[p]] /\ usage \in Usages
  /\ asked \subseteq Configs /\ left \subseteq asked /\ open \in BOOLEAN
  /\ pc \in Loop \cup Closing \cup {"down", "done", "failed"}
  /\ pc \in Loop => writes \in Seq(ConfigWrites)
  /\ pc \in {"down", "failed", "done", "migrate"} => writes = <<>>

Progress ==
  /\ pc \in {"bench", "trace", "rows"} => left # {}
  /\ pc \in Loop => \A c \in asked \ left : IsFile("summary", c) \/ Pending(c)
  /\ pc \in Loop => ~ Aggregates
  /\ pc \in Closing /\ ~ Aggregates => \A c \in asked : IsFile("summary", c)

IInv == TypeOK /\ Progress /\ ForceNeverFails

OneRow(c) == {{<<c, "standard">>}, {<<c, "recovered">>}}

SoundWrites == {w \in ConfigWrites : w.path[1] = "summary" => w.rows \in OneRow(w.path[2])}

IsSound(c) == IsWhole("summary", c) /\ RowsIn("summary", c) \in OneRow(c)

BeingWritten(c) ==
  /\ RowsIn("summary", c) = {} /\ open /\ writes # <<>>
  /\ Head(writes).path = <<"summary", c>>

ToplevelWritten ==
  \/ \E rows : writes = <<Write("metrics", Top, rows), Write("summary", Top, Summaries)>>
  \/ writes = <<Write("summary", Top, Summaries)>>
  \/ writes = <<>> /\ RowsIn("summary", Top) = Summaries

Sound ==
  /\ open => writes # <<>>
  /\ pc # "down" => flags \in usage.flags /\ asked # {}
  /\ \A c \in Configs : \/ disk[<<"summary", c>>] = Missing
                        \/ IsSound(c) \/ BeingWritten(c)
  /\ pc \in Loop \cup {"collect"} => writes \in Seq(SoundWrites)
  /\ pc = "collect" => \A i \in DOMAIN writes : writes[i].path[2] \notin asked
  /\ pc \in {"collect", "finish", "done"} => \A c \in asked : IsSound(c)
  /\ pc \in {"finish", "done"} => ToplevelWritten

RInv == Resuming => Sound

-----------------------------------------------------------------------------
(* A nonempty set of configurations has a first.                           *)
LEMMA FirstConfig ==
  ASSUME NEW S, S \subseteq Configs, S # {}
  PROVE  (CHOOSE c \in S : \A d \in S : c <= d) \in S
<1>1. S \subseteq Nat
  BY BaselineAssumption
<1>2. \E m \in S : \A n \in S : ~ (<<n, m>> \in OpToRel(<, Nat))
  BY <1>1, NatLessThanWellFounded, WFMin, Zenon
<1>3. PICK m \in S : \A n \in S : ~ (<<n, m>> \in OpToRel(<, Nat))
  BY <1>2
<1>4. \A n \in S : m <= n
  <2> TAKE n \in S
  <2>1. m \in Nat /\ n \in Nat
    BY <1>1
  <2>2. ~ (n < m)
    BY <1>3, <2>1 DEF OpToRel
  <2> QED BY <2>1, <2>2
<1> QED BY <1>4

LEMMA CurrentIsLeft ==
  ASSUME left \subseteq Configs, left # {}
  PROVE  Current \in left
BY FirstConfig DEF Current

LEMMA ConfigPath ==
  ASSUME NEW c \in Configs, NEW k \in Kinds
  PROVE  <<k, c>> \in Paths /\ c # Top
BY BaselineAssumption DEF Paths

(* What write_per_config is about to write.                                *)
LEMMA PerConfig ==
  ASSUME NEW c \in Configs, NEW rows, rows = Measured(c) \/ rows = Recovered(c)
  PROVE  /\ WritePerConfig(c, rows) \in Seq(SoundWrites)
         /\ WritePerConfig(c, rows) \in Seq(ConfigWrites)
         /\ 2 \in DOMAIN WritePerConfig(c, rows)
         /\ WritePerConfig(c, rows)[2].path = <<"summary", c>>
         /\ \A i \in DOMAIN WritePerConfig(c, rows) : WritePerConfig(c, rows)[i].path[2] = c
<1> DEFINE a == Write("metrics", c, rows)
           b == Write("summary", c, Standard(rows))
<1>1. rows \subseteq Rows /\ Standard(rows) \in OneRow(c)
  <2>1. Standard(Measured(c)) = {<<c, "standard">>} /\ Measured(c) \subseteq Rows
    BY DEF Standard, Measured, Rows
  <2>2. Standard(Recovered(c)) = {<<c, "recovered">>} /\ Recovered(c) \subseteq Rows
    BY DEF Standard, Recovered, Rows
  <2> QED BY <2>1, <2>2 DEF OneRow
<1>2. Standard(rows) \subseteq Rows
  BY <1>1 DEF Standard
<1>3. a \in ConfigWrites /\ b \in ConfigWrites /\ a \in SoundWrites /\ b \in SoundWrites
  BY <1>1, <1>2 DEF ConfigWrites, SoundWrites, Write, Kinds
<1>4. WritePerConfig(c, rows) = <<a, b>> /\ a.path = <<"metrics", c>> /\ b.path = <<"summary", c>>
  BY DEF WritePerConfig, Write
<1> HIDE DEF a, b
<1> QED BY <1>3, <1>4

LEMMA OneWrite ==
  ASSUME NEW k \in {"cache", "trace"}, NEW c \in Configs
  PROVE  <<Write(k, c, {})>> \in Seq(ConfigWrites) /\ <<Write(k, c, {})>> \in Seq(SoundWrites)
<1>1. Write(k, c, {}) \in ConfigWrites /\ Write(k, c, {}) \in SoundWrites
  BY DEF Write, ConfigWrites, SoundWrites, Kinds
<1> QED BY <1>1

LEMMA AfterHead ==
  ASSUME NEW S, NEW q \in Seq(S), q # <<>>
  PROVE  /\ Head(q) = q[1] /\ Head(q) \in S /\ Tail(q) \in Seq(S)
         /\ \A i \in DOMAIN q : i = 1 \/ (i - 1 \in DOMAIN Tail(q) /\ Tail(q)[i - 1] = q[i])
         /\ \A i \in DOMAIN Tail(q) : i + 1 \in DOMAIN q /\ Tail(q)[i] = q[i + 1]
  OBVIOUS

(* Opening or closing a file disturbs no other.                            *)
LEMMA FileSteps ==
  ASSUME TypeOK, OpenFile \/ CloseFile
  PROVE  /\ \A p \in Paths : p # Head(writes).path => disk'[p] = disk[p]
         /\ \A p \in Paths : disk[p].state # "none" => disk'[p].state # "none"
         /\ Head(writes).path \in Paths =>
              /\ disk'[Head(writes).path].state # "none"
              /\ OpenFile => disk'[Head(writes).path] = [state |-> "partial", rows |-> {}]
              /\ CloseFile => disk'[Head(writes).path] = [state |-> "whole", rows |-> Head(writes).rows]
         /\ disk' = [p \in Paths |-> disk'[p]]
         /\ UNCHANGED <<flags, asked, left, pc, usage, kills, reruns>>
         /\ writes # <<>>
<1>1. DOMAIN disk = Paths /\ disk = [p \in Paths |-> disk[p]]
  BY Zenon DEF TypeOK
<1>2. \E new : /\ disk' = [disk EXCEPT ![Head(writes).path] = new] /\ new.state # "none"
               /\ OpenFile => new = [state |-> "partial", rows |-> {}]
               /\ CloseFile => new = [state |-> "whole", rows |-> Head(writes).rows]
  <2>1. CASE OpenFile
    <3> DEFINE new == [state |-> "partial", rows |-> {}]
    <3>1. disk' = [disk EXCEPT ![Head(writes).path] = new] /\ new.state # "none" /\ ~ CloseFile
      BY <2>1 DEF OpenFile, CloseFile
    <3> HIDE DEF new
    <3> QED BY <3>1 DEF new
  <2>2. CASE CloseFile
    <3> DEFINE new == [state |-> "whole", rows |-> Head(writes).rows]
    <3>1. disk' = [disk EXCEPT ![Head(writes).path] = new] /\ new.state # "none" /\ ~ OpenFile
      BY <2>2 DEF OpenFile, CloseFile
    <3> HIDE DEF new
    <3> QED BY <3>1 DEF new
  <2> QED BY <2>1, <2>2
<1>3. PICK new : /\ disk' = [disk EXCEPT ![Head(writes).path] = new] /\ new.state # "none"
                 /\ OpenFile => new = [state |-> "partial", rows |-> {}]
                 /\ CloseFile => new = [state |-> "whole", rows |-> Head(writes).rows]
  BY <1>2
<1>4. UNCHANGED <<flags, asked, left, pc, usage, kills, reruns>> /\ writes # <<>>
  BY DEF OpenFile, CloseFile
<1> QED BY <1>1, <1>3, <1>4

-----------------------------------------------------------------------------
(* The first invariant, action by action.                                  *)
LEMMA FileStepKeeps ==
  ASSUME IInv, OpenFile \/ CloseFile
  PROVE  IInv'
<1>1. /\ TypeOK /\ Progress /\ ForceNeverFails
      /\ UNCHANGED <<flags, asked, left, pc, usage, kills, reruns>> /\ writes # <<>>
      /\ disk' = [p \in Paths |-> disk'[p]]
  BY FileSteps DEF IInv
<1>2. \A c \in Configs : IsFile("summary", c) => IsFile("summary", c)'
  BY <1>1, FileSteps, ConfigPath DEF IsFile, Kinds
<1>3. ASSUME pc \in Loop
      PROVE  /\ writes' \in Seq(ConfigWrites)
             /\ \A c \in Configs : Pending(c) => Pending(c)' \/ IsFile("summary", c)'
  <2>1. writes \in Seq(ConfigWrites) /\ writes # <<>>
    BY <1>1, <1>3 DEF TypeOK
  <2>2. CASE OpenFile
    <3>1. writes' = writes
      BY <2>2 DEF OpenFile
    <3> QED BY <2>1, <3>1 DEF Pending
  <2>3. CASE CloseFile
    <3>1. writes' = Tail(writes)
      BY <2>3 DEF CloseFile
    <3>2. ASSUME NEW c \in Configs, NEW i \in DOMAIN writes, writes[i].path = <<"summary", c>>
          PROVE  Pending(c)' \/ IsFile("summary", c)'
      <4>1. CASE i = 1
        <5>1. Head(writes).path = <<"summary", c>> /\ <<"summary", c>> \in Paths
          BY <2>1, <3>2, <4>1, AfterHead, ConfigPath DEF Kinds
        <5> QED BY <1>1, <5>1, FileSteps DEF IsFile
      <4>2. CASE i # 1
        <5>1. i - 1 \in DOMAIN writes' /\ writes'[i - 1] = writes[i]
          BY <2>1, <3>1, <4>2, AfterHead
        <5> QED BY <3>2, <5>1 DEF Pending
      <4> QED BY <4>1, <4>2
    <3> QED BY <2>1, <3>1, <3>2, AfterHead DEF Pending
  <2> QED BY <2>2, <2>3
<1>4. TypeOK'
  <2>1. open' \in BOOLEAN
    BY DEF OpenFile, CloseFile
  <2> QED BY <1>1, <1>3, <2>1 DEF TypeOK
<1>5. Progress'
  <2>1. asked \subseteq Configs
    BY <1>1 DEF TypeOK
  <2>2. Aggregates' = Aggregates
    BY <1>1 DEF Aggregates
  <2>3. ASSUME pc \in Loop, NEW c \in asked \ left
        PROVE  IsFile("summary", c)' \/ Pending(c)'
    <3>1. c \in Configs /\ (IsFile("summary", c) \/ Pending(c))
      BY <1>1, <2>1, <2>3 DEF Progress
    <3> QED BY <1>2, <1>3, <2>3, <3>1
  <2>4. ASSUME pc \in Closing, ~ Aggregates, NEW c \in asked
        PROVE  IsFile("summary", c)'
    <3>1. c \in Configs /\ IsFile("summary", c)
      BY <1>1, <2>1, <2>4 DEF Progress
    <3> QED BY <1>2, <3>1
  <2> QED BY <1>1, <2>2, <2>3, <2>4 DEF Progress
<1>6. ForceNeverFails'
  BY <1>1 DEF ForceNeverFails, Forced, ForceRecompute, SkipExisting, OnlyMissing
<1> QED BY <1>4, <1>5, <1>6 DEF IInv

LEMMA StartKeeps ==
  ASSUME IInv, NEW f \in usage.flags, NEW configs \in usage.configs, Start(f, configs)
  PROVE  IInv'
<1>1. /\ pc \in {"down", "failed", "done"} /\ flags' = f /\ asked' = configs /\ left' = configs
      /\ pc' = IF "aggregate_only" \in f THEN "migrate" ELSE "config"
      /\ UNCHANGED <<disk, writes, open, usage, kills>>
  BY DEF Start
<1>2. TypeOK /\ writes = <<>> /\ configs \subseteq Configs
  BY <1>1, BaselineAssumption DEF IInv, TypeOK
<1>3. TypeOK'
  BY <1>1, <1>2 DEF TypeOK, Loop, Closing
<1>4. Progress'
  BY <1>1 DEF Progress, Loop, Closing, Aggregates
<1> QED BY <1>1, <1>3, <1>4 DEF IInv, ForceNeverFails

(* Steps of the loop between which the files are at rest.                  *)
LEMMA AtRest ==
  ASSUME IInv, writes = <<>>
  PROVE  \A c \in asked \ left : pc \in Loop => IsFile("summary", c)
BY DEF IInv, Progress, Pending

LEMMA LoopKeeps ==
  ASSUME IInv, pc \in Loop, writes = <<>>, pc' \in Loop,
         UNCHANGED <<disk, flags, asked, open, usage>>,
         left' \subseteq left, writes' \in Seq(ConfigWrites),
         pc' # "config" => left' # {},
         \A c \in left \ left' : IsFile("summary", c)' \/ Pending(c)'
  PROVE  IInv'
<1>1. TypeOK /\ Progress
  BY DEF IInv
<1>2. TypeOK'
  BY <1>1 DEF TypeOK, Loop, Closing
<1>3. \A c \in asked \ left : IsFile("summary", c)'
  BY AtRest DEF IsFile
<1>4. Progress'
  <2>1. \A c \in asked' \ left' : IsFile("summary", c)' \/ Pending(c)'
    BY <1>3
  <2>2. ~ Aggregates'
    BY <1>1 DEF Progress, Aggregates
  <2> QED BY <2>1, <2>2 DEF Progress, Loop, Closing
<1>5. pc' # "failed"
  BY DEF Loop
<1> QED BY <1>2, <1>4, <1>5 DEF IInv, ForceNeverFails

LEMMA FailKeeps ==
  ASSUME IInv, writes = <<>>, Fail, UNCHANGED <<disk, flags, asked, open, usage>>, ~ Forced
  PROVE  IInv'
<1>1. TypeOK /\ pc' = "failed" /\ left' = left /\ writes' = <<>>
  BY DEF IInv, Fail
<1>2. TypeOK'
  BY <1>1 DEF TypeOK, Loop, Closing
<1>3. Progress'
  BY <1>1 DEF Progress, Loop, Closing
<1>4. ~ Forced'
  BY DEF Forced, ForceRecompute, SkipExisting, OnlyMissing
<1> QED BY <1>2, <1>3, <1>4 DEF IInv, ForceNeverFails

LEMMA VisitKeeps ==
  ASSUME IInv, Skip \/ Recover \/ RunConfig
  PROVE  IInv'
<1>1. /\ pc = "config" /\ writes = <<>> /\ left # {} /\ pc \in Loop
      /\ UNCHANGED <<disk, flags, asked, open, usage>>
  BY DEF Skip, Recover, RunConfig, At, Loop
<1>2. left \subseteq Configs /\ Current \in left
  BY <1>1, CurrentIsLeft DEF IInv, TypeOK
<1>3. <<>> \in Seq(ConfigWrites)
  OBVIOUS
<1>4. CASE Skip
  <2>1. left' = left \ {Current} /\ writes' = <<>> /\ pc' = "config"
    BY <1>1, <1>4 DEF Skip
  <2>2. IsFile("summary", Current)
    BY <1>4 DEF Skip, ShouldSkip
  <2>3. \A c \in left \ left' : IsFile("summary", c)'
    BY <1>1, <2>1, <2>2 DEF IsFile
  <2> QED BY <1>1, <1>3, <2>1, <2>3, LoopKeeps DEF Loop
<1>5. CASE RunConfig
  <2>1. left' = left /\ writes' = <<>> /\ pc' = "bench"
    BY <1>1, <1>5 DEF RunConfig
  <2> QED BY <1>1, <1>3, <2>1, LoopKeeps DEF Loop
<1>6. CASE Recover
  <2>1. CASE IsWhole("trace", Current)
    <3>1. /\ writes' = WritePerConfig(Current, Recovered(Current))
          /\ left' = left \ {Current} /\ pc' = "config"
      BY <1>1, <1>6, <2>1 DEF Recover
    <3>2. writes' \in Seq(ConfigWrites)
      BY <1>2, <3>1, PerConfig
    <3>3. ASSUME NEW c \in left \ left' PROVE Pending(c)'
      <4>1. c = Current /\ c \in Configs
        BY <1>2, <3>1, <3>3
      <4>2. writes' = WritePerConfig(c, Recovered(c))
        BY <3>1, <4>1
      <4> QED BY <4>1, <4>2, PerConfig DEF Pending
    <3> QED BY <1>1, <3>1, <3>2, <3>3, LoopKeeps DEF Loop
  <2>2. CASE ~ IsWhole("trace", Current)
    <3>1. Fail /\ ~ Forced
      BY <1>6, <2>2 DEF Recover, CanRecover, Forced
    <3> QED BY <1>1, <3>1, FailKeeps
  <2> QED BY <2>1, <2>2
<1> QED BY <1>4, <1>5, <1>6

LEMMA MeasureKeeps ==
  ASSUME IInv, Bench \/ ExportTrace \/ WriteRows
  PROVE  IInv'
<1>1. /\ pc \in {"bench", "trace", "rows"} /\ writes = <<>> /\ pc \in Loop
      /\ UNCHANGED <<disk, flags, asked, open, usage>>
  BY DEF Bench, ExportTrace, WriteRows, At, Loop
<1>2. left # {} /\ left \subseteq Configs /\ Current \in left
  BY <1>1, CurrentIsLeft DEF IInv, TypeOK, Progress
<1>3. <<>> \in Seq(ConfigWrites)
  OBVIOUS
<1>4. CASE Bench \/ ExportTrace
  <2>1. CASE Fail
    <3>1. ~ ForceRecompute
      BY <1>4, <2>1 DEF Bench, ExportTrace, Fail, UsesTrace, At
    <3> QED BY <1>1, <2>1, <3>1, FailKeeps DEF Forced
  <2>2. CASE ~ Fail
    <3>1. pc' \in {"trace", "rows"} /\ left' = left
      BY <1>4, <2>2 DEF Bench, ExportTrace
    <3>2. writes' \in Seq(ConfigWrites)
      BY <1>1, <1>2, <1>3, <1>4, <2>2, OneWrite DEF Bench, ExportTrace
    <3> QED BY <1>1, <1>2, <3>1, <3>2, LoopKeeps DEF Loop
  <2> QED BY <2>1, <2>2
<1>5. CASE WriteRows
  <2>1. /\ writes' = WritePerConfig(Current, Measured(Current))
        /\ left' = left \ {Current} /\ pc' = "config"
    BY <1>5 DEF WriteRows
  <2>2. writes' \in Seq(ConfigWrites)
    BY <1>2, <2>1, PerConfig
  <2>3. ASSUME NEW c \in left \ left' PROVE Pending(c)'
    <3>1. c = Current /\ c \in Configs
      BY <1>2, <2>1, <2>3
    <3>2. writes' = WritePerConfig(c, Measured(c))
      BY <2>1, <3>1
    <3> QED BY <3>1, <3>2, PerConfig DEF Pending
  <2> QED BY <1>1, <2>1, <2>2, <2>3, LoopKeeps DEF Loop
<1> QED BY <1>1, <1>4, <1>5

(* Without --aggregate-only nothing is removed.                            *)
LEMMA MigrateKeepsFiles ==
  ASSUME TypeOK, Migrate, ~ Aggregates
  PROVE  disk' = disk
<1>1. ~ RemovesOld
  BY DEF RemovesOld, Remigrate, Aggregates
<1>2. disk' = [p \in Paths |-> disk[p]]
  BY <1>1 DEF Migrate
<1> QED BY <1>2, Zenon DEF TypeOK

LEMMA CloseKeeps ==
  ASSUME IInv, LoopEnds \/ Migrate \/ RecoverLate \/ Aggregate \/ Finish
  PROVE  IInv'
<1>1. TypeOK /\ Progress /\ writes = <<>> /\ UNCHANGED <<flags, asked, open, usage>>
  BY DEF IInv, LoopEnds, Migrate, RecoverLate, Aggregate, Finish, At
<1>2. CASE LoopEnds
  <2>1. pc = "config" /\ left = {} /\ pc' = "migrate" /\ UNCHANGED <<disk, left, writes>>
    BY <1>2 DEF LoopEnds, At
  <2>2. \A c \in asked : IsFile("summary", c)'
    BY <1>1, <2>1, AtRest DEF IsFile, Loop
  <2>3. TypeOK' /\ Progress'
    BY <1>1, <2>1, <2>2 DEF TypeOK, Progress, Loop, Closing
  <2> QED BY <2>1, <2>3 DEF IInv, ForceNeverFails
<1>3. CASE Migrate
  <2>1. pc = "migrate" /\ pc' = "collect" /\ UNCHANGED left
    BY <1>3 DEF Migrate, At
  <2>2. disk' = [p \in Paths |-> disk'[p]]
    <3>1. \E g : disk' = [p \in Paths |-> IF g[p] THEN Missing ELSE disk[p]]
      <4> DEFINE g == [p \in Paths |-> RemovesOld /\ p[1] \in {"metrics", "summary"} /\ p[2] # Top]
      <4>1. disk' = [p \in Paths |-> IF g[p] THEN Missing ELSE disk[p]]
        BY <1>3 DEF Migrate
      <4> HIDE DEF g
      <4> QED BY <4>1
    <3> QED BY <3>1
  <2>3. ~ Aggregates => \A c \in asked : IsFile("summary", c)'
    BY <1>1, <1>3, <2>1, MigrateKeepsFiles DEF Progress, Closing, IsFile
  <2>4. TypeOK' /\ Progress'
    BY <1>1, <2>1, <2>2, <2>3 DEF TypeOK, Progress, Loop, Closing, Aggregates
  <2> QED BY <2>1, <2>4 DEF IInv, ForceNeverFails
<1>4. CASE RecoverLate /\ pc' = pc
  <2>1. pc = "collect" /\ UNCHANGED <<disk, left>>
    BY <1>4 DEF RecoverLate, At, Fail
  <2>2. TypeOK' /\ Progress'
    BY <1>1, <1>4, <2>1 DEF TypeOK, Progress, Loop, Closing, Aggregates, IsFile
  <2> QED BY <1>4, <2>1, <2>2 DEF IInv, ForceNeverFails
<1>5. CASE RecoverLate /\ pc' # pc
  <2>1. Fail /\ pc = "collect" /\ OnlyTraced # {} /\ UNCHANGED disk
    BY <1>5, Zenon DEF RecoverLate, At
  <2>2. ~ Forced
    <3>1. PICK c \in Configs : ~ IsFile("summary", c)
      BY <2>1 DEF OnlyTraced
    <3>2. ~ Aggregates => \A d \in asked : IsFile("summary", d)
      BY <1>1, <2>1 DEF Progress, Closing
    <3> QED BY <3>1, <3>2 DEF Forced, Aggregates
  <2> QED BY <1>1, <2>1, <2>2, FailKeeps
<1>6. CASE Aggregate
  <2>1. pc = "collect" /\ pc' = "finish" /\ UNCHANGED <<disk, left>>
    BY <1>6 DEF Aggregate, At
  <2>2. TypeOK' /\ Progress'
    BY <1>1, <2>1 DEF TypeOK, Progress, Loop, Closing, Aggregates, IsFile
  <2> QED BY <2>1, <2>2 DEF IInv, ForceNeverFails
<1>7. CASE Finish
  <2>1. pc' = "done" /\ UNCHANGED <<disk, left, writes>>
    BY <1>7 DEF Finish
  <2>2. TypeOK' /\ Progress'
    BY <1>1, <2>1 DEF TypeOK, Progress, Loop, Closing
  <2> QED BY <2>1, <2>2 DEF IInv, ForceNeverFails
<1> QED BY <1>2, <1>3, <1>4, <1>5, <1>6, <1>7

LEMMA KillKeeps ==
  ASSUME IInv, Kill
  PROVE  IInv'
<1>1. /\ TypeOK /\ pc' = "down" /\ left' = {} /\ writes' = <<>> /\ open' = FALSE
      /\ UNCHANGED <<disk, flags, asked, usage>>
  BY DEF IInv, Kill
<1>2. TypeOK' /\ Progress'
  BY <1>1 DEF TypeOK, Progress, Loop, Closing
<1> QED BY <1>1, <1>2 DEF IInv, ForceNeverFails

LEMMA InitInv == Init => IInv
<1> SUFFICES ASSUME Init PROVE IInv
  OBVIOUS
<1>1. disk = [p \in Paths |-> disk[p]]
  <2>1. \E g : disk = [p \in Paths |-> g[p]]
    <3> DEFINE g == [p \in Paths |->
                       IF p[2] # Top \/ usage.legacy = {} THEN Missing
                       ELSE [state |-> "whole",
                             rows  |-> IF p[1] = "summary" THEN Standard(usage.legacy)
                                                           ELSE usage.legacy]]
    <3>1. disk = g /\ g = [p \in Paths |-> g[p]]
      BY DEF Init
    <3> HIDE DEF g
    <3> QED BY <3>1
  <2> QED BY <2>1
<1>2. TypeOK /\ Progress
  BY <1>1 DEF Init, TypeOK, Progress, Loop, Closing
<1> QED BY <1>2 DEF IInv, ForceNeverFails, Init

LEMMA InvStep == IInv /\ [Next]_vars => IInv'
<1> SUFFICES ASSUME IInv, [Next]_vars PROVE IInv'
  OBVIOUS
<1>1. CASE StartAny
  BY <1>1, StartKeeps DEF StartAny
<1>2. CASE Kill
  BY <1>2, KillKeeps
<1>3. CASE Step
  BY <1>3, FileStepKeeps, VisitKeeps, MeasureKeeps, CloseKeeps DEF Step
<1>4. CASE UNCHANGED vars
  BY <1>4 DEF vars, process, IInv, TypeOK, Progress, ForceNeverFails, Forced, IsFile, Pending,
              Aggregates, ForceRecompute, SkipExisting, OnlyMissing
<1> QED BY <1>1, <1>2, <1>3, <1>4 DEF Next

LEMMA IInvHolds == Spec => []IInv
BY InitInv, InvStep, PTL DEF Spec

(* A forced run over all configurations never stops at a damaged file,     *)
(* whatever the runs before it have left behind.                           *)
THEOREM ForcedNeverFails == Spec => []ForceNeverFails
<1>1. IInv => ForceNeverFails
  BY DEF IInv
<1> QED BY <1>1, IInvHolds, PTL

-----------------------------------------------------------------------------
(* Resumed runs.  They neither force nor aggregate only, and a file at     *)
(* rest is whole.                                                          *)
LEMMA ResumeFlags ==
  ASSUME Resuming, flags \in usage.flags
  PROVE  ~ ForceRecompute /\ ~ Aggregates
BY DEF Resuming, ForceRecompute, Aggregates

LEMMA RowsOfOne ==
  ASSUME NEW c \in Configs, NEW rows \in OneRow(c)
  PROVE  /\ rows # {} /\ \A r, s \in rows : r = s
         /\ \A r \in rows : r[1] = c
<1>1. PICK kind \in {"standard", "recovered"} : rows = {<<c, kind>>}
  BY DEF OneRow
<1>2. <<c, kind>>[1] = c
  OBVIOUS
<1>3. rows # {} /\ \A r \in rows : r = <<c, kind>>
  BY <1>1
<1> QED BY <1>2, <1>3, Zenon

LEMMA SoundAtRest ==
  ASSUME Sound, writes = <<>>
  PROVE  /\ ~ open
         /\ \A c \in Configs : disk[<<"summary", c>>] = Missing \/ IsSound(c)
         /\ \A c \in Configs : IsFile("summary", c) => IsSound(c)
BY DEF Sound, BeingWritten, IsFile, Missing

(* A step that leaves the files alone.                                     *)
LEMMA RestKeeps ==
  ASSUME Sound, writes = <<>>, UNCHANGED <<disk, open, usage>>, pc' # "down",
         flags' \in usage.flags, asked' # {},
         pc' \in Loop \cup {"collect"} => writes' \in Seq(SoundWrites),
         pc' = "collect" => \A i \in DOMAIN writes' : writes'[i].path[2] \notin asked',
         pc' \in {"collect", "finish", "done"} => \A c \in asked' : IsSound(c),
         pc' \in {"finish", "done"} => ToplevelWritten'
  PROVE  Sound'
<1>1. ~ open /\ \A c \in Configs : disk[<<"summary", c>>] = Missing \/ IsSound(c)
  BY SoundAtRest
<1>2. \A c : IsSound(c)' <=> IsSound(c)
  BY DEF IsSound, IsWhole, RowsIn
<1> QED BY <1>1, <1>2 DEF Sound

LEMMA SummariesOf ==
  ASSUME Resuming, IInv, Sound, writes = <<>>, NEW c \in Configs, IsSound(c)
  PROVE  Summaries # {} /\ OfConfig(Summaries, c) = RowsIn("summary", c)
<1>1. RowsIn("summary", c) \in OneRow(c)
  BY DEF IsSound
<1>2. \A d \in Configs : \A r \in RowsIn("summary", d) : r[1] = d
  BY SoundAtRest, RowsOfOne DEF IsSound, RowsIn, Missing
<1>3. Summaries # {}
  BY <1>1, RowsOfOne DEF Summaries
<1>4. OfConfig(Summaries, c) \subseteq RowsIn("summary", c)
  BY <1>2 DEF OfConfig, Summaries
<1>5. RowsIn("summary", c) \subseteq OfConfig(Summaries, c)
  BY <1>2 DEF OfConfig, Summaries
<1> QED BY <1>3, <1>4, <1>5

-----------------------------------------------------------------------------
(* The second invariant, action by action.                                 *)
LEMMA SoundFileStep ==
  ASSUME IInv, Resuming, Sound, OpenFile \/ CloseFile
  PROVE  Sound'
<1>1. /\ TypeOK /\ writes # <<>>
      /\ UNCHANGED <<flags, asked, left, pc, usage, kills, reruns>>
  BY FileSteps DEF IInv
<1>2. pc \in Loop \cup {"collect", "finish"}
  BY <1>1 DEF TypeOK, Closing
<1> DEFINE p == Head(writes).path
<1>3. \A c \in Configs : p # <<"summary", c>> =>
        /\ disk'[<<"summary", c>>] = disk[<<"summary", c>>]
        /\ IsSound(c)' <=> IsSound(c)
        /\ RowsIn("summary", c)' = RowsIn("summary", c)
  <2> TAKE c \in Configs
  <2> HAVE p # <<"summary", c>>
  <2>1. disk'[<<"summary", c>>] = disk[<<"summary", c>>]
    BY <1>1, FileSteps, ConfigPath DEF Kinds
  <2> QED BY <2>1 DEF IsSound, IsWhole, RowsIn
<1>4. CASE pc \in Loop \cup {"collect"}
  <2>1. writes \in Seq(SoundWrites) /\ writes # <<>>
    BY <1>1, <1>4 DEF Sound
  <2>2. Head(writes) \in SoundWrites /\ p \in Kinds \X Configs /\ p \in Paths
    BY <2>1, AfterHead DEF SoundWrites, ConfigWrites, Paths
  <2>3. /\ OpenFile => writes' = writes /\ open' = TRUE /\ ~ open
        /\ CloseFile => writes' = Tail(writes) /\ open' = FALSE /\ open
    BY DEF OpenFile, CloseFile
  <2>4. writes' \in Seq(SoundWrites) /\ (open' => writes' # <<>>)
    BY <2>1, <2>3, AfterHead
  <2>5. ASSUME NEW c \in Configs, p = <<"summary", c>>
        PROVE  IsSound(c)' \/ BeingWritten(c)'
    <3>1. CASE OpenFile
      <4>1. disk'[<<"summary", c>>] = [state |-> "partial", rows |-> {}]
        BY <1>1, <2>2, <2>5, <3>1, FileSteps
      <4>2. writes' = writes /\ open' /\ Head(writes).path = <<"summary", c>>
        BY <2>3, <2>5, <3>1
      <4> QED BY <1>1, <4>1, <4>2 DEF BeingWritten, RowsIn
    <3>2. CASE CloseFile
      <4>1. disk'[<<"summary", c>>] = [state |-> "whole", rows |-> Head(writes).rows]
        BY <1>1, <2>2, <2>5, <3>2, FileSteps
      <4>2. Head(writes).rows \in OneRow(c)
        BY <2>2, <2>5 DEF SoundWrites
      <4> QED BY <4>1, <4>2 DEF IsSound, IsWhole, RowsIn
    <3> QED BY <3>1, <3>2
  <2>6. ASSUME NEW c \in Configs
        PROVE  (disk[<<"summary", c>>] = Missing)' \/ IsSound(c)' \/ BeingWritten(c)'
    <3>1. CASE p = <<"summary", c>>
      BY <2>5, <3>1
    <3>2. CASE p # <<"summary", c>>
      <4>1. disk[<<"summary", c>>] = Missing \/ IsSound(c)
        BY <3>2 DEF Sound, BeingWritten
      <4> QED BY <1>3, <3>2, <4>1 DEF Missing
    <3> QED BY <3>1, <3>2
  <2>7. ASSUME pc = "collect"
        PROVE  /\ \A i \in DOMAIN writes' : writes'[i].path[2] \notin asked'
               /\ \A c \in asked' : IsSound(c)'
    <3>1. \A i \in DOMAIN writes : writes[i].path[2] \notin asked
      BY <2>7 DEF Sound
    <3>2. \A i \in DOMAIN writes' : writes'[i].path[2] \notin asked'
      <4> TAKE i \in DOMAIN writes'
      <4>1. CASE writes' = writes
        BY <1>1, <3>1, <4>1
      <4>2. CASE writes' = Tail(writes)
        <5>1. i + 1 \in DOMAIN writes /\ writes'[i] = writes[i + 1]
          BY <2>1, <4>2, AfterHead
        <5> QED BY <1>1, <3>1, <5>1
      <4> QED BY <2>3, <4>1, <4>2
    <3>3. p[2] \notin asked
      <4>1. 1 \in DOMAIN writes /\ Head(writes) = writes[1]
        BY <2>1
      <4> QED BY <3>1, <4>1
    <3>4. \A c \in asked : c \in Configs /\ p # <<"summary", c>> /\ IsSound(c)
      BY <1>1, <2>7, <3>3 DEF TypeOK, Sound
    <3> QED BY <1>1, <1>3, <3>2, <3>4
  <2>8. pc' # "down" => flags' \in usage'.flags /\ asked' # {}
    BY <1>1 DEF Sound
  <2>9. pc' \notin {"finish", "done"}
    BY <1>1, <1>4 DEF Loop
  <2> QED BY <1>1, <2>4, <2>6, <2>7, <2>8, <2>9 DEF Sound
<1>5. CASE pc = "finish"
  <2>1. ToplevelWritten /\ \A c \in asked : IsSound(c)
    BY <1>5 DEF Sound
  <2>2. p \in {<<"metrics", Top>>, <<"summary", Top>>}
    BY <1>1, <2>1 DEF ToplevelWritten, Write
  <2>3. ASSUME NEW c \in Configs PROVE p # <<"summary", c>>
    <3>1. p[2] = Top /\ c # Top
      BY <2>2, BaselineAssumption
    <3>2. <<"summary", c>>[2] = c
      OBVIOUS
    <3> HIDE DEF p
    <3> QED BY <3>1, <3>2
  <2>4. Summaries' = Summaries
    BY <1>3, <2>3 DEF Summaries
  <2>5. \A c \in Configs : (disk[<<"summary", c>>] = Missing)' \/ IsSound(c)'
    BY <1>1, <1>3, <2>3 DEF Sound, BeingWritten, Missing
  <2>6. ToplevelWritten' /\ (open' => writes' # <<>>)
    <3>1. CASE OpenFile
      <4>1. writes' = writes
        BY <3>1 DEF OpenFile
      <4> QED BY <1>1, <2>1, <2>4, <4>1 DEF ToplevelWritten
    <3>2. CASE CloseFile
      <4>1. writes' = Tail(writes) /\ open' = FALSE
        BY <3>2 DEF CloseFile
      <4>2. CASE writes = <<Write("summary", Top, Summaries)>>
        <5>1. Head(writes) = Write("summary", Top, Summaries) /\ writes' = <<>>
          BY <4>1, <4>2
        <5>2. p = <<"summary", Top>> /\ p \in Paths /\ Head(writes).rows = Summaries
          BY <5>1 DEF Write, Paths
        <5>3. disk'[<<"summary", Top>>].rows = Summaries
          BY <1>1, <3>2, <5>2, FileSteps
        <5> QED BY <2>4, <4>1, <5>1, <5>3 DEF ToplevelWritten, RowsIn
      <4>3. ASSUME NEW rows,
                   writes = <<Write("metrics", Top, rows), Write("summary", Top, Summaries)>>
            PROVE  writes' = <<Write("summary", Top, Summaries)>>
        BY <4>1, <4>3
      <4> QED BY <1>1, <2>1, <2>4, <4>1, <4>2, <4>3 DEF ToplevelWritten
    <3> QED BY <3>1, <3>2
  <2>7. \A c \in asked : IsSound(c)'
    BY <1>1, <1>3, <2>1, <2>3 DEF TypeOK
  <2>8. /\ pc' = "finish" /\ asked' = asked
        /\ flags' \in usage'.flags /\ asked' # {}
    BY <1>1, <1>5 DEF Sound
  <2> QED BY <2>5, <2>6, <2>7, <2>8 DEF Sound, Loop
<1> QED BY <1>2, <1>4, <1>5

LEMMA SoundStart ==
  ASSUME IInv, Resuming, Sound, NEW f \in usage.flags, NEW configs \in usage.configs,
         Start(f, configs)
  PROVE  Sound'
<1>1. /\ pc \in {"down", "failed", "done"} /\ flags' = f /\ asked' = configs
      /\ pc' = IF "aggregate_only" \in f THEN "migrate" ELSE "config"
      /\ UNCHANGED <<disk, writes, open, usage>>
  BY DEF Start
<1>2. "aggregate_only" \notin f
  BY DEF Resuming
<1>3. writes = <<>> /\ configs # {}
  BY <1>1, BaselineAssumption DEF IInv, TypeOK
<1>4. writes' = <<>> /\ <<>> \in Seq(SoundWrites) /\ pc' = "config" /\ flags' \in usage.flags
  BY <1>1, <1>2, <1>3
<1> QED BY <1>1, <1>3, <1>4, RestKeeps

LEMMA SoundVisit ==
  ASSUME IInv, Resuming, Sound, Skip \/ Recover \/ RunConfig \/ Bench \/ ExportTrace \/ WriteRows
  PROVE  Sound'
<1>1. /\ pc \in Loop /\ writes = <<>> /\ UNCHANGED <<disk, flags, asked, open, usage>>
      /\ (Skip \/ Recover \/ RunConfig) => left # {}
      /\ pc = "config" \/ pc \in {"bench", "trace", "rows"}
      /\ pc = "config" => left # {}
  BY DEF Skip, Recover, RunConfig, Bench, ExportTrace, WriteRows, At, Loop
<1>2. left \subseteq Configs /\ left # {}
  BY <1>1 DEF IInv, TypeOK, Progress
<1>3. Current \in Configs
  BY <1>2, CurrentIsLeft
<1>4. <<>> \in Seq(SoundWrites)
  OBVIOUS
<1>5. pc' \in Loop \cup {"failed"} /\ writes' \in Seq(SoundWrites)
  <2>1. CASE Skip \/ RunConfig
    BY <1>1, <1>4, <2>1 DEF Skip, RunConfig, Loop
  <2>2. CASE Recover
    <3>1. \/ pc' = pc /\ writes' = WritePerConfig(Current, Recovered(Current))
          \/ pc' = "failed" /\ writes' = writes
      BY <2>2 DEF Recover, Fail
    <3>2. WritePerConfig(Current, Recovered(Current)) \in Seq(SoundWrites)
      BY <1>3, PerConfig
    <3> QED BY <1>1, <1>4, <3>1, <3>2
  <2>3. CASE Bench
    BY <1>1, <1>3, <1>4, <2>3, OneWrite DEF Bench, Fail, Loop
  <2>4. CASE ExportTrace
    BY <1>1, <1>3, <1>4, <2>4, OneWrite DEF ExportTrace, Fail, Loop
  <2>5. CASE WriteRows
    BY <1>1, <1>3, <2>5, PerConfig DEF WriteRows, Loop
  <2> QED BY <2>1, <2>2, <2>3, <2>4, <2>5
<1>6. flags' \in usage.flags /\ asked' # {} /\ pc' # "down"
  BY <1>1, <1>5 DEF Sound, Loop
<1> QED BY <1>1, <1>5, <1>6, RestKeeps DEF Loop

LEMMA SoundClose ==
  ASSUME IInv, Resuming, Sound, LoopEnds \/ Migrate \/ RecoverLate \/ Aggregate \/ Finish
  PROVE  Sound'
<1>1. TypeOK /\ Progress /\ writes = <<>> /\ UNCHANGED <<flags, asked, open, usage>>
  BY DEF IInv, LoopEnds, Migrate, RecoverLate, Aggregate, Finish, At
<1>2. pc \in {"config"} \cup Closing
  BY DEF LoopEnds, Migrate, RecoverLate, Aggregate, Finish, At, Closing
<1>3. flags \in usage.flags /\ asked # {} /\ asked \subseteq Configs /\ ~ Aggregates
  BY <1>1, <1>2, ResumeFlags DEF Sound, Closing, TypeOK
<1>4. pc \in Closing => \A c \in asked : IsSound(c)
  BY <1>1, <1>3, SoundAtRest DEF Progress
<1>5. CASE LoopEnds
  BY <1>1, <1>3, <1>5, RestKeeps DEF LoopEnds, Loop
<1>6. CASE Migrate
  <2>1. pc = "migrate" /\ pc' = "collect" /\ disk' = disk
    BY <1>1, <1>3, <1>6, MigrateKeepsFiles DEF Migrate, At
  <2>2. PICK c \in asked : IsSound(c)
    BY <1>3, <1>4, <2>1 DEF Closing
  <2>3. AlreadySplit
    <3>1. RowsIn("summary", c) # {}
      BY <1>3, <2>2, RowsOfOne DEF IsSound
    <3> QED BY <1>3, <3>1 DEF AlreadySplit, Remigrate, Aggregates
  <2>4. writes' = <<>>
    BY <1>6, <2>3 DEF Migrate
  <2>5. <<>> \in Seq(SoundWrites) /\ \A i \in DOMAIN <<>> : FALSE
    OBVIOUS
  <2> QED BY <1>1, <1>3, <1>4, <2>1, <2>4, <2>5, RestKeeps DEF Closing
<1>7. CASE RecoverLate
  <2>1. pc = "collect" /\ disk' = disk /\ OnlyTraced # {}
    BY <1>7 DEF RecoverLate, At
  <2>2. CASE pc' = "failed"
    BY <1>1, <1>3, <2>1, <2>2, RestKeeps DEF Loop
  <2>3. CASE pc' # "failed"
    <3> DEFINE c == CHOOSE d \in OnlyTraced : \A e \in OnlyTraced : d <= e
    <3>1. writes' = WritePerConfig(c, Recovered(c)) /\ pc' = "collect"
      BY <1>7, <2>1, <2>3 DEF RecoverLate, Fail
    <3>2. c \in OnlyTraced
      <4>1. OnlyTraced \subseteq Configs
        BY DEF OnlyTraced
      <4> QED BY <2>1, <4>1, FirstConfig
    <3> HIDE DEF c
    <3>3. c \in Configs /\ ~ IsFile("summary", c)
      BY <3>2 DEF OnlyTraced
    <3>4. c \notin asked
      BY <1>1, <1>3, <2>1, <3>3 DEF Progress, Closing
    <3>5. /\ writes' \in Seq(SoundWrites)
          /\ \A i \in DOMAIN writes' : writes'[i].path[2] \notin asked
      BY <3>1, <3>3, <3>4, PerConfig
    <3> QED BY <1>1, <1>3, <1>4, <2>1, <3>1, <3>5, RestKeeps DEF Closing
  <2> QED BY <2>2, <2>3
<1>8. CASE Aggregate
  <2>1. pc = "collect" /\ pc' = "finish" /\ disk' = disk
    BY <1>8 DEF Aggregate, At
  <2>2. Summaries # {}
    BY <1>1, <1>3, <1>4, <2>1, SummariesOf DEF Closing
  <2>3. writes' = <<Write("metrics", Top, AllMetrics), Write("summary", Top, Summaries)>>
    BY <1>8, <2>2 DEF Aggregate
  <2>4. Summaries' = Summaries
    BY <2>1 DEF Summaries, RowsIn
  <2>5. ToplevelWritten'
    BY <2>3, <2>4 DEF ToplevelWritten
  <2> QED BY <1>1, <1>3, <1>4, <2>1, <2>5, RestKeeps DEF Closing, Loop
<1>9. CASE Finish
  <2>1. pc = "finish" /\ pc' = "done" /\ disk' = disk /\ writes' = writes
    BY <1>9 DEF Finish, At
  <2>2. ToplevelWritten'
    BY <2>1 DEF Sound, ToplevelWritten, Summaries, RowsIn
  <2> QED BY <1>1, <1>3, <1>4, <2>1, <2>2, RestKeeps DEF Closing, Loop
<1> QED BY <1>5, <1>6, <1>7, <1>8, <1>9

(* A process that has a file open is not killed, so no file stays partial. *)
LEMMA SoundKill ==
  ASSUME IInv, Resuming, Sound, Kill
  PROVE  Sound'
<1>1. /\ ~ open /\ pc' = "down" /\ writes' = <<>> /\ open' = FALSE
      /\ UNCHANGED <<disk, flags, asked, usage>>
  BY DEF Kill, Resuming
<1>2. \A c \in Configs : disk[<<"summary", c>>] = Missing \/ IsSound(c)
  BY <1>1 DEF Sound, BeingWritten
<1>3. \A c \in Configs : (disk[<<"summary", c>>] = Missing)' \/ IsSound(c)'
  BY <1>1, <1>2 DEF IsSound, IsWhole, RowsIn, Missing
<1> QED BY <1>1, <1>3 DEF Sound, Loop

LEMMA SoundInit == Init => RInv
<1> SUFFICES ASSUME Init PROVE Sound
  BY DEF RInv
<1>1. \A c \in Configs : disk[<<"summary", c>>] = Missing
  <2> TAKE c \in Configs
  <2>1. <<"summary", c>> \in Paths /\ <<"summary", c>>[2] # Top
    BY ConfigPath DEF Kinds
  <2> QED BY <2>1 DEF Init
<1> QED BY <1>1 DEF Init, Sound, Loop

LEMMA RInvStep == IInv /\ RInv /\ [Next]_vars => RInv'
<1> SUFFICES ASSUME IInv, RInv, [Next]_vars, Resuming' PROVE Sound'
  BY DEF RInv
<1>1. usage' = usage
  BY DEF Next, StartAny, Start, Step, OpenFile, CloseFile, Skip, Recover, RunConfig, Bench, ExportTrace,
         WriteRows, LoopEnds, Migrate, RecoverLate, Aggregate, Finish, Kill, vars
<1>2. Resuming /\ Sound
  BY <1>1 DEF Resuming, RInv
<1>3. CASE StartAny
  BY <1>2, <1>3, SoundStart DEF StartAny
<1>4. CASE Kill
  BY <1>2, <1>4, SoundKill
<1>5. CASE Step
  BY <1>2, <1>5, SoundFileStep, SoundVisit, SoundClose DEF Step
<1>6. CASE UNCHANGED vars
  BY <1>2, <1>6 DEF vars, process, Sound, IsSound, IsWhole, RowsIn, BeingWritten, ToplevelWritten,
                    Summaries
<1> QED BY <1>3, <1>4, <1>5, <1>6 DEF Next

(* When a run that resumes returns 0, the top-level summary has exactly    *)
(* one row for every configuration that was asked for.                     *)
THEOREM ResumedIsComplete == Spec => []DoneIsComplete
<1>1. IInv /\ RInv => DoneIsComplete
  <2> SUFFICES ASSUME IInv, RInv, pc = "done", Resuming, NEW c \in asked
               PROVE  /\ RowsIn("summary", c) # {}
                      /\ OfConfig(RowsIn("summary", Top), c) = RowsIn("summary", c)
                      /\ \A r, s \in RowsIn("summary", c) : r = s
    BY DEF DoneIsComplete
  <2>1. Sound /\ writes = <<>> /\ c \in Configs
    BY DEF RInv, IInv, TypeOK
  <2>2. IsSound(c) /\ ToplevelWritten
    BY <2>1 DEF Sound
  <2>3. RowsIn("summary", Top) = Summaries
    BY <2>1, <2>2 DEF ToplevelWritten
  <2>4. RowsIn("summary", c) \in OneRow(c)
    BY <2>2 DEF IsSound
  <2> QED BY <2>1, <2>2, <2>3, <2>4, SummariesOf, RowsOfOne
<1> QED BY <1>1, IInvHolds, SoundInit, RInvStep, PTL DEF Spec

-----------------------------------------------------------------------------
(* What FlattenSeq of the library makes of sequences of writes: a sequence *)
(* that has all of them.                                                   *)
FlattenStep(q, f, i) == IF i = 1 THEN q[i] ELSE f[i - 1] \o q[i]

Flattens(q, n, f) == f = [i \in 1 .. n |-> FlattenStep(q, f, i)]

LEMMA LeastNumber ==
  ASSUME NEW S, S \subseteq Nat, S # {}
  PROVE  \E m \in S : \A n \in S : m <= n
<1>1. \E m \in S : \A n \in S : ~ (<<n, m>> \in OpToRel(<, Nat))
  BY NatLessThanWellFounded, WFMin, Zenon
<1>2. PICK m \in S : \A n \in S : ~ (<<n, m>> \in OpToRel(<, Nat))
  BY <1>1
<1>3. \A n \in S : m <= n
  <2> TAKE n \in S
  <2>1. m \in Nat /\ n \in Nat
    OBVIOUS
  <2>2. ~ (n < m)
    BY <1>2, <2>1 DEF OpToRel
  <2> QED BY <2>1, <2>2
<1> QED BY <1>3

LEMMA FlattenExists ==
  ASSUME NEW q, NEW n \in Nat
  PROVE  \E f : Flattens(q, n, f)
<1> DEFINE Built(m) == \E f : Flattens(q, m, f)
           bad == {m \in Nat : ~ Built(m)}
<1>1. Built(0)
  <2> DEFINE f == [i \in 1 .. 0 |-> {}]
  <2>1. f = [i \in 1 .. 0 |-> FlattenStep(q, f, i)]
    <3> HIDE DEF f
    <3>1. DOMAIN f = 1 .. 0 /\ f = [i \in 1 .. 0 |-> f[i]]
      BY DEF f
    <3>2. \A i \in 1 .. 0 : FALSE
      OBVIOUS
    <3> QED BY <3>1, <3>2
  <2> HIDE DEF f
  <2> QED BY <2>1 DEF Flattens
<1>2. ASSUME NEW m \in Nat, Built(m) PROVE Built(m + 1)
  <2>1. PICK g : g = [i \in 1 .. m |-> FlattenStep(q, g, i)]
    BY <1>2 DEF Flattens
  <2> DEFINE f == [i \in 1 .. m + 1 |-> FlattenStep(q, g, i)]
  <2>2. \A i \in 1 .. m : f[i] = g[i]
    BY <2>1
  <2>3. \A i \in 1 .. m + 1 : FlattenStep(q, g, i) = FlattenStep(q, f, i)
    <3> TAKE i \in 1 .. m + 1
    <3>1. i = 1 \/ i - 1 \in 1 .. m
      OBVIOUS
    <3> HIDE DEF f
    <3> QED BY <2>2, <3>1 DEF FlattenStep
  <2>4. f = [i \in 1 .. m + 1 |-> f[i]] /\ \A i \in 1 .. m + 1 : f[i] = FlattenStep(q, g, i)
    OBVIOUS
  <2> HIDE DEF f
  <2>5. f = [i \in 1 .. m + 1 |-> FlattenStep(q, f, i)]
    BY <2>3, <2>4
  <2> QED BY <2>5 DEF Flattens
<1> HIDE DEF Built
<1>3. bad = {}
  <2> SUFFICES ASSUME bad # {} PROVE FALSE
    OBVIOUS
  <2>1. PICK m \in bad : \A k \in bad : m <= k
    BY LeastNumber
  <2>2. m # 0
    BY <1>1
  <2>3. m - 1 \in Nat /\ m - 1 \notin bad
    BY <2>1, <2>2
  <2>4. Built(m - 1 + 1)
    BY <1>2, <2>3
  <2>5. m - 1 + 1 = m
    OBVIOUS
  <2> QED BY <2>4, <2>5
<1> QED BY <1>3 DEF Built

(* An element of one sequence is an element of the other.                  *)
In(s, t) == \A i \in DOMAIN s : \E j \in DOMAIN t : t[j] = s[i]

LEMMA InIsTransitive ==
  ASSUME NEW s, NEW t, NEW u, In(s, t), In(t, u)
  PROVE  In(s, u)
BY DEF In

LEMMA JoinedHasBoth ==
  ASSUME NEW S, NEW s \in Seq(S), NEW t \in Seq(S)
  PROVE  s \o t \in Seq(S) /\ In(s, s \o t) /\ In(t, s \o t)
<1>1. /\ s \o t \in Seq(S)
      /\ \A i \in DOMAIN s : i \in DOMAIN (s \o t) /\ (s \o t)[i] = s[i]
      /\ \A i \in DOMAIN t : Len(s) + i \in DOMAIN (s \o t) /\ (s \o t)[Len(s) + i] = t[i]
  OBVIOUS
<1> DEFINE u == s \o t
<1> HIDE DEF u
<1> QED BY <1>1 DEF In, u

LEMMA Flattened ==
  ASSUME NEW S, NEW n \in Nat, NEW q \in [1 .. n -> Seq(S)]
  PROVE  /\ FlattenSeq(q) \in Seq(S)
         /\ \A k \in 1 .. n : In(q[k], FlattenSeq(q))
<1>1. Len(q) = n /\ DOMAIN q = 1 .. n
  <2>1. q \in Seq(Seq(S)) /\ DOMAIN q = 1 .. n
    OBVIOUS
  <2> QED BY <2>1
<1>2. CASE n = 0
  <2>1. FlattenSeq(q) = q
    BY <1>1, <1>2 DEF FlattenSeq
  <2>2. q \in Seq(S)
    BY <1>2
  <2> QED BY <1>2, <2>1, <2>2
<1>3. CASE n # 0
  <2> DEFINE f == CHOOSE f : f = [i \in 1 .. n |-> IF i = 1 THEN q[i] ELSE f[i - 1] \o q[i]]
  <2>1. FlattenSeq(q) = f[n]
    BY <1>1, <1>3, Zenon DEF FlattenSeq
  <2>2. \E g : g = [i \in 1 .. n |-> IF i = 1 THEN q[i] ELSE g[i - 1] \o q[i]]
    BY FlattenExists, Zenon DEF Flattens, FlattenStep
  <2>3. f = [i \in 1 .. n |-> IF i = 1 THEN q[i] ELSE f[i - 1] \o q[i]]
    BY <2>2, Zenon
  <2> HIDE DEF f
  <2>4. \A i \in 1 .. n : f[i] = IF i = 1 THEN q[i] ELSE f[i - 1] \o q[i]
    BY <2>3
  <2> DEFINE Good(i) == f[i] \in Seq(S) /\ \A k \in 1 .. i : In(q[k], f[i])
             bad == {i \in 1 .. n : ~ Good(i)}
  <2>5. Good(1)
    <3>1. f[1] = q[1] /\ 1 \in 1 .. n
      BY <1>3, <2>4
    <3>2. \A k \in 1 .. 1 : k = 1
      OBVIOUS
    <3> QED BY <3>1, <3>2 DEF In
  <2>6. ASSUME NEW i \in 1 .. n, i # 1, Good(i - 1) PROVE Good(i)
    <3> DEFINE p == f[i - 1]
    <3>1. f[i] = p \o q[i] /\ p \in Seq(S) /\ q[i] \in Seq(S)
      BY <2>4, <2>6
    <3>2. \A k \in 1 .. i - 1 : In(q[k], p)
      BY <2>6
    <3> HIDE DEF p
    <3>6. f[i] \in Seq(S) /\ In(p, f[i]) /\ In(q[i], f[i])
      BY <3>1, JoinedHasBoth
    <3>3. \A k \in 1 .. i - 1 : In(q[k], f[i])
      BY <3>2, <3>6, InIsTransitive
    <3>4. In(q[i], f[i])
      BY <3>6
    <3>5. \A k \in 1 .. i : k = i \/ k \in 1 .. i - 1
      OBVIOUS
    <3> QED BY <3>3, <3>4, <3>5, <3>6
  <2> HIDE DEF Good
  <2>7. bad = {}
    <3> SUFFICES ASSUME bad # {} PROVE FALSE
      OBVIOUS
    <3>4. bad \subseteq Nat
      OBVIOUS
    <3>1. PICK i \in bad : \A k \in bad : i <= k
      <4> HIDE DEF bad
      <4> QED BY <3>4, LeastNumber
    <3>2. i # 1
      BY <2>5
    <3>3. i - 1 \in 1 .. n /\ i - 1 \notin bad
      BY <3>1, <3>2
    <3> QED BY <2>6, <3>1, <3>2, <3>3
  <2>8. Good(n)
    BY <1>3, <2>7
  <2> QED BY <2>1, <2>8 DEF Good
<1> QED BY <1>2, <1>3

-----------------------------------------------------------------------------
(* The rows of an older version, as long as no run was killed.             *)
Undisturbed == kills = 0 /\ usage.legacy # {}

Older == {row[1] : row \in usage.legacy}   \* what the older version measured

NewRows == {row \in Rows : row[2] \in {"standard", "zk", "recovered"}}

GoodWrites ==
  {w \in ConfigWrites : w.path[1] = "summary" => /\ w.rows # {}
                                                 /\ \A r \in w.rows : r[1] = w.path[2]}

HasRows(c) ==
  /\ IsWhole("summary", c) /\ RowsIn("summary", c) # {}
  /\ \A r \in RowsIn("summary", c) : r[1] = c

OldRowsAtTop == \A c \in Older : OfConfig(RowsIn("summary", Top), c) # {}
NewRowsAtTop == RowsIn("summary", Top) # {} /\ RowsIn("summary", Top) \subseteq NewRows
NewSummaries == \A c \in Configs : RowsIn("summary", c) \subseteq NewRows

(* Every old row was split, or none was.                                   *)
Split == \A c \in Older : HasRows(c) \/ Pending(c)
Unsplit ==
  /\ NewSummaries
  /\ \A i \in DOMAIN writes : writes[i].path[1] = "summary" => writes[i].rows \subseteq NewRows

SomeRows == \E c \in Configs : HasRows(c) \/ Pending(c)

(* No file is ever damaged, so no run fails; and what was split stays so.  *)
Kept ==
  /\ open => writes # <<>>
  /\ \A p \in Paths : \/ disk[p].state \in {"none", "whole"}
                      \/ open /\ writes # <<>> /\ Head(writes).path = p
  /\ \A p \in Paths : disk[p].rows \subseteq Rows
  /\ \A c \in Configs : \/ disk[<<"summary", c>>] = Missing
                        \/ HasRows(c) \/ BeingWritten(c)
  /\ pc # "failed"
  /\ pc \in Loop \cup {"collect"} => writes \in Seq(GoodWrites)
  /\ pc # "finish" => /\ OldRowsAtTop \/ NewRowsAtTop
                      /\ (Split /\ OldRowsAtTop) \/ Unsplit
  /\ pc = "collect" => SomeRows
  /\ pc = "finish" => /\ Summaries # {} /\ ToplevelWritten
                      /\ (\A c \in Older : HasRows(c)) \/ NewSummaries
                      /\ \A i \in DOMAIN writes : writes[i].rows \subseteq Rows

(* A row is an old one, or its configuration was measured.                 *)
Known(row) == row \in usage.legacy \/ IsFile("cache", row[1])

Sourced ==
  /\ \A p \in Paths : \A row \in disk[p].rows : Known(row)
  /\ \A i \in DOMAIN writes : \A row \in writes[i].rows : Known(row)
  /\ \A c \in Configs : IsFile("trace", c) => IsFile("cache", c)
  /\ \A i \in DOMAIN writes, c \in Configs :
       writes[i].path = <<"trace", c>> => IsFile("cache", c)
  /\ pc = "trace" => \/ IsFile("cache", Current)
                     \/ writes # <<>> /\ Head(writes).path = <<"cache", Current>>
  /\ pc = "rows" => IsFile("cache", Current)

KInv == kills \in Nat /\ (Undisturbed => Kept /\ Sourced)

LEMMA OlderConfigs ==
  ASSUME usage \in Usages
  PROVE  /\ Older \subseteq Configs
         /\ usage.legacy \subseteq Rows /\ usage.legacy \cap NewRows = {}
         /\ \A c \in Older : OfConfig(Standard(usage.legacy), c) # {}
<1>1. \A row \in usage.legacy :
        row \in Configs \X {"old", "old_zk"} /\ <<row[1], "old">> \in usage.legacy
  BY LegacyAssumption, Zenon
<1>2. \A row \in usage.legacy : row \in Rows /\ row \notin NewRows /\ row[1] \in Configs
  BY <1>1 DEF Rows, NewRows
<1>3. ASSUME NEW c \in Older PROVE OfConfig(Standard(usage.legacy), c) # {}
  <2>1. PICK row \in usage.legacy : row[1] = c
    BY DEF Older
  <2>2. <<c, "old">> \in usage.legacy
    BY <1>1, <2>1
  <2> QED BY <2>2 DEF OfConfig, Standard
<1> QED BY <1>2, <1>3 DEF Older

LEMMA SoundIsGood ==
  ASSUME NEW w, w \in Seq(SoundWrites)
  PROVE  /\ w \in Seq(GoodWrites)
         /\ \A i \in DOMAIN w : w[i].path[1] = "summary" => w[i].rows \subseteq NewRows
<1>1. SoundWrites \subseteq GoodWrites
  <2> SUFFICES ASSUME NEW x \in SoundWrites, x.path[1] = "summary"
               PROVE  x.rows # {} /\ \A r \in x.rows : r[1] = x.path[2]
    BY DEF GoodWrites, SoundWrites
  <2>1. x.rows \in OneRow(x.path[2]) /\ x.path[2] \in Configs
    BY DEF SoundWrites, ConfigWrites
  <2> QED BY <2>1, RowsOfOne
<1>2. ASSUME NEW x \in SoundWrites, x.path[1] = "summary" PROVE x.rows \subseteq NewRows
  <2>1. x.rows \in OneRow(x.path[2]) /\ x.path[2] \in Configs
    BY <1>2 DEF SoundWrites, ConfigWrites
  <2> QED BY <2>1 DEF OneRow, NewRows, Rows
<1>3. \A i \in DOMAIN w : w[i] \in SoundWrites
  OBVIOUS
<1> QED BY <1>1, <1>2, <1>3

LEMMA KeptAtRest ==
  ASSUME Kept, writes = <<>>
  PROVE  /\ ~ open
         /\ \A p \in Paths : disk[p].state \in {"none", "whole"}
         /\ \A c \in Configs : disk[<<"summary", c>>] = Missing \/ HasRows(c)
         /\ \A c \in Configs : IsFile("summary", c) => HasRows(c)
         /\ \A k \in Kinds, c \in Configs : IsFile(k, c) => IsWhole(k, c)
<1>1. /\ ~ open
      /\ \A p \in Paths : disk[p].state \in {"none", "whole"}
      /\ \A c \in Configs : disk[<<"summary", c>>] = Missing \/ HasRows(c)
  BY DEF Kept, BeingWritten
<1>2. \A k \in Kinds, c \in Configs : IsFile(k, c) => IsWhole(k, c)
  BY <1>1, ConfigPath DEF IsFile, IsWhole
<1> QED BY <1>1, <1>2 DEF IsFile, Missing

LEMMA ToplevelSeq ==
  ASSUME ToplevelWritten
  PROVE  \E S : writes \in Seq(S)
<1> DEFINE b == Write("summary", Top, Summaries)
<1>1. ASSUME NEW rows, writes = <<Write("metrics", Top, rows), b>>
      PROVE  \E S : writes \in Seq(S)
  <2> DEFINE a == Write("metrics", Top, rows)
  <2> HIDE DEF a, b
  <2>1. <<a, b>> \in Seq({a, b})
    OBVIOUS
  <2> QED BY <1>1, <2>1 DEF a
<1>2. <<b>> \in Seq({b}) /\ <<>> \in Seq({b})
  <2> HIDE DEF b
  <2> QED OBVIOUS
<1> QED BY <1>1, <1>2 DEF ToplevelWritten

LEMMA WaitingWrites ==
  ASSUME TypeOK, Kept, writes # <<>>
  PROVE  /\ \E S : writes \in Seq(S)
         /\ \A i \in DOMAIN writes : writes[i].rows \subseteq Rows
<1>1. CASE pc \in Loop \cup {"collect"}
  <2>1. writes \in Seq(GoodWrites)
    BY <1>1 DEF Kept
  <2>2. \A w \in GoodWrites : w.rows \subseteq Rows
    BY DEF GoodWrites, ConfigWrites
  <2> QED BY <2>1, <2>2
<1>2. CASE pc = "finish"
  BY <1>2, ToplevelSeq DEF Kept
<1> QED BY <1>1, <1>2 DEF TypeOK, Closing

(* The write a process has before it, and the disk behind it.              *)
LEMMA KeptFiles ==
  ASSUME IInv, Kept, OpenFile \/ CloseFile
  PROVE  /\ writes # <<>>
         /\ Head(writes).path \in Paths /\ Head(writes).rows \subseteq Rows
         /\ (open => writes # <<>>)'
         /\ (\A p \in Paths : \/ disk[p].state \in {"none", "whole"}
                              \/ open /\ writes # <<>> /\ Head(writes).path = p)'
         /\ (\A p \in Paths : disk[p].rows \subseteq Rows)'
<1>1. /\ TypeOK /\ writes # <<>>
      /\ UNCHANGED <<flags, asked, left, pc, usage, kills, reruns>>
  BY FileSteps DEF IInv
<1> DEFINE p == Head(writes).path
<1>2. p \in Paths /\ Head(writes).rows \subseteq Rows
  <2>1. CASE pc \in Loop \cup {"collect"}
    <3>1. writes \in Seq(GoodWrites)
      BY <2>1 DEF Kept
    <3>2. Head(writes) \in ConfigWrites
      BY <1>1, <3>1, AfterHead DEF GoodWrites
    <3> QED BY <3>2 DEF ConfigWrites, Paths
  <2>2. CASE pc = "finish"
    <3>1. ToplevelWritten /\ \A i \in DOMAIN writes : writes[i].rows \subseteq Rows
      BY <2>2 DEF Kept
    <3>2. Head(writes) = writes[1] /\ 1 \in DOMAIN writes
          /\ Head(writes).path \in {<<"metrics", Top>>, <<"summary", Top>>}
      BY <1>1, <3>1 DEF ToplevelWritten, Write
    <3> QED BY <3>1, <3>2 DEF Paths
  <2> QED BY <1>1, <2>1, <2>2 DEF TypeOK, Closing
<1>3. /\ OpenFile => writes' = writes /\ open' = TRUE /\ ~ open
      /\ CloseFile => writes' = Tail(writes) /\ open' = FALSE /\ open
  BY DEF OpenFile, CloseFile
<1>4. ASSUME NEW q \in Paths
      PROVE  /\ disk'[q].rows \subseteq Rows
             /\ \/ disk'[q].state \in {"none", "whole"}
                \/ open' /\ writes' # <<>> /\ Head(writes').path = q
  <2>1. disk[q].rows \subseteq Rows
    BY DEF Kept
  <2>2. CASE q # p
    <3>1. disk'[q] = disk[q]
      BY <1>1, <2>2, FileSteps
    <3>2. disk[q].state \in {"none", "whole"}
      BY <2>2 DEF Kept
    <3> QED BY <2>1, <3>1, <3>2
  <2>3. CASE q = p /\ OpenFile
    <3>1. disk'[p] = [state |-> "partial", rows |-> {}]
      BY <1>1, <1>2, <2>3, FileSteps
    <3>2. open' /\ writes' # <<>> /\ Head(writes').path = q
      BY <1>1, <1>3, <2>3
    <3> QED BY <2>3, <3>1, <3>2
  <2>4. CASE q = p /\ CloseFile
    <3>1. disk'[p] = [state |-> "whole", rows |-> Head(writes).rows]
      BY <1>1, <1>2, <2>4, FileSteps
    <3> QED BY <1>2, <2>4, <3>1
  <2> QED BY <2>2, <2>3, <2>4
<1> QED BY <1>1, <1>2, <1>3, <1>4

LEMMA KeptFileStep ==
  ASSUME IInv, Kept, OpenFile \/ CloseFile
  PROVE  Kept'
<1>1. /\ TypeOK /\ writes # <<>> /\ usage \in Usages
      /\ UNCHANGED <<flags, asked, left, pc, usage, kills, reruns>>
  BY FileSteps DEF IInv, TypeOK
<1>2. pc \in Loop \cup {"collect", "finish"}
  BY <1>1 DEF TypeOK, Closing
<1>0. Older \subseteq Configs /\ Older' = Older
  BY <1>1, OlderConfigs DEF Older
<1> DEFINE p == Head(writes).path
<1>3. \A c \in Configs \cup {Top} : p # <<"summary", c>> =>
        /\ disk'[<<"summary", c>>] = disk[<<"summary", c>>]
        /\ HasRows(c)' <=> HasRows(c)
        /\ RowsIn("summary", c)' = RowsIn("summary", c)
  <2> TAKE c \in Configs \cup {Top}
  <2> HAVE p # <<"summary", c>>
  <2>0. <<"summary", c>> \in Paths
    BY DEF Paths, Kinds
  <2>1. disk'[<<"summary", c>>] = disk[<<"summary", c>>]
    BY <1>1, <2>0, FileSteps
  <2> QED BY <2>1 DEF HasRows, IsWhole, RowsIn
<1>4. CASE pc \in Loop \cup {"collect"}
  <2>1. writes \in Seq(GoodWrites) /\ writes # <<>>
    BY <1>1, <1>4 DEF Kept
  <2>2. Head(writes) \in GoodWrites /\ p \in Kinds \X Configs /\ p \in Paths
    BY <2>1, AfterHead DEF GoodWrites, ConfigWrites, Paths
  <2>3. /\ OpenFile => writes' = writes /\ open' = TRUE /\ ~ open
        /\ CloseFile => writes' = Tail(writes) /\ open' = FALSE /\ open
    BY DEF OpenFile, CloseFile
  <2>4. writes' \in Seq(GoodWrites)
    BY <2>1, <2>3, AfterHead
  <2>5. ASSUME NEW c \in Configs, p = <<"summary", c>>
        PROVE  /\ OpenFile => BeingWritten(c)' /\ Pending(c)'
               /\ CloseFile => HasRows(c)'
    <3>1. CASE OpenFile
      <4>1. disk'[<<"summary", c>>] = [state |-> "partial", rows |-> {}]
        BY <1>1, <2>2, <2>5, <3>1, FileSteps
      <4>2. writes' = writes /\ open' /\ Head(writes).path = <<"summary", c>>
        BY <2>3, <2>5, <3>1
      <4>3. 1 \in DOMAIN writes' /\ writes'[1] = Head(writes)
        BY <2>1, <4>2
      <4>4. Pending(c)'
        BY <4>2, <4>3 DEF Pending
      <4>5. ~ CloseFile
        BY <2>3, <3>1
      <4> QED BY <1>1, <4>1, <4>2, <4>4, <4>5 DEF BeingWritten, RowsIn
    <3>2. CASE CloseFile
      <4>1. disk'[<<"summary", c>>] = [state |-> "whole", rows |-> Head(writes).rows]
        BY <1>1, <2>2, <2>5, <3>2, FileSteps
      <4>2. Head(writes).path[1] = "summary" /\ Head(writes).path[2] = c
        BY <2>5
      <4>3. Head(writes).rows # {} /\ \A r \in Head(writes).rows : r[1] = c
        BY <2>2, <4>2 DEF GoodWrites
      <4>4. ~ OpenFile
        BY <2>3, <3>2
      <4> QED BY <4>1, <4>3, <4>4 DEF HasRows, IsWhole, RowsIn
    <3> QED BY <3>1, <3>2
  <2>6. ASSUME NEW c \in Configs
        PROVE  (disk[<<"summary", c>>] = Missing)' \/ HasRows(c)' \/ BeingWritten(c)'
    <3>1. CASE p = <<"summary", c>>
      BY <2>5, <3>1
    <3>2. CASE p # <<"summary", c>>
      <4>1. disk[<<"summary", c>>] = Missing \/ HasRows(c)
        BY <3>2 DEF Kept, BeingWritten
      <4> QED BY <1>3, <3>2, <4>1 DEF Missing
    <3> QED BY <3>1, <3>2
  <2>7. ASSUME NEW c \in Configs, HasRows(c) \/ Pending(c)
        PROVE  HasRows(c)' \/ Pending(c)'
    <3>1. c \in Configs /\ (HasRows(c) \/ Pending(c))
      BY <2>7
    <3>2. CASE p = <<"summary", c>>
      BY <2>5, <3>1, <3>2
    <3>3. CASE p # <<"summary", c>> /\ HasRows(c)
      BY <1>3, <3>1, <3>3
    <3>4. CASE p # <<"summary", c>> /\ Pending(c)
      <4>1. PICK i \in DOMAIN writes : writes[i].path = <<"summary", c>>
        BY <3>4 DEF Pending
      <4>2. i # 1
        BY <2>1, <3>4, <4>1, AfterHead
      <4>3. CASE OpenFile
        BY <2>3, <4>1, <4>3 DEF Pending
      <4>4. CASE CloseFile
        <5>1. i - 1 \in DOMAIN writes' /\ writes'[i - 1] = writes[i]
          BY <2>1, <2>3, <4>2, <4>4, AfterHead
        <5> QED BY <4>1, <5>1 DEF Pending
      <4> QED BY <4>3, <4>4
    <3> QED BY <3>1, <3>2, <3>3, <3>4
  <2>8. RowsIn("summary", Top)' = RowsIn("summary", Top)
    <3>1. p # <<"summary", Top>>
      <4>1. p[2] \in Configs /\ Top \notin Configs
        BY <2>2, BaselineAssumption
      <4> HIDE DEF p
      <4> QED BY <4>1
    <3> QED BY <1>3, <3>1
  <2>9. /\ OldRowsAtTop' <=> OldRowsAtTop
        /\ NewRowsAtTop' <=> NewRowsAtTop
        /\ NewRows' = NewRows
    BY <1>0, <2>8 DEF OldRowsAtTop, NewRowsAtTop, OfConfig, NewRows, Rows
  <2>10. Split => Split'
    BY <1>0, <2>7 DEF Split
  <2>11. SomeRows => SomeRows'
    BY <2>7 DEF SomeRows
  <2>12. Unsplit => Unsplit'
    <3> SUFFICES ASSUME Unsplit PROVE Unsplit'
      OBVIOUS
    <3>1. ASSUME NEW i \in DOMAIN writes', writes'[i].path[1] = "summary"
          PROVE  writes'[i].rows \subseteq NewRows
      <4>1. \E k \in DOMAIN writes : writes'[i] = writes[k]
        BY <2>1, <2>3, AfterHead
      <4> QED BY <3>1, <4>1 DEF Unsplit
    <3>2. ASSUME NEW c \in Configs PROVE RowsIn("summary", c)' \subseteq NewRows
      <4>1. RowsIn("summary", c) \subseteq NewRows
        BY DEF Unsplit, NewSummaries
      <4>2. CASE p # <<"summary", c>>
        BY <1>3, <4>1, <4>2
      <4>3. CASE p = <<"summary", c>>
        <5>1. Head(writes) = writes[1] /\ 1 \in DOMAIN writes
          BY <2>1, AfterHead
        <5>2. writes[1].path[1] = "summary"
          BY <4>3, <5>1
        <5>3. Head(writes).rows \subseteq NewRows
          BY <5>1, <5>2 DEF Unsplit
        <5>4. /\ OpenFile => disk'[p] = [state |-> "partial", rows |-> {}]
              /\ CloseFile => disk'[p] = [state |-> "whole", rows |-> Head(writes).rows]
          BY <1>1, <2>2, FileSteps
        <5>5. disk'[p].rows \subseteq NewRows
          BY <5>3, <5>4
        <5> QED BY <4>3, <5>5 DEF RowsIn
      <4> QED BY <4>2, <4>3
    <3> QED BY <2>9, <3>1, <3>2 DEF Unsplit, NewSummaries
  <2>13. (OldRowsAtTop \/ NewRowsAtTop) /\ ((Split /\ OldRowsAtTop) \/ Unsplit)
    BY <1>4 DEF Kept, Loop
  <2>14. pc' = pc /\ pc # "failed" /\ pc # "finish"
    BY <1>1, <1>4 DEF Kept, Loop
  <2>15. pc = "collect" => SomeRows
    BY DEF Kept
  <2> QED BY <2>4, <2>6, <2>9, <2>10, <2>11, <2>12, <2>13, <2>14, <2>15, KeptFiles DEF Kept
<1>5. CASE pc = "finish"
  <2>1. /\ ToplevelWritten /\ Summaries # {}
        /\ (\A c \in Older : HasRows(c)) \/ NewSummaries
    BY <1>5 DEF Kept
  <2>2. p \in {<<"metrics", Top>>, <<"summary", Top>>}
    BY <1>1, <2>1 DEF ToplevelWritten, Write
  <2>3. ASSUME NEW c \in Configs PROVE p # <<"summary", c>>
    <3>1. p[2] = Top /\ c # Top
      BY <2>2, BaselineAssumption
    <3>2. <<"summary", c>>[2] = c
      OBVIOUS
    <3> HIDE DEF p
    <3> QED BY <3>1, <3>2
  <2>4. Summaries' = Summaries
    BY <1>3, <2>3 DEF Summaries
  <2>5. ASSUME NEW c \in Configs
        PROVE  (disk[<<"summary", c>>] = Missing)' \/ HasRows(c)'
    <3>1. p # <<"summary", c>>
      BY <2>3
    <3>2. disk[<<"summary", c>>] = Missing \/ HasRows(c)
      BY <3>1 DEF Kept, BeingWritten
    <3> QED BY <1>3, <3>1, <3>2 DEF Missing
  <2>6. ToplevelWritten'
    <3>1. CASE OpenFile
      <4>1. writes' = writes
        BY <3>1 DEF OpenFile
      <4> QED BY <1>1, <2>1, <2>4, <4>1 DEF ToplevelWritten
    <3>2. CASE CloseFile
      <4>1. writes' = Tail(writes)
        BY <3>2 DEF CloseFile
      <4>2. CASE writes = <<Write("summary", Top, Summaries)>>
        <5>1. Head(writes) = Write("summary", Top, Summaries) /\ writes' = <<>>
          BY <4>1, <4>2
        <5>2. p = <<"summary", Top>> /\ p \in Paths /\ Head(writes).rows = Summaries
          BY <5>1 DEF Write, Paths
        <5>3. disk'[<<"summary", Top>>].rows = Summaries
          BY <1>1, <3>2, <5>2, FileSteps
        <5> QED BY <2>4, <4>1, <5>1, <5>3 DEF ToplevelWritten, RowsIn
      <4>3. ASSUME NEW rows,
                   writes = <<Write("metrics", Top, rows), Write("summary", Top, Summaries)>>
            PROVE  writes' = <<Write("summary", Top, Summaries)>>
        BY <4>1, <4>3
      <4> QED BY <1>1, <2>1, <2>4, <4>1, <4>2, <4>3 DEF ToplevelWritten
    <3> QED BY <3>1, <3>2
  <2>7. (\A c \in Older' : HasRows(c)') \/ NewSummaries'
    <3>1. CASE \A c \in Older : HasRows(c)
      BY <1>0, <1>3, <2>3, <3>1
    <3>2. CASE NewSummaries
      <4>1. NewRows' = NewRows
        BY DEF NewRows, Rows
      <4> QED BY <1>3, <2>3, <3>2, <4>1 DEF NewSummaries
    <3> QED BY <2>1, <3>1, <3>2
  <2>8. \A i \in DOMAIN writes' : writes'[i].rows \subseteq Rows
    <3>1. \A i \in DOMAIN writes : writes[i].rows \subseteq Rows
      BY <1>5 DEF Kept
    <3>2. \E S : writes \in Seq(S)
      BY <2>1, ToplevelSeq
    <3>3. writes' = writes \/ writes' = Tail(writes)
      BY DEF OpenFile, CloseFile
    <3>4. PICK S : writes \in Seq(S)
      BY <3>2
    <3> QED BY <1>1, <3>1, <3>3, <3>4, AfterHead
  <2>9. pc' = "finish" /\ Summaries' # {}
    BY <1>1, <1>5, <2>1, <2>4
  <2> QED BY <2>5, <2>6, <2>7, <2>8, <2>9, KeptFiles DEF Kept, Loop
<1> QED BY <1>2, <1>4, <1>5

(* A step that leaves the files alone.                                     *)
LEMMA KeptRest ==
  ASSUME Kept, writes = <<>>, UNCHANGED <<disk, open, usage>>, pc' # "failed",
         pc' # "finish" =>
           /\ writes' \in Seq(SoundWrites)
           /\ OldRowsAtTop \/ NewRowsAtTop
           /\ ((\A c \in Older : HasRows(c)) /\ OldRowsAtTop) \/ NewSummaries,
         pc' = "collect" => \E c \in Configs : HasRows(c),
         pc' = "finish" => /\ Summaries # {} /\ ToplevelWritten'
                           /\ (\A c \in Older : HasRows(c)) \/ NewSummaries
                           /\ \A i \in DOMAIN writes' : writes'[i].rows \subseteq Rows
  PROVE  Kept'
<1>1. /\ ~ open /\ \A p \in Paths : disk[p].state \in {"none", "whole"}
      /\ \A c \in Configs : disk[<<"summary", c>>] = Missing \/ HasRows(c)
  BY KeptAtRest
<1>2. \A c : HasRows(c)' <=> HasRows(c)
  BY DEF HasRows, IsWhole, RowsIn
<1>3. /\ Older' = Older /\ (OldRowsAtTop' <=> OldRowsAtTop)
      /\ (NewRowsAtTop' <=> NewRowsAtTop) /\ (NewSummaries' <=> NewSummaries)
      /\ Summaries' = Summaries /\ NewRows' = NewRows
  BY DEF Older, OldRowsAtTop, NewRowsAtTop, NewSummaries, NewRows, Summaries, OfConfig, RowsIn, Rows
<1>4. \A p \in Paths : disk[p].rows \subseteq Rows
  BY DEF Kept
<1>5. ASSUME pc' # "finish"
      PROVE  /\ writes' \in Seq(GoodWrites)
             /\ (Split' /\ OldRowsAtTop') \/ Unsplit'
  <2>1. /\ writes' \in Seq(GoodWrites)
        /\ \A i \in DOMAIN writes' : writes'[i].path[1] = "summary" => writes'[i].rows \subseteq NewRows
    BY <1>5, SoundIsGood
  <2>2. NewSummaries => Unsplit'
    BY <1>3, <2>1 DEF Unsplit
  <2>3. (\A c \in Older : HasRows(c)) => Split'
    BY <1>2, <1>3 DEF Split
  <2> QED BY <1>3, <1>5, <2>1, <2>2, <2>3
<1>6. pc' = "collect" => SomeRows'
  BY <1>2 DEF SomeRows
<1>7. /\ ~ open' /\ disk' = disk /\ usage' = usage
      /\ \A c \in Configs : (disk[<<"summary", c>>] = Missing)' \/ HasRows(c)'
  BY <1>1, <1>2 DEF Missing
<1>8. pc' # "finish" => OldRowsAtTop' \/ NewRowsAtTop'
  BY <1>3
<1>9. pc' \in Loop \cup {"collect"} => pc' # "finish"
  BY DEF Loop
<1>10. pc' = "finish" => /\ Summaries' # {} /\ ToplevelWritten'
                         /\ (\A c \in Older' : HasRows(c)') \/ NewSummaries'
                         /\ \A i \in DOMAIN writes' : writes'[i].rows \subseteq Rows
  BY <1>2, <1>3
<1> QED BY <1>1, <1>4, <1>5, <1>6, <1>7, <1>8, <1>9, <1>10 DEF Kept

(* What is there between two steps of main.                                *)
LEMMA KeptBetween ==
  ASSUME Kept, writes = <<>>, pc # "finish"
  PROVE  /\ OldRowsAtTop \/ NewRowsAtTop
         /\ ((\A c \in Older : HasRows(c)) /\ OldRowsAtTop) \/ NewSummaries
         /\ pc = "collect" => \E c \in Configs : HasRows(c)
BY DEF Kept, Split, Unsplit, SomeRows, Pending

LEMMA KeptStart ==
  ASSUME IInv, Kept, NEW f, NEW configs, Start(f, configs)
  PROVE  Kept'
<1>1. /\ pc \in {"down", "failed", "done"} /\ pc' \in {"migrate", "config"}
      /\ UNCHANGED <<disk, writes, open, usage>>
  BY DEF Start
<1>2. writes = <<>> /\ <<>> \in Seq(SoundWrites)
  BY <1>1 DEF IInv, TypeOK
<1> QED BY <1>1, <1>2, KeptBetween, KeptRest

LEMMA KeptVisit ==
  ASSUME IInv, Kept, Skip \/ Recover \/ RunConfig \/ Bench \/ ExportTrace \/ WriteRows
  PROVE  Kept'
<1>1. /\ pc \in Loop /\ writes = <<>> /\ UNCHANGED <<disk, flags, asked, open, usage>>
      /\ pc = "config" \/ pc \in {"bench", "trace", "rows"}
      /\ pc = "config" => left # {}
  BY DEF Skip, Recover, RunConfig, Bench, ExportTrace, WriteRows, At, Loop
<1>2. left \subseteq Configs /\ left # {}
  BY <1>1 DEF IInv, TypeOK, Progress
<1>3. Current \in Configs
  BY <1>2, CurrentIsLeft
<1>4. <<>> \in Seq(SoundWrites)
  OBVIOUS
<1>5. \A k \in Kinds : IsFile(k, Current) => IsWhole(k, Current)
  BY <1>1, <1>3, KeptAtRest
<1>6. pc' \in Loop /\ writes' \in Seq(SoundWrites)
  <2>1. CASE Skip \/ RunConfig
    BY <1>1, <1>4, <2>1 DEF Skip, RunConfig, Loop
  <2>2. CASE Recover
    <3>1. IsWhole("trace", Current)
      BY <1>5, <2>2 DEF Recover, CanRecover, Kinds
    <3>2. pc' = pc /\ writes' = WritePerConfig(Current, Recovered(Current))
      BY <2>2, <3>1 DEF Recover
    <3> QED BY <1>1, <1>3, <3>2, PerConfig
  <2>3. CASE Bench
    <3>1. pc' = "trace" /\ (writes' = writes \/ writes' = <<Write("cache", Current, {})>>)
      BY <1>5, <2>3 DEF Bench, Kinds
    <3>2. <<Write("cache", Current, {})>> \in Seq(SoundWrites)
      BY <1>3, OneWrite
    <3> QED BY <1>1, <1>4, <3>1, <3>2 DEF Loop
  <2>4. CASE ExportTrace
    <3>1. pc' = "rows" /\ (writes' = writes \/ writes' = <<Write("trace", Current, {})>>)
      BY <1>5, <2>4 DEF ExportTrace, UsesTrace, Kinds
    <3>2. <<Write("trace", Current, {})>> \in Seq(SoundWrites)
      BY <1>3, OneWrite
    <3> QED BY <1>1, <1>4, <3>1, <3>2 DEF Loop
  <2>5. CASE WriteRows
    BY <1>1, <1>3, <2>5, PerConfig DEF WriteRows, Loop
  <2> QED BY <2>1, <2>2, <2>3, <2>4, <2>5
<1>7. pc # "finish" /\ pc' \notin {"failed", "collect", "finish"}
  BY <1>1, <1>6 DEF Loop
<1> QED BY <1>1, <1>6, <1>7, KeptBetween, KeptRest

LEMMA OneFirst ==
  ASSUME NEW S, NEW a \in S, NEW t \in Seq(S)
  PROVE  /\ <<a>> \o t \in Seq(S)
         /\ 1 \in DOMAIN (<<a>> \o t) /\ (<<a>> \o t)[1] = a
OBVIOUS

(* What a migration of the rows in T writes.                               *)
SplitWrites(T) ==
  {w \in GoodWrites : /\ w.path[1] \in {"summary", "metrics"}
                      /\ w.path[1] = "summary" => w.rows \subseteq T
                      /\ \A row \in w.rows : Known(row)}

(* The writes of a legacy row; the first is its summary.                   *)
LEMMA SplitRowWrites ==
  ASSUME Kept, Sourced, NEW T, T \subseteq Rows, \A r \in T : Known(r), NEW row \in T, NEW kept
  PROVE  /\ SplitRow(row, kept) \in Seq(SplitWrites(T))
         /\ 1 \in DOMAIN SplitRow(row, kept)
         /\ SplitRow(row, kept)[1].path = <<"summary", row[1]>>
<1> DEFINE c == row[1]
           measured == OfConfig(RowsIn("metrics", Top), c)
           a == Write("summary", c, {row})
           b == Write("metrics", c, measured)
           d == Write("metrics", c, {row})
<1>1. c \in Configs /\ row \in Rows
  BY DEF Rows
<1>2. measured \subseteq Rows /\ \A r \in measured : Known(r)
  <2>1. <<"metrics", Top>> \in Paths
    BY DEF Paths
  <2>2. RowsIn("metrics", Top) \subseteq Rows /\ \A r \in RowsIn("metrics", Top) : Known(r)
    BY <2>1 DEF Kept, Sourced, RowsIn
  <2> QED BY <2>2 DEF OfConfig
<1>3. a \in SplitWrites(T) /\ a.path = <<"summary", c>>
  <2>1. a \in ConfigWrites /\ a.path = <<"summary", c>> /\ a.rows = {row}
    BY <1>1 DEF ConfigWrites, Write, Kinds
  <2>2. a \in GoodWrites
    BY <2>1 DEF GoodWrites
  <2> HIDE DEF a
  <2> QED BY <2>1, <2>2 DEF SplitWrites
<1>4. b \in SplitWrites(T) /\ d \in SplitWrites(T)
  <2>1. /\ b \in ConfigWrites /\ b.path = <<"metrics", c>> /\ b.rows = measured
        /\ d \in ConfigWrites /\ d.path = <<"metrics", c>> /\ d.rows = {row}
    <3> HIDE DEF measured
    <3> QED BY <1>1, <1>2 DEF ConfigWrites, Write, Kinds
  <2> HIDE DEF b, d, measured
  <2>2. b \in GoodWrites /\ d \in GoodWrites
    BY <2>1 DEF GoodWrites
  <2>3. \A r \in {row} : Known(r)
    OBVIOUS
  <2> QED BY <1>2, <2>1, <2>2, <2>3 DEF SplitWrites
<1>5. \/ SplitRow(row, kept) = <<a>> \o <<b>>
      \/ SplitRow(row, kept) = <<a>> \o <<d>>
      \/ SplitRow(row, kept) = <<a>> \o <<>>
  BY DEF SplitRow
<1> DEFINE W == SplitWrites(T)
<1> HIDE DEF a, b, d, W
<1>6. <<b>> \in Seq(W) /\ <<d>> \in Seq(W) /\ <<>> \in Seq(W)
  BY <1>4 DEF W
<1>7. PICK t \in Seq(W) : SplitRow(row, kept) = <<a>> \o t
  BY <1>5, <1>6
<1>8. a \in W
  BY <1>3 DEF W
<1>9. SplitRow(row, kept) \in Seq(W) /\ 1 \in DOMAIN SplitRow(row, kept)
      /\ SplitRow(row, kept)[1] = a
  BY <1>7, <1>8, OneFirst
<1> QED BY <1>3, <1>9 DEF W

LEMMA RowsAreFinite == IsFiniteSet(Rows)
<1>1. IsFiniteSet({"standard", "zk", "recovered", "old", "old_zk"})
  <2>1. IsFiniteSet({})
    BY FS_EmptySet
  <2>2. IsFiniteSet({} \cup {"standard"})
    BY <2>1, FS_AddElement
  <2>3. IsFiniteSet(({} \cup {"standard"}) \cup {"zk"})
    BY <2>2, FS_AddElement
  <2>4. IsFiniteSet((({} \cup {"standard"}) \cup {"zk"}) \cup {"recovered"})
    BY <2>3, FS_AddElement
  <2>5. IsFiniteSet(((({} \cup {"standard"}) \cup {"zk"}) \cup {"recovered"}) \cup {"old"})
    BY <2>4, FS_AddElement
  <2>6. IsFiniteSet((((({} \cup {"standard"}) \cup {"zk"}) \cup {"recovered"}) \cup {"old"})
                    \cup {"old_zk"})
    BY <2>5, FS_AddElement
  <2>7. {"standard", "zk", "recovered", "old", "old_zk"} =
        (((({} \cup {"standard"}) \cup {"zk"}) \cup {"recovered"}) \cup {"old"}) \cup {"old_zk"}
    OBVIOUS
  <2> QED BY <2>6, <2>7
<1> QED BY <1>1, FS_Product, BaselineAssumption DEF Rows

(* The rows at the top are rows whose source is known; when no run was     *)
(* killed there are some, and the migration starts from them.              *)
LEMMA TopRows ==
  ASSUME IInv, Undisturbed, Kept, Sourced, writes = <<>>, pc # "finish"
  PROVE  /\ RowsIn("summary", Top) \subseteq Rows /\ RowsIn("summary", Top) # {}
         /\ \A row \in RowsIn("summary", Top) : Known(row)
         /\ LegacySource = RowsIn("summary", Top)
<1>1. OldRowsAtTop \/ NewRowsAtTop
  BY KeptBetween
<1>2. Older # {}
  BY DEF Undisturbed, Older
<1>3. RowsIn("summary", Top) # {}
  BY <1>1, <1>2 DEF OldRowsAtTop, NewRowsAtTop, OfConfig
<1>4. <<"summary", Top>> \in Paths
  BY DEF Paths
<1>5. RowsIn("summary", Top) \subseteq Rows /\ \A row \in RowsIn("summary", Top) : Known(row)
  BY <1>4 DEF Kept, Sourced, RowsIn
<1> QED BY <1>3, <1>5 DEF LegacySource

(* A migration writes a summary for the configuration of each of them.     *)
LEMMA MigrationSplitsAll ==
  ASSUME IInv, Undisturbed, Kept, Sourced, Migrate, ~ AlreadySplit
  PROVE  /\ writes' \in Seq(SplitWrites(RowsIn("summary", Top)))
         /\ \A row \in RowsIn("summary", Top) : Pending(row[1])'
<1> DEFINE top == RowsIn("summary", Top)
<1>1. writes = <<>> /\ pc # "finish"
  BY DEF Migrate, At
<1>2. LegacySource = top /\ top \subseteq Rows /\ \A r \in top : Known(r)
  BY <1>1, TopRows
<1>3. PICK kept : \E source \in Listings(top) :
         writes' = FlattenSeq([i \in DOMAIN source |-> SplitRow(source[i], kept)])
  BY <1>2, Zenon DEF Migrate
<1>4. PICK source \in Listings(top) :
         writes' = FlattenSeq([i \in DOMAIN source |-> SplitRow(source[i], kept)])
  BY <1>3
<1> DEFINE n == Cardinality(top)
           q == [i \in DOMAIN source |-> SplitRow(source[i], kept)]
           W == SplitWrites(top)
<1>5. n \in Nat
  BY <1>2, RowsAreFinite, FS_Subset, FS_CardinalityType
<1>6. source \in [1 .. n -> top] /\ \A row \in top : \E i \in 1 .. n : source[i] = row
  BY <1>4 DEF Listings, Range
<1>7. q = [i \in 1 .. n |-> q[i]] /\ \A i \in 1 .. n : q[i] = SplitRow(source[i], kept)
  BY <1>6
<1> HIDE DEF n, q, top, W
<1>8. \A i \in 1 .. n : /\ q[i] \in Seq(W) /\ 1 \in DOMAIN q[i]
                        /\ q[i][1].path = <<"summary", source[i][1]>>
  <2> TAKE i \in 1 .. n
  <2>1. source[i] \in top /\ q[i] = SplitRow(source[i], kept)
    BY <1>6, <1>7
  <2>2. /\ SplitRow(source[i], kept) \in Seq(SplitWrites(top))
        /\ 1 \in DOMAIN SplitRow(source[i], kept)
        /\ SplitRow(source[i], kept)[1].path = <<"summary", source[i][1]>>
    BY <1>2, <2>1, SplitRowWrites, Zenon
  <2> QED BY <2>1, <2>2 DEF W
<1>9. q \in [1 .. n -> Seq(W)]
  BY <1>7, <1>8
<1>10. writes' = FlattenSeq(q)
  BY <1>4 DEF q
<1>11. writes' \in Seq(W) /\ \A k \in 1 .. n : In(q[k], writes')
  BY <1>5, <1>9, <1>10, Flattened
<1>12. ASSUME NEW row \in top PROVE Pending(row[1])'
  <2>1. PICK i \in 1 .. n : source[i] = row
    BY <1>6
  <2>2. q[i][1].path = <<"summary", row[1]>> /\ 1 \in DOMAIN q[i]
    BY <1>8, <2>1
  <2>3. PICK j \in DOMAIN writes' : writes'[j] = q[i][1]
    BY <1>11, <2>2 DEF In
  <2> QED BY <2>2, <2>3 DEF Pending
<1> QED BY <1>11, <1>12 DEF top, W

(* What a migration removes, it removes whole; the rest stays.             *)
LEMMA MigrationRemoves ==
  ASSUME IInv, Migrate
  PROVE  /\ pc = "migrate" /\ pc' = "collect" /\ writes = <<>>
         /\ UNCHANGED <<flags, asked, left, open, usage>>
         /\ \A p \in Paths : disk'[p] = disk[p] \/ disk'[p] = Missing
         /\ \A c \in Configs : /\ disk'[<<"cache", c>>] = disk[<<"cache", c>>]
                               /\ disk'[<<"trace", c>>] = disk[<<"trace", c>>]
         /\ disk'[<<"summary", Top>>] = disk[<<"summary", Top>>]
         /\ AlreadySplit => disk' = disk /\ writes' = <<>>
<1> DEFINE gone == [p \in Paths |-> RemovesOld /\ p[1] \in {"metrics", "summary"} /\ p[2] # Top]
<1>1. disk' = [p \in Paths |-> IF gone[p] THEN Missing ELSE disk[p]]
  BY DEF Migrate
<1>2. disk = [p \in Paths |-> disk[p]]
  BY Zenon DEF IInv, TypeOK
<1>3. <<"summary", Top>> \in Paths /\ gone[<<"summary", Top>>] = FALSE
  BY DEF Paths
<1>4. ASSUME NEW c \in Configs
      PROVE  /\ disk'[<<"cache", c>>] = disk[<<"cache", c>>]
             /\ disk'[<<"trace", c>>] = disk[<<"trace", c>>]
  <2>1. <<"cache", c>> \in Paths /\ <<"trace", c>> \in Paths
    BY ConfigPath DEF Kinds
  <2>2. gone[<<"cache", c>>] = FALSE /\ gone[<<"trace", c>>] = FALSE
    BY <2>1
  <2> HIDE DEF gone
  <2> QED BY <1>1, <2>1, <2>2
<1>5. AlreadySplit => \A p \in Paths : ~ gone[p]
  BY DEF AlreadySplit, RemovesOld
<1>6. /\ pc = "migrate" /\ pc' = "collect" /\ writes = <<>>
      /\ UNCHANGED <<flags, asked, left, open, usage>>
      /\ AlreadySplit => writes' = <<>>
  BY DEF Migrate, At
<1> HIDE DEF gone
<1>7. AlreadySplit => disk' = disk
  BY <1>1, <1>2, <1>5
<1> QED BY <1>1, <1>3, <1>4, <1>6, <1>7

LEMMA KeptMigrate ==
  ASSUME IInv, Undisturbed, Kept, Sourced, Migrate
  PROVE  Kept'
<1>1. /\ pc = "migrate" /\ pc' = "collect" /\ writes = <<>> /\ usage \in Usages
      /\ UNCHANGED <<flags, asked, open, usage>> /\ ~ open
  BY MigrationRemoves, KeptAtRest DEF IInv, TypeOK
<1>2. /\ OldRowsAtTop \/ NewRowsAtTop
      /\ ((\A c \in Older : HasRows(c)) /\ OldRowsAtTop) \/ NewSummaries
  BY <1>1, KeptBetween
<1>3. CASE AlreadySplit
  <2>1. disk' = disk /\ writes' = <<>> /\ <<>> \in Seq(SoundWrites)
    BY <1>3, MigrationRemoves
  <2>2. \E c \in Configs : HasRows(c)
    <3>1. PICK c \in Configs : RowsIn("summary", c) # {}
      BY <1>3 DEF AlreadySplit
    <3>2. disk[<<"summary", c>>] # Missing
      BY <3>1 DEF RowsIn, Missing
    <3> QED BY <1>1, <3>2, KeptAtRest
  <2> QED BY <1>1, <1>2, <2>1, <2>2, KeptRest
<1>4. CASE ~ AlreadySplit
  <2> DEFINE top == RowsIn("summary", Top)
  <2>1. /\ writes' \in Seq(SplitWrites(top)) /\ \A row \in top : Pending(row[1])'
        /\ top \subseteq Rows /\ top # {} /\ top' = top
    <3>1. top' = top
      BY MigrationRemoves DEF RowsIn
    <3> QED BY <1>1, <1>4, <3>1, TopRows, MigrationSplitsAll
  <2>2. Older' = Older /\ NewRows' = NewRows
    BY <1>1 DEF Older, NewRows, Rows
  <2>3. /\ OldRowsAtTop' <=> OldRowsAtTop
        /\ NewRowsAtTop' <=> NewRowsAtTop
    BY <2>1, <2>2 DEF OldRowsAtTop, NewRowsAtTop, OfConfig
  <2>4. \A p \in Paths : disk'[p].state \in {"none", "whole"} /\ disk'[p].rows \subseteq Rows
    <3>1. \A p \in Paths : disk[p].state \in {"none", "whole"} /\ disk[p].rows \subseteq Rows
      BY <1>1, KeptAtRest DEF Kept
    <3> QED BY <3>1, MigrationRemoves DEF Missing
  <2>5. ASSUME NEW c \in Configs
        PROVE  /\ (disk[<<"summary", c>>] = Missing)' \/ HasRows(c)'
               /\ RowsIn("summary", c)' \subseteq RowsIn("summary", c)
    <3>1. <<"summary", c>> \in Paths /\ (disk[<<"summary", c>>] = Missing \/ HasRows(c))
      BY <1>1, KeptAtRest, ConfigPath DEF Kinds
    <3>2. disk'[<<"summary", c>>] = disk[<<"summary", c>>] \/ disk'[<<"summary", c>>] = Missing
      BY <3>1, MigrationRemoves
    <3> QED BY <3>1, <3>2 DEF HasRows, IsWhole, RowsIn, Missing
  <2> HIDE DEF top
  <2>6. /\ writes' \in Seq(GoodWrites)
        /\ \A i \in DOMAIN writes' : writes'[i].path[1] = "summary" => writes'[i].rows \subseteq top
    <3> DEFINE W == SplitWrites(top)
    <3>1. \A w \in W : w \in GoodWrites /\ (w.path[1] = "summary" => w.rows \subseteq top)
      BY DEF SplitWrites
    <3> HIDE DEF W
    <3>2. writes' \in Seq(W)
      BY <2>1 DEF W
    <3> QED BY <3>1, <3>2
  <2>7. (Split' /\ OldRowsAtTop') \/ Unsplit'
    <3>1. CASE OldRowsAtTop
      <4>1. ASSUME NEW c \in Older PROVE Pending(c)'
        <5>1. PICK row \in top : row[1] = c
          BY <3>1 DEF OldRowsAtTop, OfConfig, top
        <5> QED BY <2>1, <5>1
      <4> QED BY <2>2, <2>3, <3>1, <4>1 DEF Split
    <3>2. CASE ~ OldRowsAtTop
      <4>1. NewSummaries /\ top \subseteq NewRows
        BY <1>2, <3>2 DEF NewRowsAtTop, top
      <4>2. NewSummaries'
        BY <2>2, <2>5, <4>1 DEF NewSummaries
      <4> QED BY <2>2, <2>6, <4>1, <4>2 DEF Unsplit
    <3> QED BY <3>1, <3>2
  <2>8. SomeRows'
    <3>1. PICK row \in top : row \in Rows
      BY <2>1
    <3>2. row[1] \in Configs
      BY <3>1 DEF Rows
    <3> QED BY <2>1, <3>1, <3>2 DEF SomeRows
  <2>9. OldRowsAtTop' \/ NewRowsAtTop'
    BY <1>2, <2>3
  <2> QED BY <1>1, <2>4, <2>5, <2>6, <2>7, <2>8, <2>9 DEF Kept, Loop
<1> QED BY <1>3, <1>4

LEMMA KeptClose ==
  ASSUME IInv, Kept, LoopEnds \/ RecoverLate \/ Aggregate \/ Finish
  PROVE  Kept'
<1>1. /\ TypeOK /\ writes = <<>> /\ UNCHANGED <<disk, flags, asked, open, usage>>
      /\ pc \in {"config"} \cup Closing
  BY DEF IInv, LoopEnds, RecoverLate, Aggregate, Finish, At, Closing
<1>2. <<>> \in Seq(SoundWrites) /\ Older \subseteq Configs
  BY <1>1, OlderConfigs DEF TypeOK
<1>3. CASE LoopEnds
  <2>1. pc = "config" /\ pc' = "migrate" /\ writes' = writes
    BY <1>3 DEF LoopEnds, At
  <2> QED BY <1>1, <1>2, <2>1, KeptBetween, KeptRest
<1>4. CASE RecoverLate
  <2> DEFINE c == CHOOSE d \in OnlyTraced : \A e \in OnlyTraced : d <= e
  <2>1. c \in OnlyTraced /\ c \in Configs
    <3>1. OnlyTraced \subseteq Configs /\ OnlyTraced # {}
      BY <1>4 DEF OnlyTraced, RecoverLate
    <3> QED BY <3>1, FirstConfig
  <2>2. pc = "collect"
    BY <1>4 DEF RecoverLate, At
  <2>3. IsWhole("trace", c)
    <3> HIDE DEF c
    <3>1. IsFile("trace", c)
      BY <2>1 DEF OnlyTraced
    <3> QED BY <1>1, <2>1, <3>1, KeptAtRest DEF Kinds
  <2>4. writes' = WritePerConfig(c, Recovered(c)) /\ pc' = "collect"
    BY <1>4, <2>2, <2>3 DEF RecoverLate
  <2> HIDE DEF c
  <2>5. writes' \in Seq(SoundWrites)
    BY <2>1, <2>4, PerConfig
  <2> QED BY <1>1, <2>2, <2>4, <2>5, KeptBetween, KeptRest
<1>5. CASE Aggregate
  <2>1. pc = "collect" /\ pc' = "finish"
    BY <1>5 DEF Aggregate, At
  <2>2. Summaries # {}
    <3>1. PICK c \in Configs : HasRows(c)
      BY <1>1, <2>1, KeptBetween
    <3> QED BY <3>1 DEF Summaries, HasRows
  <2>3. writes' = <<Write("metrics", Top, AllMetrics), Write("summary", Top, Summaries)>>
    BY <1>5, <2>2 DEF Aggregate
  <2>4. Summaries' = Summaries
    BY <1>1 DEF Summaries, RowsIn
  <2>5. ToplevelWritten'
    BY <2>3, <2>4 DEF ToplevelWritten
  <2>6. AllMetrics \subseteq Rows /\ Summaries \subseteq Rows
    <3>1. ASSUME NEW d \in Configs
          PROVE  RowsIn("metrics", d) \subseteq Rows /\ RowsIn("summary", d) \subseteq Rows
      <4>1. <<"metrics", d>> \in Paths /\ <<"summary", d>> \in Paths
        BY ConfigPath DEF Kinds
      <4> QED BY <4>1 DEF Kept, RowsIn
    <3> QED BY <3>1 DEF AllMetrics, Summaries
  <2>7. \A i \in DOMAIN writes' : writes'[i].rows \subseteq Rows
    <3> DEFINE a == Write("metrics", Top, AllMetrics)
               b == Write("summary", Top, Summaries)
    <3>1. a.rows \subseteq Rows /\ b.rows \subseteq Rows
      BY <2>6 DEF Write
    <3> HIDE DEF a, b
    <3> QED BY <2>3, <3>1 DEF a, b
  <2>8. (\A c \in Older : HasRows(c)) \/ NewSummaries
    BY <1>1, <2>1, KeptBetween
  <2> QED BY <1>1, <2>1, <2>2, <2>5, <2>7, <2>8, KeptRest
<1>6. CASE Finish
  <2>1. pc = "finish" /\ pc' = "done" /\ writes' = writes
    BY <1>6 DEF Finish, At
  <2>2. /\ RowsIn("summary", Top) = Summaries /\ Summaries # {}
        /\ (\A c \in Older : HasRows(c)) \/ NewSummaries
    BY <1>1, <2>1 DEF Kept, ToplevelWritten
  <2>3. (\A c \in Older : HasRows(c)) => OldRowsAtTop
    <3> SUFFICES ASSUME NEW d \in Older, HasRows(d) PROVE OfConfig(Summaries, d) # {}
      BY <2>2 DEF OldRowsAtTop
    <3>1. PICK r \in RowsIn("summary", d) : r[1] = d
      BY DEF HasRows
    <3> QED BY <1>2, <3>1 DEF OfConfig, Summaries
  <2>4. NewSummaries => NewRowsAtTop
    BY <2>2 DEF NewSummaries, NewRowsAtTop, Summaries
  <2> QED BY <1>1, <1>2, <2>1, <2>2, <2>3, <2>4, KeptRest
<1> QED BY <1>3, <1>4, <1>5, <1>6

-----------------------------------------------------------------------------
(* Where the rows come from.  A step that leaves the files alone:          *)
LEMMA SourcedRest ==
  ASSUME Sourced, UNCHANGED <<disk, usage>>,
         \A i \in DOMAIN writes' :
           /\ \A row \in writes'[i].rows : Known(row)
           /\ \A c \in Configs : writes'[i].path = <<"trace", c>> => IsFile("cache", c),
         pc' = "trace" => \/ IsFile("cache", Current)'
                          \/ writes' # <<>> /\ Head(writes').path = <<"cache", Current'>>,
         pc' = "rows" => IsFile("cache", Current)'
  PROVE  Sourced'
<1>1. \A c : IsFile("cache", c)' <=> IsFile("cache", c)
  BY DEF IsFile
<1>2. \A c : IsFile("trace", c)' <=> IsFile("trace", c)
  BY DEF IsFile
<1>3. \A row : Known(row)' <=> Known(row)
  BY <1>1 DEF Known
<1> QED BY <1>1, <1>2, <1>3 DEF Sourced

LEMMA KnownWrites ==
  ASSUME NEW c \in Configs, IsFile("cache", c),
         NEW rows, rows = Measured(c) \/ rows = Recovered(c)
  PROVE  \A i \in DOMAIN WritePerConfig(c, rows) :
           /\ \A row \in WritePerConfig(c, rows)[i].rows : Known(row)
           /\ \A d \in Configs : WritePerConfig(c, rows)[i].path # <<"trace", d>>
<1> DEFINE a == Write("metrics", c, rows)
           b == Write("summary", c, Standard(rows))
<1>1. \A row \in rows : row[1] = c
  BY DEF Measured, Recovered
<1>2. /\ \A row \in rows : Known(row)
      /\ \A row \in Standard(rows) : Known(row)
  BY <1>1 DEF Known, Standard
<1>3. /\ \A row \in a.rows : Known(row)
      /\ \A row \in b.rows : Known(row)
      /\ a.path = <<"metrics", c>> /\ b.path = <<"summary", c>>
  BY <1>2 DEF Write
<1>4. WritePerConfig(c, rows) = <<a, b>>
  BY DEF WritePerConfig
<1> HIDE DEF a, b
<1>5. ASSUME NEW i \in DOMAIN <<a, b>> PROVE <<a, b>>[i] = a \/ <<a, b>>[i] = b
  BY <1>5
<1>6. \A d : a.path # <<"trace", d>> /\ b.path # <<"trace", d>>
  BY <1>3
<1> QED BY <1>3, <1>4, <1>5, <1>6

LEMMA SourcedVisit ==
  ASSUME IInv, Kept, Sourced, Skip \/ Recover \/ RunConfig \/ Bench \/ ExportTrace \/ WriteRows
  PROVE  Sourced'
<1>1. /\ pc \in Loop /\ writes = <<>> /\ UNCHANGED <<disk, flags, asked, open, usage>>
      /\ pc = "config" \/ pc \in {"bench", "trace", "rows"}
      /\ pc = "config" => left # {}
  BY DEF Skip, Recover, RunConfig, Bench, ExportTrace, WriteRows, At, Loop
<1>2. left \subseteq Configs /\ left # {}
  BY <1>1 DEF IInv, TypeOK, Progress
<1>3. Current \in Configs
  BY <1>2, CurrentIsLeft
<1>4. CASE Skip \/ RunConfig
  <2>1. writes' = <<>> /\ pc' \in {"config", "bench"}
    BY <1>1, <1>4 DEF Skip, RunConfig, At
  <2> QED BY <1>1, <2>1, SourcedRest
<1>5. CASE Recover
  <2>1. CASE IsWhole("trace", Current)
    <3>1. writes' = WritePerConfig(Current, Recovered(Current)) /\ pc' = "config"
      BY <1>5, <2>1 DEF Recover, At
    <3>2. IsFile("cache", Current)
      BY <1>3, <2>1 DEF IsWhole, IsFile, Sourced
    <3> QED BY <1>1, <1>3, <3>1, <3>2, KnownWrites, SourcedRest
  <2>2. CASE ~ IsWhole("trace", Current)
    <3>1. writes' = <<>> /\ pc' = "failed"
      BY <1>1, <1>5, <2>2 DEF Recover, Fail
    <3> QED BY <1>1, <3>1, SourcedRest
  <2> QED BY <2>1, <2>2
<1>6. CASE Bench
  <2>1. CASE pc' = "failed" /\ writes' = <<>>
    BY <1>1, <2>1, SourcedRest
  <2>2. CASE pc' = "trace" /\ writes' = <<>> /\ IsFile("cache", Current)' /\ left' = left
    BY <1>1, <2>2, SourcedRest
  <2>3. CASE pc' = "trace" /\ writes' = <<Write("cache", Current, {})>> /\ left' = left
    <3> DEFINE a == Write("cache", Current, {})
    <3>1. a.path = <<"cache", Current>> /\ a.rows = {} /\ writes' = <<a>>
      BY <2>3 DEF Write
    <3>2. Current' = Current
      BY <2>3 DEF Current
    <3>3. \A c : a.path # <<"trace", c>>
      BY <3>1
    <3> HIDE DEF a
    <3>4. \A i \in DOMAIN writes' : writes'[i] = a
      BY <3>1
    <3>5. writes' # <<>> /\ Head(writes').path = <<"cache", Current'>>
      BY <3>1, <3>2
    <3>6. \A i \in DOMAIN writes' : /\ \A row \in writes'[i].rows : Known(row)
                                    /\ \A c \in Configs : writes'[i].path # <<"trace", c>>
      BY <3>1, <3>3, <3>4
    <3> QED BY <1>1, <2>3, <3>5, <3>6, SourcedRest
  <2>4. IsWhole("cache", Current) => IsFile("cache", Current)
    BY DEF IsWhole, IsFile
  <2>5. left' = left => (IsFile("cache", Current)' <=> IsFile("cache", Current))
    BY <1>1 DEF IsFile, Current
  <2> QED BY <1>1, <1>6, <2>1, <2>2, <2>3, <2>4, <2>5 DEF Bench, Fail
<1>7. CASE ExportTrace
  <2>1. pc = "trace" /\ IsFile("cache", Current)
    BY <1>1, <1>7 DEF ExportTrace, At, Sourced
  <2>2. \/ pc' = "failed" /\ writes' = <<>>
        \/ /\ pc' = "rows" /\ left' = left
           /\ writes' = <<>> \/ writes' = <<Write("trace", Current, {})>>
    BY <1>1, <1>7 DEF ExportTrace, Fail
  <2>3. pc' = "rows" => IsFile("cache", Current)'
    BY <1>1, <2>1, <2>2 DEF IsFile, Current
  <2>4. ASSUME NEW i \in DOMAIN writes'
        PROVE  /\ \A row \in writes'[i].rows : Known(row)
               /\ \A c \in Configs : writes'[i].path = <<"trace", c>> => IsFile("cache", c)
    <3> DEFINE a == Write("trace", Current, {})
    <3>1. a.path = <<"trace", Current>> /\ a.rows = {}
      BY DEF Write
    <3> HIDE DEF a
    <3>2. writes' = <<a>>
      BY <2>2, <2>4 DEF a
    <3>3. writes'[i] = a
      BY <2>4, <3>2
    <3>4. \A c : a.path = <<"trace", c>> => c = Current
      BY <3>1
    <3> QED BY <2>1, <3>1, <3>3, <3>4
  <2>5. pc' # "trace"
    BY <2>2
  <2> QED BY <1>1, <2>3, <2>4, <2>5, SourcedRest
<1>8. CASE WriteRows
  <2>1. IsFile("cache", Current)
    BY <1>8 DEF WriteRows, At, Sourced
  <2>2. writes' = WritePerConfig(Current, Measured(Current)) /\ pc' = "config"
    BY <1>8 DEF WriteRows
  <2> QED BY <1>1, <1>3, <2>1, <2>2, KnownWrites, SourcedRest
<1> QED BY <1>4, <1>5, <1>6, <1>7, <1>8

LEMMA SourcedClose ==
  ASSUME IInv, Kept, Sourced, LoopEnds \/ RecoverLate \/ Aggregate \/ Finish
  PROVE  Sourced'
<1>1. writes = <<>> /\ UNCHANGED <<disk, usage>> /\ pc' \notin {"trace", "rows"}
  BY DEF LoopEnds, RecoverLate, Aggregate, Finish, At, Fail
<1>2. CASE writes' = <<>>
  BY <1>1, <1>2, SourcedRest
<1>3. CASE RecoverLate
  <2> DEFINE c == CHOOSE d \in OnlyTraced : \A e \in OnlyTraced : d <= e
  <2>1. c \in Configs
    <3>1. OnlyTraced \subseteq Configs /\ OnlyTraced # {}
      BY <1>3 DEF OnlyTraced, RecoverLate
    <3> QED BY <3>1, FirstConfig
  <2>2. \/ writes' = <<>>
        \/ IsWhole("trace", c) /\ writes' = WritePerConfig(c, Recovered(c))
    BY <1>1, <1>3 DEF RecoverLate, Fail
  <2> HIDE DEF c
  <2>3. IsWhole("trace", c) => IsFile("cache", c)
    BY <2>1 DEF IsWhole, IsFile, Sourced
  <2> QED BY <1>1, <1>2, <2>1, <2>2, <2>3, KnownWrites, SourcedRest
<1>4. CASE Aggregate
  <2>1. ASSUME NEW d \in Configs
        PROVE  /\ \A row \in RowsIn("metrics", d) : Known(row)
               /\ \A row \in RowsIn("summary", d) : Known(row)
    <3>1. <<"metrics", d>> \in Paths /\ <<"summary", d>> \in Paths
      BY ConfigPath DEF Kinds
    <3> QED BY <3>1 DEF Sourced, RowsIn
  <2>2. /\ \A row \in AllMetrics : Known(row)
        /\ \A row \in Summaries : Known(row)
        /\ \A row \in Standard(AllMetrics) : Known(row)
    BY <2>1 DEF AllMetrics, Summaries, Standard
  <2> DEFINE a == Write("metrics", Top, AllMetrics)
             b == Write("summary", Top, IF Summaries = {} THEN Standard(AllMetrics) ELSE Summaries)
  <2>3. /\ \A row \in a.rows : Known(row)
        /\ \A row \in b.rows : Known(row)
        /\ a.path = <<"metrics", Top>> /\ b.path = <<"summary", Top>>
    BY <2>2 DEF Write
  <2>4. writes' = <<a, b>>
    BY <1>4 DEF Aggregate
  <2> HIDE DEF a, b
  <2>5. \A i \in DOMAIN writes' : writes'[i] = a \/ writes'[i] = b
    BY <2>4
  <2>6. \A c : a.path # <<"trace", c>> /\ b.path # <<"trace", c>>
    BY <2>3
  <2>7. \A i \in DOMAIN writes' :
          /\ \A row \in writes'[i].rows : Known(row)
          /\ \A c \in Configs : writes'[i].path # <<"trace", c>>
    BY <2>3, <2>5, <2>6
  <2> QED BY <1>1, <2>7, SourcedRest
<1>5. CASE LoopEnds \/ Finish
  <2>1. writes' = <<>>
    BY <1>1, <1>5 DEF LoopEnds, Finish
  <2> QED BY <1>2, <2>1
<1> QED BY <1>3, <1>4, <1>5

LEMMA SourcedMigrate ==
  ASSUME IInv, Undisturbed, Kept, Sourced, Migrate
  PROVE  Sourced'
<1>1. writes = <<>> /\ pc # "finish" /\ pc' = "collect" /\ usage' = usage
  BY MigrationRemoves
<1>2. CASE AlreadySplit
  <2>1. disk' = disk /\ writes' = <<>>
    BY <1>2, MigrationRemoves
  <2> QED BY <1>1, <2>1, SourcedRest
<1>3. CASE ~ AlreadySplit
  <2> DEFINE W == SplitWrites(RowsIn("summary", Top))
  <2>1. writes' \in Seq(W)
    BY <1>3, MigrationSplitsAll
  <2>2. \A w \in W : /\ \A row \in w.rows : Known(row)
                     /\ \A c : w.path # <<"trace", c>>
    BY DEF SplitWrites
  <2> HIDE DEF W
  <2>3. \A i \in DOMAIN writes' : writes'[i] \in W
    BY <2>1
  <2>4. \A c \in Configs : /\ IsFile("cache", c)' <=> IsFile("cache", c)
                           /\ IsFile("trace", c)' <=> IsFile("trace", c)
    <3> TAKE c \in Configs
    <3>1. /\ disk'[<<"cache", c>>] = disk[<<"cache", c>>]
          /\ disk'[<<"trace", c>>] = disk[<<"trace", c>>]
      BY MigrationRemoves
    <3> QED BY <3>1 DEF IsFile
  <2>5. ASSUME NEW p \in Paths, NEW row \in disk'[p].rows
        PROVE  Known(row)'
    <3>1. row \in disk[p].rows
      BY <2>5, MigrationRemoves DEF Missing
    <3>2. row \in Rows /\ Known(row)
      BY <3>1 DEF Kept, Sourced
    <3> QED BY <1>1, <2>4, <3>2 DEF Known, Rows
  <2>6. ASSUME NEW i \in DOMAIN writes', NEW row \in writes'[i].rows
        PROVE  Known(row)'
    <3>1. Known(row)
      BY <2>2, <2>3, <2>6
    <3>2. row \in Rows
      <4>1. writes'[i] \in GoodWrites
        BY <2>3 DEF W, SplitWrites
      <4> QED BY <2>6, <4>1 DEF GoodWrites, ConfigWrites
    <3> QED BY <1>1, <2>4, <3>1, <3>2 DEF Known, Rows
  <2>7. \A c \in Configs : IsFile("trace", c)' => IsFile("cache", c)'
    BY <2>4 DEF Sourced
  <2> QED BY <1>1, <2>2, <2>3, <2>5, <2>6, <2>7 DEF Sourced
<1> QED BY <1>2, <1>3

LEMMA SourcedFileStep ==
  ASSUME IInv, Kept, Sourced, OpenFile \/ CloseFile
  PROVE  Sourced'
<1>1. /\ TypeOK /\ writes # <<>>
      /\ UNCHANGED <<flags, asked, left, pc, usage, kills, reruns>>
      /\ \A p \in Paths : disk[p].state # "none" => disk'[p].state # "none"
  BY FileSteps DEF IInv
<1> DEFINE p == Head(writes).path
<1>2. p \in Paths /\ Current' = Current
  BY <1>1, KeptFiles DEF Current
<1>3. PICK S : writes \in Seq(S)
  BY <1>1, WaitingWrites
<1>4. Head(writes) = writes[1] /\ 1 \in DOMAIN writes
  BY <1>1, <1>3
<1>5. \A i \in DOMAIN writes' : \E k \in DOMAIN writes : writes'[i] = writes[k]
  <2>1. writes' = writes \/ writes' = Tail(writes)
    BY DEF OpenFile, CloseFile
  <2> QED BY <1>1, <1>3, <2>1, AfterHead
<1>6. \A c \in Configs : IsFile("cache", c) => IsFile("cache", c)'
  BY <1>1, ConfigPath DEF IsFile, Kinds
<1>7. ASSUME NEW row, row \in Rows, Known(row) PROVE Known(row)'
  BY <1>1, <1>6, <1>7 DEF Known, Rows
<1>8. ASSUME NEW q \in Paths, NEW row \in disk'[q].rows
      PROVE  Known(row)'
  <2>1. row \in Rows
    BY <1>8, KeptFiles
  <2>2. CASE q # p
    <3>1. disk'[q] = disk[q]
      BY <1>1, <2>2, FileSteps
    <3> QED BY <1>7, <1>8, <2>1, <3>1 DEF Sourced
  <2>3. CASE q = p
    <3>1. row \in Head(writes).rows
      BY <1>1, <1>2, <1>8, <2>3, FileSteps
    <3>2. Known(row)
      BY <1>4, <3>1 DEF Sourced
    <3> QED BY <1>7, <2>1, <3>2
  <2> QED BY <2>2, <2>3
<1>9. ASSUME NEW i \in DOMAIN writes', NEW row \in writes'[i].rows
      PROVE  Known(row)'
  <2>1. PICK k \in DOMAIN writes : writes'[i] = writes[k]
    BY <1>5
  <2>2. row \in Rows
    BY <1>1, <1>9, <2>1, WaitingWrites
  <2>3. Known(row)
    BY <1>9, <2>1 DEF Sourced
  <2> QED BY <1>7, <2>2, <2>3
<1>10. ASSUME NEW i \in DOMAIN writes', NEW c \in Configs, writes'[i].path = <<"trace", c>>
       PROVE  IsFile("cache", c)'
  <2>1. PICK k \in DOMAIN writes : writes'[i] = writes[k]
    BY <1>5
  <2>2. IsFile("cache", c)
    BY <1>10, <2>1 DEF Sourced
  <2> QED BY <1>6, <2>2
<1>11. ASSUME NEW c \in Configs, IsFile("trace", c)'
       PROVE  IsFile("cache", c)'
  <2>1. <<"trace", c>> \in Paths
    BY ConfigPath DEF Kinds
  <2>2. CASE p = <<"trace", c>>
    <3>1. IsFile("cache", c)
      BY <1>4, <2>2 DEF Sourced
    <3> QED BY <1>6, <3>1
  <2>3. CASE p # <<"trace", c>>
    <3>1. disk'[<<"trace", c>>] = disk[<<"trace", c>>]
      BY <1>1, <2>1, <2>3, FileSteps
    <3>2. IsFile("trace", c)
      BY <1>11, <3>1 DEF IsFile
    <3> QED BY <1>6, <3>2 DEF Sourced
  <2> QED BY <2>2, <2>3
<1>12. pc \in {"trace", "rows"} => Current \in Configs
  BY <1>1, CurrentIsLeft DEF IInv, TypeOK, Progress
<1>13. ASSUME pc' = "trace"
       PROVE  \/ IsFile("cache", Current)'
              \/ writes' # <<>> /\ Head(writes').path = <<"cache", Current'>>
  <2>1. pc = "trace" /\ Current \in Configs
    BY <1>1, <1>12, <1>13
  <2>2. CASE IsFile("cache", Current)
    <3>1. IsFile("cache", Current)'
      BY <1>2, <1>6, <2>1, <2>2 DEF IsFile
    <3> QED BY <3>1
  <2>3. CASE p = <<"cache", Current>>
    <3>1. disk'[<<"cache", Current>>].state # "none"
      BY <1>1, <1>2, <2>3, FileSteps
    <3> QED BY <1>2, <3>1 DEF IsFile
  <2> QED BY <2>1, <2>2, <2>3 DEF Sourced
<1>14. ASSUME pc' = "rows" PROVE IsFile("cache", Current)'
  <2>1. pc = "rows" /\ Current \in Configs
    BY <1>1, <1>12, <1>14
  <2>2. IsFile("cache", Current)
    BY <2>1 DEF Sourced
  <2> QED BY <1>2, <1>6, <2>1, <2>2 DEF IsFile
<1> QED BY <1>8, <1>9, <1>10, <1>11, <1>13, <1>14 DEF Sourced

LEMMA SourcedStart ==
  ASSUME IInv, Sourced, NEW f, NEW configs, Start(f, configs)
  PROVE  Sourced'
<1>1. /\ pc \in {"down", "failed", "done"} /\ pc' \in {"migrate", "config"}
      /\ UNCHANGED <<disk, writes, usage>>
  BY DEF Start
<1>2. writes' = <<>>
  BY <1>1 DEF IInv, TypeOK
<1> QED BY <1>1, <1>2, SourcedRest

LEMMA KeptInit == Init => KInv
<1> SUFFICES ASSUME Init PROVE kills \in Nat /\ (Undisturbed => Kept /\ Sourced)
  BY DEF KInv
<1>1. kills = 0 /\ usage \in Usages
  BY DEF Init
<1> SUFFICES ASSUME Undisturbed PROVE Kept /\ Sourced
  BY <1>1
<1>2. /\ Older \subseteq Configs /\ usage.legacy \subseteq Rows
      /\ \A c \in Older : OfConfig(Standard(usage.legacy), c) # {}
  BY <1>1, OlderConfigs
<1>3. Standard(usage.legacy) \subseteq usage.legacy
  BY DEF Standard
<1>4. \A p \in Paths :
        disk[p] = IF p[2] # Top \/ usage.legacy = {} THEN Missing
                  ELSE [state |-> "whole",
                        rows  |-> IF p[1] = "summary" THEN Standard(usage.legacy)
                                                      ELSE usage.legacy]
  BY DEF Init
<1>5. \A p \in Paths : disk[p].state \in {"none", "whole"} /\ disk[p].rows \subseteq usage.legacy
  <2> TAKE p \in Paths
  <2>1. CASE p[2] # Top \/ usage.legacy = {}
    <3>1. disk[p] = Missing
      BY <1>4, <2>1, Zenon
    <3> QED BY <3>1 DEF Missing
  <2>2. CASE ~ (p[2] # Top \/ usage.legacy = {})
    <3> DEFINE rows == IF p[1] = "summary" THEN Standard(usage.legacy) ELSE usage.legacy
    <3>1. disk[p] = [state |-> "whole", rows |-> rows]
      BY <1>4, <2>2, Zenon
    <3>2. rows \subseteq usage.legacy
      BY <1>3
    <3> HIDE DEF rows
    <3> QED BY <3>1, <3>2
  <2> QED BY <2>1, <2>2
<1>6. ASSUME NEW c \in Configs
      PROVE  /\ disk[<<"summary", c>>] = Missing
             /\ RowsIn("summary", c) = {} /\ ~ IsFile("trace", c)
  <2>1. <<"summary", c>> \in Paths /\ <<"trace", c>> \in Paths /\ c # Top
    BY ConfigPath DEF Kinds
  <2>2. disk[<<"summary", c>>] = Missing /\ disk[<<"trace", c>>] = Missing
    BY <1>4, <2>1
  <2> QED BY <2>2 DEF RowsIn, IsFile, Missing
<1>7. OldRowsAtTop
  <2>1. <<"summary", Top>> \in Paths /\ usage.legacy # {}
    BY DEF Paths, Undisturbed
  <2> DEFINE p == <<"summary", Top>>
  <2>2. p[1] = "summary" /\ p[2] = Top
    OBVIOUS
  <2> HIDE DEF p
  <2>3. disk[p] = [state |-> "whole", rows |-> Standard(usage.legacy)]
    BY <1>4, <2>1, <2>2, Zenon DEF p
  <2>4. RowsIn("summary", Top) = Standard(usage.legacy)
    BY <2>3 DEF RowsIn, p
  <2> QED BY <1>2, <2>4 DEF OldRowsAtTop
<1>8. pc = "down" /\ open = FALSE /\ writes = <<>>
  BY DEF Init
<1>9. Unsplit
  <2>1. \A c \in Configs : RowsIn("summary", c) = {}
    BY <1>6
  <2> QED BY <1>8, <2>1 DEF Unsplit, NewSummaries
<1>10. Sourced
  <2>1. \A p \in Paths : \A row \in disk[p].rows : Known(row)
    BY <1>5 DEF Known
  <2>2. \A c \in Configs : ~ IsFile("trace", c)
    BY <1>6
  <2>3. DOMAIN writes = {}
    BY <1>8
  <2> QED BY <1>8, <2>1, <2>2, <2>3 DEF Sourced
<1>11. ASSUME NEW c \in Configs PROVE disk[<<"summary", c>>] = Missing
  BY <1>6
<1>12. \A p \in Paths : disk[p].state \in {"none", "whole"} /\ disk[p].rows \subseteq Rows
  BY <1>2, <1>5
<1> QED BY <1>7, <1>8, <1>9, <1>10, <1>11, <1>12 DEF Kept, Loop

LEMMA KeptStep == IInv /\ KInv /\ [Next]_vars => KInv'
<1> SUFFICES ASSUME IInv, KInv, [Next]_vars PROVE KInv'
  OBVIOUS
<1>1. usage' = usage /\ (kills' = kills \/ Kill)
  BY DEF Next, StartAny, Start, Step, OpenFile, CloseFile, Skip, Recover, RunConfig, Bench, ExportTrace,
         WriteRows, LoopEnds, Migrate, RecoverLate, Aggregate, Finish, Kill, vars
<1>2. kills \in Nat /\ (Kill => kills' = kills + 1)
  BY DEF KInv, Kill
<1>3. kills' \in Nat
  BY <1>1, <1>2
<1>4. ASSUME Undisturbed' PROVE Kept' /\ Sourced'
  <2>1. ~ Kill /\ Undisturbed /\ Kept /\ Sourced
    <3>1. kills' = 0 /\ ~ Kill
      BY <1>1, <1>2, <1>4 DEF Undisturbed
    <3> QED BY <1>1, <1>4, <3>1 DEF Undisturbed, KInv
  <2>2. CASE StartAny
    BY <2>1, <2>2, KeptStart, SourcedStart DEF StartAny
  <2>3. CASE OpenFile \/ CloseFile
    BY <2>1, <2>3, KeptFileStep, SourcedFileStep
  <2>4. CASE Skip \/ Recover \/ RunConfig \/ Bench \/ ExportTrace \/ WriteRows
    BY <2>1, <2>4, KeptVisit, SourcedVisit
  <2>5. CASE Migrate
    BY <2>1, <2>5, KeptMigrate, SourcedMigrate
  <2>6. CASE LoopEnds \/ RecoverLate \/ Aggregate \/ Finish
    BY <2>1, <2>6, KeptClose, SourcedClose
  <2>7. CASE UNCHANGED vars
    <3>1. UNCHANGED <<disk, flags, asked, left, writes, open, pc, usage>>
      BY <2>7 DEF vars, process
    <3>2. Kept' <=> Kept
      BY <3>1 DEF Kept, HasRows, IsWhole, RowsIn, BeingWritten, ToplevelWritten, Summaries, OldRowsAtTop,
                  NewRowsAtTop, NewSummaries, Split, Unsplit, SomeRows, OfConfig, Older, Pending
    <3>3. Sourced' <=> Sourced
      BY <3>1 DEF Sourced, Known, IsFile, Current
    <3> QED BY <2>1, <3>2, <3>3
  <2> QED BY <2>1, <2>2, <2>3, <2>4, <2>5, <2>6, <2>7 DEF Next, Step
<1> QED BY <1>3, <1>4 DEF KInv

(* As long as no run is killed, and whatever the runs measure and skip,    *)
(* a row an older version wrote is in the top-level summary of every run   *)
(* that is done, or a result measured for its configuration is - unless    *)
(* nothing was ever split (NeverSplit).                                    *)
THEOREM LegacySurvives == Spec => []LegacyKept
<1>1. IInv /\ KInv => LegacyKept
  <2> SUFFICES ASSUME IInv, KInv, pc = "done", kills = 0, ~ NeverSplit,
                      NEW row \in usage.legacy
               PROVE  Survives(row[1])
    BY DEF LegacyKept
  <2> DEFINE top == RowsIn("summary", Top)
  <2>1. Undisturbed /\ row[1] \in Older /\ Kept /\ Sourced
    BY DEF Undisturbed, Older, KInv
  <2>2. writes = <<>> /\ usage \in Usages
    BY DEF IInv, TypeOK
  <2>3. top # {} /\ top \subseteq Rows /\ \A r \in top : Known(r)
    BY <2>1, <2>2, TopRows
  <2>4. CASE OldRowsAtTop
    <3>1. PICK r \in top : r[1] = row[1]
      BY <2>1, <2>4 DEF OldRowsAtTop, OfConfig
    <3>2. r \in OfConfig(top, row[1]) /\ Known(r)
      BY <2>3, <3>1 DEF OfConfig
    <3> QED BY <3>1, <3>2 DEF Survives, Known
  <2>5. CASE ~ OldRowsAtTop
    <3>1. /\ OldRowsAtTop \/ NewRowsAtTop
          /\ ((\A c \in Older : HasRows(c)) /\ OldRowsAtTop) \/ NewSummaries
      BY <2>1, <2>2, KeptBetween
    <3>2. NewRowsAtTop /\ NewSummaries /\ usage.legacy \cap NewRows = {}
      BY <2>2, <2>5, <3>1, OlderConfigs
    <3>3. \A r \in top : IsFile("cache", r[1])
      BY <2>3, <3>2 DEF NewRowsAtTop, Known
    <3>4. \A c \in Configs \cup {Top} : RowsIn("summary", c) \cap usage.legacy = {}
      BY <3>2 DEF NewRowsAtTop, NewSummaries
    <3> QED BY <2>3, <3>3, <3>4 DEF NeverSplit
  <2> QED BY <2>4, <2>5
<1> QED BY <1>1, IInvHolds, KeptInit, KeptStep, PTL DEF Spec
=============================================================================
