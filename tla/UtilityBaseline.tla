--------------------------- MODULE UtilityBaseline ---------------------------
(***************************************************************************)
(* The resumable runs of scripts/run_public_utility_baseline.py.  A run    *)
(* visits its configurations: it measures one (with the cache of           *)
(* bench/acc_bench.py), exports a trace, and writes a metrics file and a   *)
(* summary file; a later run decides from the files it finds what to skip, *)
(* and recovers a summary from a trace.  At the end the files of all       *)
(* configurations are aggregated into two top-level files, which older     *)
(* versions wrote directly and which are split ("migrated") if needed.     *)
(*                                                                         *)
(* Abstractions: a file is missing, partial (opened and truncated, its     *)
(* writer did not close it) or whole, and holds rows [configuration,       *)
(* kind]: "standard" and "zk" rows are measured, a "recovered" row is a    *)
(* standard row from a trace, without times; "old" and "old_zk" rows are   *)
(* those of an older version.  CSV files are smaller than the buffer, so a *)
(* partial one has no row.  numpy and json raise on a partial trace and a  *)
(* partial cache (zipfile.BadZipFile or EOFError, json.JSONDecodeError),   *)
(* and nothing catches these.  Left out: what run_config does catch on a   *)
(* trace (682-689: an archive without the key, or a file that is none),    *)
(* which no run or kill leaves behind, and a result topped up because a    *)
(* run asks for more --num-runs than the cached one had.                   *)
(***************************************************************************)
EXTENDS Naturals, Sequences, FiniteSets, SequencesExt

CONSTANTS Configs,   \* V3DB_PUBLIC_CONFIGS, numbered in their order
          Usages,    \* how the script may be used over time
          MaxKills,  \* bound on the number of killed runs
          MaxReruns  \* bound on the runs started after a complete one

Top == 0 \* the pseudo configuration of the two top-level files

ASSUME BaselineAssumption ==
  /\ Configs \subseteq Nat \ {Top} /\ IsFiniteSet(Configs)
  /\ \A u \in Usages : u.configs \subseteq SUBSET Configs /\ {} \notin u.configs
  /\ MaxKills \in Nat /\ MaxReruns \in Nat

Kinds == {"cache", "trace", "metrics", "summary"}
Paths == (Kinds \X Configs) \cup {<<"metrics", Top>>, <<"summary", Top>>}
Rows  == Configs \X {"standard", "zk", "recovered", "old", "old_zk"}

(* The older versions measured configurations of this list, and wrote a    *)
(* standard row for each they wrote a row for.                             *)
ASSUME LegacyAssumption ==
  \A u \in Usages : \A row \in u.legacy :
    row \in Configs \X {"old", "old_zk"} /\ <<row[1], "old">> \in u.legacy

VARIABLES
  usage,    \* [flags: sets of command line flags a run may have,
            \*  configs: what --datasets and --configs may select,
            \*  legacy: rows the top-level files hold at first,
            \*  inside: kinds of files a kill may leave partial]
  disk,     \* path |-> [state, rows]
  flags,    \* flags of the current run
  asked,    \* configurations the current run was started for
  left,     \* configurations the loop of main has not finished
  writes,   \* files the process is about to write, in order
  open,     \* the first of them is open and truncated
  pc,       \* "down", "config", "bench", "trace", "rows", "migrate",
            \* "collect", "finish", "done", "failed"
  kills, reruns

process == <<flags, asked, left, writes, open, pc>>
vars    == <<disk, process, usage, kills, reruns>>

Missing == [state |-> "none", rows |-> {}]
IsFile(kind, c)  == disk[<<kind, c>>].state # "none"
IsWhole(kind, c) == disk[<<kind, c>>].state = "whole"
RowsIn(kind, c)  == disk[<<kind, c>>].rows      \* load_csv_rows

Write(kind, c, rows) == [path |-> <<kind, c>>, rows |-> rows]

Standard(rows) == {row \in rows : row[2] \notin {"zk", "old_zk"}}
Measured(c)    == {<<c, "standard">>, <<c, "zk">>}
Recovered(c)   == {<<c, "recovered">>}

WritePerConfig(c, rows) ==
  <<Write("metrics", c, rows), Write("summary", c, Standard(rows))>>

SkipExisting == flags \cap {"resume", "skip_existing"} # {}
OnlyMissing  == flags \cap {"resume", "only_missing"} # {}
ForceRecompute == "force_recompute" \in flags

(* Mutant: a metrics file is enough to skip a configuration.               *)
ShouldSkip_Metrics(c) ==
  (OnlyMissing \/ SkipExisting) /\ (IsFile("summary", c) \/ IsFile("metrics", c))

ShouldSkip(c) == (OnlyMissing \/ SkipExisting) /\ IsFile("summary", c)

CanRecover(c) ==
  SkipExisting /\ ~IsFile("summary", c) /\ IsFile("trace", c) /\ ~ForceRecompute

Init ==
  /\ usage \in Usages
  /\ disk = [p \in Paths |->
               IF p[2] # Top \/ usage.legacy = {} THEN Missing
               ELSE [state |-> "whole",
                     rows  |-> IF p[1] = "summary" THEN Standard(usage.legacy)
                                                   ELSE usage.legacy]]
  /\ flags = {} /\ asked = {} /\ left = {} /\ writes = <<>> /\ open = FALSE /\ pc = "down"
  /\ kills = 0 /\ reruns = 0

(* Mutant: --aggregate-only does not migrate first.                        *)
Start_NoMigration(f, configs) ==
  /\ \/ pc \in {"down", "failed"} /\ UNCHANGED reruns
     \/ pc = "done" /\ reruns < MaxReruns /\ reruns' = reruns + 1
  /\ flags' = f /\ asked' = configs /\ left' = configs
  /\ pc' = IF "aggregate_only" \in f THEN "collect" ELSE "config"
  /\ UNCHANGED <<disk, writes, open, usage, kills>>

Start(f, configs) ==
  /\ \/ pc \in {"down", "failed"} /\ UNCHANGED reruns
     \/ pc = "done" /\ reruns < MaxReruns /\ reruns' = reruns + 1
  /\ flags' = f /\ asked' = configs /\ left' = configs
  /\ pc' = IF "aggregate_only" \in f THEN "migrate" ELSE "config"
  /\ UNCHANGED <<disk, writes, open, usage, kills>>

(* Between two steps of main the pending files are written one by one:     *)
(* write_csv, _save_cached and savez_compressed open, then close.          *)
OpenFile ==
  /\ writes # <<>> /\ ~open
  /\ disk' = [disk EXCEPT ![Head(writes).path] = [state |-> "partial", rows |-> {}]]
  /\ open' = TRUE
  /\ UNCHANGED <<flags, asked, left, writes, pc, usage, kills, reruns>>

CloseFile ==
  /\ writes # <<>> /\ open
  /\ disk' = [disk EXCEPT ![Head(writes).path] =
                [state |-> "whole", rows |-> Head(writes).rows]]
  /\ writes' = Tail(writes) /\ open' = FALSE
  /\ UNCHANGED <<flags, asked, left, pc, usage, kills, reruns>>

At(label) == pc = label /\ writes = <<>>

(* The configuration the loop is at.                                       *)
Current == CHOOSE c \in left : \A d \in left : c <= d

Fail == pc' = "failed" /\ UNCHANGED <<left, writes>>

(* Mutant: the loop does not go on behind a skipped configuration.         *)
Skip_Stays ==
  /\ At("config") /\ left # {} /\ ShouldSkip(Current)
  /\ UNCHANGED vars

Skip ==
  /\ At("config") /\ left # {} /\ ShouldSkip(Current)
  /\ left' = left \ {Current}
  /\ UNCHANGED <<disk, flags, asked, writes, open, pc, usage, kills, reruns>>

(* recover_config_from_trace, from the loop of main.                       *)
Recover ==
  /\ At("config") /\ left # {} /\ ~ShouldSkip(Current) /\ CanRecover(Current)
  /\ IF IsWhole("trace", Current)
     THEN /\ writes' = WritePerConfig(Current, Recovered(Current))
          /\ left' = left \ {Current} /\ UNCHANGED pc
     ELSE Fail
  /\ UNCHANGED <<disk, flags, asked, open, usage, kills, reruns>>

RunConfig ==
  /\ At("config") /\ left # {} /\ ~ShouldSkip(Current) /\ ~CanRecover(Current)
  /\ pc' = "bench"
  /\ UNCHANGED <<disk, flags, asked, left, writes, open, usage, kills, reruns>>

(* run_accuracy_bench: a cached result is used unless recomputation is     *)
(* forced; otherwise the result is computed and cached.                    *)
Bench ==
  /\ At("bench")
  /\ \/ /\ ~ForceRecompute /\ IsWhole("cache", Current)
        /\ pc' = "trace" /\ UNCHANGED <<left, writes>>
     \/ /\ ~ForceRecompute /\ IsFile("cache", Current) /\ ~IsWhole("cache", Current)
        /\ Fail
     \/ /\ ForceRecompute \/ ~IsFile("cache", Current)
        /\ writes' = <<Write("cache", Current, {})>>
        /\ pc' = "trace" /\ UNCHANGED left
  /\ UNCHANGED <<disk, flags, asked, open, usage, kills, reruns>>

(* Mutant: an existing trace is opened although recomputation is forced.   *)
UsesTrace_Forced == IsFile("trace", Current)

UsesTrace == IsFile("trace", Current) /\ ~ForceRecompute

ExportTrace ==
  /\ At("trace")
  /\ \/ /\ "no_traces" \in flags
        /\ pc' = "rows" /\ UNCHANGED <<left, writes>>
     \/ /\ "no_traces" \notin flags /\ UsesTrace /\ IsWhole("trace", Current)
        /\ pc' = "rows" /\ UNCHANGED <<left, writes>>
     \/ /\ "no_traces" \notin flags /\ UsesTrace /\ ~IsWhole("trace", Current)
        /\ Fail
     \/ /\ "no_traces" \notin flags /\ ~UsesTrace
        /\ writes' = <<Write("trace", Current, {})>>
        /\ pc' = "rows" /\ UNCHANGED left
  /\ UNCHANGED <<disk, flags, asked, open, usage, kills, reruns>>

WriteRows ==
  /\ At("rows")
  /\ writes' = WritePerConfig(Current, Measured(Current))
  /\ left' = left \ {Current} /\ pc' = "config"
  /\ UNCHANGED <<disk, flags, asked, open, usage, kills, reruns>>

LoopEnds ==
  /\ At("config") /\ left = {} /\ pc' = "migrate"
  /\ UNCHANGED <<disk, flags, asked, left, writes, open, usage, kills, reruns>>

(* The rows migrate_legacy_aggregates starts from.                         *)
LegacySource ==
  IF RowsIn("summary", Top) # {} THEN RowsIn("summary", Top)
  ELSE Standard(RowsIn("metrics", Top))

Remigrate == {"aggregate_only", "force_remigrate"} \subseteq flags

AlreadySplit == ~Remigrate /\ \E c \in Configs : RowsIn("summary", c) # {}

OfConfig(rows, c) == {row \in rows : row[1] = c}

(* The files written for one legacy row; `kept' is the disk behind the     *)
(* removal of the old ones.                                                *)
SplitRow(row, kept) ==
  LET c == row[1]
      measured == OfConfig(RowsIn("metrics", Top), c)
  IN <<Write("summary", c, {row})>> \o
     IF measured # {} THEN <<Write("metrics", c, measured)>>
     ELSE IF kept[<<"metrics", c>>].state = "none" THEN <<Write("metrics", c, {row})>>
     ELSE <<>>

(* The rows of a file, in the order they have there.                       *)
Listings(rows) == {s \in [1 .. Cardinality(rows) -> rows] : Range(s) = rows}

RemovesOld == Remigrate /\ LegacySource # {}

Migrate ==
  /\ At("migrate")
  /\ LET kept == [p \in Paths |->
                    IF RemovesOld /\ p[1] \in {"metrics", "summary"} /\ p[2] # Top
                    THEN Missing ELSE disk[p]]
     IN /\ disk' = kept
        /\ \/ AlreadySplit /\ writes' = <<>>
           \/ /\ ~AlreadySplit
              /\ \E source \in Listings(LegacySource) :
                   writes' = FlattenSeq([i \in DOMAIN source |-> SplitRow(source[i], kept)])
  /\ pc' = "collect"
  /\ UNCHANGED <<flags, asked, left, open, usage, kills, reruns>>

(* Configurations aggregate_results recovers on its way.                   *)
OnlyTraced == {c \in Configs : /\ ~IsFile("metrics", c) /\ ~IsFile("summary", c)
                               /\ IsFile("trace", c)}

RecoverLate ==
  /\ At("collect") /\ OnlyTraced # {}
  /\ LET c == CHOOSE c \in OnlyTraced : \A d \in OnlyTraced : c <= d
     IN IF IsWhole("trace", c)
        THEN writes' = WritePerConfig(c, Recovered(c)) /\ UNCHANGED <<left, pc>>
        ELSE Fail
  /\ UNCHANGED <<disk, flags, asked, open, usage, kills, reruns>>

AllMetrics == UNION {IF IsFile("metrics", c) THEN RowsIn("metrics", c)
                     ELSE RowsIn("summary", c) : c \in Configs}
Summaries  == UNION {RowsIn("summary", c) : c \in Configs}

(* aggregate_results and the two top-level files main writes.              *)
Aggregate ==
  /\ At("collect") /\ OnlyTraced = {}
  /\ writes' = <<Write("metrics", Top, AllMetrics),
                 Write("summary", Top, IF Summaries = {} THEN Standard(AllMetrics)
                                       ELSE Summaries)>>
  /\ pc' = "finish"
  /\ UNCHANGED <<disk, flags, asked, left, open, usage, kills, reruns>>

Finish ==
  /\ At("finish") /\ pc' = "done"
  /\ UNCHANGED <<disk, flags, asked, left, writes, open, usage, kills, reruns>>

Kill ==
  /\ pc \notin {"down", "done", "failed"} /\ kills < MaxKills
  /\ open => Head(writes).path[1] \in usage.inside
  /\ kills' = kills + 1 /\ pc' = "down"
  /\ left' = {} /\ writes' = <<>> /\ open' = FALSE
  /\ UNCHANGED <<disk, flags, asked, usage, reruns>>

StartAny == \E f \in usage.flags, configs \in usage.configs : Start(f, configs)

Step == \/ OpenFile \/ CloseFile \/ Skip \/ Recover \/ RunConfig \/ Bench
        \/ ExportTrace \/ WriteRows \/ LoopEnds \/ Migrate \/ RecoverLate
        \/ Aggregate \/ Finish

Next == StartAny \/ Step \/ Kill

(* A run goes on until it is killed; one that ended early is started again *)
(* (the screen script of phase 8c is rerun until it completes).            *)
Fairness == WF_vars(Step) /\ WF_vars(StartAny /\ pc \in {"down", "failed"})

Spec     == Init /\ [][Next]_vars
FairSpec == Spec /\ Fairness

-----------------------------------------------------------------------------
(* The runs resume, and are killed between two files only.                 *)
Resuming ==
  /\ usage.inside = {}
  /\ usage.flags \subseteq {{"resume"}, {"skip_existing"}, {"only_missing"}}

(* "Resume mode: skip completed configs and aggregate existing results":   *)
(* when a run returns 0, the top-level summary has exactly one row for     *)
(* every configuration that was asked for, the one of its own file,        *)
(* whatever was skipped, recovered or killed before.                       *)
DoneIsComplete ==
  pc = "done" /\ Resuming =>
    \A c \in asked : /\ RowsIn("summary", c) # {}
                     /\ OfConfig(RowsIn("summary", Top), c) = RowsIn("summary", c)
                     /\ \A r, s \in RowsIn("summary", c) : r = s

(* "--force-recompute" gets past whatever a killed run has left behind: a  *)
(* forced run over all configurations never stops at a damaged file.       *)
Forced ==
  /\ ForceRecompute /\ ~SkipExisting /\ ~OnlyMissing
  /\ "aggregate_only" \notin flags /\ asked = Configs

ForceNeverFails == pc = "failed" => ~Forced

(* A run that was killed between two files and is started again with the   *)
(* same flags comes to its end.                                            *)
Completes == Resuming /\ pc \in {"down", "failed"} ~> pc = "done"

(* What an older version wrote into the top-level files is split, not      *)
(* replaced ("Migrate legacy CSV", phase8_public_utility_baseline_log.md,  *)
(* line 159): as long as no run was killed, the very row of the older      *)
(* version is in the top-level summary of a run that is done, also of one  *)
(* that did not ask for the configuration.  It only gives way to a row of  *)
(* the same configuration if a run has measured that (which leaves a       *)
(* cached result).                                                         *)
Survives(c) ==
  LET found == OfConfig(RowsIn("summary", Top), c)
  IN  found \cap usage.legacy # {} \/ (found # {} /\ IsFile("cache", c))

(* There is one way to lose them, and then it loses all of them: a run     *)
(* measures some configurations before anything has been split, and its    *)
(* own summaries pass for split ones (line 516).                           *)
NeverSplit ==
  /\ RowsIn("summary", Top) # {}
  /\ \A row \in RowsIn("summary", Top) : IsFile("cache", row[1])
  /\ \A c \in Configs \cup {Top} : RowsIn("summary", c) \cap usage.legacy = {}

LegacyKept ==
  pc = "done" /\ kills = 0 =>
    NeverSplit \/ \A row \in usage.legacy : Survives(row[1])
=============================================================================
