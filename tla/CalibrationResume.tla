-------------------------- MODULE CalibrationResume --------------------------
(***************************************************************************)
(* The checkpointed calibration of                                         *)
(* scripts/calibrate_full_authorized_reference.py.  One run walks through  *)
(* its calibration queries, evaluates a query for the k that are pending   *)
(* and appends one row per (query, k) to the checkpoint file; at the end   *)
(* it copies the checkpoint to the metrics file and writes a summary that  *)
(* counts the rows of every (group, k).  Runs are killed and started again *)
(* with other flags; only the files survive.                               *)
(*                                                                         *)
(* Abstractions: the rows of the checkpoint file are counted per (query,   *)
(* k), their order and their measurements are dropped; a group stands for  *)
(* (dataset, config, policy_mode, selectivity).  A batch of rows is far    *)
(* smaller than the buffer of the file, so it reaches the file in the one  *)
(* write of close(): a killed process leaves all of it or nothing.  A full *)
(* disk or a power failure may cut that write anywhere (`Tears').          *)
(***************************************************************************)
EXTENDS Naturals, FiniteSets, Functions

CONSTANTS Queries,          \* calibration queries, in the order of the file
          Ks,               \* the k of recall@k
          Group,            \* query |-> the group it is aggregated in
          CalibrationSets,  \* what calib_rows may be after the cap
          KsChoices,        \* what --ks may list
          FlagChoices,      \* subsets of {"resume", "skip_existing"}
          MaxKills,         \* bound on the number of killed runs
          MaxReruns,        \* bound on the runs started after a complete one
          Tears             \* may the write of a batch be cut?

ASSUME CalibrationAssumption ==
  /\ Queries \subseteq Nat /\ IsFiniteSet(Queries)
  /\ CalibrationSets \subseteq SUBSET Queries /\ {} \notin CalibrationSets
  /\ KsChoices \subseteq SUBSET Ks /\ {} \notin KsChoices
  /\ Ks \subseteq Nat /\ IsFiniteSet(Ks)
  /\ FlagChoices \subseteq SUBSET {"resume", "skip_existing"}
  /\ MaxKills \in Nat /\ MaxReruns \in Nat /\ Tears \in BOOLEAN

Keys   == Queries \X Ks
Groups == {Group[q] : q \in Queries}

VARIABLES
  rows,       \* checkpoint file: whole rows per key
  tornKeys,   \* keys of rows that lost fields behind the key
  malformed,  \* some row of the file has lost fields
  openEnd,    \* the last line of the file has no line break
  cut,        \* some write of the file was cut (history)
  metrics,    \* the metrics file: state, and the rows it copies when "whole"
  summary,    \* the summary file: state, and num_queries when "whole"
  args,       \* flags, calibration set and ks of the current run
  completed,  \* the set of that name in main
  left,       \* calibration queries the loop has not visited
  batch,      \* keys evaluated for one query and not yet appended
  pc,         \* "down", "loop", "append", "metrics", "aggregate", "summary",
              \* "done", "failed"
  kills, reruns

file   == <<rows, tornKeys, malformed, openEnd, cut>>
memory == <<args, completed, left, batch>>
vars   == <<file, metrics, summary, memory, pc, kills, reruns>>

(* load_completed_keys: every row whose key fields are intact.             *)
CompletedKeys == {key \in Keys : rows[key] > 0} \cup tornKeys

LoadCompleted(flags) == IF flags = {} THEN {} ELSE CompletedKeys

(* Mutant: a query is skipped as soon as one of its k is complete.         *)
PendingKs_AnyK(q) ==
  IF "skip_existing" \in args.flags /\ \E k \in args.ks : <<q, k>> \in completed
  THEN {} ELSE args.ks

(* Mutant: the rows of earlier runs are not looked at.                     *)
PendingKs_All(q) == args.ks

(* The k of query q that this run still has to evaluate.                   *)
PendingKs(q) ==
  {k \in args.ks : ~("skip_existing" \in args.flags /\ <<q, k>> \in completed)}

Init ==
  /\ rows = [key \in Keys |-> 0] /\ tornKeys = {} /\ malformed = FALSE
  /\ openEnd = FALSE /\ cut = FALSE /\ metrics = [state |-> "none"] /\ summary = [state |-> "none"]
  /\ args = [flags |-> {}, calib |-> {}, ks |-> {}]
  /\ completed = {} /\ left = {} /\ batch = {}
  /\ pc = "down" /\ kills = 0 /\ reruns = 0

(* main up to the loop.                                                    *)
Start(flags, calib, ks) ==
  /\ \/ pc \in {"down", "failed"} /\ UNCHANGED reruns
     \/ pc = "done" /\ reruns < MaxReruns /\ reruns' = reruns + 1
  /\ args' = [flags |-> flags, calib |-> calib, ks |-> ks]
  /\ completed' = LoadCompleted(flags)
  /\ left' = calib /\ batch' = {}
  /\ pc' = "loop"
  /\ UNCHANGED <<file, metrics, summary, kills>>

(* Mutant: the loop does not go on behind a query it skips.                *)
Visit_NoAdvance ==
  /\ pc = "loop"
  /\ \E q \in left :
       /\ \A r \in left : q <= r
       /\ left' = IF PendingKs(q) = {} THEN left ELSE left \ {q}
       /\ batch' = {q} \X PendingKs(q)
       /\ pc' = IF PendingKs(q) = {} THEN "loop" ELSE "append"
  /\ UNCHANGED <<file, metrics, summary, args, completed, kills, reruns>>

(* One iteration that finds nothing to do for its query, or evaluates it.  *)
Visit ==
  /\ pc = "loop"
  /\ \E q \in left :
       /\ \A r \in left : q <= r
       /\ left' = left \ {q}
       /\ batch' = {q} \X PendingKs(q)
       /\ pc' = IF PendingKs(q) = {} THEN "loop" ELSE "append"
  /\ UNCHANGED <<file, metrics, summary, args, completed, kills, reruns>>

First(keys) == CHOOSE key \in keys : \A other \in keys : key[2] <= other[2]

(* The rows of `written' as a reader of the file sees them: behind a line  *)
(* without line break the first of them is swallowed by that line.         *)
Readable(written) ==
  IF openEnd /\ written # {} THEN written \ {First(written)} ELSE written

AddRows(written) ==
  rows' = [key \in Keys |-> rows[key] + IF key \in Readable(written) THEN 1 ELSE 0]

(* Mutant: the batch is marked complete without being written.             *)
AppendBatch_Buffered ==
  /\ pc = "append"
  /\ completed' = completed \cup batch /\ batch' = {} /\ pc' = "loop"
  /\ UNCHANGED <<file, metrics, summary, args, left, kills, reruns>>

(* append_csv of the batch and completed.add for each of its rows.  A line *)
(* that swallowed a row has a bad num_base, which the summary reads from   *)
(* the first row of each group only.                                       *)
AppendBatch ==
  /\ pc = "append"
  /\ AddRows(batch) /\ openEnd' = FALSE
  /\ malformed' \in IF openEnd THEN {malformed, TRUE} ELSE {malformed}
  /\ completed' = completed \cup batch /\ batch' = {} /\ pc' = "loop"
  /\ UNCHANGED <<tornKeys, cut, metrics, summary, args, left, kills, reruns>>

(* The row behind the whole ones, if a reader would see its key.           *)
TornKey(whole) ==
  IF openEnd /\ whole = {} THEN {} ELSE {First(batch \ whole)}

(* The write of the batch is cut: the first rows of it are whole, one may  *)
(* have lost fields (behind its key, or in its key) or its line break.     *)
AppendTorn ==
  /\ pc = "append" /\ Tears
  /\ \E whole \in SUBSET batch :
       /\ \A key \in whole, other \in batch \ whole : key[2] < other[2]
       /\ AddRows(whole)
       /\ \/ /\ whole # batch
             /\ tornKeys' \in {tornKeys, tornKeys \cup TornKey(whole)}
             /\ malformed' = TRUE /\ openEnd' = TRUE
          \/ /\ whole # {}
             /\ openEnd' \in BOOLEAN
             /\ malformed' \in IF openEnd THEN {malformed, TRUE} ELSE {malformed}
             /\ UNCHANGED tornKeys
  /\ batch' = {} /\ cut' = TRUE /\ pc' = "failed"
  /\ UNCHANGED <<metrics, summary, args, completed, left, kills, reruns>>

(* write_csv of the metrics: open("w") truncates, close() completes.       *)
OpenMetrics ==
  /\ pc = "loop" /\ left = {}
  /\ metrics' = [state |-> "partial"] /\ pc' = "metrics"
  /\ UNCHANGED <<file, summary, memory, kills, reruns>>

CloseMetrics ==
  /\ pc = "metrics"
  /\ metrics' = [state |-> "whole", rows |-> rows] /\ pc' = "aggregate"
  /\ UNCHANGED <<file, summary, memory, kills, reruns>>

(* num_queries of every (group, k): the number of its rows.                *)
Aggregate ==
  [gk \in Groups \X Ks |->
     FoldFunctionOnSet(+, 0, rows,
                   {key \in Keys : Group[key[1]] = gk[1] /\ key[2] = gk[2]})]

(* aggregate_checkpoint_rows raises on a row that has lost fields.         *)
AggregateRows ==
  /\ pc = "aggregate"
  /\ IF malformed THEN pc' = "failed" /\ UNCHANGED summary
                  ELSE pc' = "summary" /\ summary' = [state |-> "partial"]
  /\ UNCHANGED <<file, metrics, memory, kills, reruns>>

CloseSummary ==
  /\ pc = "summary"
  /\ summary' = [state |-> "whole", num_queries |-> Aggregate] /\ pc' = "done"
  /\ UNCHANGED <<file, metrics, memory, kills, reruns>>

(* The process ends between two steps; what it had in memory is gone.      *)
Kill ==
  /\ pc \notin {"down", "done", "failed"} /\ kills < MaxKills
  /\ kills' = kills + 1 /\ pc' = "down"
  /\ completed' = {} /\ left' = {} /\ batch' = {}
  /\ UNCHANGED <<file, metrics, summary, args, reruns>>

StartAny == \E flags \in FlagChoices, calib \in CalibrationSets, ks \in KsChoices :
               Start(flags, calib, ks)

Step == \/ Visit \/ AppendBatch \/ AppendTorn \/ OpenMetrics \/ CloseMetrics
        \/ AggregateRows \/ CloseSummary

Next == StartAny \/ Step \/ Kill

(* A run that is not killed goes on, and a killed one is started again:    *)
(* the log of phase 9b has the operator rerun the script until it is done. *)
Fairness == WF_vars(Step) /\ WF_vars(StartAny /\ pc = "down")

Spec     == Init /\ [][Next]_vars
FairSpec == Spec /\ Fairness

-----------------------------------------------------------------------------
TypeOK ==
  /\ rows \in [Keys -> Nat] /\ tornKeys \subseteq Keys
  /\ malformed \in BOOLEAN /\ openEnd \in BOOLEAN /\ cut \in BOOLEAN
  /\ args.calib \subseteq Queries /\ args.ks \subseteq Ks
  /\ completed \subseteq Keys /\ left \subseteq args.calib /\ batch \subseteq Keys
  /\ pc = "append" <=> batch # {}
  /\ pc \in {"down", "loop", "append", "metrics", "aggregate", "summary",
             "done", "failed"}

(* The line of the log of phase 9b on both flags: a (query, k) that is in  *)
(* the checkpoint is skipped, so the file never holds two rows of a key,   *)
(* whatever was killed or cut in between.                                  *)
AtMostOnce == \A key \in Keys : rows[key] <= 1

(* As long as no write is cut, a run that returns 0 has a row for          *)
(* everything it was asked for, in the file, in the metrics and in the     *)
(* summary, although it evaluated only what earlier, killed runs had left. *)
DoneIsComplete ==
  pc = "done" /\ ~cut =>
    /\ args.calib \X args.ks \subseteq {key \in Keys : rows[key] > 0}
    /\ metrics = [state |-> "whole", rows |-> rows]
    /\ \A g \in Groups, k \in args.ks :
         summary.num_queries[<<g, k>>] >=
           Cardinality({q \in args.calib : Group[q] = g})

(* While the loop runs, a key it will skip is in the file: `completed' is  *)
(* never ahead of what a crash would leave, as long as no write was cut.   *)
SkipsOnlyWhatIsOnDisk ==
  pc \in {"loop", "append"} /\ ~cut => completed \subseteq CompletedKeys

(* If killed runs are started again and no write is cut, the calibration   *)
(* ends with a complete summary.                                           *)
Completes == pc = "down" ~> pc = "done" \/ cut
=============================================================================
