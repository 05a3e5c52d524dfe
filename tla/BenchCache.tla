------------------------------ MODULE BenchCache ------------------------------
(***************************************************************************)
(* The benchmark scripts that keep their measurements in a file and start  *)
(* from it when they are run again:                                        *)
(*                                                                         *)
(*   optimal_config, optimal_mem_config  sweep: one file for a whole sweep *)
(*   topk                                cache_bupt_cbface_topk: the same, *)
(*                                       with one measurement              *)
(*   bench_suite, commitment_eval,       top up: one file per              *)
(*   bio_metric                          configuration, which a run fills  *)
(*                                       up to the number of runs asked    *)
(*   gate_only                           one file for all grids (B, log2K),*)
(*                                       saved after every gate count      *)
(*                                                                         *)
(* A script is started by hand, with other arguments each time, and may be *)
(* killed, or stopped by an exception, at any point.  json.dump writes     *)
(* into the file it has just truncated, so a file may be left torn; the    *)
(* next json.load of it raises.                                            *)
(*                                                                         *)
(* Abstraction: what was measured is forgotten.  A measurement is `new' if *)
(* the present process made it and `old' if an earlier one did, and        *)
(* entries are the numbers of either for a configuration.                  *)
(***************************************************************************)
EXTENDS Integers, SequencesExt

CONSTANTS Setups,    \* scripts with the arguments that name their files
          MaxKills,  \* bound on the processes that are killed
          MaxReruns  \* bound on the runs started after a complete one

VARIABLES
  setup,    \* the script that is being used
  files,    \* file |-> [state, entries, skipped]
  pc,       \* "idle", "look", "load", "measure", "open", "open_last", "close",
            \* "close_last", "report", "done", "killed", "failed", "rejected"
  args,     \* [runs, force, keys] of the present process
  at,       \* number of the configuration the loop is at
  mem,      \* what it holds in memory: [entries, skipped]
  reported, \* configuration |-> entry its summary is made of
  kills, reruns

process == <<pc, args, at, mem, reported>>
vars    == <<setup, files, process, kills, reruns>>

Script == setup.script
Sweeps == {"optimal_config", "optimal_mem_config", "topk"}
TopUps == {"bench_suite", "commitment_eval", "bio_metric"}

(***************************************************************************)
(* The configurations.  A sweep without a valid one, and optimal_config    *)
(* with one that is not, end with a ValueError.                            *)
(***************************************************************************)
GenerateNListCandidates(s) ==
  LET n_list(i) == (s.N \div s.sel) * 2 ^ (i - 1)
      Fits(m)   == m <= s.N /\ s.N % m = 0 /\ s.sel % (s.N \div m) = 0
  IN IF s.sel <= s.N /\ s.N % s.sel = 0 /\ \A i \in 1 .. s.c : Fits(n_list(i))
     THEN [i \in 1 .. s.c |-> n_list(i)] ELSE <<>>

ComputeNAndNProbe(s, n_list) ==
  LET n == s.N \div n_list IN [n |-> n, n_probe |-> s.sel \div n]

ComputeNAndSelectedCount(s) ==
  [n |-> s.N \div s.n_list, sel |-> s.n_probe * (s.N \div s.n_list)]

HasM(s, log_2K) ==
  s.mem_bits % log_2K = 0 /\ s.D % (s.mem_bits \div log_2K) = 0

(* In which order they are measured makes no difference.                   *)
GenerateLog2KCandidates(s) ==
  IF s.N % s.n_list # 0 \/ s.n_probe > s.n_list THEN <<>>
  ELSE SetToSeq({l \in 1 .. s.c : HasM(s, l)})

(* Keys of gate_only are <<B, log_2K>>.                                    *)
ValidateConfig(s, key) == key[1] % key[2] = 0 /\ key[1] \div key[2] <= s.D

CeilDiv(a, b) == (a + b - 1) \div b

(* The circuit a configuration stands for.                                 *)
Circuit(s, key) ==
  CASE s.script = "optimal_config" ->
         LET c == ComputeNAndNProbe(s, key)
         IN [lists |-> key, n |-> c.n, probes |-> c.n_probe,
             M |-> s.M, K |-> s.K, d |-> s.D \div s.M]
    [] s.script = "optimal_mem_config" ->
         LET M == s.mem_bits \div key
         IN [lists |-> s.n_list, n |-> ComputeNAndSelectedCount(s).n,
             probes |-> s.n_probe, M |-> M, K |-> 2 ^ key, d |-> s.D \div M]
    [] s.script = "gate_only" ->
         LET M == key[1] \div key[2]
         IN [lists |-> s.n_list, n |-> s.n, probes |-> s.n_probe,
             M |-> M, K |-> 2 ^ key[2], d |-> CeilDiv(s.D, M)]
    [] OTHER -> [lists |-> 1, n |-> 1, probes |-> 1, M |-> 1, K |-> 1, d |-> 1]

(* gate_count.py: one gate count, without a file, from (B, log2K) or from  *)
(* (M, K), K a power of two.                                               *)
BuildConfigB(s, B, log_2K) ==
  IF ~ ValidateConfig(s, <<B, log_2K>>) THEN {}
  ELSE LET M == B \div log_2K
       IN {[lists |-> s.n_list, n |-> s.n, probes |-> s.n_probe,
            M |-> M, K |-> 2 ^ log_2K, d |-> CeilDiv(s.D, M)]}

BuildConfigM(s, M, K) ==
  IF M > s.D THEN {}
  ELSE {[lists |-> s.n_list, n |-> s.n, probes |-> s.n_probe,
         M |-> M, K |-> K, d |-> CeilDiv(s.D, M)]}

(***************************************************************************)
(* Files and what a process asks for.                                      *)
(***************************************************************************)
Keys == CASE Script = "optimal_config"     -> GenerateNListCandidates(setup)
          [] Script = "optimal_mem_config" -> GenerateLog2KCandidates(setup)
          [] OTHER                         -> args.keys

(* num_runs is part of the name of a sweep's file.                         *)
Arguments(s) ==
  [runs  : IF s.script \in TopUps THEN s.runs ELSE {s.num_runs},
   force : BOOLEAN,
   keys  : s.grids]

ResultFile(key) == IF Script \in TopUps THEN key ELSE "all"
Files(s) ==
  IF s.script \in TopUps
  THEN UNION {{g[i] : i \in 1 .. Len(g)} : g \in s.grids} ELSE {"all"}

(* The scripts reject dimensions and numbers of runs that are not positive.*)
(* The file of a sweep is named after all of its configurations.           *)
SetupsAssumption ==
  \A s \in Setups :
    /\ s.script \in Sweeps \cup TopUps \cup {"gate_only"}
    /\ \A g \in s.grids : g \in Seq(Range(g))
    /\ IF s.script \in TopUps THEN s.runs \subseteq Nat \ {0}
                               ELSE s.num_runs \in Nat \ {0}
    /\ s.script \in Sweeps => \A g, h \in s.grids : g = h
    /\ s.script = "optimal_config" => {s.N, s.sel} \subseteq Nat \ {0} /\ s.c \in Nat
    /\ s.script = "optimal_mem_config" =>
         {s.N, s.D, s.n_list, s.mem_bits} \subseteq Nat \ {0} /\ s.c \in Nat
    /\ s.script = "gate_only" =>
         /\ s.D \in Nat \ {0}
         /\ \A g \in s.grids : \A i \in 1 .. Len(g) : g[i] \in (Nat \ {0}) \X (Nat \ {0})

NoEntries == [k \in {} |-> 0]
Empty     == [entries |-> NoEntries, skipped |-> 0]
Absent    == [state |-> "none", entries |-> NoEntries, skipped |-> 0]
Torn      == [Absent EXCEPT !.state = "torn"]

Total(entry) == entry.old + entry.new
Runs(key) == IF key \in DOMAIN mem.entries THEN Total(mem.entries[key]) ELSE 0

Put(f, key, value) == [k \in DOMAIN f \cup {key} |-> IF k = key THEN value ELSE f[k]]
Key  == Keys[at]
File == files[ResultFile(Key)]

Init ==
  /\ setup \in Setups
  /\ files = [f \in Files(setup) |-> Absent]
  /\ pc = "idle" /\ args = [runs |-> 1, force |-> FALSE, keys |-> <<>>]
  /\ at = 1 /\ mem = Empty /\ reported = NoEntries
  /\ kills = 0 /\ reruns = 0

(***************************************************************************)
(* A process is started by hand.                                           *)
(***************************************************************************)
Aged(entries) == [k \in DOMAIN entries |-> [old |-> Total(entries[k]), new |-> 0]]

Begin(a) ==
  /\ args' = a /\ at' = 1 /\ mem' = Empty /\ reported' = NoEntries
  /\ files' = [f \in DOMAIN files |->
                 [files[f] EXCEPT !.entries = Aged(files[f].entries)]]
  /\ pc' = "look"

Start ==
  /\ pc \in {"idle", "done", "killed", "failed"}
  /\ pc = "done" => reruns < MaxReruns
  /\ reruns' = IF pc = "done" THEN reruns + 1 ELSE reruns
  /\ \E a \in Arguments(setup) : Begin(a)
  /\ UNCHANGED <<setup, kills>>

(* What helps against a torn file: --force-recompute, or deleting it.      *)
Recover ==
  /\ pc = "failed"
  /\ IF Script = "gate_only"
     THEN /\ files' = [files EXCEPT !["all"] = Absent] /\ pc' = "idle"
          /\ UNCHANGED <<args, at, mem, reported>>
     ELSE \E a \in Arguments(setup) : a.force /\ Begin(a)
  /\ UNCHANGED <<setup, kills, reruns>>

(***************************************************************************)
(* The file is looked at: once by a sweep and by gate_only, which reads it *)
(* even if it is forced not to use it; for each configuration by bench_    *)
(* suite.  A sweep that finds a file does not measure, and topk does not   *)
(* even read it: it hands its path to whoever loads it later.              *)
(***************************************************************************)
Exists == File.state # "none"
Reads  == Exists /\ (~ args.force \/ Script = "gate_only")
Uses   == Exists /\ ~ args.force
Loaded == [entries |-> File.entries, skipped |-> File.skipped]

Look ==
  /\ pc = "look"
  /\ IF Keys = <<>> THEN pc' = "rejected" /\ UNCHANGED mem
     ELSE IF Uses /\ Script = "topk" THEN pc' = "load" /\ UNCHANGED mem
     ELSE IF Reads /\ File.state = "torn" THEN pc' = "failed" /\ UNCHANGED mem
     ELSE /\ mem' = IF Uses THEN Loaded ELSE Empty
          /\ pc' = IF Uses /\ Script \in Sweeps THEN "report" ELSE "measure"
  /\ UNCHANGED <<setup, files, args, at, reported, kills, reruns>>

(* np.load of what topk has left.                                          *)
Load ==
  /\ pc = "load"
  /\ IF File.state = "torn" THEN pc' = "failed" /\ UNCHANGED mem
                            ELSE pc' = "report" /\ mem' = Loaded
  /\ UNCHANGED <<setup, files, args, at, reported, kills, reruns>>

(***************************************************************************)
(* The loop over configurations.  What there is to do for one:             *)
(***************************************************************************)
Skips == Script = "gate_only" /\ ~ ValidateConfig(setup, Key) /\ Runs(Key) = 0
Lacks == Runs(Key) < args.runs /\ ~ Skips

(* _run_once, or a gate count, which is saved at once.  It may raise.      *)
Measure ==
  /\ pc = "measure" /\ Lacks
  /\ LET entry == IF Runs(Key) = 0 THEN [old |-> 0, new |-> 0] ELSE mem.entries[Key]
     IN \/ /\ mem' = [mem EXCEPT !.entries =
                        Put(@, Key, [entry EXCEPT !.new = @ + 1])]
           /\ pc' = IF Script = "gate_only" THEN "open" ELSE "measure"
           /\ UNCHANGED kills
        \/ /\ kills < MaxKills /\ kills' = kills + 1
           /\ pc' = "killed" /\ UNCHANGED mem
  /\ UNCHANGED <<setup, files, args, at, reported, reruns>>

(* Where the loop goes when nothing is left to do for a configuration: a   *)
(* topped up file is saved if something was measured.                      *)
IsLast == at = Len(Keys)
Summed == Put(reported, Key, mem.entries[Key])

(* Mutant: a sweep saves behind every configuration.                       *)
Advance_Saves ==
  /\ pc = "measure" /\ ~ Lacks
  /\ mem' = IF Skips THEN [mem EXCEPT !.skipped = @ + 1] ELSE mem
  /\ IF Script \in TopUps
     THEN IF mem.entries[Key].new > 0
          THEN pc' = "open" /\ UNCHANGED <<at, reported>>
          ELSE /\ reported' = Summed
               /\ pc' = IF IsLast THEN "done" ELSE "look"
               /\ at' = IF IsLast THEN at ELSE at + 1
     ELSE /\ pc' = "open"
          /\ at' = IF IsLast THEN at ELSE at + 1
          /\ UNCHANGED reported
  /\ UNCHANGED <<setup, files, args, kills, reruns>>

Advance ==
  /\ pc = "measure" /\ ~ Lacks
  /\ mem' = IF Skips THEN [mem EXCEPT !.skipped = @ + 1] ELSE mem
  /\ IF Script \in TopUps
     THEN IF mem.entries[Key].new > 0
          THEN pc' = "open" /\ UNCHANGED <<at, reported>>
          ELSE /\ reported' = Summed
               /\ pc' = IF IsLast THEN "done" ELSE "look"
               /\ at' = IF IsLast THEN at ELSE at + 1
     ELSE /\ pc' = IF IsLast THEN "open_last" ELSE "measure"
          /\ at' = IF IsLast THEN at ELSE at + 1
          /\ UNCHANGED reported
  /\ UNCHANGED <<setup, files, args, kills, reruns>>

(***************************************************************************)
(* open(path, "w") and json.dump.                                          *)
(***************************************************************************)
Open ==
  /\ pc \in {"open", "open_last"}
  /\ files' = [files EXCEPT ![ResultFile(Key)] = Torn]
  /\ pc' = IF pc = "open" THEN "close" ELSE "close_last"
  /\ UNCHANGED <<setup, args, at, mem, reported, kills, reruns>>

Close ==
  /\ pc \in {"close", "close_last"}
  /\ files' = [files EXCEPT ![ResultFile(Key)] =
                 [state |-> "whole", entries |-> mem.entries, skipped |-> mem.skipped]]
  /\ IF Script \in TopUps
     THEN /\ reported' = Summed
          /\ pc' = IF IsLast THEN "done" ELSE "look"
          /\ at' = IF IsLast THEN at ELSE at + 1
     ELSE /\ pc' = IF pc = "close" THEN "measure" ELSE "report"
          /\ UNCHANGED <<at, reported>>
  /\ UNCHANGED <<setup, args, mem, kills, reruns>>

(* A sweep and gate_only summarise what they hold at the end.              *)
Report ==
  /\ pc = "report" /\ pc' = "done"
  /\ reported' = [k \in DOMAIN mem.entries \cap {Keys[i] : i \in 1 .. Len(Keys)} |->
                    mem.entries[k]]
  /\ UNCHANGED <<setup, files, args, at, mem, kills, reruns>>

Kill ==
  /\ pc \notin {"idle", "done", "killed", "failed", "rejected"}
  /\ kills < MaxKills /\ kills' = kills + 1
  /\ pc' = "killed"
  /\ UNCHANGED <<setup, files, args, at, mem, reported, reruns>>

Works == Look \/ Load \/ Measure \/ Advance \/ Open \/ Close \/ Report
Next  == Start \/ Recover \/ Works \/ Kill

Spec == Init /\ [][Next]_vars

(* A process runs, and who needs its results starts it again, the right    *)
(* way once a torn file has made it fail.                                  *)
Fairness == WF_vars(Works) /\ WF_vars(Start) /\ SF_vars(Recover)

(***************************************************************************)
(* Properties.                                                             *)
(***************************************************************************)
(* The configurations of one sweep answer the same question: of so many    *)
(* vectors, so many are searched, or codes have so many bits; and a gate   *)
(* count is of the circuit the key names, whichever way it was asked for.  *)
ComparesLikeWithLike(key) ==
  LET c == Circuit(setup, key)
  IN CASE Script = "optimal_config" ->
            /\ c.lists * c.n = setup.N /\ c.probes * c.n = setup.sel
            /\ c.probes <= c.lists
       [] Script = "optimal_mem_config" ->
            /\ c.lists * c.n = setup.N /\ c.M * key = setup.mem_bits
            /\ c.M * c.d = setup.D
       [] Script = "gate_only" ->
            /\ c.M * key[2] = key[1] /\ c.M * (c.d - 1) < setup.D /\ setup.D <= c.M * c.d
            /\ BuildConfigB(setup, key[1], key[2]) = {c}
            /\ BuildConfigM(setup, c.M, c.K) = {c}
       [] OTHER -> TRUE

(* What a script reports at its end is what its files hold, and is enough: *)
(* a sweep has as many measurements of each of its configurations as were  *)
(* asked for, all of one process; topping up has at least as many, and     *)
(* gate_only one for each circuit there is, all of them new if old ones    *)
(* were not to be used.  However often it was killed and started before.   *)
ReportsAreWhole ==
  pc = "done" =>
    /\ DOMAIN reported = {k \in {Keys[i] : i \in 1 .. Len(Keys)} :
                            Script = "gate_only" => ValidateConfig(setup, k)}
    /\ \A k \in DOMAIN reported :
         LET entry == reported[k] IN
           /\ ComparesLikeWithLike(k)
           /\ files[ResultFile(k)].state = "whole"
           /\ files[ResultFile(k)].entries[k] = entry
           /\ IF Script \in TopUps THEN Total(entry) >= args.runs
                                   ELSE Total(entry) = args.runs
           /\ args.force => entry.old = 0
           /\ Script \in Sweeps => \A j \in DOMAIN reported :
                                     entry.old = reported[j].old

(* A process that has begun is followed by one that reports, or by one     *)
(* that rejects its arguments.                                             *)
Begun == pc = "look"
Ended == pc \in {"done", "rejected"}
=============================================================================
