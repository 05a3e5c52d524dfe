---------------------------- MODULE MemoryMonitor ---------------------------
(***************************************************************************)
(* metrics_eval with measure_memory_usage: while the main thread computes  *)
(* a proof, a second thread samples the memory of the process and keeps    *)
(* the maximum in an atomic.  The two share running and peak_memory.       *)
(*                                                                         *)
(* Every step is one atomic operation or one call.  `samples' and `high'   *)
(* are history: what the monitor read and the most the process ever used.  *)
(***************************************************************************)
EXTENDS Integers

CONSTANT MaxUsage  \* bound of the memory of the process

VARIABLES usage, high,          \* memory of the process, now and at most
          running, peak_memory, \* the shared atomics
          mon, current, peak,   \* the monitor: where it is, its locals
          pc, measured,         \* metrics_eval: where it is, memory_used
          samples

environment == <<usage, high>>
shared      == <<running, peak_memory>>
monitor     == <<mon, current, peak>>
vars        == <<environment, shared, monitor, pc, measured, samples>>

Usages   == 0 .. MaxUsage
Returned == {"ok", "err"}

Highest(S) == CHOOSE x \in S : \A y \in S : y <= x

Init ==
  /\ usage \in 1 .. MaxUsage /\ high = usage
  /\ running = TRUE /\ peak_memory = 0 /\ samples = {}
  /\ mon = "unborn" /\ current = 0 /\ peak = 0
  /\ pc = "build" /\ measured = 0

(* The process allocates and frees until metrics_eval returns.             *)
Allocate ==
  /\ pc \notin Returned \cup {"unwound"}
  /\ usage' \in Usages \ {0, usage}
  /\ high' = IF usage' > high THEN usage' ELSE high
  /\ UNCHANGED <<shared, monitor, pc, measured, samples>>

Spawn ==
  /\ pc = "build" /\ pc' = "prove" /\ mon' = "check"
  /\ UNCHANGED <<environment, shared, current, peak, measured, samples>>

(* f returns, with a proof or with an error, or panics: then nothing stops *)
(* the monitor, which no one joins.                                        *)
FReturns ==
  /\ pc = "prove" /\ pc' \in {"stop", "stop_err"}
  /\ UNCHANGED <<environment, shared, monitor, measured, samples>>

FPanics ==
  /\ pc = "prove" /\ pc' = "unwound"
  /\ UNCHANGED <<environment, shared, monitor, measured, samples>>

Stop ==
  /\ pc \in {"stop", "stop_err"}
  /\ running' = FALSE
  /\ pc' = IF pc = "stop" THEN "join" ELSE "join_err"
  /\ UNCHANGED <<environment, peak_memory, monitor, measured, samples>>

(* monitor.join(), then the peak is read; an error of f is propagated.     *)
Join ==
  /\ pc \in {"join", "join_err"} /\ mon = "exit"
  /\ measured' = peak_memory
  /\ pc' = IF pc = "join" THEN "compress" ELSE "err"
  /\ UNCHANGED <<environment, shared, monitor, samples>>

Compress ==
  /\ pc = "compress" /\ pc' \in {"verify", "err"}
  /\ UNCHANGED <<environment, shared, monitor, measured, samples>>

Verify ==
  /\ pc = "verify" /\ pc' \in Returned
  /\ UNCHANGED <<environment, shared, monitor, measured, samples>>

(* Mutant: the loop does not look at the flag.                             *)
Check_Always ==
  /\ mon = "check" /\ mon' = "sample"
  /\ UNCHANGED <<environment, shared, current, peak, pc, measured, samples>>

Check ==
  /\ mon = "check" /\ mon' = IF running THEN "sample" ELSE "exit"
  /\ UNCHANGED <<environment, shared, current, peak, pc, measured, samples>>

(* get_memory_usage answers 0 when the process table cannot be read.       *)
Sample ==
  /\ mon = "sample" /\ mon' = "load"
  /\ current' \in {usage, 0}
  /\ samples' = samples \cup {current'}
  /\ UNCHANGED <<environment, shared, peak, pc, measured>>

Load ==
  /\ mon = "load" /\ mon' = "update"
  /\ peak' = peak_memory
  /\ UNCHANGED <<environment, shared, current, pc, measured, samples>>

(* Mutant: the newest sample is stored.                                    *)
Update_Last ==
  /\ mon = "update"
  /\ peak_memory' = current /\ mon' = "sleep" /\ peak' = peak
  /\ UNCHANGED <<environment, running, current, pc, measured, samples>>

(* while current > peak: compare and exchange, retry with what is there.   *)
Update ==
  /\ mon = "update"
  /\ IF current > peak /\ peak_memory # peak
     THEN peak' = peak_memory /\ UNCHANGED <<mon, peak_memory>>
     ELSE /\ peak_memory' = IF current > peak THEN current ELSE peak_memory
          /\ mon' = "sleep" /\ peak' = peak
  /\ UNCHANGED <<environment, running, current, pc, measured, samples>>

Sleep ==
  /\ mon = "sleep" /\ mon' = "check"
  /\ UNCHANGED <<environment, shared, current, peak, pc, measured, samples>>

Monitor == Check \/ Sample \/ Load \/ Update \/ Sleep
Main    == Spawn \/ FReturns \/ FPanics \/ Stop \/ Join \/ Compress \/ Verify

Next == Allocate \/ Monitor \/ Main

Spec == Init /\ [][Next]_vars

(* Both threads are scheduled and f ends.                                  *)
Fairness == WF_vars(Monitor) /\ WF_vars(Main)

(***************************************************************************)
(* Properties.                                                             *)
(***************************************************************************)
(* What is reported is the maximum of all samples, the last one included,  *)
(* and 0 if the proof was faster than the start of the monitor; it never   *)
(* exceeds what the process really used, and no monitor survives the call. *)
MeasuredIsPeak ==
  pc \in {"compress", "verify"} \cup Returned =>
    /\ measured = Highest(samples \cup {0}) /\ measured <= high
    /\ mon = "exit"

(* A finished f is not kept waiting: the monitor always comes back to its  *)
(* flag.                                                                   *)
Stopping == pc \in {"stop", "stop_err"}
Returns  == pc \in Returned
=============================================================================
