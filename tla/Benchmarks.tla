------------------------------ MODULE Benchmarks ------------------------------
(***************************************************************************)
(* The measuring programs of bench/ and scripts/, which share nothing but  *)
(* the person who starts them, one at a time, and starts them again:       *)
(*                                                                         *)
(*   "caches"   scripts that keep measurements in a file (BenchCache)      *)
(*   "marco"    tables of embeddings and the MS MARCO evaluation made of   *)
(*              them (MsMarcoEval)                                         *)
(*   "faces"    samples of faces and the quality of a search               *)
(*              (SearchMetrics)                                            *)
(*   "overlay"  masks over search traces, and the full answers behind them *)
(*              (AuthOverlay)                                              *)
(*   "proof"    a proof and the monitor of its memory, which the first     *)
(*              call for a measurement (MemoryMonitor)                     *)
(*                                                                         *)
(* The variables of those that do not run are fixed.                       *)
(***************************************************************************)
EXTENDS Integers, Sequences

CONSTANTS Setups, MaxKills, MaxReruns,
          Texts, BatchOf, Users, Qrels, KsLists,
          FaceTables, Samples, TopKs, ReportKs,
          Studies,
          MaxUsage

VARIABLES program,
          setup, files, pc, args, at, mem, reported, kills, reruns,
          user, text, rows, ingest, disk, touches, job, writes, spoiled, faults,
          faces, sample, stage, asked, reader, fetched, perm, write_pos, db, db_q_idx, gt,
          top_k, answers,
          study, masks, outputs, checkpoint, drawn, next, script, losses, renewals,
          usage, high, running, peak_memory, mon, current, peak, call, measured, samples

Caches == INSTANCE BenchCache
Marco  == INSTANCE MsMarcoEval
Faces  == INSTANCE SearchMetrics WITH Tables <- FaceTables
Overlay == INSTANCE AuthOverlay
Proof  == INSTANCE MemoryMonitor WITH pc <- call

ASSUME MeasuringAssumption ==
  /\ Caches!SetupsAssumption /\ MaxUsage \in Nat
  /\ Marco!TextsAssumption /\ Marco!UsersAssumption
  /\ Faces!FacesAssumption /\ Overlay!StudiesAssumption

caches == <<setup, files, pc, args, at, mem, reported, kills, reruns>>
marco  == <<user, text, rows, ingest, disk, touches, job, writes, spoiled, faults>>
search == <<faces, sample, stage, asked, reader, fetched, perm, write_pos, db, db_q_idx, gt,
            top_k, answers>>
overlay == <<study, masks, outputs, checkpoint, drawn, next, script, losses, renewals>>
proof  == <<usage, high, running, peak_memory, mon, current, peak, call, measured, samples>>
vars   == <<program, caches, marco, search, overlay, proof>>

NoCaches ==
  /\ setup = [script |-> "none"] /\ files = <<>> /\ pc = "none" /\ args = <<>> /\ at = 0
  /\ mem = <<>> /\ reported = <<>> /\ kills = 0 /\ reruns = 0

NoMarco ==
  /\ user = [configs |-> {}, limits |-> {}, faults |-> 0] /\ text = <<>> /\ rows = <<>> /\ ingest = [pc |-> "none"]
  /\ disk = <<>> /\ touches = FALSE /\ job = [pc |-> "none"]
  /\ writes = <<>> /\ spoiled = {} /\ faults = 0

NoFaces ==
  /\ faces = <<>> /\ sample = <<>> /\ stage = "none"
  /\ asked = <<>> /\ reader = <<>> /\ fetched = 0 /\ perm = <<>> /\ write_pos = 0
  /\ db = <<>> /\ db_q_idx = <<>> /\ gt = <<>> /\ top_k = 0 /\ answers = <<>>

NoOverlay ==
  /\ study = [mode |-> "none"] /\ masks = <<>> /\ outputs = <<>> /\ checkpoint = {}
  /\ drawn = <<>> /\ next = "none" /\ script = [name |-> "off", todo |-> <<>>]
  /\ losses = 0 /\ renewals = 0

NoProof ==
  /\ usage = 0 /\ high = 0 /\ running = FALSE /\ peak_memory = 0
  /\ mon = "none" /\ current = 0 /\ peak = 0 /\ call = "none"
  /\ measured = 0 /\ samples = {}

Init ==
  \/ program = "caches"  /\ Caches!Init  /\ NoMarco /\ NoFaces /\ NoOverlay /\ NoProof
  \/ program = "marco"   /\ Marco!Init   /\ NoCaches /\ NoFaces /\ NoOverlay /\ NoProof
  \/ program = "faces"   /\ Faces!Init   /\ NoCaches /\ NoMarco /\ NoOverlay /\ NoProof
  \/ program = "overlay" /\ Overlay!Init /\ NoCaches /\ NoMarco /\ NoFaces /\ NoProof
  \/ program = "proof"   /\ Proof!Init   /\ NoCaches /\ NoMarco /\ NoFaces /\ NoOverlay

Next ==
  /\ UNCHANGED program
  /\ \/ /\ program = "caches" /\ Caches!Next
        /\ UNCHANGED <<marco, search, overlay, proof>>
     \/ /\ program = "marco" /\ Marco!Next
        /\ UNCHANGED <<caches, search, overlay, proof>>
     \/ /\ program = "faces" /\ Faces!Next
        /\ UNCHANGED <<caches, marco, overlay, proof>>
     \/ /\ program = "overlay" /\ Overlay!Next
        /\ UNCHANGED <<caches, marco, search, proof>>
     \/ /\ program = "proof" /\ Proof!Next
        /\ UNCHANGED <<caches, marco, search, overlay>>

Spec == Init /\ [][Next]_vars /\ Caches!Fairness /\ Marco!Fairness
             /\ Overlay!Fairness /\ Proof!Fairness

(***************************************************************************)
(* Properties.                                                             *)
(***************************************************************************)
(* What a script that keeps its measurements reports is whole, of the      *)
(* configurations asked for, and what its files hold; no killed process,   *)
(* other argument or torn file before it shows.                            *)
ReportsAreWhole == program = "caches" => Caches!ReportsAreWhole

(* From the text files of MS MARCO to the report, nothing that was cached, *)
(* resumed or left behind by a killed run stands for something else, except*)
(* the scaled copy a forced run was killed over; and from the masks to the *)
(* calibrated queries all scripts see the same view of a selectivity, until*)
(* its mask is made again as another one, which no fixed hash seed does.   *)
EvaluatesWhatIsThere ==
  /\ program = "marco" => Marco!EvaluatesWhatIsThere
  /\ program = "overlay" => Overlay!EvaluatesWhatIsThere

(* The truth a search of faces is compared with is right, and the measures *)
(* of three benchmarks agree wherever they mean the same; behind a mask a  *)
(* filtered, an authorized and the full answer are ordered as they must be.*)
MeasuresAgree ==
  /\ program = "faces" => Faces!MeasuresAgree
  /\ program = "overlay" => Overlay!MeasuresAgree

(* The memory a proof reports is the maximum of all samples, and the       *)
(* monitor does not survive the call.                                      *)
MeasuredIsPeak == program = "proof" => Proof!MeasuredIsPeak

(* Whoever starts a script again, the right way once it failed, gets its   *)
(* results, and a finished proof is not kept waiting by its monitor.       *)
EveryRunEnds ==
  Caches!Begun \/ Marco!Wanted \/ Overlay!Wanted \/ Proof!Stopping
    ~> Caches!Ended \/ Marco!Reported \/ Overlay!Done \/ Proof!Returns
=============================================================================
