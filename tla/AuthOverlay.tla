----------------------------- MODULE AuthOverlay -----------------------------
(***************************************************************************)
(* The authorization overlay of the public benchmarks: four scripts that   *)
(* hand each other files.                                                  *)
(*                                                                         *)
(*   generate   one mask of visible objects for each selectivity           *)
(*   evaluate   what is left of a search trace behind every mask, into     *)
(*              metrics and a summary                                      *)
(*   select     queries worth a closer look, by what the mask did to them  *)
(*   calibrate  those queries against the full authorized answer           *)
(*                                                                         *)
(* A user runs them in this order.  A script may be killed anywhere; the   *)
(* user repeats it, or goes on with what there is, and starts over when a  *)
(* script fails or the masks are wanted anew.                              *)
(*                                                                         *)
(* One data set, one search configuration and one policy mode.  Objects    *)
(* are numbers, selectivities percentages, a query has a distance to every *)
(* object, recalls and rates are counts over the queries.  Samples of the  *)
(* masks that no script reads are left out, and the rows of a query reach  *)
(* the checkpoint as one (CalibrationResume has what else may happen).     *)
(***************************************************************************)
EXTENDS Integers, Sequences, FiniteSets, FiniteSetsExt, SequencesExt

CONSTANT Studies  \* [mode, sels, min_classes, salts, trace, ks, k_select,
                  \*  per_bucket, max_queries, kills, again]; a trace is
                  \* [num_base, pred, gt, dist]

(* The k are positive, and there is at least one query, with a distance to *)
(* every object.  No other mode draws a mask.                              *)
StudiesAssumption ==
  \A st \in Studies :
    /\ st.mode \in {"uniform_random", "clustered_acl", "skewed_acl"}
    /\ st.trace.num_base \in Nat
    /\ \A q \in DOMAIN st.trace.pred :
         st.trace.dist[q] \in [0 .. st.trace.num_base - 1 -> Int]
    /\ st.sels \subseteq Nat /\ IsFiniteSet(st.salts) /\ IsFiniteSet(st.ks)
    /\ st.trace.pred \in Seq(Seq(Int)) /\ st.trace.pred # <<>>
    /\ st.ks \subseteq Nat \ {0} /\ st.k_select \in Nat \ {0}
    /\ st.per_bucket \in Nat \ {0} /\ st.max_queries \in Int

VARIABLES study,
          masks,      \* selectivity -> the file of its mask
          outputs,    \* "metrics", "summary", "queries" -> their file
          checkpoint, \* rows of the calibration
          drawn,      \* seed -> the mask it draws
          next,       \* the script the user runs next, or "done"
          script,     \* the running script, or name "none"
          losses,     \* kills so far
          renewals    \* how often masks were wanted anew

vars == <<study, masks, outputs, checkpoint, drawn, next, script, losses, renewals>>

Objects  == 0 .. study.trace.num_base - 1
Queries  == DOMAIN study.trace.pred
Depth(q) == Len(study.trace.pred[q])
Dist(q)  == study.trace.dist[q]

NoFile   == [state |-> "none"]
TornFile == [state |-> "torn"]
Whole(x) == [state |-> "whole", content |-> x]

(* No instance meets a half, which Python rounds to even.                  *)
RoundOf(x, percent) == (2 * x * percent + 100) \div 200

(***************************************************************************)
(* Masks.                                                                  *)
(***************************************************************************)
UniformMasks == SUBSET Objects

(* Objects take turns among the classes, 8 or more in the code; the first  *)
(* classes are visible.                                                    *)
ClusteredMasks(sel) ==
  LET num_classes == Max({study.min_classes, (200 + sel) \div (2 * sel)})
  IN {{o \in Objects : o % num_classes < Max({1, RoundOf(num_classes, sel)})}}

(* Rare classes are taken until they suffice, then some objects dropped.   *)
SkewedMasks(sel) == kSubset(RoundOf(Cardinality(Objects), sel), Objects)

GenerateOverlay(sel) ==
  CASE study.mode = "uniform_random" -> UniformMasks
    [] study.mode = "clustered_acl"  -> ClusteredMasks(sel)
    [] study.mode = "skewed_acl"     -> SkewedMasks(sel)

(* hash() of a text differs between processes unless the user fixes it.    *)
SeedFor(sel) == <<sel, script.salt>>

(***************************************************************************)
(* Answers behind a mask.                                                  *)
(***************************************************************************)
Prefix(s, k) == SubSeq(s, 1, Min({k, Len(s)}))
Items(s)     == {s[i] : i \in DOMAIN s}

(* In the order of the trace.                                              *)
Visible(pred, mask) ==
  LET shown == {i \in DOMAIN pred : pred[i] \in mask}
      place(n) == CHOOSE i \in shown : Cardinality({j \in shown : j <= i}) = n
  IN [n \in 1 .. Cardinality(shown) |-> pred[place(n)]]

PostFilterResults(q, mask, k) == Visible(Prefix(study.trace.pred[q], k), mask)

CandidateResults(q, mask, k) == Prefix(Visible(study.trace.pred[q], mask), k)

Hit(q, result) == study.trace.gt[q] \in Items(result)

(* One row of metrics.                                                     *)
EvaluateTrace(sel, mask, k) ==
  LET post(q) == PostFilterResults(q, mask, k)
      auth(q) == CandidateResults(q, mask, k)
      outside(q) == Cardinality({i \in DOMAIN post(q) : post(q)[i] \notin mask})
  IN [sel |-> sel, k |-> k,
      unrestricted |-> Cardinality({q \in Queries : Hit(q, Prefix(study.trace.pred[q], k))}),
      post_filter  |-> Cardinality({q \in Queries : Hit(q, post(q))}),
      authorized   |-> Cardinality({q \in Queries : Hit(q, auth(q))}),
      underfill    |-> Cardinality({q \in Queries : Len(post(q)) < k}),
      affected     |-> Cardinality({q \in Queries : post(q) # auth(q)}),
      violations   |-> MapThenSumSet(outside, Queries)]

(***************************************************************************)
(* What a mask did to a query.                                             *)
(***************************************************************************)
GapBucket(q, mask) ==
  LET post == PostFilterResults(q, mask, study.k_select)
      candidate == CandidateResults(q, mask, study.k_select)
  IN CASE Hit(q, candidate) /\ ~Hit(q, post) -> "high"
       [] post # candidate /\ (Hit(q, candidate) <=> Hit(q, post)) -> "medium"
       [] OTHER -> "low"

UnderfillBucket(q, mask) ==
  IF Len(PostFilterResults(q, mask, study.k_select)) < study.k_select
  THEN "underfill" ELSE "filled"

SelectionRow(sel, q, mask) ==
  [sel |-> sel, q |-> q, gap |-> GapBucket(q, mask), fill |-> UnderfillBucket(q, mask)]

(* From every bucket as many queries as wanted, if it has them.            *)
SelectCalibrationQueries(sel, mask) ==
  LET all == {SelectionRow(sel, q, mask) : q \in Queries}
      buckets == {{r \in all : r.gap = b.gap /\ r.fill = b.fill} : b \in all}
  IN {rows \in SUBSET all :
        \A b \in buckets :
          Cardinality(rows \cap b) = Min({study.per_bucket, Cardinality(b)})}

CapQueries(rows) ==
  IF study.max_queries <= 0 \/ Cardinality(rows) <= study.max_queries
  THEN {rows} ELSE kSubset(study.max_queries, rows)

(***************************************************************************)
(* The full authorized answer.                                             *)
(***************************************************************************)
(* Sets of the k visible objects that are nearest: an exact index gives    *)
(* one of them.                                                            *)
Nearest(q, mask, k) ==
  {S \in kSubset(Min({k, Cardinality(mask)}), mask) :
     \A o \in S, x \in mask \ S : Dist(q)[o] <= Dist(q)[x]}

(* The entry on top of the heap: the furthest, and of those the lowest id. *)
Top(q, heap) ==
  CHOOSE o \in heap : \A x \in heap :
    Dist(q)[x] < Dist(q)[o] \/ (Dist(q)[x] = Dist(q)[o] /\ o <= x)

Update(q, k, heap, o) ==
  IF Cardinality(heap) < k THEN heap \cup {o}
  ELSE IF Dist(q)[o] < Dist(q)[Top(q, heap)] THEN (heap \ {Top(q, heap)}) \cup {o}
  ELSE heap

(* The heap behind all chunks, which come in the order of the ids: behind  *)
(* the greatest it is what that one makes of the heap behind the others.   *)
TopKTracker(q, mask, k) ==
  MapThenFoldSet(LAMBDA o, heap : Update(q, k, heap, o), {}, LAMBDA o : o, Max, mask)

Results(q, heap) ==
  {s \in SetToSeqs(heap) : \A i \in 2 .. Len(s) : Dist(q)[s[i - 1]] <= Dist(q)[s[i]]}

FullTopK(q, mask, k) ==
  UNION {Results(q, heap) : heap \in {TopKTracker(q, mask, k)} \cup Nearest(q, mask, k)}

OverlapAtK(a, b, k) == Cardinality(Items(Prefix(a, k)) \cap Items(Prefix(b, k)))

(* The rows of a query, made of one full answer for the largest k.         *)
EvaluateCalibrationQuery(sel, q, mask, ks, full) ==
  {LET post == PostFilterResults(q, mask, k)
       candidate == CandidateResults(q, mask, k)
   IN [sel |-> sel, q |-> q, k |-> k,
       post_filter |-> Hit(q, post), candidate |-> Hit(q, candidate),
       full |-> Hit(q, Prefix(full, k)), underfill |-> Len(post) < k,
       candidate_overlap |-> OverlapAtK(candidate, full, k),
       post_overlap |-> OverlapAtK(post, full, k)] : k \in ks}

(***************************************************************************)
(* The scripts.                                                            *)
(***************************************************************************)
Idle == [name |-> "none", salt |-> 0, left |-> {}, rows |-> {}, todo |-> <<>>, open |-> FALSE]

Init ==
  /\ study \in Studies
  /\ masks = [sel \in study.sels |-> NoFile]
  /\ outputs = [o \in {"metrics", "summary", "queries"} |-> NoFile]
  /\ checkpoint = {} /\ drawn = <<>>
  /\ next = "generate" /\ script = Idle /\ losses = 0 /\ renewals = 0

Running(name) == script.name = name
Continue(left, rows) == script' = [script EXCEPT !.left = left, !.rows = rows]

Finish(then) == next' = then /\ script' = Idle

(* The user starts over.                                                   *)
Fail == Finish("generate")

(* A script lists the masks that are there, or what to calibrate.          *)
Inputs(name) ==
  CASE name = "generate"  -> study.sels
    [] name = "calibrate" ->
         IF outputs["queries"].state = "whole" THEN outputs["queries"].content ELSE {}
    [] OTHER -> {sel \in study.sels : masks[sel].state # "none"}

(* evaluate writes its rows twice.                                         *)
OutputsOf(name) ==
  CASE name = "evaluate" -> <<"metrics", "summary">>
    [] name = "select"   -> <<"queries">>
    [] OTHER             -> <<>>

(* Without the files of evaluate, or without queries, a script exits.      *)
Exits(name) ==
  \/ name = "select" /\ \E o \in {"metrics", "summary"} : outputs[o].state = "none"
  \/ name = "calibrate" /\ Inputs(name) = {}

Start ==
  /\ Running("none") /\ next # "done"
  /\ IF Exits(next) THEN Fail
     ELSE \E salt \in study.salts :
            /\ script' = [Idle EXCEPT !.name = next, !.salt = salt,
                                      !.left = Inputs(next), !.todo = OutputsOf(next)]
            /\ UNCHANGED next
  /\ UNCHANGED <<study, masks, outputs, checkpoint, drawn, losses, renewals>>

OpenMask ==
  /\ Running("generate") /\ script.left # {} /\ ~script.open
  /\ masks' = [masks EXCEPT ![Min(script.left)] = TornFile]
  /\ script' = [script EXCEPT !.open = TRUE]
  /\ UNCHANGED <<study, outputs, checkpoint, drawn, next, losses, renewals>>

(* The same seed draws the same mask.                                      *)
SaveMask ==
  /\ Running("generate") /\ script.open
  /\ LET sel == Min(script.left)
         seed == SeedFor(sel)
     IN /\ \E mask \in IF seed \in DOMAIN drawn THEN {drawn[seed]} ELSE GenerateOverlay(sel) :
             /\ masks' = [masks EXCEPT ![sel] = Whole(mask)]
             /\ drawn' = [s \in DOMAIN drawn \cup {seed} |-> IF s = seed THEN mask ELSE drawn[s]]
        /\ script' = [script EXCEPT !.left = @ \ {sel}, !.open = FALSE]
  /\ UNCHANGED <<study, outputs, checkpoint, next, losses, renewals>>

Generated ==
  /\ Running("generate") /\ script.left = {} /\ Finish("evaluate")
  /\ UNCHANGED <<study, masks, outputs, checkpoint, drawn, losses, renewals>>

(* A file that was cut is no archive: loading it raises.                   *)
LoadMask ==
  /\ script.name \in {"evaluate", "select"} /\ script.left # {}
  /\ LET sel == Min(script.left)
     IN IF masks[sel].state = "torn" THEN Fail
        ELSE /\ \E rows \in
                  IF Running("evaluate")
                  THEN {{EvaluateTrace(sel, masks[sel].content, k) : k \in study.ks}}
                  ELSE SelectCalibrationQueries(sel, masks[sel].content) :
                  Continue(script.left \ {sel}, script.rows \cup rows)
             /\ UNCHANGED next
  /\ UNCHANGED <<study, masks, outputs, checkpoint, drawn, losses, renewals>>

(* open("w") truncates.                                                    *)
OpenOutput ==
  /\ script.todo # <<>> /\ script.left = {} /\ ~script.open
  /\ outputs' = [outputs EXCEPT ![Head(script.todo)] = TornFile]
  /\ \E rows \in IF Running("select") THEN CapQueries(script.rows) ELSE {script.rows} :
       script' = [script EXCEPT !.rows = rows, !.open = TRUE]
  /\ UNCHANGED <<study, masks, checkpoint, drawn, next, losses, renewals>>

CloseOutput ==
  /\ script.todo # <<>> /\ script.open
  /\ outputs' = [outputs EXCEPT ![Head(script.todo)] = Whole(script.rows)]
  /\ IF Len(script.todo) > 1
     THEN /\ script' = [script EXCEPT !.todo = Tail(@), !.open = FALSE]
          /\ UNCHANGED next
     ELSE Finish(IF Running("evaluate") THEN "select" ELSE "calibrate")
  /\ UNCHANGED <<study, masks, checkpoint, drawn, losses, renewals>>

PendingKs(sel, q) ==
  {k \in study.ks : \A c \in checkpoint : <<c.sel, c.q, c.k>> # <<sel, q, k>>}

(* With --skip-existing.  The order of the queries makes no difference.    *)
Calibrate ==
  /\ Running("calibrate") /\ script.left # {}
  /\ LET r == CHOOSE x \in script.left : TRUE
         mask == masks[r.sel]
         ks == PendingKs(r.sel, r.q)
     IN \/ /\ ks = {} /\ Continue(script.left \ {r}, {})
           /\ UNCHANGED <<checkpoint, next>>
        \/ /\ ks # {} /\ mask.state = "torn" /\ Fail
           /\ UNCHANGED checkpoint
        \/ /\ ks # {} /\ mask.state = "whole" /\ Continue(script.left \ {r}, {})
           /\ \E full \in FullTopK(r.q, mask.content, Max(ks)) :
                checkpoint' = checkpoint
                  \cup EvaluateCalibrationQuery(r.sel, r.q, mask.content, ks, full)
           /\ UNCHANGED next
  /\ UNCHANGED <<study, masks, outputs, drawn, losses, renewals>>

Calibrated ==
  /\ Running("calibrate") /\ script.left = {} /\ Finish("done")
  /\ UNCHANGED <<study, masks, outputs, checkpoint, drawn, losses, renewals>>

(* The user repeats the script, or goes on.                                *)
Kill ==
  /\ ~Running("none") /\ losses < study.kills /\ losses' = losses + 1
  /\ script' = Idle
  /\ next' \in {next} \cup (CASE next = "generate" -> {"evaluate"}
                             [] next = "evaluate" -> {"select"}
                             [] next = "select" -> {"calibrate"}
                             [] OTHER -> {})
  /\ UNCHANGED <<study, masks, outputs, checkpoint, drawn, renewals>>

Renew ==
  /\ Running("none") /\ next # "generate" /\ renewals < study.again
  /\ renewals' = renewals + 1 /\ next' = "generate"
  /\ UNCHANGED <<study, masks, outputs, checkpoint, drawn, script, losses>>

Step ==
  \/ OpenMask \/ SaveMask \/ Generated \/ LoadMask
  \/ OpenOutput \/ CloseOutput \/ Calibrate \/ Calibrated

Next == Start \/ Step \/ Kill \/ Renew

(* Scripts go on, and the user goes on to the next one.                    *)
Fairness == WF_vars(Start \/ Step)

Spec == Init /\ [][Next]_vars /\ Fairness

(***************************************************************************)
(* Properties.                                                             *)
(***************************************************************************)
RowsOf(o) == IF outputs[o].state = "whole" THEN outputs[o].content ELSE {}

(* Seeds are the same in every process, or the masks need none.            *)
Reproducible == Cardinality(study.salts) = 1 \/ study.mode = "clustered_acl"

(* No mask of this selectivity was made again as another one.              *)
DrawnAlike(sel) ==
  \A s, t \in DOMAIN drawn : s[1] = sel /\ t[1] = sel => drawn[s] = drawn[t]

(* Filtering shows nothing hidden, finds no more than the trace, and the   *)
(* candidates behind the first k only ever help, where answers are short.  *)
RecallsAreOrdered ==
  \A m \in RowsOf("metrics") :
    /\ m.violations = 0
    /\ m.post_filter <= m.unrestricted /\ m.post_filter <= m.authorized
    /\ m.authorized - m.post_filter <= m.affected /\ m.affected <= m.underfill

(* The calibration finds whatever the candidates hold if the best object   *)
(* has no twin, and a trace of everything, in order, is the full answer.   *)
UniqueBest(q) ==
  \A o \in Objects \ {study.trace.gt[q]} : Dist(q)[study.trace.gt[q]] < Dist(q)[o]

Exhaustive(q) ==
  /\ Items(study.trace.pred[q]) = Objects
  /\ \A i \in 2 .. Depth(q) :
       Dist(q)[study.trace.pred[q][i - 1]] < Dist(q)[study.trace.pred[q][i]]

FullIsBest ==
  \A c \in checkpoint :
    /\ c.post_filter => c.candidate
    /\ c.candidate /\ UniqueBest(c.q) => c.full
    /\ c.post_overlap <= c.candidate_overlap
    /\ Exhaustive(c.q) /\ DrawnAlike(c.sel) /\ masks[c.sel].state = "whole" =>
         c.candidate_overlap = Min({c.k, Cardinality(masks[c.sel].content)})

(* However the heap breaks ties, it ends with k nearest visible objects.   *)
TrackerIsExact ==
  \A sel \in study.sels : masks[sel].state = "whole" =>
    \A q \in Queries, k \in study.ks :
      TopKTracker(q, masks[sel].content, k) \in Nearest(q, masks[sel].content, k)

MeasuresAgree == RecallsAreOrdered /\ FullIsBest /\ TrackerIsExact

(* The buckets of the selected queries are those the gaps and the rates of *)
(* the metrics consist of, until a mask is made again as another one.      *)
BucketsExplainGaps ==
  \A m \in RowsOf("metrics") :
    m.k = study.k_select /\ DrawnAlike(m.sel) =>
      LET rows == {r \in RowsOf("queries") : r.sel = m.sel}
          high == {r \in rows : r.gap = "high"}
          affected == {r \in rows : r.gap \in {"high", "medium"}}
      IN /\ Cardinality(high) <= m.authorized - m.post_filter
         /\ Cardinality(affected) <= m.affected
         /\ \A r \in affected : r.fill = "underfill"
         /\ (study.per_bucket >= Cardinality(Queries) /\ study.max_queries <= 0 /\ rows # {}) =>
              /\ Cardinality(high) = m.authorized - m.post_filter
              /\ Cardinality(affected) = m.affected

(* Every selected query was calibrated for every k, and behind the mask it *)
(* was selected by, until that is made again as another one.               *)
CalibratesTheSelected ==
  /\ next = "done" =>
       \A r \in RowsOf("queries"), k \in study.ks :
         \E c \in checkpoint : <<c.sel, c.q, c.k>> = <<r.sel, r.q, k>>
  /\ \A r \in RowsOf("queries"), c \in checkpoint :
         c.sel = r.sel /\ c.q = r.q /\ c.k = study.k_select /\ DrawnAlike(r.sel) =>
           /\ r.gap = "high" <=> c.candidate /\ ~c.post_filter
           /\ r.fill = "underfill" <=> c.underfill

(* A fixed hash seed, or a mode without one, makes no other mask.          *)
MasksAreRepeated == Reproducible => \A sel \in study.sels : DrawnAlike(sel)

(* Without a kill nothing is left out.                                     *)
NothingLeftOut ==
  next = "done" /\ losses = 0 =>
    /\ {<<m.sel, m.k>> : m \in RowsOf("metrics")} = study.sels \X study.ks
    /\ study.max_queries <= 0 => {r.sel : r \in RowsOf("queries")} = study.sels

EvaluatesWhatIsThere ==
  BucketsExplainGaps /\ CalibratesTheSelected /\ MasksAreRepeated /\ NothingLeftOut

Wanted == next = "generate"
Done   == next = "done"
=============================================================================
