----------------------------- MODULE MsMarcoEval -----------------------------
(***************************************************************************)
(* The MS MARCO evaluation, from the tables of embeddings to the report:   *)
(*                                                                         *)
(*   load    ms_macro_load.load_msmarco_collection_dev_unique_qrels, with  *)
(*           a cache of the arrays and the fingerprints of what they were  *)
(*           made of                                                       *)
(*   eval    ms_macro_eval.run_msmarco_eval: a scaled copy of the database *)
(*           is kept for later runs; per run, results and their meta data  *)
(*   result  ms_macro_result.evaluate_msmarco_eval_dir: ranks per run and  *)
(*           scheme, cached; a report                                      *)
(*                                                                         *)
(* All write into the files they truncate, but for the meta data of ranks  *)
(* and the report, which are renamed into place.  Either script may be     *)
(* killed between any two steps, the tables may grow meanwhile, and the    *)
(* next run meets what it finds.  The two scripts are not run at once.     *)
(*                                                                         *)
(* Arrays are the rows they were made of.  The fingerprint (path, mtime,   *)
(* size) of a table is its number of rows.  The fingerprint of a run file, *)
(* and the ranks computed from it, are "current" or, once that file is     *)
(* overwritten, "old".                                                     *)
(***************************************************************************)
EXTENDS EmbeddingTables

CONSTANTS Users,   \* what one user does: [configs, limits, faults], with
                   \* configs [k, scale, max_db, schemes, num_runs], values
                   \* of --limit, and a bound on the processes killed
          Qrels,   \* rows <<qid, pid, rel>> of qrels.dev.tsv
          KsLists  \* sets of k the report may be asked for

VARIABLES user,
          disk,     \* file |-> [state, value]
          touches,  \* does DuckDB write to a file it opens for writing?
          job,      \* the script that runs
          writes,   \* files it is about to write, in order
          spoiled,  \* scaled copies a killed process left, vouched for
          faults

script == <<job, writes>>
vars   == <<user, text, rows, ingest, disk, touches, script, spoiled, faults>>

Schemes == {"standard", "zk"}

UsersAssumption ==
  /\ \A files \in Texts : DOMAIN files = {"collection", "queries"}
  /\ \A u \in Users : /\ u.limits \subseteq Nat
                      /\ \A c \in u.configs : c.max_db \in Nat /\ c.schemes \subseteq Schemes

Nothing == [state |-> "none"]
Torn    == [state |-> "torn"]
Whole(value) == [state |-> "whole", value |-> value]

In(f)     == IF f \in DOMAIN disk THEN disk[f] ELSE Nothing
Exists(f) == In(f).state # "none"
IsWhole(f) == In(f).state = "whole"
Holds(f, value) == IsWhole(f) /\ disk[f].value = value
Put(f, content) == [g \in DOMAIN disk \cup {f} |-> IF g = f THEN content ELSE disk[g]]

To(f, value) == [file |-> f, value |-> value]

RunsOnDisk == {f[2] : f \in {g \in DOMAIN disk : g[1] = "npz"}}
Npz(r)  == <<"npz", r>>
Json(r) == <<"json", r>>
Rank(r, s)     == <<"rank", r, s>>
RankMeta(r, s) == <<"rank_meta", r, s>>
Scaled(N, c)   == <<"scaled", N, c.scale>>

(* Queries with exactly one relevant passage, and the passage.             *)
ReadQrelsUniquePairs ==
  LET relevant(q) == {t \in Qrels : t[1] = q /\ t[3] > 0}
  IN {<<t[1], t[2]>> : t \in {u \in Qrels : u[3] > 0 /\ Cardinality(relevant(u[1])) = 1}}

Fingerprints ==
  [t \in Tables |-> Cardinality(rows[t])]

Idle == [pc |-> "idle"]
Goes(pc) == job' = [job EXCEPT !.pc = pc]
Fails == job' = Idle

(***************************************************************************)
(* The steps of a script wait until its files are written.                 *)
(***************************************************************************)
Writing == writes # <<>>
At(pc)  == job.pc = pc /\ ~ Writing
Stays   == UNCHANGED <<user, text, rows, ingest, touches, spoiled, faults>>
Same    == UNCHANGED <<disk, writes>>

Atomic(f) == f[1] = "rank_meta"

(* A run file that is truncated leaves old ranks behind.                   *)
Ages(f) ==
  [g \in DOMAIN Put(f, Torn) |->
     IF g = f THEN Torn
     ELSE IF f[1] = "npz" /\ g[1] \in {"rank", "rank_meta"} /\ g[2] = f[2] /\ IsWhole(g)
     THEN [disk[g] EXCEPT !.value.of = "old"]
     ELSE disk[g]]

Write ==
  /\ Writing
  /\ disk' = [Ages(Head(writes).file) EXCEPT ![Head(writes).file] = Whole(Head(writes).value)]
  /\ writes' = Tail(writes) /\ UNCHANGED job /\ Stays

(***************************************************************************)
(* ms_macro_eval, the loader first.                                        *)
(***************************************************************************)
EvalStart(cfg, force) ==
  /\ job.pc = "idle"
  /\ job' = [pc |-> "stamp", cfg |-> cfg, force |-> force]
  /\ Same /\ Stays

(* Fingerprints are taken before anything is read; if DuckDB touches the   *)
(* database the loader opens for writing, they never match again.          *)
(* run_msmarco_eval does not hand its force_recompute on to the loader.    *)
Stamp ==
  /\ At("stamp")
  /\ LET hit == ~ touches /\ Holds(<<"meta">>, Fingerprints) /\ Exists(<<"a">>) /\ Exists(<<"bc">>)
     IN job' = [pc |-> IF hit THEN "slice" ELSE "collection",
                cfg |-> job.cfg, force |-> job.force, stamps |-> Fingerprints,
                seen |-> rows["collection"],
                base |-> IF hit /\ IsWhole(<<"a">>) THEN disk[<<"a">>].value ELSE {}]
  /\ Same /\ Stays

(* Mutant: the meta data is written first.                                 *)
ReadCollection_MetaFirst ==
  /\ At("collection")
  /\ IF Locked("collection") \/ 1 \notin rows["collection"]
     THEN Fails /\ Same
     ELSE /\ job' = [job EXCEPT !.pc = "queries", !.base = rows["collection"]]
          /\ writes' = <<To(<<"meta">>, job.stamps), To(<<"a">>, rows["collection"])>>
          /\ UNCHANGED disk
  /\ Stays

ReadCollection ==
  /\ At("collection")
  /\ IF Locked("collection") \/ 1 \notin rows["collection"]
     THEN Fails /\ Same
     ELSE /\ job' = [job EXCEPT !.pc = "queries", !.base = rows["collection"]]
          /\ writes' = <<To(<<"a">>, rows["collection"])>>
          /\ UNCHANGED disk
  /\ Stays

(* The queries' database is opened for writing, for a temporary table.     *)
ReadQueries ==
  /\ At("queries")
  /\ IF Locked("queries") \/ ~ ({p[1] : p \in ReadQrelsUniquePairs} \subseteq rows["queries"])
     THEN Fails /\ Same
     ELSE /\ writes' = <<To(<<"bc">>, rows["queries"]), To(<<"meta">>, job.stamps)>>
          /\ Goes("slice") /\ UNCHANGED disk
  /\ Stays

(* The first max_db vectors, and the queries they can answer.              *)
Slice ==
  /\ At("slice")
  /\ LET N    == Smaller(Max(job.base), job.cfg.max_db)
         asks == {p \in ReadQrelsUniquePairs : job.cfg.max_db < NoLimit => p[2] <= job.cfg.max_db}
     IN IF job.cfg.k > N THEN Fails
        ELSE job' = [pc |-> IF "zk" \in job.cfg.schemes THEN "scale" ELSE "config",
                     cfg |-> job.cfg, force |-> job.force, seen |-> job.seen,
                     base |-> {i \in job.base : i <= N}, N |-> N, q |-> Cardinality(asks),
                     zk |-> {}, run |-> 1]
  /\ Same /\ Stays

(* The scaled copy is used again if the meta data names the same paths,    *)
(* scale and shape.  A copy that is only half written can be loaded too.   *)
ScaleInputs == [N |-> job.N, scale |-> job.cfg.scale]

Scale ==
  /\ At("scale")
  /\ LET copy == Scaled(job.N, job.cfg)
     IN IF ~ job.force /\ Exists(copy) /\ Holds(<<"scaled_meta">>, ScaleInputs)
        THEN /\ job' = [job EXCEPT !.pc = "config",
                          !.zk = IF IsWhole(copy) THEN disk[copy].value ELSE {}]
             /\ Same
        ELSE /\ job' = [job EXCEPT !.pc = "config", !.zk = job.base]
             /\ writes' = <<To(copy, job.base), To(<<"scaled_meta">>, ScaleInputs)>>
             /\ UNCHANGED disk
  /\ Stays

WriteConfig ==
  /\ At("config")
  /\ writes' = <<To(<<"config">>, job.cfg.k)>>
  /\ Goes("run") /\ UNCHANGED disk /\ Stays

(* A run that left both its files is skipped, whatever they hold.          *)
SkipRun ==
  /\ At("run") /\ job.run <= job.cfg.num_runs
  /\ Exists(Npz(job.run)) /\ Exists(Json(job.run)) /\ ~ job.force
  /\ job' = [job EXCEPT !.run = @ + 1] /\ Same /\ Stays

TrainAndQuery ==
  /\ At("run") /\ job.run <= job.cfg.num_runs
  /\ ~ Exists(Npz(job.run)) \/ ~ Exists(Json(job.run)) \/ job.force
  /\ writes' = <<To(Npz(job.run), [k |-> job.cfg.k, q |-> job.q, base |-> job.base,
                                   schemes |-> job.cfg.schemes,
                                   zk |-> IF "zk" \in job.cfg.schemes THEN job.zk
                                          ELSE job.base]),
                 To(Json(job.run), job.cfg.k)>>
  /\ job' = [job EXCEPT !.run = @ + 1]
  /\ UNCHANGED disk /\ Stays

EvalEnd ==
  /\ At("run") /\ job.run > job.cfg.num_runs
  /\ Fails /\ Same /\ Stays

(***************************************************************************)
(* ms_macro_result.                                                        *)
(***************************************************************************)
ResultStart(ks, force) ==
  /\ job.pc = "idle"
  /\ IF RunsOnDisk = {} \/ In(<<"config">>) = Torn THEN Fails
     ELSE job' = [pc |-> "npz", ks |-> ks, force |-> force, left |-> RunsOnDisk,
                  schemes |-> {}, report |-> {}]
  /\ Same /\ Stays

(* The next run file; np.load and json raise for what is torn.             *)
LoadNpz ==
  /\ At("npz") /\ job.schemes = {} /\ job.left # {}
  /\ LET r == Min(job.left)
     IN IF In(Json(r)) = Torn \/ ~ IsWhole(Npz(r)) THEN Fails
        ELSE job' = [job EXCEPT !.schemes = disk[Npz(r)].value.schemes]
  /\ Same /\ Stays

(* top_k as the run's meta data, or else the config, has it.               *)
RunTopK(r) ==
  IF IsWhole(Json(r)) THEN disk[Json(r)].value
  ELSE IF IsWhole(<<"config">>) THEN disk[<<"config">>].value ELSE 0

ExpectedInputs(r, s, k) ==
  [of |-> "current", scheme |-> s, q |-> disk[Npz(r)].value.q, k |-> k]

(* Mutant: the fingerprint of the run file is not compared.                *)
CachedRank_Shape(r, s) ==
  /\ ~ job.force /\ RunTopK(r) > 0
  /\ IsWhole(RankMeta(r, s)) /\ disk[RankMeta(r, s)].value.k = RunTopK(r)
  /\ IsWhole(Rank(r, s))

CachedRank(r, s) ==
  /\ ~ job.force /\ RunTopK(r) > 0
  /\ Holds(RankMeta(r, s), ExpectedInputs(r, s, RunTopK(r))) /\ IsWhole(Rank(r, s))

(* The ranks of one scheme, from the cache or computed and cached, and the *)
(* metrics for the ks the run can answer; without any, it raises then.     *)
RankScheme ==
  /\ At("npz") /\ job.schemes # {}
  /\ LET r    == Min(job.left)
         s    == IF "standard" \in job.schemes THEN "standard" ELSE "zk"
         npz  == disk[Npz(r)].value
         hit  == CachedRank(r, s)
         k    == IF hit THEN RunTopK(r) ELSE npz.k
         rank == IF hit THEN disk[Rank(r, s)].value ELSE [of |-> "current"]
         ks   == {x \in job.ks : x <= k}
     IN /\ IF ks = {} \/ npz.q = 0 THEN Goes("failing")
           ELSE job' = [job EXCEPT
                  !.schemes = @ \ {s},
                  !.left    = IF job.schemes = {s} THEN @ \ {r} ELSE @,
                  !.report  = @ \cup {[run |-> r, scheme |-> s, rank |-> rank.of, ks |-> ks]}]
        /\ writes' = IF hit THEN <<>>
                     ELSE <<To(Rank(r, s), rank),
                            To(RankMeta(r, s), ExpectedInputs(r, s, k))>>
        /\ UNCHANGED disk
  /\ Stays

WriteReport ==
  /\ At("npz") /\ job.schemes = {} /\ job.left = {}
  /\ Goes("reported") /\ Same /\ Stays

ResultEnd ==
  /\ At("reported") \/ At("failing")
  /\ Fails /\ Same /\ Stays

(***************************************************************************)
(* The whole.                                                              *)
(***************************************************************************)
(* The file that was being written is torn, if it had been opened.  A      *)
(* forced run truncates the scaled copy while the meta data of an earlier  *)
(* one names it.                                                           *)
Kill ==
  /\ job.pc # "idle" /\ faults < user.faults /\ faults' = faults + 1
  /\ Fails /\ writes' = <<>>
  /\ \/ UNCHANGED <<disk, spoiled>>
     \/ /\ Writing /\ ~ Atomic(Head(writes).file)
        /\ disk' = Ages(Head(writes).file)
        /\ spoiled' = spoiled \cup
             IF Head(writes).file[1] = "scaled" /\ Holds(<<"scaled_meta">>, ScaleInputs)
             THEN {Head(writes).file} ELSE {}
  /\ UNCHANGED <<user, text, rows, ingest, touches>>

Init ==
  /\ user \in Users /\ TablesInit
  /\ disk = [f \in {} |-> Nothing] /\ touches \in BOOLEAN
  /\ job = Idle /\ writes = <<>> /\ spoiled = {} /\ faults = 0

(* Tables are filled meanwhile; behind the loader that commutes with what  *)
(* the scripts do, and is put off until they are done.                     *)
MayIngest == job.pc \in {"idle", "stamp", "collection", "queries"} /\ ~ Writing

Others == MayIngest /\ UNCHANGED <<user, disk, touches, script, spoiled, faults>>

StartIngest ==
  \E t \in Tables, limit \in user.limits : IngestStart(t, limit) /\ Others

KillIngest ==
  /\ IngestKill /\ MayIngest /\ faults < user.faults /\ faults' = faults + 1
  /\ UNCHANGED <<user, disk, touches, script, spoiled>>

StartEval   == \E cfg \in user.configs, force \in BOOLEAN : EvalStart(cfg, force)
StartResult == \E ks \in KsLists, force \in BOOLEAN : ResultStart(ks, force)

EvalStep ==
  \/ Stamp \/ ReadCollection \/ ReadQueries \/ Slice \/ Scale \/ WriteConfig
  \/ SkipRun \/ TrainAndQuery \/ EvalEnd
ResultStep == LoadNpz \/ RankScheme \/ WriteReport \/ ResultEnd

Next ==
  \/ StartIngest \/ (Ingests /\ Others) \/ KillIngest
  \/ StartEval \/ StartResult \/ EvalStep \/ ResultStep
  \/ Write \/ Kill

Spec == Init /\ [][Next]_vars

(* The scripts run; who wants the report fills the tables without limits,  *)
(* and runs both scripts again and again, the first with --force-recompute,*)
(* too.                                                                    *)
Fairness ==
  /\ WF_vars(EvalStep \/ ResultStep \/ Write)
  /\ SF_vars(Ingests /\ Others)
  /\ SF_vars(\E t \in Tables : IngestStart(t, NoLimit) /\ Others)
  /\ SF_vars(\E cfg \in user.configs : EvalStart(cfg, TRUE))
  /\ SF_vars(StartResult)

(***************************************************************************)
(* Properties.                                                             *)
(***************************************************************************)
(* The arrays of the loader, cached or not, are never older than its input *)
(* was when it began, and never half written.                              *)
BaseIsCurrent == job.pc \in {"queries", "slice"} => job.seen \subseteq job.base

(* Both schemes search the same vectors, but for a scaled copy a forced    *)
(* run was killed over.                                                    *)
SchemesShareTheBase ==
  job.pc = "run" /\ "zk" \in job.cfg.schemes =>
    job.zk = job.base \/ Scaled(job.N, job.cfg) \in spoiled

(* A report has the ranks of each run file there is as it is now, for each *)
(* of its schemes, and for exactly those of the ks asked for that the file *)
(* can answer, whatever its meta data says.                                *)
ReportIsOfItsRuns ==
  job.pc = "reported" =>
    job.report = {[run |-> rs[1], scheme |-> rs[2], rank |-> "current",
                   ks |-> {x \in job.ks : x <= disk[Npz(rs[1])].value.k}] :
                    rs \in {p \in RunsOnDisk \X Schemes :
                              p[2] \in disk[Npz(p[1])].value.schemes}}

(* From the text files to the report, nothing that was cached, resumed or  *)
(* left behind by a killed run stands for something else, except the scaled*)
(* copy of a forced run.                                                   *)
EvaluatesWhatIsThere ==
  TablesArePrefixes /\ BaseIsCurrent /\ SchemesShareTheBase /\ ReportIsOfItsRuns

(* Who goes on gets a report, whatever was killed or left half written.    *)
(* At a bad line, though, an ingestion fails whenever it is started, and   *)
(* may hold the lock whenever the loader wants it.                         *)
Wanted ==
  job.pc = "idle" /\ \A t \in Tables : \A i \in DOMAIN text[t] : text[t][i] # "bad"

Reported == job.pc = "reported"
=============================================================================
