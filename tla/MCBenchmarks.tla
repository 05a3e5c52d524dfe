----------------------------- MODULE MCBenchmarks -----------------------------
(* Small instances of the measuring programs.                              *)
EXTENDS Benchmarks

OneKey == {<<"one">>}

(* For each script setups that have configurations, one that has none, and *)
(* for gate_only grids that overlap, with a key that is skipped.           *)
MCSetups ==
  {[script |-> "optimal_config", N |-> 8, D |-> 8, M |-> 2, K |-> 4, sel |-> s,
    c |-> c, num_runs |-> 2, grids |-> OneKey] : s \in {2, 3, 4}, c \in {2, 3}}
  \cup {[script |-> "optimal_mem_config", N |-> 8, D |-> 4, n_list |-> 4, n_probe |-> 2,
         mem_bits |-> m, c |-> 3, num_runs |-> 2, grids |-> OneKey] : m \in {4, 6, 7}}
  \cup {[script |-> "topk", num_runs |-> 1, grids |-> OneKey],
        [script |-> "bench_suite", runs |-> {1, 2}, grids |-> {<<"set", "circuit">>}],
        [script |-> "bio_metric", runs |-> {1, 2, 3}, grids |-> OneKey],
        [script |-> "gate_only", D |-> 3, n_list |-> 4, n_probe |-> 2, n |-> 2,
         num_runs |-> 1,
         grids |-> {<< <<2, 1>>, <<2, 2>> >>, << <<2, 2>>, <<4, 1>>, <<3, 2>> >>}]}

MCTexts ==
  {[collection |-> <<"row", "empty", "row">>, queries |-> <<"row">>],
   [collection |-> <<"row", "bad">>, queries |-> <<"row">>]}
MCBatchOf == [collection |-> 2, queries |-> 1]

(* One configuration and a kill; two, with the table of passages filled    *)
(* bit by bit; two of another k, and a kill.                               *)
Config(k, max_db, schemes) ==
  [k |-> k, scale |-> 1, max_db |-> max_db, schemes |-> schemes, num_runs |-> 1]

Both == {"standard", "zk"}
MCUsers ==
  {[configs |-> {Config(2, 99, Both)}, limits |-> {1, 99}, faults |-> 1],
   [configs |-> {Config(1, 1, {"zk"}), Config(2, 99, Both)}, limits |-> {1, 99}, faults |-> 0],
   [configs |-> {Config(1, 99, {"zk"}), Config(2, 99, {"zk"})}, limits |-> {99}, faults |-> 1]}
MCQrels   == {<<1, 1, 1>>}
MCKsLists == {{1, 2}}

MCFaceTables ==
  {<<"a", "b", "a">>, <<"a", "a", "b", "a">>, <<"a", "b", "a", "b", "b">>}
MCSamples ==
  {[queries |-> 1, gt_k |-> 1], [queries |-> 2, gt_k |-> 1], [queries |-> 1, gt_k |-> 2]}
MCReportKs == {{1}, {1, 2}, {1, 4}}

(* A trace of an approximate search with a tie, which ends early, and one  *)
(* that ranks everything.                                                  *)
Trace(n, pred, best, dist) == [num_base |-> n, pred |-> pred, gt |-> best, dist |-> dist]
D(a, b, c, d) == [o \in 0 .. 3 |-> <<a, b, c, d>>[o + 1]]

Ann   == Trace(4, << <<2, 1, 0>>, <<3, 1, 2, -1>> >>, <<0, 1>>,
               <<D(1, 2, 3, 4), D(3, 1, 1, 2)>>)
Exact == Trace(4, << <<3, 1, 0, 2>> >>, <<3>>, <<D(3, 2, 4, 1)>>)

Study(mode, sels, salts, trace, per, cap, killed, again) ==
  [mode |-> mode, sels |-> sels, min_classes |-> 2, salts |-> salts, trace |-> trace,
   ks |-> {1, 2, 5}, k_select |-> 2, per_bucket |-> per, max_queries |-> cap,
   kills |-> killed, again |-> again]

(* Masks made twice, with one hash seed or two; kills; a capped selection. *)
MCStudies ==
  {Study("clustered_acl", {25, 50}, {1, 2}, Ann, 2, 0, 1, 1),
   Study("uniform_random", {50}, {1}, Ann, 1, 1, 0, 1),
   Study("uniform_random", {50}, {1}, Exact, 1, 0, 0, 0),
   Study("skewed_acl", {25, 50}, {1}, Ann, 2, 0, 0, 0),
   Study("skewed_acl", {50}, {1}, Ann, 1, 0, 1, 1),
   Study("skewed_acl", {50}, {1, 2}, Ann, 1, 0, 0, 1)}
=============================================================================
