# AuthView-VDB in TLA+

Specifications, model-checking configurations and machine-checked proofs for
AuthView-VDB, a research prototype that proves with zero-knowledge circuits
(Plonky2) that the answer of an IVF-PQ vector search was computed over a
committed snapshot and over the caller's *authorized view* of it.

The program is mostly sequential: its state lives in index arrays, in Merkle
trees, in checkpoint files on disk and in one monitor thread.  What is hard
about it is therefore of three kinds: loops whose working state goes stale
while they run; scripts that write several files and are killed and started
again between the writes; and pairs of programs (the plaintext reference and
the circuit) that must agree although each was written on its own.

## 1. Inventory

Paths are relative to `src/`.  The order is the one data flows in.

### Building the index

**Cluster rebalancing** (`ivf_pq/rebalance.py`).  State: the labels of the
samples, the running cluster sizes, and per round the free clusters, their
remaining capacity and the list of candidate moves.  One operation,
`rebalance_clusters`, a loop of rounds.  It is called by the index builder with
the k-means labels and returns the groups that are laid out in fixed-size
slots, so the circuits depend on its bound.  Hard: the candidate moves are
computed once per round and go stale as moves are carried out; termination is
not obvious.  Correct when no cluster exceeds the bound, no sample moves twice,
the fewest possible samples move, and the loop ends for all arguments that pass
its checks.

**Slot layout** (`ivf_pq/layout.py`, `ivf_pq/pipeline.py`, `ivf_pq/zk.py`,
`ivf_pq/standard.py`, `ivf_pq/baseline.py`).  State: per list a fixed number of
slots with item id, PQ code and a valid flag.  Operations: train, build, search.
Correct when padding can never enter an answer.

**Merkle commitment of the index** (`ivf_pq/merkle_zk.py`,
`src/merkle_ver/ivf_pq_merkle.rs`, `standalone_commitment.rs`,
`merkle_commit/`, `commit_eval/`).  A heap-shaped tree over the lists and one
inside every list.  Correct when an opened path binds exactly one leaf at one
position, whatever the number of leaves.

### Authorization, in plaintext

**Policy** (`auth_reference/policy.py`, `records.py`): `evaluate_policy` decides
from a user context, a checkpoint and an object label.  No state, but three
versions: the reference, the circuit (`auth_policy_gadget.rs`) and the helper
the proof driver computes witnesses with.  Correct when no version shows what
the reference hides.

**Authorized reference** (`auth_reference/reference.py`, `post_filter.py`,
`attacks.py`, `attack_matrix.py`): coverage check, label commitment check,
masked scoring, visibility check and the deterministic top-k, and the
post-filtering baseline it is compared with.  Correct when the answer is the
top-k of the visible candidates, and every tampering listed in the attack
registry is rejected by the stage that claims to detect it.

**V3DB adapter** (`auth_reference/v3db_adapter.py`): builds the slot buffers from
the index, their distances, the candidate records, the witnesses of the
circuits and the encoding of the user context.  It breaks ties by slot order
where the reference breaks them by item id.

**ACL classes** (`auth_reference/acl_class.py`, `acl_class_commitment.py`): one
label per class of objects instead of one per object, a binding from slots to
classes, commitments of both and the compressed witness.  Correct when the
compressed evaluation gives every object the visibility of its own label.

**Auth commitments** (`auth_reference/auth_commitment.py`,
`slot_aligned_auth_commitment.py`): the flat tree over labels, and the two-level
tree aligned with lists and slots.

**Proof planning and layout planning** (`proof_planning_reference.py`,
`layout_planning_reference.py`, with `scripts/bench_proof_planning_model.py` and
`bench_proof_planning_layout.py`): a plan divides a candidate grid into regions and
says of each whether its slots are scored masked, without looking at labels, or
not at all; it may come from anybody, is validated, executed and costed.  The two
benchmarks make workloads of a given visible ratio, locality and purity, and of
access signatures with several layouts.  Hard: planner, validator and three cost
functions classify regions each on their own, over grids with padding and ragged
blocks; the workload is made by rounding, clamping and moving on.  Correct when no
plan that passes validation computes another answer than the masked reference, no
honest plan is rejected, the parts add up to the cost and the workload is as asked.

### Circuits (Rust)

**Lookup arguments** (`src/ivf_pq_verify`, `src/pq_flat_verify`,
`src/utils/set_gadgets.rs`, `src/utils/lookup.rs`): the prover reorders the table
and the looked-up values in place by nested swap loops (`convert_ft_set_i64`);
the gadgets then check that every value equals its predecessor or its table
entry.  State: two arrays and two cursors.  Correct when the loops lose no
value and what the gadgets accept is exactly membership.

**Set-based search and its authorized variants** (`src/merkle_ver/*`): the
V3DB circuit and the variants that add the mask, the policy, the label
commitment, the slot-aligned commitment and the ACL classes; each has a proof
driver that builds, proves and verifies.  `lib.rs` exposes them to Python.

**Metrics** (`src/utils/metrics.rs`): while a proof is computed a second thread
samples the memory of the process and keeps the maximum in an atomic.  This is
the one place where two threads share state.

**Older circuits** (`brute_force`, `pq_flat`, `pq_flat_com`, `ivf_flat`,
`ivf_flat_verify`, `ivf_pq`, `circuit_ivf_pq`): ancestors of the set-based
circuit, used by benchmarks.

### Experiment scripts

**Authorized calibration** (`scripts/calibrate_full_authorized_reference.py`,
`scripts/auth_calibration_lib.py`): per configuration, query and k one row is
appended to a checkpoint file, flushed at once, so that a killed run can be
resumed; a summary is aggregated from the file.

**Public utility baseline** (`scripts/run_public_utility_baseline.py`): per
configuration a trace, a metrics file and a summary are written one after the
other; a resumed run decides from the files on disk what is complete and
recovers what it can.

**Dataset preparation** (`scripts/prepare_texmex_datasets.py`): downloads archives
with resumption, extracts, links the canonical files and checks them.

**Authorization overlay and traces** (`scripts/auth_overlay_lib.py`,
`generate_authorization_overlay.py`, `evaluate_authorized_trace.py`,
`select_authorized_calibration_queries.py`): masks of visible objects per
selectivity; what a filtered and an authorized search leave of a trace behind
each mask; queries selected by what the mask did to them, which the calibration
then compares with the full authorized answer.  State: the files handed on.
Hard: masks can be made again, or be cut, between any two scripts.  Correct when
metrics, selected queries and calibration speak of the same masks, and the
recalls are ordered as the definitions make them.

**Benchmark scripts with a cache** (`bench/optimal_config.py`,
`optimal_mem_config.py`, `optimal_mem_gate_only.py`, `gate_count.py`, `bench_suite.py`,
`commitment_eval.py`): each derives configurations from its arguments, keeps
measurements in JSON files and starts from them when it is run again; one file for
a sweep, a file topped up with more runs, or one saved after every entry.  Hard: a
kill over a file, other arguments, `--force-recompute`.  Correct when what a
script reports is whole, of what was asked for, and what its files hold.

**Embedding tables** (`vec_data_load/ms_macro.py`, `bupt_cbface.py`): text lines or
faces become rows of a DuckDB table; a run continues behind the greatest id.

**MS MARCO evaluation** (`vec_data_load/ms_macro_load.py`, `bench/ms_macro_eval.py`,
`ms_macro_result.py`): a loader that caches arrays under fingerprints, an
evaluation that keeps a scaled copy of the database and a file per run, ranks
cached per run, and a report.  Hard: tables grow, runs are killed over any file,
and every stage decides by meta data whether what it finds is still right.

**Search quality benchmarks** (`bench/bio_metric.py`, `acc_bench.py`,
`vec_data_load/bupt_cbface_load.py`): samples of faces with the truth they are
compared with, and hits, recalls, pass rates and curves in three versions.

**Tables, figures, other loaders** (`bench_free_bench/`, the other `bench/`,
`scripts/` and `vec_data_load/`).

## 2. Plan

The order follows what a wrong answer would cost: first what every proof rests
on, then what a killed run may leave behind.

| Modules | Question | State |
|---|---|---|
| `Rebalance` over `BalancedAssignment` | is the rebalancing a sequence of sound moves, minimal, and finite? | checked, proved |
| `AuthSearch` over `CompGadget`, abstract `AuthorizedView` | which answers can an accepted proof publish? | checked, proved, the refinement included |
| `LookupArgument` | do the in-place loops give the circuit what it accepts, and is that membership? | checked, proved |
| `SlotAlignedTree` | does an accepted opening bind a label to its list, for every size? | checked, proved |
| `AclClasses` over `AuthPolicy` | do the three policies agree, and does a verdict per class give each object its own? | checked, proved |
| `CalibrationResume` | what do killed and restarted calibrations leave in the checkpoint? | checked; all invariants proved |
| `UtilityBaseline`, `TexmexPrepare` | what do runs make of the files of earlier runs? | checked; all safety properties of both proved |
| `PlanningBench` over `ProofPlanning`, `SweepWorkload`, `AccessSignatures` | can a validated plan compute anything else than the masked reference; are plans, costs and workloads what they say? | checked; all safety properties proved: soundness and completeness of validation, the bounds of the estimates, the promises of the layouts, the numbers of the sweep |
| `Benchmarks` over `BenchCache`, `MsMarcoEval` (`EmbeddingTables`), `SearchMetrics`, `AuthOverlay`, `MemoryMonitor` | is what the measuring programs report of what is there, whatever was cached, killed or made again? | checked; all safety properties proved |
| `SortedScan` | the older circuit: `zk_ivf_pq_query` with the gadgets of `ivf_pq_verify`, padding sentinel included | not done |
| `IndexCommitment` | the tree over centers, codebooks and lists, and `hash_tree_gen` for sizes that are no powers of two | not done |

`AclClasses` takes openings as `SlotAlignedTree` proves them (an opening that
verifies leads to a committed leaf) and leaves masking and order to `AuthSearch`.

## 3. Modules

Every module opens with what it abstracts.  Names are the source's where TLA+
allows it; every definition that stands for code is listed in `PROJECT.json`
with its lines.  Operators marked "Mutant:" are plausible bugs of the definition
below them and take part in no specification; each shows that some property
would notice.

### `Rebalance`, `BalancedAssignment`

One call of `rebalance_clusters`.  `BeginRound` is the part of the loop that
computes the candidate lists, `Skip` and `Migrate` one iteration of the inner
loop, `EndRound` the check for progress, `Return` the end.  `CheckArguments` has
the three `ValueError`s, the three `RuntimeError`s are `pc = "failed"`.  Distances
are given as a matrix; any order of equal costs is allowed, as `np.argsort` is
not stable.  `BalancedAssignment` knows single moves only; `Reassigns` says that
the rounds, with everything they compute in advance, never do anything else.

### `AuthSearch`, `CompGadget`, `AuthorizedView`

A behaviour is one proof: `Probe`, `Label` and `Order` fill the witness, `Prove` checks the
constraints and publishes. If `honest`, each step does what the Python adapter and the proof
driver do (stable sorts, default labels for padding under the policy circuit); otherwise it
chooses anything the constraints allow, so the set of behaviours covers every prover.
`layout` selects between the all-visible, policy, committed and slot-aligned circuits.
`CompGadget` is the comparison over the field, with the case in which no witness exists.
`AuthorizedTopK` and `PostFilter` are the plaintext reference and the baseline.
`AuthorizedView` is the promise: the top k of the authorized view of the nearest lists,
other slots only behind it. Objects are numbered from 0 as the loaders number them, and
padding slots hold object 0 too (`v3db_adapter.py:110`); `ObjectZero` and `MayHide` say what
a prover can make of that. A distance may be as large as the sentinel. For the policy
circuit, where labels are the prover's word, it promises no more than the code does: some
set of valid slots.

### `LookupArgument`

`convert_ft_set_i64`, loop by loop: `SortF`, `MoveFirst`, `SortRest`, `Place`.  `Submit`
is a prover that alters the two lists afterwards.  `Aligned` and `SetEqual` are the
constraints of `set_belong_gedget`.  A sort is any ascending permutation.

### `SlotAlignedTree`

Trees are the arrays `hash_tree_gen` builds, level by level (`GrowIntra`, `StartTop`,
`GrowTop`).  `Open` claims a label for a slot of a list; `Climb` is one level of
`merkle_back_gadget` in the lower or upper tree, `Connect` the equality with
`list_auth_root`, `Verify` the two last constraints.  An honest prover takes the
path of `HashTreePath`; any other one takes any direction and any sibling, also
directions outside {0, 1}, which the lookup of the gadget rejects.  The flat
commitment is the case of a single list.

### `AuthPolicy`, `AclClasses`

`AuthPolicy` has the three versions of the predicate (`Visible`, `PolicyGadget`,
`PolicyWitness`) and the encodings between them: tenants and projects become
numbers, the user keeps at most `MaxProjects` projects.  A behaviour of
`AclClasses` is one query: `Fixture` groups labels into classes by a default id
(fields side by side) or a class per object, `Score` is the compressed
reference, `Table`, `Bind` and `Select` fill the witness, `Prove` checks the
constraints and leaves slots unmasked.  As in `AuthSearch` an honest prover does
what `_build_acl_class_zk_witness_from_grid` and the driver do, and any other
one chooses table rows among committed classes, flags, bindings and selectors
as the constraints allow.  `errors` records the calls that raised.

### `CalibrationResume`

Runs of `calibrate_full_authorized_reference.py`.  Only the files survive
`Kill`; `Start` chooses flags, query cap and k anew.  The checkpoint is counted per
(query, k); `tornKeys`, `malformed` and `openEnd` record what a cut write leaves: a
row without its last fields, a line without its end that swallows the next row.

### `UtilityBaseline`

Runs of `run_public_utility_baseline.py` with the cache of `acc_bench.py`.  A file
is missing, partial or whole; main leaves the files it is about to write in
`writes`, which `OpenFile` and `CloseFile` carry out one at a time, so that a kill may
fall between any two files or inside one.  `Skip`, `Recover`, `Bench`, `ExportTrace`,
`WriteRows`, `Migrate`, `RecoverLate` and `Aggregate` are the steps of `main`.  `usage`
fixes for a behaviour which flags and selections its runs have, what older
versions left, and inside which files a kill may fall.  Exceptions on a partial trace
or cache are caught by nothing (`Fail`); what `run_config` does catch (lines 682-689)
no run leaves behind, and is left out with the top-up for a larger `--num-runs`.

### `TexmexPrepare`

One dataset: `Decide`, the transfer (`Connect`, `ConnectWhole`, `ConnectAgain`,
`Receive`, `EndOfBody`, `Timeout`, `Refused`), the extraction and the links.  The second
request, for all of the file, may be refused like the first.  An
archive is the sequence of pieces that were appended to its file.  `risks` is what
may go wrong in a behaviour, where, and how often it still may.

### `ProofPlanning`, `SweepWorkload`, `AccessSignatures`, `PlanningBench`

`ProofPlanning` is the life of one plan: built from a grid and a request (class, list
or block), altered on its way (`Alter`: types, regions, slots doubled, dropped or
moved), validated, executed and compared.  `SweepWorkload` and `AccessSignatures` make
grids as the two benchmarks do, with the rounding of the code (`RoundHalfEven`);
random draws are any outcome.  `PlanningBench` composes them: a behaviour is one
case with a free grid, a sweep or a signature workload.

### `BenchCache`

Seven scripts, one behaviour each (`setup.script`), process after process. Each has the same
skeleton: `Start` (arguments, rejected or not), `Look` (what is on disk, and whether it is
used), `Measure`, `Advance` (the loop, with the saves where the script has them), `Open` and
`Close` (a JSON file is truncated, then written), `Report`; `Kill` falls between any two.
The list of `topk` is found first and read later (`Load`). What differs is in operators
named for it (`Keys`, `Uses`, `Skips`, `Works`). A measurement only is "of this process" or
"of an earlier one".

### `EmbeddingTables`, `MsMarcoEval`

`EmbeddingTables` fills tables line by line, with limits, empty and bad lines, batches
and kills.  `MsMarcoEval` extends it: the loader (`Stamp`, `ReadCollection`, `ReadQueries`), the
evaluation (`EvalStart` to `EvalEnd`) and the result script (`ResultStart` to
`ResultEnd`), over `disk`.  Arrays are the rows they were made of; a fingerprint is what
the code compares.  `user` fixes the configurations, limits and kills of a behaviour.
`spoiled` records scaled copies that a forced, killed evaluation left under old
meta data (see Limits).

### `SearchMetrics`

One sample of faces, one search with any answer of distinct positions, and every
measure of the three benchmarks.  `Sample` chooses who is asked for; `Scatter` writes the
rest batch by batch to the positions a permutation gives them, with the query each row
belongs to; `Collect` sorts the positions by query and takes a slice for each.  The cut
into batches and the permutation are any.  Measures are those of `bio_metric.py`,
`acc_bench.py` and `ms_macro_result.py`, as operators over the sample and the answers.

### `AuthOverlay`

A user runs `generate`, `evaluate`, `select` and `calibrate` in this order (`Start`); a
script may be killed anywhere, after which the user repeats it or goes on with what there
is; a script that raises or exits sends the user back to the start, and `Renew` wants the
masks again at any time. `SaveMask` draws by seed: the same seed, the same mask. Results
behind a mask (`PostFilterResults`, `CandidateResults`), one row of metrics
(`EvaluateTrace`), the buckets and the full answer are operators; `TopKTracker` is the heap
of the calibration, ties included, a fold over the objects in the order of their ids, beside
which `Nearest` says what an exact index may answer. The checkpoint is simplified to whole
batches, as `CalibrationResume` has the rest.

### `MemoryMonitor`, `Benchmarks`

`MemoryMonitor` is `metrics_eval` and its monitor thread, one atomic operation per
step.  `Benchmarks` instantiates the measuring programs side by side: `program` says
which one a behaviour is about, the others' variables are fixed.  They share no
state; what they share is the person who starts them, whose fairness is stated
in one place.

## 4. Runs

| Run | Instance | Why it is enough |
|---|---|---|
| `rebalance` | 4 samples, 4 clusters, bounds 0 to 2, rows with one nearest cluster, two or no preference | one cluster so crowded that a call needs three rounds, so later rounds start from moved samples; two that compete for targets that fill up; exact fits (4 * 1 = 4); rejected arguments |
| `authsearch` | 3 lists of 2 slots, 2 probed, top 2, distances 1 to 3 where 3 is the sentinel, objects 0 to 4, a field of 17 | every mixture of padding, labels and ties, object 0 with and without padding beside it, distances that meet the sentinel, views of every size, tied centers; all 4 circuits |
| `lookup` | all challenges of a field of 5, 1 to 4 lookups in tables of 2 or 3 rows, up to 3 altered entries | lists shorter than, as long as and longer than the table, repetitions, rows the table lacks, colliding rows |
| `slot_tree` | 1 to 3 lists of 1 to 5 slots | both levels with and without padding, trees of depth 0 to 3, equal labels in and between lists, a foreign hash |
| `calibration_runs` | 3 queries in 2 groups, 2 k, one kill, cut writes, one run behind a complete one | different caps and k behind each other, a cut behind a cut, liveness |
| `calibration_resume` | the same with `--resume` alone; expected violation | see Findings |
| `baseline` | 2 configurations, 2 kills; one of three usages: all selections with resuming flags and kills between files; legacy files, all flags over everything and kills also inside a cache, trace or CSV file; legacy files and all selections, with flags that resume, aggregate or migrate | every prefix of the files of a configuration, twice; every kind of damaged file met by every kind of run; liveness of resumed runs |
| `texmex` | 3 faults: of every kind that ends a transfer, or those that leave none unfinished; all flags, user files in the way | resumption behind every interruption, with every reply to a Range request; liveness of reruns |
| `acl` | 3 slots with object 0, padding or both, one label that differs from an authorized one in each field, roles and tenant aliases, 6 users, one place for projects | every field of a class alone decides once; classes shared, separate and numbered 0; tables too short, exact and with dummy rows; all provers |
| `acl_padding` | the same; expected violation | see Findings |
| `planning` | free grids of one list of 3 slots or two of 2 (and an empty one, one short and one with a doubled slot) with up to 2 alterations; sweeps over four shapes of lists, all numbers of visible slots, quarters of locality, all modes; all assignments of up to 3 signatures to 5 objects | every type on every mix of padding, visible and hidden slots; ragged and single-slot regions; every rounding |
| `stores` | 8 to 18 configurations per script, 2 kills, 2 reruns; collections of 3 lines with an empty or a bad one, three users; up to 5 faces, 2 queries, answers of up to 2, every permutation of positions and every cut into batches; 4 objects, 2 queries, 2 selectivities, 2 hash seeds, a kill and masks made twice; memory of 0 to 3 units | kills at every file of every script and reruns behind them; tables that grow under a cache; short answers and ties; every order of samples and of the end of a proof |

Deadlock is checked for the dataset preparation. It is off elsewhere because a call, a proof
or a number of runs ends. `MaxKills`, `MaxReruns`, `MaxFaults`, `MaxEdits` and the bounds in
`Users` and `Studies` limit what the environment does, never what the code does.

Where a module's types are proved, no run repeats them. Conditions under which a property
holds are part of the property (`Resuming`, `NeverSplit`, `UnfinishedTransfers`,
`TornExtractions`, `Owed`, `Separated`, `Expressible`, `DrawnAlike`), so one instance checks
all of them.

## 5. Fairness

* `Rebalance`: one sequential call, weak fairness of `Next`.
* `CalibrationResume`: a run that is not killed goes on (`WF(Step)`), and a killed one
  is started again, as `docs/phase9b_authorized_reference_calibration_log.md`
  has the operator do.  A run that failed is not owed a restart.
* `UtilityBaseline`: the same; the screen script is rerun until it completes.
* `TexmexPrepare`: the script runs to its end, and somebody who wants the dataset
  starts it with `--download` whenever it has ended; strong fairness, as a run
  with other flags disables the start while it lasts.
* `MemoryMonitor`: both threads are scheduled, and `f`, the proof, ends (a panic is an
  end).  Nothing is assumed about their relative speed.
* `BenchCache`: whoever wants the results starts the script again when it was killed,
  and with `--force-recompute` (or without the torn file) when it failed.
* `MsMarcoEval`: tables are filled without a limit, the evaluation and the result
  script are started again, also forced; strong fairness, as kills and the lock of
  the database disable a start for a while.  A collection with a bad line is owed no
  report: its ingestion fails for ever.
* `AuthOverlay`: a script goes on, and the user goes on to the next.
* `Benchmarks` joins the last four in `EveryRunEnds`.
* `AuthSearch`, `AclClasses`, `LookupArgument`, `SlotAlignedTree` and `PlanningBench` have
  safety properties only.

## 6. Proofs

The proofs are in the modules `*_proofs`, and hold for all values of the constants that
satisfy the named assumptions.  Most are about one component; `Lists_proofs` is about the
lists of the index, their sizes (`Rebalance`) and the trees over them
(`SlotAlignedTree`), `Restarts_proofs` about two scripts that go on where a killed run stopped
(`CalibrationResume`, `TexmexPrepare`), and `Benchmarks_proofs` about the programs that measure.

**Rebalance.**  `TypeCorrect`, `BookkeepingCorrect`, `NeverStuckCorrect`,
`MovesOnceCorrect`, `ImplementsAbstract`, from `IInv`: besides the books it says that
an untried candidate still is where its proposal found it, that moved samples
are in clusters within the bound (so no later round proposes them), and that as
long as no candidate moved there are candidates left, their sources are too
large and every free cluster has room (so the first candidate of a round always
moves).  That a free cluster exists is a pigeonhole argument: if there is none,
all are at the bound and one above it, so there are more samples than
n_list * cluster_bound, which the argument check excludes.  `LeastChange`: a cluster
that came with more than the bound only gives, never below the bound, and any
other only takes, never above it (`GivesOrTakes`); with no overfull cluster left, the
first kind has given exactly its surplus and the second nothing.

**AuthSearch.**  `Complete`: the honest witness satisfies every constraint; that
the stable orders exist at all is shown by ranking (`SortExists`).
`LabelsAreCommitted`: the leaves of the trees determine the label of an item, but for
object 0 where the tree has padding, whose leaf it may be given and no other.
`NothingUnauthorized`: masked distances of slots the answer owes the user (`Owed`: visible,
nearer than the sentinel, not an object 0 the prover may hide) are below the
sentinel, the order is ascending, so if an unauthorized slot were among the
first `TopK` the owed ones would all be before it, and there are too few
places.  `CompExact` is what the order rests on.

`ImplementsView` is the refinement (`AnswersView`): the steps that fill the witness map to
stutters, and `Prove` maps to a step of `AuthorizedView`, with the items the mapping hides,
or is rejected and stutters. A proof of any prover probes the nearest lists, publishes slots
in ascending order of masked distance, and under a commitment has the committed labels, so
the published slots are a nearest choice from the authorized view (ties of distance may be
broken in any way, on both sides). The view is without object 0 where the prover hid it, and
visible objects as far away as the sentinel come in any order with what is masked.
`BaselinesAlwaysAgree`: two arrangements of the same slots that ascend in the same key have
the same keys rank by rank, so the honest proof, the reference and, up to the visible ones
it keeps, the post-filter agree; that the latter is a prefix follows by counting
predecessors in both orders.

**LookupArgument.** `NothingLost`, `ConstraintsAreSound`, `HonestProverAligned`,
`ChallengesFindTheWrong`. The invariant `LoopInv` says of the first loop that it has brought
f[1] to the front of t if it has met it (`Front`), of f that it is ascending (`Sorted`), of
the last loop that what precedes the cursor is aligned (`Placed`), and throughout that t is
a permutation of the padded table (`PermutationKept`): so a value whose run starts at the
cursor is in t somewhere, and, f being ascending, not at a position the loop relies on
already.

`ChallengesFindTheWrong` bounds what a random challenge misses, in every field.  The
product the circuit computes and the compression of a row are the values of
polynomials in the challenge (`ProductDegree`, `CubicDegrees`), and a
polynomial that is not zero everywhere has no more zeros than its degree (`FewZeros`: what
is left after removing a root has a degree less; the field has no divisors of zero).
So if the products of two lists meet at `sz` challenges or more, they meet at all
of them, and an element of one is a root of the other's product and so an element of it;
without that element the lists are in the same case, and in the end permutations of
each other (`AgreementIsPermutation`).  Two different rows differ by a cubic and
collide at three challenges at most (`FewCollisions`).

**SlotAlignedTree.**  `OpeningsAreBound`, under `CollisionFree`.  The climb is followed
from its end: a climb that ends in a node of the tree went, hash by hash,
through the children of nodes of the tree, so it began at a leaf, and the sum
of its direction bits is the position of that leaf.  The invariant therefore
speaks of the remaining climb (*if* the current hash is the node at this depth,
*then* ...) rather than of the path taken.

`HonestAlwaysOpens` is the converse and needs no assumption on hashes.  The
invariant `HonestClimbs` says that k levels up what is left of the path is the path
from there, that the hash reached is the entry over the index on the level of
`width` entries, and that the bits summed up are the index modulo `pow`.  It rests on
what `tree_depth` and the descent of `HashTreePath` compute, which are recursive
functions: each has an explicit solution (`DepthExists`, `DescentExists`), and a least
argument at which the two could differ is excluded (`DepthOfSize`, `DescentIsOver`).
Powers of two get their laws from counting subsets (`Powers`).

**AclClasses.**  `InheritedAlways`, `SameAsObjectLevelAlways` and
`ShowsAuthorizedAlways`, from `IInv`: the fixtures say of every grouped slot what its
class is and where the class's label comes from (`Built`), an honest witness is
the builder's, and the verdicts of an accepted proof are those of committed
classes.  The arguments: equal default ids mean equal fields, as fields below
`Radix` can be read off again one by one (`FieldsApart`, `DefaultIds`); no default id
is 0, so class 0 has object 0 alone (`ClassZero`); one class has one leaf, unless it
is the dummy, which no user passes (`OneLeaf`, `DummyHidden`); a valid slot is bound
to its own class, unless its object is number 0, which padding shares (`BoundTo`).
So the row a slot selects carries the label of its object's class (`ShownPasses`,
`PassesShown`), and under `Separated` and `Expressible` that is the object's label
(`ClassIsOwn`), on which circuit and reference compare (`PassesAuthorized`,
`AuthorizedPasses`; projects fit their places by a counting argument).
`HonestAcceptedAlways`: the witness the builder makes satisfies every constraint,
with the exception it states.  `HonestWay` follows the builder step by step; that its table
has a place for every class, and every place a row, is proved by ranking the
classes, and that doubling reaches the table's length by counting subsets.

**CalibrationResume.**  `AtMostOnceWithSkipExisting`: when all runs have
`--skip-existing`, `completed` covers the readable rows of the file while the loop runs
(`CompletedCoversFile`) and the batch has none of its keys (`BatchIsNew`), also
behind writes that were cut.  `NothingIsSkippedUnwritten`, for all flags, kills and
queries: as long as no write was cut the file ends with its newline
(`EndsWithLine`), a batch that is appended becomes rows a reader finds
(`BatchReachesDisk`), and so what a running process will skip is on disk (`DiskInv`).
`ReturnedRunsAreComplete`: as long as no write was cut, a key the loop has passed has a
row (`PassedHasRows`, `AllHaveRows`), and metrics and summary are made of the file as
it then is (`FilesAreCopies`, part of `CInv`).  A line of the summary is a fold of
additions over the keys of its group; the fold exists and is at least the number of
its positive terms (`SumExists`, `SumCounts`), so it counts every query.

**UtilityBaseline.** `ForcedNeverFails`: by `Progress` every configuration a loop is done
with has its summary file, or the process is about to write it, so a forced run over all
configurations has nothing to recover from a trace that may be damaged. `ResumedIsComplete`:
`Sound` says that every summary file at rest is whole and has the one row of its own
configuration; so resuming runs may take a file that exists for a result, and the summary a
run collects at its end has exactly one row for each. `LegacySurvives`, for all selections,
as long as nobody killed a run: the row of the older version is in the top-level summary, or
one of its configuration and the result that was measured for it, unless what was measured
passed for split files before anything was split (`NeverSplit`, see Limits). `Kept` says
that all old rows were split or none was, and that the top-level summary has a row for every
configuration the older version measured, or only new rows (the case of `NeverSplit`);
`Sourced`, that a row is an old one or its configuration was measured. No file is ever
damaged, so no run fails half way. What a migration writes is `FlattenSeq` of the writes per
row; that this recursive function exists and has every write is shown by least
counterexamples (`FlattenExists`, `Flattened`).

**TexmexPrepare.** `PreparedIsWhole`, for archives of any number of pieces and any number of
faults. The invariant `TInv` has two halves, each under what it needs. If no run may end in
the middle of a transfer (`Calm`), an archive at rest is empty or whole, and one on its way
is what was received so far, from the first piece on, also between the FTP and the HTTP
attempt (`InOrder`): so the file `Decide` finds may be taken for the archive, and the
request for the rest starts where the file ends. If no extraction may be cut (`Untorn`), the
only file in part is the one being written, and it is written from a whole archive
(`OnlyOpenIsPartial`): so a name that exists is a file with its bytes. `WholeForever`: once
a run has left a dataset whole, `TInv` with `Settled` (it is whole, and no run is past the
point where it decided to fetch) is an invariant, so later runs, faults and kills leave it
whole until somebody removes files.

**Benchmarks**: the invariant of the program that runs is one of the whole.
`MeasurementsAreWhole` (`BenchCache`), for
any candidates, sizes, files and kills.  A file that can be read is `Stored`, whoever
wrote it: of a sweep it has all measurements of all configurations by one process, of
`gate_only` no more than one of each circuit there is (`FilesSound`).  So a process may
take what it finds, and what it holds stays so (`HeldSound`); what its loop has passed is
enough (`PassedSound`), or was reported and is on disk since, each in its own file
(`ToldSound`).  That the configurations of a table are comparable is division: a
candidate divides what it is a candidate for, and what both gate counters make of the
circuit is the same one (`GridIsAlike`).

`ReportsAreOfTheTables` (`MsMarcoEval` over `EmbeddingTables`), for any texts, users and
judgements.  `MarcoInv` says of every file and table what its content can be, also when
a write was cut.  A table has the rows of a prefix of its texts, each under its own
number, and the ingestion goes on where the table ends (`TablesInv`).  An array on disk is
the rows of its table, of a state of the table the stored fingerprint is not newer
than: so a process that finds its fingerprint matched has the present rows
(`DiskSound`, `LoadSound`).  The scaled copy was made of these arrays, unless a forced run was
killed over it, which the meta data then do not show (`spoiled`).  A run file has for every
query of the qrels one rank, as both searches had the same vectors (`JobSound`, `EvalSound`), and
the report reads each file as it is (`ResultSound`).  That numbering the lines of a file with
a running number leaves a prefix is shown by counting the lines before.

`ScriptsShareTheView` (`AuthOverlay`), for any studies, kills and masks made again.
`OverlayInv` relates the files to the masks that were drawn: a seed draws once, a mask in a
file was drawn for its selectivity (`DrawSound`, `MaskSound`), and every row of the metrics,
the selection and the checkpoint was computed behind one of these (`MetricRows`,
`QueryRows`, `CheckRows`). Masks only become more, so rows stay explained (`RowsStay`); and
all masks drawn for a selectivity are alike until one is made again as another
(`DrawnAlike`, `AlikeAre`), so until then rows of different files are of the same view. With
a fixed hash seed, or clustered masks, that never happens (`MasksRepeat`). What the rows
have in common follows from filtering a ranking: the first k filtered are the beginning of
all filtered, and differ from the first k of those only where they are fewer
(`FilteredIsFirst`), so the buckets of all queries are the sets the metrics count
(`BucketsAre`, `FilteringHelps`). The calibration covers what it has passed
(`CalibrateSound`). That without a kill nothing is left out needs a conjunct of its own,
`Unlost`: which masks and rows there must be at each stage while nothing was killed. With
`ReportsAreOfTheTables` this is `EvaluatesWhatIsThere` (`EvaluationsHold`), with its two
exceptions: a selectivity whose mask was made again as another one, and a `spoiled` scaled
copy.

`MeasuredIsThePeak` (`MemoryMonitor`): the shared peak is the maximum of all
readings but the one the monitor holds and has not compared yet; only the monitor
writes it, and the proving thread reads it after joining (`MInv`).

`MeasuresHold` (`SearchMetrics` and `AuthOverlay`), for any tables, samples, studies, kills
and masks made again. In the half about faces, `FacesInv` follows the sample through the
scatter. The positions behind `write_pos` hold the rows that have come, each with its query,
and the others nothing yet (`ScatterFollows`); behind the last batch every row is a query or
at one position. The positions of one query lie side by side in the sorted list (`NoGap`),
and there are at least as many as asked for, so a slice from its first is right
(`SliceIsRight`); the errors of the loop are never raised. An answer lists positions once.
So counting along an answer is counting members of a set, which is how the benchmarks that
report the same figure compute it differently (`HitsCount`, `CurvesEnd`, `BenchesAgree`). In
the half about masks, `AnswersInv` stands beside `OverlayInv`: masks are within the objects,
rows of metrics are ordered, which they are by themselves whatever the mask (`RowIsOrdered`;
that violations add up to zero is `ViolationsAre`), and rows of the calibration were made of
the full answer. The heap is a fold over the objects; it exists (`TrackExists`), an update
keeps it k nearest of the objects it was shown (`UpdateKeeps`), so at the end it holds k
nearest visible ones (`TracksNearest`), whichever of equally distant ones. The first of a
full answer are nearest too (`FirstAreNearest`), so they have the best object if it has no
twin (`BestIsFirst`), and if no two are equally near they are what the candidates of a trace
of everything begin with (`CandNearest`, `OneNearest`).

**PlanningBench.** `ValidatedPlansAreEqual`: the structural checks suffice, for every grid,
grouping and sequence of alterations. By the invariant `CheckedPlan` a plan that was
validated without an error has no structural one: its regions cover the grid, each slot
once, and one taken for visible or invisible has only slots of that kind. So every slot has
one region (`SlotIsInItsRegion`) and is scored by it as by the mask (`SlotScoresAgree`), and
the comparison at the end of validation rejects nothing (`NoComparisonError`).
`BuiltPlansPass` is the other direction: a plan as the builder or a layout made it has no
structural error, over any grid (`GridShape`) and whatever groups it. The groups of every
strategy are a partition of the grid: blocks by division with remainder, lists and classes
by their index, signatures by what they share; the order of a region is a ranking of its
slots (`InOrder`), so nothing is lost or doubled; and the type of a region is decided from
its slots as the validator decides it. `EstimatesHold`: what an unaltered plan is estimated
to cost is a sum over its regions, of terms that differ by their type. The sums of the
library choose the order of their terms; so first a sum exists as a function of the set it
is taken over (`SumExists`), is the same in every order (`SumSplits`), grows with its terms
(`SumsCompare`) and counts disjoint parts (`SumCountsParts`). By the invariant `EInv` the
regions divide the grid, a region computes the distances of at least its visible slots and
at most its valid ones (`RegionIsPriced`), and the bounds hold region by region and so for
the plan (`PricesAddUp`). `LayoutsHold` is about the layouts by access signature. A
signature is kept as the number its roles make, and the number has its mask back
(`MaskNumbers`), so a region of one signature is not mixed and a signature has the role of a
query exactly when its slots are visible. Merging gives the used signatures ranks from 0
without a gap (`MasksAreRanked`) and divides them by the number merged; a layout therefore
has one region for each quotient and one for padding, and larger divisors leave no more
(`MergingStoresLess`). A plan costs at least a floor that its visible slots, its hidden ones
and padding need (`PlanHasFloor`), and the authorized view costs no more than it
(`OracleCostsFloor`); only the single region of the global layout can do without the
certificate of padding. `LInv` says that the grid is the one made of the assignment, and the
plan the layout's. `WorkloadsHold` follows the visible slots of a sweep. The units lie side
by side and make up the valid slots (`UnitsTile`). Each way to deal the visible slots out is
shown to give every unit at most what it holds, and all of them what was asked for
(`Counted`): the first units are filled (`ClusteredCounted`), or the turn goes round, with
every step of the loop keeping the sum (`DealtOut`, `SpreadCounted`), or the rounded mixture
of both is clamped and what is then missing or too much is shared in the order of the room
that is left (`SharesAddUp`, `AdjustedCounted`), from any counts whatever, so that the error
`_adjust_unit_counts` raises at its end never is. Positions in a unit are picked one beside
those used before: there is a free one as long as fewer are used than the unit has, and it
is reached by going up and down, or around (`PickedAre`, `SpreadAre`, `PositionsAre`). So
every mode but the beta model shows the number asked for (`VisibilitiesAre`). When
visibility is clustered these are the first slots; lists, classes and blocks take the valid
slots in order (`SweptRegions`), so a mixed region with valid slots has the last visible
one, and two regions have no slot in common (`OneMixedRegion`). `WInv` says that the grid is
one of the sweep's, and the plan made of its groups.

**Assumptions.** Hashes are taken as collision free (they are Poseidon outputs cut to one
field element of 64 bits) and the products at a random challenge as equality of multisets;
`ChallengesTellApart` bounds that error, under what holds in a field of prime order: it has
no divisors of zero (`FieldAssumption`), and rows that differ do so in the field
(`RowAssumption`). Contents of slots are bound by the index commitment. The user of a proof
is part of its witness. Ids of objects are unique and counted from 0, padding has id 0, and
the label of padding is visible to nobody (`WellFormed`, `LabelAssumption`). Distances are
at most `DMax`, the sentinel. Numbers of leaves are powers of two (`SizesAssumption`), as
`next_pow2` makes them. Projects and levels of labels fit the 8 bits a default class id has
for them (`GridAssumption`), and a user's projects are finitely many, clearances natural
(`UserAssumption`). Items are numbers (`ItemsAssumption`), as ids of objects are. Rows of
older versions are of configurations in the list, one of them standard for each
(`LegacyAssumption`): the old script wrote its summary from the standard rows, and a row of
a configuration that is no longer in the list is passed over by the code on purpose. Grids
are sequences of slots; sweeps have natural dimensions, no more valid slots than slots, as
the builder demands, nor more visible slots than valid ones, as the code clamps them, and
blocks of positive size; and a signature case at least one object and natural numbers of
roles and signatures (`GridAssumption`, `SweepAssumption`, `ObjectsAssumption` of
`PlanningBench`). Benchmarks have sizes and numbers of runs that are positive, as the
scripts demand; the files of a sweep are named after its whole grid, so the file of one
setup belongs to one grid (`SetupsAssumption`). MS MARCO has the two files its scripts are
given, lines are rows, empty or malformed, and limits, batch sizes and `max_db` are natural
numbers (`TextsAssumption`, `UsersAssumption`). A study has at least one query, percentages
and numbers of results are natural and the latter positive, hash seeds are finitely many
(`StudiesAssumption`); the mode is one of the three the overlay has, and a trace has the
distance of every query to every object. Samples of faces, and the numbers of answers to
them, are positive, as the code demands (`FacesAssumption`). Together with
`SetupsAssumption` these are `MeasuringAssumption`.

**Model-checked only.**  All liveness (`Terminates`, `Completes` of both scripts, `GetsReady`,
`EveryRunEnds`), since the prover has no rule for fairness here.  A recursive
definition cannot be reasoned about by induction over data in general; where it matters
above, that it has a solution and which one is shown by hand (sums, folds and the loops of the
sweep).  Every safety property the runs check is a theorem.

## 7. Findings

**`--resume` without `--skip-existing` repeats everything** (run
`calibration_resume`).  `main` loads the completed keys for either flag
(`scripts/calibrate_full_authorized_reference.py:104`) and uses them only with
`--skip-existing` (line 122).  The log of phase 9b lists both flags with
"Skip completed (query, k) in checkpoint".  A calibration that is restarted with
`--resume` appends its rows again, and `num_queries` of the summary counts
evaluations.

**The compressed reference has no answer where the reference has one** (run
`acl_padding`).  `score_candidate_acl_compressed` looks every candidate up in
`cid_visibility` (`auth_reference/acl_class.py:213`), which has the ids of valid
slots only; padding has id 0 and raises `KeyError` unless object 0 is among them.
`authorized_topk_acl_compressed` promises the semantics of
`run_authorized_reference` (line 338), which masks padding.

**Limits seen while modelling.**  No run expects them as violations; the runs above exclude
them by bounds or by conditions in the properties, which name them.

* Utility baseline: a kill inside the write of a trace or a summary leaves a file
  that later resuming runs take as complete, or fail on, until the run is forced
  (`Resuming` excludes it; `ForceNeverFails` shows that forcing helps).  A killed migration loses legacy rows (`LegacyKept` is about behaviours without a kill).  So
  does a run that measures some configurations before anything was split: the next
  aggregation takes their summaries for split ones (`run_public_utility_baseline.py:516`), and
  every old row is gone (`NeverSplit` names this case, and `LegacyKept` says it is the only one).
* Dataset preparation: a transfer that is killed or times out leaves a prefix that
  the next run takes for the archive and fails to extract, in every later run; a
  server that answers a Range request with all of the file has it appended.
  An extraction that a full disk or a kill ends inside a member leaves a file
  that exists, and the next run reports the set ready; `BytesAreWhole` therefore speaks
  of behaviours without `TornExtractions`, and where it is about what is extracted,
  like `GetsReady`, of those without `UnfinishedTransfers`.
* Memory: a panic of the proof leaves the monitor running for the life of the process.
* Policy: epoch 0 of a label means any epoch in `policy.py` and must equal the epoch
  of the checkpoint in the circuit, which also compares the user's epoch; a user's
  projects beyond the fourth, in sorted order, are dropped.  The circuit then
  shows less than the reference, never more (`ShowsAuthorized`).
* ACL classes: a class numbered 0 takes the place of the dummy class, and the
  witness of a table with padding rows is rejected (`HonestAccepted` states the
  exception; a class per object, numbered by object, meets it with object 0).
  Roles and the aliases of tenant names are lost in a class (`Expressible`).
* Default classes (`acl_class.py`): the docstring at line 459 groups by "(tenant,
  project, level, state, epoch)", the function at line 476 leaves out the state and has
  8 bits of the epoch, so a revoked object shares a class with active ones and all
  get the label of the first.  `SameAsObjectLevel` and `ShowsAuthorized` therefore ask
  for `Separated`.  Openings made from one candidate grid with the rows of the other
  (`acl_class_commitment.py:359`) do not match.
* Overlay: `seed_for` hashes a text (`auth_overlay_lib.py:54`), and Python salts such
  hashes per process unless `PYTHONHASHSEED` is set.  The log
  (`docs/phase9_authorization_overlay_log.md:47`) has the sub-seeds "for
  reproducibility", and the test compares two masks of one process
  (`tests/test_authorization_overlay.py:30`); masks made again are others, under the same
  names, and metrics, selection and checkpoint then disagree without a sign.
  `DrawnAlike` names the selectivities this has not happened to, `MasksAreRepeated` says
  when it cannot; without the condition `BucketsExplainGaps` and `CalibratesTheSelected` are
  violated.  A generation killed halfway leaves
  selectivities out of everything behind it, with a warning or none
  (`NothingLeftOut` is about behaviours without a kill).  `TopKTracker` evicts the
  lowest id of equally distant ones, the naive version does not; a best object with
  a twin may be missed by the full answer and found by the candidates, so that the
  gap is negative (`UniqueBest`).
* Planning: "PA increases with k" (`docs/phase6_proof_planning_layout_audit.md:62`) fails
  where merged signatures show the same; the oracle's "lowest PA" is missed by the
  certificates of padding.  Pure regions of one slot cost more than masking them.
  With `n_lists = 0` a doubling loop never ends; the generator raises when there are
  fewer masks than signatures; `_quantile` raises for a group with one row; `main`
  overrides `n_valid`.
* Benchmarks: a torn file blocks `optimal_mem_gate_only.py` even with
  `--force-recompute`, and its list of skipped keys grows with every run.  A top-up
  killed while it saves loses all earlier runs.  `bio_metric.py` drops the seeds of a
  file it saves again.  `acc_bench.py` has `report_ks` not in the name of its file, so
  other k discard the cache; its pass@k averages over fewer queries than recall@k
  when answers are short.  The docstring of `optimal_config.py` speaks of runs without
  Merkle trees, and they run with them.
* MS MARCO: a forced evaluation killed while it rescales leaves a torn copy that the
  old meta data vouch for (`spoiled`).  Torn run files are skipped until a forced run
  and block the report.  Runs of another configuration in the directory are skipped
  without being reported.  One malformed line blocks the ingestion; a limit that covers only
  empty lines makes no progress; a collection ingested in part is evaluated.  The
  loader opens the queries' database for writing, so its fingerprint may never match.
* Utility baseline: a kill between removing the old per-config files and writing the
  new ones (`run_public_utility_baseline.py:539`, forced migration) loses them until
  the next forced run.
* Adapter: padding slots hold item 0 and the loaders number objects from 0
  (`v3db_adapter.py:110`), so the leaf of padding also opens for object 0.  A prover may so hide
  object 0, also where it is visible and nearest, and a slot the user may not see can take its
  place among the top k.  It cannot show a hidden object 0, as the label of padding is
  visible to nobody.  `LabelsBound`, `OnlyVisible` and `AnswersView` state the exception (`MayHide`).
* Search: a visible object as far away as the sentinel is not told from a masked one.

## 8. Not modelled

`PROJECT.json` lists every component with its reason.  In short: numerical training
and vectorised search, whose results are the inputs of `AuthSearch`; the Plonky2
prover itself, whose promise (a proof exists iff the constraints can be
satisfied) is taken; the random draws and measurements themselves, which are any outcome; tables,
figures and the drivers that only format, which keep no state; and what section 2
plans.
