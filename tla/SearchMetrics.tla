---------------------------- MODULE SearchMetrics ----------------------------
(***************************************************************************)
(* How good a search was, as three benchmarks measure it over the same     *)
(* results:                                                                *)
(*                                                                         *)
(*   bio_metric       hits and recall against the other faces of a person, *)
(*                    as numbers and as curves over k                      *)
(*   acc_bench        recall@k, whether the nearest neighbour is among the *)
(*                    first k, and pass@k, how many of the k nearest are   *)
(*   ms_macro_result  the rank of the one relevant passage, and hits of it *)
(*                                                                         *)
(* and the sample of faces the first of them searches (vec_data_load/      *)
(* bupt_cbface_load.py): who is asked for, which rows make the database    *)
(* and which positions of it are right.                                    *)
(*                                                                         *)
(* A database position holds the number of a row of the table, a row is    *)
(* the person it shows.  Answers are whatever a search may return: distinct*)
(* positions, best first, fewer than asked for if the probed lists have    *)
(* no more.  Means over queries are sums.                                  *)
(***************************************************************************)
EXTENDS Integers, Sequences, FiniteSets, FiniteSetsExt

CONSTANTS Tables,  \* tables the ingestion may have left: sequences of persons
          Samples, \* arguments of the sampling: [queries, gt_k]
          TopKs,   \* values of top_k
          ReportKs \* sets of k acc_bench is asked to report

(* A sample of nobody, and no or negative numbers of answers, raise before *)
(* anything is read.                                                       *)
FacesAssumption ==
  /\ \A table \in Tables : table \in Seq({table[r] : r \in DOMAIN table})
  /\ \A s \in Samples : s.queries \in Nat \ {0} /\ s.gt_k \in Nat \ {0}
  /\ TopKs \subseteq Nat \ {0} /\ \A ks \in ReportKs : ks \subseteq Int

VARIABLES faces,   \* the table: row_id -> person
          sample,  \* arguments
          stage,   \* "table", "scatter", "sampled", "searched", "rejected",
                   \* "internal_error"
          asked,   \* query -> its row
          reader,  \* the other rows, in the order the database returns them
          fetched, \* how many of them have come
          perm,    \* positions, in the order they are written
          write_pos,
          db,      \* position -> row
          db_q_idx,\* position -> query whose person the row shows, or Nobody
          gt,      \* query -> positions that are right
          top_k, answers

scatter == <<reader, fetched, perm, write_pos>>
vars    == <<faces, sample, stage, asked, scatter, db, db_q_idx, gt, top_k, answers>>

Nobody == 0

RowsOf(p) == {r \in 1 .. Len(faces) : faces[r] = p}

Init ==
  /\ faces \in Tables /\ sample \in Samples /\ stage = "table"
  /\ asked = <<>> /\ db = <<>> /\ db_q_idx = <<>> /\ gt = <<>>
  /\ reader = <<>> /\ fetched = 0 /\ perm = <<>> /\ write_pos = 0
  /\ top_k = 0 /\ answers = <<>>

(***************************************************************************)
(* The sample.                                                             *)
(***************************************************************************)
EligiblePersons ==
  {p \in {faces[r] : r \in 1 .. Len(faces)} : Cardinality(RowsOf(p)) >= sample.gt_k + 1}

n_db == Len(faces) - sample.queries

(* All members of a set, in some order.                                    *)
Orders(S) ==
  {o \in [1 .. Cardinality(S) -> S] : \A x \in S : \E i \in DOMAIN o : o[i] = x}

(* One row of each of so many persons is asked for; the others go to any   *)
(* positions.  What np.empty holds may look like an answer.                *)
Sample ==
  /\ stage = "table"
  /\ IF Len(faces) < sample.queries \/ Cardinality(EligiblePersons) < sample.queries
     THEN stage' = "rejected" /\ UNCHANGED <<asked, scatter, db, db_q_idx>>
     ELSE /\ stage' = "scatter"
          /\ asked' \in [1 .. sample.queries -> 1 .. Len(faces)]
          /\ \A q \in 1 .. sample.queries :
               /\ faces[asked'[q]] \in EligiblePersons
               /\ \A o \in 1 .. q - 1 : faces[asked'[o]] # faces[asked'[q]]
          /\ reader' \in Orders((1 .. Len(faces)) \ {asked'[q] : q \in 1 .. sample.queries})
          /\ perm' \in Orders(1 .. n_db)
          /\ fetched' = 0 /\ write_pos' = 0
          /\ db' = [i \in 1 .. n_db |-> 0] /\ db_q_idx' = [i \in 1 .. n_db |-> 1]
  /\ UNCHANGED <<faces, sample, gt, top_k, answers>>

(* The left join with the persons that were selected.                      *)
QIdx(row) ==
  IF \E q \in DOMAIN asked : faces[asked[q]] = faces[row]
  THEN CHOOSE q \in DOMAIN asked : faces[asked[q]] = faces[row] ELSE Nobody

(* A batch of n rows, written at the next n positions of the permutation.  *)
Batch(n) == [j \in 1 .. n |-> reader[fetched + j]]
QIdxs(n) == [j \in 1 .. n |-> QIdx(Batch(n)[j])]

Put(array, n, values) ==
  [i \in DOMAIN array |->
     IF \E j \in 1 .. n : perm[write_pos + j] = i
     THEN values[CHOOSE j \in 1 .. n : perm[write_pos + j] = i] ELSE array[i]]

(* Mutant: the ids are written in the order they are read.                 *)
Scatter_Unpermuted ==
  /\ stage = "scatter"
  /\ \E n \in 1 .. Len(reader) - fetched :
       IF write_pos + n > n_db
       THEN stage' = "internal_error" /\ UNCHANGED <<fetched, write_pos, db, db_q_idx>>
       ELSE /\ db' = Put(db, n, Batch(n))
            /\ db_q_idx' = [i \in DOMAIN db |->
                 IF i \in write_pos + 1 .. write_pos + n THEN QIdx(reader[i]) ELSE db_q_idx[i]]
            /\ write_pos' = write_pos + n /\ fetched' = fetched + n
            /\ UNCHANGED stage
  /\ UNCHANGED <<faces, sample, asked, reader, perm, gt, top_k, answers>>

Scatter ==
  /\ stage = "scatter"
  /\ \E n \in 1 .. Len(reader) - fetched :
       IF write_pos + n > n_db
       THEN stage' = "internal_error" /\ UNCHANGED <<fetched, write_pos, db, db_q_idx>>
       ELSE /\ db' = Put(db, n, Batch(n)) /\ db_q_idx' = Put(db_q_idx, n, QIdxs(n))
            /\ write_pos' = write_pos + n /\ fetched' = fetched + n
            /\ UNCHANGED stage
  /\ UNCHANGED <<faces, sample, asked, reader, perm, gt, top_k, answers>>

(* argsort, stable: positions by query, those of one query as they come.   *)
Relevant == {i \in DOMAIN db_q_idx : db_q_idx[i] # Nobody}
Sorted(relevant) ==
  \A a, b \in DOMAIN relevant :
    a < b => LET i == relevant[a]
                 j == relevant[b]
             IN db_q_idx[i] < db_q_idx[j] \/ (db_q_idx[i] = db_q_idx[j] /\ i < j)

(* np.unique: how often a query occurs, and where it does so first.        *)
Counted(q) == Cardinality({i \in Relevant : db_q_idx[i] = q})
First(relevant, q) ==
  CHOOSE a \in DOMAIN relevant :
    /\ db_q_idx[relevant[a]] = q
    /\ \A b \in 1 .. a - 1 : db_q_idx[relevant[b]] # q

GroundTruth(relevant, q) ==
  [i \in 1 .. sample.gt_k |-> relevant[First(relevant, q) + i - 1]]

(* Behind the last batch.                                                  *)
Collect ==
  /\ stage = "scatter" /\ fetched = Len(reader)
  /\ IF write_pos # n_db \/ \E q \in DOMAIN asked : Counted(q) < sample.gt_k
     THEN stage' = "internal_error" /\ UNCHANGED gt
     ELSE /\ stage' = "sampled"
          /\ \E relevant \in Orders(Relevant) :
               /\ Sorted(relevant)
               /\ gt' = [q \in DOMAIN asked |-> GroundTruth(relevant, q)]
  /\ reader' = <<>> /\ fetched' = 0 /\ perm' = <<>> /\ write_pos' = 0 /\ db_q_idx' = <<>>
  /\ UNCHANGED <<faces, sample, asked, db, top_k, answers>>

(***************************************************************************)
(* The search.                                                             *)
(***************************************************************************)
Answers(k) ==
  UNION {{a \in [1 .. n -> DOMAIN db] : \A i, j \in 1 .. n : a[i] = a[j] => i = j} :
         n \in 0 .. k}

Search ==
  /\ stage = "sampled"
  /\ \E k \in TopKs :
       /\ top_k' = k
       /\ IF k > Len(db) THEN stage' = "rejected" /\ UNCHANGED answers
          ELSE /\ answers' \in [DOMAIN asked -> Answers(k)]
               /\ stage' = "searched"
  /\ UNCHANGED <<faces, sample, asked, scatter, db, db_q_idx, gt>>

Next == Sample \/ Scatter \/ Collect \/ Search

Spec == Init /\ [][Next]_vars

(***************************************************************************)
(* The measures, each over all queries.                                    *)
(***************************************************************************)
Queries  == DOMAIN asked
Right(q) == {gt[q][i] : i \in DOMAIN gt[q]}
Found(q) == {answers[q][i] : i \in DOMAIN answers[q]}
Least(a, b) == IF a < b THEN a ELSE b

Count(S) == Cardinality(S)

(* bio_metric: a run raises if an answer is short.  Its numbers are sets'. *)
BioRuns == \A q \in Queries : Len(answers[q]) = top_k
HitAtK    == Count({q \in Queries : Found(q) \cap Right(q) # {}})
RecallAtK == [q \in Queries |-> Count(Found(q) \cap Right(q))]

(* Its curves are counted along the answer.                                *)
HitCurve(k) ==
  Count({q \in Queries : \E i \in 1 .. k : answers[q][i] \in Right(q)})

FirstSeen(q) ==
  {i \in DOMAIN answers[q] : \A j \in 1 .. i - 1 : answers[q][j] # answers[q][i]}

RecallCurve(k) ==
  [q \in Queries |-> Count({i \in FirstSeen(q) : i <= k /\ answers[q][i] \in Right(q)})]

(* acc_bench.                                                              *)
NormalizeReportKs(ks) == ks \cup {top_k}

AccRecall(k) ==
  Count({q \in Queries :
           \E i \in 1 .. Least(k, Len(answers[q])) : answers[q][i] = gt[q][1]})

HasPass(q, k) == k <= Len(answers[q]) /\ k <= Len(gt[q])

AccPass(q, k) ==
  Count({answers[q][i] : i \in 1 .. k} \cap {gt[q][i] : i \in 1 .. k})

RunKeys(ks) ==
  {<<"recall", k>> : k \in ks}
    \cup {<<"pass", k>> : k \in {x \in ks : \E q \in Queries : HasPass(q, x)}}

RequiredRunKeys(ks) ==
  {<<"recall", k>> : k \in ks} \cup {<<"pass", k>> : k \in {x \in ks : x <= top_k}}

(* The aliases of a run ask for the metrics at top_k, or raise.            *)
AccRuns(ks) == top_k <= sample.gt_k /\ <<"pass", top_k>> \in RunKeys(ks)

(* ms_macro_result: 0 for a miss.                                          *)
Rank(q, pid) ==
  IF pid \in Found(q) THEN CHOOSE i \in DOMAIN answers[q] : answers[q][i] = pid ELSE 0

RankHits(k) == Count({q \in Queries : Rank(q, gt[q][1]) # 0 /\ Rank(q, gt[q][1]) <= k})

(***************************************************************************)
(* Properties.                                                             *)
(***************************************************************************)
(* However the batches are cut and wherever their rows go, none is left    *)
(* over.  What counts as right shows the person asked for, is not the row  *)
(* asked with, and is counted once; the database is all the other rows.    *)
TruthIsSound ==
  /\ stage # "internal_error"
  /\ stage \in {"sampled", "searched"} =>
    /\ \A r \in 1 .. Len(faces) :
         Count({i \in DOMAIN db : db[i] = r}) + Count({q \in Queries : asked[q] = r}) = 1
    /\ \A q \in Queries :
         /\ Count(Right(q)) = sample.gt_k
         /\ \A i \in Right(q) : faces[db[i]] = faces[asked[q]] /\ db[i] # asked[q]

(* The curves never fall, end in the numbers, and are those of the answers *)
(* cut off at k; a hit is what has some recall.                            *)
CurvesEndInNumbers ==
  stage = "searched" /\ BioRuns =>
    /\ HitCurve(top_k) = HitAtK /\ RecallCurve(top_k) = RecallAtK
    /\ \A k \in 1 .. top_k :
         /\ HitCurve(k) = Count({q \in Queries : RecallCurve(k)[q] > 0})
         /\ \A q \in Queries :
              /\ RecallCurve(k)[q] <= Least(k, sample.gt_k)
              /\ k > 1 => RecallCurve(k)[q] >= RecallCurve(k - 1)[q]

(* What three benchmarks call a hit at k is the same for one right answer, *)
(* and where pass@k is defined for all that is right it is the recall.     *)
BenchmarksAgree ==
  stage = "searched" =>
    \A k \in 1 .. top_k :
      /\ AccRecall(k) = RankHits(k)
      /\ sample.gt_k = 1 /\ BioRuns => HitCurve(k) = RankHits(k)
      /\ \A q \in Queries :
           k = sample.gt_k /\ HasPass(q, k) => AccPass(q, k) = RecallCurve(k)[q]

(* A run of acc_bench that does not raise has all the keys without which   *)
(* the next start would drop it from the cache and measure again.          *)
RunsAreKept ==
  stage = "searched" =>
    \A ks \in ReportKs :
      LET report == NormalizeReportKs(ks)
      IN AccRuns(report) => RequiredRunKeys(report) \subseteq RunKeys(report)

MeasuresAgree == TruthIsSound /\ CurvesEndInNumbers /\ BenchmarksAgree /\ RunsAreKept
=============================================================================
