--------------------------- MODULE EmbeddingTables ---------------------------
(***************************************************************************)
(* Filling tables of embeddings from text files, a run of the script at a  *)
(* time: vec_data_load/ms_macro.py (collection and queries of MS MARCO) and*)
(* vec_data_load/bupt_cbface.py (faces, a batch of one).  A run continues  *)
(* behind the greatest row_id in the table, and may be killed between any  *)
(* two rows, which DuckDB commits one by one.                              *)
(*                                                                         *)
(* A row is the number of its line, counted from 1.  A line is a "row",    *)
(* "empty" (skipped, its number is not used again; csv.DictReader does not *)
(* even count it, so faces have none) or "bad": not two columns with an    *)
(* integer, or an image that cannot be read.                               *)
(***************************************************************************)
EXTENDS Integers, Sequences, FiniteSets, FiniteSetsExt

CONSTANTS Texts,    \* the files there may be: [table -> sequence of lines]
          BatchOf   \* table |-> batch size

TextsAssumption ==
  \A files \in Texts : \A t \in DOMAIN files :
    files[t] \in Seq({"row", "empty", "bad"}) /\ BatchOf[t] \in Nat

\* --limit is not given.
NoLimit == 99

VARIABLES text,   \* the files
          rows,   \* table |-> numbers of the rows it holds
          ingest  \* the script: [pc, table, at, stop, batch]

Tables == DOMAIN text

NotIngesting == [pc |-> "idle", table |-> "", at |-> 0, stop |-> 0, batch |-> <<>>]

(* DuckDB lets one process at a time open a file for writing.              *)
Locked(t) == ingest.pc # "idle" /\ ingest.table = t

MaxRowId(t) == Max(rows[t] \cup {0})

Smaller(a, b) == IF a < b THEN a ELSE b

(* Mutant: a run continues one row too late.                               *)
IngestStart_Skips(t, limit) ==
  /\ ingest.pc = "idle"
  /\ LET start == MaxRowId(t) + 2
         stop  == Smaller(Len(text[t]), start - 1 + limit)
     IN /\ start <= stop
        /\ ingest' = [pc |-> "read", table |-> t, at |-> start, stop |-> stop,
                      batch |-> <<>>]
  /\ UNCHANGED <<text, rows>>

(* --max-rows stops at a line as --limit does, counted from the first.     *)
IngestStart(t, limit) ==
  /\ ingest.pc = "idle"
  /\ LET start == MaxRowId(t) + 1
         stop  == Smaller(Len(text[t]), start - 1 + limit)
     IN /\ start <= stop
        /\ ingest' = [pc |-> "read", table |-> t, at |-> start, stop |-> stop,
                      batch |-> <<>>]
  /\ UNCHANGED <<text, rows>>

(* The next batch is read to its end before any of it is embedded: a bad   *)
(* line ends the run, and the rows in front of it are read again next time.*)
IngestBatch ==
  /\ ingest.pc = "read"
  /\ LET t     == ingest.table
         ahead == {i \in ingest.at .. ingest.stop : text[t][i] # "empty"}
         batch == {i \in ahead : Cardinality({j \in ahead : j < i}) < BatchOf[t]}
     IN IF batch = {} \/ \E i \in batch : text[t][i] = "bad"
        THEN ingest' = NotIngesting
        ELSE ingest' = [ingest EXCEPT
               !.pc = "insert", !.at = Max(batch) + 1,
               !.batch = [n \in 1 .. Cardinality(batch) |->
                            CHOOSE i \in batch :
                              Cardinality({j \in batch : j <= i}) = n]]
  /\ UNCHANGED <<text, rows>>

IngestRow ==
  /\ ingest.pc = "insert"
  /\ rows' = [rows EXCEPT ![ingest.table] = @ \cup {Head(ingest.batch)}]
  /\ ingest' = [ingest EXCEPT
       !.batch = Tail(@), !.pc = IF Len(ingest.batch) = 1 THEN "read" ELSE "insert"]
  /\ UNCHANGED text

IngestKill ==
  /\ ingest.pc # "idle" /\ ingest' = NotIngesting /\ UNCHANGED <<text, rows>>

Ingests == IngestBatch \/ IngestRow

TablesInit ==
  /\ text \in Texts
  /\ rows = [t \in Tables |-> {}]
  /\ ingest = NotIngesting

(* Nothing is left out between two rows of a table, whatever runs were     *)
(* stopped where, and with which limits; and no bad line is in it.         *)
TablesArePrefixes ==
  \A t \in Tables : \A i \in rows[t] :
    /\ text[t][i] = "row"
    /\ \A j \in 1 .. i : text[t][j] = "row" => j \in rows[t]
=============================================================================
