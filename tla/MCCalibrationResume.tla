------------------------ MODULE MCCalibrationResume ------------------------
(* Instances of CalibrationResume for TLC: three queries in two groups.    *)
EXTENDS CalibrationResume

MCQueries == 1..3
MCKs      == {1, 10}
MCGroup   == [q \in MCQueries |-> IF q = 2 THEN "b" ELSE "a"]

(* All queries, or what --max-queries-per-dataset left of them.            *)
MCCalibrationSets == {{1, 2, 3}, {1, 3}}
MCKsChoices       == {{1}, {1, 10}}
FullRun           == {{1, 2, 3}}
FullKs            == {{1, 10}}

SkipFlags   == {{"skip_existing"}}
ResumeFlags == {{"resume"}}
=============================================================================
