------------------------- MODULE MCUtilityBaseline -------------------------
(* Two configurations and three usages: a team that resumes killed runs    *)
(* over any selection, one that finds files of an older version and uses   *)
(* every flag over everything, with kills anywhere, and one that finds     *)
(* such files and runs over any selection.                                 *)
EXTENDS UtilityBaseline

Two == 1 .. 2

Resumed ==
  [flags   |-> {{"resume"}, {"skip_existing"}, {"only_missing"}},
   configs |-> (SUBSET Two) \ {{}}, legacy |-> {}, inside |-> {}]

Old == {<<1, "old">>, <<1, "old_zk">>, <<2, "old">>}

Older ==
  [flags   |-> {{}, {"resume"}, {"force_recompute"}, {"no_traces"},
                {"aggregate_only"}, {"aggregate_only", "force_remigrate"}},
   configs |-> {Two}, legacy |-> Old, inside |-> Kinds]

Selecting ==
  [flags   |-> {{}, {"resume"}, {"aggregate_only"}, {"aggregate_only", "force_remigrate"}},
   configs |-> (SUBSET Two) \ {{}}, legacy |-> Old, inside |-> {}]

MCUsages == {Resumed, Older, Selecting}
=============================================================================
