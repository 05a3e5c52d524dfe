---------------------------- MODULE MCAuthSearch ----------------------------
(* Three lists of two slots, two of them probed: the last list is fixed,   *)
(* the others hold every mixture of padding, labels and distances, with    *)
(* object 0 and with a distance as large as the sentinel.                  *)
EXTENDS AuthSearch

Padding == [valid |-> 0, item |-> 0, dis |-> 0, label |-> Dummy]
Object(i, d, lb) == [valid |-> 1, item |-> i, dis |-> d, label |-> lb]

Rows(i, D, E) ==
  {<<Padding, Padding>>}
  \cup {<<Object(i, d, lb), Padding>> : d \in D, lb \in {"vis", "hid"}}
  \cup {<<Object(i, d, lb), Object(i + 1, e, lc)>> :
          d \in D, e \in E, lb, lc \in {"vis", "hid"}}

(* The distance 3 is the sentinel.                                         *)
MCIndexes ==
  {[l \in Lists |-> IF l = 0 THEN r ELSE IF l = 1 THEN s
                    ELSE <<Object(4, 1, "vis"), Padding>>] :
     r \in Rows(2, 1 .. 2, {1, 3}), s \in Rows(0, {1, 3}, {1})}

MCCenters ==
  {[l \in Lists |-> IF l = 0 THEN 1 ELSE IF l = 1 THEN 0 ELSE 2],
   [l \in Lists |-> IF l = 0 THEN 0 ELSE 1]}

MCLayouts == {"all_visible", "policy", "committed", "slot_aligned"}
=============================================================================
