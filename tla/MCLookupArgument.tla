--------------------------- MODULE MCLookupArgument -------------------------
(* Instance of LookupArgument for TLC: a field of five elements, a table   *)
(* of two or three rows, lists of lookups shorter, as long as and longer   *)
(* than it, with repeated rows and rows that are not in the table.         *)
EXTENDS LookupArgument

MCColumns == {<<0, 0, 0, 3>>, <<0, 0, 1, 2>>, <<0, 1, 0, 3>>, <<1, 0, 0, -1>>}
MCRows(n) == [1 .. n -> MCColumns]
MCFSets   == MCRows(1) \cup {<<a, b>> : a, b \in MCColumns}
              \cup {<<a, a, b>> : a, b \in MCColumns}
              \cup {<<a, b, a, b>> : a \in {<<0, 0, 1, 2>>}, b \in MCColumns}
MCTSets   == {<<a, b>> : a, b \in MCColumns}
              \cup {s \in MCRows(3) : s[1] = <<0, 0, 0, 3>> /\ \A k, j \in 1 .. 3 : k # j => s[k] # s[j]}
=============================================================================
