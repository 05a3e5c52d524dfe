-------------------------- MODULE MCSlotAlignedTree --------------------------
(* Hashes are terms; commitments of several shapes, labels that repeat     *)
(* within a list and between lists included.                               *)
EXTENDS SlotAlignedTree

MCLeafHash(x) == <<x>>
MCNode(a, b)  == <<a, b>>

Commitment(rows) ==
  [n_list |-> Len(rows), slots |-> Len(rows[1]),
   label |-> [l \in 0 .. Len(rows) - 1 |->
                [j \in 0 .. Len(rows[1]) - 1 |-> rows[l + 1][j + 1]]]]

MCCommitments ==
  {Commitment(<<<<"a", "b", "c", "a", "b">>>>),
   Commitment(<<<<"a">>, <<"b">>, <<"c">>>>),
   Commitment(<<<<"a", "b", "none">>, <<"c", "none", "none">>>>),
   Commitment(<<<<"a", "b">>, <<"b", "a">>, <<"c", "none">>>>)}

MCForged == {<<"forged">>}
=============================================================================
