----------------------------- MODULE CompGadget -----------------------------
(***************************************************************************)
(* comp_gadget: the comparison every sorting and clearance constraint of   *)
(* the circuits is built from.  It adds B = 2^max_bit to dst - src in the  *)
(* field, splits the sum into max_bit + 1 bits and returns the complement  *)
(* of the highest one.  split_le has no solution for a larger sum, so a    *)
(* witness for which Provable fails makes the prover fail.                 *)
(***************************************************************************)
EXTENDS Integers

CONSTANTS P,  \* number of elements of the field F
          B   \* 1 << max_bit

ASSUME CompAssumption == B \in Nat \ {0} /\ P \in Nat /\ 2 * B < P

Delta(src, dst) == (dst - src + B) % P

Provable(src, dst) == Delta(src, dst) < 2 * B

(* Mutant: equal arguments count as out of order.                          *)
Comp_Strict(src, dst) == IF Delta(src, dst) > B THEN 0 ELSE 1

(* 0 iff src <= dst, 1 iff src > dst, for src, dst \in 0 .. B - 1.         *)
Comp(src, dst) == IF Delta(src, dst) >= B THEN 0 ELSE 1
=============================================================================
