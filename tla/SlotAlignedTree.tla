--------------------------- MODULE SlotAlignedTree ---------------------------
(***************************************************************************)
(* The two-level commitment of authorization labels: a tree over the slots *)
(* of every list, a tree over the roots of the lists, and the circuit that *)
(* opens one slot.  The flat commitment is the case of a single list.      *)
(*                                                                         *)
(* Trees are arrays from the root to the leaves, as hash_tree_gen lays     *)
(* them out; while one is built its uppermost `width' entries are the      *)
(* level last computed.  Positions count from 0.  LeafHash and Node stand  *)
(* for Poseidon hashes of a label and of two hashes.                       *)
(***************************************************************************)
EXTENDS Integers, Sequences

CONSTANTS LeafHash(_), Node(_, _),
          Values,      \* labels, each with the id of its object
          Dummy,       \* the label of padding leaves
          Forged,      \* hashes a prover may bring along
          Sizes,       \* powers of two
          Commitments  \* what is committed: [n_list, slots, label]

ASSUME SizesAssumption ==
  /\ Sizes \subseteq Nat \ {0}
  /\ \A w \in Sizes : w = 1 \/ (w % 2 = 0 /\ w \div 2 \in Sizes)

Fits(p, count) == p \in Sizes /\ count <= p /\ p < 2 * count

ASSUME CommitmentsAssumption ==
  /\ Dummy \in Values
  /\ \A c \in Commitments :
       /\ c.n_list \in Nat \ {0} /\ c.slots \in Nat \ {0}
       /\ \E p \in Sizes : Fits(p, c.n_list)
       /\ \E p \in Sizes : Fits(p, c.slots)
       /\ c.label \in [0 .. c.n_list - 1 -> [0 .. c.slots - 1 -> Values]]

VARIABLES commitment, intra, top,           \* the trees
          width,                            \* of the level worked on
          honest, list_id, claim,           \* the opening: what it says
          path,                             \* of the honest prover
          curr, pos, pow,                   \* merkle_back and the sum of bits
          list_auth_root, slot_pos,         \* where the inner path has led
          phase

trees   == <<commitment, intra, top>>
opening == <<honest, list_id, claim>>
walk    == <<path, curr, pos, pow>>
inner   == <<list_auth_root, slot_pos>>
treeVars == <<trees, width, opening, walk, inner, phase>>

(* next_pow2                                                               *)
NextPow2(count) == CHOOSE p \in Sizes : Fits(p, count)

S     == NextPow2(commitment.slots)
L     == NextPow2(commitment.n_list)
Lists == 0 .. commitment.n_list - 1

(* Labels are filled up with dummies.                                      *)
Label(l, j) == IF j < commitment.slots THEN commitment.label[l][j] ELSE Dummy

TreeInit ==
  /\ commitment \in Commitments
  /\ intra = [l \in Lists |-> [j \in 0 .. S - 1 |-> LeafHash(Label(l, j))]]
  /\ width = S /\ top = << >> /\ phase = "intra"
  /\ honest = TRUE /\ list_id = 0 /\ claim = Dummy
  /\ path = << >> /\ curr = Dummy /\ pos = 0 /\ pow = 1
  /\ list_auth_root = Dummy /\ slot_pos = 0

(* The next level is put in front of a tree of n leaves.                   *)
Grow(t, n, w) ==
  [k \in 0 .. 2 * n - (w \div 2) - 1 |->
     IF k < w \div 2 THEN Node(t[2 * k], t[2 * k + 1]) ELSE t[k - (w \div 2)]]

GrowIntra ==
  /\ phase = "intra" /\ width > 1
  /\ intra' = [l \in Lists |-> Grow(intra[l], S, width)] /\ width' = width \div 2
  /\ UNCHANGED <<commitment, top, opening, walk, inner, phase>>

(* build_top_auth_tree: the roots of the lists are the leaves.             *)
TopLeaf(l) == IF l \in Lists THEN intra[l][0] ELSE LeafHash(Dummy)

StartTop ==
  /\ phase = "intra" /\ width = 1
  /\ top' = [l \in 0 .. L - 1 |-> TopLeaf(l)] /\ width' = L /\ phase' = "top"
  /\ UNCHANGED <<commitment, intra, opening, walk, inner>>

GrowTop ==
  /\ phase = "top" /\ width > 1
  /\ top' = Grow(top, L, width) /\ width' = width \div 2
  /\ UNCHANGED <<commitment, intra, opening, walk, inner, phase>>

(***************************************************************************)
(* Openings.  hash_tree_path goes down from the root along the bits of the *)
(* index, the highest first, and lists the siblings from the leaf up.      *)
(***************************************************************************)
tree_depth[n \in Nat] == IF n <= 1 THEN 0 ELSE 1 + tree_depth[n \div 2]

Sibling(c) == IF c % 2 = 0 THEN c - 1 ELSE c + 1

(* Mutant: the lowest bit is followed first.                               *)
HashTreePath_LowFirst(idx, t, n) ==
  LET depth  == tree_depth[n]
      bit(i) == (idx \div 2 ^ i) % 2
      Down[k \in 0 .. depth] == IF k = 0 THEN 0 ELSE 2 * Down[k - 1] + bit(k - 1) + 1
  IN  [i \in 1 .. depth |-> <<bit(i - 1), t[Sibling(Down[depth + 1 - i])]>>]

HashTreePath(idx, t, n) ==
  LET depth  == tree_depth[n]
      bit(i) == (idx \div 2 ^ i) % 2
      Down[k \in 0 .. depth] == IF k = 0 THEN 0 ELSE 2 * Down[k - 1] + bit(depth - k) + 1
  IN  [i \in 1 .. depth |-> <<bit(i - 1), t[Sibling(Down[depth + 1 - i])]>>]

(* A prover claims a label for a slot of the list.                         *)
Open ==
  /\ phase = "top" /\ width = 1
  /\ list_id' \in Lists /\ honest' \in BOOLEAN
  /\ IF honest'
     THEN \E j \in 0 .. commitment.slots - 1 :
            /\ claim' = Label(list_id', j)
            /\ path'  = HashTreePath(j, intra[list_id'], S)
     ELSE claim' \in Values /\ path' = << >>
  /\ curr' = LeafHash(claim') /\ pos' = 0 /\ pow' = 1
  /\ width' = S /\ phase' = "climb"
  /\ UNCHANGED <<trees, inner>>

Offered ==
  {intra[l][k] : l \in Lists, k \in 0 .. 2 * S - 2} \cup {top[k] : k \in 0 .. 2 * L - 2} \cup Forged

Steps == IF honest THEN {Head(path)} ELSE (0 .. 2) \X Offered

Back(d, sibling) == IF d = 0 THEN Node(curr, sibling) ELSE Node(sibling, curr)

(* One level of merkle_back_gadget, which looks the direction up in [0, 1]. *)
Climb ==
  /\ phase \in {"climb", "climb_top"} /\ width > 1
  /\ \E step \in Steps :
       IF step[1] \in {0, 1}
       THEN /\ curr' = Back(step[1], step[2])
            /\ pos' = pos + step[1] * pow /\ pow' = 2 * pow
            /\ width' = width \div 2 /\ phase' = phase
       ELSE phase' = "rejected" /\ UNCHANGED <<curr, pos, pow, width>>
  /\ path' = IF honest THEN Tail(path) ELSE path
  /\ UNCHANGED <<trees, opening, inner>>

(* The inner root is connected to the root of the list, which is opened in *)
(* the upper tree without being hashed again.                              *)
Connect ==
  /\ phase = "climb" /\ width = 1
  /\ list_auth_root' = curr /\ slot_pos' = pos
  /\ pos' = 0 /\ pow' = 1 /\ width' = L /\ phase' = "climb_top"
  /\ path' = IF honest THEN HashTreePath(list_id, top, L) ELSE path
  /\ UNCHANGED <<trees, opening, curr>>

(* Mutant: the directions are not bound to list_id.                        *)
Verify_AnyList ==
  /\ phase = "climb_top" /\ width = 1
  /\ phase' = IF curr = top[0] THEN "accepted" ELSE "rejected"
  /\ UNCHANGED <<trees, width, opening, walk, inner>>

(* connect(top_root, root_auth), and the directions are the bits of        *)
(* list_id (list_id_top_path_binding_gadget).                              *)
Verify ==
  /\ phase = "climb_top" /\ width = 1
  /\ phase' = IF curr = top[0] /\ pos = list_id THEN "accepted" ELSE "rejected"
  /\ UNCHANGED <<trees, width, opening, walk, inner>>

TreeNext == GrowIntra \/ StartTop \/ GrowTop \/ Open \/ Climb \/ Connect \/ Verify

TreeSpec == TreeInit /\ [][TreeNext]_treeVars

(***************************************************************************)
(* Properties.                                                             *)
(***************************************************************************)
Typed ==
  /\ commitment \in Commitments
  /\ phase \in {"intra", "top", "climb", "climb_top", "accepted", "rejected"}
  /\ width \in Sizes /\ honest \in BOOLEAN /\ list_id \in Lists /\ claim \in Values
  /\ pow \in Nat \ {0} /\ pos \in 0 .. pow - 1 /\ slot_pos \in 0 .. S - 1

(* Paths of hash_tree_path lead merkle_back_gadget to the root, whatever   *)
(* the number of lists and slots, padding included.                        *)
HonestOpens == honest => phase # "rejected"

(* An accepted opening claims the label that was committed for the slot    *)
(* its path leads to in that very list, also if the prover chose siblings  *)
(* and directions freely.                                                  *)
Bound == phase = "accepted" => claim = Label(list_id, slot_pos)

(* No two of the hashed inputs have the same hash.                         *)
CollisionFree ==
  /\ \A x, y \in Values : LeafHash(x) = LeafHash(y) => x = y
  /\ \A a, b, c, d : Node(a, b) = Node(c, d) => a = c /\ b = d
=============================================================================
