--------------------------- MODULE AccessSignatures ---------------------------
(***************************************************************************)
(* The workload of the layout evaluation.  Every object has an access      *)
(* signature, a set of roles; a query is asked in one role.  Signatures    *)
(* come from a table; which object gets which, and what the table holds,   *)
(* is random.                                                              *)
(*                                                                         *)
(* A configuration c is [num_objects, num_roles, num_signatures,           *)
(* min_sig_popcount, max_sig_popcount], the last 0 if it is not given.     *)
(* Objects fill the grid from its first slot.                              *)
(***************************************************************************)
EXTENDS Integers, Sequences, FiniteSets, FiniteSetsExt, Functions

Roles(c) == 0 .. c.num_roles - 1

Used(signature) == {signature[o] : o \in DOMAIN signature}

(* What 500 draws may find: distinct masks within the bounds.  Where there *)
(* are too few the generator raises.                                       *)
SignatureMasks(c) ==
  LET asked   == IF c.max_sig_popcount # 0 THEN c.max_sig_popcount
                                           ELSE Max({1, c.num_roles \div 2})
      max_pop == Min({asked, c.num_roles})
      min_pop == Min({c.min_sig_popcount, max_pop})
  IN {mask \in SUBSET Roles(c) : Cardinality(mask) \in min_pop .. max_pop}

SignatureAssignments(c) ==
  IF Cardinality(SignatureMasks(c)) < c.num_signatures THEN {}
  ELSE {f \in [1 .. c.num_objects -> SignatureMasks(c)] :
          Cardinality(Used(f)) <= c.num_signatures}

(* The number the bits of a mask make.                                     *)
MaskNumber(mask) == SumFunctionOnSet([b \in Nat |-> 2 ^ b], mask)

(* The lists and slots bench_proof_planning_layout asks for.               *)
GridDims(c) ==
  LET n_lists == CHOOSE r \in 1 .. c.num_objects :
                   /\ r * r <= c.num_objects
                   /\ c.num_objects < (r + 1) * (r + 1)
  IN [n_lists |-> n_lists,
      slot_per_list |-> (c.num_objects + n_lists - 1) \div n_lists]

(* With both given, lists are doubled until everything has a place.        *)
PlacedDims(c, dims) ==
  LET doubled == {d \in 0 .. c.num_objects :
                    dims.n_lists * 2 ^ d * dims.slot_per_list >= c.num_objects}
  IN [dims EXCEPT !.n_lists = @ * 2 ^ Min(doubled)]

(* Mutant: the empty signature has no case of its own.                     *)
SignatureToLabel_Plain(mask) ==
  [tenant |-> "acme", level |-> 1, roles |-> mask]

(* The label of a signature, and of padding: who has one of its roles may  *)
(* see it, and a label without roles is open to every role.                *)
SignatureToLabel(mask) ==
  IF mask = {} THEN [tenant |-> "acme", level |-> 999, roles |-> {"__never__"}]
               ELSE [tenant |-> "acme", level |-> 1, roles |-> mask]

PaddingLabel == [tenant |-> "other", level |-> 99, roles |-> {}]

(* evaluate_policy for the user of a query role: tenant acme, clearance    *)
(* 100, that one role; what the labels share is left out.                  *)
UserForQueryRole(role, label) ==
  /\ label.tenant = "acme"
  /\ label.level <= 100
  /\ label.roles = {} \/ role \in label.roles

ObjectVisibleForRole(mask, role) == role \in mask

(* signature[o] is the mask of the object in slot o.                       *)
AccessSignatureGrid(c, dims, signature, role) ==
  [i \in 1 .. dims.n_lists * dims.slot_per_list |->
     LET valid == i <= c.num_objects
         label == IF valid THEN SignatureToLabel(signature[i]) ELSE PaddingLabel
     IN [list |-> (i - 1) \div dims.slot_per_list,
         slot |-> (i - 1) % dims.slot_per_list, class |-> 0,
         valid |-> valid, visible |-> UserForQueryRole(role, label),
         distance |-> i]]

(***************************************************************************)
(* Layouts.                                                                *)
(***************************************************************************)

(* Signatures that occur, in the order of their numbers, k to a region.    *)
MergedRegion(signature, merged_k, mask) ==
  Cardinality({m \in Used(signature) : MaskNumber(m) < MaskNumber(mask)})
    \div merged_k

(* The key of slot i of grid g in a layout.                                *)
LayoutKey(layout, merged_k, signature, g, i) ==
  CASE layout = "global" -> <<"global", 0>>
    [] layout # "global" /\ ~ g[i].valid -> <<"invalid-padding", 0>>
    [] layout = "acl_signature" /\ g[i].valid -> <<"sig", MaskNumber(signature[i])>>
    [] layout = "merged_k" /\ g[i].valid ->
         <<"merged", MergedRegion(signature, merged_k, signature[i])>>
    [] layout = "oracle_authorized_view" /\ g[i].valid ->
         <<"oracle", IF g[i].visible THEN 1 ELSE 0>>

LayoutGroups(layout, merged_k, signature, g) ==
  LET key(i) == LayoutKey(layout, merged_k, signature, g, i)
  IN [k \in {key(i) : i \in DOMAIN g} |-> {i \in DOMAIN g : key(i) = k}]

(* Storage amplification, as a multiple of 1 / (50 * num_objects).         *)
EstimateSaCommitment(layout, c, regions, memberships) ==
  LET n == c.num_objects
      base == 50 * n
  IN CASE layout = "global" -> base + n
       [] layout = "acl_signature" -> base + 200 * c.num_signatures + 1200 * regions
       [] layout = "merged_k" -> base + 1200 * regions
       [] layout = "oracle_authorized_view" ->
            base + 50 * Max({0, memberships - n}) + 400 * c.num_roles
=============================================================================
