----------------------------- MODULE AuthPolicy -----------------------------
(***************************************************************************)
(* The authorization predicate P(user, label, checkpoint), three times:    *)
(* as the plaintext reference decides it, as the circuit constrains it and *)
(* as the prover computes it for the witness, with the conversions in      *)
(* between.  The comparison of levels is exact (CompGadget).               *)
(***************************************************************************)
EXTENDS Integers, FiniteSets

CONSTANTS TenantId,    \* ids of the known tenant names, aliases included
          ZkTenants,   \* the names the encoding for the circuit knows
          ZkProjects,  \* the projects it knows, in the order of their names
          MaxProjects  \* MAX_PROJECTS, the places for projects in the circuit

ASSUME RegistryAssumption ==
  /\ ZkTenants \subseteq DOMAIN TenantId
  /\ \A t \in DOMAIN TenantId : TenantId[t] \in Nat \ {0}
  /\ \A t, u \in ZkTenants : TenantId[t] = TenantId[u] => t = u
  /\ \A t \in DOMAIN TenantId : \E u \in ZkTenants : TenantId[t] = TenantId[u]
  /\ ZkProjects \subseteq Nat \ {0} /\ MaxProjects \in Nat \ {0}

(* TENANT_ID_TO_NAME                                                       *)
TenantName(id) == CHOOSE t \in ZkTenants : TenantId[t] = id

(* evaluate_policy                                                         *)
Visible(user, label, epoch) ==
  /\ label.tenant = user.tenant
  /\ label.project \in user.projects
  /\ label.level <= user.clearance
  /\ label.state = "active"
  /\ label.epoch \in {0, epoch}
  /\ label.roles = {} \/ label.roles \cap user.roles # {}

(* sorted(user.projects)[:ZK_MAX_PROJECTS]; the other places are not valid *)
FirstProjects(user) ==
  {p \in user.projects : Cardinality({q \in user.projects : q < p}) < MaxProjects}

Encodable(user) == user.tenant \in ZkTenants /\ FirstProjects(user) \subseteq ZkProjects

EncodeUser(user) ==
  [tenant |-> TenantId[user.tenant], projects |-> FirstProjects(user),
   clearance |-> user.clearance, epoch |-> user.epoch]

StateId(state) == IF state = "active" THEN 1 ELSE 0

(* Mutant: the epoch of the label is not constrained.                      *)
PolicyGadget_AnyEpoch(u, l, epoch) ==
  /\ u.tenant = l.tenant /\ l.project \in u.projects
  /\ l.level <= u.clearance /\ l.state = 1 /\ u.epoch = epoch

(* auth_policy_visibility_gadget, on encoded users and labels              *)
PolicyGadget(u, l, epoch) ==
  /\ u.tenant = l.tenant /\ l.project \in u.projects
  /\ l.level <= u.clearance /\ l.state = 1
  /\ u.epoch = epoch /\ l.epoch = epoch

(* Mutant: the witness lets labels of epoch 0 pass, as the reference does. *)
PolicyWitness_EpochZero(u, l, epoch) ==
  ~ \/ u.tenant # l.tenant \/ l.project \notin u.projects
    \/ u.clearance < l.level \/ l.state # 1
    \/ u.epoch # epoch \/ l.epoch \notin {0, epoch}

(* policy_visibility_witness: the early returns                            *)
PolicyWitness(u, l, epoch) ==
  ~ \/ u.tenant # l.tenant \/ l.project \notin u.projects
    \/ u.clearance < l.level \/ l.state # 1
    \/ u.epoch # epoch \/ l.epoch # epoch
=============================================================================
