--------------------------- MODULE MCAclClasses ----------------------------
(* Three slots: object 0 or padding, object 1, object 2 or padding, with   *)
(* labels that differ in each field from one that the first user may see.  *)
EXTENDS AclClasses, TLC

MCTenantId == "acme" :> 1 @@ "other-tenant" :> 2 @@ "other" :> 2

Plain == [tenant |-> "acme", project |-> 2, level |-> 1, state |-> "active", epoch |-> 1, roles |-> {}]

Others ==
  {[Plain EXCEPT !.tenant = "other-tenant"], [Plain EXCEPT !.level = 2],
   [Plain EXCEPT !.project = 3], [Plain EXCEPT !.state = "inactive"],
   [Plain EXCEPT !.epoch = 0], [Plain EXCEPT !.epoch = 1 + Radix]}

Special ==
  {[Plain EXCEPT !.roles = {"admin"}], [Plain EXCEPT !.tenant = "other"],
   [Plain EXCEPT !.tenant = "unknown"]}

Object(c, l) == [valid |-> 1, cid |-> c, label |-> l]
Padding(l)   == [valid |-> 0, cid |-> 0, label |-> l]

(* The label of padding is that of object 0, the default without one.      *)
Hidden == [Plain EXCEPT !.level = 2]

MCGrids ==
  {<<Object(0, l), Object(1, m), Padding(l)>> :
     l \in {Plain, Hidden}, m \in Others \cup Special \cup {Plain}}
  \cup {<<Padding(Plain), Object(1, m), Object(2, l)>> :
     l \in {Plain, Hidden}, m \in Others \cup {Plain}}
  \cup {<<Padding(Plain), Object(1, m), Padding(Plain)>> : m \in {Plain, Hidden}}
  \cup {<<Object(0, Plain), Object(1, Hidden), Object(2, Plain)>>}

User(t, ps, c, e) == [tenant |-> t, projects |-> ps, clearance |-> c, roles |-> {"analyst"}, epoch |-> e]

MCUsers ==
  {User("acme", {2}, 1, 1), User("acme", {2, 3}, 2, 1), User("acme", {2}, 1, 2),
   User("acme", {1, 2, 3}, 1, 1), User("other", {2}, 1, 1), User("other-tenant", {2}, 1, 1)}
=============================================================================
