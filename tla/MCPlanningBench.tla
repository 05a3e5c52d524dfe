-------------------------- MODULE MCPlanningBench --------------------------
(* Free grids are of one list of three slots, or of two lists of two, with *)
(* a grid that lost a slot and one with a slot twice.                      *)
EXTENDS PlanningBench

Candidate(l, s, v, d) ==
  [list |-> l, slot |-> s, class |-> (l + s + d) % 2, valid |-> v # "padding",
   visible |-> v = "visible", distance |-> d]

Verdicts == {"padding", "visible", "hidden"}

MCFreeGrids ==
  {[i \in 1 .. 3 |-> Candidate(0, i - 1, v[i], d[i])] :
     v \in [1 .. 3 -> Verdicts], d \in [1 .. 3 -> {1, 2}]}
  \cup {[i \in 1 .. 4 |-> Candidate((i - 1) \div 2, (i - 1) % 2, v[i], i)] :
     v \in [1 .. 4 -> Verdicts]}
  \cup {<<>>,
        <<Candidate(0, 0, "visible", 1), Candidate(0, 0, "hidden", 2),
          Candidate(0, 1, "visible", 3)>>,
        <<Candidate(0, 0, "visible", 1), Candidate(1, 0, "hidden", 2),
          Candidate(1, 1, "visible", 3), Candidate(1, 2, "visible", 1)>>}

Request(strategy, block_size, bound, n_probe, slots_per_list) ==
  [strategy |-> strategy, block_size |-> block_size, bound |-> bound,
   n_probe |-> n_probe, slots_per_list |-> slots_per_list]

MCFreeRequests ==
  {Request("acl_class", 16, b, 0, 0) : b \in {{0, 1}, {0}}}
  \cup {Request("ivf_list", 16, {}, p, 2) : p \in {0, 2}}
  \cup {Request("unknown", 16, {}, 0, 0)}
  \cup {Request("fixed_block", b, {}, p, 3) : b \in 0 .. 3, p \in {0, 1}}

Shapes == {<<1, 5>>, <<2, 2>>, <<3, 2>>, <<2, 3>>}
MCSweeps ==
  UNION {UNION {{[n_lists |-> s[1], slot_per_list |-> s[2], n_valid |-> n,
                  n_vis |-> v, grouping |-> g[1], block_size |-> g[2],
                  mode |-> m[1], locality |-> m[2]] :
           v \in 0 .. n,
           g \in {<<"ivf_list", 16>>, <<"acl_class", 16>>, <<"fixed_block", 2>>,
                  <<"fixed_block", 4>>},
           m \in {<<"clustered", 0>>, <<"mixed", 0>>, <<"adversarial_mixed", 0>>,
                  <<"beta", 1>>} \cup ({"locality"} \X (0 .. 4))} :
         n \in {s[1] * s[2], s[1] * s[2] - 1}} : s \in Shapes}

SignatureCase(objects, roles, signatures, min, max) ==
  [num_objects |-> objects, num_roles |-> roles, num_signatures |-> signatures,
   min_sig_popcount |-> min, max_sig_popcount |-> max]

MCSignatureCases ==
  {SignatureCase(3, 3, 3, 1, 3), SignatureCase(5, 2, 3, 0, 2),
   SignatureCase(4, 4, 2, 1, 0)}
=============================================================================
