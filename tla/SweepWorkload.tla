---------------------------- MODULE SweepWorkload ----------------------------
(***************************************************************************)
(* The synthetic workloads of the cost-model sweep: which of the valid     *)
(* slots 0 .. n_valid - 1 a user may see, when n_vis of them shall be      *)
(* visible and lists or blocks shall be more or less pure.                 *)
(*                                                                         *)
(* A case w is [n_lists, slot_per_list, n_valid, n_vis, grouping,          *)
(* block_size, mode, locality].  Localities are quarters, 0 to 4, on which *)
(* floating point is exact; the steps between spread positions are taken   *)
(* as the fractions they stand for.  Units are kept as intervals of slots. *)
(***************************************************************************)
EXTENDS Integers, Sequences, FiniteSets, FiniteSetsExt, SequencesExt

Quarters == 4

(* int(round(a / b)): halves go to the even neighbour.                     *)
RoundHalfEven(a, b) ==
  LET q == a \div b
      r == 2 * (a % b)
  IN IF r > b \/ (r = b /\ q % 2 = 1) THEN q + 1 ELSE q

(* The positions from .. to, counted from 0, of the slots of one unit.     *)
ClusterUnits(w) ==
  LET size == IF w.grouping = "fixed_block" THEN w.block_size
                                            ELSE w.slot_per_list
      ends(u) == Min({u * size, w.n_valid})
  IN [u \in 1 .. (w.n_valid + size - 1) \div size |->
        [from |-> (u - 1) * size, size |-> ends(u) - (u - 1) * size]]

Cap(units, u) == units[u].size
Before(units, u) == units[u].from

(***************************************************************************)
(* How many slots of each unit are visible.                                *)
(***************************************************************************)

UnitVisibleCountsClustered(units, n_vis) ==
  [u \in DOMAIN units |->
     Max({0, Min({Cap(units, u), n_vis - Before(units, u)})})]

(* What steps 0 .. k - 1 make of x, one after the other.                   *)
Iterated(x, step, k) ==
  LET after[j \in 0 .. k] == IF j = 0 THEN x ELSE step[j - 1][after[j - 1]]
  IN after[k]

(* The turn goes to the next unit, round robin, that still has room.       *)
Deal(units, d) ==
  LET n == Len(units)
      distance(u) == (u + n - d.turn) % n
      roomy == {u \in 1 .. n : d.counts[u] < Cap(units, u)}
      next  == CHOOSE u \in roomy : \A v \in roomy : distance(u) <= distance(v)
  IN [counts |-> [d.counts EXCEPT ![next] = @ + 1], turn |-> (next % n) + 1]

UnitVisibleCountsSpread(units, n_vis) ==
  LET U == DOMAIN units
      deals == [counts : [U -> 0 .. n_vis], turn : U]
  IN Iterated([counts |-> [u \in U |-> 0], turn |-> 1],
              [j \in 0 .. n_vis - 1 |-> [d \in deals |-> Deal(units, d)]], n_vis).counts

(* What sorting by descending key puts before u: equal keys keep their     *)
(* order.                                                                  *)
Ahead(key, u) == {v \in DOMAIN key : key[v] > key[u] \/ (key[v] = key[u] /\ v < u)}

(* Everyone takes up to its key of the total, those with most first.       *)
Shares(key, total) ==
  [u \in DOMAIN key |->
     Max({0, Min({key[u], total - SumFunctionOnSet(key, Ahead(key, u))})})]

(* Counts are cut to what fits, and what is missing goes where most room   *)
(* is; what is too much is taken from the fullest units.                   *)
AdjustUnitCounts(counts, units, n_vis) ==
  LET U == DOMAIN units
      clamped == [u \in U |-> Max({0, Min({counts[u], Cap(units, u)})})]
      room    == [u \in U |-> Cap(units, u) - clamped[u]]
      delta   == n_vis - SumFunctionOnSet(clamped, U)
  IN [u \in U |-> clamped[u] + IF delta > 0 THEN Shares(room, delta)[u]
                                            ELSE - Shares(clamped, -delta)[u]]

(* What rounding down leaves is dealt out, the largest fractions first.    *)
UnitVisibleCountsLocality(units, n_vis, locality) ==
  IF locality = Quarters THEN UnitVisibleCountsClustered(units, n_vis)
  ELSE IF locality = 0 THEN UnitVisibleCountsSpread(units, n_vis)
  ELSE LET U == DOMAIN units
           clustered == UnitVisibleCountsClustered(units, n_vis)
           spread    == UnitVisibleCountsSpread(units, n_vis)
           raw == [u \in U |-> locality * clustered[u]
                                 + (Quarters - locality) * spread[u]]
           floors    == [u \in U |-> raw[u] \div Quarters]
           fractions == [u \in U |-> raw[u] % Quarters]
           remainder == n_vis - SumFunctionOnSet(floors, U)
           extra(u) == Cardinality({j \in 0 .. remainder - 1 :
                         j % Len(units) = Cardinality(Ahead(fractions, u))})
       IN AdjustUnitCounts([u \in U |-> floors[u] + extra(u)], units, n_vis)

(***************************************************************************)
(* Which slots of a unit of m slots they are.                              *)
(***************************************************************************)

(* The first c slots of S, and the slot of S that has j before it.         *)
First(c, S) == {i \in S : Cardinality({h \in S : h < i}) < c}
Nth(S, j)   == CHOOSE i \in S : Cardinality({h \in S : h < i}) = j

(* k different positions, each chosen beside those used before.            *)
Picked(m, k, choice(_, _)) ==
  Iterated({}, [j \in 0 .. k - 1 |-> [used \in SUBSET (0 .. m - 1) |->
                  used \cup {choice(used, j)}]], k)

SpreadIndices(m, k) ==
  IF k = 0 THEN {}
  ELSE IF k >= m THEN 0 .. m - 1
  ELSE IF k = 1 THEN {m \div 2}
  ELSE LET choice(used, j) ==
             LET pos == RoundHalfEven(j * (m - 1), k - 1)
                 up  == pos .. m - 1 \ used
             IN IF up # {} THEN Min(up) ELSE Max(0 .. m - 1 \ used)
       IN Picked(m, k, choice)

(* Where position j is wanted: between the j-th and the j-th spread one.   *)
Wish(m, k, locality, j) ==
  RoundHalfEven(locality * j + (Quarters - locality) * Nth(SpreadIndices(m, k), j),
                Quarters)

(* Mutant: a position that is taken is taken again.                        *)
UnitVisiblePositions_Collide(m, k, locality) ==
  IF k >= m THEN 0 .. m - 1
  ELSE IF locality = Quarters THEN 0 .. k - 1
  ELSE IF locality = 0 THEN SpreadIndices(m, k)
  ELSE {Wish(m, k, locality, j) : j \in 0 .. k - 1}

UnitVisiblePositions(m, k, locality) ==
  IF k >= m THEN 0 .. m - 1
  ELSE IF locality = Quarters THEN 0 .. k - 1
  ELSE IF locality = 0 THEN SpreadIndices(m, k)
  ELSE LET choice(used, j) ==
             LET pos == Wish(m, k, locality, j)
             IN (pos + Min({d \in 0 .. m - 1 : (pos + d) % m \notin used})) % m
       IN Picked(m, k, choice)

AssignVisibilityLocality(w) ==
  LET units  == ClusterUnits(w)
      counts == UnitVisibleCountsLocality(units, w.n_vis, w.locality)
      positions(u) == UnitVisiblePositions(units[u].size, counts[u], w.locality)
  IN UNION {{units[u].from + p : p \in positions(u)} : u \in DOMAIN units}

(***************************************************************************)
(* The older purity modes.                                                 *)
(***************************************************************************)

(* Every period-th slot until there are enough, then the first free ones.  *)
MixedBits(w) ==
  LET period == Max({1, w.n_valid \div w.n_vis})
      regular == {i \in 0 .. w.n_valid - 1 :
                    i % period = 0 /\ i \div period < w.n_vis}
  IN regular \cup First(w.n_vis - Cardinality(regular), 0 .. w.n_valid - 1 \ regular)

(* Every other slot of every unit; then the last visible ones are hidden   *)
(* again, or the first hidden ones shown, until the number is right.       *)
AdversarialBits(w) ==
  LET units == ClusterUnits(w)
      odd == {i \in 0 .. w.n_valid - 1 :
                \E u \in DOMAIN units :
                  /\ i \in units[u].from .. units[u].from + units[u].size - 1
                  /\ (i - units[u].from) % 2 = 0}
  IN First(w.n_vis, odd) \cup First(w.n_vis - Cardinality(odd), 0 .. w.n_valid - 1 \ odd)

AssignVisibilityBits(w) ==
  CASE w.mode = "clustered" -> 0 .. w.n_vis - 1
    [] w.mode # "clustered" /\ w.n_vis \in {0, w.n_valid} -> 0 .. w.n_vis - 1
    [] w.mode = "mixed" /\ w.n_vis \notin {0, w.n_valid} -> MixedBits(w)
    [] w.mode = "adversarial_mixed" /\ w.n_vis \notin {0, w.n_valid} ->
         AdversarialBits(w)

(* Beta-distributed regions can come out any way, unless nothing or        *)
(* everything shall be visible.                                            *)
AssignVisibilityBeta(w) ==
  IF w.n_vis \in {0, w.n_valid} THEN {0 .. w.n_vis - 1}
                                ELSE SUBSET (0 .. w.n_valid - 1)

Visibilities(w) ==
  CASE w.mode = "beta"     -> AssignVisibilityBeta(w)
    [] w.mode = "locality" -> {AssignVisibilityLocality(w)}
    [] w.mode \notin {"beta", "locality"} -> {AssignVisibilityBits(w)}

(* The grid in the order of lists; valid slots first, a class per list.    *)
BuildSyntheticCandidates(w, visible) ==
  [i \in 1 .. w.n_lists * w.slot_per_list |->
     LET l == (i - 1) \div w.slot_per_list
     IN [list |-> l, slot |-> (i - 1) % w.slot_per_list, class |-> l,
         valid |-> i <= w.n_valid, visible |-> i - 1 \in visible,
         distance |-> i]]
=============================================================================
