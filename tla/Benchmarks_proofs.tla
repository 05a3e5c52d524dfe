--------------------------- MODULE Benchmarks_proofs ---------------------------
(***************************************************************************)
(* Proofs about the measuring programs.  Each program of Benchmarks runs   *)
(* by itself, so what holds of one while it runs is an invariant of all of *)
(* them.                                                                   *)
(***************************************************************************)
EXTENDS Benchmarks, TLAPS, FiniteSets, FiniteSetTheorems, FunctionTheorems,
        WellFoundedInduction

-----------------------------------------------------------------------------
(* The benchmark scripts that keep their measurements in a file.           *)
LEMMA Division ==
  ASSUME NEW a \in Nat, NEW b \in Nat \ {0}
  PROVE  /\ a \div b \in Nat /\ a % b \in 0 .. b - 1
         /\ a = b * (a \div b) + (a % b)
OBVIOUS

LEMMA Divides ==
  ASSUME NEW a \in Nat \ {0}, NEW b \in Nat \ {0}, a % b = 0
  PROVE  a \div b \in Nat \ {0} /\ b * (a \div b) = a /\ (a \div b) * b = a
<1> DEFINE q == a \div b
<1>1. q \in Nat /\ a = b * q + (a % b)
  BY Division
<1> HIDE DEF q
<1>2. a = b * q
  BY <1>1
<1>3. q # 0
  BY <1>1, <1>2
<1>4. b * q = q * b
  BY <1>1
<1> QED BY <1>1, <1>2, <1>3, <1>4 DEF q

(* Subsets are counted by powers of two, which thus are numbers, not zero. *)
LEMMA PowerIsPositive ==
  ASSUME NEW d \in Nat PROVE 2 ^ d \in Nat \ {0}
<1> DEFINE S == 1 .. d
<1>1. IsFiniteSet(S) /\ Cardinality(S) = d
  BY FS_Interval
<1> HIDE DEF S
<1>2. IsFiniteSet(SUBSET S) /\ Cardinality(SUBSET S) = 2 ^ d
  BY <1>1, FS_SUBSET
<1>3. Cardinality(SUBSET S) \in Nat /\ Cardinality(SUBSET S) # 0
  <2>1. SUBSET S # {}
    OBVIOUS
  <2> QED BY <1>2, <2>1, FS_CardinalityType, FS_EmptySet
<1> QED BY <1>2, <1>3

(* A set listed in any order has its members, and so many.                 *)
LEMMA SetIsListed ==
  ASSUME NEW S, IsFiniteSet(S)
  PROVE  Caches!SetToSeq(S) \in Seq(S)
<1>1. Cardinality(S) \in Nat /\ ExistsBijection(1 .. Cardinality(S), S)
  BY FS_CardinalityType
<1>2. PICK f \in Bijection(1 .. Cardinality(S), S) : TRUE
  BY <1>1, Fun_ExistsBij
<1>3. f \in [1 .. Cardinality(S) -> S] /\ Caches!IsInjective(f)
  BY <1>2 DEF Bijection, Injection, Surjection, IsInjective, Caches!IsInjective
<1>4. Caches!Cardinality(S) = Cardinality(S)
  BY DEF Caches!Cardinality, Cardinality, Caches!IsFiniteSet, IsFiniteSet
<1>5. Caches!SetToSeq(S) \in [1 .. Cardinality(S) -> S]
  BY <1>3, <1>4 DEF Caches!SetToSeq
<1> QED BY <1>1, <1>5

(* What a process with these arguments measures, file by file.             *)
Listed(s, a) ==
  CASE s.script = "optimal_config"     -> Caches!GenerateNListCandidates(s)
    [] s.script = "optimal_mem_config" -> Caches!GenerateLog2KCandidates(s)
    [] OTHER                           -> a.keys

LEMMA KeysAreListed ==
  /\ Caches!Keys = Listed(setup, args) /\ Caches!Key = Listed(setup, args)[at]
  /\ Caches!IsLast <=> at = Len(Listed(setup, args))
<1>1. Caches!Keys = Listed(setup, args)
  BY DEF Listed, Caches!Keys, Caches!Script
<1> QED BY <1>1 DEF Caches!Key, Caches!IsLast

LEMMA NListsAreListed ==
  ASSUME Caches!SetupsAssumption, NEW s \in Setups, s.script = "optimal_config"
  PROVE  LET q == Caches!GenerateNListCandidates(s)
         IN /\ q \in Seq(Nat)
            /\ \A i \in 1 .. Len(q) :
                 /\ q[i] \in Nat \ {0} /\ s.N % q[i] = 0 /\ s.sel % (s.N \div q[i]) = 0
                 /\ s.sel <= s.N
<1> DEFINE q == Caches!GenerateNListCandidates(s)
           n(i) == (s.N \div s.sel) * 2 ^ (i - 1)
           fits == /\ s.sel <= s.N /\ s.N % s.sel = 0
                   /\ \A i \in 1 .. s.c : /\ n(i) <= s.N /\ s.N % n(i) = 0
                                          /\ s.sel % (s.N \div n(i)) = 0
<1>1. s.N \in Nat \ {0} /\ s.sel \in Nat \ {0} /\ s.c \in Nat
  BY DEF Caches!SetupsAssumption
<1>2. q = IF fits THEN [i \in 1 .. s.c |-> n(i)] ELSE <<>>
  BY Zenon DEF Caches!GenerateNListCandidates
<1> DEFINE Good(x) ==
      /\ x \in Seq(Nat)
      /\ \A i \in 1 .. Len(x) :
           /\ x[i] \in Nat \ {0} /\ s.N % x[i] = 0 /\ s.sel % (s.N \div x[i]) = 0
           /\ s.sel <= s.N
<1>3. ASSUME ~ fits PROVE Good(q)
  <2>1. q = <<>>
    BY <1>2, <1>3
  <2> HIDE DEF q
  <2> QED BY <2>1
<1>4. ASSUME fits PROVE Good(q)
  <2>1. s.N \div s.sel \in Nat \ {0}
    BY <1>1, <1>4, Divides
  <2>2. ASSUME NEW i \in 1 .. s.c PROVE n(i) \in Nat \ {0}
    <3> DEFINE p == 2 ^ (i - 1)
               b == s.N \div s.sel
    <3>1. p \in Nat \ {0}
      BY <1>1, PowerIsPositive
    <3>2. b \in Nat \ {0}
      BY <2>1
    <3> HIDE DEF p, b
    <3>3. b * p \in Nat \ {0}
      BY <3>1, <3>2
    <3> QED BY <3>3 DEF p, b
  <2>3. q = [i \in 1 .. s.c |-> n(i)]
    BY <1>2, <1>4
  <2>4. s.sel <= s.N /\ \A i \in 1 .. s.c : /\ s.N % n(i) = 0
                                          /\ s.sel % (s.N \div n(i)) = 0
    BY <1>4
  <2> HIDE DEF q, n, fits
  <2>5. Len(q) = s.c
    BY <1>1, <2>3
  <2>6. \A i \in 1 .. s.c : q[i] = n(i)
    BY <2>3
  <2>8. q \in Seq(Nat)
    BY <1>1, <2>2, <2>3
  <2>7. ASSUME NEW i \in 1 .. Len(q)
        PROVE  q[i] \in Nat \ {0} /\ s.N % q[i] = 0 /\ s.sel % (s.N \div q[i]) = 0
    <3>1. i \in 1 .. s.c /\ q[i] = n(i)
      BY <2>5, <2>6
    <3> QED BY <2>2, <2>4, <3>1
  <2> QED BY <2>4, <2>7, <2>8
<1>5. Good(q)
  BY <1>3, <1>4
<1> QED BY <1>5

LEMMA Log2KsAreListed ==
  ASSUME Caches!SetupsAssumption, NEW s \in Setups, s.script = "optimal_mem_config"
  PROVE  LET q == Caches!GenerateLog2KCandidates(s)
         IN /\ q \in Seq(Nat)
            /\ \A i \in 1 .. Len(q) :
                 q[i] \in Nat \ {0} /\ Caches!HasM(s, q[i]) /\ s.N % s.n_list = 0
<1> DEFINE q == Caches!GenerateLog2KCandidates(s)
           fit == {l \in 1 .. s.c : Caches!HasM(s, l)}
           off == s.N % s.n_list # 0 \/ s.n_probe > s.n_list
<1>1. s.c \in Nat
  BY DEF Caches!SetupsAssumption
<1>2. IsFiniteSet(fit)
  <2>1. IsFiniteSet(1 .. s.c)
    BY <1>1, FS_Interval
  <2> QED BY <2>1, FS_Subset
<1>3. q = IF off THEN <<>> ELSE Caches!SetToSeq(fit)
  BY Zenon DEF Caches!GenerateLog2KCandidates
<1>4. \A l \in fit : l \in Nat \ {0} /\ Caches!HasM(s, l)
  BY <1>1
<1>5. ~ off => s.N % s.n_list = 0
  OBVIOUS
<1>6. Caches!SetToSeq(fit) \in Seq(fit)
  BY <1>2, SetIsListed
<1> DEFINE Good(x) ==
      /\ x \in Seq(Nat)
      /\ \A i \in 1 .. Len(x) :
           x[i] \in Nat \ {0} /\ Caches!HasM(s, x[i]) /\ s.N % s.n_list = 0
<1> HIDE DEF q, fit, off
<1>7. ASSUME off PROVE Good(q)
  BY <1>3, <1>7
<1>8. ASSUME ~ off PROVE Good(q)
  <2>1. q = Caches!SetToSeq(fit)
    BY <1>3, <1>8
  <2> QED BY <1>4, <1>5, <1>6, <1>8, <2>1
<1>9. Good(q)
  BY <1>7, <1>8
<1> QED BY <1>9 DEF q

Grid(s, a)   == {Listed(s, a)[i] : i \in 1 .. Len(Listed(s, a))}
Passes(s, k) == s.script = "gate_only" => Caches!ValidateConfig(s, k)
FileOf(s, k) == IF s.script \in Caches!TopUps THEN k ELSE "all"

LEMMA ListedIsFinite ==
  ASSUME Caches!SetupsAssumption, NEW s \in Setups, NEW a \in Caches!Arguments(s)
  PROVE  /\ Listed(s, a) \in Seq(Grid(s, a))
         /\ \A k \in Grid(s, a) : FileOf(s, k) \in Caches!Files(s)
         /\ a.force \in BOOLEAN
         /\ s.script \in Caches!TopUps => a.runs \in Nat \ {0}
         /\ s.script \notin Caches!TopUps => a.runs = s.num_runs /\ a.runs \in Nat \ {0}
<1>1. a.keys \in s.grids /\ a.keys \in Seq(Caches!Range(a.keys))
  BY DEF Caches!Arguments, Caches!SetupsAssumption
<1>2. Listed(s, a) \in Seq(Grid(s, a))
  <2> DEFINE l == Listed(s, a)
  <2>1. \E S : l \in Seq(S)
    <3>1. CASE s.script = "optimal_config"
      <4>1. l \in Seq(Nat)
        BY <3>1, NListsAreListed DEF Listed
      <4> QED BY <4>1
    <3>2. CASE s.script = "optimal_mem_config"
      <4>1. l \in Seq(Nat)
        BY <3>2, Log2KsAreListed DEF Listed
      <4> QED BY <4>1
    <3>3. CASE s.script \notin {"optimal_config", "optimal_mem_config"}
      <4>1. l \in Seq(Caches!Range(a.keys))
        BY <1>1, <3>3 DEF Listed
      <4> QED BY <4>1
    <3> QED BY <3>1, <3>2, <3>3
  <2> HIDE DEF l
  <2>2. l \in Seq({l[i] : i \in 1 .. Len(l)})
    BY <2>1
  <2> QED BY <2>2 DEF l, Grid
<1>3. ASSUME NEW k \in Grid(s, a) PROVE FileOf(s, k) \in Caches!Files(s)
  <2>1. CASE s.script \in Caches!TopUps
    <3>1. Listed(s, a) = a.keys
      BY <2>1 DEF Listed, Caches!TopUps
    <3>2. PICK i \in 1 .. Len(a.keys) : k = a.keys[i]
      BY <1>3, <3>1 DEF Grid
    <3>3. k \in UNION {{g[j] : j \in 1 .. Len(g)} : g \in s.grids}
      BY <1>1, <3>2
    <3> QED BY <2>1, <3>3 DEF FileOf, Caches!Files
  <2>2. CASE s.script \notin Caches!TopUps
    BY <2>2 DEF FileOf, Caches!Files
  <2> QED BY <2>1, <2>2
<1>4. /\ a.force \in BOOLEAN
      /\ s.script \in Caches!TopUps => a.runs \in s.runs
      /\ s.script \notin Caches!TopUps => a.runs = s.num_runs
  BY DEF Caches!Arguments
<1> QED BY <1>2, <1>3, <1>4 DEF Caches!SetupsAssumption

(* A sweep measures the same whatever it is started with.                  *)
LEMMA SweepsAreFixed ==
  ASSUME Caches!SetupsAssumption, NEW s \in Setups, s.script \in Caches!Sweeps,
         NEW a \in Caches!Arguments(s), NEW b \in Caches!Arguments(s)
  PROVE  Grid(s, a) = Grid(s, b)
<1>1. a.keys = b.keys
  BY DEF Caches!Arguments, Caches!SetupsAssumption
<1> QED BY <1>1 DEF Grid, Listed

(* The configurations of one table are comparable.                         *)
LEMMA GridIsAlike ==
  ASSUME Caches!SetupsAssumption, setup \in Setups, args \in Caches!Arguments(setup),
         NEW key \in Grid(setup, args), Passes(setup, key)
  PROVE  Caches!ComparesLikeWithLike(key)
<1>1. PICK i \in 1 .. Len(Listed(setup, args)) : key = Listed(setup, args)[i]
  BY DEF Grid
<1>2. CASE Caches!Script = "optimal_config"
  <2>1. /\ setup.N \in Nat \ {0} /\ setup.sel \in Nat \ {0}
    BY <1>2 DEF Caches!SetupsAssumption, Caches!Script
  <2>2. /\ key \in Nat \ {0} /\ setup.N % key = 0
        /\ setup.sel % (setup.N \div key) = 0 /\ setup.sel <= setup.N
    BY <1>1, <1>2, NListsAreListed DEF Listed, Caches!Script
  <2> DEFINE n == setup.N \div key
             p == setup.sel \div n
  <2>3. n \in Nat \ {0} /\ key * n = setup.N
    BY <2>1, <2>2, Divides
  <2>4. p \in Nat \ {0} /\ p * n = setup.sel
    <3>1. setup.sel % n = 0
      BY <2>2
    <3> HIDE DEF n
    <3> QED BY <2>1, <2>3, <3>1, Divides
  <2>5. p <= key
    <3> HIDE DEF n, p
    <3>1. CASE key < p
      <4>1. key + 1 <= p
        BY <2>2, <2>4, <3>1
      <4>2. p * n >= (key + 1) * n
        BY <2>2, <2>3, <2>4, <4>1
      <4>3. (key + 1) * n = key * n + n
        BY <2>2, <2>3
      <4> QED BY <2>1, <2>2, <2>3, <2>4, <4>2, <4>3
    <3>2. CASE ~ (key < p)
      BY <2>2, <2>4, <3>2
    <3> QED BY <3>1, <3>2
  <2>6. LET c == Caches!Circuit(setup, key)
        IN c.lists = key /\ c.n = n /\ c.probes = p
    BY <1>2 DEF Caches!Circuit, Caches!ComputeNAndNProbe, Caches!Script
  <2> HIDE DEF n, p
  <2> QED BY <1>2, <2>3, <2>4, <2>5, <2>6 DEF Caches!ComparesLikeWithLike
<1>3. CASE Caches!Script = "optimal_mem_config"
  <2>1. /\ setup.N \in Nat \ {0} /\ setup.D \in Nat \ {0} /\ setup.n_list \in Nat \ {0}
        /\ setup.mem_bits \in Nat \ {0}
    BY <1>3 DEF Caches!SetupsAssumption, Caches!Script
  <2>2. key \in Nat \ {0} /\ Caches!HasM(setup, key) /\ setup.N % setup.n_list = 0
    BY <1>1, <1>3, Log2KsAreListed DEF Listed, Caches!Script
  <2> DEFINE M == setup.mem_bits \div key
             d == setup.D \div M
             n == setup.N \div setup.n_list
  <2>3. M \in Nat \ {0} /\ M * key = setup.mem_bits
    BY <2>1, <2>2, Divides DEF Caches!HasM
  <2>4. d \in Nat \ {0} /\ M * d = setup.D
    <3>1. setup.D % M = 0
      BY <2>2 DEF Caches!HasM
    <3> HIDE DEF M
    <3> QED BY <2>1, <2>3, <3>1, Divides
  <2>5. n \in Nat \ {0} /\ setup.n_list * n = setup.N
    BY <2>1, <2>2, Divides
  <2>6. LET c == Caches!Circuit(setup, key)
        IN c.lists = setup.n_list /\ c.n = n /\ c.M = M /\ c.d = d
    BY <1>3 DEF Caches!Circuit, Caches!ComputeNAndSelectedCount, Caches!Script
  <2> HIDE DEF n, M, d
  <2> QED BY <1>3, <2>3, <2>4, <2>5, <2>6 DEF Caches!ComparesLikeWithLike
<1>4. CASE Caches!Script = "gate_only"
  <2>1. setup.D \in Nat \ {0} /\ key[1] \in Nat \ {0} /\ key[2] \in Nat \ {0}
    <3>1. Listed(setup, args) = args.keys /\ args.keys \in setup.grids
      BY <1>4 DEF Listed, Caches!Script, Caches!Arguments
    <3>2. setup.D \in Nat \ {0} /\ args.keys[i] \in (Nat \ {0}) \X (Nat \ {0})
      BY <1>1, <1>4, <3>1 DEF Caches!SetupsAssumption, Caches!Script
    <3> QED BY <1>1, <3>1, <3>2
  <2>2. key[1] % key[2] = 0 /\ key[1] \div key[2] <= setup.D
    BY <1>4 DEF Passes, Caches!ValidateConfig, Caches!Script
  <2> DEFINE M == key[1] \div key[2]
             d == Caches!CeilDiv(setup.D, M)
             c == Caches!Circuit(setup, key)
             K == 2 ^ key[2]
  <2>3. M \in Nat \ {0} /\ M * key[2] = key[1] /\ M <= setup.D
    BY <2>1, <2>2, Divides
  <2>4. d \in Nat /\ M * (d - 1) < setup.D /\ setup.D <= M * d
    <3> HIDE DEF M
    <3> DEFINE a == setup.D + M - 1
               q == a \div M
    <3>1. a \in Nat
      BY <2>1, <2>3
    <3>2. q \in Nat /\ a % M \in 0 .. M - 1 /\ a = M * q + (a % M)
      BY <2>3, <3>1, Division
    <3> HIDE DEF q
    <3>3. M * (q - 1) = M * q - M
      BY <2>3, <3>2
    <3>4. M * (q - 1) < setup.D /\ setup.D <= M * q
      <4> DEFINE r == a % M
                 p == M * q
                 o == M * (q - 1)
      <4>1. r \in 0 .. M - 1 /\ a = p + r /\ p \in Nat /\ o = p - M
        BY <2>3, <3>2, <3>3
      <4>2. setup.D = a - M + 1
        BY <2>1, <2>3
      <4> HIDE DEF r, p, o, a
      <4>3. o < setup.D /\ setup.D <= p
        BY <2>1, <2>3, <3>1, <4>1, <4>2
      <4> QED BY <4>3 DEF o, p
    <3> QED BY <3>2, <3>4 DEF q, Caches!CeilDiv
  <2>5. c = [lists |-> setup.n_list, n |-> setup.n, probes |-> setup.n_probe,
             M |-> M, K |-> K, d |-> d]
    BY <1>4 DEF Caches!Circuit, Caches!Script
  <2>6. Caches!BuildConfigB(setup, key[1], key[2]) = {c}
    BY <2>2, <2>5 DEF Caches!BuildConfigB, Caches!ValidateConfig
  <2>7. Caches!BuildConfigM(setup, M, K) = {c}
    <3>1. ~ (M > setup.D)
      BY <2>1, <2>3
    <3> HIDE DEF M, K, c
    <3> QED BY <2>5, <3>1 DEF Caches!BuildConfigM
  <2> HIDE DEF M, d, c, K
  <2>8. c.M = M /\ c.K = K /\ c.d = d
    BY <2>5
  <2>9. /\ c.M * key[2] = key[1] /\ c.M * (c.d - 1) < setup.D /\ setup.D <= c.M * c.d
        /\ Caches!BuildConfigB(setup, key[1], key[2]) = {c}
        /\ Caches!BuildConfigM(setup, c.M, c.K) = {c}
    BY <2>3, <2>4, <2>6, <2>7, <2>8
  <2> QED BY <1>4, <2>9 DEF c, Caches!ComparesLikeWithLike
<1>5. CASE Caches!Script \notin {"optimal_config", "optimal_mem_config", "gate_only"}
  BY <1>5 DEF Caches!ComparesLikeWithLike
<1> QED BY <1>2, <1>3, <1>4, <1>5

(***************************************************************************)
(* What is in a file that can be read, whoever wrote it: of a sweep all    *)
(* measurements of all configurations, made by one process; of gate_only   *)
(* no more than one count of each circuit there is.                        *)
(***************************************************************************)
Holding == {"measure", "open", "open_last", "close", "close_last", "report"}

Counted(e) == \A k \in DOMAIN e : e[k] \in [old : Nat, new : Nat]

Count(e, k) == IF k \in DOMAIN e THEN Caches!Total(e[k]) ELSE 0

FullSweep(s, e) ==
  /\ \A a \in Caches!Arguments(s) : DOMAIN e = Grid(s, a)
  /\ \A k \in DOMAIN e : Caches!Total(e[k]) = s.num_runs
  /\ \A j, k \in DOMAIN e : e[j].old = e[k].old

OneByOne(s, e) == \A k \in DOMAIN e : Passes(s, k) /\ Caches!Total(e[k]) <= s.num_runs

Stored(s, e) ==
  /\ Counted(e)
  /\ s.script \in Caches!Sweeps => FullSweep(s, e)
  /\ s.script = "gate_only" => OneByOne(s, e)

BType ==
  /\ setup \in Setups /\ at \in Nat
  /\ files = [f \in Caches!Files(setup) |-> files[f]]
  /\ \A f \in Caches!Files(setup) :
       /\ files[f] = [state   |-> files[f].state, entries |-> files[f].entries,
                       skipped |-> files[f].skipped]
       /\ files[f].state \in {"none", "torn", "whole"}
  /\ pc \in {"idle", "look", "load", "done", "killed", "failed", "rejected"} \cup Holding
  /\ pc # "idle" => args \in Caches!Arguments(setup)
  /\ pc \in Holding => at \in 1 .. Len(Listed(setup, args))
  /\ pc = "look" => Listed(setup, args) = <<>> \/ at \in 1 .. Len(Listed(setup, args))
  /\ pc = "load" => /\ setup.script = "topk" /\ at \in 1 .. Len(Listed(setup, args))
                    /\ files["all"].state # "none" /\ ~ args.force
  /\ pc \in {"open_last", "close_last", "report"} => setup.script \notin Caches!TopUps
  /\ pc \in {"open", "close"} => setup.script \notin Caches!Sweeps

FilesSound ==
  \A f \in Caches!Files(setup) :
    files[f].state = "whole" => Stored(setup, files[f].entries)

(* What a process holds while it measures.  A sweep has no measurements of *)
(* another process then.                                                   *)
HeldSound ==
  pc \in Holding =>
    /\ mem = [entries |-> mem.entries, skipped |-> mem.skipped]
    /\ Counted(mem.entries)
    /\ args.force => \A k \in DOMAIN mem.entries : mem.entries[k].old = 0
    /\ setup.script = "gate_only" => OneByOne(setup, mem.entries)
    /\ setup.script \in Caches!Sweeps /\ pc # "report" =>
         \A k \in DOMAIN mem.entries :
           /\ k \in Grid(setup, args) /\ mem.entries[k].old = 0
           /\ Caches!Total(mem.entries[k]) <= setup.num_runs

(* It is done with what the loop has passed ...                            *)
Enough(k) == Passes(setup, k) => Count(mem.entries, k) = setup.num_runs

PassedSound ==
  setup.script \notin Caches!TopUps =>
    /\ pc \in {"look", "load"} => at = 1
    /\ pc \in {"measure", "open", "close"} =>
         \A i \in 1 .. at - 1 : Enough(Listed(setup, args)[i])
    /\ pc \in {"open_last", "close_last", "report"} =>
         \A i \in 1 .. Len(Listed(setup, args)) : Enough(Listed(setup, args)[i])
    /\ pc = "report" =>
         /\ files["all"].state = "whole" /\ files["all"].entries = mem.entries
         /\ setup.script \in Caches!Sweeps => FullSweep(setup, mem.entries)

(* ... or has reported it, as it is on disk, one file at a time.           *)
Reported(k) ==
  /\ files[FileOf(setup, k)].state = "whole"
  /\ files[FileOf(setup, k)].entries[k] = reported[k]
  /\ IF setup.script \in Caches!TopUps THEN Caches!Total(reported[k]) >= args.runs
                                      ELSE Caches!Total(reported[k]) = args.runs
  /\ args.force => reported[k].old = 0

Here == Listed(setup, args)[at]

ToldSound ==
  setup.script \in Caches!TopUps =>
    /\ pc = "measure" /\ Here \in DOMAIN mem.entries /\ mem.entries[Here].new = 0 =>
         files[Here].state = "whole" /\ files[Here].entries = mem.entries
    /\ pc \in {"open", "close"} =>
         Here \in DOMAIN mem.entries /\ Caches!Total(mem.entries[Here]) >= args.runs
    /\ pc \in {"look", "measure", "open", "close"} =>
         /\ DOMAIN reported = {Listed(setup, args)[i] : i \in 1 .. at - 1}
         /\ \A k \in DOMAIN reported : (pc = "close" /\ k = Here) \/ Reported(k)

DoneSound ==
  pc = "done" =>
    /\ DOMAIN reported = {k \in Grid(setup, args) : Passes(setup, k)}
    /\ \A k \in DOMAIN reported : Reported(k)
    /\ setup.script \in Caches!Sweeps => \A j, k \in DOMAIN reported : reported[j].old = reported[k].old

BInv == BType /\ FilesSound /\ HeldSound /\ PassedSound /\ ToldSound /\ DoneSound

LEMMA DoneIsReported ==
  ASSUME Caches!SetupsAssumption, BInv PROVE Caches!ReportsAreWhole
<1> SUFFICES ASSUME pc = "done" PROVE Caches!ReportsAreWhole
  BY DEF Caches!ReportsAreWhole
<1>1. args \in Caches!Arguments(setup) /\ setup \in Setups
  BY DEF BInv, BType
<1>2. {Caches!Keys[i] : i \in 1 .. Len(Caches!Keys)} = Grid(setup, args)
  BY KeysAreListed DEF Grid
<1>3. DOMAIN reported = {k \in {Caches!Keys[i] : i \in 1 .. Len(Caches!Keys)} :
                       Caches!Script = "gate_only" => Caches!ValidateConfig(setup, k)}
  BY <1>2 DEF BInv, DoneSound, Passes, Caches!Script
<1>4. ASSUME NEW k \in DOMAIN reported
      PROVE  /\ Caches!ComparesLikeWithLike(k)
             /\ files[Caches!ResultFile(k)].state = "whole"
             /\ files[Caches!ResultFile(k)].entries[k] = reported[k]
             /\ IF Caches!Script \in Caches!TopUps THEN Caches!Total(reported[k]) >= args.runs
                                                ELSE Caches!Total(reported[k]) = args.runs
             /\ args.force => reported[k].old = 0
             /\ Caches!Script \in Caches!Sweeps => \A j \in DOMAIN reported : reported[k].old = reported[j].old
  <2>1. k \in Grid(setup, args) /\ Passes(setup, k) /\ Reported(k)
    BY <1>4 DEF BInv, DoneSound
  <2>2. Caches!ComparesLikeWithLike(k)
    BY <1>1, <2>1, GridIsAlike
  <2>3. Caches!ResultFile(k) = FileOf(setup, k)
    BY DEF FileOf, Caches!ResultFile, Caches!Script
  <2>4. Caches!Script \in Caches!Sweeps => \A j \in DOMAIN reported : reported[k].old = reported[j].old
    BY <1>4 DEF BInv, DoneSound, Caches!Script
  <2> QED BY <2>1, <2>2, <2>3, <2>4 DEF Reported, Caches!Script
<1> QED BY <1>3, <1>4 DEF Caches!ReportsAreWhole

LEMMA AgedIsStored ==
  ASSUME NEW s, NEW e, Stored(s, e), s.script \in Caches!Sweeps => s.num_runs \in Nat
  PROVE  Stored(s, Caches!Aged(e))
<1> DEFINE o == Caches!Aged(e)
<1>1. DOMAIN o = DOMAIN e /\ \A k \in DOMAIN e : o[k] = [old |-> Caches!Total(e[k]), new |-> 0]
  BY DEF Caches!Aged
<1>2. \A k \in DOMAIN e : e[k] \in [old : Nat, new : Nat]
  BY DEF Stored, Counted
<1> HIDE DEF o
<1>3. \A k \in DOMAIN e : /\ Caches!Total(o[k]) = Caches!Total(e[k])
                          /\ o[k] \in [old : Nat, new : Nat] /\ o[k].old = Caches!Total(e[k])
  BY <1>1, <1>2 DEF Caches!Total
<1>4. Counted(o)
  BY <1>1, <1>3 DEF Counted
<1>5. s.script \in Caches!Sweeps => FullSweep(s, o)
  BY <1>1, <1>3 DEF FullSweep, Stored
<1>6. s.script = "gate_only" => OneByOne(s, o)
  BY <1>1, <1>3 DEF OneByOne, Stored
<1> QED BY <1>4, <1>5, <1>6 DEF Stored, o

LEMMA BeginFollows ==
  ASSUME Caches!SetupsAssumption, BInv, UNCHANGED setup,
         NEW a \in Caches!Arguments(setup), Caches!Begin(a)
  PROVE  BInv'
<1>1. /\ args' = a /\ at' = 1 /\ reported' = Caches!NoEntries /\ pc' = "look" /\ setup' = setup
      /\ files' = [f \in DOMAIN files |->
                      [files[f] EXCEPT !.entries = Caches!Aged(files[f].entries)]]
  BY DEF Caches!Begin
<1>2. setup \in Setups /\ DOMAIN files = Caches!Files(setup)
  BY DEF BInv, BType
<1>3. \A f \in Caches!Files(setup) :
        files[f] = [state   |-> files[f].state, entries |-> files[f].entries,
                     skipped |-> files[f].skipped]
  BY DEF BInv, BType
<1>4. \A f \in Caches!Files(setup) :
        files'[f] = [state   |-> files[f].state, entries |-> Caches!Aged(files[f].entries),
                      skipped |-> files[f].skipped]
  BY <1>1, <1>2, <1>3
<1>5. files' = [f \in Caches!Files(setup) |-> files'[f]]
  BY <1>1, <1>2
<1>11. \A f \in Caches!Files(setup) : files[f].state \in {"none", "torn", "whole"}
  BY DEF BInv, BType
<1>6. Listed(setup, a) \in Seq(Grid(setup, a))
  BY <1>2, ListedIsFinite
<1>7. BType'
  <2>1. Listed(setup, a) = <<>> \/ 1 \in 1 .. Len(Listed(setup, a))
    BY <1>6
  <2>2. \A f \in Caches!Files(setup) :
          /\ files'[f] = [state   |-> files'[f].state, entries |-> files'[f].entries,
                           skipped |-> files'[f].skipped]
          /\ files'[f].state \in {"none", "torn", "whole"}
    <3> SUFFICES ASSUME NEW f \in Caches!Files(setup)
                 PROVE  /\ files'[f] = [state   |-> files'[f].state,
                                         entries |-> files'[f].entries,
                                         skipped |-> files'[f].skipped]
                        /\ files'[f].state \in {"none", "torn", "whole"}
      OBVIOUS
    <3> DEFINE new == files'[f]
    <3>1. new = [state   |-> files[f].state, entries |-> Caches!Aged(files[f].entries),
                 skipped |-> files[f].skipped]
      BY <1>4
    <3> HIDE DEF new
    <3>2. /\ new = [state |-> new.state, entries |-> new.entries, skipped |-> new.skipped]
          /\ new.state \in {"none", "torn", "whole"}
      BY <1>11, <3>1
    <3> QED BY <3>2 DEF new
  <2> QED BY <1>1, <1>2, <1>5, <2>1, <2>2 DEF BType, Holding
<1>8. FilesSound'
  <2> SUFFICES ASSUME NEW f \in Caches!Files(setup), files'[f].state = "whole"
               PROVE  Stored(setup, files'[f].entries)
    BY <1>1 DEF FilesSound
  <2> DEFINE new == files'[f]
  <2>3. new = [state   |-> files[f].state, entries |-> Caches!Aged(files[f].entries),
               skipped |-> files[f].skipped]
    BY <1>4
  <2>4. new.state = "whole"
    OBVIOUS
  <2> HIDE DEF new
  <2>5. files[f].state = "whole" /\ new.entries = Caches!Aged(files[f].entries)
    BY <2>3, <2>4
  <2>1. files[f].state = "whole" /\ files'[f].entries = Caches!Aged(files[f].entries)
    BY <2>5 DEF new
  <2>2. setup.script \in Caches!Sweeps => setup.num_runs \in Nat
    BY <1>2 DEF Caches!SetupsAssumption, Caches!Sweeps, Caches!TopUps
  <2> QED BY <2>1, <2>2, AgedIsStored DEF BInv, FilesSound
<1>9. HeldSound' /\ PassedSound' /\ DoneSound'
  BY <1>1 DEF HeldSound, PassedSound, DoneSound, Holding
<1>10. ToldSound'
  <2>1. DOMAIN reported' = {} /\ {Listed(setup, a)[i] : i \in 1 .. at' - 1} = {}
    BY <1>1 DEF Caches!NoEntries
  <2> QED BY <1>1, <2>1 DEF ToldSound
<1> QED BY <1>7, <1>8, <1>9, <1>10 DEF BInv

(* A process that is gone leaves its files.                                *)
LEMMA GoneFollows ==
  ASSUME BInv, UNCHANGED <<setup, args, at>>,
         pc # "idle", pc' \in {"idle", "killed", "failed", "rejected"},
         UNCHANGED files \/ /\ "all" \in Caches!Files(setup)
                             /\ files' = [files EXCEPT !["all"] = Caches!Absent]
  PROVE  BInv'
<1>1. \A f \in Caches!Files(setup) : files'[f] \in {files[f], Caches!Absent}
  BY DEF BInv, BType
<1>2. Caches!Absent.state = "none"
      /\ Caches!Absent = [state   |-> Caches!Absent.state, entries |-> Caches!Absent.entries,
                         skipped |-> Caches!Absent.skipped]
  BY DEF Caches!Absent
<1>3. files' = [f \in Caches!Files(setup) |-> files'[f]]
  BY DEF BInv, BType
<1>4. BType'
  <2>1. \A f \in Caches!Files(setup) :
          /\ files'[f] = [state   |-> files'[f].state, entries |-> files'[f].entries,
                           skipped |-> files'[f].skipped]
          /\ files'[f].state \in {"none", "torn", "whole"}
    <3> SUFFICES ASSUME NEW f \in Caches!Files(setup)
                 PROVE  /\ files'[f] = [state   |-> files'[f].state,
                                         entries |-> files'[f].entries,
                                         skipped |-> files'[f].skipped]
                        /\ files'[f].state \in {"none", "torn", "whole"}
      OBVIOUS
    <3>1. CASE files'[f] = Caches!Absent
      BY <1>2, <3>1 DEF BInv, BType
    <3>2. CASE files'[f] = files[f]
      BY <3>2 DEF BInv, BType
    <3> QED BY <1>1, <3>1, <3>2
  <2>2. setup' = setup /\ args' = args /\ at' = at
    OBVIOUS
  <2>3. setup' \in Setups /\ at' \in Nat /\ args' \in Caches!Arguments(setup')
    BY <2>2 DEF BInv, BType
  <2> QED BY <1>3, <2>1, <2>2, <2>3 DEF BType, Holding
<1>5. FilesSound'
  BY <1>1, <1>2 DEF BInv, FilesSound
<1> QED BY <1>4, <1>5 DEF BInv, HeldSound, PassedSound, ToldSound, DoneSound, Holding

(* The file at hand, and whether it is used.                               *)
Kept  == files[FileOf(setup, Here)]
Using == Kept.state # "none" /\ ~ args.force

(* What is read becomes what is held, now or by a later load.              *)
Taken ==
  /\ Listed(setup, args) # <<>> /\ ~ (Using /\ Kept.state = "torn")
  /\ pc' = IF Using /\ setup.script \in Caches!Sweeps THEN "report" ELSE "measure"
  /\ mem' = IF Using THEN [entries |-> Kept.entries, skipped |-> Kept.skipped]
                     ELSE Caches!Empty

LEMMA TakenFollows ==
  ASSUME Caches!SetupsAssumption, BInv, pc \in {"look", "load"}, Taken,
         UNCHANGED <<setup, files, args, at, reported>>
  PROVE  BInv'
<1> DEFINE l == Listed(setup, args)
           key == l[at]
           found == files[FileOf(setup, key)]
           uses == found.state # "none" /\ ~ args.force
<1>1. /\ pc \in {"look", "load"} /\ UNCHANGED <<setup, files, args, at, reported>>
      /\ setup \in Setups /\ args \in Caches!Arguments(setup)
      /\ pc = "load" => setup.script \notin Caches!TopUps
  BY DEF BInv, BType, Caches!TopUps
<1>3. BInv'
  <2>2. l # <<>> /\ ~ (uses /\ found.state = "torn")
    BY DEF Taken, Using, Kept, Here
  <2>3. /\ pc' = IF uses /\ setup.script \in Caches!Sweeps THEN "report" ELSE "measure"
        /\ mem' = IF uses THEN [entries |-> found.entries, skipped |-> found.skipped]
                           ELSE Caches!Empty
    BY DEF Taken, Using, Kept, Here
  <2>4. at \in 1 .. Len(l) /\ l \in Seq(Grid(setup, args)) /\ Len(l) \in Nat
    BY <1>1, <2>2, ListedIsFinite DEF BInv, BType
  <2>5. key \in Grid(setup, args) /\ FileOf(setup, key) \in Caches!Files(setup)
    <3>1. key \in Grid(setup, args)
      BY <2>4 DEF Grid
    <3> QED BY <1>1, <3>1, ListedIsFinite
  <2>6. uses => found.state = "whole" /\ Stored(setup, found.entries)
    <3>1. found.state \in {"none", "torn", "whole"}
      BY <2>5 DEF BInv, BType
    <3> QED BY <2>2, <2>5, <3>1 DEF BInv, FilesSound
  <2>7. BType'
    <3>1. pc' \in {"report", "measure"} /\ (pc' = "report" => setup.script \in Caches!Sweeps)
      BY <2>3
    <3>2. setup.script \in Caches!Sweeps => setup.script \notin Caches!TopUps
      BY DEF Caches!Sweeps, Caches!TopUps
    <3> HIDE DEF l, key, found, uses
    <3>3. at \in 1 .. Len(Listed(setup, args))
      BY <2>4 DEF l
    <3> QED BY <1>1, <3>1, <3>2, <3>3 DEF BInv, BType, Holding
  <2>8. FilesSound'
    BY <1>1 DEF BInv, FilesSound
  <2>9. ASSUME uses PROVE mem'.entries = found.entries /\ Stored(setup, mem'.entries)
    BY <2>3, <2>6, <2>9
  <2>10. ASSUME ~ uses PROVE DOMAIN mem'.entries = {}
    BY <2>3, <2>10 DEF Caches!Empty, Caches!NoEntries
  <2>11. mem' = [entries |-> mem'.entries, skipped |-> mem'.skipped]
    BY <2>3 DEF Caches!Empty
  <2> HIDE DEF found
  <2>12. HeldSound'
    <3>1. CASE uses
      <4>1. ~ args.force /\ (setup.script \in Caches!Sweeps => pc' = "report")
        BY <2>3, <3>1
      <4>2. Stored(setup, mem'.entries)
        BY <2>9, <3>1
      <4> HIDE DEF l, key, uses
      <4> QED BY <1>1, <2>11, <4>1, <4>2 DEF HeldSound, Stored
    <3>2. CASE ~ uses
      <4>1. DOMAIN mem'.entries = {}
        BY <2>10, <3>2
      <4> HIDE DEF l, key, uses
      <4> QED BY <1>1, <2>11, <4>1 DEF HeldSound, Counted, OneByOne
    <3> QED BY <3>1, <3>2
  <2>13. PassedSound'
    <3> SUFFICES ASSUME setup.script \notin Caches!TopUps PROVE PassedSound'
      BY <1>1 DEF PassedSound
    <3>1. at = 1 /\ at' = 1
      BY <1>1 DEF BInv, PassedSound
    <3>2. CASE pc' = "measure"
      BY <1>1, <3>1, <3>2 DEF PassedSound
    <3>3. CASE pc' = "report"
      <4>1. uses /\ setup.script \in Caches!Sweeps
        BY <2>3, <3>3
      <4>2. /\ files["all"] = found /\ found.state = "whole" /\ mem'.entries = found.entries
            /\ FullSweep(setup, mem'.entries)
        BY <2>6, <2>9, <4>1 DEF Stored, FileOf, found
      <4>3. ASSUME NEW i \in 1 .. Len(l)
            PROVE  Count(mem'.entries, l[i]) = setup.num_runs
        <5>1. l[i] \in Grid(setup, args)
          BY <2>4 DEF Grid
        <5> HIDE DEF l
        <5>2. l[i] \in DOMAIN mem'.entries
          BY <1>1, <4>2, <5>1 DEF FullSweep
        <5> QED BY <4>2, <5>2 DEF FullSweep, Count
      <4>4. \A i \in 1 .. Len(Listed(setup, args)) : Enough(Listed(setup, args)[i])'
        BY <1>1, <4>3 DEF Enough
      <4> HIDE DEF l, key, uses
      <4> QED BY <1>1, <3>1, <3>3, <4>2, <4>4 DEF PassedSound
    <3> QED BY <2>3, <3>2, <3>3
  <2>14. ToldSound'
    <3> SUFFICES ASSUME setup.script \in Caches!TopUps PROVE ToldSound'
      BY <1>1 DEF ToldSound
    <3>1. pc' = "measure" /\ found = files[key] /\ Here = key /\ Here' = key
      BY <1>1, <2>3 DEF Caches!Sweeps, Caches!TopUps, FileOf, found, Here
    <3>2. key \in DOMAIN mem'.entries =>
            files'[key].state = "whole" /\ files'[key].entries = mem'.entries
      BY <1>1, <2>6, <2>9, <2>10, <3>1
    <3>3. /\ DOMAIN reported' = {l[i] : i \in 1 .. at - 1}
          /\ \A k \in DOMAIN reported' : Reported(k)
      BY <1>1 DEF BInv, ToldSound
    <3>4. \A k \in DOMAIN reported' : Reported(k)'
      BY <1>1, <3>3 DEF Reported
    <3> HIDE DEF key, uses
    <3> QED BY <1>1, <3>1, <3>2, <3>3, <3>4 DEF ToldSound
  <2>15. DoneSound'
    BY <2>3 DEF DoneSound
  <2> QED BY <2>7, <2>8, <2>12, <2>13, <2>14, <2>15 DEF BInv
<1> QED BY <1>3

LEMMA LookFollows ==
  ASSUME Caches!SetupsAssumption, BInv, Caches!Look
  PROVE  BInv'
<1>1. pc = "look" /\ UNCHANGED <<setup, files, args, at, reported>>
  BY DEF Caches!Look
<1>2. CASE pc' \in {"rejected", "failed"}
  BY <1>1, <1>2, GoneFollows DEF BInv, BType
<1>3. /\ Caches!File = Kept /\ Caches!Keys = Listed(setup, args)
      /\ Caches!Uses <=> Using
  BY KeysAreListed DEF Caches!File, Caches!ResultFile, FileOf, Caches!Script, Kept, Here,
     Caches!Uses, Caches!Exists, Using
<1>4. CASE pc' = "load"
  <2>1. Listed(setup, args) # <<>> /\ Using /\ setup.script = "topk" /\ UNCHANGED mem
    BY <1>3, <1>4 DEF Caches!Look, Caches!Script
  <2>2. files["all"].state # "none" /\ ~ args.force
    BY <2>1 DEF Using, Kept, FileOf, Caches!TopUps
  <2>3. BType'
    BY <1>1, <1>4, <2>1, <2>2 DEF BInv, BType, Holding
  <2>4. FilesSound'
    BY <1>1 DEF BInv, FilesSound
  <2> QED
    BY <1>1, <1>4, <2>1, <2>3, <2>4
    DEF BInv, HeldSound, PassedSound, ToldSound, DoneSound, Holding, Caches!TopUps
<1>5. CASE pc' \notin {"rejected", "failed", "load"}
  <2>1. Taken
    BY <1>3, <1>5
    DEF Taken, Caches!Look, Caches!Loaded, Caches!Reads, Caches!Uses, Caches!Exists,
        Caches!Script
  <2> QED BY <1>1, <2>1, TakenFollows
<1> QED BY <1>2, <1>4, <1>5

LEMMA LoadFollows ==
  ASSUME Caches!SetupsAssumption, BInv, Caches!Load
  PROVE  BInv'
<1>1. pc = "load" /\ UNCHANGED <<setup, files, args, at, reported>>
  BY DEF Caches!Load
<1>2. CASE pc' = "failed"
  BY <1>1, <1>2, GoneFollows DEF BInv, BType
<1>3. CASE pc' # "failed"
  <2>1. /\ setup.script = "topk" /\ at \in 1 .. Len(Listed(setup, args))
        /\ files["all"].state # "none" /\ ~ args.force
    BY <1>1 DEF BInv, BType
  <2>2. Caches!File = Kept /\ Kept = files["all"]
    BY <2>1 DEF Caches!File, Caches!ResultFile, FileOf, Caches!Script, Kept, Caches!TopUps
  <2>3. Listed(setup, args) # <<>>
    BY <2>1
  <2>4. Using
    BY <2>1, <2>2 DEF Using
  <2>5. Taken
    BY <1>3, <2>1, <2>2, <2>3, <2>4 DEF Taken, Caches!Load, Caches!Loaded, Caches!Sweeps
  <2> QED BY <1>1, <2>5, TakenFollows
<1> QED BY <1>2, <1>3

LEMMA MeasureFollows ==
  ASSUME Caches!SetupsAssumption, BInv, Caches!Measure
  PROVE  BInv'
<1> DEFINE l == Listed(setup, args)
           key == l[at]
           e == mem.entries
           entry == IF Caches!Runs(key) = 0 THEN [old |-> 0, new |-> 0] ELSE e[key]
<1>1. /\ pc = "measure" /\ UNCHANGED <<setup, files, args, at, reported>>
      /\ setup \in Setups /\ args \in Caches!Arguments(setup)
      /\ pc' \in {"killed", "open", "measure"}
  BY DEF Caches!Measure, BInv, BType
<1>2. CASE pc' = "killed"
  BY <1>1, <1>2, GoneFollows
<1>3. CASE pc' # "killed"
  <2>1. Caches!Key = key /\ Caches!Runs(key) = Count(e, key)
    BY KeysAreListed DEF Caches!Runs, Count
  <2>2. /\ pc' = IF setup.script = "gate_only" THEN "open" ELSE "measure"
        /\ mem' = [mem EXCEPT !.entries =
                      Caches!Put(e, key, [entry EXCEPT !.new = @ + 1])]
    BY <1>3, <2>1 DEF Caches!Measure, Caches!Script
  <2>3. /\ Count(e, key) < args.runs
        /\ ~ (setup.script = "gate_only" /\ ~ Caches!ValidateConfig(setup, key)
                /\ Count(e, key) = 0)
    BY <2>1 DEF Caches!Measure, Caches!Lacks, Caches!Skips, Caches!Script
  <2>4. /\ mem = [entries |-> e, skipped |-> mem.skipped] /\ Counted(e)
        /\ at \in 1 .. Len(l)
    BY <1>1 DEF BInv, HeldSound, BType, Holding
  <2>5. key \in Grid(setup, args)
    BY <2>4 DEF Grid
  <2> DEFINE n == [entry EXCEPT !.new = @ + 1]
             f == mem'.entries
  <2>6. /\ entry \in [old : Nat, new : Nat]
        /\ Caches!Total(entry) = Count(e, key)
        /\ entry.old = 0 \/ (key \in DOMAIN e /\ entry.old = e[key].old)
    <3>1. Count(e, key) = 0 => entry = [old |-> 0, new |-> 0]
      BY <2>1
    <3>2. Count(e, key) # 0 => key \in DOMAIN e /\ entry = e[key]
      BY <2>1 DEF Count
    <3> HIDE DEF entry, key, l, e
    <3> QED BY <2>4, <3>1, <3>2 DEF Counted, Count, Caches!Total
  <2>7. n = [old |-> entry.old, new |-> entry.new + 1]
    <3> HIDE DEF entry
    <3> QED BY <2>6
  <2>8. /\ mem' = [entries |-> f, skipped |-> mem.skipped]
        /\ f = [k \in DOMAIN e \cup {key} |-> IF k = key THEN n ELSE e[k]]
    <3>1. mem' = [entries |-> Caches!Put(e, key, n), skipped |-> mem.skipped]
      <4> HIDE DEF n, key
      <4> QED BY <2>2, <2>4 DEF n
    <3> QED BY <3>1 DEF Caches!Put
  <2> HIDE DEF entry, n, e, f, key, l
  <2>9. /\ n \in [old : Nat, new : Nat] /\ n.new > 0 /\ n.old = entry.old
        /\ Caches!Total(n) = Count(e, key) + 1 /\ Count(e, key) \in Nat
    BY <2>4, <2>6, <2>7 DEF Caches!Total, Counted, Count
  <2>10. /\ DOMAIN f = DOMAIN e \cup {key} /\ f[key] = n
         /\ \A k \in DOMAIN e : k # key => f[k] = e[k]
    BY <2>8
  <2>11. Counted(f)
    BY <2>4, <2>9, <2>10 DEF Counted
  <2>12. args.runs = setup.num_runs \/ setup.script \in Caches!TopUps
    BY <1>1, ListedIsFinite
  <2>13. /\ \A s \in Caches!Sweeps : s \notin Caches!TopUps /\ s # "gate_only"
         /\ "gate_only" \notin Caches!TopUps
    BY DEF Caches!Sweeps, Caches!TopUps
  <2>14. BType'
    <3>1. pc' \in {"open", "measure"} /\ (pc' = "open" => setup.script \notin Caches!Sweeps)
      BY <2>2, <2>13
    <3> QED BY <1>1, <2>4, <3>1 DEF l, BInv, BType, Holding
  <2>15. FilesSound'
    BY <1>1 DEF BInv, FilesSound
  <2>16. HeldSound'
    <3>1. mem' = [entries |-> mem'.entries, skipped |-> mem'.skipped]
      BY <2>8
    <3>2. args.force => \A k \in DOMAIN f : f[k].old = 0
      <4>1. args.force => \A k \in DOMAIN e : e[k].old = 0
        BY <1>1 DEF BInv, HeldSound, Holding, e
      <4> QED BY <2>6, <2>9, <2>10, <4>1
    <3>3. setup.script = "gate_only" => OneByOne(setup, f)
      <4> SUFFICES ASSUME setup.script = "gate_only", NEW k \in DOMAIN f
                   PROVE  Passes(setup, k) /\ Caches!Total(f[k]) <= setup.num_runs
        BY DEF OneByOne
      <4>1. OneByOne(setup, e)
        BY <1>1 DEF BInv, HeldSound, Holding, e
      <4>2. CASE k # key
        BY <2>10, <4>1, <4>2 DEF OneByOne
      <4>3. CASE k = key
        <5>1. Passes(setup, key)
          <6>1. CASE Count(e, key) = 0
            BY <2>3, <6>1 DEF Passes
          <6>2. CASE Count(e, key) # 0
            BY <4>1, <6>2 DEF Count, OneByOne
          <6> QED BY <6>1, <6>2
        <5>2. Count(e, key) + 1 <= setup.num_runs
          <6>1. args.runs = setup.num_runs /\ setup.num_runs \in Nat
            BY <1>1, <2>13, ListedIsFinite
          <6> QED BY <2>3, <2>9, <6>1
        <5> QED BY <2>9, <2>10, <4>3, <5>1, <5>2
      <4> QED BY <4>2, <4>3
    <3>4. setup.script \in Caches!Sweeps =>
            \A k \in DOMAIN f : /\ k \in Grid(setup, args) /\ f[k].old = 0
                                /\ Caches!Total(f[k]) <= setup.num_runs
      <4> SUFFICES ASSUME setup.script \in Caches!Sweeps
                   PROVE  \A k \in DOMAIN f : /\ k \in Grid(setup, args) /\ f[k].old = 0
                                              /\ Caches!Total(f[k]) <= setup.num_runs
        OBVIOUS
      <4>1. \A k \in DOMAIN e : /\ k \in Grid(setup, args) /\ e[k].old = 0
                                /\ Caches!Total(e[k]) <= setup.num_runs
        BY <1>1 DEF BInv, HeldSound, Holding, e
      <4>2. args.runs = setup.num_runs /\ setup.num_runs \in Nat
        BY <1>1, <2>13, ListedIsFinite
      <4>3. n.old = 0 /\ Caches!Total(n) <= setup.num_runs
        BY <2>3, <2>6, <2>9, <4>1, <4>2
      <4> QED BY <2>5, <2>10, <4>1, <4>3
    <3> QED BY <1>1, <2>11, <3>1, <3>2, <3>3, <3>4 DEF HeldSound, f
  <2>17. PassedSound'
    <3> SUFFICES ASSUME setup.script \notin Caches!TopUps PROVE PassedSound'
      BY <1>1 DEF PassedSound
    <3>1. \A i \in 1 .. at - 1 : Enough(l[i])
      BY <1>1 DEF BInv, PassedSound, l
    <3>2. \A k : Count(e, k) = setup.num_runs => k # key /\ Count(f, k) = setup.num_runs
      BY <2>3, <2>9, <2>10, <2>12 DEF Count
    <3>3. \A i \in 1 .. at - 1 : Enough(l[i])'
      BY <1>1, <3>1, <3>2 DEF Enough, e, f, l
    <3> QED BY <1>1, <1>3, <3>3 DEF PassedSound, l
  <2>18. ToldSound'
    <3> SUFFICES ASSUME setup.script \in Caches!TopUps PROVE ToldSound'
      BY <1>1 DEF ToldSound
    <3>1. pc' = "measure"
      BY <2>2, <2>13
    <3>2. Here' = key /\ f[key].new # 0
      BY <1>1, <2>9, <2>10 DEF Here, key, l
    <3>3. /\ DOMAIN reported' = {l[i] : i \in 1 .. at - 1}
          /\ \A k \in DOMAIN reported' : Reported(k)
      BY <1>1 DEF BInv, ToldSound, l
    <3>4. \A k \in DOMAIN reported' : Reported(k)'
      BY <1>1, <3>3 DEF Reported
    <3> QED BY <1>1, <3>1, <3>2, <3>3, <3>4 DEF ToldSound, f, l
  <2>19. DoneSound'
    BY <1>1 DEF DoneSound
  <2> QED BY <2>14, <2>15, <2>16, <2>17, <2>18, <2>19 DEF BInv
<1> QED BY <1>2, <1>3

(* With one configuration more the process has reported all it passed.     *)
LEMMA OneMore ==
  ASSUME NEW q, NEW n \in Nat \ {0}
  PROVE  {q[i] : i \in 1 .. n} = {q[i] : i \in 1 .. n - 1} \cup {q[n]}
<1>1. 1 .. n = (1 .. n - 1) \cup {n}
  OBVIOUS
<1> QED BY <1>1

LEMMA AdvanceFollows ==
  ASSUME Caches!SetupsAssumption, BInv, Caches!Advance
  PROVE  BInv'
<1> DEFINE l == Listed(setup, args)
           key == l[at]
           e == mem.entries
<1>1. /\ pc = "measure" /\ UNCHANGED <<setup, files, args>>
      /\ setup \in Setups /\ args \in Caches!Arguments(setup)
      /\ at \in 1 .. Len(l) /\ l \in Seq(Grid(setup, args)) /\ Len(l) \in Nat
  BY ListedIsFinite DEF Caches!Advance, BInv, BType, Holding
<1>2. Caches!Key = key /\ Caches!Runs(key) = Count(e, key) /\ (Caches!IsLast <=> at = Len(l))
  BY KeysAreListed DEF Caches!Runs, Count
<1> DEFINE skips == /\ setup.script = "gate_only" /\ ~ Caches!ValidateConfig(setup, key)
                    /\ Count(e, key) = 0
<1>3. /\ mem' = IF skips THEN [mem EXCEPT !.skipped = @ + 1] ELSE mem
      /\ ~ (Count(e, key) < args.runs /\ ~ skips)
  BY <1>2 DEF Caches!Advance, Caches!Lacks, Caches!Skips, Caches!Script
<1>4. mem = [entries |-> e, skipped |-> mem.skipped] /\ Counted(e)
  BY <1>1 DEF BInv, HeldSound, Holding
<1> HIDE DEF skips
<1>5. mem'.entries = e /\ mem' = [entries |-> mem'.entries, skipped |-> mem'.skipped]
  BY <1>3, <1>4
<1>6. /\ args.runs = setup.num_runs \/ setup.script \in Caches!TopUps
      /\ args.runs \in Nat \ {0}
  BY <1>1, ListedIsFinite
<1>7. /\ \A s \in Caches!Sweeps : s \notin Caches!TopUps /\ s # "gate_only"
      /\ "gate_only" \notin Caches!TopUps
      /\ setup.script \in Caches!Sweeps \cup Caches!TopUps \cup {"gate_only"}
  BY <1>1 DEF Caches!SetupsAssumption, Caches!Sweeps, Caches!TopUps
<1>8. Count(e, key) \in Nat
  BY <1>4 DEF Counted, Count, Caches!Total
<1>9. FilesSound'
  BY <1>1 DEF BInv, FilesSound
<1> DEFINE now == /\ args.force => \A k \in DOMAIN e : e[k].old = 0
                  /\ setup.script = "gate_only" => OneByOne(setup, e)
                  /\ setup.script \in Caches!Sweeps =>
                       \A k \in DOMAIN e : /\ k \in Grid(setup, args) /\ e[k].old = 0
                                           /\ Caches!Total(e[k]) <= setup.num_runs
<1>10. now
  BY <1>1 DEF BInv, HeldSound, Holding
<1>11. HeldSound'
  <2> HIDE DEF l, key
  <2> QED BY <1>1, <1>4, <1>5, <1>10 DEF HeldSound
<1>12. CASE setup.script \notin Caches!TopUps
  <2>1. /\ pc' = IF at = Len(l) THEN "open_last" ELSE "measure"
        /\ at' = IF at = Len(l) THEN at ELSE at + 1
    BY <1>2, <1>12 DEF Caches!Advance, Caches!Script
  <2> HIDE DEF key, e, now
  <2>2. \A i \in 1 .. at - 1 : Enough(l[i])
    BY <1>1, <1>12 DEF BInv, PassedSound
  <2>3. Enough(key)
    <3> SUFFICES ASSUME Passes(setup, key) PROVE Count(e, key) = setup.num_runs
      BY DEF Enough, e
    <3>1. ~ skips
      BY DEF skips, Passes
    <3>2. Count(e, key) >= setup.num_runs /\ setup.num_runs \in Nat \ {0}
      BY <1>3, <1>6, <1>8, <1>12, <3>1
    <3>3. key \in DOMAIN e
      BY <1>8, <3>2 DEF Count
    <3>4. Caches!Total(e[key]) <= setup.num_runs
      BY <1>7, <1>10, <1>12, <3>3 DEF now, OneByOne
    <3> QED BY <1>8, <3>2, <3>3, <3>4 DEF Count
  <2>4. \A i \in 1 .. at : Enough(l[i])
    BY <1>1, <2>2, <2>3 DEF key
  <2>5. \A i \in 1 .. at : Enough(l[i])'
    BY <1>1, <1>5, <2>4 DEF Enough, e
  <2>6. BType'
    <3> HIDE DEF l
    <3>1. /\ at' \in 1 .. Len(l) /\ pc' \in {"open_last", "measure"}
      BY <1>1, <2>1
    <3> QED BY <1>1, <1>12, <3>1 DEF l, BInv, BType, Holding
  <2>7. PassedSound'
    <3>1. CASE at = Len(l)
      <4>1. \A i \in 1 .. Len(l) : Enough(l[i])'
        BY <2>5, <3>1
      <4> QED BY <1>1, <2>1, <3>1, <4>1 DEF PassedSound
    <3>2. CASE at # Len(l)
      <4>1. \A i \in 1 .. at' - 1 : Enough(l[i])'
        BY <1>1, <2>1, <2>5, <3>2
      <4> QED BY <1>1, <2>1, <3>2, <4>1 DEF PassedSound
    <3> QED BY <3>1, <3>2
  <2>8. ToldSound' /\ DoneSound'
    BY <1>1, <1>12, <2>1 DEF ToldSound, DoneSound
  <2> QED BY <1>9, <1>11, <2>6, <2>7, <2>8 DEF BInv
<1>13. CASE setup.script \in Caches!TopUps
  <2>1. ~ skips /\ Count(e, key) >= args.runs
    BY <1>3, <1>6, <1>7, <1>8, <1>13 DEF skips
  <2>2. key \in DOMAIN e /\ Caches!Total(e[key]) >= args.runs
    BY <1>6, <1>8, <2>1 DEF Count
  <2>3. mem' = mem
    BY <1>3, <2>1
  <2>4. PassedSound'
    BY <1>1, <1>13 DEF PassedSound
  <2>5. /\ DOMAIN reported = {l[i] : i \in 1 .. at - 1}
        /\ \A k \in DOMAIN reported : Reported(k)
    BY <1>1, <1>13 DEF BInv, ToldSound
  <2>6. setup.script \notin Caches!Sweeps /\ setup.script # "gate_only"
    BY <1>7, <1>13
  <2>7. CASE e[key].new > 0
    <3>1. pc' = "open" /\ UNCHANGED <<at, reported>>
      BY <1>2, <1>13, <2>3, <2>7 DEF Caches!Advance, Caches!Script
    <3> HIDE DEF l, key, e, now
    <3>2. BType'
      BY <1>1, <1>7, <1>13, <3>1 DEF l, BInv, BType, Holding
    <3>3. \A k \in DOMAIN reported' : Reported(k)'
      BY <1>1, <2>5, <3>1 DEF Reported
    <3>4. Here' = key /\ Here' \in DOMAIN mem'.entries
          /\ Caches!Total(mem'.entries[Here']) >= args'.runs
      BY <1>1, <2>2, <2>3, <3>1 DEF Here, key, l, e
    <3>5. ToldSound'
      BY <1>1, <2>5, <3>1, <3>3, <3>4 DEF ToldSound, l
    <3> QED BY <1>9, <1>11, <2>4, <3>1, <3>2, <3>5 DEF BInv, DoneSound
  <2>8. CASE ~ (e[key].new > 0)
    <3>1. /\ reported' = Caches!Put(reported, key, e[key])
          /\ pc' = IF at = Len(l) THEN "done" ELSE "look"
          /\ at' = IF at = Len(l) THEN at ELSE at + 1
      BY <1>2, <1>13, <2>3, <2>8 DEF Caches!Advance, Caches!Script, Caches!Summed
    <3> HIDE DEF l, key, e, now
    <3>2. BType'
      <4>1. at' \in 1 .. Len(l) /\ pc' \in {"done", "look"}
        BY <1>1, <3>1
      <4> QED BY <1>1, <1>13, <4>1 DEF l, BInv, BType, Holding
    <3>3. e[key].new = 0
      BY <1>4, <2>2, <2>8 DEF Counted
    <3>4. files[key].state = "whole" /\ files[key].entries = e
      BY <1>1, <1>13, <2>2, <3>3 DEF BInv, ToldSound, Here, key, l, e
    <3>5. /\ DOMAIN reported' = DOMAIN reported \cup {key} /\ reported'[key] = e[key]
          /\ \A k \in DOMAIN reported : k # key => reported'[k] = reported[k]
      BY <3>1 DEF Caches!Put
    <3>6. DOMAIN reported' = {l[i] : i \in 1 .. at}
      <4>1. {l[i] : i \in 1 .. at} = {l[i] : i \in 1 .. at - 1} \cup {key}
        BY <1>1, OneMore DEF key
      <4> QED BY <2>5, <3>5, <4>1
    <3>7. \A k \in DOMAIN reported' : Reported(k)'
      <4>1. ASSUME NEW k \in DOMAIN reported, k # key PROVE Reported(k)'
        BY <1>1, <2>5, <3>5, <4>1 DEF Reported
      <4>2. ASSUME NEW k \in {key} PROVE Reported(k)'
        <5>1. args.force => e[k].old = 0
          BY <1>10, <2>2 DEF now
        <5>2. /\ files'[k].state = "whole" /\ files'[k].entries = e /\ reported'[k] = e[k]
              /\ Caches!Total(e[k]) >= args.runs
          BY <1>1, <2>2, <3>4, <3>5
        <5>3. FileOf(setup', k) = k /\ setup' = setup /\ args' = args
          BY <1>1, <1>13 DEF FileOf
        <5> QED BY <1>13, <5>1, <5>2, <5>3 DEF Reported
      <4> QED BY <3>5, <4>1, <4>2
    <3>8. CASE at = Len(l)
      <4>1. DOMAIN reported' = {k \in Grid(setup, args) : Passes(setup, k)}
        BY <2>6, <3>6, <3>8 DEF Grid, Passes, l
      <4>2. pc' = "done"
        BY <3>1, <3>8
      <4>3. DoneSound' /\ ToldSound'
        BY <1>1, <2>6, <3>7, <4>1, <4>2 DEF DoneSound, ToldSound
      <4> QED BY <1>9, <1>11, <2>4, <3>2, <4>3 DEF BInv
    <3>9. CASE at # Len(l)
      <4>1. pc' = "look" /\ DOMAIN reported' = {l[i] : i \in 1 .. at' - 1}
        BY <1>1, <3>1, <3>6, <3>9
      <4>2. DoneSound' /\ ToldSound'
        BY <1>1, <3>7, <4>1 DEF DoneSound, ToldSound, l
      <4> QED BY <1>9, <1>11, <2>4, <3>2, <4>2 DEF BInv
    <3> QED BY <3>8, <3>9
  <2> QED BY <2>7, <2>8
<1> QED BY <1>12, <1>13

LEMMA OpenFollows ==
  ASSUME Caches!SetupsAssumption, BInv, Caches!Open
  PROVE  BInv'
<1> DEFINE l == Listed(setup, args)
           key == l[at]
           name == FileOf(setup, key)
<1>1. /\ pc \in {"open", "open_last"} /\ UNCHANGED <<setup, args, at, mem, reported>>
      /\ setup \in Setups /\ args \in Caches!Arguments(setup)
      /\ at \in 1 .. Len(l) /\ l \in Seq(Grid(setup, args)) /\ Len(l) \in Nat
      /\ pc' = IF pc = "open" THEN "close" ELSE "close_last"
  BY ListedIsFinite DEF Caches!Open, BInv, BType, Holding
<1>2. files' = [files EXCEPT ![name] = Caches!Torn]
  BY KeysAreListed DEF Caches!Open, Caches!ResultFile, FileOf, Caches!Script
<1>3. name \in Caches!Files(setup)
  <2>1. key \in Grid(setup, args)
    BY <1>1 DEF Grid
  <2> QED BY <1>1, <2>1, ListedIsFinite
<1>4. /\ Caches!Torn = [state   |-> Caches!Torn.state, entries |-> Caches!Torn.entries,
                       skipped |-> Caches!Torn.skipped]
      /\ Caches!Torn.state = "torn"
  <2>1. Caches!Torn = [state |-> "torn", entries |-> Caches!NoEntries, skipped |-> 0]
    BY DEF Caches!Torn, Caches!Absent
  <2> QED BY <2>1
<1>5. BType /\ FilesSound /\ HeldSound /\ PassedSound /\ ToldSound
  BY DEF BInv
<1> HIDE DEF name, l, key
<1>6. /\ files' = [f \in Caches!Files(setup) |-> files'[f]] /\ files'[name] = Caches!Torn
      /\ \A f \in Caches!Files(setup) : f # name => files'[f] = files[f]
  BY <1>2, <1>3, <1>5 DEF BType
<1>7. BType'
  <2>1. \A f \in Caches!Files(setup) :
          /\ files'[f] = [state   |-> files'[f].state, entries |-> files'[f].entries,
                           skipped |-> files'[f].skipped]
          /\ files'[f].state \in {"none", "torn", "whole"}
    BY <1>4, <1>5, <1>6 DEF BType
  <2> QED BY <1>1, <1>5, <1>6, <2>1 DEF l, BType, Holding
<1>8. FilesSound'
  <2>1. \A f \in Caches!Files(setup) : files'[f].state = "whole" => files'[f] = files[f]
    BY <1>4, <1>6
  <2> QED BY <1>1, <1>5, <2>1 DEF FilesSound
<1>9. HeldSound'
  BY <1>1, <1>5 DEF HeldSound, Holding
<1>10. PassedSound'
  <2> SUFFICES ASSUME setup.script \notin Caches!TopUps PROVE PassedSound'
    BY <1>1 DEF PassedSound
  <2>1. CASE pc = "open"
    <3>1. \A i \in 1 .. at - 1 : Enough(l[i])
      BY <1>5, <2>1 DEF PassedSound, l
    <3>2. \A i \in 1 .. at - 1 : Enough(l[i])'
      BY <1>1, <3>1 DEF Enough, l
    <3> QED BY <1>1, <2>1, <3>2 DEF PassedSound, l
  <2>2. CASE pc = "open_last"
    <3>1. \A i \in 1 .. Len(l) : Enough(l[i])
      BY <1>5, <2>2 DEF PassedSound, l
    <3>2. \A i \in 1 .. Len(l) : Enough(l[i])'
      BY <1>1, <3>1 DEF Enough, l
    <3> QED BY <1>1, <2>2, <3>2 DEF PassedSound, l
  <2> QED BY <1>1, <2>1, <2>2
<1>11. ToldSound'
  <2> SUFFICES ASSUME setup.script \in Caches!TopUps PROVE ToldSound'
    BY <1>1 DEF ToldSound
  <2>1. pc = "open" /\ pc' = "close"
    BY <1>1, <1>5 DEF BType
  <2>2. Here = key /\ Here' = key /\ name = key
    BY <1>1 DEF Here, key, l, name, FileOf
  <2>3. /\ key \in DOMAIN mem.entries /\ Caches!Total(mem.entries[key]) >= args.runs
        /\ DOMAIN reported = {l[i] : i \in 1 .. at - 1}
        /\ \A k \in DOMAIN reported : Reported(k)
    BY <1>5, <2>1, <2>2 DEF ToldSound, l
  <2>4. ASSUME NEW k \in DOMAIN reported, k # key PROVE Reported(k)'
    <3>1. FileOf(setup, k) = k /\ k \in Caches!Files(setup)
      <4>1. k \in Grid(setup, args)
        BY <1>1, <2>3 DEF Grid, l
      <4> QED BY <1>1, <4>1, ListedIsFinite DEF FileOf
    <3>2. files'[k] = files[k]
      BY <1>6, <2>2, <2>4, <3>1
    <3> QED BY <1>1, <2>3, <3>1, <3>2 DEF Reported
  <2> QED BY <1>1, <2>1, <2>2, <2>3, <2>4 DEF ToldSound, l
<1> QED BY <1>1, <1>7, <1>8, <1>9, <1>10, <1>11 DEF BInv, DoneSound

LEMMA CloseFollows ==
  ASSUME Caches!SetupsAssumption, BInv, Caches!Close
  PROVE  BInv'
<1> DEFINE l == Listed(setup, args)
           key == l[at]
           name == FileOf(setup, key)
           e == mem.entries
<1>1. /\ pc \in {"close", "close_last"} /\ UNCHANGED <<setup, args, mem>>
      /\ setup \in Setups /\ args \in Caches!Arguments(setup)
      /\ at \in 1 .. Len(l) /\ l \in Seq(Grid(setup, args)) /\ Len(l) \in Nat
  BY ListedIsFinite DEF Caches!Close, BInv, BType, Holding
<1>2. files' = [files EXCEPT ![name] = [state |-> "whole", entries |-> e,
                                          skipped |-> mem.skipped]]
  BY KeysAreListed DEF Caches!Close, Caches!ResultFile, FileOf, Caches!Script
<1>3. name \in Caches!Files(setup)
  <2>1. key \in Grid(setup, args)
    BY <1>1 DEF Grid
  <2> QED BY <1>1, <2>1, ListedIsFinite
<1>4. IF setup.script \in Caches!TopUps
      THEN /\ reported' = Caches!Put(reported, key, e[key])
           /\ pc' = IF at = Len(l) THEN "done" ELSE "look"
           /\ at' = IF at = Len(l) THEN at ELSE at + 1
      ELSE /\ pc' = IF pc = "close" THEN "measure" ELSE "report"
           /\ UNCHANGED <<at, reported>>
  BY KeysAreListed DEF Caches!Close, Caches!Script, Caches!Summed
<1>5. BType /\ FilesSound /\ HeldSound /\ PassedSound /\ ToldSound
  BY DEF BInv
<1>6. /\ args.runs = setup.num_runs \/ setup.script \in Caches!TopUps
      /\ args.runs \in Nat \ {0}
  BY <1>1, ListedIsFinite
<1>7. /\ \A s \in Caches!Sweeps : s \notin Caches!TopUps /\ s # "gate_only"
      /\ "gate_only" \notin Caches!TopUps
      /\ setup.script \in Caches!Sweeps \cup Caches!TopUps \cup {"gate_only"}
  BY <1>1 DEF Caches!SetupsAssumption, Caches!Sweeps, Caches!TopUps
<1> HIDE DEF name, l, key, e
<1>8. /\ files' = [f \in Caches!Files(setup) |-> files'[f]]
      /\ files'[name] = [state |-> "whole", entries |-> e, skipped |-> mem.skipped]
      /\ \A f \in Caches!Files(setup) : f # name => files'[f] = files[f]
  BY <1>2, <1>3, <1>5 DEF BType
<1>9. setup.script \in Caches!Sweeps => FullSweep(setup, e)
  <2> SUFFICES ASSUME setup.script \in Caches!Sweeps PROVE FullSweep(setup, e)
    OBVIOUS
  <2>1. pc = "close_last" /\ setup.script \notin Caches!TopUps
    BY <1>1, <1>5, <1>7 DEF BType
  <2>2. \A k \in DOMAIN e : /\ k \in Grid(setup, args) /\ e[k].old = 0
                            /\ Caches!Total(e[k]) <= setup.num_runs
    BY <1>1, <1>5, <2>1 DEF HeldSound, Holding, e
  <2>3. \A i \in 1 .. Len(l) : Enough(l[i])
    BY <1>5, <2>1 DEF PassedSound, l
  <2>4. ASSUME NEW k \in Grid(setup, args)
        PROVE  k \in DOMAIN e /\ Caches!Total(e[k]) = setup.num_runs
    <3>1. PICK i \in 1 .. Len(l) : k = l[i]
      BY DEF Grid, l
    <3>2. Passes(setup, k)
      BY <1>7 DEF Passes
    <3>3. Count(e, k) = setup.num_runs
      BY <2>3, <3>1, <3>2 DEF Enough, e
    <3> QED BY <1>6, <2>1, <3>3 DEF Count
  <2>5. DOMAIN e = Grid(setup, args)
    BY <2>2, <2>4
  <2>6. \A a \in Caches!Arguments(setup) : DOMAIN e = Grid(setup, a)
    BY <1>1, <2>5, SweepsAreFixed
  <2> QED BY <2>2, <2>4, <2>6 DEF FullSweep
<1>10. Stored(setup, e)
  <2>1. Counted(e) /\ (setup.script = "gate_only" => OneByOne(setup, e))
    BY <1>1, <1>5 DEF HeldSound, Holding, e
  <2> QED BY <1>9, <2>1 DEF Stored
<1>11. FilesSound'
  <2> SUFFICES ASSUME NEW f \in Caches!Files(setup), files'[f].state = "whole"
               PROVE  Stored(setup, files'[f].entries)
    BY <1>1 DEF FilesSound
  <2>1. CASE f = name
    BY <1>8, <1>10, <2>1
  <2>2. CASE f # name
    BY <1>5, <1>8, <2>2 DEF FilesSound
  <2> QED BY <2>1, <2>2
<1>12. \A f \in Caches!Files(setup) :
         /\ files'[f] = [state   |-> files'[f].state, entries |-> files'[f].entries,
                          skipped |-> files'[f].skipped]
         /\ files'[f].state \in {"none", "torn", "whole"}
  BY <1>5, <1>8 DEF BType
<1>13. CASE setup.script \in Caches!TopUps
  <2>1. pc = "close" /\ name = key /\ Here = key
    BY <1>1, <1>5, <1>13 DEF BType, name, FileOf, Here, key, l
  <2>2. /\ key \in DOMAIN e /\ Caches!Total(e[key]) >= args.runs
        /\ DOMAIN reported = {l[i] : i \in 1 .. at - 1}
        /\ \A k \in DOMAIN reported : k = key \/ Reported(k)
    BY <1>5, <1>13, <2>1 DEF ToldSound, e, l
  <2>3. at' \in 1 .. Len(l) /\ pc' \in {"done", "look"}
    BY <1>1, <1>4, <1>13
  <2>4. BType'
    BY <1>1, <1>8, <1>12, <2>3 DEF l, BType, Holding
  <2>5. HeldSound' /\ PassedSound'
    BY <1>1, <1>13, <2>3 DEF HeldSound, PassedSound, Holding
  <2>6. /\ DOMAIN reported' = DOMAIN reported \cup {key} /\ reported'[key] = e[key]
        /\ \A k \in DOMAIN reported : k # key => reported'[k] = reported[k]
    BY <1>4, <1>13 DEF Caches!Put
  <2>7. DOMAIN reported' = {l[i] : i \in 1 .. at}
    <3>1. {l[i] : i \in 1 .. at} = {l[i] : i \in 1 .. at - 1} \cup {key}
      BY <1>1, OneMore DEF key
    <3> QED BY <2>2, <2>6, <3>1
  <2>8. \A k \in DOMAIN reported' : Reported(k)'
    <3>1. ASSUME NEW k \in DOMAIN reported, k # key PROVE Reported(k)'
      <4>1. FileOf(setup, k) = k /\ k \in Caches!Files(setup)
        <5>1. k \in Grid(setup, args)
          BY <1>1, <2>2 DEF Grid, l
        <5> QED BY <1>1, <1>13, <5>1, ListedIsFinite DEF FileOf
      <4>2. files'[k] = files[k]
        BY <1>8, <2>1, <3>1, <4>1
      <4> QED BY <1>1, <2>2, <2>6, <3>1, <4>1, <4>2 DEF Reported
    <3>2. ASSUME NEW k \in {key} PROVE Reported(k)'
      <4>1. args.force => e[k].old = 0
        BY <1>1, <1>5, <2>2 DEF HeldSound, Holding, e
      <4>2. /\ files'[k].state = "whole" /\ files'[k].entries = e /\ reported'[k] = e[k]
            /\ Caches!Total(e[k]) >= args.runs
        BY <1>8, <2>1, <2>2, <2>6
      <4>3. FileOf(setup', k) = k /\ setup' = setup /\ args' = args
        BY <1>1, <1>13 DEF FileOf
      <4> QED BY <1>13, <4>1, <4>2, <4>3 DEF Reported
    <3> QED BY <2>6, <3>1, <3>2
  <2>9. DoneSound' /\ ToldSound'
    <3>1. CASE at = Len(l)
      <4>1. DOMAIN reported' = {k \in Grid(setup, args) : Passes(setup, k)}
        BY <1>7, <1>13, <2>7, <3>1 DEF Grid, Passes, l
      <4>2. pc' = "done" /\ setup.script \notin Caches!Sweeps
        BY <1>4, <1>7, <1>13, <3>1
      <4> QED BY <1>1, <2>8, <4>1, <4>2 DEF DoneSound, ToldSound
    <3>2. CASE at # Len(l)
      <4>1. pc' = "look" /\ DOMAIN reported' = {l[i] : i \in 1 .. at' - 1}
        BY <1>1, <1>4, <1>13, <2>7, <3>2
      <4> QED BY <1>1, <2>8, <4>1 DEF DoneSound, ToldSound, l
    <3> QED BY <3>1, <3>2
  <2> QED BY <1>11, <2>4, <2>5, <2>9 DEF BInv
<1>14. CASE setup.script \notin Caches!TopUps
  <2>1. /\ at' = at /\ reported' = reported /\ pc' \in {"measure", "report"}
        /\ pc' = "report" <=> pc = "close_last"
    BY <1>1, <1>4, <1>14
  <2>2. BType'
    BY <1>1, <1>5, <1>8, <1>12, <1>14, <2>1 DEF l, BType, Holding
  <2>3. HeldSound'
    BY <1>1, <1>5, <2>1 DEF HeldSound, Holding
  <2>4. PassedSound'
    <3>1. CASE pc = "close"
      <4>1. \A i \in 1 .. at - 1 : Enough(l[i])
        BY <1>5, <1>14, <3>1 DEF PassedSound, l
      <4>2. \A i \in 1 .. at - 1 : Enough(l[i])'
        BY <1>1, <2>1, <4>1 DEF Enough, l
      <4> QED BY <1>1, <2>1, <3>1, <4>2 DEF PassedSound, l
    <3>2. CASE pc = "close_last"
      <4>1. \A i \in 1 .. Len(l) : Enough(l[i])
        BY <1>5, <1>14, <3>2 DEF PassedSound, l
      <4>2. \A i \in 1 .. Len(l) : Enough(l[i])'
        BY <1>1, <4>1 DEF Enough, l
      <4>3. name = "all"
        BY <1>14 DEF name, FileOf
      <4> QED BY <1>1, <1>8, <1>9, <2>1, <3>2, <4>2, <4>3 DEF PassedSound, l, e
    <3> QED BY <1>1, <3>1, <3>2
  <2>5. ToldSound' /\ DoneSound'
    BY <1>1, <1>14, <2>1 DEF ToldSound, DoneSound
  <2> QED BY <1>11, <2>2, <2>3, <2>4, <2>5 DEF BInv
<1> QED BY <1>13, <1>14

LEMMA ReportFollows ==
  ASSUME Caches!SetupsAssumption, BInv, Caches!Report
  PROVE  BInv'
<1> DEFINE l == Listed(setup, args)
           e == mem.entries
<1>1. /\ pc = "report" /\ pc' = "done" /\ UNCHANGED <<setup, files, args, at, mem>>
      /\ setup \in Setups /\ args \in Caches!Arguments(setup)
      /\ setup.script \notin Caches!TopUps
  BY DEF Caches!Report, BInv, BType
<1>2. reported' = [k \in DOMAIN e \cap Grid(setup, args) |-> e[k]]
  BY KeysAreListed DEF Caches!Report, Grid
<1>3. /\ \A i \in 1 .. Len(l) : Enough(l[i])
      /\ files["all"].state = "whole" /\ files["all"].entries = e
      /\ setup.script \in Caches!Sweeps => FullSweep(setup, e)
  BY <1>1 DEF BInv, PassedSound
<1>4. /\ args.force => \A k \in DOMAIN e : e[k].old = 0
      /\ setup.script = "gate_only" => OneByOne(setup, e)
  BY <1>1 DEF BInv, HeldSound, Holding
<1>5. args.runs = setup.num_runs /\ args.runs \in Nat \ {0}
  BY <1>1, ListedIsFinite
<1> HIDE DEF l, e
<1>6. ASSUME NEW k \in Grid(setup, args), Passes(setup, k)
      PROVE  k \in DOMAIN e /\ Caches!Total(e[k]) = setup.num_runs
  <2>1. PICK i \in 1 .. Len(l) : k = l[i]
    BY DEF Grid, l
  <2>2. Count(e, k) = setup.num_runs
    BY <1>3, <1>6, <2>1 DEF Enough, e
  <2> QED BY <1>5, <2>2 DEF Count
<1>7. \A k \in DOMAIN e : Passes(setup, k)
  BY <1>4 DEF OneByOne, Passes
<1>8. DOMAIN reported' = {k \in Grid(setup, args) : Passes(setup, k)}
      /\ \A k \in DOMAIN reported' : reported'[k] = e[k]
  BY <1>2, <1>6, <1>7
<1>9. \A k \in DOMAIN reported' : Reported(k)'
  <2> SUFFICES ASSUME NEW k \in DOMAIN reported' PROVE Reported(k)'
    OBVIOUS
  <2>1. reported'[k] = e[k] /\ Caches!Total(e[k]) = args.runs /\ k \in DOMAIN e
    BY <1>5, <1>6, <1>8
  <2>2. FileOf(setup', k) = "all" /\ setup' = setup /\ args' = args /\ files' = files
    BY <1>1 DEF FileOf
  <2> QED BY <1>1, <1>3, <1>4, <2>1, <2>2 DEF Reported
<1>10. setup.script \in Caches!Sweeps => \A j, k \in DOMAIN reported' : reported'[j].old = reported'[k].old
  BY <1>3, <1>6, <1>8 DEF FullSweep
<1>11. DoneSound'
  BY <1>1, <1>8, <1>9, <1>10 DEF DoneSound
<1>12. BType' /\ FilesSound'
  BY <1>1 DEF BInv, BType, FilesSound, Holding
<1> QED BY <1>1, <1>11, <1>12 DEF BInv, HeldSound, PassedSound, ToldSound, Holding

LEMMA CacheStep ==
  ASSUME Caches!SetupsAssumption
  PROVE  BInv /\ [Caches!Next]_Caches!vars => BInv'
<1> SUFFICES ASSUME BInv, [Caches!Next]_Caches!vars PROVE BInv'
  OBVIOUS
<1>1. CASE Caches!Start
  <2>1. PICK a \in Caches!Arguments(setup) : Caches!Begin(a)
    BY <1>1 DEF Caches!Start
  <2> QED BY <1>1, <2>1, BeginFollows DEF Caches!Start
<1>2. CASE Caches!Recover
  <2>1. CASE setup.script = "gate_only"
    <3>1. /\ pc = "failed" /\ pc' = "idle" /\ UNCHANGED <<setup, args, at>>
          /\ files' = [files EXCEPT !["all"] = Caches!Absent]
      BY <1>2, <2>1 DEF Caches!Recover, Caches!Script
    <3>2. "all" \in Caches!Files(setup)
      BY <2>1 DEF Caches!Files, Caches!TopUps
    <3> QED BY <3>1, <3>2, GoneFollows
  <2>2. CASE setup.script # "gate_only"
    <3>1. PICK a \in Caches!Arguments(setup) : Caches!Begin(a)
      BY <1>2, <2>2 DEF Caches!Recover, Caches!Script
    <3> QED BY <1>2, <3>1, BeginFollows DEF Caches!Recover
  <2> QED BY <2>1, <2>2
<1>3. CASE Caches!Kill
  BY <1>3, GoneFollows DEF Caches!Kill
<1>4. CASE UNCHANGED Caches!vars
  <2>1. UNCHANGED <<setup, files, pc, args, at, mem, reported>>
    BY <1>4 DEF Caches!vars, Caches!process
  <2>2. BType' /\ FilesSound'
    BY <2>1 DEF BInv, BType, FilesSound, Holding
  <2>3. HeldSound'
    BY <2>1 DEF BInv, HeldSound, Holding
  <2>4. PassedSound' /\ ToldSound' /\ DoneSound'
    <3>1. PassedSound' <=> PassedSound
      BY <2>1 DEF PassedSound, Enough
    <3>2. ToldSound' <=> ToldSound
      BY <2>1 DEF ToldSound, Here, Reported
    <3>3. DoneSound' <=> DoneSound
      BY <2>1 DEF DoneSound, Reported
    <3> QED BY <3>1, <3>2, <3>3 DEF BInv
  <2> QED BY <2>2, <2>3, <2>4 DEF BInv
<1> QED
  BY <1>1, <1>2, <1>3, <1>4, LookFollows, LoadFollows, MeasureFollows, AdvanceFollows, OpenFollows,
     CloseFollows, ReportFollows DEF Caches!Next, Caches!Works

LEMMA CacheInit == Caches!Init => BInv
<1> SUFFICES ASSUME Caches!Init PROVE BInv
  OBVIOUS
<1>1. /\ setup \in Setups /\ pc = "idle" /\ at = 1
      /\ files = [f \in Caches!Files(setup) |-> Caches!Absent]
  BY DEF Caches!Init
<1>2. \A f \in Caches!Files(setup) :
        files[f] = [state |-> "none", entries |-> Caches!NoEntries, skipped |-> 0]
  BY <1>1 DEF Caches!Absent
<1>3. BType /\ FilesSound
  BY <1>1, <1>2 DEF BType, FilesSound, Holding
<1> QED
  BY <1>1, <1>3 DEF BInv, HeldSound, PassedSound, ToldSound, DoneSound, Holding

(* Whatever was killed, torn, forced or asked for with other arguments    *)
(* before: what a script reports in the end are the configurations asked  *)
(* for, comparable, with as many measurements as asked for, and what its  *)
(* files hold; those of a sweep are of one process, and those of a forced  *)
(* run its own.                                                            *)
THEOREM MeasurementsAreWhole == Spec => []ReportsAreWhole
<1> DEFINE Inv == program = "caches" => BInv
<1>1. Init => Inv
  BY CacheInit DEF Init
<1>2. Inv => ReportsAreWhole
  BY DoneIsReported, MeasuringAssumption DEF ReportsAreWhole
<1>3. Inv /\ [Next]_vars => Inv'
  <2> SUFFICES ASSUME Inv, [Next]_vars, program' = "caches" PROVE BInv'
    OBVIOUS
  <2>1. program = "caches" /\ [Caches!Next]_Caches!vars
    BY DEF Next, vars, caches, Caches!vars, Caches!process
  <2> QED BY <2>1, CacheStep, MeasuringAssumption
<1> QED BY <1>1, <1>2, <1>3, PTL DEF Spec

-----------------------------------------------------------------------------
(* The monitor of the memory a proof uses.                                 *)
IsPeak(m, S) == m \in S \cup {0} /\ \A s \in S : s <= m

(* The shared peak is that of all samples but the one the monitor has not *)
(* compared yet; only the monitor writes it, and no one starts it twice.   *)
MInv ==
  /\ usage \in Nat /\ high \in Nat /\ usage <= high
  /\ samples \subseteq 0 .. high /\ peak_memory \in 0 .. high
  /\ mon \in {"unborn", "check", "sample", "load", "update", "sleep", "exit"}
  /\ mon \in {"unborn", "check", "sample", "sleep", "exit"} => IsPeak(peak_memory, samples)
  /\ mon \in {"load", "update"} => /\ current \in samples
                                   /\ peak_memory \in samples \cup {0}
                                   /\ \A s \in samples : s <= peak_memory \/ s = current
  /\ mon = "update" => peak = peak_memory
  /\ call = "build" => mon = "unborn"
  /\ call \in {"compress", "verify"} \cup Proof!Returned =>
       mon = "exit" /\ measured = peak_memory

LEMMA PeakIsHighest ==
  ASSUME NEW S, S \subseteq Nat, NEW m, IsPeak(m, S)
  PROVE  m = Proof!Highest(S \cup {0})
<1>1. m \in S \cup {0} /\ m \in Nat /\ \A s \in S \cup {0} : s <= m
  BY DEF IsPeak
<1>2. ASSUME NEW x \in S \cup {0}, \A y \in S \cup {0} : y <= x
      PROVE  x = m
  <2>1. x <= m /\ m <= x
    BY <1>1, <1>2
  <2> QED BY <1>1, <2>1
<1> QED BY <1>1, <1>2 DEF Proof!Highest

LEMMA MemoryStep ==
  ASSUME MaxUsage \in Nat
  PROVE  MInv /\ [Proof!Next]_Proof!vars => MInv'
<1> USE DEF MInv, IsPeak, Proof!environment, Proof!shared, Proof!monitor, Proof!Returned
<1> SUFFICES ASSUME MInv, [Proof!Next]_Proof!vars PROVE MInv'
  OBVIOUS
<1>1. CASE Proof!Allocate
  BY <1>1 DEF Proof!Allocate, Proof!Usages
<1>2. CASE Proof!Check
  BY <1>2 DEF Proof!Check
<1>3. CASE Proof!Sample
  BY <1>3 DEF Proof!Sample
<1>4. CASE Proof!Load
  BY <1>4 DEF Proof!Load
<1>5. CASE Proof!Update
  <2>1. mon = "update" /\ mon' = "sleep" /\ UNCHANGED <<usage, high, call, samples, measured>>
    BY <1>5 DEF Proof!Update
  <2>2. peak_memory' = IF current > peak_memory THEN current ELSE peak_memory
    BY <1>5 DEF Proof!Update
  <2>3. /\ current \in samples /\ samples \subseteq Nat
        /\ peak_memory \in Nat /\ peak_memory \in samples \cup {0}
        /\ \A s \in samples : s <= peak_memory \/ s = current
    BY <2>1
  <2>4. peak_memory' \in samples \cup {0} /\ \A s \in samples : s <= peak_memory'
    <3>1. CASE current > peak_memory
      <4>1. peak_memory' = current
        BY <2>2, <3>1
      <4>2. \A s \in samples : s <= current
        BY <2>3, <3>1
      <4> QED BY <2>3, <4>1, <4>2
    <3>2. CASE ~ (current > peak_memory)
      BY <2>2, <2>3, <3>2
    <3> QED BY <3>1, <3>2
  <2>5. peak_memory' \in 0 .. high
    BY <2>1, <2>2, <2>3
  <2> QED BY <2>1, <2>4, <2>5
<1>6. CASE Proof!Sleep
  BY <1>6 DEF Proof!Sleep
<1>7. CASE Proof!Join
  BY <1>7 DEF Proof!Join
<1>8. CASE Proof!Spawn \/ Proof!FReturns \/ Proof!FPanics \/ Proof!Stop
           \/ Proof!Compress \/ Proof!Verify
  BY <1>8 DEF Proof!Spawn, Proof!FReturns, Proof!FPanics, Proof!Stop, Proof!Compress,
       Proof!Verify
<1>9. CASE UNCHANGED Proof!vars
  BY <1>9 DEF Proof!vars
<1> QED
  BY <1>1, <1>2, <1>3, <1>4, <1>5, <1>6, <1>7, <1>8, <1>9
     DEF Proof!Next, Proof!Main, Proof!Monitor

LEMMA InvIsPeak == MInv => Proof!MeasuredIsPeak
<1> SUFFICES ASSUME MInv, call \in {"compress", "verify"} \cup Proof!Returned
             PROVE  /\ measured = Proof!Highest(samples \cup {0}) /\ measured <= high
                    /\ mon = "exit"
  BY DEF Proof!MeasuredIsPeak
<1>1. mon = "exit" /\ measured = peak_memory /\ IsPeak(peak_memory, samples)
  BY DEF MInv
<1>2. samples \subseteq Nat /\ measured <= high
  BY <1>1 DEF MInv
<1> QED BY <1>1, <1>2, PeakIsHighest

(* However the two threads interleave, and whatever the process allocates: *)
(* the memory a proof reports is the maximum of all samples and never      *)
(* exceeds what the process used, and the monitor has left before the      *)
(* call returns.                                                           *)
THEOREM MeasuredIsThePeak == Spec => []MeasuredIsPeak
<1> DEFINE Inv == program = "proof" => MInv
<1>1. Init => Inv
  BY DEF Init, Proof!Init, MInv, IsPeak, Proof!Returned
<1>2. Inv => MeasuredIsPeak
  BY InvIsPeak DEF MeasuredIsPeak
<1>3. Inv /\ [Next]_vars => Inv'
  <2> SUFFICES ASSUME Inv, [Next]_vars, program' = "proof" PROVE MInv'
    OBVIOUS
  <2>1. program = "proof" /\ [Proof!Next]_Proof!vars
    BY DEF Next, vars, proof, Proof!vars, Proof!environment, Proof!shared, Proof!monitor
  <2> QED BY <2>1, MemoryStep, MeasuringAssumption
<1> QED BY <1>1, <1>2, <1>3, PTL DEF Spec

-----------------------------------------------------------------------------
(***************************************************************************)
(* The tables of embeddings.                                               *)
(***************************************************************************)
UpTo(tx, t, n) == {i \in 1 .. n : tx[t][i] = "row"}
IsPrefixOf(tx, t, S) == \E n \in 0 .. Len(tx[t]) : S = UpTo(tx, t, n)

LEMMA CountsAlike == \A S : Marco!Cardinality(S) = Cardinality(S)
BY DEF Marco!Cardinality, Cardinality, Marco!IsFiniteSet, IsFiniteSet

(* A set of numbers that is not empty has a least one, and a greatest one  *)
(* if it is bounded.                                                       *)
LEMMA LeastOf ==
  ASSUME NEW S, S \subseteq Nat, S # {}
  PROVE  Marco!Min(S) \in S /\ \A m \in S : Marco!Min(S) <= m
<1>1. \E m \in S : \A k \in S : ~ (<<k, m>> \in OpToRel(<, Nat))
  BY NatLessThanWellFounded, WFMin, Zenon
<1>2. PICK m \in S : \A k \in S : ~ (<<k, m>> \in OpToRel(<, Nat))
  BY <1>1
<1>3. \A k \in S : m <= k
  <2> TAKE k \in S
  <2>1. m \in Nat /\ k \in Nat
    OBVIOUS
  <2>2. ~ (k < m)
    BY <1>2, <2>1 DEF OpToRel
  <2> QED BY <2>1, <2>2
<1> QED BY <1>3 DEF Marco!Min

LEMMA GreatestOf ==
  ASSUME NEW b \in Nat, NEW S, S \subseteq 0 .. b, S # {}
  PROVE  Marco!Max(S) \in S /\ \A m \in S : m <= Marco!Max(S)
<1> DEFINE T == {k \in Nat : b - k \in S}
           m == Marco!Min(T)
<1>1. T \subseteq Nat /\ T # {}
  <2>1. PICK x \in S : TRUE
    OBVIOUS
  <2>2. x \in 0 .. b /\ b - x \in Nat /\ b - (b - x) = x
    OBVIOUS
  <2>3. b - x \in T
    BY <2>2
  <2> QED BY <2>3
<1> HIDE DEF T
<1>2. m \in T /\ \A k \in T : m <= k
  BY <1>1, LeastOf
<1> HIDE DEF m
<1>3. b - m \in S
  BY <1>2 DEF T
<1>4. \A x \in S : x <= b - m
  <2> TAKE x \in S
  <2>1. x \in 0 .. b /\ b - x \in Nat /\ b - (b - x) = x
    OBVIOUS
  <2>2. m <= b - x /\ m \in Nat
    BY <1>1, <1>2, <2>1 DEF T
  <2> QED BY <2>1, <2>2
<1>5. \A x \in S : b - m >= x
  <2> TAKE x \in S
  <2>1. x \in Nat /\ x <= b - m /\ m \in Nat
    BY <1>1, <1>2, <1>4
  <2> QED BY <2>1
<1>6. Marco!Max(S) \in S /\ \A x \in S : Marco!Max(S) >= x
  BY <1>3, <1>5 DEF Marco!Max
<1> DEFINE M == Marco!Max(S)
<1> HIDE DEF M
<1>7. M \in S /\ \A x \in S : M >= x
  BY <1>6 DEF M
<1>8. \A x \in S : x <= M
  <2> TAKE x \in S
  <2>1. x \in 0 .. b /\ M \in 0 .. b
    BY <1>7
  <2>2. M >= x
    BY <1>7
  <2> QED BY <2>1, <2>2
<1> QED BY <1>7, <1>8 DEF M

LEMMA UpToIsFinite == \A n \in Nat : IsFiniteSet(1 .. n)
BY FS_Interval

LEMMA FunctionIsSequence ==
  ASSUME NEW n \in Nat, NEW S, NEW s \in [1 .. n -> S]
  PROVE  s \in Seq(S) /\ Len(s) = n
OBVIOUS

(* Members of a set listed by their rank.                                  *)
ListUp(S) ==
  [n \in 1 .. Marco!Cardinality(S) |->
     CHOOSE i \in S : Marco!Cardinality({j \in S : j <= i}) = n]

(* The rank of a member, and that listing by rank is well defined.         *)
RankIn(S, k) == Cardinality({j \in S : j <= k})

LEMMA Ranks ==
  ASSUME NEW b \in Nat, NEW S, S \subseteq 1 .. b
  PROVE  /\ IsFiniteSet(S) /\ Cardinality(S) \in Nat
         /\ DOMAIN ListUp(S) = 1 .. Cardinality(S)
         /\ \A n \in 1 .. Cardinality(S) : ListUp(S)[n] \in S /\ RankIn(S, ListUp(S)[n]) = n
         /\ \A k \in S : RankIn(S, k) \in 1 .. Cardinality(S)
         /\ \A k, m \in S : k < m => RankIn(S, k) < RankIn(S, m)
         /\ \A k, m \in S : RankIn(S, k) = RankIn(S, m) => k = m
<1> DEFINE L(k) == {j \in S : j <= k}
           c(k) == Cardinality(L(k))
           N == Cardinality(S)
           s == ListUp(S)
<1>1. IsFiniteSet(S) /\ N \in Nat
  <2>1. IsFiniteSet(1 .. b)
    BY FS_Interval
  <2> QED BY <2>1, FS_Subset, FS_CardinalityType
<1>2. \A k : IsFiniteSet(L(k)) /\ c(k) \in Nat
  <2> TAKE k
  <2>1. L(k) \in SUBSET S
    OBVIOUS
  <2> HIDE DEF L
  <2> QED BY <1>1, <2>1, FS_Subset, FS_CardinalityType
<1>3. ASSUME NEW k \in S PROVE c(k) \in 1 .. N
  <2>1. L(k) \in SUBSET S /\ L(k) # {}
    OBVIOUS
  <2> HIDE DEF L
  <2>2. Cardinality(L(k)) <= N /\ Cardinality(L(k)) # 0
    BY <1>1, <1>2, <2>1, FS_Subset, FS_EmptySet
  <2> QED BY <1>1, <1>2, <2>2
<1>4. ASSUME NEW k \in S, NEW m \in S, k < m PROVE c(k) < c(m)
  <2>1. L(k) \in SUBSET L(m) /\ m \in L(m) /\ m \notin L(k)
    <3>1. k \in Nat /\ m \in Nat /\ m <= m /\ ~ (m <= k)
      BY <1>4
    <3>2. \A j \in S : j <= k => j <= m
      BY <1>4, <3>1
    <3> QED BY <3>1, <3>2
  <2> HIDE DEF L
  <2>2. Cardinality(L(k)) <= Cardinality(L(m)) /\ Cardinality(L(k)) # Cardinality(L(m))
    BY <1>2, <2>1, FS_Subset
  <2> QED BY <1>2, <2>2
<1> HIDE DEF L, s
<1>5. \A k, m \in S : c(k) = c(m) => k = m
  <2> SUFFICES ASSUME NEW k \in S, NEW m \in S, c(k) = c(m), k # m PROVE FALSE
    OBVIOUS
  <2>1. k < m \/ m < k
    OBVIOUS
  <2>2. c(k) < c(m) \/ c(m) < c(k)
    BY <1>4, <2>1
  <2> QED BY <1>2, <2>2
<1> DEFINE f == [k \in S |-> c(k)]
           T == 1 .. N
<1>6. IsFiniteSet(T) /\ Cardinality(T) = N
  <2>1. IsFiniteSet(T) /\ Cardinality(T) = IF 1 > N THEN 0 ELSE N - 1 + 1
    BY <1>1, FS_Interval
  <2> QED BY <1>1, <2>1
<1>7. f \in Injection(S, T)
  BY <1>3, <1>5 DEF Injection, IsInjective
<1> HIDE DEF f, T, N, c
<1>8. f \in Surjection(S, T)
  BY <1>1, <1>6, <1>7, FS_Injection DEF N
<1>9. \A n \in 1 .. N : \E k \in S : c(k) = n
  BY <1>8 DEF Surjection, f, T
<1>10. Marco!Cardinality(S) = N /\ \A k : Marco!Cardinality({j \in S : j <= k}) = c(k)
  BY CountsAlike DEF N, c, L
<1>11. ASSUME NEW n \in 1 .. N PROVE s[n] \in S /\ c(s[n]) = n
  <2>1. s[n] = CHOOSE i \in S : Marco!Cardinality({j \in S : j <= i}) = n
    BY <1>10 DEF ListUp, s
  <2>2. \E i \in S : Marco!Cardinality({j \in S : j <= i}) = n
    BY <1>9, <1>10, <1>11
  <2>3. s[n] \in S /\ Marco!Cardinality({j \in S : j <= s[n]}) = n
    BY <2>1, <2>2, Zenon
  <2> QED BY <1>10, <2>3
<1>12. DOMAIN s = 1 .. N
  BY <1>10 DEF ListUp, s
<1>13. \A k : RankIn(S, k) = c(k)
  BY DEF RankIn, c, L
<1> QED BY <1>1, <1>3, <1>4, <1>5, <1>11, <1>12, <1>13 DEF N, s

(* In order, and none left out.                                            *)
LEMMA Ascending ==
  ASSUME NEW b \in Nat, NEW S, S \subseteq 1 .. b, S # {}, NEW s, s = ListUp(S)
  PROVE  /\ s \in Seq(S) /\ Len(s) \in Nat \ {0}
         /\ \A i \in 1 .. Len(s), x \in S : x < s[i] => i > 1 /\ x <= s[i - 1]
         /\ \A x \in S : x <= s[Len(s)]
         /\ \A i \in 1 .. Len(s) - 1 : s[i] < s[i + 1]
<1> DEFINE c(k) == RankIn(S, k)
           N == Cardinality(S)
<1>1. IsFiniteSet(S) /\ N \in Nat /\ N # 0
  BY Ranks, FS_EmptySet
<1>2. \A k \in S : c(k) \in 1 .. N
  BY Ranks
<1>3. ASSUME NEW k \in S, NEW m \in S, k < m PROVE c(k) < c(m)
  BY <1>3, Ranks
<1>4. Marco!Cardinality(S) = N
  BY CountsAlike DEF N
<1>5. ASSUME NEW n \in 1 .. N PROVE s[n] \in S /\ c(s[n]) = n
  BY Ranks
<1> HIDE DEF N, c
<1>6. s \in Seq(S) /\ Len(s) = N
  <2>1. s \in [1 .. N -> S]
    BY <1>4, <1>5 DEF ListUp
  <2>2. N \in Nat
    BY <1>1 DEF N
  <2> QED BY <2>1, <2>2, FunctionIsSequence, Zenon
<1>7. ASSUME NEW x \in S, NEW y \in S, c(x) <= c(y) PROVE x <= y
  <2>1. SUFFICES ASSUME y < x PROVE FALSE
    OBVIOUS
  <2>2. c(y) < c(x)
    BY <1>3, <2>1
  <2> QED BY <1>2, <1>7, <2>2
<1>8. ASSUME NEW i \in 1 .. N, NEW x \in S, x < s[i] PROVE i > 1 /\ x <= s[i - 1]
  <2>1. c(x) < i /\ c(x) \in 1 .. N
    BY <1>2, <1>3, <1>5, <1>8
  <2>2. i > 1 /\ i - 1 \in 1 .. N /\ c(x) <= i - 1
    BY <1>1, <2>1
  <2>3. s[i - 1] \in S /\ c(s[i - 1]) = i - 1
    BY <1>5, <2>2
  <2> QED BY <1>7, <2>2, <2>3
<1>9. \A x \in S : x <= s[N]
  <2> TAKE x \in S
  <2>1. N \in 1 .. N /\ c(x) <= N
    BY <1>1, <1>2
  <2> QED BY <1>5, <1>7, <2>1
<1>10. \A i \in 1 .. N - 1 : s[i] < s[i + 1]
  <2> TAKE i \in 1 .. N - 1
  <2>1. i \in 1 .. N /\ i + 1 \in 1 .. N /\ ~ (i + 1 <= i)
    BY <1>1
  <2>2. s[i] \in S /\ s[i + 1] \in S /\ c(s[i]) = i /\ c(s[i + 1]) = i + 1
    BY <1>5, <2>1
  <2>3. s[i] \in Nat /\ s[i + 1] \in Nat
    <3>1. \A x \in S : x \in Nat
      OBVIOUS
    <3> QED BY <2>2, <3>1
  <2>4. ~ (s[i + 1] < s[i]) /\ s[i] # s[i + 1]
    <3>1. s[i + 1] < s[i] => c(s[i + 1]) < c(s[i])
      BY <1>3, <2>2
    <3> QED BY <2>1, <2>2, <3>1
  <2> QED BY <2>3, <2>4
<1> QED BY <1>1, <1>6, <1>8, <1>9, <1>10

(* A table holds a prefix of the rows of its file, also amid a batch: what *)
(* lies between the rows of a batch, and in front of it, is empty.         *)
IngestType(tx) ==
  [pc : {"idle", "read", "insert"}, table : {""} \cup DOMAIN tx, at : Nat, stop : Nat, batch : Seq(Nat)]

InLine(tx, t, has, stop, batch, end) ==
  /\ Len(batch) > 0 /\ \A i \in 1 .. Len(batch) : batch[i] \in 1 .. stop /\ tx[t][batch[i]] = "row"
  /\ has = UpTo(tx, t, batch[1] - 1) /\ end = batch[Len(batch)] + 1
  /\ \A i \in 1 .. Len(batch) - 1 : UpTo(tx, t, batch[i + 1] - 1) = UpTo(tx, t, batch[i])

TablesInv ==
  /\ text \in Texts /\ DOMAIN rows = DOMAIN text /\ ingest \in IngestType(text)
  /\ \A t \in DOMAIN text : IsPrefixOf(text, t, rows[t])
  /\ ingest.pc # "idle" =>
       LET t == ingest.table
       IN /\ t \in DOMAIN text /\ ingest.stop \in 0 .. Len(text[t]) /\ ingest.at \in 1 .. ingest.stop + 1
          /\ ingest.pc = "read" => rows[t] = UpTo(text, t, ingest.at - 1)
          /\ ingest.pc = "insert" =>
               InLine(text, t, rows[t], ingest.stop, ingest.batch, ingest.at)

LEMMA TextsTyped ==
  ASSUME Marco!TextsAssumption, Marco!UsersAssumption, NEW tx \in Texts
  PROVE  /\ DOMAIN tx = {"collection", "queries"}
         /\ \A t \in DOMAIN tx : /\ tx[t] \in Seq({"row", "empty", "bad"}) /\ Len(tx[t]) \in Nat
                                 /\ BatchOf[t] \in Nat
BY DEF Marco!TextsAssumption, Marco!UsersAssumption

LEMMA UpToMore ==
  ASSUME NEW tx, NEW t, NEW n \in Nat, NEW m \in Nat, n <= m,
         \A i \in n + 1 .. m : tx[t][i] # "row"
  PROVE  UpTo(tx, t, m) = UpTo(tx, t, n)
<1>1. ASSUME NEW i \in UpTo(tx, t, m) PROVE i \in UpTo(tx, t, n)
  BY DEF UpTo
<1>2. ASSUME NEW i \in UpTo(tx, t, n) PROVE i \in UpTo(tx, t, m)
  BY DEF UpTo
<1> QED BY <1>1, <1>2

LEMMA UpToNext ==
  ASSUME NEW tx, NEW t, NEW n \in Nat \ {0}, tx[t][n] = "row"
  PROVE  UpTo(tx, t, n - 1) \cup {n} = UpTo(tx, t, n)
<1>1. ASSUME NEW i \in UpTo(tx, t, n) PROVE i \in UpTo(tx, t, n - 1) \cup {n}
  BY DEF UpTo
<1>2. ASSUME NEW i \in UpTo(tx, t, n - 1) \cup {n} PROVE i \in UpTo(tx, t, n)
  BY DEF UpTo
<1> QED BY <1>1, <1>2

(* The greatest row of a prefix is where it ends.                          *)
LEMMA PrefixEnds ==
  ASSUME NEW tx, NEW t, NEW n \in Nat, NEW m, m = Marco!Max(UpTo(tx, t, n) \cup {0})
  PROVE  m \in 0 .. n /\ UpTo(tx, t, m) = UpTo(tx, t, n)
<1> DEFINE S == UpTo(tx, t, n) \cup {0}
<1>1. S \subseteq 0 .. n /\ S # {}
  BY DEF UpTo
<1>2. m = Marco!Max(S)
  OBVIOUS
<1> HIDE DEF S
<1>3. m \in S /\ \A i \in S : i <= m
  BY <1>1, <1>2, GreatestOf
<1>4. m \in 0 .. n
  BY <1>1, <1>3
<1>5. \A i \in m + 1 .. n : tx[t][i] # "row"
  <2> SUFFICES ASSUME NEW i \in m + 1 .. n, tx[t][i] = "row" PROVE FALSE
    OBVIOUS
  <2>1. i \in 1 .. n /\ i > m
    BY <1>4
  <2>2. i \in S
    BY <2>1 DEF S, UpTo
  <2> QED BY <1>3, <1>4, <2>1, <2>2
<1>6. m \in Nat /\ m <= n
  BY <1>4
<1> QED BY <1>4, <1>5, <1>6, UpToMore

LEMMA NoneIsSequence == \A S : <<>> \in Seq(S)
OBVIOUS

LEMMA IngestStarts ==
  ASSUME Marco!TextsAssumption, Marco!UsersAssumption, TablesInv,
         NEW t \in Marco!Tables, NEW limit \in Nat, Marco!IngestStart(t, limit)
  PROVE  TablesInv'
<1> DEFINE m == Marco!MaxRowId(t)
           stop == Marco!Smaller(Len(text[t]), (m + 1) - 1 + limit)
<1>1. /\ t \in DOMAIN text /\ text \in Texts /\ Len(text[t]) \in Nat
  BY TextsTyped DEF TablesInv, Marco!Tables
<1>2. PICK n \in 0 .. Len(text[t]) : rows[t] = UpTo(text, t, n)
  BY <1>1 DEF TablesInv, IsPrefixOf
<1>3. n \in Nat
  BY <1>1, <1>2
<1>4. m = Marco!Max(UpTo(text, t, n) \cup {0})
  BY <1>2 DEF Marco!MaxRowId
<1>5. m \in 0 .. n /\ UpTo(text, t, m) = UpTo(text, t, n)
  BY <1>3, <1>4, PrefixEnds
<1>6. /\ ingest' = [pc |-> "read", table |-> t, at |-> m + 1, stop |-> stop, batch |-> <<>>]
      /\ m + 1 <= stop /\ text' = text /\ rows' = rows
  <2>1. text' = text /\ rows' = rows
    BY DEF Marco!IngestStart
  <2>2. m + 1 <= stop
    BY DEF Marco!IngestStart
  <2>3. ingest' = [pc |-> "read", table |-> t, at |-> m + 1, stop |-> stop, batch |-> <<>>]
    BY DEF Marco!IngestStart
  <2> QED BY <2>1, <2>2, <2>3
<1> HIDE DEF m
<1>7. stop \in 0 .. Len(text[t])
  BY <1>1, <1>5 DEF Marco!Smaller
<1> HIDE DEF stop
<1>8. m \in Nat /\ m + 1 \in Nat /\ stop \in Nat /\ m + 1 \in 1 .. stop + 1 /\ (m + 1) - 1 = m
  BY <1>1, <1>3, <1>5, <1>6, <1>7
<1>9. ingest' \in IngestType(text)
  BY <1>1, <1>6, <1>8, NoneIsSequence DEF IngestType
<1> QED BY <1>1, <1>2, <1>5, <1>6, <1>7, <1>8, <1>9 DEF TablesInv

LEMMA IngestStops ==
  ASSUME TablesInv, text' = text, rows' = rows, ingest' = Marco!NotIngesting PROVE TablesInv'
<1>1. ingest' \in IngestType(text) /\ ingest'.pc = "idle"
  BY NoneIsSequence DEF IngestType, Marco!NotIngesting
<1> QED BY <1>1 DEF TablesInv

LEMMA TailsAre ==
  ASSUME NEW S, NEW b \in Seq(S), Len(b) > 0
  PROVE  /\ Tail(b) \in Seq(S) /\ Head(b) = b[1] /\ Len(b) \in Nat \ {0} /\ Len(Tail(b)) = Len(b) - 1
         /\ \A i \in 1 .. Len(b) - 1 : Tail(b)[i] = b[i + 1]
OBVIOUS

LEMMA RowIsAdded ==
  ASSUME Marco!TextsAssumption, Marco!UsersAssumption, TablesInv, Marco!IngestRow
  PROVE  TablesInv'
<1> DEFINE t == ingest.table
           b == ingest.batch
           has == rows[t] \cup {Head(b)}
<1>1. /\ ingest \in IngestType(text) /\ t \in DOMAIN text /\ text \in Texts /\ text' = text
      /\ DOMAIN rows = DOMAIN text /\ Len(text[t]) \in Nat /\ ingest.stop \in 0 .. Len(text[t])
      /\ InLine(text, t, rows[t], ingest.stop, b, ingest.at) /\ ingest.at \in 1 .. ingest.stop + 1
      /\ \A u \in DOMAIN text : IsPrefixOf(text, u, rows[u])
  BY TextsTyped DEF TablesInv, Marco!IngestRow
<1>2. /\ rows' = [rows EXCEPT ![t] = has]
      /\ ingest' = [ingest EXCEPT !.batch = Tail(b), !.pc = IF Len(b) = 1 THEN "read" ELSE "insert"]
  BY DEF Marco!IngestRow
<1>3. b \in Seq(Nat) /\ Len(b) > 0
  BY <1>1 DEF InLine, IngestType
<1>4. /\ Tail(b) \in Seq(Nat) /\ Head(b) = b[1] /\ Len(b) \in Nat \ {0} /\ Len(Tail(b)) = Len(b) - 1
      /\ \A i \in 1 .. Len(b) - 1 : Tail(b)[i] = b[i + 1]
  BY <1>3, TailsAre
<1>5. b[1] \in 1 .. ingest.stop /\ text[t][b[1]] = "row" /\ b[1] \in Nat \ {0}
  <2>1. \A i \in 1 .. Len(b) : b[i] \in 1 .. ingest.stop /\ text[t][b[i]] = "row"
    BY <1>1 DEF InLine
  <2>2. 1 \in 1 .. Len(b)
    BY <1>4
  <2>3. b[1] \in 1 .. ingest.stop /\ text[t][b[1]] = "row"
    BY <2>1, <2>2
  <2> QED BY <1>1, <2>3
<1>6. has = UpTo(text, t, b[1])
  BY <1>1, <1>4, <1>5, UpToNext DEF InLine
<1>7. IsPrefixOf(text, t, has)
  <2>1. b[1] \in 0 .. Len(text[t])
    BY <1>1, <1>5
  <2> QED BY <1>6, <2>1 DEF IsPrefixOf
<1>8. /\ ingest' \in IngestType(text) /\ ingest'.table = t /\ ingest'.stop = ingest.stop
      /\ ingest'.at = ingest.at /\ ingest'.batch = Tail(b)
      /\ ingest'.pc = IF Len(b) = 1 THEN "read" ELSE "insert"
  BY <1>1, <1>2, <1>4 DEF IngestType
<1>9. ASSUME Len(b) = 1 PROVE has = UpTo(text, t, ingest.at - 1)
  <2>1. ingest.at = b[1] + 1 /\ (b[1] + 1) - 1 = b[1]
    BY <1>1, <1>5, <1>9 DEF InLine
  <2> QED BY <1>6, <2>1
<1>10. ASSUME Len(b) # 1 PROVE InLine(text, t, has, ingest.stop, Tail(b), ingest.at)
  <2>1. Len(b) - 1 \in Nat \ {0} /\ 1 \in 1 .. Len(b) - 1 /\ (Len(b) - 1) + 1 = Len(b)
    <3> DEFINE l == Len(b)
    <3>1. l \in Nat \ {0} /\ l # 1
      BY <1>4, <1>10
    <3> HIDE DEF l
    <3>2. l - 1 \in Nat \ {0} /\ 1 \in 1 .. l - 1 /\ (l - 1) + 1 = l
      BY <3>1
    <3> QED BY <3>2 DEF l
  <2>2. /\ \A i \in 1 .. Len(b) : b[i] \in 1 .. ingest.stop /\ text[t][b[i]] = "row"
        /\ \A i \in 1 .. Len(b) - 1 : UpTo(text, t, b[i + 1] - 1) = UpTo(text, t, b[i])
        /\ ingest.at = b[Len(b)] + 1
    BY <1>1 DEF InLine
  <2>3. \A i \in 1 .. Len(Tail(b)) :
          Tail(b)[i] \in 1 .. ingest.stop /\ text[t][Tail(b)[i]] = "row"
    <3> TAKE i \in 1 .. Len(Tail(b))
    <3>1. Tail(b)[i] = b[i + 1] /\ i + 1 \in 1 .. Len(b)
      BY <1>4
    <3> QED BY <2>2, <3>1
  <2>4. has = UpTo(text, t, Tail(b)[1] - 1)
    BY <1>4, <1>6, <2>1, <2>2
  <2>5. ingest.at = Tail(b)[Len(Tail(b))] + 1
    BY <1>4, <2>1, <2>2
  <2>6. \A i \in 1 .. Len(Tail(b)) - 1 :
          UpTo(text, t, Tail(b)[i + 1] - 1) = UpTo(text, t, Tail(b)[i])
    <3> TAKE i \in 1 .. Len(Tail(b)) - 1
    <3>1. i + 1 \in 1 .. Len(b) - 1 /\ i \in 1 .. Len(b) - 1
      BY <1>4
    <3>2. Tail(b)[i] = b[i + 1] /\ Tail(b)[i + 1] = b[(i + 1) + 1]
      BY <1>4, <3>1
    <3> QED BY <2>2, <3>1, <3>2
  <2>7. Len(Tail(b)) > 0
    BY <1>4, <2>1
  <2> QED BY <2>3, <2>4, <2>5, <2>6, <2>7 DEF InLine
<1> HIDE DEF t, b, has
<1>11. rows'[t] = has /\ DOMAIN rows' = DOMAIN rows /\ \A u \in DOMAIN text \ {t} : rows'[u] = rows[u]
  BY <1>1, <1>2
<1>12. \A u \in DOMAIN text : IsPrefixOf(text, u, rows'[u])
  BY <1>1, <1>7, <1>11
<1> QED BY <1>1, <1>8, <1>9, <1>10, <1>11, <1>12 DEF TablesInv

LEMMA BatchIsRead ==
  ASSUME Marco!TextsAssumption, Marco!UsersAssumption, TablesInv, Marco!IngestBatch
  PROVE  TablesInv'
<1> DEFINE t == ingest.table
           ahead == {i \in ingest.at .. ingest.stop : text[t][i] # "empty"}
           batch == {i \in ahead : Marco!Cardinality({j \in ahead : j < i}) < BatchOf[t]}
           listed == ListUp(batch)
<1>1. /\ ingest \in IngestType(text) /\ t \in DOMAIN text /\ text \in Texts /\ text' = text /\ rows' = rows
      /\ DOMAIN rows = DOMAIN text /\ Len(text[t]) \in Nat /\ ingest.stop \in 0 .. Len(text[t])
      /\ text[t] \in Seq({"row", "empty", "bad"}) /\ BatchOf[t] \in Nat
      /\ rows[t] = UpTo(text, t, ingest.at - 1) /\ ingest.at \in 1 .. ingest.stop + 1
      /\ \A u \in DOMAIN text : IsPrefixOf(text, u, rows[u])
  BY TextsTyped DEF TablesInv, Marco!IngestBatch
<1>2. \/ ingest' = Marco!NotIngesting
      \/ /\ batch # {} /\ \A i \in batch : text[t][i] # "bad"
         /\ ingest' = [ingest EXCEPT !.pc = "insert", !.at = Marco!Max(batch) + 1, !.batch = listed]
  BY Zenon DEF Marco!IngestBatch, ListUp
<1> SUFFICES ASSUME batch # {}, \A i \in batch : text[t][i] # "bad",
                    ingest' = [ingest EXCEPT !.pc = "insert", !.at = Marco!Max(batch) + 1,
                                             !.batch = listed]
             PROVE  TablesInv'
  BY <1>1, <1>2, IngestStops
<1> DEFINE stop == ingest.stop
           from == ingest.at
<1>3. stop \in Nat /\ from \in Nat \ {0} /\ ahead \subseteq 1 .. stop /\ batch \subseteq ahead
  BY <1>1
<1>4. ASSUME NEW i \in batch, NEW j \in ahead, j < i PROVE j \in batch
  <2> DEFINE L(k) == {m \in ahead : m < k}
  <2>1. IsFiniteSet(L(i)) /\ L(j) \in SUBSET L(i)
    <3>1. IsFiniteSet(1 .. stop)
      <4>1. stop \in Nat
        BY <1>3
      <4> QED BY UpToIsFinite, <4>1, Zenon
    <3>2. L(i) \in SUBSET (1 .. stop)
      BY <1>3
    <3>3. i \in Nat /\ j \in Nat
      BY <1>3
    <3>4. \A m \in ahead : m < j => m < i
      BY <1>3, <1>4, <3>3
    <3> HIDE DEF ahead
    <3> QED BY <3>1, <3>2, <3>4, FS_Subset
  <2> HIDE DEF L, ahead
  <2>2. Cardinality(L(j)) <= Cardinality(L(i)) /\ Cardinality(L(j)) \in Nat /\ Cardinality(L(i)) \in Nat
    BY <2>1, FS_Subset, FS_CardinalityType
  <2>3. Marco!Cardinality(L(i)) < BatchOf[t]
    BY DEF L
  <2>4. Marco!Cardinality(L(j)) < BatchOf[t]
    BY <1>1, <2>2, <2>3, CountsAlike
  <2> QED BY <2>4 DEF L
<1> HIDE DEF ahead, batch, listed
<1>5. batch \subseteq 1 .. stop
  BY <1>3
<1>6. /\ listed \in Seq(batch) /\ Len(listed) \in Nat \ {0}
      /\ \A i \in 1 .. Len(listed), x \in batch : x < listed[i] => i > 1 /\ x <= listed[i - 1]
      /\ \A x \in batch : x <= listed[Len(listed)]
      /\ \A i \in 1 .. Len(listed) - 1 : listed[i] < listed[i + 1]
  BY <1>3, <1>5, Ascending DEF listed
<1> DEFINE L == Len(listed)
<1>7. /\ \A i \in 1 .. L : listed[i] \in batch /\ listed[i] \in from .. stop /\ text[t][listed[i]] = "row"
      /\ listed \in Seq(Nat)
  <2>1. ASSUME NEW i \in batch PROVE i \in from .. stop /\ text[t][i] \in {"row", "empty", "bad"} /\ text[t][i] # "empty"
    <3>1. i \in from .. stop /\ text[t][i] # "empty"
      BY <1>3 DEF ahead
    <3>2. i \in 1 .. Len(text[t])
      BY <1>1, <3>1
    <3> QED BY <1>1, <3>1, <3>2
  <2>2. \A i \in 1 .. L : listed[i] \in batch
    BY <1>6
  <2> QED BY <1>5, <1>6, <2>1, <2>2
<1>8. \A i \in 1 .. L - 1 : UpTo(text, t, listed[i + 1] - 1) = UpTo(text, t, listed[i])
  <2> TAKE i \in 1 .. L - 1
  <2>1. i + 1 \in 1 .. L /\ i \in 1 .. L /\ (i + 1) - 1 = i
    BY <1>6
  <2> DEFINE x == listed[i]
             y == listed[i + 1]
  <2>2. x \in batch /\ y \in batch /\ x \in from .. stop /\ y \in from .. stop
    BY <1>7, <2>1
  <2>3. x < y /\ x \in Nat /\ y \in Nat /\ y - 1 \in Nat /\ x <= y - 1
    <3>1. x < y
      BY <1>6, <2>1
    <3> HIDE DEF x, y
    <3>2. x \in Nat /\ y \in Nat
      BY <1>3, <2>2
    <3> QED BY <3>1, <3>2
  <2>4. \A j \in x + 1 .. y - 1 : text[t][j] # "row"
    <3> SUFFICES ASSUME NEW j \in x + 1 .. y - 1, text[t][j] = "row" PROVE FALSE
      OBVIOUS
    <3>1. j \in from .. stop /\ x < j /\ j < y /\ j \in Nat
      <4> HIDE DEF x, y
      <4> QED BY <1>3, <2>2, <2>3
    <3>2. j \in ahead
      BY <3>1 DEF ahead
    <3>3. j \in batch
      BY <1>4, <2>2, <3>1, <3>2
    <3>4. j <= listed[(i + 1) - 1]
      BY <1>6, <2>1, <3>1, <3>3
    <3> QED BY <2>1, <2>3, <3>1, <3>4
  <2> HIDE DEF x, y
  <2>5. UpTo(text, t, y - 1) = UpTo(text, t, x)
    BY <2>3, <2>4, UpToMore
  <2> QED BY <2>5 DEF x, y
<1>9. rows[t] = UpTo(text, t, listed[1] - 1)
  <2> DEFINE y == listed[1]
  <2>1. 1 \in 1 .. L /\ ~ (1 > 1)
    BY <1>6
  <2>2. y \in batch /\ y \in from .. stop
    BY <1>7, <2>1
  <2>3. y - 1 \in Nat /\ from - 1 \in Nat /\ from - 1 <= y - 1 /\ (from - 1) + 1 = from
    BY <1>3, <2>2
  <2>4. \A j \in (from - 1) + 1 .. y - 1 : text[t][j] # "row"
    <3> SUFFICES ASSUME NEW j \in (from - 1) + 1 .. y - 1, text[t][j] = "row" PROVE FALSE
      OBVIOUS
    <3>1. j \in from .. stop /\ j < y
      BY <1>3, <2>2, <2>3
    <3>2. j \in ahead
      BY <3>1 DEF ahead
    <3>3. j \in batch
      BY <1>4, <2>2, <3>1, <3>2
    <3> QED BY <1>6, <2>1, <3>1, <3>3
  <2> HIDE DEF y
  <2>5. UpTo(text, t, y - 1) = UpTo(text, t, from - 1)
    BY <2>3, <2>4, UpToMore
  <2> QED BY <1>1, <2>5 DEF y
<1>10. Marco!Max(batch) = listed[L] /\ L \in 1 .. L /\ listed[L] \in 1 .. stop
  <2>1. L \in 1 .. L /\ listed[L] \in batch
    BY <1>6, <1>7
  <2>2. batch \subseteq 0 .. stop
    BY <1>5
  <2>3. Marco!Max(batch) \in batch /\ \A m \in batch : m <= Marco!Max(batch)
    BY <1>3, <2>2, GreatestOf
  <2> DEFINE M == Marco!Max(batch)
  <2> HIDE DEF M
  <2>4. M \in Nat /\ listed[L] \in Nat /\ M <= listed[L] /\ listed[L] <= M
    BY <1>5, <1>6, <2>1, <2>3 DEF M
  <2>5. M = listed[L]
    BY <2>4
  <2> QED BY <1>5, <2>1, <2>5 DEF M
<1> DEFINE next_at == Marco!Max(batch) + 1
<1>11. next_at = listed[L] + 1 /\ next_at \in 1 .. stop + 1 /\ next_at \in Nat
  BY <1>3, <1>10
<1> HIDE DEF next_at
<1>12. InLine(text, t, rows[t], stop, listed, next_at)
  <2>1. \A i \in 1 .. Len(listed) : listed[i] \in 1 .. stop /\ text[t][listed[i]] = "row"
    BY <1>5, <1>7
  <2> QED BY <1>6, <1>8, <1>9, <1>11, <2>1 DEF InLine
<1>13. /\ ingest' \in IngestType(text) /\ ingest'.table = t /\ ingest'.stop = stop
       /\ ingest'.at = next_at /\ ingest'.batch = listed /\ ingest'.pc = "insert"
  <2>1. ingest' = [ingest EXCEPT !.pc = "insert", !.at = next_at, !.batch = listed]
    BY DEF next_at
  <2> QED BY <1>1, <1>7, <1>11, <2>1 DEF IngestType
<1> QED BY <1>1, <1>11, <1>12, <1>13 DEF TablesInv

LEMMA TablesInit == Marco!TextsAssumption /\ Marco!UsersAssumption /\ Marco!TablesInit => TablesInv
<1> SUFFICES ASSUME Marco!TextsAssumption, Marco!UsersAssumption, Marco!TablesInit PROVE TablesInv
  OBVIOUS
<1>1. /\ text \in Texts /\ DOMAIN rows = DOMAIN text /\ \A t \in DOMAIN text : rows[t] = {}
      /\ ingest = Marco!NotIngesting
  BY DEF Marco!TablesInit, Marco!Tables
<1>2. \A t \in DOMAIN text : IsPrefixOf(text, t, rows[t])
  <2> TAKE t \in DOMAIN text
  <2>1. 0 \in 0 .. Len(text[t])
    BY <1>1, TextsTyped
  <2>2. UpTo(text, t, 0) = {}
    BY DEF UpTo
  <2> QED BY <1>1, <2>1, <2>2 DEF IsPrefixOf
<1>3. ingest \in IngestType(text) /\ ingest.pc = "idle"
  BY <1>1, NoneIsSequence DEF IngestType, Marco!NotIngesting
<1> QED BY <1>1, <1>2, <1>3 DEF TablesInv

LEMMA TablesArePrefixes ==
  ASSUME Marco!TextsAssumption, Marco!UsersAssumption, TablesInv
  PROVE  Marco!TablesArePrefixes
<1> SUFFICES ASSUME NEW t \in DOMAIN text, NEW i \in rows[t]
             PROVE  /\ text[t][i] = "row"
                    /\ \A j \in 1 .. i : text[t][j] = "row" => j \in rows[t]
  BY DEF Marco!TablesArePrefixes, Marco!Tables
<1>1. PICK n \in 0 .. Len(text[t]) : rows[t] = UpTo(text, t, n)
  BY DEF TablesInv, IsPrefixOf
<1>2. Len(text[t]) \in Nat
  BY TextsTyped DEF TablesInv
<1> QED BY <1>1, <1>2 DEF UpTo

-----------------------------------------------------------------------------
(***************************************************************************)
(* The files of the evaluation.                                            *)
(***************************************************************************)
Content(d, f) == IF f \in DOMAIN d THEN d[f] ELSE Marco!Nothing
Full(d, f)    == Content(d, f).state = "whole"
Held(d, f)    == Content(d, f).value
There(d, f)   == Content(d, f).state # "none"

Ranked == {"rank", "rank_meta"}

(* A file is overwritten, and ranks of a run that is overwritten get old.  *)
Overwrite(d, f, c) ==
  [g \in DOMAIN d \cup {f} |->
     IF g = f THEN c
     ELSE IF f[1] = "npz" /\ g[1] \in Ranked /\ g[2] = f[2] /\ Full(d, g)
     THEN [d[g] EXCEPT !.value.of = "old"]
     ELSE d[g]]

DiskType(d) ==
  \A f \in DOMAIN d :
    /\ d[f] = Marco!Torn \/ d[f] = Marco!Whole(d[f].value)
    /\ f[1] = "npz" => f[2] \in Nat /\ f = Marco!Npz(f[2])

RunsOn(d) == {f[2] : f \in {g \in DOMAIN d : g[1] = "npz"}}

(* Arrays are those of the first rows of the table.                        *)
Loadable(tx, has, v) == IsPrefixOf(tx, "collection", v) /\ 1 \in v /\ v \subseteq has["collection"]

Prints(has) == [t \in DOMAIN has |-> Marco!Cardinality(has[t])]

(* Meta data that vouches for the cached arrays are those of arrays as the *)
(* table is now.                                                           *)
MetaSound(d, tx, has, tch) ==
  /\ Full(d, <<"a">>) => Loadable(tx, has, Held(d, <<"a">>))
  /\ Full(d, <<"meta">>) =>
       /\ There(d, <<"a">>) /\ There(d, <<"bc">>)
       /\ \A t \in DOMAIN has : Held(d, <<"meta">>)[t] <= Cardinality(has[t])
       /\ Held(d, <<"meta">>) \in [DOMAIN has -> Nat]
       /\ ~ tch /\ Held(d, <<"meta">>) = Prints(has) =>
            Full(d, <<"a">>) /\ Held(d, <<"a">>) = has["collection"]

Miss(d, has, tch) == tch \/ ~ Full(d, <<"meta">>) \/ Held(d, <<"meta">>) # Prints(has)

Vouched(d, n, x) ==
  Full(d, <<"scaled_meta">>) /\ Held(d, <<"scaled_meta">>) = [N |-> n, scale |-> x]

(* A scaled copy is that of its rows, or known to be spoiled if meta data  *)
(* vouch for it.                                                           *)
CopySound(d, tx, sp) ==
  \A n \in Nat : \A x :
    LET copy == <<"scaled", n, x>>
    IN /\ Full(d, copy) => Held(d, copy) = UpTo(tx, "collection", n)
       /\ Content(d, copy) = Marco!Torn /\ Vouched(d, n, x) => copy \in sp

(* Ranks whose meta data are those of the run are the run's.               *)
RunSound(d) ==
  /\ \A r \in Nat : Full(d, Marco!Npz(r)) => Held(d, Marco!Npz(r)).schemes \subseteq Marco!Schemes
  /\ \A r \in Nat, s \in Marco!Schemes :
       LET meta == Marco!RankMeta(r, s)
           rank == Marco!Rank(r, s)
       IN Full(d, meta) =>
            /\ "of" \in DOMAIN Held(d, meta)
            /\ Held(d, meta).of = "current" =>
                 /\ Full(d, Marco!Npz(r)) /\ Held(d, meta).k = Held(d, Marco!Npz(r)).k
                 /\ Full(d, rank) => Held(d, rank).of = "current"

Overwritten(d, f, c, e) ==
  /\ Content(e, f) = c /\ DOMAIN e = DOMAIN d \cup {f}
  /\ \A g : g # f /\ ~ (f[1] = "npz" /\ g[1] \in Ranked /\ g[2] = f[2])
            => Content(e, g) = Content(d, g)
  /\ \A g : g # f /\ f[1] = "npz" /\ g[1] \in Ranked /\ g[2] = f[2] =>
       /\ Full(e, g) => /\ Full(d, g) /\ DOMAIN Held(e, g) = DOMAIN Held(d, g)
                        /\ "of" \in DOMAIN Held(d, g) => Held(e, g).of = "old"

LEMMA OverwriteContent ==
  ASSUME NEW d, DiskType(d), NEW f, NEW c, NEW e, e = Overwrite(d, f, c)
  PROVE  Overwritten(d, f, c, e)
<1>1. Content(e, f) = c /\ DOMAIN e = DOMAIN d \cup {f}
  BY DEF Overwrite, Content
<1>2. ASSUME NEW g, g # f, ~ (f[1] = "npz" /\ g[1] \in Ranked /\ g[2] = f[2])
      PROVE  Content(e, g) = Content(d, g)
  <2>1. CASE g \in DOMAIN d
    <3>1. e[g] = d[g]
      BY <1>2, <2>1 DEF Overwrite
    <3> QED BY <1>1, <2>1, <3>1 DEF Content
  <2>2. CASE g \notin DOMAIN d
    BY <1>1, <1>2, <2>2 DEF Content
  <2> QED BY <2>1, <2>2
<1>3. ASSUME NEW g, g # f, f[1] = "npz", g[1] \in Ranked, g[2] = f[2], Full(e, g)
      PROVE  /\ Full(d, g) /\ DOMAIN Held(e, g) = DOMAIN Held(d, g)
             /\ "of" \in DOMAIN Held(d, g) => Held(e, g).of = "old"
  <2>1. g \in DOMAIN d
    BY <1>1, <1>3 DEF Full, Content, Marco!Nothing
  <2>2. e[g] = IF Full(d, g) THEN [d[g] EXCEPT !.value.of = "old"] ELSE d[g]
    BY <1>3, <2>1 DEF Overwrite
  <2>3. Content(e, g) = e[g] /\ Content(d, g) = d[g]
    BY <1>1, <2>1 DEF Content
  <2>4. Full(d, g)
    BY <1>3, <2>2, <2>3 DEF Full
  <2> DEFINE v == d[g].value
  <2>5. d[g] = [state |-> "whole", value |-> v]
    BY <2>1, <2>3, <2>4 DEF DiskType, Full, Marco!Torn, Marco!Whole
  <2>6. e[g] = [d[g] EXCEPT !.value = [v EXCEPT !.of = "old"]]
    BY <2>2, <2>4
  <2> HIDE DEF v
  <2>7. e[g].value = [v EXCEPT !.of = "old"]
    BY <2>5, <2>6
  <2> QED BY <2>3, <2>4, <2>7 DEF Held, v
<1> QED BY <1>1, <1>2, <1>3 DEF Overwritten

(* A file that is written is torn by a kill, or whole.                     *)
Comes(c, v) == c = Marco!Torn \/ c = Marco!Whole(v)

LEMMA DiskIsTyped ==
  ASSUME NEW d, DiskType(d), NEW f, NEW c, NEW v, Comes(c, v),
         f[1] = "npz" => f[2] \in Nat /\ f = Marco!Npz(f[2]), NEW e, e = Overwrite(d, f, c)
  PROVE  DiskType(e)
<1> SUFFICES ASSUME NEW g \in DOMAIN d \cup {f}
             PROVE  /\ e[g] = Marco!Torn \/ e[g] = Marco!Whole(e[g].value)
                    /\ g[1] = "npz" => g[2] \in Nat /\ g = Marco!Npz(g[2])
  BY DEF DiskType, Overwrite
<1>1. g[1] = "npz" => g[2] \in Nat /\ g = Marco!Npz(g[2])
  BY DEF DiskType
<1>2. CASE g = f
  BY <1>1, <1>2 DEF Overwrite, Comes, Marco!Whole
<1>3. CASE g # f
  <2>1. g \in DOMAIN d /\ (d[g] = Marco!Torn \/ d[g] = Marco!Whole(d[g].value))
    BY <1>3 DEF DiskType
  <2>2. e[g] = d[g] \/ (Full(d, g) /\ e[g] = [d[g] EXCEPT !.value.of = "old"])
    BY <1>3, <2>1 DEF Overwrite
  <2>3. ASSUME Full(d, g), e[g] = [d[g] EXCEPT !.value.of = "old"]
        PROVE  e[g] = Marco!Whole(e[g].value)
    <3> DEFINE v1 == d[g].value
               v2 == [v1 EXCEPT !.of = "old"]
    <3>1. d[g] = [state |-> "whole", value |-> v1]
      BY <2>1, <2>3 DEF Full, Content, Marco!Torn, Marco!Whole
    <3>2. e[g] = [d[g] EXCEPT !.value = v2]
      BY <2>3
    <3> HIDE DEF v1, v2
    <3> QED BY <3>1, <3>2 DEF Marco!Whole
  <2> QED BY <1>1, <2>1, <2>2, <2>3
<1> QED BY <1>2, <1>3

LEMMA MetaStays ==
  ASSUME NEW d, DiskType(d), NEW f, NEW c, NEW e, Overwritten(d, f, c, e),
         f[1] \notin {"meta", "a", "bc"},
         NEW tx, NEW has, NEW tch, MetaSound(d, tx, has, tch)
  PROVE  MetaSound(e, tx, has, tch)
<1>1. /\ Content(e, <<"meta">>) = Content(d, <<"meta">>)
      /\ Content(e, <<"a">>) = Content(d, <<"a">>) /\ Content(e, <<"bc">>) = Content(d, <<"bc">>)
  BY DEF Overwritten, Ranked
<1> QED BY <1>1 DEF MetaSound, Full, Held, There

LEMMA CopiesStay ==
  ASSUME NEW d, DiskType(d), NEW f, NEW c, NEW e, Overwritten(d, f, c, e),
         f[1] \notin {"scaled", "scaled_meta"},
         NEW tx, NEW sp, CopySound(d, tx, sp)
  PROVE  CopySound(e, tx, sp)
<1>1. Content(e, <<"scaled_meta">>) = Content(d, <<"scaled_meta">>)
  BY DEF Overwritten, Ranked
<1>2. \A n \in Nat : \A x : Content(e, <<"scaled", n, x>>) = Content(d, <<"scaled", n, x>>)
  <2> TAKE n \in Nat
  <2> TAKE x
  <2>1. <<"scaled", n, x>>[1] = "scaled"
    OBVIOUS
  <2> QED BY <2>1 DEF Overwritten, Ranked
<1> QED BY <1>1, <1>2 DEF CopySound, Vouched, Full, Held

LEMMA RunsStay ==
  ASSUME NEW d, DiskType(d), NEW f, NEW c, NEW e, Overwritten(d, f, c, e),
         f[1] \notin {"npz", "rank", "rank_meta"}, RunSound(d)
  PROVE  RunSound(e) /\ RunsOn(e) = RunsOn(d) /\ \A r : Content(e, Marco!Npz(r)) = Content(d, Marco!Npz(r))
<1>1. \A r : Content(e, Marco!Npz(r)) = Content(d, Marco!Npz(r))
  <2> TAKE r
  <2>1. Marco!Npz(r)[1] = "npz"
    BY DEF Marco!Npz
  <2> QED BY <2>1 DEF Overwritten, Ranked
<1>2. \A r, s : /\ Content(e, Marco!Rank(r, s)) = Content(d, Marco!Rank(r, s))
                /\ Content(e, Marco!RankMeta(r, s)) = Content(d, Marco!RankMeta(r, s))
  <2> TAKE r, s
  <2>1. Marco!Rank(r, s)[1] = "rank" /\ Marco!RankMeta(r, s)[1] = "rank_meta"
    BY DEF Marco!Rank, Marco!RankMeta
  <2> QED BY <2>1 DEF Overwritten, Ranked
<1>3. DOMAIN e = DOMAIN d \cup {f}
  BY DEF Overwritten, Ranked
<1> QED BY <1>1, <1>2, <1>3 DEF RunSound, RunsOn, Full, Held

(* The arrays of a loader that missed the cache, and then their meta data. *)
LEMMA ArraysWritten ==
  ASSUME NEW d, DiskType(d), NEW c, NEW v, Comes(c, v),
         NEW f \in {<<"a">>, <<"bc">>}, NEW e, Overwritten(d, f, c, e),
         NEW tx, NEW has, NEW tch, MetaSound(d, tx, has, tch), Miss(d, has, tch),
         f = <<"a">> => Loadable(tx, has, v)
  PROVE  MetaSound(e, tx, has, tch) /\ Miss(e, has, tch)
<1>1. f[1] \in {"a", "bc"} /\ f[1] # "npz" /\ <<"meta">>[1] = "meta" /\ <<"a">>[1] = "a" /\ <<"bc">>[1] = "bc"
  OBVIOUS
<1>2. Content(e, <<"meta">>) = Content(d, <<"meta">>)
  BY <1>1 DEF Overwritten, Ranked
<1>3. Content(e, f) = c /\ There(e, f) /\ (Full(e, f) => Held(e, f) = v)
  BY DEF Overwritten, There, Full, Held, Comes, Marco!Torn, Marco!Whole
<1>4. \A x \in {<<"a">>, <<"bc">>} : x # f => Content(e, x) = Content(d, x)
  BY <1>1 DEF Overwritten, Ranked
<1>5. Full(e, <<"a">>) => Loadable(tx, has, Held(e, <<"a">>))
  BY <1>3, <1>4 DEF MetaSound, Full, Held
<1>6. Full(e, <<"meta">>) => There(e, <<"a">>) /\ There(e, <<"bc">>)
  BY <1>2, <1>3, <1>4 DEF MetaSound, Full, There
<1>7. Full(e, <<"meta">>) = Full(d, <<"meta">>) /\ Held(e, <<"meta">>) = Held(d, <<"meta">>)
  BY <1>2 DEF Full, Held
<1> QED BY <1>5, <1>6, <1>7 DEF MetaSound, Miss

LEMMA MetaTorn ==
  ASSUME NEW d, DiskType(d), NEW e, Overwritten(d, <<"meta">>, Marco!Torn, e),
         NEW tx, NEW has, NEW tch, MetaSound(d, tx, has, tch)
  PROVE  MetaSound(e, tx, has, tch)
<1>1. <<"meta">>[1] = "meta" /\ <<"a">>[1] = "a" /\ <<"bc">>[1] = "bc"
  OBVIOUS
<1>2. Content(e, <<"a">>) = Content(d, <<"a">>) /\ ~ Full(e, <<"meta">>)
  BY <1>1 DEF Overwritten, Ranked, Full, Marco!Torn
<1> QED BY <1>2 DEF MetaSound, Full, Held

(* Equally many members of a finite set are all.                           *)
LEMMA AllOf ==
  ASSUME NEW S, IsFiniteSet(S), NEW T \in SUBSET S, Cardinality(S) <= Cardinality(T)
  PROVE  T = S
<1>1. Cardinality(T) <= Cardinality(S) /\ Cardinality(S) \in Nat /\ Cardinality(T) \in Nat
  BY FS_Subset, FS_CardinalityType
<1>2. Cardinality(T) = Cardinality(S)
  BY <1>1
<1> QED BY <1>2, FS_Subset

LEMMA MetaWritten ==
  ASSUME NEW d, DiskType(d), NEW v, NEW e, Overwritten(d, <<"meta">>, Marco!Whole(v), e),
         NEW tx, NEW has, NEW tch, MetaSound(d, tx, has, tch),
         Full(d, <<"a">>), There(d, <<"bc">>), v \in [DOMAIN has -> Nat],
         "collection" \in DOMAIN has, IsFiniteSet(has["collection"]),
         \A t \in DOMAIN has : v[t] <= Cardinality(has[t]),
         NEW seen, seen \subseteq Held(d, <<"a">>), v["collection"] = Cardinality(seen)
  PROVE  MetaSound(e, tx, has, tch)
<1> DEFINE A == Held(d, <<"a">>)
           C == has["collection"]
<1>1. <<"meta">>[1] = "meta" /\ <<"a">>[1] = "a" /\ <<"bc">>[1] = "bc"
  OBVIOUS
<1>2. /\ Content(e, <<"a">>) = Content(d, <<"a">>) /\ Content(e, <<"bc">>) = Content(d, <<"bc">>)
      /\ Content(e, <<"meta">>) = Marco!Whole(v)
  BY <1>1 DEF Overwritten, Ranked
<1>3. Full(e, <<"a">>) /\ Held(e, <<"a">>) = A /\ There(e, <<"a">>) /\ There(e, <<"bc">>) /\ Held(e, <<"meta">>) = v
  BY <1>2 DEF Full, Held, There, Marco!Whole
<1>4. A \subseteq C /\ Loadable(tx, has, A)
  BY DEF MetaSound, Loadable
<1>5. ASSUME v = Prints(has) PROVE A = C
  <2>1. v["collection"] = Cardinality(C)
    BY <1>5, CountsAlike DEF Prints
  <2>2. seen \in SUBSET C /\ Cardinality(C) = Cardinality(seen)
    BY <1>4, <2>1
  <2> HIDE DEF C, A
  <2>3. Cardinality(C) \in Nat /\ Cardinality(C) <= Cardinality(seen)
    BY <2>2, FS_CardinalityType DEF C
  <2>4. seen = C
    BY <2>2, <2>3, AllOf DEF C
  <2> QED BY <1>4, <2>4 DEF A
<1> QED BY <1>3, <1>4, <1>5 DEF MetaSound

(* The scaled copy; if it is torn, meta data do not vouch for it, or it is *)
(* known to be spoiled.                                                    *)
LEMMA CopyWritten ==
  ASSUME NEW d, DiskType(d), NEW n \in Nat, NEW x, NEW c, NEW v, Comes(c, v),
         NEW e, Overwritten(d, <<"scaled", n, x>>, c, e),
         NEW tx, NEW sp, NEW sp2, CopySound(d, tx, sp), sp \subseteq sp2,
         v = UpTo(tx, "collection", n),
         c = Marco!Torn /\ Vouched(d, n, x) => <<"scaled", n, x>> \in sp2
  PROVE  CopySound(e, tx, sp2)
<1> DEFINE f == <<"scaled", n, x>>
<1>1. f[1] = "scaled" /\ <<"scaled_meta">>[1] = "scaled_meta"
  OBVIOUS
<1>2. Content(e, <<"scaled_meta">>) = Content(d, <<"scaled_meta">>) /\ Content(e, f) = c
  BY <1>1 DEF Overwritten, Ranked
<1>3. \A g : g # f => Content(e, g) = Content(d, g)
  BY <1>1 DEF Overwritten
<1> SUFFICES ASSUME NEW m \in Nat, NEW y
             PROVE  LET copy == <<"scaled", m, y>>
                    IN /\ Full(e, copy) => Held(e, copy) = UpTo(tx, "collection", m)
                       /\ Content(e, copy) = Marco!Torn /\ Vouched(e, m, y) => copy \in sp2
  BY Zenon DEF CopySound
<1> DEFINE g == <<"scaled", m, y>>
<1>4. /\ Full(d, g) => Held(d, g) = UpTo(tx, "collection", m)
      /\ Content(d, g) = Marco!Torn /\ Vouched(d, m, y) => g \in sp
  BY Zenon DEF CopySound
<1>5. CASE g = f
  <2>1. m = n /\ y = x
    BY <1>5
  <2>2. Full(e, g) => c = Marco!Whole(v)
    BY <1>2, <1>5 DEF Full, Comes, Marco!Torn
  <2>3. Full(e, g) => Held(e, g) = v
    BY <1>2, <1>5, <2>2 DEF Held, Marco!Whole
  <2>4. Vouched(e, m, y) = Vouched(d, m, y)
    BY <1>2 DEF Full, Held, Vouched
  <2> QED BY <1>2, <1>5, <2>1, <2>3, <2>4
<1>6. CASE g # f
  <2>1. Content(e, g) = Content(d, g)
    BY <1>3, <1>6
  <2>2. Vouched(e, m, y) = Vouched(d, m, y) /\ Full(e, g) = Full(d, g) /\ Held(e, g) = Held(d, g)
    BY <1>2, <2>1 DEF Full, Held, Vouched
  <2> QED BY <1>4, <2>1, <2>2
<1> QED BY <1>5, <1>6

LEMMA CopyMetaWritten ==
  ASSUME NEW d, DiskType(d), NEW n \in Nat, NEW x, NEW c,
         Comes(c, [N |-> n, scale |-> x]),
         NEW e, Overwritten(d, <<"scaled_meta">>, c, e),
         NEW tx, NEW sp, CopySound(d, tx, sp), Full(d, <<"scaled", n, x>>)
  PROVE  CopySound(e, tx, sp)
<1>1. /\ \A m, y : <<"scaled", m, y>>[1] = "scaled"
      /\ <<"scaled_meta">>[1] = "scaled_meta"
  OBVIOUS
<1>2. Content(e, <<"scaled_meta">>) = c
  BY DEF Overwritten
<1>3. \A m, y : Content(e, <<"scaled", m, y>>) = Content(d, <<"scaled", m, y>>)
  BY <1>1 DEF Overwritten, Ranked
<1> SUFFICES ASSUME NEW m \in Nat, NEW y
             PROVE  LET copy == <<"scaled", m, y>>
                    IN /\ Full(e, copy) => Held(e, copy) = UpTo(tx, "collection", m)
                       /\ Content(e, copy) = Marco!Torn /\ Vouched(e, m, y) => copy \in sp
  BY Zenon DEF CopySound
<1> DEFINE g == <<"scaled", m, y>>
<1>4. Full(d, g) => Held(d, g) = UpTo(tx, "collection", m)
  BY Zenon DEF CopySound
<1>5. Content(e, g) = Content(d, g) /\ Full(e, g) = Full(d, g) /\ Held(e, g) = Held(d, g)
  BY <1>3 DEF Full, Held
<1>6. ASSUME Content(e, g) = Marco!Torn, Vouched(e, m, y)
      PROVE  FALSE
  <2>1. [N |-> m, scale |-> y] = [N |-> n, scale |-> x]
    BY <1>2, <1>6 DEF Vouched, Full, Held, Comes, Marco!Torn, Marco!Whole
  <2>2. m = n /\ y = x
    BY <2>1
  <2> QED BY <1>5, <1>6, <2>2 DEF Full, Marco!Torn
<1> QED BY <1>4, <1>5, <1>6

(* Run files, and the ranks computed from them.                            *)
LEMMA RunWritten ==
  ASSUME NEW d, DiskType(d), NEW r \in Nat, NEW c, NEW v, Comes(c, v),
         v.schemes \subseteq Marco!Schemes, NEW e, Overwritten(d, Marco!Npz(r), c, e), RunSound(d)
  PROVE  RunSound(e)
<1> DEFINE f == Marco!Npz(r)
<1>1. /\ \A q : Marco!Npz(q)[1] = "npz" /\ Marco!Npz(q)[2] = q
      /\ \A q, s : /\ Marco!Rank(q, s)[1] = "rank" /\ Marco!Rank(q, s)[2] = q
                   /\ Marco!RankMeta(q, s)[1] = "rank_meta" /\ Marco!RankMeta(q, s)[2] = q
  BY DEF Marco!Npz, Marco!Rank, Marco!RankMeta
<1>2. Content(e, f) = c /\ \A q : q # r => Content(e, Marco!Npz(q)) = Content(d, Marco!Npz(q))
  <2>1. ASSUME NEW q, q # r PROVE Content(e, Marco!Npz(q)) = Content(d, Marco!Npz(q))
    <3>1. Marco!Npz(q) # f
      BY <1>1, <2>1
    <3> QED BY <1>1, <3>1 DEF Overwritten, Ranked
  <2> QED BY <2>1 DEF Overwritten
<1>3. ASSUME NEW q \in Nat, Full(e, Marco!Npz(q))
      PROVE  Held(e, Marco!Npz(q)).schemes \subseteq Marco!Schemes
  <2>1. CASE q = r
    BY <1>2, <1>3, <2>1 DEF Full, Held, Comes, Marco!Torn, Marco!Whole
  <2>2. CASE q # r
    BY <1>2, <1>3, <2>2 DEF Full, Held, RunSound
  <2> QED BY <2>1, <2>2
<1>4. ASSUME NEW q \in Nat, NEW s \in Marco!Schemes, Full(e, Marco!RankMeta(q, s))
      PROVE  /\ "of" \in DOMAIN Held(e, Marco!RankMeta(q, s))
             /\ Held(e, Marco!RankMeta(q, s)).of = "current" =>
                  /\ Full(e, Marco!Npz(q))
                  /\ Held(e, Marco!RankMeta(q, s)).k = Held(e, Marco!Npz(q)).k
                  /\ Full(e, Marco!Rank(q, s)) => Held(e, Marco!Rank(q, s)).of = "current"
  <2> DEFINE g == Marco!RankMeta(q, s)
             h == Marco!Rank(q, s)
  <2>1. g # f /\ h # f
    BY <1>1
  <2>2. CASE q = r
    <3>1. f[1] = "npz" /\ g[1] \in Ranked /\ g[2] = f[2]
      BY <1>1, <2>2 DEF Ranked
    <3> HIDE DEF f, g
    <3>2. Full(d, g) /\ DOMAIN Held(e, g) = DOMAIN Held(d, g)
          /\ ("of" \in DOMAIN Held(d, g) => Held(e, g).of = "old")
      BY <1>4, <2>1, <3>1 DEF Overwritten, g, f
    <3>3. "of" \in DOMAIN Held(d, g)
      BY <3>2 DEF RunSound, g
    <3> QED BY <3>2, <3>3 DEF g
  <2>3. CASE q # r
    <3>1. Content(e, g) = Content(d, g) /\ Content(e, h) = Content(d, h)
      <4>1. g[2] # f[2] /\ h[2] # f[2]
        BY <1>1, <2>3
      <4> HIDE DEF f, g, h
      <4> QED BY <2>1, <4>1 DEF Overwritten, f
    <3>2. Full(d, g) /\ Held(e, g) = Held(d, g) /\ Full(e, h) = Full(d, h) /\ Held(e, h) = Held(d, h)
          /\ Full(e, Marco!Npz(q)) = Full(d, Marco!Npz(q)) /\ Held(e, Marco!Npz(q)) = Held(d, Marco!Npz(q))
      BY <1>2, <1>4, <2>3, <3>1 DEF Full, Held
    <3> QED BY <3>2 DEF RunSound
  <2> QED BY <2>2, <2>3
<1> QED BY <1>3, <1>4 DEF RunSound

RankMetaOf(d, r, s, q) == [of |-> "current", scheme |-> s, q |-> q, k |-> Held(d, Marco!Npz(r)).k]

LEMMA RankWritten ==
  ASSUME NEW d, DiskType(d), NEW r \in Nat, NEW s \in Marco!Schemes, NEW c,
         Comes(c, [of |-> "current"]),
         NEW e, Overwritten(d, Marco!Rank(r, s), c, e), RunSound(d)
  PROVE  RunSound(e) /\ Content(e, Marco!Rank(r, s)) = c
         /\ RunsOn(e) = RunsOn(d) /\ \A q : Content(e, Marco!Npz(q)) = Content(d, Marco!Npz(q))
<1> DEFINE f == Marco!Rank(r, s)
<1>1. /\ \A q : Marco!Npz(q)[1] = "npz"
      /\ \A q, t : /\ Marco!Rank(q, t)[1] = "rank" /\ Marco!RankMeta(q, t)[1] = "rank_meta"
                   /\ Marco!Rank(q, t)[2] = q /\ Marco!Rank(q, t)[3] = t
  BY DEF Marco!Npz, Marco!Rank, Marco!RankMeta
<1> HIDE DEF f
<1>2. f[1] = "rank"
  BY <1>1 DEF f
<1>3. Content(e, f) = c /\ DOMAIN e = DOMAIN d \cup {f} /\ \A g : g # f => Content(e, g) = Content(d, g)
  BY <1>2 DEF Overwritten, f
<1>4. /\ \A q : Content(e, Marco!Npz(q)) = Content(d, Marco!Npz(q))
      /\ \A q, t : Content(e, Marco!RankMeta(q, t)) = Content(d, Marco!RankMeta(q, t))
  BY <1>1, <1>2, <1>3
<1>5. \A q, t : Marco!Rank(q, t) = f => q = r /\ t = s
  BY <1>1 DEF f
<1>6. RunsOn(e) = RunsOn(d)
  BY <1>2, <1>3 DEF RunsOn
<1>7. ASSUME NEW q \in Nat, NEW t \in Marco!Schemes, Full(e, Marco!Rank(q, t))
      PROVE  \/ Held(e, Marco!Rank(q, t)).of = "current"
             \/ Full(d, Marco!Rank(q, t)) /\ Held(e, Marco!Rank(q, t)) = Held(d, Marco!Rank(q, t))
  BY <1>3, <1>7 DEF Full, Held, Comes, Marco!Torn, Marco!Whole
<1>8. RunSound(e)
  BY <1>4, <1>7 DEF RunSound, Full, Held
<1> QED BY <1>3, <1>4, <1>6, <1>8 DEF f

LEMMA RankMetaWritten ==
  ASSUME NEW d, DiskType(d), NEW r \in Nat, NEW s \in Marco!Schemes, NEW q, NEW c,
         Comes(c, RankMetaOf(d, r, s, q)),
         NEW e, Overwritten(d, Marco!RankMeta(r, s), c, e), RunSound(d),
         Full(d, Marco!Npz(r)), Full(d, Marco!Rank(r, s)) => Held(d, Marco!Rank(r, s)).of = "current"
  PROVE  RunSound(e) /\ RunsOn(e) = RunsOn(d) /\ \A x : Content(e, Marco!Npz(x)) = Content(d, Marco!Npz(x))
<1> DEFINE f == Marco!RankMeta(r, s)
<1>1. /\ \A x : Marco!Npz(x)[1] = "npz"
      /\ \A x, t : /\ Marco!Rank(x, t)[1] = "rank" /\ Marco!RankMeta(x, t)[1] = "rank_meta"
                   /\ Marco!RankMeta(x, t)[2] = x /\ Marco!RankMeta(x, t)[3] = t
  BY DEF Marco!Npz, Marco!Rank, Marco!RankMeta
<1> HIDE DEF f
<1>2. f[1] = "rank_meta"
  BY <1>1 DEF f
<1>3. Content(e, f) = c /\ DOMAIN e = DOMAIN d \cup {f} /\ \A g : g # f => Content(e, g) = Content(d, g)
  BY <1>2 DEF Overwritten, f
<1>4. /\ \A x : Content(e, Marco!Npz(x)) = Content(d, Marco!Npz(x))
      /\ \A x, t : Content(e, Marco!Rank(x, t)) = Content(d, Marco!Rank(x, t))
  BY <1>1, <1>2, <1>3
<1>5. \A x, t : Marco!RankMeta(x, t) = f => x = r /\ t = s
  BY <1>1 DEF f
<1>6. RunsOn(e) = RunsOn(d)
  BY <1>2, <1>3 DEF RunsOn
<1>7. ASSUME NEW x \in Nat, NEW t \in Marco!Schemes, Full(e, Marco!RankMeta(x, t))
      PROVE  \/ x = r /\ t = s /\ Held(e, Marco!RankMeta(x, t)) = RankMetaOf(d, r, s, q)
             \/ Full(d, Marco!RankMeta(x, t)) /\ Held(e, Marco!RankMeta(x, t)) = Held(d, Marco!RankMeta(x, t))
  BY <1>3, <1>5, <1>7 DEF Full, Held, Comes, Marco!Torn, Marco!Whole
<1>8. /\ "of" \in DOMAIN RankMetaOf(d, r, s, q)
      /\ RankMetaOf(d, r, s, q).k = Held(d, Marco!Npz(r)).k
  BY DEF RankMetaOf
<1>9. RunSound(e)
  BY <1>4, <1>7, <1>8 DEF RunSound, Full, Held
<1> QED BY <1>4, <1>6, <1>9 DEF f

-----------------------------------------------------------------------------
(* The scripts of the evaluation.                                          *)
Array(j)  == Marco!To(<<"a">>, j.base)
MetaOf(j) == Marco!To(<<"meta">>, j.stamps)
CopyOf(j) == <<"scaled", j.N, j.cfg.scale>>
Named(j)  == Marco!To(<<"scaled_meta">>, [N |-> j.N, scale |-> j.cfg.scale])

Loading == {"collection", "queries", "slice"}
Running == {"scale", "config", "run"}
Ranking == {"npz", "failing", "reported"}

(* The loader: what it has read is what it began with, or more, and it only*)
(* writes after a miss.                                                    *)
LoadSound(j, w, d, tx, has, tch) ==
  j.pc \in Loading =>
    /\ j = [pc |-> j.pc, cfg |-> j.cfg, force |-> j.force, stamps |-> j.stamps,
            seen |-> j.seen, base |-> j.base]
    /\ j.stamps \in [DOMAIN has -> Nat] /\ \A t \in DOMAIN has : j.stamps[t] <= Cardinality(has[t])
    /\ j.seen \subseteq has["collection"] /\ j.stamps["collection"] = Cardinality(j.seen)
    /\ j.pc # "slice" \/ w # <<>> => Miss(d, has, tch)
    /\ j.pc # "collection" => j.seen \subseteq j.base /\ Loadable(tx, has, j.base)
    /\ j.pc = "queries" => \/ w = <<Array(j)>>
                           \/ w = <<>> /\ Full(d, <<"a">>) /\ Held(d, <<"a">>) = j.base
    /\ j.pc = "slice" =>
         \/ w = <<>>
         \/ /\ Full(d, <<"a">>) /\ Held(d, <<"a">>) = j.base
            /\ \/ \E x : w = <<Marco!To(<<"bc">>, x), MetaOf(j)>>
               \/ w = <<MetaOf(j)>> /\ There(d, <<"bc">>)

(* The runs: both schemes search the first rows of the table.              *)
EvalSound(j, w, d, tx, sp) ==
  j.pc \in Running =>
    /\ j = [pc |-> j.pc, cfg |-> j.cfg, force |-> j.force, seen |-> j.seen,
            base |-> j.base, N |-> j.N, q |-> j.q, zk |-> j.zk, run |-> j.run]
    /\ j.N \in Nat /\ j.run \in Nat \ {0} /\ j.base = UpTo(tx, "collection", j.N)
    /\ j.pc # "scale" /\ "zk" \in j.cfg.schemes => j.zk = j.base \/ CopyOf(j) \in sp
    /\ j.pc = "config" =>
         \/ w = <<>>
         \/ w = <<Marco!To(CopyOf(j), j.base), Named(j)>>
         \/ w = <<Named(j)>> /\ Full(d, CopyOf(j))
    /\ j.pc = "run" =>
         \/ w = <<>>
         \/ \E x : w = <<Marco!To(<<"config">>, x)>>
         \/ \E r \in Nat : \E x, y :
              /\ x.schemes \subseteq Marco!Schemes
              /\ \/ w = <<Marco!To(Marco!Npz(r), x), Marco!To(Marco!Json(r), y)>>
                 \/ w = <<Marco!To(Marco!Json(r), y)>>

(* The report: the rows of the schemes that are done.                      *)
RowOf(d, ks, r, s) ==
  [run |-> r, scheme |-> s, rank |-> "current", ks |-> {x \in ks : x <= Held(d, Marco!Npz(r)).k}]

Schemed(d) == {p \in RunsOn(d) \X Marco!Schemes : p[2] \in Held(d, Marco!Npz(p[1])).schemes}

Done(j, d) ==
  {p \in Schemed(d) : \/ p[1] \notin j.left
                      \/ j.schemes # {} /\ p[1] = Marco!Min(j.left) /\ p[2] \notin j.schemes}

ReportSound(j, d) ==
  /\ j.left \subseteq RunsOn(d)
  /\ j.schemes # {} => /\ j.left # {} /\ Full(d, Marco!Npz(Marco!Min(j.left)))
                       /\ j.schemes \subseteq Held(d, Marco!Npz(Marco!Min(j.left))).schemes
  /\ j.report = {RowOf(d, j.ks, p[1], p[2]) : p \in Done(j, d)}

ResultSound(j, w, d) ==
  j.pc \in Ranking =>
    /\ j = [pc |-> j.pc, ks |-> j.ks, force |-> j.force, left |-> j.left,
            schemes |-> j.schemes, report |-> j.report]
    /\ j.pc # "failing" => ReportSound(j, d)
    /\ j.pc = "reported" => j.left = {} /\ j.schemes = {}
    /\ \/ w = <<>>
       \/ \E r \in Nat, s \in Marco!Schemes : \E q :
            /\ Full(d, Marco!Npz(r))
            /\ \/ w = <<Marco!To(Marco!Rank(r, s), [of |-> "current"]),
                        Marco!To(Marco!RankMeta(r, s), RankMetaOf(d, r, s, q))>>
               \/ /\ w = <<Marco!To(Marco!RankMeta(r, s), RankMetaOf(d, r, s, q))>>
                  /\ Full(d, Marco!Rank(r, s)) => Held(d, Marco!Rank(r, s)).of = "current"

JobSound(j, w, u) ==
  /\ j.pc \in {"idle", "stamp"} \cup Loading \cup Running \cup Ranking
  /\ j.pc \in {"idle", "stamp", "collection", "scale", "reported"} => w = <<>>
  /\ j.pc = "stamp" => j = [pc |-> j.pc, cfg |-> j.cfg, force |-> j.force]
  /\ j.pc \in {"stamp"} \cup Loading \cup Running => j.cfg \in u.configs
  /\ u \in Users

DiskSound(d, tx, has, tch, sp) ==
  DiskType(d) /\ MetaSound(d, tx, has, tch) /\ CopySound(d, tx, sp) /\ RunSound(d)

MarcoInv ==
  /\ TablesInv /\ DiskSound(disk, text, rows, touches, spoiled)
  /\ JobSound(job, writes, user)
  /\ LoadSound(job, writes, disk, text, rows, touches)
  /\ EvalSound(job, writes, disk, text, spoiled)
  /\ ResultSound(job, writes, disk)

LEMMA ListsOfTwo ==
  /\ \A x, y : /\ <<x, y>> # <<>> /\ Head(<<x, y>>) = x /\ <<x, y>>[1] = x /\ Tail(<<x, y>>) = <<y>>
  /\ \A x : <<x>> # <<>> /\ Head(<<x>>) = x /\ <<x>>[1] = x /\ Tail(<<x>>) = <<>>
<1>1. ASSUME NEW x, NEW y PROVE Tail(<<x, y>>) = <<y>>
  OBVIOUS
<1>2. ASSUME NEW x PROVE Tail(<<x>>) = <<>>
  OBVIOUS
<1> QED BY <1>1, <1>2

LEMMA MoreSpoiled ==
  ASSUME NEW d, NEW tx, NEW sp, NEW sp2, CopySound(d, tx, sp), sp \subseteq sp2
  PROVE  CopySound(d, tx, sp2)
BY DEF CopySound

(* A copy that is torn while meta data vouch for it is known to be spoiled.*)
Told(d, f, c, j, sp) ==
  f[1] = "scaled" /\ c = Marco!Torn /\ Vouched(d, j.N, j.cfg.scale) => f \in sp

(* Whatever is written next leaves the files sound, whole or torn.         *)
LEMMA FilePut ==
  ASSUME NEW d, NEW tx, NEW has, NEW tch, NEW sp, NEW j, NEW w, NEW u,
         DiskSound(d, tx, has, tch, sp), JobSound(j, w, u), LoadSound(j, w, d, tx, has, tch),
         EvalSound(j, w, d, tx, sp), ResultSound(j, w, d),
         "collection" \in DOMAIN has, IsFiniteSet(has["collection"]),
         w # <<>>, NEW f, NEW v, f = Head(w).file, v = Head(w).value,
         NEW c, Comes(c, v), NEW e, e = Overwrite(d, f, c),
         NEW sp2, sp \subseteq sp2, Told(d, f, c, j, sp2)
  PROVE  DiskSound(e, tx, has, tch, sp2)
<1>1. /\ DiskType(d) /\ MetaSound(d, tx, has, tch) /\ CopySound(d, tx, sp) /\ RunSound(d)
      /\ CopySound(d, tx, sp2)
  BY MoreSpoiled DEF DiskSound
<1>2. Overwritten(d, f, c, e)
  BY <1>1, OverwriteContent, Zenon
<1>3. /\ f[1] \notin {"meta", "a", "bc"} => MetaSound(e, tx, has, tch)
      /\ f[1] \notin {"scaled", "scaled_meta"} => CopySound(e, tx, sp2)
      /\ f[1] \notin {"npz", "rank", "rank_meta"} => RunSound(e)
  BY <1>1, <1>2, MetaStays, CopiesStay, RunsStay, Zenon
<1>4. (f[1] = "npz" => f[2] \in Nat /\ f = Marco!Npz(f[2])) => DiskType(e)
  <2>1. ASSUME f[1] = "npz" => f[2] \in Nat /\ f = Marco!Npz(f[2]) PROVE DiskType(e)
    BY <1>1, <2>1, DiskIsTyped
  <2> QED BY <2>1
<1>5. j.pc \in {"queries", "slice", "config", "run", "npz", "failing"}
  BY DEF JobSound, Loading, Running, Ranking
<1>6. CASE j.pc = "queries"
  <2>1. w = <<Array(j)>> /\ Miss(d, has, tch) /\ Loadable(tx, has, j.base)
    BY <1>6 DEF LoadSound, Loading
  <2>2. f = <<"a">> /\ v = j.base
    BY <2>1, ListsOfTwo DEF Array, Marco!To
  <2>3. f[1] = "a"
    BY <2>2
  <2>4. MetaSound(e, tx, has, tch)
    BY <1>1, <1>2, <2>1, <2>2, ArraysWritten
  <2> QED BY <1>3, <1>4, <2>3, <2>4 DEF DiskSound
<1>7. CASE j.pc = "slice"
  <2>1. /\ j.stamps \in [DOMAIN has -> Nat] /\ \A t \in DOMAIN has : j.stamps[t] <= Cardinality(has[t])
        /\ j.stamps["collection"] = Cardinality(j.seen) /\ j.seen \subseteq j.base
        /\ Full(d, <<"a">>) /\ Held(d, <<"a">>) = j.base /\ Miss(d, has, tch)
        /\ \/ \E x : w = <<Marco!To(<<"bc">>, x), MetaOf(j)>>
           \/ w = <<MetaOf(j)>> /\ There(d, <<"bc">>)
    BY <1>7 DEF LoadSound, Loading
  <2>2. ASSUME NEW x, w = <<Marco!To(<<"bc">>, x), MetaOf(j)>> PROVE DiskSound(e, tx, has, tch, sp2)
    <3>1. f = <<"bc">>
      BY <2>2, ListsOfTwo DEF Marco!To
    <3>2. f[1] = "bc" /\ f # <<"a">>
      BY <3>1
    <3>3. /\ f \in {<<"a">>, <<"bc">>} /\ MetaSound(d, tx, has, tch) /\ Miss(d, has, tch) /\ DiskType(d)
          /\ f = <<"a">> => Loadable(tx, has, v)
      BY <1>1, <2>1, <3>1, <3>2
    <3>4. MetaSound(e, tx, has, tch)
      BY <1>2, <3>3, ArraysWritten
    <3> QED BY <1>3, <1>4, <3>2, <3>4 DEF DiskSound
  <2>3. ASSUME w = <<MetaOf(j)>>, There(d, <<"bc">>) PROVE DiskSound(e, tx, has, tch, sp2)
    <3>1. f = <<"meta">> /\ v = j.stamps
      BY <2>3, ListsOfTwo DEF MetaOf, Marco!To
    <3>2. f[1] = "meta"
      BY <3>1
    <3>3. CASE c = Marco!Torn
      <4>1. MetaSound(e, tx, has, tch)
        BY <1>1, <1>2, <3>1, <3>3, MetaTorn
      <4> QED BY <1>3, <1>4, <3>2, <4>1 DEF DiskSound
    <3>4. CASE c = Marco!Whole(v)
      <4>1. Overwritten(d, <<"meta">>, Marco!Whole(v), e) /\ j.seen \subseteq Held(d, <<"a">>)
            /\ v \in [DOMAIN has -> Nat] /\ \A t \in DOMAIN has : v[t] <= Cardinality(has[t])
            /\ v["collection"] = Cardinality(j.seen)
        BY <1>2, <2>1, <3>1, <3>4
      <4>2. MetaSound(e, tx, has, tch)
        BY <1>1, <2>1, <2>3, <4>1, MetaWritten
      <4> QED BY <1>3, <1>4, <3>2, <4>2 DEF DiskSound
    <3> QED BY <3>3, <3>4 DEF Comes
  <2> QED BY <2>1, <2>2, <2>3
<1>8. CASE j.pc = "config"
  <2>1. /\ j.N \in Nat /\ j.base = UpTo(tx, "collection", j.N)
        /\ \/ w = <<Marco!To(CopyOf(j), j.base), Named(j)>>
           \/ w = <<Named(j)>> /\ Full(d, CopyOf(j))
    BY <1>8 DEF EvalSound, Running
  <2>2. CASE w = <<Marco!To(CopyOf(j), j.base), Named(j)>>
    <3>1. f = <<"scaled", j.N, j.cfg.scale>> /\ v = j.base
      BY <2>2, ListsOfTwo DEF CopyOf, Marco!To
    <3>2. f[1] = "scaled"
      BY <3>1
    <3>3. /\ Overwritten(d, <<"scaled", j.N, j.cfg.scale>>, c, e) /\ v = UpTo(tx, "collection", j.N)
          /\ c = Marco!Torn /\ Vouched(d, j.N, j.cfg.scale) => <<"scaled", j.N, j.cfg.scale>> \in sp2
      BY <1>2, <2>1, <3>1, <3>2 DEF Told
    <3>4. CopySound(e, tx, sp2)
      BY <1>1, <2>1, <3>3, CopyWritten
    <3> QED BY <1>3, <1>4, <3>2, <3>4 DEF DiskSound
  <2>3. CASE w = <<Named(j)>> /\ Full(d, CopyOf(j))
    <3>1. f = <<"scaled_meta">> /\ v = [N |-> j.N, scale |-> j.cfg.scale]
      BY <2>3, ListsOfTwo DEF Named, Marco!To
    <3>2. f[1] = "scaled_meta"
      BY <3>1
    <3>3. Overwritten(d, <<"scaled_meta">>, c, e) /\ Full(d, <<"scaled", j.N, j.cfg.scale>>)
          /\ Comes(c, [N |-> j.N, scale |-> j.cfg.scale])
      BY <1>2, <2>3, <3>1 DEF CopyOf
    <3>4. CopySound(e, tx, sp2)
      BY <1>1, <2>1, <3>3, CopyMetaWritten
    <3> QED BY <1>3, <1>4, <3>2, <3>4 DEF DiskSound
  <2> QED BY <2>1, <2>2, <2>3
<1>9. CASE j.pc = "run"
  <2>1. \/ \E x : w = <<Marco!To(<<"config">>, x)>>
        \/ \E r \in Nat : \E x, y :
              /\ x.schemes \subseteq Marco!Schemes
              /\ \/ w = <<Marco!To(Marco!Npz(r), x), Marco!To(Marco!Json(r), y)>>
                 \/ w = <<Marco!To(Marco!Json(r), y)>>
    BY <1>9 DEF EvalSound, Running
  <2>2. ASSUME NEW x, w = <<Marco!To(<<"config">>, x)>> PROVE f[1] = "config"
    BY <2>2, ListsOfTwo DEF Marco!To
  <2>3. ASSUME NEW r \in Nat, NEW y, w = <<Marco!To(Marco!Json(r), y)>> PROVE f[1] = "json"
    BY <2>3, ListsOfTwo DEF Marco!To, Marco!Json
  <2>4. ASSUME f[1] \in {"config", "json"} PROVE DiskSound(e, tx, has, tch, sp2)
    BY <1>3, <1>4, <2>4 DEF DiskSound
  <2>5. ASSUME NEW r \in Nat, NEW x, NEW y, x.schemes \subseteq Marco!Schemes,
               w = <<Marco!To(Marco!Npz(r), x), Marco!To(Marco!Json(r), y)>>
        PROVE  DiskSound(e, tx, has, tch, sp2)
    <3>1. f = Marco!Npz(r) /\ v = x
      BY <2>5, ListsOfTwo DEF Marco!To
    <3>2. f[1] = "npz" /\ f[2] = r
      BY <3>1 DEF Marco!Npz
    <3>3. RunSound(e)
      BY <1>1, <1>2, <2>5, <3>1, RunWritten
    <3> QED BY <1>3, <1>4, <3>1, <3>2, <3>3 DEF DiskSound
  <2> QED BY <2>1, <2>2, <2>3, <2>4, <2>5
<1>10. CASE j.pc \in {"npz", "failing"}
  <2>1. PICK r \in Nat, s \in Marco!Schemes : \E q :
            /\ Full(d, Marco!Npz(r))
            /\ \/ w = <<Marco!To(Marco!Rank(r, s), [of |-> "current"]),
                        Marco!To(Marco!RankMeta(r, s), RankMetaOf(d, r, s, q))>>
               \/ /\ w = <<Marco!To(Marco!RankMeta(r, s), RankMetaOf(d, r, s, q))>>
                  /\ Full(d, Marco!Rank(r, s)) => Held(d, Marco!Rank(r, s)).of = "current"
    BY <1>10 DEF ResultSound, Ranking
  <2>2. PICK q :
            /\ Full(d, Marco!Npz(r))
            /\ \/ w = <<Marco!To(Marco!Rank(r, s), [of |-> "current"]),
                        Marco!To(Marco!RankMeta(r, s), RankMetaOf(d, r, s, q))>>
               \/ /\ w = <<Marco!To(Marco!RankMeta(r, s), RankMetaOf(d, r, s, q))>>
                  /\ Full(d, Marco!Rank(r, s)) => Held(d, Marco!Rank(r, s)).of = "current"
    BY <2>1
  <2>3. ASSUME w = <<Marco!To(Marco!Rank(r, s), [of |-> "current"]),
                     Marco!To(Marco!RankMeta(r, s), RankMetaOf(d, r, s, q))>>
        PROVE  DiskSound(e, tx, has, tch, sp2)
    <3>1. f = Marco!Rank(r, s) /\ v = [of |-> "current"]
      BY <2>3, ListsOfTwo DEF Marco!To
    <3>2. f[1] = "rank"
      BY <3>1 DEF Marco!Rank
    <3>3. RunSound(e)
      BY <1>1, <1>2, <3>1, RankWritten
    <3> QED BY <1>3, <1>4, <3>2, <3>3 DEF DiskSound
  <2>4. ASSUME w = <<Marco!To(Marco!RankMeta(r, s), RankMetaOf(d, r, s, q))>>,
               Full(d, Marco!Rank(r, s)) => Held(d, Marco!Rank(r, s)).of = "current"
        PROVE  DiskSound(e, tx, has, tch, sp2)
    <3>1. f = Marco!RankMeta(r, s) /\ v = RankMetaOf(d, r, s, q)
      BY <2>4, ListsOfTwo DEF Marco!To
    <3>2. f[1] = "rank_meta"
      BY <3>1 DEF Marco!RankMeta
    <3>3. RunSound(e)
      BY <1>1, <1>2, <2>2, <2>4, <3>1, RankMetaWritten
    <3> QED BY <1>3, <1>4, <3>2, <3>3 DEF DiskSound
  <2> QED BY <2>2, <2>3, <2>4
<1> QED BY <1>5, <1>6, <1>7, <1>8, <1>9, <1>10

LEMMA ReportStays ==
  ASSUME NEW d, NEW e, NEW j, RunsOn(e) = RunsOn(d),
         \A x : Content(e, Marco!Npz(x)) = Content(d, Marco!Npz(x)), ReportSound(j, d)
  PROVE  ReportSound(j, e)
<1>1. \A x : Full(e, Marco!Npz(x)) = Full(d, Marco!Npz(x)) /\ Held(e, Marco!Npz(x)) = Held(d, Marco!Npz(x))
  BY DEF Full, Held
<1>2. Schemed(e) = Schemed(d)
  BY <1>1 DEF Schemed
<1>3. Done(j, e) = Done(j, d)
  BY <1>2 DEF Done
<1>4. \A r, s : RowOf(e, j.ks, r, s) = RowOf(d, j.ks, r, s)
  BY <1>1 DEF RowOf
<1> QED BY <1>1, <1>3, <1>4 DEF ReportSound

LEMMA LoadGoesOn ==
  ASSUME NEW d, NEW tx, NEW has, NEW tch, NEW j, NEW w, NEW u, JobSound(j, w, u),
         LoadSound(j, w, d, tx, has, tch), w # <<>>, NEW f, NEW v, f = Head(w).file, v = Head(w).value,
         NEW e, Overwritten(d, f, Marco!Whole(v), e)
  PROVE  LoadSound(j, Tail(w), e, tx, has, tch)
<1> SUFFICES ASSUME j.pc \in Loading PROVE LoadSound(j, Tail(w), e, tx, has, tch)
  BY DEF LoadSound
<1>1. /\ j = [pc |-> j.pc, cfg |-> j.cfg, force |-> j.force, stamps |-> j.stamps,
              seen |-> j.seen, base |-> j.base]
      /\ j.stamps \in [DOMAIN has -> Nat] /\ \A t \in DOMAIN has : j.stamps[t] <= Cardinality(has[t])
      /\ j.seen \subseteq has["collection"] /\ j.stamps["collection"] = Cardinality(j.seen)
      /\ Miss(d, has, tch)
      /\ j.pc # "collection" => j.seen \subseteq j.base /\ Loadable(tx, has, j.base)
  BY DEF LoadSound
<1>2. /\ Content(e, f) = Marco!Whole(v) /\ There(e, f) /\ Full(e, f) /\ Held(e, f) = v
      /\ <<"meta">>[1] = "meta" /\ <<"a">>[1] = "a" /\ <<"bc">>[1] = "bc"
  BY DEF Overwritten, There, Full, Held, Marco!Whole
<1>3. ASSUME f \in {<<"a">>, <<"bc">>} PROVE Miss(e, has, tch)
  <2>1. f[1] # "meta" /\ f[1] # "npz"
    BY <1>3
  <2>2. Content(e, <<"meta">>) = Content(d, <<"meta">>)
    BY <1>2, <2>1 DEF Overwritten, Ranked
  <2> QED BY <1>1, <2>2 DEF Miss, Full, Held
<1>4. j.pc \in {"queries", "slice"}
  BY DEF JobSound, Loading
<1>5. CASE j.pc = "queries"
  <2>1. w = <<Array(j)>>
    BY <1>5 DEF LoadSound, Loading
  <2>2. f = <<"a">> /\ v = j.base /\ Tail(w) = <<>>
    BY <2>1, ListsOfTwo DEF Array, Marco!To
  <2> QED BY <1>1, <1>2, <1>3, <1>5, <2>2 DEF LoadSound
<1>6. CASE j.pc = "slice"
  <2>1. /\ Full(d, <<"a">>) /\ Held(d, <<"a">>) = j.base
        /\ \/ \E x : w = <<Marco!To(<<"bc">>, x), MetaOf(j)>>
           \/ w = <<MetaOf(j)>> /\ There(d, <<"bc">>)
    BY <1>6 DEF LoadSound, Loading
  <2>2. CASE w = <<MetaOf(j)>>
    <3>1. Tail(w) = <<>>
      BY <2>2, ListsOfTwo
    <3> QED BY <1>1, <1>6, <3>1 DEF LoadSound
  <2>3. ASSUME NEW x, w = <<Marco!To(<<"bc">>, x), MetaOf(j)>>
        PROVE  LoadSound(j, Tail(w), e, tx, has, tch)
    <3>1. Tail(w) = <<MetaOf(j)>> /\ f = <<"bc">>
      BY <2>3, ListsOfTwo DEF Marco!To
    <3>2. f[1] # "npz" /\ f # <<"a">>
      BY <3>1
    <3>3. Content(e, <<"a">>) = Content(d, <<"a">>)
      BY <3>2 DEF Overwritten
    <3>4. Full(e, <<"a">>) /\ Held(e, <<"a">>) = j.base /\ There(e, <<"bc">>) /\ Miss(e, has, tch)
      BY <1>2, <1>3, <2>1, <3>1, <3>3 DEF Full, Held
    <3> QED BY <1>1, <1>6, <3>1, <3>4 DEF LoadSound
  <2> QED BY <2>1, <2>2, <2>3
<1> QED BY <1>4, <1>5, <1>6

LEMMA EvalGoesOn ==
  ASSUME NEW d, NEW tx, NEW sp, NEW j, NEW w, NEW u, JobSound(j, w, u),
         EvalSound(j, w, d, tx, sp), w # <<>>, NEW f, NEW v, f = Head(w).file, v = Head(w).value,
         NEW e, Overwritten(d, f, Marco!Whole(v), e)
  PROVE  EvalSound(j, Tail(w), e, tx, sp)
<1> SUFFICES ASSUME j.pc \in Running PROVE EvalSound(j, Tail(w), e, tx, sp)
  BY DEF EvalSound
<1>1. /\ j = [pc |-> j.pc, cfg |-> j.cfg, force |-> j.force, seen |-> j.seen,
              base |-> j.base, N |-> j.N, q |-> j.q, zk |-> j.zk, run |-> j.run]
      /\ j.N \in Nat /\ j.run \in Nat \ {0} /\ j.base = UpTo(tx, "collection", j.N)
      /\ j.pc # "scale" /\ "zk" \in j.cfg.schemes => j.zk = j.base \/ CopyOf(j) \in sp
  BY DEF EvalSound
<1>2. Full(e, f)
  BY DEF Overwritten, Full, Marco!Whole
<1>3. j.pc \in {"config", "run"}
  BY DEF JobSound, Running
<1>4. CASE j.pc = "config"
  <2>1. \/ w = <<Marco!To(CopyOf(j), j.base), Named(j)>>
        \/ w = <<Named(j)>> /\ Full(d, CopyOf(j))
    BY <1>4 DEF EvalSound, Running
  <2>2. CASE w = <<Marco!To(CopyOf(j), j.base), Named(j)>>
    <3>1. Tail(w) = <<Named(j)>> /\ f = CopyOf(j)
      BY <2>2, ListsOfTwo DEF Marco!To
    <3> QED BY <1>1, <1>2, <1>4, <3>1 DEF EvalSound
  <2>3. CASE w = <<Named(j)>>
    <3>1. Tail(w) = <<>>
      BY <2>3, ListsOfTwo
    <3> QED BY <1>1, <1>4, <3>1 DEF EvalSound
  <2> QED BY <2>1, <2>2, <2>3
<1>5. CASE j.pc = "run"
  <2>1. \/ \E x : w = <<Marco!To(<<"config">>, x)>>
        \/ \E r \in Nat : \E x, y :
              /\ x.schemes \subseteq Marco!Schemes
              /\ \/ w = <<Marco!To(Marco!Npz(r), x), Marco!To(Marco!Json(r), y)>>
                 \/ w = <<Marco!To(Marco!Json(r), y)>>
    BY <1>5 DEF EvalSound, Running
  <2>2. \/ Tail(w) = <<>>
        \/ \E r \in Nat : \E x, y :
              /\ x.schemes \subseteq Marco!Schemes
              /\ Tail(w) = <<Marco!To(Marco!Json(r), y)>>
    <3>1. ASSUME NEW x, w = <<x>> PROVE Tail(w) = <<>>
      BY <3>1, ListsOfTwo
    <3>2. ASSUME NEW x, NEW y, w = <<x, y>> PROVE Tail(w) = <<y>>
      BY <3>2, ListsOfTwo
    <3> QED BY <2>1, <3>1, <3>2
  <2> QED BY <1>1, <1>5, <2>2 DEF EvalSound
<1> QED BY <1>3, <1>4, <1>5

LEMMA ResultGoesOn ==
  ASSUME NEW d, NEW j, NEW w, NEW u, JobSound(j, w, u), DiskType(d), RunSound(d),
         ResultSound(j, w, d), w # <<>>, NEW f, NEW v, f = Head(w).file, v = Head(w).value,
         NEW e, Overwritten(d, f, Marco!Whole(v), e)
  PROVE  ResultSound(j, Tail(w), e)
<1> SUFFICES ASSUME j.pc \in Ranking PROVE ResultSound(j, Tail(w), e)
  BY DEF ResultSound
<1>1. /\ j = [pc |-> j.pc, ks |-> j.ks, force |-> j.force, left |-> j.left,
              schemes |-> j.schemes, report |-> j.report]
      /\ j.pc # "failing" => ReportSound(j, d)
      /\ j.pc = "reported" => j.left = {} /\ j.schemes = {}
  BY DEF ResultSound
<1>2. PICK r \in Nat, s \in Marco!Schemes : \E q :
            /\ Full(d, Marco!Npz(r))
            /\ \/ w = <<Marco!To(Marco!Rank(r, s), [of |-> "current"]),
                        Marco!To(Marco!RankMeta(r, s), RankMetaOf(d, r, s, q))>>
               \/ /\ w = <<Marco!To(Marco!RankMeta(r, s), RankMetaOf(d, r, s, q))>>
                  /\ Full(d, Marco!Rank(r, s)) => Held(d, Marco!Rank(r, s)).of = "current"
  BY DEF ResultSound
<1>3. PICK q :
            /\ Full(d, Marco!Npz(r))
            /\ \/ w = <<Marco!To(Marco!Rank(r, s), [of |-> "current"]),
                        Marco!To(Marco!RankMeta(r, s), RankMetaOf(d, r, s, q))>>
               \/ /\ w = <<Marco!To(Marco!RankMeta(r, s), RankMetaOf(d, r, s, q))>>
                  /\ Full(d, Marco!Rank(r, s)) => Held(d, Marco!Rank(r, s)).of = "current"
  BY <1>2
<1>4. Comes(Marco!Whole(v), v)
  BY DEF Comes
<1>5. CASE w = <<Marco!To(Marco!Rank(r, s), [of |-> "current"]),
                 Marco!To(Marco!RankMeta(r, s), RankMetaOf(d, r, s, q))>>
  <2>1. /\ f = Marco!Rank(r, s) /\ v = [of |-> "current"]
        /\ Tail(w) = <<Marco!To(Marco!RankMeta(r, s), RankMetaOf(d, r, s, q))>>
    BY <1>5, ListsOfTwo DEF Marco!To
  <2>2. /\ Content(e, Marco!Rank(r, s)) = Marco!Whole(v)
        /\ RunsOn(e) = RunsOn(d) /\ \A x : Content(e, Marco!Npz(x)) = Content(d, Marco!Npz(x))
    BY <1>4, <2>1, RankWritten
  <2>3. j.pc # "failing" => ReportSound(j, e)
    BY <1>1, <2>2, ReportStays
  <2>4. RankMetaOf(e, r, s, q) = RankMetaOf(d, r, s, q) /\ Full(e, Marco!Npz(r))
    BY <1>3, <2>2 DEF RankMetaOf, Held, Full
  <2>5. Held(e, Marco!Rank(r, s)).of = "current"
    BY <2>1, <2>2 DEF Held, Marco!Whole
  <2>6. j.pc # "reported"
    BY DEF JobSound
  <2> QED BY <1>1, <2>1, <2>3, <2>4, <2>5 DEF ResultSound
<1>6. CASE /\ w = <<Marco!To(Marco!RankMeta(r, s), RankMetaOf(d, r, s, q))>>
           /\ Full(d, Marco!Rank(r, s)) => Held(d, Marco!Rank(r, s)).of = "current"
  <2>1. f = Marco!RankMeta(r, s) /\ v = RankMetaOf(d, r, s, q) /\ Tail(w) = <<>>
    BY <1>6, ListsOfTwo DEF Marco!To
  <2>2. RunsOn(e) = RunsOn(d) /\ \A x : Content(e, Marco!Npz(x)) = Content(d, Marco!Npz(x))
    BY <1>3, <1>4, <1>6, <2>1, RankMetaWritten
  <2>3. j.pc # "failing" => ReportSound(j, e)
    BY <1>1, <2>2, ReportStays
  <2> QED BY <1>1, <2>1, <2>3 DEF ResultSound
<1> QED BY <1>3, <1>5, <1>6

LEMMA TablesTyped ==
  ASSUME Marco!TextsAssumption, Marco!UsersAssumption, TablesInv
  PROVE  /\ DOMAIN rows = {"collection", "queries"} /\ DOMAIN text = DOMAIN rows
         /\ \A t \in DOMAIN rows : /\ IsFiniteSet(rows[t]) /\ Cardinality(rows[t]) \in Nat
                                   /\ rows[t] \subseteq Nat /\ Len(text[t]) \in Nat
                                   /\ IsPrefixOf(text, t, rows[t])
<1>1. /\ DOMAIN rows = {"collection", "queries"} /\ DOMAIN text = DOMAIN rows
      /\ \A t \in DOMAIN rows : IsPrefixOf(text, t, rows[t]) /\ Len(text[t]) \in Nat
  BY TextsTyped DEF TablesInv
<1>2. ASSUME NEW t \in DOMAIN rows
      PROVE  IsFiniteSet(rows[t]) /\ Cardinality(rows[t]) \in Nat /\ rows[t] \subseteq Nat
  <2>1. PICK n \in 0 .. Len(text[t]) : rows[t] = UpTo(text, t, n)
    BY <1>1 DEF IsPrefixOf
  <2>2. n \in Nat
    BY <1>1, <2>1
  <2>3. rows[t] \in SUBSET (1 .. n) /\ rows[t] \subseteq Nat
    BY <2>1, <2>2 DEF UpTo
  <2>4. IsFiniteSet(1 .. n)
    BY <2>2, UpToIsFinite
  <2> QED BY <2>3, <2>4, FS_Subset, FS_CardinalityType
<1> QED BY <1>1, <1>2

LEMMA WritesFollow ==
  ASSUME Marco!TextsAssumption, Marco!UsersAssumption, MarcoInv, Marco!Write
  PROVE  MarcoInv'
<1> DEFINE f == Head(writes).file
           v == Head(writes).value
           e == Overwrite(disk, f, Marco!Whole(v))
<1>1. /\ writes # <<>> /\ writes' = Tail(writes) /\ job' = job
      /\ UNCHANGED <<user, text, rows, ingest, touches, spoiled, faults>>
  BY DEF Marco!Write, Marco!Writing, Marco!Stays
<1>2. disk' = e
  <2>1. disk' = [Marco!Ages(f) EXCEPT ![f] = Marco!Whole(v)]
    BY DEF Marco!Write
  <2>2. DOMAIN Marco!Put(f, Marco!Torn) = DOMAIN disk \cup {f}
    BY DEF Marco!Put
  <2>3. \A g \in DOMAIN disk : Marco!IsWhole(g) <=> Full(disk, g)
    BY DEF Marco!IsWhole, Marco!In, Full, Content
  <2>4. Marco!Ages(f) = Overwrite(disk, f, Marco!Torn)
    BY <2>2, <2>3 DEF Marco!Ages, Overwrite, Ranked
  <2> QED BY <2>1, <2>4 DEF Overwrite
<1>3. /\ DiskSound(disk, text, rows, touches, spoiled) /\ JobSound(job, writes, user)
      /\ LoadSound(job, writes, disk, text, rows, touches)
      /\ EvalSound(job, writes, disk, text, spoiled) /\ ResultSound(job, writes, disk) /\ TablesInv
  BY DEF MarcoInv
<1>4. "collection" \in DOMAIN rows /\ IsFiniteSet(rows["collection"])
  BY <1>3, TablesTyped
<1>5. Comes(Marco!Whole(v), v) /\ Marco!Whole(v) # Marco!Torn
  BY DEF Comes, Marco!Whole, Marco!Torn
<1> HIDE DEF f, v, e
<1>6. f = Head(writes).file /\ v = Head(writes).value /\ e = Overwrite(disk, f, Marco!Whole(v))
  BY DEF f, v, e
<1>7. DiskSound(e, text, rows, touches, spoiled)
  <2>1. Told(disk, f, Marco!Whole(v), job, spoiled)
    BY <1>5 DEF Told
  <2> QED BY <1>1, <1>3, <1>4, <1>5, <1>6, <2>1, FilePut
<1>8. Overwritten(disk, f, Marco!Whole(v), e) /\ DiskType(disk) /\ RunSound(disk)
  BY <1>3, <1>6, OverwriteContent DEF DiskSound
<1>9. LoadSound(job, Tail(writes), e, text, rows, touches)
  BY <1>1, <1>3, <1>6, <1>8, LoadGoesOn
<1>10. EvalSound(job, Tail(writes), e, text, spoiled)
  BY <1>1, <1>3, <1>6, <1>8, EvalGoesOn
<1>11. ResultSound(job, Tail(writes), e)
  BY <1>1, <1>3, <1>6, <1>8, ResultGoesOn
<1>12. JobSound(job, Tail(writes), user)
  BY <1>1, <1>3 DEF JobSound
<1>13. TablesInv'
  BY <1>1, <1>3 DEF TablesInv
<1> QED BY <1>1, <1>2, <1>7, <1>9, <1>10, <1>11, <1>12, <1>13 DEF MarcoInv

LEMMA IdleFollows ==
  ASSUME NEW d, NEW tx, NEW has, NEW tch, NEW sp, NEW u \in Users, NEW j, j = Marco!Idle
  PROVE  /\ JobSound(j, <<>>, u) /\ LoadSound(j, <<>>, d, tx, has, tch)
         /\ EvalSound(j, <<>>, d, tx, sp) /\ ResultSound(j, <<>>, d)
<1>1. j.pc = "idle"
  BY DEF Marco!Idle
<1> QED BY <1>1 DEF JobSound, LoadSound, EvalSound, ResultSound, Loading, Running, Ranking

LEMMA KillFollows ==
  ASSUME Marco!TextsAssumption, Marco!UsersAssumption, MarcoInv, Marco!Kill
  PROVE  MarcoInv'
<1> DEFINE f == Head(writes).file
           v == Head(writes).value
           e == Overwrite(disk, f, Marco!Torn)
<1>1. job' = Marco!Idle /\ writes' = <<>> /\ UNCHANGED <<user, text, rows, ingest, touches>>
  BY DEF Marco!Kill, Marco!Fails
<1>2. /\ DiskSound(disk, text, rows, touches, spoiled) /\ JobSound(job, writes, user)
      /\ LoadSound(job, writes, disk, text, rows, touches)
      /\ EvalSound(job, writes, disk, text, spoiled) /\ ResultSound(job, writes, disk) /\ TablesInv
  BY DEF MarcoInv
<1>3. "collection" \in DOMAIN rows /\ IsFiniteSet(rows["collection"])
  BY <1>2, TablesTyped
<1>4. /\ JobSound(job', <<>>, user) /\ LoadSound(job', <<>>, disk', text, rows, touches)
      /\ EvalSound(job', <<>>, disk', text, spoiled') /\ ResultSound(job', <<>>, disk')
  <2>1. user \in Users
    BY <1>2 DEF JobSound
  <2> QED BY <1>1, <2>1, IdleFollows
<1>5. TablesInv'
  BY <1>1, <1>2 DEF TablesInv
<1>6. ASSUME UNCHANGED <<disk, spoiled>> PROVE MarcoInv'
  BY <1>1, <1>2, <1>4, <1>5, <1>6 DEF MarcoInv
<1>7. ASSUME writes # <<>>, disk' = Marco!Ages(f),
             spoiled' = spoiled \cup
               IF f[1] = "scaled" /\ Marco!Holds(<<"scaled_meta">>, Marco!ScaleInputs)
               THEN {f} ELSE {}
      PROVE  MarcoInv'
  <2>1. disk' = e
    <3>1. DOMAIN Marco!Put(f, Marco!Torn) = DOMAIN disk \cup {f}
      BY DEF Marco!Put
    <3>2. \A g \in DOMAIN disk : Marco!IsWhole(g) <=> Full(disk, g)
      BY DEF Marco!IsWhole, Marco!In, Full, Content
    <3> QED BY <1>7, <3>1, <3>2 DEF Marco!Ages, Overwrite, Ranked
  <2>2. Marco!Holds(<<"scaled_meta">>, Marco!ScaleInputs) <=> Vouched(disk, job.N, job.cfg.scale)
    <3>1. Full(disk, <<"scaled_meta">>) => <<"scaled_meta">> \in DOMAIN disk
      BY DEF Full, Content, Marco!Nothing
    <3> QED BY <3>1 DEF Marco!Holds, Marco!IsWhole, Marco!In, Vouched, Full, Held, Content, Marco!ScaleInputs
  <2> DEFINE c == Marco!Torn
  <2>3. /\ spoiled \subseteq spoiled'
        /\ Told(disk, f, c, job, spoiled')
    BY <1>7, <2>2 DEF Told
  <2>4. Comes(c, v)
    BY DEF Comes
  <2>5. f = Head(writes).file /\ v = Head(writes).value /\ e = Overwrite(disk, f, c)
    OBVIOUS
  <2> HIDE DEF f, v, e, c
  <2>6. DiskSound(e, text, rows, touches, spoiled')
    <3>1. writes # <<>>
      BY <1>7
    <3>2. /\ \A sp2 : spoiled \subseteq sp2 /\ Told(disk, f, c, job, sp2)
                      => DiskSound(e, text, rows, touches, sp2)
      BY <1>2, <1>3, <3>1, <2>4, <2>5, FilePut
    <3> QED BY <2>3, <3>2, Zenon
  <2> QED BY <1>1, <1>4, <1>5, <2>1, <2>6 DEF MarcoInv
<1> QED BY <1>6, <1>7 DEF Marco!Kill, Marco!Writing

(* Tables that grow under a loader do not make stale meta data fit.        *)
LEMMA RowsGrow ==
  ASSUME NEW d, NEW tx, NEW has, NEW more, NEW tch, DOMAIN more = DOMAIN has,
         "collection" \in DOMAIN has,
         \A t \in DOMAIN has : has[t] \subseteq more[t] /\ IsFiniteSet(has[t]) /\ IsFiniteSet(more[t]),
         MetaSound(d, tx, has, tch)
  PROVE  /\ MetaSound(d, tx, more, tch)
         /\ Miss(d, has, tch) => Miss(d, more, tch)
         /\ \A t \in DOMAIN has : \A n \in Nat : n <= Cardinality(has[t]) => n <= Cardinality(more[t])
<1> DEFINE M == Held(d, <<"meta">>)
<1>1. \A t \in DOMAIN has : /\ Cardinality(has[t]) <= Cardinality(more[t])
                            /\ Cardinality(has[t]) \in Nat /\ Cardinality(more[t]) \in Nat
  <2> TAKE t \in DOMAIN has
  <2>1. has[t] \in SUBSET more[t] /\ IsFiniteSet(more[t]) /\ IsFiniteSet(has[t])
    OBVIOUS
  <2> QED BY <2>1, FS_Subset, FS_CardinalityType
<1>2. ASSUME Full(d, <<"meta">>), M = Prints(more) PROVE M = Prints(has) /\ has["collection"] = more["collection"]
  <2>1. ASSUME NEW t \in DOMAIN has PROVE has[t] = more[t]
    <3>1. M[t] = Cardinality(more[t])
      BY <1>2, CountsAlike DEF Prints
    <3>2. M[t] <= Cardinality(has[t])
      BY <1>2 DEF MetaSound
    <3>3. Cardinality(more[t]) <= Cardinality(has[t])
      BY <3>1, <3>2
    <3>4. has[t] \in SUBSET more[t] /\ IsFiniteSet(more[t])
      OBVIOUS
    <3> QED BY <3>3, <3>4, AllOf
  <2>2. Prints(has) = Prints(more)
    BY <2>1 DEF Prints
  <2> QED BY <1>2, <2>1, <2>2
<1>3. Full(d, <<"a">>) => Loadable(tx, more, Held(d, <<"a">>))
  BY DEF MetaSound, Loadable
<1>4. \A t \in DOMAIN has : \A n \in Nat : n <= Cardinality(has[t]) => n <= Cardinality(more[t])
  BY <1>1
<1>5. Full(d, <<"meta">>) => \A t \in DOMAIN more : M[t] <= Cardinality(more[t])
  <2> SUFFICES ASSUME Full(d, <<"meta">>), NEW t \in DOMAIN has PROVE M[t] <= Cardinality(more[t])
    OBVIOUS
  <2>1. M[t] <= Cardinality(has[t]) /\ M[t] \in Nat
    BY DEF MetaSound
  <2> QED BY <1>4, <2>1
<1>6. MetaSound(d, tx, more, tch)
  BY <1>2, <1>3, <1>5 DEF MetaSound
<1>7. Miss(d, has, tch) => Miss(d, more, tch)
  BY <1>2 DEF Miss
<1> QED BY <1>4, <1>6, <1>7

LEMMA IngestsFollow ==
  ASSUME Marco!TextsAssumption, Marco!UsersAssumption, MarcoInv, TablesInv',
         UNCHANGED <<user, text, disk, touches, job, writes, spoiled>>,
         \A t \in DOMAIN rows : rows[t] \subseteq rows'[t]
  PROVE  MarcoInv'
<1>1. /\ DiskSound(disk, text, rows, touches, spoiled) /\ JobSound(job, writes, user)
      /\ LoadSound(job, writes, disk, text, rows, touches)
      /\ EvalSound(job, writes, disk, text, spoiled) /\ ResultSound(job, writes, disk) /\ TablesInv
  BY DEF MarcoInv
<1>2. /\ DOMAIN rows = {"collection", "queries"}
      /\ \A t \in DOMAIN rows : IsFiniteSet(rows[t])
  BY <1>1, TablesTyped
<1>3. DOMAIN rows' = DOMAIN rows /\ \A t \in DOMAIN rows' : IsFiniteSet(rows'[t])
  <2>1. DOMAIN rows' = {"collection", "queries"} /\ \A t \in DOMAIN rows' : IsPrefixOf(text', t, rows'[t])
    BY TextsTyped DEF TablesInv
  <2>2. ASSUME NEW t \in DOMAIN rows' PROVE IsFiniteSet(rows'[t])
    <3>1. PICK n \in 0 .. Len(text[t]) : rows'[t] = UpTo(text, t, n)
      BY <2>1 DEF IsPrefixOf
    <3>2. Len(text[t]) \in Nat
      BY <1>1, <1>2, <2>1, TablesTyped
    <3>3. n \in Nat
      BY <3>1, <3>2
    <3>4. rows'[t] \in SUBSET (1 .. n)
      BY <3>1 DEF UpTo
    <3> QED BY <3>3, <3>4, UpToIsFinite, FS_Subset
  <2> QED BY <1>2, <2>1, <2>2
<1>4. /\ MetaSound(disk, text, rows', touches)
      /\ Miss(disk, rows, touches) => Miss(disk, rows', touches)
      /\ \A t \in DOMAIN rows : \A n \in Nat : n <= Cardinality(rows[t]) => n <= Cardinality(rows'[t])
  <2>1. MetaSound(disk, text, rows, touches) /\ "collection" \in DOMAIN rows
    BY <1>1, <1>2 DEF DiskSound
  <2> QED BY <1>2, <1>3, <2>1, RowsGrow
<1>5. LoadSound(job, writes, disk, text, rows', touches)
  <2> SUFFICES ASSUME job.pc \in Loading PROVE LoadSound(job, writes, disk, text, rows', touches)
    BY DEF LoadSound
  <2>1. /\ job.stamps \in [DOMAIN rows -> Nat] /\ \A t \in DOMAIN rows : job.stamps[t] <= Cardinality(rows[t])
        /\ job.seen \subseteq rows["collection"]
        /\ job.pc # "slice" \/ writes # <<>> => Miss(disk, rows, touches)
        /\ job.pc # "collection" => Loadable(text, rows, job.base)
    BY <1>1 DEF LoadSound
  <2>2. /\ job.stamps \in [DOMAIN rows' -> Nat] /\ \A t \in DOMAIN rows' : job.stamps[t] <= Cardinality(rows'[t])
        /\ job.seen \subseteq rows'["collection"]
        /\ job.pc # "slice" \/ writes # <<>> => Miss(disk, rows', touches)
        /\ job.pc # "collection" => Loadable(text, rows', job.base)
    BY <1>2, <1>3, <1>4, <2>1 DEF Loadable
  <2> QED BY <1>1, <2>2 DEF LoadSound
<1> QED BY <1>1, <1>4, <1>5 DEF MarcoInv, DiskSound

LEMMA TablesFollow ==
  ASSUME Marco!TextsAssumption, Marco!UsersAssumption, MarcoInv,
         Marco!StartIngest \/ (Marco!Ingests /\ Marco!Others) \/ Marco!KillIngest
  PROVE  MarcoInv'
<1>1. TablesInv /\ user \in Users /\ user.limits \subseteq Nat /\ DOMAIN rows = DOMAIN text
  BY DEF MarcoInv, JobSound, Marco!UsersAssumption, TablesInv
<1>2. CASE Marco!StartIngest
  <2>1. PICK t \in Marco!Tables, limit \in user.limits : Marco!IngestStart(t, limit) /\ Marco!Others
    BY <1>2 DEF Marco!StartIngest
  <2>2. limit \in Nat /\ UNCHANGED <<text, rows>>
    BY <1>1, <2>1 DEF Marco!IngestStart
  <2>3. TablesInv'
    BY <1>1, <2>1, <2>2, IngestStarts
  <2>4. UNCHANGED <<user, text, disk, touches, job, writes, spoiled>>
    BY <2>1, <2>2 DEF Marco!Others, Marco!script
  <2> QED BY <2>2, <2>3, <2>4, IngestsFollow
<1>3. CASE Marco!Ingests /\ Marco!Others
  <2>1. UNCHANGED <<user, text, disk, touches, job, writes, spoiled>>
    BY <1>3 DEF Marco!Others, Marco!script, Marco!Ingests, Marco!IngestBatch, Marco!IngestRow
  <2>2. \A t \in DOMAIN rows : rows[t] \subseteq rows'[t]
    <3>1. CASE Marco!IngestBatch
      BY <3>1 DEF Marco!IngestBatch
    <3>2. CASE Marco!IngestRow
      <4>1. rows' = [rows EXCEPT ![ingest.table] = @ \cup {Head(ingest.batch)}]
        BY <3>2 DEF Marco!IngestRow
      <4> QED BY <4>1
    <3> QED BY <1>3, <3>1, <3>2 DEF Marco!Ingests
  <2>3. TablesInv'
    BY <1>1, <1>3, RowIsAdded, BatchIsRead DEF Marco!Ingests
  <2> QED BY <2>1, <2>2, <2>3, IngestsFollow
<1>4. CASE Marco!KillIngest
  <2>1. UNCHANGED <<user, text, rows, disk, touches, job, writes, spoiled>> /\ ingest' = Marco!NotIngesting
    BY <1>4 DEF Marco!KillIngest, Marco!IngestKill, Marco!script
  <2>2. TablesInv'
    BY <1>1, <2>1, IngestStops
  <2> QED BY <2>1, <2>2, IngestsFollow
<1> QED BY <1>2, <1>3, <1>4

(* A step of a script that writes nothing itself.                          *)
LEMMA ScriptSteps ==
  ASSUME MarcoInv, UNCHANGED <<user, text, rows, ingest, touches, spoiled, disk>>,
         /\ JobSound(job', writes', user) /\ LoadSound(job', writes', disk, text, rows, touches)
         /\ EvalSound(job', writes', disk, text, spoiled) /\ ResultSound(job', writes', disk)
  PROVE  MarcoInv'
<1>1. TablesInv' /\ DiskSound(disk, text, rows, touches, spoiled)
  BY DEF MarcoInv, TablesInv
<1> QED BY <1>1 DEF MarcoInv

LEMMA ScriptFails ==
  ASSUME MarcoInv, UNCHANGED <<user, text, rows, ingest, touches, spoiled, disk>>,
         writes = <<>>, writes' = <<>>, job' = Marco!Idle
  PROVE  MarcoInv'
<1>1. user \in Users
  BY DEF MarcoInv, JobSound
<1> QED BY <1>1, IdleFollows, ScriptSteps

LEMMA FilesRead ==
  \A f : /\ Marco!In(f) = Content(disk, f) /\ (Marco!IsWhole(f) <=> Full(disk, f))
         /\ (Marco!Exists(f) <=> There(disk, f))
         /\ Full(disk, f) => f \in DOMAIN disk /\ disk[f].value = Held(disk, f)
         /\ \A v : Marco!Holds(f, v) <=> Full(disk, f) /\ Held(disk, f) = v
<1> TAKE f
<1>1. Marco!In(f) = Content(disk, f)
  BY DEF Marco!In, Content
<1>2. Full(disk, f) => f \in DOMAIN disk /\ disk[f].value = Held(disk, f)
  BY DEF Full, Held, Content, Marco!Nothing
<1> QED BY <1>1, <1>2 DEF Marco!IsWhole, Marco!Exists, Marco!Holds, Full, There

LEMMA EvalStarts ==
  ASSUME MarcoInv, NEW cfg \in user.configs, NEW force, Marco!EvalStart(cfg, force)
  PROVE  MarcoInv'
<1>1. /\ job' = [pc |-> "stamp", cfg |-> cfg, force |-> force] /\ writes' = <<>>
      /\ UNCHANGED <<user, text, rows, ingest, touches, spoiled, disk>>
  BY DEF Marco!EvalStart, Marco!Same, Marco!Stays, MarcoInv, JobSound
<1>2. user \in Users
  BY DEF MarcoInv, JobSound
<1>3. JobSound(job', writes', user)
  BY <1>1, <1>2 DEF JobSound
<1>4. /\ LoadSound(job', writes', disk, text, rows, touches) /\ EvalSound(job', writes', disk, text, spoiled)
      /\ ResultSound(job', writes', disk)
  BY <1>1 DEF LoadSound, EvalSound, ResultSound, Loading, Running, Ranking
<1> QED BY <1>1, <1>3, <1>4, ScriptSteps

LEMMA StampFollows ==
  ASSUME Marco!TextsAssumption, Marco!UsersAssumption, MarcoInv, Marco!Stamp
  PROVE  MarcoInv'
<1> DEFINE hit == /\ ~ touches /\ Marco!Holds(<<"meta">>, Marco!Fingerprints)
                  /\ Marco!Exists(<<"a">>) /\ Marco!Exists(<<"bc">>)
           base == IF hit /\ Marco!IsWhole(<<"a">>) THEN disk[<<"a">>].value ELSE {}
           next_pc == IF hit THEN "slice" ELSE "collection"
<1>1. /\ job' = [pc |-> next_pc, cfg |-> job.cfg, force |-> job.force, stamps |-> Marco!Fingerprints,
                 seen |-> rows["collection"], base |-> base]
      /\ writes' = <<>> /\ writes = <<>> /\ job.pc = "stamp"
      /\ UNCHANGED <<user, text, rows, ingest, touches, spoiled, disk>>
  BY DEF Marco!Stamp, Marco!At, Marco!Writing, Marco!Same, Marco!Stays
<1>2. /\ user \in Users /\ job.cfg \in user.configs /\ TablesInv /\ MetaSound(disk, text, rows, touches)
  BY <1>1 DEF MarcoInv, JobSound, DiskSound
<1>3. /\ DOMAIN rows = {"collection", "queries"} /\ DOMAIN text = DOMAIN rows
      /\ \A t \in DOMAIN rows : Cardinality(rows[t]) \in Nat
  BY <1>2, TablesTyped
<1>4. /\ Marco!Fingerprints = Prints(rows) /\ Prints(rows) \in [DOMAIN rows -> Nat]
      /\ \A t \in DOMAIN rows : Prints(rows)[t] = Cardinality(rows[t])
  BY <1>3, CountsAlike DEF Marco!Fingerprints, Marco!Tables, Prints
<1>5. ASSUME ~ hit PROVE Miss(disk, rows, touches)
  BY <1>2, <1>4, <1>5, FilesRead DEF Miss, MetaSound
<1>6. ASSUME hit PROVE base = rows["collection"] /\ Loadable(text, rows, base)
  <2>1. /\ Full(disk, <<"a">>) /\ Held(disk, <<"a">>) = rows["collection"]
        /\ Loadable(text, rows, Held(disk, <<"a">>))
    BY <1>2, <1>4, <1>6, FilesRead DEF MetaSound
  <2>2. base = Held(disk, <<"a">>)
    BY <1>6, <2>1, FilesRead
  <2> QED BY <2>1, <2>2
<1> HIDE DEF hit, base
<1>7. JobSound(job', writes', user)
  BY <1>1, <1>2 DEF JobSound, Loading
<1>8. LoadSound(job', writes', disk, text, rows, touches)
  <2>1. /\ job'.pc = next_pc /\ job'.cfg = job.cfg /\ job'.force = job.force /\ job'.stamps = Prints(rows)
        /\ job'.seen = rows["collection"] /\ job'.base = base
        /\ job' = [pc |-> job'.pc, cfg |-> job'.cfg, force |-> job'.force, stamps |-> job'.stamps,
                   seen |-> job'.seen, base |-> job'.base]
    BY <1>1, <1>4
  <2>2. \A t \in DOMAIN rows : job'.stamps[t] <= Cardinality(rows[t])
    BY <1>3, <1>4, <2>1
  <2>3. job'.stamps["collection"] = Cardinality(job'.seen)
    BY <1>3, <1>4, <2>1
  <2>4. CASE hit
    <3>1. next_pc = "slice"
      BY <2>4
    <3> QED BY <1>1, <1>4, <1>6, <2>1, <2>2, <2>3, <2>4, <3>1 DEF LoadSound
  <2>5. CASE ~ hit
    <3>1. next_pc = "collection"
      BY <2>5
    <3> QED BY <1>1, <1>4, <1>5, <2>1, <2>2, <2>3, <2>5, <3>1 DEF LoadSound
  <2> QED BY <2>4, <2>5
<1>9. EvalSound(job', writes', disk, text, spoiled) /\ ResultSound(job', writes', disk)
  BY <1>1 DEF EvalSound, ResultSound, Running, Ranking
<1> QED BY <1>1, <1>7, <1>8, <1>9, ScriptSteps

LEMMA CollectionFollows ==
  ASSUME Marco!TextsAssumption, Marco!UsersAssumption, MarcoInv, Marco!ReadCollection
  PROVE  MarcoInv'
<1> DEFINE has == rows["collection"]
<1>1. /\ writes = <<>> /\ job.pc = "collection"
      /\ UNCHANGED <<user, text, rows, ingest, touches, spoiled, disk>>
      /\ \/ job' = Marco!Idle /\ writes' = <<>>
         \/ /\ 1 \in has /\ job' = [job EXCEPT !.pc = "queries", !.base = has]
            /\ writes' = <<Marco!To(<<"a">>, has)>>
  BY DEF Marco!ReadCollection, Marco!At, Marco!Writing, Marco!Same, Marco!Stays, Marco!Fails
<1> SUFFICES ASSUME 1 \in has, job' = [job EXCEPT !.pc = "queries", !.base = has],
                    writes' = <<Marco!To(<<"a">>, has)>>
             PROVE  MarcoInv'
  BY <1>1, ScriptFails
<1>2. /\ user \in Users /\ job.cfg \in user.configs /\ TablesInv
  BY <1>1 DEF MarcoInv, JobSound, Loading
<1>3. /\ job = [pc |-> job.pc, cfg |-> job.cfg, force |-> job.force, stamps |-> job.stamps,
                seen |-> job.seen, base |-> job.base]
      /\ job.stamps \in [DOMAIN rows -> Nat] /\ \A t \in DOMAIN rows : job.stamps[t] <= Cardinality(rows[t])
      /\ job.seen \subseteq has /\ job.stamps["collection"] = Cardinality(job.seen)
      /\ Miss(disk, rows, touches)
  BY <1>1 DEF MarcoInv, LoadSound, Loading
<1>4. Loadable(text, rows, has)
  BY <1>2, TablesTyped DEF Loadable
<1> HIDE DEF has
<1>5. /\ job'.pc = "queries" /\ job'.cfg = job.cfg /\ job'.force = job.force /\ job'.stamps = job.stamps
      /\ job'.seen = job.seen /\ job'.base = has
      /\ job' = [pc |-> job'.pc, cfg |-> job'.cfg, force |-> job'.force, stamps |-> job'.stamps,
                 seen |-> job'.seen, base |-> job'.base]
  BY <1>3
<1>6. writes' = <<Array(job')>>
  BY <1>5 DEF Array
<1>7. JobSound(job', writes', user)
  BY <1>2, <1>5 DEF JobSound, Loading
<1>8. LoadSound(job', writes', disk, text, rows, touches)
  BY <1>3, <1>4, <1>5, <1>6 DEF LoadSound, has
<1>9. EvalSound(job', writes', disk, text, spoiled) /\ ResultSound(job', writes', disk)
  BY <1>5 DEF EvalSound, ResultSound, Running, Ranking
<1> QED BY <1>1, <1>7, <1>8, <1>9, ScriptSteps

LEMMA QueriesFollow ==
  ASSUME MarcoInv, Marco!ReadQueries
  PROVE  MarcoInv'
<1>1. /\ writes = <<>> /\ job.pc = "queries"
      /\ UNCHANGED <<user, text, rows, ingest, touches, spoiled, disk>>
      /\ \/ job' = Marco!Idle /\ writes' = <<>>
         \/ /\ job' = [job EXCEPT !.pc = "slice"]
            /\ writes' = <<Marco!To(<<"bc">>, rows["queries"]), MetaOf(job)>>
  BY DEF Marco!ReadQueries, Marco!At, Marco!Writing, Marco!Same, Marco!Stays, Marco!Fails, Marco!Goes, MetaOf
<1> SUFFICES ASSUME job' = [job EXCEPT !.pc = "slice"],
                    writes' = <<Marco!To(<<"bc">>, rows["queries"]), MetaOf(job)>>
             PROVE  MarcoInv'
  BY <1>1, ScriptFails
<1>2. /\ user \in Users /\ job.cfg \in user.configs
  BY <1>1 DEF MarcoInv, JobSound, Loading
<1>3. /\ job = [pc |-> job.pc, cfg |-> job.cfg, force |-> job.force, stamps |-> job.stamps,
                seen |-> job.seen, base |-> job.base]
      /\ job.stamps \in [DOMAIN rows -> Nat] /\ \A t \in DOMAIN rows : job.stamps[t] <= Cardinality(rows[t])
      /\ job.seen \subseteq rows["collection"] /\ job.stamps["collection"] = Cardinality(job.seen)
      /\ Miss(disk, rows, touches) /\ job.seen \subseteq job.base /\ Loadable(text, rows, job.base)
      /\ Full(disk, <<"a">>) /\ Held(disk, <<"a">>) = job.base
  <2>1. LoadSound(job, writes, disk, text, rows, touches)
    BY DEF MarcoInv
  <2>2. writes # <<Array(job)>>
    BY <1>1, ListsOfTwo
  <2> QED BY <1>1, <2>1, <2>2 DEF LoadSound, Loading
<1>5. /\ job'.pc = "slice" /\ job'.cfg = job.cfg /\ job'.force = job.force /\ job'.stamps = job.stamps
      /\ job'.seen = job.seen /\ job'.base = job.base
      /\ job' = [pc |-> job'.pc, cfg |-> job'.cfg, force |-> job'.force, stamps |-> job'.stamps,
                 seen |-> job'.seen, base |-> job'.base]
  BY <1>3
<1>6. MetaOf(job') = MetaOf(job)
  BY <1>5 DEF MetaOf
<1>7. JobSound(job', writes', user)
  BY <1>2, <1>5 DEF JobSound, Loading
<1>8. LoadSound(job', writes', disk, text, rows, touches)
  BY <1>3, <1>5, <1>6 DEF LoadSound
<1>9. EvalSound(job', writes', disk, text, spoiled) /\ ResultSound(job', writes', disk)
  BY <1>5 DEF EvalSound, ResultSound, Running, Ranking
<1> QED BY <1>1, <1>7, <1>8, <1>9, ScriptSteps

(* The first of the rows of a prefix are a prefix.                         *)
LEMMA FirstRows ==
  ASSUME NEW tx, NEW t, NEW n \in Nat, NEW b, b = UpTo(tx, t, n), 1 \in b, NEW limit \in Nat,
         NEW N, N = Marco!Smaller(Marco!Max(b), limit), NEW first, first = {i \in b : i <= N}
  PROVE  N \in Nat /\ first = UpTo(tx, t, N)
<1>1. b \subseteq 0 .. n /\ b # {} /\ b \subseteq 1 .. n
  BY DEF UpTo
<1>2. Marco!Max(b) \in b
  BY <1>1, GreatestOf
<1>3. N \in 0 .. n
  BY <1>1, <1>2 DEF Marco!Smaller
<1>4. N \in Nat /\ N <= n
  BY <1>3
<1>5. ASSUME NEW i \in b, i <= N PROVE i \in UpTo(tx, t, N)
  BY <1>1, <1>4, <1>5 DEF UpTo
<1>6. ASSUME NEW i \in UpTo(tx, t, N) PROVE i \in b /\ i <= N
  <2>1. i \in 1 .. N /\ tx[t][i] = "row"
    BY DEF UpTo
  <2>2. i \in 1 .. n /\ i <= N
    BY <1>4, <2>1
  <2> QED BY <2>1, <2>2 DEF UpTo
<1> QED BY <1>4, <1>5, <1>6

LEMMA SliceFollows ==
  ASSUME Marco!TextsAssumption, Marco!UsersAssumption, MarcoInv, Marco!Slice
  PROVE  MarcoInv'
<1> DEFINE N    == Marco!Smaller(Marco!Max(job.base), job.cfg.max_db)
           asks == {p \in Marco!ReadQrelsUniquePairs : job.cfg.max_db < Marco!NoLimit => p[2] <= job.cfg.max_db}
           first == {i \in job.base : i <= N}
           goes == IF "zk" \in job.cfg.schemes THEN "scale" ELSE "config"
           sliced == [pc |-> goes, cfg |-> job.cfg, force |-> job.force, seen |-> job.seen,
                      base |-> first, N |-> N, q |-> Marco!Cardinality(asks), zk |-> {}, run |-> 1]
<1>1. /\ writes = <<>> /\ writes' = <<>> /\ job.pc = "slice"
      /\ UNCHANGED <<user, text, rows, ingest, touches, spoiled, disk>>
  BY DEF Marco!Slice, Marco!At, Marco!Writing, Marco!Same, Marco!Stays
<1>2. job' = Marco!Idle \/ job' = sliced
  BY Zenon DEF Marco!Slice, Marco!Fails
<1>3. /\ user \in Users /\ job.cfg \in user.configs /\ job.cfg.max_db \in Nat
      /\ Loadable(text, rows, job.base) /\ TablesInv
  BY <1>1 DEF MarcoInv, JobSound, LoadSound, Loading, Marco!UsersAssumption
<1>4. /\ sliced.pc = goes /\ sliced.cfg = job.cfg /\ sliced.N = N /\ sliced.base = first /\ sliced.run = 1
      /\ sliced = [pc |-> sliced.pc, cfg |-> sliced.cfg, force |-> sliced.force, seen |-> sliced.seen,
                   base |-> sliced.base, N |-> sliced.N, q |-> sliced.q, zk |-> sliced.zk,
                   run |-> sliced.run]
  <2> HIDE DEF goes, first, N, asks
  <2> QED OBVIOUS
<1>5. goes \in {"scale", "config"} /\ (goes = "config" => "zk" \notin job.cfg.schemes)
  OBVIOUS
<1> HIDE DEF sliced, asks, goes
<1>6. N \in Nat /\ first = UpTo(text, "collection", N)
  <2>1. PICK n \in 0 .. Len(text["collection"]) : job.base = UpTo(text, "collection", n)
    BY <1>3 DEF Loadable, IsPrefixOf
  <2>2. Len(text["collection"]) \in Nat
    BY <1>3, TablesTyped
  <2>3. n \in Nat /\ 1 \in job.base
    BY <1>3, <2>1, <2>2 DEF Loadable
  <2> DEFINE base == job.base
             limit == job.cfg.max_db
  <2>4. N = Marco!Smaller(Marco!Max(base), limit) /\ first = {i \in base : i <= N}
    OBVIOUS
  <2>5. limit \in Nat /\ base = UpTo(text, "collection", n) /\ 1 \in base
    BY <1>3, <2>1, <2>3
  <2> HIDE DEF N, first, base, limit
  <2> QED BY <2>3, <2>4, <2>5, FirstRows
<1> HIDE DEF N, first
<1> SUFFICES ASSUME job' = sliced PROVE MarcoInv'
  BY <1>1, <1>2, ScriptFails
<1>7. JobSound(job', writes', user)
  BY <1>1, <1>3, <1>4, <1>5 DEF JobSound, Running
<1>8. EvalSound(job', writes', disk, text, spoiled)
  BY <1>1, <1>4, <1>5, <1>6 DEF EvalSound
<1>9. LoadSound(job', writes', disk, text, rows, touches) /\ ResultSound(job', writes', disk)
  BY <1>4, <1>5 DEF LoadSound, ResultSound, Loading, Ranking
<1> QED BY <1>1, <1>7, <1>8, <1>9, ScriptSteps

LEMMA ScaleFollows ==
  ASSUME MarcoInv, Marco!Scale
  PROVE  MarcoInv'
<1> DEFINE copy == CopyOf(job)
           zk == IF Marco!IsWhole(copy) THEN disk[copy].value ELSE {}
           made == <<Marco!To(copy, job.base), Named(job)>>
<1>1. /\ writes = <<>> /\ job.pc = "scale"
      /\ UNCHANGED <<user, text, rows, ingest, touches, spoiled, disk>>
      /\ \/ /\ Marco!Exists(copy) /\ Marco!Holds(<<"scaled_meta">>, Marco!ScaleInputs)
            /\ job' = [job EXCEPT !.pc = "config", !.zk = zk] /\ writes' = <<>>
         \/ job' = [job EXCEPT !.pc = "config", !.zk = job.base] /\ writes' = made
  BY DEF Marco!Scale, Marco!At, Marco!Writing, Marco!Same, Marco!Stays, CopyOf, Named,
         Marco!Scaled, Marco!ScaleInputs
<1>2. /\ user \in Users /\ job.cfg \in user.configs
      /\ DiskType(disk) /\ CopySound(disk, text, spoiled)
  BY <1>1 DEF MarcoInv, JobSound, Running, DiskSound
<1>3. /\ job = [pc |-> job.pc, cfg |-> job.cfg, force |-> job.force, seen |-> job.seen,
                base |-> job.base, N |-> job.N, q |-> job.q, zk |-> job.zk, run |-> job.run]
      /\ job.N \in Nat /\ job.run \in Nat \ {0} /\ job.base = UpTo(text, "collection", job.N)
  BY <1>1 DEF MarcoInv, EvalSound, Running
<1>4. /\ Full(disk, copy) => Held(disk, copy) = job.base
      /\ Content(disk, copy) = Marco!Torn /\ Vouched(disk, job.N, job.cfg.scale) => copy \in spoiled
  BY <1>2, <1>3 DEF CopySound, CopyOf
<1> HIDE DEF copy
<1>5. ASSUME Marco!Exists(copy), Marco!Holds(<<"scaled_meta">>, Marco!ScaleInputs)
      PROVE  zk = job.base \/ copy \in spoiled
  <2>1. Vouched(disk, job.N, job.cfg.scale) /\ There(disk, copy)
    BY <1>5, FilesRead DEF Vouched, Marco!ScaleInputs
  <2>2. Full(disk, copy) \/ Content(disk, copy) = Marco!Torn
    BY <1>2, <2>1 DEF DiskType, There, Full, Content, Marco!Whole, Marco!Nothing
  <2> QED BY <1>4, <2>1, <2>2, FilesRead
<1> HIDE DEF zk
<1>6. PICK z : /\ job' = [job EXCEPT !.pc = "config", !.zk = z] /\ writes' \in {<<>>, made}
               /\ z = job.base \/ copy \in spoiled
  BY <1>1, <1>5
<1> HIDE DEF made
<1>7. /\ job'.pc = "config" /\ job'.cfg = job.cfg /\ job'.N = job.N /\ job'.base = job.base
      /\ job'.run = job.run /\ job'.zk = z
      /\ job' = [pc |-> job'.pc, cfg |-> job'.cfg, force |-> job'.force, seen |-> job'.seen,
                 base |-> job'.base, N |-> job'.N, q |-> job'.q, zk |-> job'.zk, run |-> job'.run]
  BY <1>3, <1>6
<1>8. CopyOf(job') = copy /\ made = <<Marco!To(CopyOf(job'), job'.base), Named(job')>>
  BY <1>7 DEF CopyOf, Named, made, copy
<1>9. JobSound(job', writes', user)
  BY <1>1, <1>2, <1>7 DEF JobSound, Running
<1>10. EvalSound(job', writes', disk, text, spoiled)
  BY <1>3, <1>6, <1>7, <1>8 DEF EvalSound
<1>11. LoadSound(job', writes', disk, text, rows, touches) /\ ResultSound(job', writes', disk)
  BY <1>7 DEF LoadSound, ResultSound, Loading, Ranking
<1> QED BY <1>1, <1>9, <1>10, <1>11, ScriptSteps

(* From the configuration on a script only counts its runs.                *)
LEMMA RunGoesOn ==
  ASSUME MarcoInv, job.pc \in {"config", "run"}, writes = <<>>,
         UNCHANGED <<user, text, rows, ingest, touches, spoiled, disk>>,
         NEW r \in Nat \ {0}, job' = [job EXCEPT !.pc = "run", !.run = r],
         \/ writes' = <<>>
         \/ \E x : writes' = <<Marco!To(<<"config">>, x)>>
         \/ \E n \in Nat : \E x, y :
              /\ x.schemes \subseteq Marco!Schemes
              /\ writes' = <<Marco!To(Marco!Npz(n), x), Marco!To(Marco!Json(n), y)>>
  PROVE  MarcoInv'
<1>1. user \in Users /\ job.cfg \in user.configs
  BY DEF MarcoInv, JobSound, Running
<1>2. /\ job = [pc |-> job.pc, cfg |-> job.cfg, force |-> job.force, seen |-> job.seen,
                base |-> job.base, N |-> job.N, q |-> job.q, zk |-> job.zk, run |-> job.run]
      /\ job.N \in Nat /\ job.base = UpTo(text, "collection", job.N)
      /\ "zk" \in job.cfg.schemes => job.zk = job.base \/ CopyOf(job) \in spoiled
  BY DEF MarcoInv, EvalSound, Running
<1>3. /\ job'.pc = "run" /\ job'.cfg = job.cfg /\ job'.N = job.N /\ job'.base = job.base
      /\ job'.run = r /\ job'.zk = job.zk
      /\ job' = [pc |-> job'.pc, cfg |-> job'.cfg, force |-> job'.force, seen |-> job'.seen,
                 base |-> job'.base, N |-> job'.N, q |-> job'.q, zk |-> job'.zk, run |-> job'.run]
  BY <1>2
<1>4. CopyOf(job') = CopyOf(job)
  BY <1>3 DEF CopyOf
<1>5. JobSound(job', writes', user)
  BY <1>1, <1>3 DEF JobSound, Running
<1>6. EvalSound(job', writes', disk, text, spoiled)
  BY <1>2, <1>3, <1>4 DEF EvalSound
<1>7. LoadSound(job', writes', disk, text, rows, touches) /\ ResultSound(job', writes', disk)
  BY <1>3 DEF LoadSound, ResultSound, Loading, Ranking
<1> QED BY <1>5, <1>6, <1>7, ScriptSteps

LEMMA RunsFollow ==
  ASSUME Marco!UsersAssumption, MarcoInv,
         Marco!WriteConfig \/ Marco!SkipRun \/ Marco!TrainAndQuery
  PROVE  MarcoInv'
<1>1. UNCHANGED <<user, text, rows, ingest, touches, spoiled, disk>>
  BY DEF Marco!WriteConfig, Marco!SkipRun, Marco!TrainAndQuery, Marco!Same, Marco!Stays
<1>2. writes = <<>> /\ job.pc \in {"config", "run"}
  BY DEF Marco!WriteConfig, Marco!SkipRun, Marco!TrainAndQuery, Marco!At, Marco!Writing
<1>3. /\ job = [pc |-> job.pc, cfg |-> job.cfg, force |-> job.force, seen |-> job.seen,
                base |-> job.base, N |-> job.N, q |-> job.q, zk |-> job.zk, run |-> job.run]
      /\ job.run \in Nat \ {0}
  BY <1>2 DEF MarcoInv, EvalSound, Running
<1>4. job.cfg.schemes \subseteq Marco!Schemes
  BY <1>2 DEF MarcoInv, JobSound, Running, Marco!UsersAssumption
<1>5. job.run + 1 \in Nat \ {0} /\ job.run \in Nat
  BY <1>3
<1>6. CASE Marco!WriteConfig
  <2>1. /\ job' = [job EXCEPT !.pc = "run"]
        /\ writes' = <<Marco!To(<<"config">>, job.cfg.k)>>
    BY <1>6 DEF Marco!WriteConfig, Marco!Goes
  <2>2. job' = [job EXCEPT !.pc = "run", !.run = job.run]
    BY <1>3, <2>1
  <2> QED BY <1>1, <1>2, <1>3, <2>1, <2>2, RunGoesOn
<1>7. CASE Marco!SkipRun
  <2>1. job' = [job EXCEPT !.run = job.run + 1] /\ writes' = <<>> /\ job.pc = "run"
    BY <1>2, <1>7 DEF Marco!SkipRun, Marco!Same, Marco!At
  <2>2. job' = [job EXCEPT !.pc = "run", !.run = job.run + 1]
    BY <1>3, <2>1
  <2> QED BY <1>1, <1>2, <1>5, <2>1, <2>2, RunGoesOn
<1>8. CASE Marco!TrainAndQuery
  <2> DEFINE x == [k |-> job.cfg.k, q |-> job.q, base |-> job.base, schemes |-> job.cfg.schemes,
                   zk |-> IF "zk" \in job.cfg.schemes THEN job.zk ELSE job.base]
  <2>1. /\ job' = [job EXCEPT !.run = job.run + 1] /\ job.pc = "run"
        /\ writes' = <<Marco!To(Marco!Npz(job.run), x), Marco!To(Marco!Json(job.run), job.cfg.k)>>
    BY <1>8 DEF Marco!TrainAndQuery, Marco!At
  <2>2. job' = [job EXCEPT !.pc = "run", !.run = job.run + 1]
    BY <1>3, <2>1
  <2>3. x.schemes \subseteq Marco!Schemes
    BY <1>4
  <2> HIDE DEF x
  <2> QED BY <1>1, <1>2, <1>5, <2>1, <2>2, <2>3, RunGoesOn
<1> QED BY <1>6, <1>7, <1>8

LEMMA EndsFollow ==
  ASSUME MarcoInv, Marco!EvalEnd \/ Marco!ResultEnd
  PROVE  MarcoInv'
BY ScriptFails DEF Marco!EvalEnd, Marco!ResultEnd, Marco!At, Marco!Writing, Marco!Fails, Marco!Same, Marco!Stays

LEMMA ResultStarts ==
  ASSUME MarcoInv, NEW ks, NEW force, Marco!ResultStart(ks, force)
  PROVE  MarcoInv'
<1> DEFINE fresh == [pc |-> "npz", ks |-> ks, force |-> force, left |-> RunsOn(disk),
                     schemes |-> {}, report |-> {}]
<1>1. /\ writes = <<>> /\ writes' = <<>> /\ (job' = Marco!Idle \/ job' = fresh)
      /\ UNCHANGED <<user, text, rows, ingest, touches, spoiled, disk>>
  BY DEF Marco!ResultStart, Marco!Same, Marco!Stays, Marco!Fails, Marco!RunsOnDisk, RunsOn, MarcoInv, JobSound
<1>2. user \in Users
  BY DEF MarcoInv, JobSound
<1>3. /\ fresh.pc = "npz" /\ fresh.ks = ks /\ fresh.left = RunsOn(disk) /\ fresh.schemes = {} /\ fresh.report = {}
      /\ fresh = [pc |-> fresh.pc, ks |-> fresh.ks, force |-> fresh.force, left |-> fresh.left,
                  schemes |-> fresh.schemes, report |-> fresh.report]
  OBVIOUS
<1> HIDE DEF fresh
<1>4. Done(fresh, disk) = {}
  BY <1>3 DEF Done, Schemed
<1>5. ReportSound(fresh, disk)
  BY <1>3, <1>4 DEF ReportSound
<1> SUFFICES ASSUME job' = fresh PROVE MarcoInv'
  BY <1>1, ScriptFails
<1>6. JobSound(job', writes', user)
  BY <1>1, <1>2, <1>3 DEF JobSound, Ranking, Loading, Running
<1>7. ResultSound(job', writes', disk)
  BY <1>1, <1>3, <1>5 DEF ResultSound
<1>8. LoadSound(job', writes', disk, text, rows, touches) /\ EvalSound(job', writes', disk, text, spoiled)
  BY <1>3 DEF LoadSound, EvalSound, Loading, Running
<1> QED BY <1>1, <1>6, <1>7, <1>8, ScriptSteps

(* What a report goes on with.                                             *)
LEMMA ReportGoesOn ==
  ASSUME MarcoInv, job.pc = "npz", writes = <<>>,
         UNCHANGED <<user, text, rows, ingest, touches, spoiled, disk>>,
         NEW j, job' = j, j.pc \in {"npz", "reported", "failing"},
         j = [pc |-> j.pc, ks |-> j.ks, force |-> j.force, left |-> j.left,
              schemes |-> j.schemes, report |-> j.report],
         j.pc # "failing" => ReportSound(j, disk),
         j.pc = "reported" => j.left = {} /\ j.schemes = {} /\ writes' = <<>>,
         \/ writes' = <<>>
         \/ \E r \in Nat, s \in Marco!Schemes : \E q :
              /\ Full(disk, Marco!Npz(r))
              /\ writes' = <<Marco!To(Marco!Rank(r, s), [of |-> "current"]),
                             Marco!To(Marco!RankMeta(r, s), RankMetaOf(disk, r, s, q))>>
  PROVE  MarcoInv'
<1>1. JobSound(job', writes', user)
  BY DEF MarcoInv, JobSound, Ranking, Loading, Running
<1>2. ResultSound(job', writes', disk)
  BY DEF ResultSound
<1>3. LoadSound(job', writes', disk, text, rows, touches) /\ EvalSound(job', writes', disk, text, spoiled)
  BY DEF LoadSound, EvalSound, Loading, Running
<1> QED BY <1>1, <1>2, <1>3, ScriptSteps

(* The next run file.                                                      *)
LEMMA NextRun ==
  ASSUME MarcoInv, job.pc = "npz", job.left # {}, NEW r, r = Marco!Min(job.left)
  PROVE  r \in job.left /\ r \in RunsOn(disk) /\ r \in Nat
<1>1. ReportSound(job, disk) /\ DiskType(disk)
  BY DEF MarcoInv, ResultSound, Ranking, DiskSound
<1>2. job.left \subseteq RunsOn(disk)
  BY <1>1 DEF ReportSound
<1>3. RunsOn(disk) \subseteq Nat
  BY <1>1 DEF RunsOn, DiskType
<1>4. job.left \subseteq Nat
  BY <1>2, <1>3
<1> QED BY <1>2, <1>4, LeastOf

LEMMA NpzFollows ==
  ASSUME MarcoInv, Marco!LoadNpz
  PROVE  MarcoInv'
<1> DEFINE r == Marco!Min(job.left)
           has == disk[Marco!Npz(r)].value.schemes
           loaded == [job EXCEPT !.schemes = has]
<1>1. /\ writes = <<>> /\ writes' = <<>> /\ job.pc = "npz" /\ job.schemes = {} /\ job.left # {}
      /\ UNCHANGED <<user, text, rows, ingest, touches, spoiled, disk>>
      /\ job' = Marco!Idle \/ (Full(disk, Marco!Npz(r)) /\ job' = loaded)
  BY FilesRead DEF Marco!LoadNpz, Marco!At, Marco!Writing, Marco!Same, Marco!Stays, Marco!Fails
<1> SUFFICES ASSUME Full(disk, Marco!Npz(r)), job' = loaded PROVE MarcoInv'
  BY <1>1, ScriptFails
<1>2. has = Held(disk, Marco!Npz(r)).schemes
  BY FilesRead
<1>3. /\ job = [pc |-> job.pc, ks |-> job.ks, force |-> job.force, left |-> job.left,
                schemes |-> job.schemes, report |-> job.report]
      /\ ReportSound(job, disk)
  BY <1>1 DEF MarcoInv, ResultSound, Ranking
<1> HIDE DEF has
<1>4. /\ loaded.pc = "npz" /\ loaded.ks = job.ks /\ loaded.left = job.left /\ loaded.schemes = has
      /\ loaded.report = job.report
      /\ loaded = [pc |-> loaded.pc, ks |-> loaded.ks, force |-> loaded.force, left |-> loaded.left,
                  schemes |-> loaded.schemes, report |-> loaded.report]
  BY <1>1, <1>3
<1> HIDE DEF loaded
<1>5. Done(loaded, disk) = Done(job, disk)
  <2>1. \A p \in Schemed(disk) : p[1] = r => p[2] \in has
    BY <1>2 DEF Schemed
  <2> QED BY <1>1, <1>4, <2>1 DEF Done
<1>6. ReportSound(loaded, disk)
  BY <1>1, <1>2, <1>3, <1>4, <1>5 DEF ReportSound
<1> HIDE DEF r
<1> QED BY <1>1, <1>4, <1>6, ReportGoesOn

LEMMA ReportIsWritten ==
  ASSUME MarcoInv, Marco!WriteReport
  PROVE  MarcoInv'
<1> DEFINE j == [job EXCEPT !.pc = "reported"]
<1>1. /\ writes = <<>> /\ writes' = <<>> /\ job.pc = "npz" /\ job.schemes = {} /\ job.left = {}
      /\ UNCHANGED <<user, text, rows, ingest, touches, spoiled, disk>> /\ job' = j
  BY DEF Marco!WriteReport, Marco!At, Marco!Writing, Marco!Same, Marco!Stays, Marco!Goes
<1>2. /\ job = [pc |-> job.pc, ks |-> job.ks, force |-> job.force, left |-> job.left,
                schemes |-> job.schemes, report |-> job.report]
      /\ ReportSound(job, disk)
  BY <1>1 DEF MarcoInv, ResultSound, Ranking
<1>3. /\ j.pc = "reported" /\ j.ks = job.ks /\ j.left = {} /\ j.schemes = {} /\ j.report = job.report
      /\ j = [pc |-> j.pc, ks |-> j.ks, force |-> j.force, left |-> j.left,
              schemes |-> j.schemes, report |-> j.report]
  BY <1>1, <1>2
<1> HIDE DEF j
<1>4. Done(j, disk) = Done(job, disk)
  BY <1>1, <1>3 DEF Done
<1>5. ReportSound(j, disk)
  BY <1>1, <1>2, <1>3, <1>4 DEF ReportSound
<1> QED BY <1>1, <1>3, <1>5, ReportGoesOn

LEMMA SchemeDone ==
  ASSUME NEW d, NEW j, NEW i, ReportSound(j, d), j.schemes # {}, NEW r, r = Marco!Min(j.left),
         r \in j.left, NEW s \in j.schemes, j.schemes \subseteq Marco!Schemes,
         i.ks = j.ks, i.schemes = j.schemes \ {s},
         i.left = IF j.schemes = {s} THEN j.left \ {r} ELSE j.left,
         i.report = j.report \cup {RowOf(d, j.ks, r, s)}
  PROVE  ReportSound(i, d)
<1>1. /\ j.left \subseteq RunsOn(d) /\ Full(d, Marco!Npz(r)) /\ j.schemes \subseteq Held(d, Marco!Npz(r)).schemes
      /\ j.report = {RowOf(d, j.ks, p[1], p[2]) : p \in Done(j, d)}
  BY DEF ReportSound
<1> DEFINE now == <<r, s>>
<1>2. now \in Schemed(d) /\ now[1] = r /\ now[2] = s
  BY <1>1 DEF Schemed
<1>3. \A p \in Schemed(d) : p[1] = r /\ p[2] = s => p = now
  BY DEF Schemed
<1> HIDE DEF now
<1>4. Done(i, d) = Done(j, d) \cup {now}
  <2>1. CASE j.schemes = {s}
    <3>1. i.schemes = {} /\ i.left = j.left \ {r}
      BY <2>1
    <3>2. \A p \in Schemed(d) : p \in Done(i, d) <=> p[1] \notin j.left \/ p[1] = r
      BY <3>1 DEF Done
    <3>3. \A p \in Schemed(d) : p \in Done(j, d) <=> p[1] \notin j.left \/ (p[1] = r /\ p[2] # s)
      BY <2>1 DEF Done
    <3>4. Done(i, d) \subseteq Schemed(d) /\ Done(j, d) \subseteq Schemed(d)
      BY DEF Done
    <3> QED BY <1>2, <1>3, <3>2, <3>3, <3>4
  <2>2. CASE j.schemes # {s}
    <3>1. i.schemes # {} /\ i.left = j.left
      BY <2>2
    <3>2. \A p \in Schemed(d) : p \in Done(i, d) <=> p[1] \notin j.left \/ (p[1] = r /\ p[2] \notin j.schemes \ {s})
      BY <3>1 DEF Done
    <3>3. \A p \in Schemed(d) : p \in Done(j, d) <=> p[1] \notin j.left \/ (p[1] = r /\ p[2] \notin j.schemes)
      BY DEF Done
    <3>4. Done(i, d) \subseteq Schemed(d) /\ Done(j, d) \subseteq Schemed(d)
      BY DEF Done
    <3> QED BY <1>2, <1>3, <3>2, <3>3, <3>4
  <2> QED BY <2>1, <2>2
<1>5. i.report = {RowOf(d, i.ks, p[1], p[2]) : p \in Done(i, d)}
  BY <1>1, <1>2, <1>4
<1>6. i.left \subseteq RunsOn(d)
  BY <1>1
<1>7. i.schemes # {} => i.left = j.left /\ i.schemes \subseteq j.schemes
  OBVIOUS
<1> QED BY <1>1, <1>5, <1>6, <1>7 DEF ReportSound

(* Ranks that are taken from the cache are those of the run file as it is. *)
LEMMA CachedIsCurrent ==
  ASSUME MarcoInv, NEW r \in Nat, NEW s \in Marco!Schemes, Marco!CachedRank(r, s)
  PROVE  Marco!RunTopK(r) = Held(disk, Marco!Npz(r)).k /\ disk[Marco!Rank(r, s)].value.of = "current"
<1> DEFINE meta == Marco!RankMeta(r, s)
           rank == Marco!Rank(r, s)
           k == Marco!RunTopK(r)
           inputs == Marco!ExpectedInputs(r, s, k)
<1>1. Marco!Holds(meta, inputs) /\ Marco!IsWhole(rank)
  BY DEF Marco!CachedRank
<1>2. inputs.of = "current" /\ inputs.k = k
  BY DEF Marco!ExpectedInputs
<1> HIDE DEF inputs, k
<1>3. Full(disk, meta) /\ Held(disk, meta) = inputs /\ Full(disk, rank) /\ disk[rank].value = Held(disk, rank)
  BY <1>1, FilesRead
<1>4. RunSound(disk)
  BY DEF MarcoInv, DiskSound
<1>5. /\ Held(disk, meta).of = "current" =>
           /\ Full(disk, Marco!Npz(r)) /\ Held(disk, meta).k = Held(disk, Marco!Npz(r)).k
           /\ Full(disk, rank) => Held(disk, rank).of = "current"
  BY <1>3, <1>4 DEF RunSound
<1> QED BY <1>2, <1>3, <1>5 DEF k

LEMMA ReportGrows ==
  ASSUME NEW j, NEW a, NEW b, NEW c, NEW i, i = [j EXCEPT !.schemes = a, !.left = b, !.report = c],
         j = [pc |-> j.pc, ks |-> j.ks, force |-> j.force, left |-> j.left,
              schemes |-> j.schemes, report |-> j.report]
  PROVE  /\ i.pc = j.pc /\ i.ks = j.ks /\ i.schemes = a /\ i.left = b /\ i.report = c
         /\ i = [pc |-> i.pc, ks |-> i.ks, force |-> i.force, left |-> i.left,
                 schemes |-> i.schemes, report |-> i.report]
<1> DEFINE v1 == j.pc
           v2 == j.ks
           v3 == j.force
           v4 == j.left
           v5 == j.schemes
           v6 == j.report
<1>1. j = [pc |-> v1, ks |-> v2, force |-> v3, left |-> v4, schemes |-> v5, report |-> v6]
  OBVIOUS
<1> HIDE DEF v1, v2, v3, v4, v5, v6
<1>2. i = [pc |-> v1, ks |-> v2, force |-> v3, left |-> b, schemes |-> a, report |-> c]
  BY <1>1
<1>3. v1 = j.pc /\ v2 = j.ks
  BY DEF v1, v2
<1> QED BY <1>2, <1>3

LEMMA RankFollows ==
  ASSUME MarcoInv, Marco!RankScheme
  PROVE  MarcoInv'
<1> DEFINE r    == Marco!Min(job.left)
           s    == IF "standard" \in job.schemes THEN "standard" ELSE "zk"
           npz  == disk[Marco!Npz(r)].value
           hit  == Marco!CachedRank(r, s)
           k    == IF hit THEN Marco!RunTopK(r) ELSE npz.k
           rank == IF hit THEN disk[Marco!Rank(r, s)].value ELSE [of |-> "current"]
           ks   == {x \in job.ks : x <= k}
           row  == [run |-> r, scheme |-> s, rank |-> rank.of, ks |-> ks]
           made == <<Marco!To(Marco!Rank(r, s), rank),
                     Marco!To(Marco!RankMeta(r, s), Marco!ExpectedInputs(r, s, k))>>
           failing == [job EXCEPT !.pc = "failing"]
           rest    == IF job.schemes = {s} THEN job.left \ {r} ELSE job.left
           more    == job.report \cup {row}
           others  == job.schemes \ {s}
           ranked  == [job EXCEPT !.schemes = others, !.left = rest, !.report = more]
<1>1. /\ writes = <<>> /\ job.pc = "npz" /\ job.schemes # {}
      /\ UNCHANGED <<user, text, rows, ingest, touches, spoiled, disk>>
      /\ job' = failing \/ job' = ranked
      /\ writes' = IF hit THEN <<>> ELSE made
  <2> HIDE DEF row, made, r
  <2>1. /\ writes = <<>> /\ job.pc = "npz" /\ job.schemes # {}
        /\ UNCHANGED <<user, text, rows, ingest, touches, spoiled, disk>>
    BY DEF Marco!RankScheme, Marco!At, Marco!Writing, Marco!Stays
  <2>2. /\ job' = failing \/ job' = ranked
    BY Zenon DEF Marco!RankScheme, Marco!Goes, row, r
  <2>3. writes' = IF hit THEN <<>> ELSE made
    BY Zenon DEF Marco!RankScheme, made, r
  <2> QED BY <2>1, <2>2, <2>3
<1>2. /\ job = [pc |-> job.pc, ks |-> job.ks, force |-> job.force, left |-> job.left,
                schemes |-> job.schemes, report |-> job.report]
      /\ ReportSound(job, disk) /\ RunSound(disk)
  BY <1>1 DEF MarcoInv, ResultSound, Ranking, DiskSound
<1>3. r \in job.left /\ r \in RunsOn(disk) /\ r \in Nat
  <2>1. job.left # {}
    BY <1>1, <1>2 DEF ReportSound
  <2> QED BY <1>1, <2>1, NextRun
<1>4. /\ Full(disk, Marco!Npz(r)) /\ npz = Held(disk, Marco!Npz(r))
      /\ job.schemes \subseteq Marco!Schemes
  <2>1. /\ Full(disk, Marco!Npz(r)) /\ job.schemes \subseteq Held(disk, Marco!Npz(r)).schemes
    BY <1>1, <1>2 DEF ReportSound
  <2> HIDE DEF r
  <2>2. Held(disk, Marco!Npz(r)).schemes \subseteq Marco!Schemes
    BY <1>2, <1>3, <2>1 DEF RunSound
  <2> QED BY <2>1, <2>2, FilesRead
<1>5. s \in job.schemes /\ s \in Marco!Schemes
  BY <1>1, <1>4 DEF Marco!Schemes
<1> HIDE DEF s, r
<1>6. k = Held(disk, Marco!Npz(r)).k /\ rank.of = "current" /\ (~ hit => rank = [of |-> "current"])
  <2>1. CASE hit
    <3>1. Marco!RunTopK(r) = Held(disk, Marco!Npz(r)).k /\ disk[Marco!Rank(r, s)].value.of = "current"
      BY <1>3, <1>5, <2>1, CachedIsCurrent
    <3> QED BY <2>1, <3>1
  <2>2. CASE ~ hit
    BY <1>4, <2>2
  <2> QED BY <2>1, <2>2
<1>7. Marco!ExpectedInputs(r, s, k) = RankMetaOf(disk, r, s, npz.q)
  BY <1>6 DEF Marco!ExpectedInputs, RankMetaOf
<1> HIDE DEF k, rank, hit
<1>8. row = RowOf(disk, job.ks, r, s)
  BY <1>6 DEF RowOf
<1>9. \/ writes' = <<>>
      \/ \E n \in Nat, t \in Marco!Schemes : \E q :
           /\ Full(disk, Marco!Npz(n))
           /\ writes' = <<Marco!To(Marco!Rank(n, t), [of |-> "current"]),
                          Marco!To(Marco!RankMeta(n, t), RankMetaOf(disk, n, t, q))>>
  <2>1. writes' = <<>> \/ writes' = <<Marco!To(Marco!Rank(r, s), [of |-> "current"]),
                                      Marco!To(Marco!RankMeta(r, s), RankMetaOf(disk, r, s, npz.q))>>
    BY <1>1, <1>6, <1>7
  <2> HIDE DEF npz
  <2> QED BY <1>3, <1>4, <1>5, <2>1
<1> HIDE DEF row, made, npz
<1>10. CASE job' = failing
  <2>1. /\ failing.pc = "failing"
        /\ failing = [pc |-> failing.pc, ks |-> failing.ks, force |-> failing.force, left |-> failing.left,
                      schemes |-> failing.schemes, report |-> failing.report]
    BY <1>2
  <2> HIDE DEF failing
  <2> QED BY <1>1, <1>9, <1>10, <2>1, ReportGoesOn
<1>11. CASE job' = ranked
  <2>1. /\ ranked.pc = "npz" /\ ranked.ks = job.ks /\ ranked.schemes = others
        /\ ranked.left = rest /\ ranked.report = more
        /\ ranked = [pc |-> ranked.pc, ks |-> ranked.ks, force |-> ranked.force, left |-> ranked.left,
                     schemes |-> ranked.schemes, report |-> ranked.report]
    <3> HIDE DEF others, rest, more
    <3>1. job.pc = "npz" /\ ranked = [job EXCEPT !.schemes = others, !.left = rest, !.report = more]
      BY <1>1
    <3> HIDE DEF ranked
    <3> QED BY <1>2, <3>1, ReportGrows
  <2> HIDE DEF ranked, ks
  <2>2. ReportSound(ranked, disk)
    <3>1. r = Marco!Min(job.left)
      BY DEF r
    <3>2. /\ ranked.ks = job.ks /\ ranked.schemes = job.schemes \ {s}
          /\ ranked.left = IF job.schemes = {s} THEN job.left \ {r} ELSE job.left
          /\ ranked.report = job.report \cup {RowOf(disk, job.ks, r, s)}
      BY <1>8, <2>1
    <3>3. job.schemes # {} /\ ReportSound(job, disk) /\ r \in job.left
      BY <1>1, <1>2, <1>3
    <3> HIDE DEF failing, others, rest, more
    <3> QED BY <1>4, <1>5, <3>1, <3>2, <3>3, SchemeDone
  <2> HIDE DEF failing, others, rest, more
  <2>3. /\ writes = <<>> /\ job.pc = "npz" /\ UNCHANGED <<user, text, rows, ingest, touches, spoiled, disk>>
        /\ job' = ranked /\ ranked.pc \in {"npz", "reported", "failing"} /\ ranked.pc # "reported"
    BY <1>1, <1>11, <2>1
  <2> QED BY <1>9, <2>1, <2>2, <2>3, ReportGoesOn
<1> QED BY <1>1, <1>10, <1>11

LEMMA MarcoStarts ==
  ASSUME Marco!TextsAssumption, Marco!UsersAssumption, Marco!Init
  PROVE  MarcoInv
<1>1. /\ user \in Users /\ Marco!TablesInit /\ disk = [f \in {} |-> Marco!Nothing]
      /\ job = Marco!Idle /\ writes = <<>> /\ spoiled = {}
  BY DEF Marco!Init
<1>2. TablesInv
  BY <1>1, TablesInit
<1>3. DOMAIN disk = {} /\ \A f : Content(disk, f) = Marco!Nothing
  BY <1>1 DEF Content
<1>4. \A f : ~ Full(disk, f) /\ Content(disk, f) # Marco!Torn
  BY <1>3 DEF Full, Marco!Nothing, Marco!Torn
<1>5. DiskSound(disk, text, rows, touches, spoiled)
  BY <1>3, <1>4 DEF DiskSound, DiskType, MetaSound, CopySound, RunSound
<1>6. /\ JobSound(job, writes, user) /\ LoadSound(job, writes, disk, text, rows, touches)
      /\ EvalSound(job, writes, disk, text, spoiled) /\ ResultSound(job, writes, disk)
  BY <1>1, IdleFollows
<1> QED BY <1>2, <1>5, <1>6 DEF MarcoInv

LEMMA MarcoFollows ==
  ASSUME Marco!TextsAssumption, Marco!UsersAssumption, MarcoInv, Marco!Next
  PROVE  MarcoInv'
<1>1. CASE Marco!StartIngest \/ (Marco!Ingests /\ Marco!Others) \/ Marco!KillIngest
  BY <1>1, TablesFollow
<1>2. CASE Marco!StartEval
  BY <1>2, EvalStarts DEF Marco!StartEval
<1>3. CASE Marco!StartResult
  BY <1>3, ResultStarts DEF Marco!StartResult
<1>4. CASE Marco!EvalStep
  BY <1>4, StampFollows, CollectionFollows, QueriesFollow, SliceFollows, ScaleFollows, RunsFollow, EndsFollow
     DEF Marco!EvalStep
<1>5. CASE Marco!ResultStep
  BY <1>5, NpzFollows, RankFollows, ReportIsWritten, EndsFollow DEF Marco!ResultStep
<1>6. CASE Marco!Write
  BY <1>6, WritesFollow
<1>7. CASE Marco!Kill
  BY <1>7, KillFollows
<1> QED BY <1>1, <1>2, <1>3, <1>4, <1>5, <1>6, <1>7 DEF Marco!Next

LEMMA MarcoSuffices ==
  ASSUME Marco!TextsAssumption, Marco!UsersAssumption, MarcoInv
  PROVE  Marco!EvaluatesWhatIsThere
<1>1. Marco!TablesArePrefixes
  BY TablesArePrefixes DEF MarcoInv
<1>2. Marco!BaseIsCurrent
  BY DEF MarcoInv, LoadSound, Loading, Marco!BaseIsCurrent
<1>3. Marco!SchemesShareTheBase
  BY DEF MarcoInv, EvalSound, Running, Marco!SchemesShareTheBase, CopyOf, Marco!Scaled
<1>4. Marco!ReportIsOfItsRuns
  <2> SUFFICES ASSUME job.pc = "reported"
               PROVE  job.report =
                        {[run |-> rs[1], scheme |-> rs[2], rank |-> "current",
                          ks |-> {x \in job.ks : x <= disk[Marco!Npz(rs[1])].value.k}] :
                           rs \in {p \in RunsOn(disk) \X Marco!Schemes :
                                     p[2] \in disk[Marco!Npz(p[1])].value.schemes}}
    BY DEF Marco!ReportIsOfItsRuns, Marco!RunsOnDisk, RunsOn
  <2>1. /\ job.report = {RowOf(disk, job.ks, p[1], p[2]) : p \in Done(job, disk)}
        /\ job.left = {} /\ job.schemes = {} /\ DiskType(disk)
    BY DEF MarcoInv, ResultSound, Ranking, ReportSound, DiskSound
  <2>2. \A r \in RunsOn(disk) : disk[Marco!Npz(r)].value = Held(disk, Marco!Npz(r))
    <3> TAKE r \in RunsOn(disk)
    <3>1. Marco!Npz(r) \in DOMAIN disk
      BY <2>1 DEF RunsOn, DiskType
    <3> QED BY <3>1 DEF Held, Content
  <2>3. {p \in RunsOn(disk) \X Marco!Schemes : p[2] \in disk[Marco!Npz(p[1])].value.schemes} = Done(job, disk)
    BY <2>1, <2>2 DEF Done, Schemed
  <2>4. \A p \in Done(job, disk) :
          RowOf(disk, job.ks, p[1], p[2]) =
            [run |-> p[1], scheme |-> p[2], rank |-> "current",
             ks |-> {x \in job.ks : x <= disk[Marco!Npz(p[1])].value.k}]
    BY <2>2 DEF RowOf, Done, Schemed
  <2> QED BY <2>1, <2>3, <2>4
<1> QED BY <1>1, <1>2, <1>3, <1>4 DEF Marco!EvaluatesWhatIsThere

(* From the text files of MS MARCO to the report nothing that was cached,  *)
(* resumed or left behind by a killed run stands for something else.       *)
THEOREM ReportsAreOfTheTables == Spec => [](program = "marco" => Marco!EvaluatesWhatIsThere)
<1> DEFINE Inv == program = "marco" => MarcoInv
           Good == program = "marco" => Marco!EvaluatesWhatIsThere
<1>1. Init => Inv
  BY MarcoStarts, MeasuringAssumption DEF Init
<1>2. Inv => Good
  BY MarcoSuffices, MeasuringAssumption
<1>3. Inv /\ [Next]_vars => Inv'
  <2> SUFFICES ASSUME Inv, [Next]_vars, program' = "marco" PROVE MarcoInv'
    OBVIOUS
  <2>1. program = "marco" /\ MarcoInv /\ (Marco!Next \/ UNCHANGED marco)
    BY DEF Next, vars
  <2>2. ASSUME UNCHANGED marco PROVE MarcoInv'
    BY <2>1, <2>2 DEF marco, MarcoInv, TablesInv
  <2> QED BY <2>1, <2>2, MarcoFollows, MeasuringAssumption
<1> QED BY <1>1, <1>2, <1>3, PTL DEF Spec

-----------------------------------------------------------------------------
(***************************************************************************)
(* The authorization overlay.  A mask in a file was drawn from a seed, and *)
(* a seed draws once; every row of a file was computed behind a mask its   *)
(* selectivity drew.  If masks are reproducible a selectivity has one, so  *)
(* rows of different files are about the same view, and what they say of a *)
(* query follows from how its ranking is filtered.                         *)
(***************************************************************************)
LEMMA SameCounts ==
  /\ \A S : Overlay!Cardinality(S) = Cardinality(S)
  /\ \A S : Overlay!IsFiniteSet(S) <=> IsFiniteSet(S)
BY DEF Overlay!Cardinality, Cardinality, Overlay!IsFiniteSet, IsFiniteSet

LEMMA LeastIn ==
  ASSUME NEW S, S \subseteq Nat, S # {}
  PROVE  Overlay!Min(S) \in S
<1>1. Marco!Min(S) \in S /\ \A m \in S : Marco!Min(S) <= m
  BY LeastOf
<1> QED BY <1>1 DEF Overlay!Min

LEMMA SmallerOf ==
  ASSUME NEW a \in Nat, NEW b \in Nat
  PROVE  Overlay!Min({a, b}) = IF a <= b THEN a ELSE b
<1> DEFINE S == {a, b}
<1>1. S \subseteq Nat /\ S # {} /\ \A x : x \in S <=> x = a \/ x = b
  OBVIOUS
<1> HIDE DEF S
<1>2. Marco!Min(S) \in S /\ \A m \in S : Marco!Min(S) <= m
  BY <1>1, LeastOf
<1>3. Overlay!Min(S) = Marco!Min(S)
  BY DEF Overlay!Min, Marco!Min
<1> DEFINE m == Marco!Min(S)
<1> HIDE DEF m
<1>4. (m = a \/ m = b) /\ m <= a /\ m <= b
  BY <1>1, <1>2 DEF m
<1>5. m = IF a <= b THEN a ELSE b
  BY <1>4
<1> QED BY <1>3, <1>5 DEF m, S

(* What a mask leaves of a ranking, by position.                           *)
Shown(s, mask) == {i \in DOMAIN s : s[i] \in mask}

(* What a mask leaves, and what is cut off, by position.                   *)
LEMMA VisibleIs ==
  ASSUME NEW s, NEW mask
  PROVE  Overlay!Visible(s, mask) =
           [n \in 1 .. Cardinality(Shown(s, mask)) |-> s[ListUp(Shown(s, mask))[n]]]
<1> DEFINE S == Shown(s, mask)
<1>1. \A T : Overlay!Cardinality(T) = Marco!Cardinality(T) /\ Marco!Cardinality(T) = Cardinality(T)
  BY SameCounts, CountsAlike
<1>2. \A n \in 1 .. Cardinality(S) :
        ListUp(S)[n] = CHOOSE i \in S : Overlay!Cardinality({j \in S : j <= i}) = n
  BY <1>1 DEF ListUp
<1>3. Overlay!Visible(s, mask) =
        [n \in 1 .. Overlay!Cardinality(S) |->
           s[CHOOSE i \in S : Overlay!Cardinality({j \in S : j <= i}) = n]]
  BY DEF Overlay!Visible, Shown
<1> QED BY <1>1, <1>2, <1>3

LEMMA PrefixIs ==
  ASSUME NEW T, NEW s \in Seq(T), NEW k \in Nat
  PROVE  LET m == IF k <= Len(s) THEN k ELSE Len(s)
         IN Overlay!Prefix(s, k) = [i \in 1 .. m |-> s[i]] /\ m \in Nat /\ m <= k /\ m <= Len(s)
<1> DEFINE m == IF k <= Len(s) THEN k ELSE Len(s)
<1>1. Len(s) \in Nat /\ m \in Nat /\ m <= k /\ m <= Len(s)
  OBVIOUS
<1>2. Overlay!Prefix(s, k) = SubSeq(s, 1, m)
  BY <1>1, SmallerOf DEF Overlay!Prefix
<1> HIDE DEF m
<1>3. SubSeq(s, 1, m) = [i \in 1 .. m |-> s[i]]
  BY <1>1
<1> QED BY <1>1, <1>2, <1>3 DEF m

(* Listing the members up to a bound gives the first of the list of all.   *)
LEMMA FirstOnesListed ==
  ASSUME NEW b \in Nat, NEW S, S \subseteq 1 .. b, NEW m \in Nat,
         NEW K, \A i : i \in K <=> i \in S /\ i <= m
  PROVE  /\ Cardinality(K) \in Nat /\ Cardinality(K) <= Cardinality(S) /\ Cardinality(K) <= m
         /\ \A n \in 1 .. Cardinality(K) : ListUp(K)[n] = ListUp(S)[n]
<1>1. K \subseteq 1 .. b /\ K \in SUBSET S
  OBVIOUS
<1>2. /\ IsFiniteSet(S) /\ Cardinality(S) \in Nat
      /\ \A n \in 1 .. Cardinality(S) : ListUp(S)[n] \in S /\ RankIn(S, ListUp(S)[n]) = n
      /\ \A x, y \in S : RankIn(S, x) = RankIn(S, y) => x = y
  BY Ranks
<1>3. /\ IsFiniteSet(K) /\ Cardinality(K) \in Nat
      /\ \A n \in 1 .. Cardinality(K) : ListUp(K)[n] \in K /\ RankIn(K, ListUp(K)[n]) = n
  BY <1>1, Ranks
<1>4. Cardinality(K) <= Cardinality(S)
  BY <1>1, <1>2, FS_Subset
<1>5. Cardinality(K) <= m
  <2>1. K \in SUBSET (1 .. m)
    <3>1. \A i \in S : i \in 1 .. b
      OBVIOUS
    <3>2. \A i \in 1 .. b : i <= m => i \in 1 .. m
      OBVIOUS
    <3> QED BY <3>1, <3>2
  <2>2. IsFiniteSet(1 .. m) /\ Cardinality(1 .. m) = IF 1 > m THEN 0 ELSE m - 1 + 1
    BY FS_Interval
  <2>3. Cardinality(K) <= Cardinality(1 .. m)
    BY <2>1, <2>2, FS_Subset
  <2> QED BY <1>3, <2>2, <2>3
<1>6. ASSUME NEW n \in 1 .. Cardinality(K) PROVE ListUp(K)[n] = ListUp(S)[n]
  <2> DEFINE x == ListUp(K)[n]
             y == ListUp(S)[n]
  <2>1. x \in K /\ RankIn(K, x) = n
    BY <1>3
  <2>2. n \in 1 .. Cardinality(S)
    BY <1>2, <1>3, <1>4
  <2>3. y \in S /\ RankIn(S, y) = n
    BY <1>2, <2>2
  <2> HIDE DEF x, y
  <2>4. x \in S /\ x <= m
    BY <2>1
  <2>5. {j \in K : j <= x} = {j \in S : j <= x}
    <3>1. \A j \in S : j <= x => j <= m
      BY <2>4
    <3> QED BY <3>1
  <2>6. RankIn(S, x) = n
    BY <2>1, <2>5 DEF RankIn
  <2> QED BY <1>2, <2>3, <2>4, <2>6 DEF x, y
<1> QED BY <1>3, <1>4, <1>5, <1>6

(* Filtering the first k gives the first of what filtering all gives, and  *)
(* differs from the first k of it only where it has fewer.                 *)
LEMMA FilteredIsFirst ==
  ASSUME NEW T, NEW s \in Seq(T), NEW k \in Nat, NEW mask,
         NEW post, post = Overlay!Visible(Overlay!Prefix(s, k), mask),
         NEW cand, cand = Overlay!Prefix(Overlay!Visible(s, mask), k)
  PROVE  /\ Overlay!Items(post) \subseteq Overlay!Items(cand)
         /\ Len(post) >= k => post = cand
<1> DEFINE m == IF k <= Len(s) THEN k ELSE Len(s)
           pre == Overlay!Prefix(s, k)
           all == Overlay!Visible(s, mask)
           S == Shown(s, mask)
           K == Shown(pre, mask)
           c == Cardinality(K)
           d == Cardinality(S)
           e == IF k <= d THEN k ELSE d
<1>1. pre = [i \in 1 .. m |-> s[i]] /\ m \in Nat /\ m <= k /\ m <= Len(s) /\ Len(s) \in Nat
  BY PrefixIs
<1> HIDE DEF m, pre
<1>2. S \subseteq 1 .. Len(s) /\ K = {i \in S : i <= m}
  <2>1. DOMAIN s = 1 .. Len(s) /\ DOMAIN pre = 1 .. m
    BY <1>1
  <2>2. \A i \in 1 .. m : pre[i] = s[i] /\ i \in 1 .. Len(s)
    BY <1>1
  <2>3. S \subseteq 1 .. Len(s)
    BY <2>1 DEF Shown
  <2>4. \A i : i \in K <=> i \in S /\ i <= m
    <3>1. \A i : i \in K <=> i \in 1 .. m /\ pre[i] \in mask
      BY <2>1 DEF Shown
    <3>2. \A i : i \in S <=> i \in 1 .. Len(s) /\ s[i] \in mask
      BY <2>1 DEF Shown
    <3>3. \A i : i \in 1 .. Len(s) /\ i <= m <=> i \in 1 .. m
      BY <1>1
    <3> QED BY <2>2, <3>1, <3>2, <3>3
  <2> QED BY <2>3, <2>4
<1> HIDE DEF S, K
<1>3. /\ c \in Nat /\ c <= d /\ c <= m /\ d \in Nat
      /\ \A n \in 1 .. c : ListUp(K)[n] = ListUp(S)[n]
  <2>1. d \in Nat
    BY <1>1, <1>2, Ranks
  <2>2. /\ c \in Nat /\ c <= d /\ c <= m
        /\ \A n \in 1 .. c : ListUp(K)[n] = ListUp(S)[n]
    <3>1. Len(s) \in Nat /\ S \subseteq 1 .. Len(s) /\ m \in Nat /\ \A i : i \in K <=> i \in S /\ i <= m
      BY <1>1, <1>2
    <3>2. /\ Cardinality(K) \in Nat /\ Cardinality(K) <= Cardinality(S) /\ Cardinality(K) <= m
          /\ \A n \in 1 .. Cardinality(K) : ListUp(K)[n] = ListUp(S)[n]
      <4> DEFINE Goal(B, M) ==
                   /\ Cardinality(B) \in Nat /\ Cardinality(B) <= Cardinality(S) /\ Cardinality(B) <= M
                   /\ \A n \in 1 .. Cardinality(B) : ListUp(B)[n] = ListUp(S)[n]
      <4>1. \A b \in Nat : S \subseteq 1 .. b =>
              \A M \in Nat : \A B : (\A i : i \in B <=> i \in S /\ i <= M) => Goal(B, M)
        BY FirstOnesListed
      <4> HIDE DEF K, S, m, Goal
      <4>2. Goal(K, m)
        BY <3>1, <4>1
      <4> QED BY <4>2 DEF Goal
    <3> QED BY <3>2
  <2> QED BY <2>1, <2>2
<1>4. \A n \in 1 .. d : ListUp(S)[n] \in S
  BY <1>1, <1>2, Ranks
<1>5. \A n \in 1 .. c : ListUp(K)[n] \in K
  <2>1. K \subseteq 1 .. Len(s)
    BY <1>2
  <2> QED BY <1>1, <2>1, Ranks
<1> HIDE DEF c, d
<1>6. all = [n \in 1 .. d |-> s[ListUp(S)[n]]]
  BY VisibleIs DEF S, d
<1>7. post = [n \in 1 .. c |-> pre[ListUp(K)[n]]]
  BY VisibleIs DEF K, c, pre
<1> HIDE DEF all
<1>8. \A n \in 1 .. c : post[n] = all[n]
  <2> TAKE n \in 1 .. c
  <2>1. n \in 1 .. d
    BY <1>3
  <2>2. ListUp(K)[n] \in 1 .. m
    <3>1. \A i \in K : i \in 1 .. Len(s) /\ i <= m
      BY <1>2
    <3>2. \A i \in 1 .. Len(s) : i <= m => i \in 1 .. m
      BY <1>1
    <3> QED BY <1>5, <3>1, <3>2
  <2>3. pre[ListUp(K)[n]] = s[ListUp(K)[n]]
    BY <1>1, <2>2
  <2> QED BY <1>3, <1>6, <1>7, <2>1, <2>3
<1>9. all \in Seq(T) /\ Len(all) = d
  <2>1. \A n \in 1 .. d : s[ListUp(S)[n]] \in T
    <3> TAKE n \in 1 .. d
    <3>1. ListUp(S)[n] \in 1 .. Len(s)
      BY <1>2, <1>4
    <3> QED BY <3>1
  <2>2. all \in [1 .. d -> T]
    BY <1>6, <2>1
  <2> QED BY <1>3, <2>2, FunctionIsSequence, Zenon
<1>10. cand = [i \in 1 .. e |-> all[i]] /\ e \in Nat /\ e <= k /\ e <= d
  BY <1>9, PrefixIs DEF all
<1>11. c <= e
  BY <1>1, <1>3 DEF e
<1> HIDE DEF e
<1>12. DOMAIN post = 1 .. c /\ DOMAIN cand = 1 .. e /\ \A n \in 1 .. c : n \in 1 .. e /\ post[n] = cand[n]
  <2>1. \A n \in 1 .. c : n \in 1 .. e
    BY <1>3, <1>10, <1>11
  <2> QED BY <1>7, <1>8, <1>10, <2>1
<1>13. Overlay!Items(post) \subseteq Overlay!Items(cand)
  BY <1>12 DEF Overlay!Items
<1>14. Len(post) = c
  <2>1. post \in [1 .. c -> {post[n] : n \in 1 .. c}]
    BY <1>7
  <2> QED BY <1>3, <2>1, FunctionIsSequence, Zenon
<1>15. ASSUME Len(post) >= k PROVE post = cand
  <2>1. c = e
    BY <1>3, <1>10, <1>11, <1>14, <1>15
  <2>2. \A n \in 1 .. c : post[n] = all[n]
    BY <1>8
  <2> QED BY <1>7, <1>8, <1>10, <2>1
<1> QED BY <1>13, <1>15

(* What the scripts compute, of a study.                                   *)
Asked(st)              == DOMAIN st.trace.pred
PostOf(st, q, mask, k) == Overlay!Visible(Overlay!Prefix(st.trace.pred[q], k), mask)
CandOf(st, q, mask, k) == Overlay!Prefix(Overlay!Visible(st.trace.pred[q], mask), k)
Finds(st, q, result)   == st.trace.gt[q] \in Overlay!Items(result)

PostFinds(st, mask, k) == {q \in Asked(st) : Finds(st, q, PostOf(st, q, mask, k))}
CandFinds(st, mask, k) == {q \in Asked(st) : Finds(st, q, CandOf(st, q, mask, k))}
Touched(st, mask, k)   == {q \in Asked(st) : PostOf(st, q, mask, k) # CandOf(st, q, mask, k)}
OnlyCand(st, mask, k)  == CandFinds(st, mask, k) \ PostFinds(st, mask, k)

Measured(st, mask, m) ==
  /\ m.post_filter = Cardinality(PostFinds(st, mask, m.k))
  /\ m.authorized  = Cardinality(CandFinds(st, mask, m.k))
  /\ m.affected    = Cardinality(Touched(st, mask, m.k))

GapOf(st, q, mask) ==
  LET k == st.k_select
  IN IF q \in OnlyCand(st, mask, k) THEN "high"
     ELSE IF q \in Touched(st, mask, k) /\ (q \in CandFinds(st, mask, k) <=> q \in PostFinds(st, mask, k))
     THEN "medium" ELSE "low"

FillOf(st, q, mask) ==
  IF Len(PostOf(st, q, mask, st.k_select)) < st.k_select THEN "underfill" ELSE "filled"

Bucketed(st, sel, q, mask) ==
  [sel |-> sel, q |-> q, gap |-> GapOf(st, q, mask), fill |-> FillOf(st, q, mask)]

Compared(st, mask, c) ==
  /\ c.post_filter = Finds(st, c.q, PostOf(st, c.q, mask, c.k))
  /\ c.candidate   = Finds(st, c.q, CandOf(st, c.q, mask, c.k))
  /\ c.underfill   = (Len(PostOf(st, c.q, mask, c.k)) < c.k)

(* The masks a selectivity had so far, and rows made of them.              *)
MasksOf(dr, sel) == {dr[s] : s \in {t \in DOMAIN dr : t[1] = sel}}

MetricRows(st, dr, R) ==
  \A m \in R : \E mask \in MasksOf(dr, m.sel) : Measured(st, mask, m)

Everything(st) == st.per_bucket >= Cardinality(Asked(st)) /\ st.max_queries <= 0

QueryRows(st, dr, R) ==
  \A r \in R : \E mask \in MasksOf(dr, r.sel) :
    r.q \in Asked(st) /\ r = Bucketed(st, r.sel, r.q, mask)

AllBucketed(st, dr, R) ==
  Everything(st) =>
    \A r \in R, q \in Asked(st) : \E mask \in MasksOf(dr, r.sel) : Bucketed(st, r.sel, q, mask) \in R

CheckRows(st, dr, C) ==
  \A c \in C : \E mask \in MasksOf(dr, c.sel) : Compared(st, mask, c)

Calibrated(st, C, r) ==
  \A k \in st.ks : \E c \in C : <<c.sel, c.q, c.k>> = <<r.sel, r.q, k>>

(* The invariant.                                                          *)
Is(file) == file.state = "whole"

Clusters(st, sel) ==
  LET num_classes == Overlay!Max({st.min_classes, (200 + sel) \div (2 * sel)})
  IN {{o \in 0 .. st.trace.num_base - 1 :
         o % num_classes < Overlay!Max({1, Overlay!RoundOf(num_classes, sel)})}}

DrawSound(st, dr) ==
  /\ DOMAIN dr \subseteq st.sels \X st.salts
  /\ st.mode = "clustered_acl" => \A s \in DOMAIN dr : dr[s] \in Clusters(st, s[1])

MaskSound(st, ma, dr) ==
  /\ DOMAIN ma = st.sels
  /\ \A sel \in st.sels : ma[sel].state \in {"none", "torn", "whole"}
                          /\ (Is(ma[sel]) => ma[sel].content \in MasksOf(dr, sel))

OutputSound(st, ou, dr) ==
  /\ DOMAIN ou = {"metrics", "summary", "queries"}
  /\ Is(ou["metrics"]) => MetricRows(st, dr, ou["metrics"].content)
  /\ Is(ou["queries"]) => QueryRows(st, dr, ou["queries"].content)
                          /\ AllBucketed(st, dr, ou["queries"].content)

Shape(nx, sc) ==
  /\ sc = [name |-> sc.name, salt |-> sc.salt, left |-> sc.left, rows |-> sc.rows,
           todo |-> sc.todo, open |-> sc.open]
  /\ nx \in {"generate", "evaluate", "select", "calibrate", "done"}
  /\ IF sc.name = "none" THEN sc.todo = <<>> ELSE sc.name = nx /\ nx # "done"
  /\ sc.open \in BOOLEAN

GenerateSound(st, sc) ==
  sc.name = "generate" =>
    sc.left \subseteq st.sels /\ sc.salt \in st.salts /\ sc.todo = <<>> /\ (sc.open => sc.left # {})

EvaluateSound(st, sc, ou, dr) ==
  sc.name = "evaluate" =>
    /\ sc.left \subseteq st.sels /\ MetricRows(st, dr, sc.rows) /\ (sc.open => sc.left = {})
    /\ \/ sc.todo = <<"metrics", "summary">>
       \/ sc.todo = <<"summary">> /\ sc.left = {} /\ Is(ou["metrics"]) /\ ou["metrics"].content = sc.rows

SelectSound(st, sc, dr) ==
  sc.name = "select" =>
    /\ sc.left \subseteq st.sels /\ QueryRows(st, dr, sc.rows) /\ AllBucketed(st, dr, sc.rows)
    /\ sc.todo = <<"queries">> /\ (sc.open => sc.left = {})

CalibrateSound(st, nx, sc, ou, C) ==
  /\ sc.name = "calibrate" =>
       /\ sc.todo = <<>> /\ ~ sc.open /\ Is(ou["queries"]) /\ sc.left \subseteq ou["queries"].content
       /\ \A r \in ou["queries"].content \ sc.left : Calibrated(st, C, r)
  /\ nx = "done" /\ Is(ou["queries"]) => \A r \in ou["queries"].content : Calibrated(st, C, r)

ListedSound(sc, ma) ==
  sc.name \in {"evaluate", "select"} => \A sel \in sc.left : ma[sel].state # "none"

Pairs(R) == {<<m.sel, m.k>> : m \in R}
SelsIn(R) == {r.sel : r \in R}

(* As long as nothing was killed.                                          *)
Unlost(st, nx, sc, ma, ou) ==
  /\ nx # "generate" => \A sel \in st.sels : Is(ma[sel])
  /\ sc.name = "generate" => \A sel \in st.sels \ sc.left : Is(ma[sel])
  /\ sc.name = "evaluate" => Pairs(sc.rows) = (st.sels \ sc.left) \X st.ks
  /\ nx \in {"select", "calibrate", "done"} =>
       Is(ou["metrics"]) /\ Pairs(ou["metrics"].content) = st.sels \X st.ks
  /\ st.max_queries <= 0 =>
       /\ sc.name = "select" => SelsIn(sc.rows) = st.sels \ sc.left
       /\ nx \in {"calibrate", "done"} =>
            Is(ou["queries"]) /\ SelsIn(ou["queries"].content) = st.sels

OverlayInv ==
  /\ study \in Studies /\ losses \in Nat
  /\ DrawSound(study, drawn) /\ MaskSound(study, masks, drawn) /\ OutputSound(study, outputs, drawn)
  /\ CheckRows(study, drawn, checkpoint)
  /\ Shape(next, script) /\ GenerateSound(study, script) /\ EvaluateSound(study, script, outputs, drawn)
  /\ SelectSound(study, script, drawn) /\ CalibrateSound(study, next, script, outputs, checkpoint)
  /\ ListedSound(script, masks)
  /\ losses = 0 => Unlost(study, next, script, masks, outputs)

LEMMA StudyIs ==
  ASSUME Overlay!StudiesAssumption, NEW st \in Studies
  PROVE  /\ st.sels \subseteq Nat /\ IsFiniteSet(st.salts)
         /\ IsFiniteSet(Asked(st)) /\ Cardinality(Asked(st)) \in Nat /\ Asked(st) # {}
         /\ \A q \in Asked(st) : st.trace.pred[q] \in Seq(Int)
         /\ st.ks \subseteq Nat \ {0} /\ st.k_select \in Nat \ {0}
         /\ st.per_bucket \in Nat \ {0} /\ st.max_queries \in Int
<1>1. /\ st.sels \subseteq Nat /\ Overlay!IsFiniteSet(st.salts)
      /\ st.trace.pred \in Seq(Seq(Int)) /\ st.trace.pred # <<>>
      /\ st.ks \subseteq Nat \ {0} /\ st.k_select \in Nat \ {0}
      /\ st.per_bucket \in Nat \ {0} /\ st.max_queries \in Int
  BY DEF Overlay!StudiesAssumption
<1>2. IsFiniteSet(st.salts)
  BY <1>1, SameCounts
<1> DEFINE p == st.trace.pred
<1>3. p \in Seq(Seq(Int)) /\ p # <<>>
  BY <1>1
<1> HIDE DEF p
<1>4. Asked(st) = DOMAIN p
  BY DEF Asked, p
<1>5. DOMAIN p = 1 .. Len(p) /\ Len(p) \in Nat /\ Len(p) # 0
  BY <1>3
<1>6. IsFiniteSet(1 .. Len(p))
  BY <1>5, FS_Interval
<1>7. IsFiniteSet(Asked(st)) /\ Cardinality(Asked(st)) \in Nat
  BY <1>4, <1>5, <1>6, FS_CardinalityType
<1>8. 1 \in Asked(st)
  BY <1>4, <1>5
<1>9. \A q \in Asked(st) : p[q] \in Seq(Int)
  BY <1>3, <1>4
<1> QED BY <1>1, <1>2, <1>7, <1>8, <1>9 DEF p

(* More masks make no row wrong, and if masks are made again alike, or are *)
(* never drawn, a selectivity has one.                                     *)
Extends(dr, more) ==
  \A s \in DOMAIN dr : s \in DOMAIN more /\ more[s] = dr[s]

LEMMA RowsStay ==
  ASSUME NEW st, NEW dr, NEW more, Extends(dr, more)
  PROVE  /\ \A sel : MasksOf(dr, sel) \subseteq MasksOf(more, sel)
         /\ \A R : /\ MetricRows(st, dr, R) => MetricRows(st, more, R)
                   /\ QueryRows(st, dr, R) => QueryRows(st, more, R)
                   /\ AllBucketed(st, dr, R) => AllBucketed(st, more, R)
                   /\ CheckRows(st, dr, R) => CheckRows(st, more, R)
<1>1. \A sel : MasksOf(dr, sel) \subseteq MasksOf(more, sel)
  BY DEF Extends, MasksOf
<1>2. \A R : MetricRows(st, dr, R) => MetricRows(st, more, R)
  BY <1>1 DEF MetricRows
<1>3. \A R : QueryRows(st, dr, R) => QueryRows(st, more, R)
  BY <1>1 DEF QueryRows
<1>4. \A R : AllBucketed(st, dr, R) => AllBucketed(st, more, R)
  BY <1>1 DEF AllBucketed
<1>5. \A R : CheckRows(st, dr, R) => CheckRows(st, more, R)
  BY <1>1 DEF CheckRows
<1> QED BY <1>1, <1>2, <1>3, <1>4, <1>5

(* A clustered mask is never drawn.                                        *)
LEMMA OneCluster ==
  /\ \A sel : Overlay!ClusteredMasks(sel) = Clusters(study, sel)
  /\ \A st, sel : \A a, b \in Clusters(st, sel) : a = b
<1>1. \A sel : Overlay!ClusteredMasks(sel) = Clusters(study, sel)
  BY DEF Overlay!ClusteredMasks, Clusters, Overlay!Objects
<1>2. \A st, sel : \A a, b \in Clusters(st, sel) : a = b
  BY Zenon DEF Clusters
<1> QED BY <1>1, <1>2

(* If masks are reproducible a selectivity has one.                        *)
LEMMA OneMask ==
  ASSUME NEW st, NEW dr, DrawSound(st, dr), IsFiniteSet(st.salts),
         Cardinality(st.salts) = 1 \/ st.mode = "clustered_acl",
         NEW sel, NEW a \in MasksOf(dr, sel), NEW b \in MasksOf(dr, sel)
  PROVE  a = b
<1>1. PICK s \in DOMAIN dr : s[1] = sel /\ dr[s] = a
  BY DEF MasksOf
<1>2. PICK t \in DOMAIN dr : t[1] = sel /\ dr[t] = b
  BY DEF MasksOf
<1>3. CASE st.mode = "clustered_acl"
  <2>1. a \in Clusters(st, sel) /\ b \in Clusters(st, sel)
    BY <1>1, <1>2, <1>3 DEF DrawSound
  <2> QED BY <2>1, OneCluster
<1>4. CASE Cardinality(st.salts) = 1
  <2>1. s \in st.sels \X st.salts /\ t \in st.sels \X st.salts
    BY DEF DrawSound
  <2>2. s[2] \in st.salts /\ t[2] \in st.salts /\ s = <<s[1], s[2]>> /\ t = <<t[1], t[2]>>
    BY <2>1
  <2>3. {s[2]} \in SUBSET st.salts /\ Cardinality({s[2]}) = 1
    BY <2>2, FS_Singleton
  <2>4. st.salts = {s[2]}
    BY <1>4, <2>3, FS_Subset
  <2>5. s = t
    BY <1>1, <1>2, <2>2, <2>4
  <2> QED BY <1>1, <1>2, <2>5
<1> QED BY <1>3, <1>4

(* The candidates have what filtering leaves; what it changes is short.    *)
LEMMA FilteringHelps ==
  ASSUME Overlay!StudiesAssumption, NEW st \in Studies, NEW mask, NEW k \in Nat
  PROVE  /\ PostFinds(st, mask, k) \subseteq CandFinds(st, mask, k)
         /\ OnlyCand(st, mask, k) \subseteq Touched(st, mask, k)
         /\ \A q \in Touched(st, mask, k) : q \in Asked(st) /\ ~ (Len(PostOf(st, q, mask, k)) >= k)
<1>1. ASSUME NEW q \in Asked(st)
      PROVE  /\ Overlay!Items(PostOf(st, q, mask, k)) \subseteq Overlay!Items(CandOf(st, q, mask, k))
             /\ Len(PostOf(st, q, mask, k)) >= k => PostOf(st, q, mask, k) = CandOf(st, q, mask, k)
  <2>1. st.trace.pred[q] \in Seq(Int)
    BY StudyIs
  <2> QED BY <2>1, FilteredIsFirst DEF PostOf, CandOf
<1>2. PostFinds(st, mask, k) \subseteq CandFinds(st, mask, k)
  BY <1>1 DEF PostFinds, CandFinds, Finds
<1>3. OnlyCand(st, mask, k) \subseteq Touched(st, mask, k)
  BY DEF OnlyCand, PostFinds, CandFinds, Finds, Touched
<1>4. \A q \in Touched(st, mask, k) : q \in Asked(st) /\ ~ (Len(PostOf(st, q, mask, k)) >= k)
  BY <1>1 DEF Touched
<1> QED BY <1>2, <1>3, <1>4

LEMMA FilteredLength ==
  ASSUME Overlay!StudiesAssumption, NEW st \in Studies, NEW mask, NEW q \in Asked(st), NEW k \in Nat
  PROVE  Len(PostOf(st, q, mask, k)) \in Nat
<1> DEFINE pre == Overlay!Prefix(st.trace.pred[q], k)
           S == Shown(pre, mask)
           n == Cardinality(S)
           m == IF k <= Len(st.trace.pred[q]) THEN k ELSE Len(st.trace.pred[q])
<1>1. pre = [i \in 1 .. m |-> st.trace.pred[q][i]] /\ m \in Nat
  <2> DEFINE p == st.trace.pred[q]
  <2>1. p \in Seq(Int)
    BY StudyIs
  <2> HIDE DEF p
  <2> QED BY <2>1, PrefixIs DEF p
<1>2. S \subseteq 1 .. m
  BY <1>1 DEF Shown
<1> HIDE DEF S, m, pre
<1>3. n \in Nat
  BY <1>1, <1>2, Ranks
<1> HIDE DEF n
<1>4. PostOf(st, q, mask, k) = [i \in 1 .. n |-> pre[ListUp(S)[i]]]
  BY VisibleIs DEF PostOf, n, S, pre
<1> DEFINE post == PostOf(st, q, mask, k)
<1>5. post \in [1 .. n -> {post[i] : i \in 1 .. n}]
  BY <1>4
<1> QED BY <1>3, <1>5, FunctionIsSequence, Zenon

LEMMA DifferenceCounts ==
  ASSUME NEW A, IsFiniteSet(A), NEW B, B \subseteq A
  PROVE  Cardinality(A \ B) = Cardinality(A) - Cardinality(B) /\ IsFiniteSet(A \ B)
<1>1. A \cap B = B
  OBVIOUS
<1> QED BY <1>1, FS_Difference

(* Rows of one selectivity are as many as their queries.                   *)
LEMMA RowsAreQueries ==
  ASSUME NEW st, NEW sel, NEW mask, NEW D, IsFiniteSet(D),
         NEW H, H \subseteq {Bucketed(st, sel, q, mask) : q \in D}
  PROVE  /\ Cardinality(H) \in Nat /\ Cardinality(D) \in Nat /\ Cardinality(H) <= Cardinality(D)
         /\ H = {Bucketed(st, sel, q, mask) : q \in D} => Cardinality(H) = Cardinality(D)
<1> DEFINE f == [r \in H |-> r.q]
<1>1. \A q : Bucketed(st, sel, q, mask).q = q
  BY DEF Bucketed
<1>2. \A r \in H : r.q \in D /\ r = Bucketed(st, sel, r.q, mask)
  BY <1>1
<1>3. f \in [H -> D] /\ \A r, s \in H : f[r] = f[s] => r = s
  BY <1>2
<1> HIDE DEF f
<1>4. f \in Injection(H, D)
  BY <1>3 DEF Injection, IsInjective
<1>5. /\ IsFiniteSet(H) /\ Cardinality(H) <= Cardinality(D)
      /\ Cardinality(H) = Cardinality(D) <=> f \in Surjection(H, D)
  BY <1>4, FS_Injection
<1>6. Cardinality(H) \in Nat /\ Cardinality(D) \in Nat
  BY <1>5, FS_CardinalityType
<1>7. ASSUME H = {Bucketed(st, sel, q, mask) : q \in D} PROVE f \in Surjection(H, D)
  <2>1. \A q \in D : \E r \in H : f[r] = q
    <3> TAKE q \in D
    <3>1. Bucketed(st, sel, q, mask) \in H /\ Bucketed(st, sel, q, mask).q = q
      BY <1>1, <1>7
    <3> QED BY <3>1 DEF f
  <2> QED BY <1>3, <2>1 DEF Surjection
<1> QED BY <1>5, <1>6, <1>7

(* The buckets of all queries are the sets the metrics count.              *)
LEMMA BucketsAre ==
  ASSUME NEW st, NEW sel, NEW q, NEW mask,
         PostFinds(st, mask, st.k_select) \subseteq CandFinds(st, mask, st.k_select),
         OnlyCand(st, mask, st.k_select) \subseteq Touched(st, mask, st.k_select)
  PROVE  LET r == Bucketed(st, sel, q, mask)
         IN /\ r.sel = sel /\ r.q = q /\ r.fill = FillOf(st, q, mask)
            /\ r.gap = "high" <=> q \in OnlyCand(st, mask, st.k_select)
            /\ r.gap \in {"high", "medium"} <=> q \in Touched(st, mask, st.k_select)
<1> DEFINE k == st.k_select
           r == Bucketed(st, sel, q, mask)
<1>1. r.sel = sel /\ r.q = q /\ r.fill = FillOf(st, q, mask) /\ r.gap = GapOf(st, q, mask)
  BY DEF Bucketed
<1>2. GapOf(st, q, mask) = "high" <=> q \in OnlyCand(st, mask, k)
  BY DEF GapOf
<1>3. GapOf(st, q, mask) \in {"high", "medium"} <=> q \in Touched(st, mask, k)
  <2>1. q \in OnlyCand(st, mask, k) <=> q \in CandFinds(st, mask, k) /\ q \notin PostFinds(st, mask, k)
    BY DEF OnlyCand
  <2> QED BY <2>1 DEF GapOf
<1> QED BY <1>1, <1>2, <1>3

(* What the properties read of a file.                                     *)
LEMMA RowsOfIs ==
  \A o : Overlay!RowsOf(o) = IF Is(outputs[o]) THEN outputs[o].content ELSE {}
BY DEF Overlay!RowsOf, Is

LEMMA AlikeAre ==
  ASSUME NEW sel, Overlay!DrawnAlike(sel), NEW a \in MasksOf(drawn, sel), NEW b \in MasksOf(drawn, sel)
  PROVE  a = b
<1>1. PICK s \in DOMAIN drawn : s[1] = sel /\ drawn[s] = a
  BY DEF MasksOf
<1>2. PICK t \in DOMAIN drawn : t[1] = sel /\ drawn[t] = b
  BY DEF MasksOf
<1> QED BY <1>1, <1>2 DEF Overlay!DrawnAlike

LEMMA MasksRepeat ==
  ASSUME Overlay!StudiesAssumption, OverlayInv
  PROVE  Overlay!MasksAreRepeated
<1> SUFFICES ASSUME Overlay!Reproducible, NEW sel \in study.sels,
                    NEW s \in DOMAIN drawn, NEW t \in DOMAIN drawn, s[1] = sel, t[1] = sel
             PROVE  drawn[s] = drawn[t]
  BY DEF Overlay!MasksAreRepeated, Overlay!DrawnAlike
<1>1. DrawSound(study, drawn) /\ IsFiniteSet(study.salts)
  BY StudyIs DEF OverlayInv
<1>2. Cardinality(study.salts) = 1 \/ study.mode = "clustered_acl"
  BY SameCounts DEF Overlay!Reproducible
<1>3. drawn[s] \in MasksOf(drawn, sel) /\ drawn[t] \in MasksOf(drawn, sel)
  BY DEF MasksOf
<1> QED BY <1>1, <1>2, <1>3, OneMask

(* What the invariant says of the files.                                   *)
LEMMA BucketsExplain ==
  ASSUME Overlay!StudiesAssumption, OverlayInv
  PROVE  Overlay!BucketsExplainGaps
<1> DEFINE st == study
           k == study.k_select
           R == Overlay!RowsOf("queries")
<1>1. /\ study \in Studies /\ k \in Nat \ {0}
      /\ IsFiniteSet(Asked(study)) /\ Cardinality(Asked(study)) \in Nat
  BY StudyIs DEF OverlayInv
<1> SUFFICES ASSUME NEW m \in Overlay!RowsOf("metrics"), m.k = k, Overlay!DrawnAlike(m.sel)
             PROVE  LET rows_ == {r \in R : r.sel = m.sel}
                        high_ == {r \in rows_ : r.gap = "high"}
                        affected == {r \in rows_ : r.gap \in {"high", "medium"}}
                    IN /\ Cardinality(high_) <= m.authorized - m.post_filter
                       /\ Cardinality(affected) <= m.affected
                       /\ \A r \in affected : r.fill = "underfill"
                       /\ (Everything(study) /\ rows_ # {}) =>
                            /\ Cardinality(high_) = m.authorized - m.post_filter
                            /\ Cardinality(affected) = m.affected
  BY SameCounts DEF Overlay!BucketsExplainGaps, Everything, Asked, Overlay!Queries
<1>3. PICK mask \in MasksOf(drawn, m.sel) : Measured(study, mask, m)
  <2>1. Is(outputs["metrics"]) /\ m \in outputs["metrics"].content
    BY RowsOfIs
  <2> QED BY <2>1 DEF OverlayInv, OutputSound, MetricRows
<1> DEFINE P == PostFinds(study, mask, k)
           C == CandFinds(study, mask, k)
           D == OnlyCand(study, mask, k)
           T == Touched(study, mask, k)
<1>4. /\ m.post_filter = Cardinality(P) /\ m.authorized = Cardinality(C) /\ m.affected = Cardinality(T)
  BY <1>3 DEF Measured
<1>5. P \subseteq C /\ D \subseteq T /\ \A q \in T : ~ (Len(PostOf(study, q, mask, k)) >= k)
  BY <1>1, FilteringHelps
<1>6. IsFiniteSet(P) /\ IsFiniteSet(C) /\ IsFiniteSet(T) /\ IsFiniteSet(D)
  <2>1. P \in SUBSET Asked(study) /\ C \in SUBSET Asked(study) /\ T \in SUBSET Asked(study)
        /\ D \in SUBSET Asked(study)
    BY DEF PostFinds, CandFinds, Touched, OnlyCand
  <2> HIDE DEF P, C, T, D
  <2> QED BY <1>1, <2>1, FS_Subset
<1>7. Cardinality(D) = Cardinality(C) - Cardinality(P)
  BY <1>5, <1>6, DifferenceCounts DEF OnlyCand
<1> DEFINE B(q) == Bucketed(study, m.sel, q, mask)
           mine == {r \in R : r.sel = m.sel}
<1>8. \A r \in mine : r.q \in Asked(study) /\ r = B(r.q)
  <2> TAKE r \in mine
  <2>1. Is(outputs["queries"]) /\ r \in outputs["queries"].content /\ r.sel = m.sel
    BY RowsOfIs
  <2>2. PICK other \in MasksOf(drawn, m.sel) : r.q \in Asked(study) /\ r = Bucketed(study, m.sel, r.q, other)
    BY <2>1 DEF OverlayInv, OutputSound, QueryRows
  <2>3. other = mask
    BY AlikeAre
  <2> QED BY <2>2, <2>3
<1>9. \A q : /\ B(q).sel = m.sel /\ B(q).q = q /\ B(q).fill = FillOf(study, q, mask)
             /\ B(q).gap = "high" <=> q \in D
             /\ B(q).gap \in {"high", "medium"} <=> q \in T
  BY <1>5, BucketsAre
<1>10. ASSUME Everything(study), mine # {} PROVE \A q \in Asked(study) : B(q) \in mine
  <2> TAKE q \in Asked(study)
  <2>1. PICK r \in mine : TRUE
    BY <1>10
  <2>2. Is(outputs["queries"]) /\ r \in outputs["queries"].content /\ r.sel = m.sel
        /\ R = outputs["queries"].content
    BY RowsOfIs
  <2>3. PICK other \in MasksOf(drawn, m.sel) : Bucketed(study, m.sel, q, other) \in R
    BY <1>10, <2>2 DEF OverlayInv, OutputSound, AllBucketed
  <2>4. other = mask
    BY AlikeAre
  <2> QED BY <1>9, <2>3, <2>4
<1> DEFINE high_ == {r \in mine : r.gap = "high"}
           affected == {r \in mine : r.gap \in {"high", "medium"}}
<1>11. D \subseteq Asked(study) /\ T \subseteq Asked(study)
  BY DEF OnlyCand, CandFinds, Touched
<1> HIDE DEF P, C, D, T, B, R, mine
<1>12. high_ \subseteq {B(q) : q \in D}
  BY <1>8, <1>9
<1>13. affected \subseteq {B(q) : q \in T}
  BY <1>8, <1>9
<1>14. \A r \in affected : r.fill = "underfill"
  <2> TAKE r \in affected
  <2>1. r \in mine /\ r.gap \in {"high", "medium"} /\ r = B(r.q)
    BY <1>8
  <2>2. r.q \in T /\ r.fill = FillOf(study, r.q, mask)
    BY <1>9, <2>1
  <2>3. Len(PostOf(study, r.q, mask, k)) < k
    <3>1. ~ (Len(PostOf(study, r.q, mask, k)) >= k)
      BY <1>5, <2>2
    <3>2. Len(PostOf(study, r.q, mask, k)) \in Nat
      BY <1>1, <1>8, <2>1, FilteredLength
    <3> QED BY <1>1, <3>1, <3>2
  <2> QED BY <2>2, <2>3 DEF FillOf
<1>15. ASSUME Everything(study), mine # {}
       PROVE  high_ = {B(q) : q \in D} /\ affected = {B(q) : q \in T}
  BY <1>9, <1>10, <1>11, <1>12, <1>13, <1>15
<1> HIDE DEF high_, affected
<1>16. /\ Cardinality(high_) <= Cardinality(D)
       /\ high_ = {B(q) : q \in D} => Cardinality(high_) = Cardinality(D)
  BY <1>6, <1>12, RowsAreQueries DEF B
<1>17. /\ Cardinality(affected) <= Cardinality(T)
       /\ affected = {B(q) : q \in T} => Cardinality(affected) = Cardinality(T)
  BY <1>6, <1>13, RowsAreQueries DEF B
<1> QED BY <1>4, <1>7, <1>14, <1>15, <1>16, <1>17 DEF high_, affected, mine

LEMMA CalibratesAll ==
  ASSUME Overlay!StudiesAssumption, OverlayInv
  PROVE  Overlay!CalibratesTheSelected
<1>1. study \in Studies /\ study.k_select \in Nat \ {0}
  BY StudyIs DEF OverlayInv
<1>2. ASSUME next = "done", NEW r \in Overlay!RowsOf("queries"), NEW k \in study.ks
      PROVE  \E c \in checkpoint : <<c.sel, c.q, c.k>> = <<r.sel, r.q, k>>
  BY <1>2, RowsOfIs DEF OverlayInv, CalibrateSound, Calibrated
<1>3. ASSUME NEW r \in Overlay!RowsOf("queries"), NEW c \in checkpoint,
             c.sel = r.sel, c.q = r.q, c.k = study.k_select, Overlay!DrawnAlike(r.sel)
      PROVE  /\ r.gap = "high" <=> c.candidate /\ ~c.post_filter
             /\ r.fill = "underfill" <=> c.underfill
  <2> DEFINE k == study.k_select
  <2>1. Is(outputs["queries"]) /\ r \in outputs["queries"].content
    BY <1>3, RowsOfIs
  <2>2. PICK mask \in MasksOf(drawn, r.sel) : r.q \in Asked(study) /\ r = Bucketed(study, r.sel, r.q, mask)
    BY <2>1 DEF OverlayInv, OutputSound, QueryRows
  <2>3. PICK other \in MasksOf(drawn, c.sel) : Compared(study, other, c)
    BY <1>3 DEF OverlayInv, CheckRows
  <2>4. other = mask
    <3>1. other \in MasksOf(drawn, r.sel)
      BY <1>3, <2>3
    <3> QED BY <1>3, <2>2, <3>1, AlikeAre
  <2>5. /\ PostFinds(study, mask, k) \subseteq CandFinds(study, mask, k)
        /\ OnlyCand(study, mask, k) \subseteq Touched(study, mask, k)
    BY <1>1, FilteringHelps
  <2>6. /\ r.fill = FillOf(study, r.q, mask)
        /\ r.gap = "high" <=> r.q \in OnlyCand(study, mask, k)
    BY <2>2, <2>5, BucketsAre
  <2>7. /\ c.post_filter = Finds(study, r.q, PostOf(study, r.q, mask, k))
        /\ c.candidate   = Finds(study, r.q, CandOf(study, r.q, mask, k))
        /\ c.underfill   = (Len(PostOf(study, r.q, mask, k)) < k)
    BY <1>3, <2>3, <2>4 DEF Compared
  <2>8. r.q \in OnlyCand(study, mask, k) <=> c.candidate /\ ~c.post_filter
    <3>1. r.q \in PostFinds(study, mask, k) <=> Finds(study, r.q, PostOf(study, r.q, mask, k))
      BY <2>2 DEF PostFinds
    <3>2. r.q \in CandFinds(study, mask, k) <=> Finds(study, r.q, CandOf(study, r.q, mask, k))
      BY <2>2 DEF CandFinds
    <3> QED BY <2>7, <3>1, <3>2 DEF OnlyCand
  <2>9. FillOf(study, r.q, mask) = "underfill" <=> c.underfill
    BY <2>7 DEF FillOf
  <2> QED BY <2>6, <2>8, <2>9
<1> QED BY <1>2, <1>3 DEF Overlay!CalibratesTheSelected

LEMMA LeavesNothingOut ==
  ASSUME OverlayInv
  PROVE  Overlay!NothingLeftOut
<1> SUFFICES ASSUME next = "done", losses = 0
             PROVE  /\ {<<m.sel, m.k>> : m \in Overlay!RowsOf("metrics")} = study.sels \X study.ks
                    /\ study.max_queries <= 0 =>
                         {r.sel : r \in Overlay!RowsOf("queries")} = study.sels
  BY DEF Overlay!NothingLeftOut
<1>1. Unlost(study, next, script, masks, outputs)
  BY DEF OverlayInv
<1>2. Is(outputs["metrics"]) /\ Pairs(outputs["metrics"].content) = study.sels \X study.ks
  BY <1>1 DEF Unlost
<1>3. study.max_queries <= 0 =>
        Is(outputs["queries"]) /\ SelsIn(outputs["queries"].content) = study.sels
  BY <1>1 DEF Unlost
<1> QED BY <1>2, <1>3, RowsOfIs DEF Pairs, SelsIn

LEMMA OverlaySuffices ==
  ASSUME Overlay!StudiesAssumption, OverlayInv
  PROVE  Overlay!EvaluatesWhatIsThere
BY BucketsExplain, CalibratesAll, MasksRepeat, LeavesNothingOut DEF Overlay!EvaluatesWhatIsThere

(* Init, and every step of a script.                                       *)
LEMMA OverlayStarts ==
  ASSUME Overlay!StudiesAssumption, Overlay!Init
  PROVE  OverlayInv
<1>1. /\ study \in Studies /\ masks = [sel \in study.sels |-> [state |-> "none"]]
      /\ outputs = [o \in {"metrics", "summary", "queries"} |-> [state |-> "none"]]
      /\ checkpoint = {} /\ drawn = <<>> /\ next = "generate" /\ losses = 0
      /\ script = [name |-> "none", salt |-> 0, left |-> {}, rows |-> {}, todo |-> <<>>, open |-> FALSE]
  BY DEF Overlay!Init, Overlay!NoFile, Overlay!Idle
<1>2. DOMAIN drawn = {}
  BY <1>1
<1>3. DrawSound(study, drawn)
  BY <1>2 DEF DrawSound
<1>4. MaskSound(study, masks, drawn)
  BY <1>1 DEF MaskSound, Is
<1>5. OutputSound(study, outputs, drawn)
  BY <1>1 DEF OutputSound, Is
<1>6. CheckRows(study, drawn, checkpoint)
  BY <1>1 DEF CheckRows
<1>7. Shape(next, script)
  BY <1>1 DEF Shape
<1>8. /\ GenerateSound(study, script) /\ EvaluateSound(study, script, outputs, drawn)
      /\ SelectSound(study, script, drawn) /\ CalibrateSound(study, next, script, outputs, checkpoint)
      /\ ListedSound(script, masks)
  BY <1>1 DEF GenerateSound, EvaluateSound, SelectSound, CalibrateSound, ListedSound
<1>9. Unlost(study, next, script, masks, outputs)
  BY <1>1 DEF Unlost
<1> QED BY <1>1, <1>3, <1>4, <1>5, <1>6, <1>7, <1>8, <1>9 DEF OverlayInv

(* What holds of the script between the files.                             *)
OverlayScript(st, nx, sc, ma, ou, dr, C) ==
  /\ Shape(nx, sc) /\ GenerateSound(st, sc) /\ EvaluateSound(st, sc, ou, dr)
  /\ SelectSound(st, sc, dr) /\ CalibrateSound(st, nx, sc, ou, C) /\ ListedSound(sc, ma)

OverlayFiles(st, ma, ou, dr, C) ==
  /\ DrawSound(st, dr) /\ MaskSound(st, ma, dr) /\ OutputSound(st, ou, dr) /\ CheckRows(st, dr, C)

LEMMA OverlayParts ==
  OverlayInv <=> /\ study \in Studies /\ losses \in Nat
                 /\ OverlayFiles(study, masks, outputs, drawn, checkpoint)
                 /\ OverlayScript(study, next, script, masks, outputs, drawn, checkpoint)
                 /\ losses = 0 => Unlost(study, next, script, masks, outputs)
BY DEF OverlayInv, OverlayFiles, OverlayScript

LEMMA OverlayPartsNext ==
  ASSUME study' \in Studies, losses' \in Nat,
         OverlayFiles(study', masks', outputs', drawn', checkpoint'),
         OverlayScript(study', next', script', masks', outputs', drawn', checkpoint'),
         losses' = 0 => Unlost(study', next', script', masks', outputs')
  PROVE  OverlayInv'
BY DEF OverlayInv, OverlayFiles, OverlayScript

(* Nobody runs.                                                            *)
LEMMA NobodyRuns ==
  ASSUME NEW st, NEW nx \in {"generate", "evaluate", "select", "calibrate"},
         NEW ma, NEW ou, NEW dr, NEW C
  PROVE  /\ OverlayScript(st, nx, Overlay!Idle, ma, ou, dr, C)
         /\ nx = "generate" => Unlost(st, nx, Overlay!Idle, ma, ou)
BY DEF OverlayScript, Shape, GenerateSound, EvaluateSound, SelectSound, CalibrateSound, ListedSound, Unlost, Overlay!Idle

(* A script that fails, or was repeated, changes no file.                  *)
LEMMA FailKeeps ==
  ASSUME OverlayInv, UNCHANGED <<study, masks, outputs, checkpoint, drawn, losses>>,
         next' = "generate", script' = Overlay!Idle
  PROVE  OverlayInv'
<1>1. /\ study \in Studies /\ losses \in Nat
      /\ OverlayFiles(study, masks, outputs, drawn, checkpoint)
  BY OverlayParts
<1> QED BY <1>1, NobodyRuns, OverlayPartsNext

LEMMA OverlayStarting ==
  ASSUME OverlayInv, Overlay!Start
  PROVE  OverlayInv'
<1>1. /\ study \in Studies /\ losses \in Nat
      /\ OverlayFiles(study, masks, outputs, drawn, checkpoint)
      /\ OverlayScript(study, next, script, masks, outputs, drawn, checkpoint)
      /\ losses = 0 => Unlost(study, next, script, masks, outputs)
  BY OverlayParts
<1>2. /\ next # "done" /\ script.name = "none"
      /\ UNCHANGED <<study, masks, outputs, checkpoint, drawn, losses>>
  BY DEF Overlay!Start, Overlay!Running
<1>3. CASE Overlay!Exits(next)
  BY <1>2, <1>3, FailKeeps DEF Overlay!Start, Overlay!Fail, Overlay!Finish
<1>4. CASE ~ Overlay!Exits(next)
  <2> DEFINE left == Overlay!Inputs(next)
             todo_ == Overlay!OutputsOf(next)
  <2>1. PICK salt \in study.salts :
          script' = [Overlay!Idle EXCEPT !.name = next, !.salt = salt, !.left = left, !.todo = todo_]
    BY <1>4 DEF Overlay!Start
  <2>2. script' = [name |-> next, salt |-> salt, left |-> left, rows |-> {}, todo |-> todo_, open |-> FALSE]
    <3> HIDE DEF left, todo_
    <3> QED BY <2>1 DEF Overlay!Idle
  <2>3. next' = next /\ next \in {"generate", "evaluate", "select", "calibrate"}
    BY <1>1, <1>2, <1>4 DEF Overlay!Start, OverlayScript, Shape
  <2>4. /\ next = "generate" => left = study.sels /\ todo_ = <<>>
        /\ next = "evaluate" => todo_ = <<"metrics", "summary">>
        /\ next = "select" => todo_ = <<"queries">>
        /\ next \in {"evaluate", "select"} => left = {sel \in study.sels : masks[sel].state # "none"}
        /\ next = "calibrate" =>
             todo_ = <<>> /\ Is(outputs["queries"]) /\ left = outputs["queries"].content
    BY <2>3, <1>4 DEF Overlay!Inputs, Overlay!OutputsOf, Overlay!Exits, Is
  <2> HIDE DEF left, todo_
  <2>5. OverlayScript(study, next, script', masks, outputs, drawn, checkpoint)
    <3>1. Shape(next, script')
      BY <2>2, <2>3 DEF Shape
    <3>2. GenerateSound(study, script') /\ EvaluateSound(study, script', outputs, drawn)
      BY <2>2, <2>4 DEF GenerateSound, EvaluateSound, MetricRows
    <3>3. SelectSound(study, script', drawn)
      BY <2>2, <2>4 DEF SelectSound, QueryRows, AllBucketed
    <3>4. CalibrateSound(study, next, script', outputs, checkpoint)
      BY <1>2, <2>2, <2>4 DEF CalibrateSound
    <3>5. ListedSound(script', masks)
      BY <2>2, <2>4 DEF ListedSound
    <3> QED BY <3>1, <3>2, <3>3, <3>4, <3>5 DEF OverlayScript
  <2>6. ASSUME losses = 0 PROVE Unlost(study, next, script', masks, outputs)
    <3>1. Unlost(study, next, script, masks, outputs)
      BY <1>1, <2>6
    <3>2. next \in {"evaluate", "select"} => left = study.sels
      BY <2>4, <3>1 DEF Unlost, Is
    <3>3. \A S : S \ S = {} /\ Pairs({}) = {} \X study.ks /\ SelsIn({}) = {}
      BY DEF Pairs, SelsIn
    <3> QED BY <2>2, <2>3, <2>4, <3>1, <3>2, <3>3 DEF Unlost
  <2> QED BY <1>1, <1>2, <2>3, <2>5, <2>6, OverlayPartsNext
<1> QED BY <1>3, <1>4

LEMMA MasksFollow ==
  ASSUME OverlayInv, Overlay!OpenMask
  PROVE  OverlayInv'
<1> DEFINE sel == Overlay!Min(script.left)
<1>1. /\ study \in Studies /\ losses \in Nat
      /\ OverlayFiles(study, masks, outputs, drawn, checkpoint)
      /\ OverlayScript(study, next, script, masks, outputs, drawn, checkpoint)
      /\ losses = 0 => Unlost(study, next, script, masks, outputs)
  BY OverlayParts
<1>2. /\ script.name = "generate" /\ script.left # {} /\ script.left \subseteq study.sels
      /\ masks' = [masks EXCEPT ![sel] = [state |-> "torn"]]
      /\ script' = [script EXCEPT !.open = TRUE]
      /\ UNCHANGED <<study, outputs, checkpoint, drawn, next, losses>>
  BY <1>1 DEF Overlay!OpenMask, Overlay!Running, Overlay!TornFile, OverlayScript, GenerateSound
<1>3. /\ script' = [name |-> "generate", salt |-> script.salt, left |-> script.left,
                    rows |-> script.rows, todo |-> script.todo, open |-> TRUE]
      /\ next = "generate" /\ script.salt \in study.salts /\ script.todo = <<>>
  BY <1>1, <1>2 DEF OverlayScript, Shape, GenerateSound
<1>4. sel \in script.left
  BY <1>1, <1>2, LeastIn, StudyIs, MeasuringAssumption
<1> HIDE DEF sel
<1>5. OverlayFiles(study, masks', outputs, drawn, checkpoint)
  BY <1>1, <1>2 DEF OverlayFiles, MaskSound, Is
<1>6. OverlayScript(study, next, script', masks', outputs, drawn, checkpoint)
  BY <1>2, <1>3 DEF OverlayScript, Shape, GenerateSound, EvaluateSound, SelectSound, CalibrateSound, ListedSound
<1>7. ASSUME losses = 0 PROVE Unlost(study, next, script', masks', outputs)
  <2>1. Unlost(study, next, script, masks, outputs)
    BY <1>1, <1>7
  <2>2. \A other \in study.sels \ script.left : other # sel /\ masks'[other] = masks[other]
    BY <1>1, <1>2, <1>4 DEF OverlayFiles, MaskSound
  <2>3. \A other \in study.sels \ script.left : Is(masks'[other])
    BY <1>2, <2>1, <2>2 DEF Unlost
  <2> QED BY <1>3, <2>3 DEF Unlost
<1> QED BY <1>1, <1>2, <1>5, <1>6, <1>7, OverlayPartsNext

(* The same seed draws the same mask, so no mask drawn before changes.     *)
LEMMA DrawsFollow ==
  ASSUME OverlayInv, Overlay!SaveMask
  PROVE  OverlayInv'
<1> DEFINE sel == Overlay!Min(script.left)
           seed == <<sel, script.salt>>
<1>1. /\ study \in Studies /\ losses \in Nat
      /\ OverlayFiles(study, masks, outputs, drawn, checkpoint)
      /\ OverlayScript(study, next, script, masks, outputs, drawn, checkpoint)
      /\ losses = 0 => Unlost(study, next, script, masks, outputs)
  BY OverlayParts
<1>2. /\ script.name = "generate" /\ script.open
      /\ script' = [script EXCEPT !.left = @ \ {sel}, !.open = FALSE]
      /\ UNCHANGED <<study, outputs, checkpoint, next, losses>>
  BY DEF Overlay!SaveMask, Overlay!Running
<1>3. PICK mask \in IF seed \in DOMAIN drawn THEN {drawn[seed]} ELSE Overlay!GenerateOverlay(sel) :
        /\ masks' = [masks EXCEPT ![sel] = [state |-> "whole", content |-> mask]]
        /\ drawn' = [s \in DOMAIN drawn \cup {seed} |-> IF s = seed THEN mask ELSE drawn[s]]
  BY DEF Overlay!SaveMask, Overlay!SeedFor, Overlay!Whole
<1>4. /\ script' = [name |-> "generate", salt |-> script.salt, left |-> script.left \ {sel},
                    rows |-> script.rows, todo |-> script.todo, open |-> FALSE]
      /\ next = "generate" /\ script.salt \in study.salts /\ script.todo = <<>>
      /\ script.left # {} /\ script.left \subseteq study.sels
  BY <1>1, <1>2 DEF OverlayScript, Shape, GenerateSound
<1>5. sel \in script.left /\ sel \in study.sels
  BY <1>1, <1>4, LeastIn, StudyIs, MeasuringAssumption
<1> HIDE DEF sel
<1>6. seed[1] = sel /\ seed \in study.sels \X study.salts
  BY <1>4, <1>5
<1>7. study.mode = "clustered_acl" /\ seed \notin DOMAIN drawn => mask \in Clusters(study, sel)
  BY <1>3, OneCluster DEF Overlay!GenerateOverlay
<1>8. seed \in DOMAIN drawn => mask = drawn[seed]
  BY <1>3
<1> HIDE DEF seed
<1>9. Extends(drawn, drawn') /\ mask \in MasksOf(drawn', sel)
  <2>1. seed \in DOMAIN drawn' /\ drawn'[seed] = mask
    BY <1>3
  <2> QED BY <1>3, <1>6, <1>8, <2>1 DEF Extends, MasksOf
<1>10. DrawSound(study, drawn')
  <2>1. DrawSound(study, drawn)
    BY <1>1 DEF OverlayFiles
  <2>2. DOMAIN drawn' \subseteq study.sels \X study.salts
    BY <1>3, <1>6, <2>1 DEF DrawSound
  <2>3. ASSUME study.mode = "clustered_acl", NEW s \in DOMAIN drawn'
        PROVE  drawn'[s] \in Clusters(study, s[1])
    <3>1. CASE s = seed
      BY <1>3, <1>6, <1>7, <1>8, <2>1, <2>3, <3>1 DEF DrawSound
    <3>2. CASE s # seed
      BY <1>3, <2>1, <2>3, <3>2 DEF DrawSound
    <3> QED BY <3>1, <3>2
  <2> QED BY <2>2, <2>3 DEF DrawSound
<1>11. MaskSound(study, masks', drawn')
  <2>1. MaskSound(study, masks, drawn) /\ \A other : MasksOf(drawn, other) \subseteq MasksOf(drawn', other)
    BY <1>1, <1>9, RowsStay DEF OverlayFiles
  <2> QED BY <1>3, <1>5, <1>9, <2>1 DEF MaskSound, Is
<1>12. OutputSound(study, outputs, drawn') /\ CheckRows(study, drawn', checkpoint)
  BY <1>1, <1>9, RowsStay DEF OverlayFiles, OutputSound
<1>13. OverlayScript(study, next, script', masks', outputs, drawn', checkpoint)
  BY <1>4 DEF OverlayScript, Shape, GenerateSound, EvaluateSound, SelectSound, CalibrateSound, ListedSound
<1>14. ASSUME losses = 0 PROVE Unlost(study, next, script', masks', outputs)
  <2>1. Unlost(study, next, script, masks, outputs) /\ DOMAIN masks = study.sels
    BY <1>1, <1>14 DEF OverlayFiles, MaskSound
  <2>2. \A other \in study.sels \ (script.left \ {sel}) : Is(masks'[other])
    BY <1>2, <1>3, <1>5, <2>1 DEF Unlost, Is
  <2> QED BY <1>4, <2>2 DEF Unlost
<1>15. OverlayFiles(study, masks', outputs, drawn', checkpoint)
  BY <1>10, <1>11, <1>12 DEF OverlayFiles
<1> QED BY <1>1, <1>2, <1>13, <1>14, <1>15, OverlayPartsNext

LEMMA OverlayMovesOn ==
  ASSUME OverlayInv, Overlay!Generated \/ Overlay!Calibrated \/ Overlay!Kill \/ Overlay!Renew
  PROVE  OverlayInv'
<1>1. /\ study \in Studies /\ losses \in Nat
      /\ OverlayFiles(study, masks, outputs, drawn, checkpoint)
      /\ OverlayScript(study, next, script, masks, outputs, drawn, checkpoint)
      /\ losses = 0 => Unlost(study, next, script, masks, outputs)
  BY OverlayParts
<1>2. UNCHANGED <<study, masks, outputs, checkpoint, drawn>>
  BY DEF Overlay!Generated, Overlay!Calibrated, Overlay!Kill, Overlay!Renew
<1>3. CASE Overlay!Generated
  <2>1. /\ script.name = "generate" /\ script.left = {} /\ next' = "evaluate" /\ script' = Overlay!Idle
        /\ UNCHANGED losses
    BY <1>3 DEF Overlay!Generated, Overlay!Running, Overlay!Finish
  <2>2. losses = 0 => Unlost(study, next', script', masks, outputs)
    BY <1>1, <2>1 DEF Unlost, Overlay!Idle
  <2> QED BY <1>1, <1>2, <2>1, <2>2, NobodyRuns, OverlayPartsNext
<1>4. CASE Overlay!Calibrated
  <2>1. /\ script.name = "calibrate" /\ script.left = {} /\ next' = "done" /\ script' = Overlay!Idle
        /\ UNCHANGED losses
    BY <1>4 DEF Overlay!Calibrated, Overlay!Running, Overlay!Finish
  <2>2. next = "calibrate"
    BY <1>1, <2>1 DEF OverlayScript, Shape
  <2>3. losses = 0 => Unlost(study, next', script', masks, outputs)
    BY <1>1, <2>1, <2>2 DEF Unlost, Overlay!Idle
  <2>4. OverlayScript(study, next', script', masks, outputs, drawn, checkpoint)
    BY <1>1, <2>1 DEF OverlayScript, Shape, GenerateSound, EvaluateSound, SelectSound, CalibrateSound, ListedSound,
                      Overlay!Idle
  <2> QED BY <1>1, <1>2, <2>1, <2>3, <2>4, OverlayPartsNext
<1>5. CASE Overlay!Kill
  <2>1. /\ script.name # "none" /\ losses' = losses + 1 /\ script' = Overlay!Idle
        /\ next' \in {next} \cup (CASE next = "generate" -> {"evaluate"}
                             [] next = "evaluate" -> {"select"}
                             [] next = "select" -> {"calibrate"}
                             [] OTHER -> {})
    BY <1>5 DEF Overlay!Kill, Overlay!Running
  <2>2. next \in {"generate", "evaluate", "select", "calibrate"}
    BY <1>1, <2>1 DEF OverlayScript, Shape
  <2>3. next' \in {"generate", "evaluate", "select", "calibrate"}
    BY <2>1, <2>2
  <2>4. losses' \in Nat /\ losses' # 0
    BY <1>1, <2>1
  <2> QED BY <1>1, <1>2, <2>1, <2>3, <2>4, NobodyRuns, OverlayPartsNext
<1>6. CASE Overlay!Renew
  <2>1. script.name = "none" /\ next' = "generate" /\ UNCHANGED <<script, losses>>
    BY <1>6 DEF Overlay!Renew, Overlay!Running
  <2>2. OverlayScript(study, next', script, masks, outputs, drawn, checkpoint)
    BY <1>1, <2>1 DEF OverlayScript, Shape, GenerateSound, EvaluateSound, SelectSound, CalibrateSound, ListedSound
  <2>3. Unlost(study, next', script, masks, outputs)
    BY <2>1 DEF Unlost
  <2> QED BY <1>1, <1>2, <2>1, <2>2, <2>3, OverlayPartsNext
<1> QED BY <1>3, <1>4, <1>5, <1>6

(* What a row holds.                                                       *)
LEMMA TraceRow ==
  ASSUME NEW sel, NEW mask, NEW k
  PROVE  LET m == Overlay!EvaluateTrace(sel, mask, k)
         IN m.sel = sel /\ m.k = k /\ Measured(study, mask, m)
BY SameCounts
   DEF Overlay!EvaluateTrace, Overlay!PostFilterResults, Overlay!CandidateResults, Overlay!Hit,
       Overlay!Queries, Measured, PostFinds, CandFinds, Touched, Finds, PostOf, CandOf, Asked

LEMMA SelectedRow ==
  ASSUME NEW sel, NEW q \in Asked(study), NEW mask
  PROVE  Overlay!SelectionRow(sel, q, mask) = Bucketed(study, sel, q, mask)
<1> DEFINE k == study.k_select
           post == PostOf(study, q, mask, k)
           cand == CandOf(study, q, mask, k)
<1>1. /\ Overlay!PostFilterResults(q, mask, k) = post /\ Overlay!CandidateResults(q, mask, k) = cand
      /\ \A r : Overlay!Hit(q, r) <=> Finds(study, q, r)
  BY DEF Overlay!PostFilterResults, Overlay!CandidateResults, Overlay!Hit, Finds, PostOf, CandOf
<1>2. /\ q \in PostFinds(study, mask, k) <=> Finds(study, q, post)
      /\ q \in CandFinds(study, mask, k) <=> Finds(study, q, cand)
      /\ q \in Touched(study, mask, k) <=> post # cand
  BY DEF PostFinds, CandFinds, Touched
<1>3. q \in OnlyCand(study, mask, k) <=> Finds(study, q, cand) /\ ~ Finds(study, q, post)
  BY <1>2 DEF OnlyCand
<1> HIDE DEF post, cand
<1>4. Overlay!GapBucket(q, mask) = GapOf(study, q, mask)
  BY <1>1, <1>2, <1>3 DEF Overlay!GapBucket, GapOf
<1>5. Overlay!UnderfillBucket(q, mask) = FillOf(study, q, mask)
  BY <1>1 DEF Overlay!UnderfillBucket, FillOf, post
<1> QED BY <1>4, <1>5 DEF Overlay!SelectionRow, Bucketed

(* Some queries are selected, and all of them if so many are wanted.       *)
LEMMA SelectedRows ==
  ASSUME Overlay!StudiesAssumption, study \in Studies, NEW sel, NEW mask,
         NEW R \in Overlay!SelectCalibrationQueries(sel, mask)
  PROVE  /\ R \subseteq {Bucketed(study, sel, q, mask) : q \in Asked(study)} /\ R # {}
         /\ Everything(study) => \A q \in Asked(study) : Bucketed(study, sel, q, mask) \in R
<1> DEFINE all == {Bucketed(study, sel, q, mask) : q \in Asked(study)}
           Bin(b) == {r \in all : r.gap = b.gap /\ r.fill = b.fill}
           n == study.per_bucket
<1>1. /\ IsFiniteSet(Asked(study)) /\ Cardinality(Asked(study)) \in Nat /\ Asked(study) # {}
      /\ n \in Nat \ {0}
  BY StudyIs
<1>2. R \subseteq all /\ \A b \in all : Cardinality(R \cap Bin(b)) = Overlay!Min({n, Cardinality(Bin(b))})
  <2>1. {Overlay!SelectionRow(sel, q, mask) : q \in Overlay!Queries} = all
    BY SelectedRow DEF Overlay!Queries, Asked
  <2> HIDE DEF all
  <2>2. /\ R \in SUBSET all
        /\ \A B \in {Bin(b) : b \in all} :
             Overlay!Cardinality(R \cap B) = Overlay!Min({n, Overlay!Cardinality(B)})
    BY <2>1 DEF Overlay!SelectCalibrationQueries
  <2> HIDE DEF Bin, n
  <2>3. ASSUME NEW b \in all PROVE Cardinality(R \cap Bin(b)) = Overlay!Min({n, Cardinality(Bin(b))})
    <3> DEFINE B == Bin(b)
    <3>1. B \in {Bin(x) : x \in all}
      OBVIOUS
    <3> HIDE DEF B
    <3>2. Overlay!Cardinality(R \cap B) = Overlay!Min({n, Overlay!Cardinality(B)})
      BY <2>2, <3>1
    <3> QED BY <3>2, SameCounts DEF B
  <2> QED BY <2>2, <2>3
<1>3. all \subseteq {Bucketed(study, sel, q, mask) : q \in Asked(study)}
  OBVIOUS
<1>4. Cardinality(all) \in Nat /\ Cardinality(all) <= Cardinality(Asked(study)) /\ IsFiniteSet(all)
  <2>1. Cardinality(all) \in Nat /\ Cardinality(all) <= Cardinality(Asked(study))
    BY <1>1, <1>3, RowsAreQueries
  <2> DEFINE f == [r \in all |-> r.q]
  <2>2. \A q : Bucketed(study, sel, q, mask).q = q
    BY DEF Bucketed
  <2>3. f \in Injection(all, Asked(study))
    BY <2>2 DEF Injection, IsInjective
  <2> HIDE DEF f
  <2>4. IsFiniteSet(all)
    BY <1>1, <2>3, FS_Injection
  <2> QED BY <2>1, <2>4
<1>5. ASSUME NEW b \in all
      PROVE  /\ IsFiniteSet(Bin(b)) /\ Cardinality(Bin(b)) \in Nat \ {0} /\ b \in Bin(b)
             /\ Cardinality(Bin(b)) <= Cardinality(all)
  <2>1. Bin(b) \in SUBSET all /\ b \in Bin(b)
    OBVIOUS
  <2> HIDE DEF Bin, all
  <2>2. IsFiniteSet(Bin(b)) /\ Cardinality(Bin(b)) <= Cardinality(all)
    BY <1>4, <2>1, FS_Subset
  <2>3. Cardinality(Bin(b)) \in Nat /\ Cardinality(Bin(b)) # 0
    BY <2>1, <2>2, FS_CardinalityType, FS_EmptySet
  <2> QED BY <2>1, <2>2, <2>3
<1>6. \E b : b \in all
  BY <1>1
<1> HIDE DEF all, Bin, n
<1>7. ASSUME NEW b \in all
      PROVE  /\ Cardinality(R \cap Bin(b)) # 0
             /\ n >= Cardinality(Bin(b)) => Cardinality(R \cap Bin(b)) = Cardinality(Bin(b))
  <2> DEFINE c == Cardinality(Bin(b))
  <2>1. c \in Nat \ {0}
    BY <1>5
  <2> HIDE DEF c
  <2>2. Overlay!Min({n, c}) = IF n <= c THEN n ELSE c
    BY <1>1, <2>1, SmallerOf
  <2>3. Cardinality(R \cap Bin(b)) = Overlay!Min({n, c})
    BY <1>2 DEF c
  <2>4. Overlay!Min({n, c}) # 0 /\ (n >= c => Overlay!Min({n, c}) = c)
    BY <1>1, <2>1, <2>2
  <2> QED BY <2>3, <2>4 DEF c
<1>8. R # {}
  <2>1. PICK b \in all : TRUE
    BY <1>6
  <2>2. Cardinality(R \cap Bin(b)) # 0
    BY <1>7
  <2> QED BY <2>2, FS_EmptySet
<1>9. ASSUME Everything(study), NEW q \in Asked(study) PROVE Bucketed(study, sel, q, mask) \in R
  <2> DEFINE b == Bucketed(study, sel, q, mask)
  <2>1. b \in all
    BY DEF all
  <2> HIDE DEF b
  <2>2. /\ IsFiniteSet(Bin(b)) /\ Cardinality(Bin(b)) \in Nat \ {0} /\ b \in Bin(b)
        /\ Cardinality(Bin(b)) <= Cardinality(all)
    BY <1>5, <2>1
  <2>3. n >= Cardinality(Bin(b))
    BY <1>1, <1>4, <1>9, <2>2 DEF Everything, n
  <2>4. Cardinality(R \cap Bin(b)) = Cardinality(Bin(b))
    BY <1>7, <2>1, <2>3
  <2>5. R \cap Bin(b) = Bin(b)
    <3>1. R \cap Bin(b) \in SUBSET Bin(b)
      OBVIOUS
    <3> QED BY <2>2, <2>4, <3>1, FS_Subset
  <2> QED BY <2>2, <2>5 DEF b
<1> QED BY <1>2, <1>8, <1>9 DEF all

LEMMA ScriptContinues ==
  ASSUME NEW sc, sc = [name |-> sc.name, salt |-> sc.salt, left |-> sc.left, rows |-> sc.rows,
                       todo |-> sc.todo, open |-> sc.open],
         NEW left, NEW R
  PROVE  [sc EXCEPT !.left = left, !.rows = R] =
           [name |-> sc.name, salt |-> sc.salt, left |-> left, rows |-> R,
            todo |-> sc.todo, open |-> sc.open]
<1> DEFINE one == [sc EXCEPT !.left = left]
           two == [one EXCEPT !.rows = R]
<1>1. [sc EXCEPT !.left = left, !.rows = R] = two
  OBVIOUS
<1>2. one = [name |-> sc.name, salt |-> sc.salt, left |-> left, rows |-> sc.rows,
             todo |-> sc.todo, open |-> sc.open]
  OBVIOUS
<1> HIDE DEF one
<1>3. two = [name |-> sc.name, salt |-> sc.salt, left |-> left, rows |-> R,
             todo |-> sc.todo, open |-> sc.open]
  BY <1>2
<1> HIDE DEF two
<1> QED BY <1>1, <1>3

LEMMA ScriptOpens ==
  ASSUME NEW sc, sc = [name |-> sc.name, salt |-> sc.salt, left |-> sc.left, rows |-> sc.rows,
                       todo |-> sc.todo, open |-> sc.open],
         NEW R, NEW b
  PROVE  [sc EXCEPT !.rows = R, !.open = b] =
           [name |-> sc.name, salt |-> sc.salt, left |-> sc.left, rows |-> R,
            todo |-> sc.todo, open |-> b]
<1> DEFINE one == [sc EXCEPT !.rows = R]
           two == [one EXCEPT !.open = b]
<1>1. [sc EXCEPT !.rows = R, !.open = b] = two
  OBVIOUS
<1>2. one = [name |-> sc.name, salt |-> sc.salt, left |-> sc.left, rows |-> R,
             todo |-> sc.todo, open |-> sc.open]
  OBVIOUS
<1> HIDE DEF one
<1>3. two = [name |-> sc.name, salt |-> sc.salt, left |-> sc.left, rows |-> R,
             todo |-> sc.todo, open |-> b]
  BY <1>2
<1> HIDE DEF two
<1> QED BY <1>1, <1>3

LEMMA ScriptCloses ==
  ASSUME NEW sc, sc = [name |-> sc.name, salt |-> sc.salt, left |-> sc.left, rows |-> sc.rows,
                       todo |-> sc.todo, open |-> sc.open],
         NEW T, NEW b
  PROVE  [sc EXCEPT !.todo = T, !.open = b] =
           [name |-> sc.name, salt |-> sc.salt, left |-> sc.left, rows |-> sc.rows,
            todo |-> T, open |-> b]
<1> DEFINE one == [sc EXCEPT !.todo = T]
           two == [one EXCEPT !.open = b]
<1>1. [sc EXCEPT !.todo = T, !.open = b] = two
  OBVIOUS
<1>2. one = [name |-> sc.name, salt |-> sc.salt, left |-> sc.left, rows |-> sc.rows,
             todo |-> T, open |-> sc.open]
  OBVIOUS
<1> HIDE DEF one
<1>3. two = [name |-> sc.name, salt |-> sc.salt, left |-> sc.left, rows |-> sc.rows,
             todo |-> T, open |-> b]
  BY <1>2
<1> HIDE DEF two
<1> QED BY <1>1, <1>3

LEMMA MetricsFollow ==
  ASSUME OverlayInv, Overlay!LoadMask, script.name = "evaluate"
  PROVE  OverlayInv'
<1> DEFINE sel == Overlay!Min(script.left)
           mask == masks[sel].content
           more == {Overlay!EvaluateTrace(sel, mask, k) : k \in study.ks}
<1>1. /\ study \in Studies /\ losses \in Nat
      /\ OverlayFiles(study, masks, outputs, drawn, checkpoint)
      /\ OverlayScript(study, next, script, masks, outputs, drawn, checkpoint)
      /\ losses = 0 => Unlost(study, next, script, masks, outputs)
  BY OverlayParts
<1>2. script.left # {} /\ UNCHANGED <<study, masks, outputs, checkpoint, drawn, losses>>
  BY DEF Overlay!LoadMask
<1>3. CASE masks[sel].state = "torn"
  BY <1>2, <1>3, FailKeeps DEF Overlay!LoadMask, Overlay!Fail, Overlay!Finish
<1>4. CASE masks[sel].state # "torn"
  <2>1. /\ next' = next
        /\ script' = [script EXCEPT !.left = script.left \ {sel}, !.rows = script.rows \cup more]
    BY <1>4 DEF Overlay!LoadMask, Overlay!Continue, Overlay!Running
  <2>2. /\ script.left \subseteq study.sels /\ next = "evaluate" /\ ~ script.open
        /\ script.todo = <<"metrics", "summary">> /\ MetricRows(study, drawn, script.rows)
        /\ script = [name |-> "evaluate", salt |-> script.salt, left |-> script.left, rows |-> script.rows,
                     todo |-> script.todo, open |-> FALSE]
        /\ \A other \in script.left : masks[other].state # "none"
    BY <1>1, <1>2 DEF OverlayScript, Shape, EvaluateSound, ListedSound
  <2>3. sel \in script.left
    BY <1>1, <1>2, <2>2, LeastIn, StudyIs, MeasuringAssumption
  <2> HIDE DEF sel
  <2>4. mask \in MasksOf(drawn, sel)
    BY <1>1, <1>4, <2>2, <2>3 DEF OverlayFiles, MaskSound, Is
  <2> HIDE DEF mask
  <2>5. \A m \in more : m.sel = sel /\ Measured(study, mask, m)
    BY TraceRow
  <2>6. Pairs(more) = {sel} \X study.ks
    <3> DEFINE row(k) == Overlay!EvaluateTrace(sel, mask, k)
    <3>1. \A k : row(k).sel = sel /\ row(k).k = k
      BY TraceRow
    <3> HIDE DEF row
    <3>2. more = {row(k) : k \in study.ks}
      BY DEF row
    <3> HIDE DEF more
    <3> QED BY <3>1, <3>2 DEF Pairs
  <2> HIDE DEF more
  <2>7. MetricRows(study, drawn, script.rows \cup more)
    BY <2>2, <2>4, <2>5 DEF MetricRows
  <2>8. script' = [name |-> "evaluate", salt |-> script.salt, left |-> script.left \ {sel},
                   rows |-> script.rows \cup more, todo |-> <<"metrics", "summary">>, open |-> FALSE]
    <3> DEFINE left == script.left \ {sel}
               all == script.rows \cup more
    <3>1. script' = [script EXCEPT !.left = left, !.rows = all]
      BY <2>1
    <3>2. /\ script.name = "evaluate" /\ script.todo = <<"metrics", "summary">> /\ script.open = FALSE
          /\ script = [name |-> script.name, salt |-> script.salt, left |-> script.left,
                       rows |-> script.rows, todo |-> script.todo, open |-> script.open]
      BY <2>2
    <3> HIDE DEF left, all
    <3>3. script' = [name |-> script.name, salt |-> script.salt, left |-> left, rows |-> all,
                     todo |-> script.todo, open |-> script.open]
      BY <3>1, <3>2, ScriptContinues
    <3> QED BY <3>2, <3>3 DEF left, all
  <2>9. OverlayScript(study, next, script', masks, outputs, drawn, checkpoint)
    BY <2>2, <2>7, <2>8
       DEF OverlayScript, Shape, GenerateSound, EvaluateSound, SelectSound, CalibrateSound, ListedSound
  <2>10. ASSUME losses = 0 PROVE Unlost(study, next, script', masks, outputs)
    <3>1. /\ \A other \in study.sels : Is(masks[other])
          /\ Pairs(script.rows) = (study.sels \ script.left) \X study.ks
      BY <1>1, <2>2, <2>10 DEF Unlost
    <3>2. Pairs(script.rows \cup more) = Pairs(script.rows) \cup Pairs(more)
      BY DEF Pairs
    <3>3. study.sels \ (script.left \ {sel}) = (study.sels \ script.left) \cup {sel}
      BY <2>2, <2>3
    <3>4. Pairs(script.rows \cup more) = (study.sels \ (script.left \ {sel})) \X study.ks
      BY <2>6, <3>1, <3>2, <3>3
    <3> QED BY <2>2, <2>8, <3>1, <3>4 DEF Unlost
  <2> QED BY <1>1, <1>2, <2>1, <2>9, <2>10, OverlayPartsNext
<1> QED BY <1>3, <1>4

LEMMA SelectionFollows ==
  ASSUME OverlayInv, Overlay!LoadMask, script.name = "select"
  PROVE  OverlayInv'
<1> DEFINE sel == Overlay!Min(script.left)
           mask == masks[sel].content
<1>1. /\ study \in Studies /\ losses \in Nat
      /\ OverlayFiles(study, masks, outputs, drawn, checkpoint)
      /\ OverlayScript(study, next, script, masks, outputs, drawn, checkpoint)
      /\ losses = 0 => Unlost(study, next, script, masks, outputs)
  BY OverlayParts
<1>2. script.left # {} /\ UNCHANGED <<study, masks, outputs, checkpoint, drawn, losses>>
  BY DEF Overlay!LoadMask
<1>3. CASE masks[sel].state = "torn"
  BY <1>2, <1>3, FailKeeps DEF Overlay!LoadMask, Overlay!Fail, Overlay!Finish
<1>4. CASE masks[sel].state # "torn"
  <2>1. PICK more \in Overlay!SelectCalibrationQueries(sel, mask) :
          /\ next' = next
          /\ script' = [script EXCEPT !.left = script.left \ {sel}, !.rows = script.rows \cup more]
    BY <1>4 DEF Overlay!LoadMask, Overlay!Continue, Overlay!Running
  <2>2. /\ script.left \subseteq study.sels /\ next = "select" /\ ~ script.open
        /\ script.todo = <<"queries">> /\ QueryRows(study, drawn, script.rows)
        /\ AllBucketed(study, drawn, script.rows)
        /\ script = [name |-> "select", salt |-> script.salt, left |-> script.left, rows |-> script.rows,
                     todo |-> script.todo, open |-> FALSE]
        /\ \A other \in script.left : masks[other].state # "none"
    BY <1>1, <1>2 DEF OverlayScript, Shape, SelectSound, ListedSound
  <2>3. sel \in script.left
    BY <1>1, <1>2, <2>2, LeastIn, StudyIs, MeasuringAssumption
  <2> HIDE DEF sel
  <2>4. mask \in MasksOf(drawn, sel)
    BY <1>1, <1>4, <2>2, <2>3 DEF OverlayFiles, MaskSound, Is
  <2> HIDE DEF mask
  <2>5. /\ more \subseteq {Bucketed(study, sel, q, mask) : q \in Asked(study)} /\ more # {}
        /\ Everything(study) => \A q \in Asked(study) : Bucketed(study, sel, q, mask) \in more
    BY <1>1, <2>1, SelectedRows, MeasuringAssumption
  <2>6. \A r \in more : r.sel = sel /\ r.q \in Asked(study) /\ r = Bucketed(study, sel, r.q, mask)
    <3>1. \A q : Bucketed(study, sel, q, mask).q = q /\ Bucketed(study, sel, q, mask).sel = sel
      BY DEF Bucketed
    <3> QED BY <2>5, <3>1
  <2>7. QueryRows(study, drawn, script.rows \cup more)
    BY <2>2, <2>4, <2>6 DEF QueryRows
  <2>8. AllBucketed(study, drawn, script.rows \cup more)
    <3> SUFFICES ASSUME Everything(study), NEW r \in script.rows \cup more, NEW q \in Asked(study)
                 PROVE  \E m \in MasksOf(drawn, r.sel) :
                          Bucketed(study, r.sel, q, m) \in script.rows \cup more
      BY DEF AllBucketed
    <3>1. CASE r \in script.rows
      BY <2>2, <3>1 DEF AllBucketed
    <3>2. CASE r \in more
      BY <2>4, <2>5, <2>6, <3>2
    <3> QED BY <3>1, <3>2
  <2>9. script' = [name |-> "select", salt |-> script.salt, left |-> script.left \ {sel},
                   rows |-> script.rows \cup more, todo |-> <<"queries">>, open |-> FALSE]
    <3> DEFINE left == script.left \ {sel}
               all == script.rows \cup more
    <3>1. script' = [script EXCEPT !.left = left, !.rows = all]
      BY <2>1
    <3>2. /\ script.name = "select" /\ script.todo = <<"queries">> /\ script.open = FALSE
          /\ script = [name |-> script.name, salt |-> script.salt, left |-> script.left,
                       rows |-> script.rows, todo |-> script.todo, open |-> script.open]
      BY <2>2
    <3> HIDE DEF left, all
    <3>3. script' = [name |-> script.name, salt |-> script.salt, left |-> left, rows |-> all,
                     todo |-> script.todo, open |-> script.open]
      BY <3>1, <3>2, ScriptContinues
    <3> QED BY <3>2, <3>3 DEF left, all
  <2>10. OverlayScript(study, next, script', masks, outputs, drawn, checkpoint)
    BY <2>2, <2>7, <2>8, <2>9
       DEF OverlayScript, Shape, GenerateSound, EvaluateSound, SelectSound, CalibrateSound, ListedSound
  <2>11. ASSUME losses = 0 PROVE Unlost(study, next, script', masks, outputs)
    <3>1. Unlost(study, next, script, masks, outputs)
      BY <1>1, <2>11
    <3>2. SelsIn(more) = {sel}
      BY <2>5, <2>6 DEF SelsIn
    <3>3. SelsIn(script.rows \cup more) = SelsIn(script.rows) \cup {sel}
      BY <3>2 DEF SelsIn
    <3>4. study.sels \ (script.left \ {sel}) = (study.sels \ script.left) \cup {sel}
      BY <2>2, <2>3
    <3>5. study.max_queries <= 0 =>
            SelsIn(script.rows \cup more) = study.sels \ (script.left \ {sel})
      BY <2>2, <3>1, <3>3, <3>4 DEF Unlost
    <3> QED BY <2>2, <2>9, <3>1, <3>5 DEF Unlost
  <2> QED BY <1>1, <1>2, <2>1, <2>10, <2>11, OverlayPartsNext
<1> QED BY <1>3, <1>4

LEMMA OutputsOpen ==
  ASSUME OverlayInv, Overlay!OpenOutput
  PROVE  OverlayInv'
<1> DEFINE o == Head(script.todo)
<1>1. /\ study \in Studies /\ losses \in Nat
      /\ OverlayFiles(study, masks, outputs, drawn, checkpoint)
      /\ OverlayScript(study, next, script, masks, outputs, drawn, checkpoint)
      /\ losses = 0 => Unlost(study, next, script, masks, outputs)
  BY OverlayParts
<1>2. /\ script.todo # <<>> /\ script.left = {} /\ ~ script.open
      /\ outputs' = [outputs EXCEPT ![o] = [state |-> "torn"]]
      /\ UNCHANGED <<study, masks, checkpoint, drawn, next, losses>>
  BY DEF Overlay!OpenOutput, Overlay!TornFile
<1>3. PICK R \in IF script.name = "select" THEN Overlay!CapQueries(script.rows) ELSE {script.rows} :
        script' = [script EXCEPT !.rows = R, !.open = TRUE]
  BY DEF Overlay!OpenOutput, Overlay!Running
<1>4. script' = [name |-> script.name, salt |-> script.salt, left |-> {}, rows |-> R,
                 todo |-> script.todo, open |-> TRUE]
  <2>1. script = [name |-> script.name, salt |-> script.salt, left |-> script.left, rows |-> script.rows,
                  todo |-> script.todo, open |-> script.open]
    BY <1>1 DEF OverlayScript, Shape
  <2>2. script' = [name |-> script.name, salt |-> script.salt, left |-> script.left, rows |-> R,
                   todo |-> script.todo, open |-> TRUE]
    <3> DEFINE b == TRUE
    <3>1. script' = [script EXCEPT !.rows = R, !.open = b]
      BY <1>3
    <3> HIDE DEF b
    <3>2. script' = [name |-> script.name, salt |-> script.salt, left |-> script.left, rows |-> R,
                     todo |-> script.todo, open |-> b]
      BY <2>1, <3>1, ScriptOpens
    <3> QED BY <3>2 DEF b
  <2> QED BY <1>2, <2>2
<1>5. /\ DOMAIN outputs = {"metrics", "summary", "queries"} /\ DOMAIN outputs' = DOMAIN outputs
      /\ \A p \in DOMAIN outputs : outputs'[p] = IF p = o THEN [state |-> "torn"] ELSE outputs[p]
  BY <1>1, <1>2 DEF OverlayFiles, OutputSound
<1> HIDE DEF o
<1>6. OverlayFiles(study, masks, outputs', drawn, checkpoint)
  BY <1>1, <1>5 DEF OverlayFiles, OutputSound, Is
<1>7. script.name \in {"evaluate", "select"}
  BY <1>1, <1>2 DEF OverlayScript, Shape, GenerateSound, CalibrateSound
<1>8. CASE script.name = "evaluate"
  <2>1. /\ next = "evaluate" /\ MetricRows(study, drawn, script.rows) /\ R = script.rows
        /\ \/ script.todo = <<"metrics", "summary">>
           \/ script.todo = <<"summary">> /\ Is(outputs["metrics"]) /\ outputs["metrics"].content = script.rows
    BY <1>1, <1>2, <1>3, <1>8 DEF OverlayScript, Shape, EvaluateSound
  <2>2. script.todo = <<"summary">> => outputs'["metrics"] = outputs["metrics"]
    BY <1>5 DEF o
  <2>3. OverlayScript(study, next, script', masks, outputs', drawn, checkpoint)
    BY <1>4, <1>8, <2>1, <2>2
       DEF OverlayScript, Shape, GenerateSound, EvaluateSound, SelectSound, CalibrateSound, ListedSound
  <2>4. losses = 0 => Unlost(study, next, script', masks, outputs')
    BY <1>1, <1>2, <1>4, <1>8, <2>1 DEF Unlost
  <2> QED BY <1>1, <1>2, <1>6, <2>3, <2>4, OverlayPartsNext
<1>9. CASE script.name = "select"
  <2>1. /\ next = "select" /\ QueryRows(study, drawn, script.rows)
        /\ AllBucketed(study, drawn, script.rows) /\ script.todo = <<"queries">>
    BY <1>1, <1>9 DEF OverlayScript, Shape, SelectSound
  <2>2. R \subseteq script.rows /\ (study.max_queries <= 0 => R = script.rows)
    BY <1>3, <1>9 DEF Overlay!CapQueries, Overlay!kSubset
  <2>3. QueryRows(study, drawn, R)
    BY <2>1, <2>2 DEF QueryRows
  <2>4. AllBucketed(study, drawn, R)
    <3>1. CASE Everything(study)
      <4>1. R = script.rows
        BY <2>2, <3>1 DEF Everything
      <4> QED BY <2>1, <4>1
    <3>2. CASE ~ Everything(study)
      BY <3>2 DEF AllBucketed
    <3> QED BY <3>1, <3>2
  <2>5. OverlayScript(study, next, script', masks, outputs', drawn, checkpoint)
    BY <1>4, <1>9, <2>1, <2>3, <2>4
       DEF OverlayScript, Shape, GenerateSound, EvaluateSound, SelectSound, CalibrateSound, ListedSound
  <2>6. outputs'["metrics"] = outputs["metrics"]
    BY <1>5, <2>1 DEF o
  <2>7. ASSUME losses = 0 PROVE Unlost(study, next, script', masks, outputs')
    <3>1. Unlost(study, next, script, masks, outputs)
      BY <1>1, <2>7
    <3> QED BY <1>2, <1>4, <1>9, <2>1, <2>2, <2>6, <3>1 DEF Unlost
  <2> QED BY <1>1, <1>2, <1>6, <2>5, <2>7, OverlayPartsNext
<1> QED BY <1>7, <1>8, <1>9

LEMMA OutputsClose ==
  ASSUME OverlayInv, Overlay!CloseOutput
  PROVE  OverlayInv'
<1> DEFINE o == Head(script.todo)
<1>1. /\ study \in Studies /\ losses \in Nat
      /\ OverlayFiles(study, masks, outputs, drawn, checkpoint)
      /\ OverlayScript(study, next, script, masks, outputs, drawn, checkpoint)
      /\ losses = 0 => Unlost(study, next, script, masks, outputs)
  BY OverlayParts
<1>2. /\ script.todo # <<>> /\ script.open
      /\ outputs' = [outputs EXCEPT ![o] = [state |-> "whole", content |-> script.rows]]
      /\ UNCHANGED <<study, masks, checkpoint, drawn, losses>>
  BY DEF Overlay!CloseOutput, Overlay!Whole
<1>3. IF Len(script.todo) > 1
      THEN /\ script' = [script EXCEPT !.todo = Tail(@), !.open = FALSE]
           /\ next' = next
      ELSE /\ next' = IF script.name = "evaluate" THEN "select" ELSE "calibrate"
           /\ script' = Overlay!Idle
  BY DEF Overlay!CloseOutput, Overlay!Finish, Overlay!Running
<1>4. /\ DOMAIN outputs = {"metrics", "summary", "queries"} /\ DOMAIN outputs' = DOMAIN outputs
      /\ \A p \in DOMAIN outputs :
           outputs'[p] = IF p = o THEN [state |-> "whole", content |-> script.rows] ELSE outputs[p]
  BY <1>1, <1>2 DEF OverlayFiles, OutputSound
<1>5. script.name \in {"evaluate", "select"}
  BY <1>1, <1>2 DEF OverlayScript, Shape, GenerateSound, CalibrateSound
<1>6. CASE script.name = "evaluate"
  <2>1. /\ next = "evaluate" /\ MetricRows(study, drawn, script.rows) /\ script.left = {}
        /\ \/ script.todo = <<"metrics", "summary">>
           \/ script.todo = <<"summary">> /\ Is(outputs["metrics"]) /\ outputs["metrics"].content = script.rows
    BY <1>1, <1>2, <1>6 DEF OverlayScript, Shape, EvaluateSound
  <2>2. Is(outputs'["metrics"]) /\ outputs'["metrics"].content = script.rows
        /\ outputs'["queries"] = outputs["queries"]
    <3>1. CASE script.todo = <<"metrics", "summary">>
      BY <1>4, <3>1 DEF Is
    <3>2. CASE /\ script.todo = <<"summary">> /\ Is(outputs["metrics"])
               /\ outputs["metrics"].content = script.rows
      BY <1>4, <3>2 DEF Is
    <3> QED BY <2>1, <3>1, <3>2
  <2>3. OverlayFiles(study, masks, outputs', drawn, checkpoint)
    BY <1>1, <1>4, <2>1, <2>2 DEF OverlayFiles, OutputSound
  <2>4. losses = 0 => /\ Pairs(script.rows) = study.sels \X study.ks
                      /\ \A sel \in study.sels : Is(masks[sel])
    BY <1>1, <1>6, <2>1 DEF Unlost
  <2>5. CASE script.todo = <<"metrics", "summary">>
    <3>0. script' = [script EXCEPT !.todo = <<"summary">>, !.open = FALSE]
      BY <1>3, <2>5
    <3>1. next' = "evaluate"
      BY <1>3, <2>1, <2>5
    <3>2. script' = [name |-> "evaluate", salt |-> script.salt, left |-> {}, rows |-> script.rows,
                     todo |-> <<"summary">>, open |-> FALSE]
      <4>1. script = [name |-> script.name, salt |-> script.salt, left |-> script.left,
                      rows |-> script.rows, todo |-> script.todo, open |-> script.open]
        BY <1>1 DEF OverlayScript, Shape
      <4> DEFINE T == <<"summary">>
                 b == FALSE
      <4>2. script' = [script EXCEPT !.todo = T, !.open = b]
        BY <3>0
      <4> HIDE DEF T, b
      <4>3. script' = [name |-> script.name, salt |-> script.salt, left |-> script.left,
                       rows |-> script.rows, todo |-> T, open |-> b]
        BY <4>1, <4>2, ScriptCloses
      <4> QED BY <1>6, <2>1, <4>3 DEF T, b
    <3>3. OverlayScript(study, next', script', masks, outputs', drawn, checkpoint)
      <4>1. Shape(next', script')
        BY <3>1, <3>2 DEF Shape
      <4>2. EvaluateSound(study, script', outputs', drawn)
        BY <2>1, <2>2, <3>2 DEF EvaluateSound
      <4>3. /\ GenerateSound(study, script') /\ SelectSound(study, script', drawn)
            /\ ListedSound(script', masks)
        BY <3>2 DEF GenerateSound, SelectSound, ListedSound
      <4>4. CalibrateSound(study, next', script', outputs', checkpoint)
        BY <3>1, <3>2 DEF CalibrateSound
      <4> QED BY <4>1, <4>2, <4>3, <4>4 DEF OverlayScript
    <3>4. losses = 0 => Unlost(study, next', script', masks, outputs')
      <4>1. study.sels \ {} = study.sels
        OBVIOUS
      <4>2. /\ script'.name = "evaluate" /\ script'.left = {} /\ script'.rows = script.rows
            /\ next' = "evaluate"
        BY <3>1, <3>2
      <4>3. losses = 0 => Pairs(script'.rows) = (study.sels \ script'.left) \X study.ks
        BY <2>4, <4>1, <4>2
      <4> QED BY <2>4, <4>2, <4>3 DEF Unlost
    <3> QED BY <1>1, <1>2, <2>3, <3>3, <3>4, OverlayPartsNext
  <2>6. CASE script.todo = <<"summary">>
    <3>1. next' = "select" /\ script' = Overlay!Idle
      BY <1>3, <1>6, <2>6
    <3>2. losses = 0 => Unlost(study, next', script', masks, outputs')
      BY <2>2, <2>4, <3>1 DEF Unlost, Overlay!Idle
    <3> QED BY <1>1, <1>2, <2>3, <3>1, <3>2, NobodyRuns, OverlayPartsNext
  <2> QED BY <2>1, <2>5, <2>6
<1>7. CASE script.name = "select"
  <2>1. /\ next = "select" /\ QueryRows(study, drawn, script.rows) /\ script.left = {}
        /\ AllBucketed(study, drawn, script.rows) /\ script.todo = <<"queries">>
    BY <1>1, <1>2, <1>7 DEF OverlayScript, Shape, SelectSound
  <2>2. /\ Is(outputs'["queries"]) /\ outputs'["queries"].content = script.rows
        /\ outputs'["metrics"] = outputs["metrics"]
    BY <1>4, <2>1 DEF Is
  <2>3. OverlayFiles(study, masks, outputs', drawn, checkpoint)
    BY <1>1, <1>4, <2>1, <2>2 DEF OverlayFiles, OutputSound
  <2>4. next' = "calibrate" /\ script' = Overlay!Idle
    BY <1>3, <1>7, <2>1
  <2>5. ASSUME losses = 0 PROVE Unlost(study, next', script', masks, outputs')
    <3>1. Unlost(study, next, script, masks, outputs)
      BY <1>1, <2>5
    <3> QED BY <1>7, <2>1, <2>2, <2>4, <3>1 DEF Unlost, Overlay!Idle
  <2> QED BY <1>1, <1>2, <2>3, <2>4, <2>5, NobodyRuns, OverlayPartsNext
<1> QED BY <1>5, <1>6, <1>7
(* A row of the calibration is made behind the mask it is given.           *)
LEMMA CheckRow ==
  ASSUME NEW sel, NEW q, NEW mask, NEW ks, NEW full
  PROVE  LET D == Overlay!EvaluateCalibrationQuery(sel, q, mask, ks, full)
         IN /\ \A c \in D : c.sel = sel /\ c.q = q /\ Compared(study, mask, c)
            /\ \A k \in ks : \E c \in D : <<c.sel, c.q, c.k>> = <<sel, q, k>>
<1> DEFINE row(k) ==
      LET post == Overlay!PostFilterResults(q, mask, k)
          candidate == Overlay!CandidateResults(q, mask, k)
      IN [sel |-> sel, q |-> q, k |-> k,
          post_filter |-> Overlay!Hit(q, post), candidate |-> Overlay!Hit(q, candidate),
          full |-> Overlay!Hit(q, Overlay!Prefix(full, k)), underfill |-> Len(post) < k,
          candidate_overlap |-> Overlay!OverlapAtK(candidate, full, k),
          post_overlap |-> Overlay!OverlapAtK(post, full, k)]
<1>1. Overlay!EvaluateCalibrationQuery(sel, q, mask, ks, full) = {row(k) : k \in ks}
  BY DEF Overlay!EvaluateCalibrationQuery
<1>2. \A k : /\ row(k).sel = sel /\ row(k).q = q /\ row(k).k = k
             /\ row(k).post_filter = Overlay!Hit(q, Overlay!PostFilterResults(q, mask, k))
             /\ row(k).candidate = Overlay!Hit(q, Overlay!CandidateResults(q, mask, k))
             /\ row(k).underfill = (Len(Overlay!PostFilterResults(q, mask, k)) < k)
  OBVIOUS
<1> HIDE DEF row
<1>3. \A k : /\ Overlay!PostFilterResults(q, mask, k) = PostOf(study, q, mask, k)
             /\ Overlay!CandidateResults(q, mask, k) = CandOf(study, q, mask, k)
  BY DEF Overlay!PostFilterResults, Overlay!CandidateResults, PostOf, CandOf
<1>4. \A result : Overlay!Hit(q, result) = Finds(study, q, result)
  BY DEF Overlay!Hit, Finds
<1>5. \A k : Compared(study, mask, row(k))
  BY <1>2, <1>3, <1>4 DEF Compared
<1> QED BY <1>1, <1>2, <1>5

(* A query is done with: its rows are there, or were added.                *)
LEMMA CalibrationGoesOn ==
  ASSUME OverlayInv, script.name = "calibrate", NEW r \in script.left, NEW D,
         checkpoint' = checkpoint \cup D, CheckRows(study, drawn, D),
         Calibrated(study, checkpoint', r),
         script' = [script EXCEPT !.left = script.left \ {r}, !.rows = {}],
         UNCHANGED <<study, masks, outputs, drawn, next, losses>>
  PROVE  OverlayInv'
<1>1. /\ study \in Studies /\ losses \in Nat
      /\ OverlayFiles(study, masks, outputs, drawn, checkpoint)
      /\ OverlayScript(study, next, script, masks, outputs, drawn, checkpoint)
      /\ losses = 0 => Unlost(study, next, script, masks, outputs)
  BY OverlayParts
<1>2. /\ next = "calibrate" /\ script.todo = <<>> /\ ~ script.open /\ Is(outputs["queries"])
      /\ script.left \subseteq outputs["queries"].content
      /\ \A x \in outputs["queries"].content \ script.left : Calibrated(study, checkpoint, x)
      /\ script = [name |-> script.name, salt |-> script.salt, left |-> script.left,
                   rows |-> script.rows, todo |-> script.todo, open |-> script.open]
      /\ script.open = FALSE
  BY <1>1 DEF OverlayScript, Shape, CalibrateSound
<1>3. script' = [name |-> "calibrate", salt |-> script.salt, left |-> script.left \ {r},
                 rows |-> {}, todo |-> <<>>, open |-> FALSE]
  <2> DEFINE left == script.left \ {r}
             none == {}
  <2>1. script' = [script EXCEPT !.left = left, !.rows = none]
    OBVIOUS
  <2> HIDE DEF left, none
  <2>2. script' = [name |-> script.name, salt |-> script.salt, left |-> left, rows |-> none,
                   todo |-> script.todo, open |-> script.open]
    BY <1>2, <2>1, ScriptContinues
  <2> QED BY <1>2, <2>2 DEF left, none
<1>4. CheckRows(study, drawn, checkpoint')
  BY <1>1 DEF OverlayFiles, CheckRows
<1>5. OverlayFiles(study, masks, outputs, drawn, checkpoint')
  BY <1>1, <1>4 DEF OverlayFiles
<1>6. \A x : Calibrated(study, checkpoint, x) => Calibrated(study, checkpoint', x)
  BY DEF Calibrated
<1>7. \A x \in outputs["queries"].content \ (script.left \ {r}) : Calibrated(study, checkpoint', x)
  BY <1>2, <1>6
<1>8. OverlayScript(study, next, script', masks, outputs, drawn, checkpoint')
  <2>1. Shape(next, script')
    BY <1>2, <1>3 DEF Shape
  <2>2. CalibrateSound(study, next, script', outputs, checkpoint')
    BY <1>2, <1>3, <1>7 DEF CalibrateSound
  <2>3. /\ GenerateSound(study, script') /\ EvaluateSound(study, script', outputs, drawn)
        /\ SelectSound(study, script', drawn) /\ ListedSound(script', masks)
    BY <1>3 DEF GenerateSound, EvaluateSound, SelectSound, ListedSound
  <2> QED BY <2>1, <2>2, <2>3 DEF OverlayScript
<1>9. losses = 0 => Unlost(study, next, script', masks, outputs)
  BY <1>1, <1>2, <1>3 DEF Unlost
<1> QED BY <1>1, <1>5, <1>8, <1>9, OverlayPartsNext

LEMMA CalibrationFollows ==
  ASSUME OverlayInv, Overlay!Calibrate
  PROVE  OverlayInv'
<1> DEFINE r == CHOOSE x \in script.left : TRUE
           ks == Overlay!PendingKs(r.sel, r.q)
           mask == masks[r.sel]
<1>1. /\ OverlayFiles(study, masks, outputs, drawn, checkpoint)
      /\ OverlayScript(study, next, script, masks, outputs, drawn, checkpoint)
  BY OverlayParts
<1>2. /\ script.name = "calibrate" /\ script.left # {}
      /\ UNCHANGED <<study, masks, outputs, drawn, losses>>
  BY DEF Overlay!Calibrate, Overlay!Running
<1>3. r \in script.left
  BY <1>2
<1>4. \/ /\ ks = {} /\ UNCHANGED <<checkpoint, next>>
         /\ script' = [script EXCEPT !.left = script.left \ {r}, !.rows = {}]
      \/ next' = "generate" /\ script' = Overlay!Idle /\ UNCHANGED checkpoint
      \/ /\ mask.state = "whole" /\ UNCHANGED next
         /\ script' = [script EXCEPT !.left = script.left \ {r}, !.rows = {}]
         /\ \E full : checkpoint' = checkpoint
                  \cup Overlay!EvaluateCalibrationQuery(r.sel, r.q, mask.content, ks, full)
  BY DEF Overlay!Calibrate, Overlay!Continue, Overlay!Fail, Overlay!Finish
<1> HIDE DEF r
<1>5. \A k \in study.ks : k \notin ks => \E c \in checkpoint : <<c.sel, c.q, c.k>> = <<r.sel, r.q, k>>
  BY DEF Overlay!PendingKs
<1> HIDE DEF ks
<1>6. CASE /\ ks = {} /\ UNCHANGED <<checkpoint, next>>
           /\ script' = [script EXCEPT !.left = script.left \ {r}, !.rows = {}]
  <2>1. checkpoint' = checkpoint \cup {} /\ CheckRows(study, drawn, {})
    BY <1>6 DEF CheckRows
  <2>2. Calibrated(study, checkpoint', r)
    BY <1>5, <1>6 DEF Calibrated
  <2> QED BY <1>2, <1>3, <1>6, <2>1, <2>2, CalibrationGoesOn
<1>7. CASE next' = "generate" /\ script' = Overlay!Idle /\ UNCHANGED checkpoint
  BY <1>2, <1>7, FailKeeps
<1>8. CASE /\ mask.state = "whole" /\ UNCHANGED next
           /\ script' = [script EXCEPT !.left = script.left \ {r}, !.rows = {}]
           /\ \E full : checkpoint' = checkpoint
                    \cup Overlay!EvaluateCalibrationQuery(r.sel, r.q, mask.content, ks, full)
  <2>1. PICK full : checkpoint' = checkpoint
                 \cup Overlay!EvaluateCalibrationQuery(r.sel, r.q, mask.content, ks, full)
    BY <1>8
  <2> DEFINE D == Overlay!EvaluateCalibrationQuery(r.sel, r.q, mask.content, ks, full)
  <2>2. /\ \A c \in D : c.sel = r.sel /\ Compared(study, mask.content, c)
        /\ \A k \in ks : \E c \in D : <<c.sel, c.q, c.k>> = <<r.sel, r.q, k>>
    BY CheckRow
  <2>3. checkpoint' = checkpoint \cup D
    BY <2>1
  <2> HIDE DEF D
  <2>4. r \in outputs["queries"].content /\ QueryRows(study, drawn, outputs["queries"].content)
    BY <1>1, <1>2, <1>3 DEF OverlayFiles, OutputSound, OverlayScript, CalibrateSound
  <2>5. r.sel \in study.sels
    <3>1. PICK m \in MasksOf(drawn, r.sel) : TRUE
      BY <2>4 DEF QueryRows
    <3>2. \E s \in DOMAIN drawn : s[1] = r.sel
      BY <3>1 DEF MasksOf
    <3> QED BY <1>1, <3>2 DEF OverlayFiles, DrawSound
  <2>6. mask.content \in MasksOf(drawn, r.sel)
    BY <1>1, <1>8, <2>5 DEF OverlayFiles, MaskSound, Is
  <2> HIDE DEF mask
  <2>7. CheckRows(study, drawn, D)
    BY <2>2, <2>6 DEF CheckRows
  <2>8. Calibrated(study, checkpoint', r)
    BY <1>5, <2>2, <2>3 DEF Calibrated
  <2> QED BY <1>2, <1>3, <1>8, <2>3, <2>7, <2>8, CalibrationGoesOn
<1> QED BY <1>4, <1>6, <1>7, <1>8

LEMMA OverlayFollows ==
  ASSUME OverlayInv, Overlay!Next
  PROVE  OverlayInv'
<1>1. CASE Overlay!Start
  BY <1>1, OverlayStarting
<1>2. CASE Overlay!OpenMask \/ Overlay!SaveMask
  BY <1>2, MasksFollow, DrawsFollow
<1>3. CASE Overlay!LoadMask
  <2>1. script.name \in {"evaluate", "select"}
    BY <1>3 DEF Overlay!LoadMask
  <2> QED BY <1>3, <2>1, MetricsFollow, SelectionFollows
<1>4. CASE Overlay!OpenOutput \/ Overlay!CloseOutput
  BY <1>4, OutputsOpen, OutputsClose
<1>5. CASE Overlay!Calibrate
  BY <1>5, CalibrationFollows
<1>6. CASE Overlay!Generated \/ Overlay!Calibrated \/ Overlay!Kill \/ Overlay!Renew
  BY <1>6, OverlayMovesOn
<1> QED BY <1>1, <1>2, <1>3, <1>4, <1>5, <1>6 DEF Overlay!Next, Overlay!Step

(* As long as no mask of a selectivity was made again as another one, the  *)
(* four scripts of the overlay see the same view of it: the buckets of the *)
(* selected queries explain the gaps of the metrics, and what was selected *)
(* is calibrated behind the mask that selected it.  With a fixed hash seed,*)
(* or clustered masks, no mask ever is; Python's default seeds draw another*)
(* with every process, and then nothing is said of that selectivity.  Every*)
(* selected query is calibrated for every k, and without a kill nothing is *)
(* left out, whatever the seeds.                                           *)
THEOREM ScriptsShareTheView == Spec => [](program = "overlay" => Overlay!EvaluatesWhatIsThere)
<1> DEFINE Inv == program = "overlay" => OverlayInv
           Good == program = "overlay" => Overlay!EvaluatesWhatIsThere
<1>1. Init => Inv
  BY OverlayStarts, MeasuringAssumption DEF Init
<1>2. Inv => Good
  BY OverlaySuffices, MeasuringAssumption
<1>3. Inv /\ [Next]_vars => Inv'
  <2> SUFFICES ASSUME Inv, [Next]_vars, program' = "overlay" PROVE OverlayInv'
    OBVIOUS
  <2>1. program = "overlay" /\ OverlayInv /\ (Overlay!Next \/ UNCHANGED overlay)
    BY DEF Next, vars
  <2>2. ASSUME UNCHANGED overlay PROVE OverlayInv'
    BY <2>1, <2>2 DEF overlay, OverlayInv
  <2> QED BY <2>1, <2>2, OverlayFollows
<1> QED BY <1>1, <1>2, <1>3, PTL DEF Spec

(* Both evaluations at once.  Two exceptions are part of what is proved: a *)
(* scaled copy over which a forced run was killed may be searched in place *)
(* of the base, and scripts may disagree about a selectivity whose mask was*)
(* made again as another one.                                              *)
THEOREM EvaluationsHold == Spec => []EvaluatesWhatIsThere
<1>1. (program = "marco" => Marco!EvaluatesWhatIsThere)
      /\ (program = "overlay" => Overlay!EvaluatesWhatIsThere) => EvaluatesWhatIsThere
  BY DEF EvaluatesWhatIsThere
<1> QED BY <1>1, ReportsAreOfTheTables, ScriptsShareTheView, PTL

-----------------------------------------------------------------------------
(***************************************************************************)
(* The measures.  A sample of faces has as many right answers as it was    *)
(* asked for, each at one position of the database, and an answer lists    *)
(* positions once, so counting along it counts members: what the curves of *)
(* one benchmark say at k another says of sets, and a third of ranks.      *)
(***************************************************************************)
LEMMA FaceCounts ==
  /\ \A S : Faces!Cardinality(S) = Cardinality(S)
  /\ \A S : Faces!Count(S) = Cardinality(S)
  /\ Faces!EligiblePersons =
       {p \in {faces[r] : r \in 1 .. Len(faces)} : Cardinality(Faces!RowsOf(p)) >= sample.gt_k + 1}
  /\ \A S : Faces!Orders(S) =
       {o \in [1 .. Cardinality(S) -> S] : \A x \in S : \E i \in DOMAIN o : o[i] = x}
  /\ \A q : Faces!Counted(q) = Cardinality({i \in Faces!Relevant : db_q_idx[i] = q})
BY DEF Faces!Count, Faces!EligiblePersons, Faces!Orders, Faces!Counted, Cardinality, IsFiniteSet,
       Faces!Cardinality, Faces!IsFiniteSet

(* Counting along a list without repetitions counts members.               *)
LEMMA SameNumber ==
  ASSUME NEW S, IsFiniteSet(S), NEW T, NEW g,
         \A x \in S : g[x] \in T,
         \A x, y \in S : g[x] = g[y] => x = y,
         \A y \in T : \E x \in S : g[x] = y
  PROVE  IsFiniteSet(T) /\ Cardinality(T) = Cardinality(S)
<1> DEFINE h == [x \in S |-> g[x]]
<1>1. h \in [S -> T] /\ \A x \in S : h[x] = g[x]
  OBVIOUS
<1> HIDE DEF h
<1>2. h \in Bijection(S, T)
  BY <1>1 DEF Bijection, Injection, Surjection, IsInjective
<1> QED BY <1>2, FS_Bijection, Fun_ExistsBij

LEMMA CountUpTo ==
  ASSUME NEW n \in Nat
  PROVE  IsFiniteSet(1 .. n) /\ Cardinality(1 .. n) = n
<1>1. IsFiniteSet(1 .. n) /\ Cardinality(1 .. n) = IF 1 > n THEN 0 ELSE n - 1 + 1
  BY FS_Interval
<1> QED BY <1>1

(* All members of a set in some order are each there once.                 *)
LEMMA OrdersAre ==
  ASSUME NEW S, IsFiniteSet(S), NEW o \in Faces!Orders(S)
  PROVE  /\ o \in [1 .. Cardinality(S) -> S] /\ Cardinality(S) \in Nat
         /\ \A x \in S : \E i \in 1 .. Cardinality(S) : o[i] = x
         /\ \A i, j \in 1 .. Cardinality(S) : o[i] = o[j] => i = j
<1> DEFINE D == 1 .. Cardinality(S)
<1>1. o \in [D -> S] /\ \A x \in S : \E i \in D : o[i] = x
  BY FaceCounts
<1>2. Cardinality(S) \in Nat /\ IsFiniteSet(D) /\ Cardinality(D) = Cardinality(S)
  BY FS_Interval, FS_CardinalityType
<1> HIDE DEF D
<1>3. o \in Injection(D, S)
  <2>1. o \in Surjection(D, S)
    BY <1>1 DEF Surjection
  <2> QED BY <1>2, <2>1, FS_SurjSameCardinalityImpliesInj
<1>4. \A i, j \in D : o[i] = o[j] => i = j
  BY <1>1, <1>3 DEF Injection, IsInjective
<1> QED BY <1>1, <1>2, <1>4 DEF D

(* Numbers without a gap between them are all there behind the first.      *)
LEMMA NoGap ==
  ASSUME NEW N \in Nat, NEW D, D \subseteq 1 .. N, NEW f \in D,
         \A d \in D : f <= d, \A d \in D : \A e \in f .. d : e \in D,
         NEW i \in 1 .. Cardinality(D)
  PROVE  f + i - 1 \in D
<1> DEFINE e == f + i - 1
           E == f .. e - 1
<1>1. IsFiniteSet(D) /\ Cardinality(D) \in Nat /\ f \in Nat
  <2>1. IsFiniteSet(1 .. N)
    BY FS_Interval
  <2>2. D \in SUBSET (1 .. N)
    OBVIOUS
  <2>3. IsFiniteSet(D)
    BY <2>1, <2>2, FS_Subset
  <2>4. Cardinality(D) \in Nat
    BY <2>3, FS_CardinalityType
  <2> QED BY <2>3, <2>4
<1>2. i \in Nat \ {0} /\ i <= Cardinality(D)
  BY <1>1
<1> SUFFICES ASSUME e \notin D PROVE FALSE
  OBVIOUS
<1>3. e \in Nat /\ e - 1 \in Int /\ e - 1 - f + 1 = i - 1 /\ ~ (f > e)
  BY <1>1, <1>2
<1>4. D \subseteq E
  <2> SUFFICES ASSUME NEW d \in D, d \notin E PROVE FALSE
    OBVIOUS
  <2>1. d \in Nat /\ f <= d
    OBVIOUS
  <2>2. e \in f .. d
    BY <1>1, <1>2, <1>3, <2>1
  <2> QED BY <2>2
<1>5. IsFiniteSet(E) /\ Cardinality(E) = i - 1
  <2>1. IsFiniteSet(E) /\ Cardinality(E) = IF f > e - 1 THEN 0 ELSE e - 1 - f + 1
    BY <1>1, <1>3, FS_Interval
  <2>2. f > e - 1 => i - 1 = 0
    BY <1>1, <1>2
  <2> HIDE DEF E, e
  <2> QED BY <1>3, <2>1, <2>2
<1>6. Cardinality(D) <= Cardinality(E)
  BY <1>4, <1>5, FS_Subset
<1> HIDE DEF E, e
<1> QED BY <1>1, <1>2, <1>5, <1>6

(* Who is asked for, with which rows.                                      *)
Rows  == 1 .. Len(faces)
Rest  == Rows \ {asked[q] : q \in 1 .. sample.queries}
GtK   == sample.gt_k

Drawn ==
  /\ asked \in [1 .. sample.queries -> Rows]
  /\ \A q \in 1 .. sample.queries :
       /\ faces[asked[q]] \in Faces!EligiblePersons
       /\ \A o \in 1 .. q - 1 : faces[asked[o]] # faces[asked[q]]

(* While batches come: those behind the writing position are where the     *)
(* permutation puts them, each with the query it belongs to.               *)
Scattering ==
  /\ Drawn
  /\ reader \in Faces!Orders(Rest) /\ perm \in Faces!Orders(1 .. Faces!n_db)
  /\ fetched = write_pos /\ write_pos \in 0 .. Faces!n_db
  /\ db = [i \in 1 .. Faces!n_db |-> db[i]] /\ db_q_idx = [i \in 1 .. Faces!n_db |-> db_q_idx[i]]
  /\ \A j \in 1 .. write_pos :
       db[perm[j]] = reader[j] /\ db_q_idx[perm[j]] = Faces!QIdx(reader[j])

(* What the sample and the search have left.                               *)
Matching(q) == {i \in DOMAIN db : faces[db[i]] = faces[asked[q]]}

Truthful(q) ==
  /\ gt[q] \in [1 .. GtK -> Matching(q)]
  /\ \A i, j \in 1 .. GtK : gt[q][i] = gt[q][j] => i = j

Stocked ==
  db \in [1 .. Cardinality(Rest) -> Rest] /\ \A r \in Rest : \E i \in DOMAIN db : db[i] = r

Sampled == Drawn /\ Stocked /\ \A q \in 1 .. sample.queries : Truthful(q)

Searched == top_k \in TopKs /\ ~ (top_k > Len(db)) /\ answers \in [DOMAIN asked -> Faces!Answers(top_k)]

FacesInv ==
  /\ faces \in FaceTables /\ sample \in Samples
  /\ stage # "internal_error"
  /\ stage = "scatter" => Scattering
  /\ stage \in {"sampled", "searched"} => Sampled
  /\ stage = "searched" => Searched

LEMMA DrawnStays == Drawn /\ UNCHANGED <<faces, sample, asked>> => Drawn'
<1> SUFFICES ASSUME Drawn, UNCHANGED <<faces, sample, asked>> PROVE Drawn'
  OBVIOUS
<1>1. Faces!EligiblePersons' = Faces!EligiblePersons
  BY DEF Faces!EligiblePersons, Faces!RowsOf
<1> QED BY <1>1 DEF Drawn, Rows

LEMMA SampledStays == Sampled /\ UNCHANGED <<faces, sample, asked, db, gt>> => Sampled'
BY DrawnStays DEF Sampled, Stocked, Truthful, Matching, Rest, Rows, GtK

LEMMA ScatteringStays ==
  Scattering /\ UNCHANGED <<faces, sample, asked, reader, fetched, perm, write_pos, db, db_q_idx>>
    => Scattering'
<1> SUFFICES ASSUME Scattering, UNCHANGED <<faces, sample, asked, reader, fetched, perm,
                                            write_pos, db, db_q_idx>>
             PROVE  Scattering'
  OBVIOUS
<1>1. (\A S : Faces!Orders(S)' = Faces!Orders(S)) /\ \A r : Faces!QIdx(r)' = Faces!QIdx(r)
  BY DEF Faces!Orders, Faces!QIdx
<1>2. Rest' = Rest /\ Faces!n_db' = Faces!n_db
  BY DEF Rest, Rows, Faces!n_db
<1> QED BY <1>1, <1>2, DrawnStays DEF Scattering

(* Persons asked for are different, so as many rows are left as are to be  *)
(* written, and a row belongs to one query at most.                        *)
LEMMA DrawnAre ==
  ASSUME Faces!FacesAssumption, faces \in FaceTables, sample \in Samples, Drawn
  PROVE  /\ Len(faces) \in Nat /\ GtK \in Nat \ {0} /\ sample.queries \in Nat
         /\ asked \in [1 .. sample.queries -> Rows]
         /\ \A p, q \in 1 .. sample.queries : faces[asked[p]] = faces[asked[q]] => p = q
         /\ \A p, q \in 1 .. sample.queries : asked[p] = asked[q] => p = q
         /\ \A q \in 1 .. sample.queries : faces[asked[q]] \in Faces!EligiblePersons
         /\ IsFiniteSet(Rest) /\ Cardinality(Rest) \in Nat /\ Cardinality(Rest) = Faces!n_db
         /\ \A r \in Rest : \A q \in 1 .. sample.queries :
              Faces!QIdx(r) = q <=> faces[r] = faces[asked[q]]
         /\ \A r \in Rest : Faces!QIdx(r) \in 0 .. sample.queries
<1>1. Len(faces) \in Nat /\ GtK \in Nat \ {0} /\ sample.queries \in Nat
  BY DEF Faces!FacesAssumption, GtK
<1>2. /\ asked \in [1 .. sample.queries -> Rows]
      /\ \A q \in 1 .. sample.queries : faces[asked[q]] \in Faces!EligiblePersons
      /\ \A q \in 1 .. sample.queries : \A o \in 1 .. q - 1 : faces[asked[o]] # faces[asked[q]]
  BY DEF Drawn
<1>3. \A p, q \in 1 .. sample.queries : faces[asked[p]] = faces[asked[q]] => p = q
  <2> SUFFICES ASSUME NEW p \in 1 .. sample.queries, NEW q \in 1 .. sample.queries,
                      faces[asked[p]] = faces[asked[q]], p # q
               PROVE  FALSE
    OBVIOUS
  <2>1. p \in 1 .. q - 1 \/ q \in 1 .. p - 1
    BY <1>1
  <2> QED BY <1>2, <2>1
<1>4. \A p, q \in 1 .. sample.queries : asked[p] = asked[q] => p = q
  BY <1>3
<1>5. IsFiniteSet(Rest) /\ Cardinality(Rest) \in Nat /\ Cardinality(Rest) = Faces!n_db
  <2> DEFINE Q == 1 .. sample.queries
             Image == {asked[q] : q \in Q}
  <2>1. IsFiniteSet(Rows) /\ Cardinality(Rows) = Len(faces)
    <3> DEFINE n == Len(faces)
    <3>1. n \in Nat
      BY <1>1
    <3> HIDE DEF n
    <3>2. IsFiniteSet(1 .. n) /\ Cardinality(1 .. n) = n
      BY <3>1, CountUpTo
    <3> QED BY <3>2 DEF n, Rows
  <2>2. IsFiniteSet(Q) /\ Cardinality(Q) = sample.queries
    <3> DEFINE n == sample.queries
    <3>1. n \in Nat
      BY <1>1
    <3> HIDE DEF n
    <3>2. IsFiniteSet(1 .. n) /\ Cardinality(1 .. n) = n
      BY <3>1, CountUpTo
    <3> QED BY <3>2 DEF n
  <2>3. (\A q \in Q : asked[q] \in Image) /\ \A r \in Image : \E q \in Q : asked[q] = r
    OBVIOUS
  <2>4. Image \subseteq Rows /\ Rest = Rows \ Image
    BY <1>2 DEF Rest
  <2>5. \A p, q \in Q : asked[p] = asked[q] => p = q
    BY <1>4
  <2> HIDE DEF Q, Image
  <2>6. IsFiniteSet(Image) /\ Cardinality(Image) = sample.queries
    BY <2>2, <2>3, <2>5, SameNumber
  <2>7. Rows \cap Image = Image
    BY <2>4
  <2>8. IsFiniteSet(Rest) /\ Cardinality(Rest) = Len(faces) - sample.queries
    <3>1. IsFiniteSet(Rows \ Image) /\ Cardinality(Rows \ Image) = Cardinality(Rows) - Cardinality(Rows \cap Image)
      BY <2>1, FS_Difference
    <3> QED BY <2>1, <2>4, <2>6, <2>7, <3>1
  <2> QED BY <2>8, FS_CardinalityType DEF Faces!n_db
<1>6. ASSUME NEW r \in Rest
      PROVE  /\ Faces!QIdx(r) \in 0 .. sample.queries
             /\ \A q \in 1 .. sample.queries : Faces!QIdx(r) = q <=> faces[r] = faces[asked[q]]
  <2>1. DOMAIN asked = 1 .. sample.queries
    BY <1>2
  <2>2. CASE \E q \in 1 .. sample.queries : faces[asked[q]] = faces[r]
    <3>1. Faces!QIdx(r) = CHOOSE q \in 1 .. sample.queries : faces[asked[q]] = faces[r]
      BY <2>1, <2>2 DEF Faces!QIdx
    <3>2. Faces!QIdx(r) \in 1 .. sample.queries /\ faces[asked[Faces!QIdx(r)]] = faces[r]
      BY <2>2, <3>1, Zenon
    <3> QED BY <1>1, <1>3, <3>2
  <2>3. CASE ~ \E q \in 1 .. sample.queries : faces[asked[q]] = faces[r]
    <3>1. Faces!QIdx(r) = 0
      BY <2>1, <2>3 DEF Faces!QIdx, Faces!Nobody
    <3> QED BY <1>1, <2>3, <3>1
  <2> QED BY <2>2, <2>3
<1> QED BY <1>1, <1>2, <1>3, <1>4, <1>5, <1>6

(* Every row is asked with or in the database, once.                       *)
LEMMA SampleIs ==
  ASSUME Faces!FacesAssumption, FacesInv, Drawn, Stocked
  PROVE  /\ Len(faces) \in Nat /\ GtK \in Nat \ {0} /\ Faces!Queries = 1 .. sample.queries
         /\ asked \in [Faces!Queries -> Rows] /\ \A p, q \in Faces!Queries : asked[p] = asked[q] => p = q
         /\ \A p, q \in Faces!Queries : faces[asked[p]] = faces[asked[q]] => p = q
         /\ IsFiniteSet(Rest) /\ Cardinality(Rest) \in Nat /\ DOMAIN db = 1 .. Cardinality(Rest)
         /\ \A i \in DOMAIN db : db[i] \in Rest
         /\ \A i, j \in DOMAIN db : db[i] = db[j] => i = j
         /\ \A r \in Rest : \E i \in DOMAIN db : db[i] = r
         /\ \A q \in Faces!Queries : faces[asked[q]] \in Faces!EligiblePersons
         /\ Sampled => \A q \in Faces!Queries : Truthful(q)
<1>1. Faces!Queries = 1 .. sample.queries
  BY DEF Faces!Queries, Drawn
<1>2. IsFiniteSet(Rest) /\ Cardinality(Rest) \in Nat
  BY DrawnAre DEF FacesInv
<1>3. db \in Faces!Orders(Rest) /\ DOMAIN db = 1 .. Cardinality(Rest)
  BY FaceCounts DEF Stocked
<1>4. \A i, j \in DOMAIN db : db[i] = db[j] => i = j
  BY <1>2, <1>3, OrdersAre
<1> QED BY <1>1, <1>2, <1>3, <1>4, DrawnAre DEF FacesInv, Stocked, Sampled

(* Whoever is asked for has enough other rows.                             *)
LEMMA EnoughMatch ==
  ASSUME Faces!FacesAssumption, FacesInv, Drawn, Stocked, NEW q \in Faces!Queries
  PROVE  IsFiniteSet(Matching(q)) /\ Cardinality(Matching(q)) \in Nat /\ Cardinality(Matching(q)) >= GtK
<1> DEFINE person == faces[asked[q]]
           S == Matching(q)
           Others == Faces!RowsOf(person) \ {asked[q]}
<1>1. /\ Len(faces) \in Nat /\ GtK \in Nat \ {0} /\ Faces!Queries = 1 .. sample.queries
      /\ asked \in [Faces!Queries -> Rows]
      /\ \A o \in Faces!Queries : faces[asked[o]] = person => o = q
      /\ Cardinality(Rest) \in Nat /\ DOMAIN db = 1 .. Cardinality(Rest)
      /\ \A i \in DOMAIN db : db[i] \in Rest
      /\ \A i, j \in DOMAIN db : db[i] = db[j] => i = j
      /\ \A r \in Rest : \E i \in DOMAIN db : db[i] = r
      /\ person \in Faces!EligiblePersons
  BY SampleIs
<1>2. IsFiniteSet(Faces!RowsOf(person)) /\ Cardinality(Faces!RowsOf(person)) \in Nat
  <2>1. IsFiniteSet(Rows) /\ Faces!RowsOf(person) \in SUBSET Rows
    BY <1>1, FS_Interval DEF Rows, Faces!RowsOf
  <2> QED BY <2>1, FS_Subset, FS_CardinalityType
<1>3. Cardinality(Faces!RowsOf(person)) >= GtK + 1
  <2>1. \A p \in Faces!EligiblePersons : Cardinality(Faces!RowsOf(p)) >= GtK + 1
    BY FaceCounts DEF GtK
  <2> QED BY <1>1, <2>1
<1>4. IsFiniteSet(Others) /\ Cardinality(Others) \in Nat /\ Cardinality(Others) >= GtK
  <2>1. asked[q] \in Faces!RowsOf(person)
    BY <1>1 DEF Faces!RowsOf, Rows
  <2>2. IsFiniteSet(Others) /\ Cardinality(Others) = Cardinality(Faces!RowsOf(person)) - 1
    BY <1>2, <2>1, FS_RemoveElement
  <2> QED BY <1>1, <1>2, <1>3, <2>2, FS_CardinalityType
<1>6. \A r : r \in Others <=> r \in Rest /\ faces[r] = person
  <2>1. \A r : r \in Others <=> r \in Rows /\ faces[r] = person /\ r # asked[q]
    BY DEF Faces!RowsOf, Rows
  <2>2. \A r : r \in Rest <=> r \in Rows /\ \A o \in Faces!Queries : asked[o] # r
    BY <1>1 DEF Rest
  <2> HIDE DEF person, Others
  <2> QED BY <1>1, <2>1, <2>2
<1>7. IsFiniteSet(S) /\ Cardinality(S) = Cardinality(Others)
  <2>1. \A i : i \in S <=> i \in DOMAIN db /\ faces[db[i]] = person
    BY DEF Matching
  <2>2. IsFiniteSet(S)
    BY <1>1, <2>1, Ranks
  <2> HIDE DEF S, Others, person
  <2>3. \A i \in S : db[i] \in Others
    BY <1>1, <1>6, <2>1
  <2>4. \A i, j \in S : db[i] = db[j] => i = j
    BY <1>1, <2>1
  <2>5. \A r \in Others : \E i \in S : db[i] = r
    BY <1>1, <1>6, <2>1
  <2>6. Cardinality(Others) = Cardinality(S)
    BY <2>2, <2>3, <2>4, <2>5, SameNumber
  <2> QED BY <2>2, <2>6
<1> QED BY <1>4, <1>7

LEMMA RightIs ==
  ASSUME Faces!FacesAssumption, FacesInv, Sampled, NEW q \in Faces!Queries
  PROVE  /\ DOMAIN gt[q] = 1 .. GtK
         /\ \A i \in 1 .. GtK : gt[q][i] \in DOMAIN db /\ faces[db[gt[q][i]]] = faces[asked[q]]
         /\ \A i, j \in 1 .. GtK : gt[q][i] = gt[q][j] => i = j
         /\ Faces!Right(q) = {gt[q][i] : i \in 1 .. GtK}
         /\ IsFiniteSet(Faces!Right(q)) /\ Cardinality(Faces!Right(q)) = GtK
<1>1. GtK \in Nat \ {0} /\ Truthful(q)
  BY SampleIs DEF Sampled
<1>2. /\ DOMAIN gt[q] = 1 .. GtK
      /\ \A i \in 1 .. GtK : gt[q][i] \in DOMAIN db /\ faces[db[gt[q][i]]] = faces[asked[q]]
      /\ \A i, j \in 1 .. GtK : gt[q][i] = gt[q][j] => i = j
  BY <1>1 DEF Truthful, Matching
<1>3. Faces!Right(q) = {gt[q][i] : i \in 1 .. GtK}
  BY <1>2 DEF Faces!Right
<1>4. IsFiniteSet(Faces!Right(q)) /\ Cardinality(Faces!Right(q)) = GtK
  <2> DEFINE g == gt[q]
             T == 1 .. GtK
  <2>1. IsFiniteSet(T) /\ Cardinality(T) = GtK
    <3>1. GtK \in Int /\ ~ (1 > GtK) /\ GtK - 1 + 1 = GtK
      BY <1>1
    <3> QED BY <3>1, FS_Interval
  <2>2. (\A i \in T : g[i] \in Faces!Right(q)) /\ (\A i, j \in T : g[i] = g[j] => i = j)
        /\ \A y \in Faces!Right(q) : \E i \in T : g[i] = y
    BY <1>2, <1>3
  <2> HIDE DEF g, T
  <2> QED BY <2>1, <2>2, SameNumber
<1> QED BY <1>2, <1>3, <1>4

(* Behind the last batch every row is somewhere, with its query.           *)
LEMMA ScatteredIs ==
  ASSUME Faces!FacesAssumption, FacesInv, Scattering, write_pos = Faces!n_db
  PROVE  /\ Stocked /\ DOMAIN db_q_idx = DOMAIN db
         /\ \A i \in DOMAIN db : db_q_idx[i] = Faces!QIdx(db[i])
<1> DEFINE n == Faces!n_db
<1>1. /\ IsFiniteSet(Rest) /\ Cardinality(Rest) = n /\ n \in Nat
      /\ DOMAIN db = 1 .. n /\ DOMAIN db_q_idx = 1 .. n
  BY DrawnAre DEF FacesInv, Scattering
<1>2. /\ reader \in [1 .. n -> Rest] /\ \A r \in Rest : \E j \in 1 .. n : reader[j] = r
  BY <1>1, OrdersAre DEF Scattering
<1>3. /\ perm \in [1 .. n -> 1 .. n] /\ \A i \in 1 .. n : \E j \in 1 .. n : perm[j] = i
  <2>1. IsFiniteSet(1 .. n) /\ Cardinality(1 .. n) = n
    BY <1>1, CountUpTo
  <2> QED BY <2>1, OrdersAre DEF Scattering
<1>4. \A j \in 1 .. n : db[perm[j]] = reader[j] /\ db_q_idx[perm[j]] = Faces!QIdx(reader[j])
  BY DEF Scattering
<1> HIDE DEF n
<1>5. ASSUME NEW i \in 1 .. n PROVE db[i] \in Rest /\ db_q_idx[i] = Faces!QIdx(db[i])
  <2>1. PICK j \in 1 .. n : perm[j] = i
    BY <1>3
  <2> QED BY <1>2, <1>4, <2>1
<1>6. ASSUME NEW r \in Rest PROVE \E i \in 1 .. n : db[i] = r
  <2>1. PICK j \in 1 .. n : reader[j] = r
    BY <1>2
  <2> QED BY <1>3, <1>4, <2>1
<1>7. db \in [1 .. n -> Rest]
  <2>1. db = [i \in 1 .. n |-> db[i]]
    BY DEF Scattering, n
  <2> QED BY <1>5, <2>1
<1> QED BY <1>1, <1>5, <1>6, <1>7 DEF Stocked

(* In the sorted list of positions those of one query follow each other.   *)
LEMMA SliceIsRight ==
  ASSUME Faces!FacesAssumption, FacesInv, Scattering, write_pos = Faces!n_db,
         NEW relevant \in Faces!Orders(Faces!Relevant), Faces!Sorted(relevant),
         NEW q \in 1 .. sample.queries
  PROVE  /\ Faces!GroundTruth(relevant, q) \in [1 .. GtK -> Matching(q)]
         /\ \A i, j \in 1 .. GtK :
              Faces!GroundTruth(relevant, q)[i] = Faces!GroundTruth(relevant, q)[j] => i = j
<1> DEFINE n == Cardinality(Rest)
           R == Faces!Relevant
           N == Cardinality(R)
           tag(a) == db_q_idx[relevant[a]]
           D == {a \in 1 .. N : tag(a) = q}
           T == {i \in R : db_q_idx[i] = q}
           f == Faces!First(relevant, q)
<1>1. /\ Stocked /\ DOMAIN db_q_idx = DOMAIN db
      /\ \A i \in DOMAIN db : db_q_idx[i] = Faces!QIdx(db[i])
  BY ScatteredIs
<1>2. /\ Faces!Queries = 1 .. sample.queries /\ n \in Nat /\ DOMAIN db = 1 .. n /\ GtK \in Nat \ {0}
      /\ \A i \in DOMAIN db : db[i] \in Rest
  BY <1>1, SampleIs DEF Scattering
<1>3. /\ \A i \in DOMAIN db : db_q_idx[i] \in 0 .. sample.queries
      /\ \A i \in DOMAIN db : db_q_idx[i] = q <=> faces[db[i]] = faces[asked[q]]
      /\ sample.queries \in Nat
  BY <1>1, <1>2, DrawnAre DEF FacesInv, Scattering
<1>4. R \subseteq 1 .. n /\ IsFiniteSet(R)
  <2>1. R \subseteq 1 .. n
    BY <1>1, <1>2 DEF Faces!Relevant
  <2> HIDE DEF R
  <2>2. IsFiniteSet(1 .. n)
    BY <1>2, CountUpTo
  <2>3. R \in SUBSET (1 .. n)
    BY <2>1
  <2>4. IsFiniteSet(R)
    BY <2>2, <2>3, FS_Subset
  <2> QED BY <2>1, <2>4
<1>5. T = Matching(q)
  BY <1>1, <1>3 DEF Faces!Relevant, Faces!Nobody, Matching
<1>6. /\ relevant \in [1 .. N -> R] /\ N \in Nat
      /\ \A i \in R : \E a \in 1 .. N : relevant[a] = i
      /\ \A a, b \in 1 .. N : relevant[a] = relevant[b] => a = b
  BY <1>4, OrdersAre
<1> HIDE DEF n, R, N
<1>7. \A a \in 1 .. N : relevant[a] \in DOMAIN db /\ tag(a) \in Nat
  <2> SUFFICES ASSUME NEW a \in 1 .. N PROVE relevant[a] \in DOMAIN db /\ tag(a) \in Nat
    OBVIOUS
  <2>1. relevant[a] \in DOMAIN db
    BY <1>2, <1>4, <1>6
  <2>2. tag(a) \in 0 .. sample.queries
    BY <1>3, <2>1
  <2> QED BY <1>3, <2>1, <2>2
<1>8. \A a, b \in 1 .. N : a < b => tag(a) <= tag(b)
  <2> SUFFICES ASSUME NEW a \in 1 .. N, NEW b \in 1 .. N, a < b PROVE tag(a) <= tag(b)
    OBVIOUS
  <2>1. tag(a) < tag(b) \/ tag(a) = tag(b)
    BY <1>6 DEF Faces!Sorted
  <2> QED BY <1>7, <2>1
<1>9. Cardinality(D) = Cardinality(T) /\ Cardinality(D) \in Nat /\ IsFiniteSet(D)
  <2>1. IsFiniteSet(D)
    <3>1. IsFiniteSet(1 .. N) /\ D \subseteq 1 .. N
      BY <1>6, FS_Interval
    <3> QED BY <3>1, FS_Subset
  <2>2. (\A a \in D : relevant[a] \in T) /\ (\A a, b \in D : relevant[a] = relevant[b] => a = b)
        /\ \A i \in T : \E a \in D : relevant[a] = i
    BY <1>6
  <2> HIDE DEF D, T
  <2> QED BY <2>1, <2>2, SameNumber, FS_CardinalityType
<1>10. Cardinality(D) >= GtK
  BY <1>1, <1>2, <1>5, <1>9, EnoughMatch DEF Scattering
<1>11. f \in D /\ \A d \in D : f <= d
  <2> DEFINE a == ListUp(D)[1]
  <2>1. a \in D /\ RankIn(D, a) = 1
    <3>1. 1 \in 1 .. Cardinality(D) /\ D \subseteq 1 .. N
      BY <1>2, <1>9, <1>10
    <3> HIDE DEF D
    <3> QED BY <1>6, <3>1, Ranks
  <2>2. \A b \in D : ~ (b < a)
    <3> SUFFICES ASSUME NEW b \in D, b < a PROVE FALSE
      OBVIOUS
    <3>1. D \subseteq 1 .. N
      OBVIOUS
    <3> HIDE DEF D, a
    <3>2. RankIn(D, b) < RankIn(D, a) /\ RankIn(D, b) \in 1 .. Cardinality(D)
      BY <1>6, <2>1, <3>1, Ranks
    <3> QED BY <1>9, <2>1, <3>2
  <2>3. /\ a \in DOMAIN relevant /\ db_q_idx[relevant[a]] = q
        /\ \A b \in 1 .. a - 1 : db_q_idx[relevant[b]] # q
    <3>1. a \in 1 .. N /\ tag(a) = q
      BY <2>1
    <3> HIDE DEF a
    <3>2. \A b \in 1 .. a - 1 : b \in 1 .. N /\ b < a
      BY <1>6, <3>1
    <3> QED BY <1>6, <2>2, <3>1, <3>2
  <2>4. \E c \in DOMAIN relevant : /\ db_q_idx[relevant[c]] = q
                                   /\ \A b \in 1 .. c - 1 : db_q_idx[relevant[b]] # q
    BY <2>3, Zenon
  <2>5. /\ f \in DOMAIN relevant /\ db_q_idx[relevant[f]] = q
        /\ \A b \in 1 .. f - 1 : db_q_idx[relevant[b]] # q
    BY <2>4, Zenon DEF Faces!First
  <2> HIDE DEF f
  <2>6. f \in 1 .. N /\ tag(f) = q
    BY <1>6, <2>5
  <2>7. ASSUME NEW d \in D PROVE f <= d
    <3>1. d \in 1 .. N /\ tag(d) = q
      OBVIOUS
    <3>2. d \notin 1 .. f - 1
      BY <2>5, <3>1
    <3> QED BY <1>6, <2>6, <3>1, <3>2
  <2> QED BY <2>6, <2>7
<1>12. \A d \in D : \A e \in f .. d : e \in D
  <2> HIDE DEF f
  <2> SUFFICES ASSUME NEW d \in D, NEW e \in f .. d PROVE e \in D
    OBVIOUS
  <2>1. d \in 1 .. N /\ tag(d) = q /\ f \in 1 .. N /\ tag(f) = q
    BY <1>11
  <2>2. e \in 1 .. N /\ (e = f \/ f < e) /\ (e = d \/ e < d)
    BY <1>6, <2>1
  <2>3. tag(f) <= tag(e) /\ tag(e) <= tag(d)
    BY <1>7, <1>8, <2>1, <2>2
  <2> QED BY <1>7, <2>1, <2>2, <2>3
<1>13. ASSUME NEW i \in 1 .. GtK
       PROVE  /\ f + i - 1 \in D
              /\ Faces!GroundTruth(relevant, q)[i] = relevant[f + i - 1]
  <2>1. i \in 1 .. Cardinality(D) /\ D \subseteq 1 .. N
    BY <1>2, <1>9, <1>10
  <2>2. Faces!GroundTruth(relevant, q)[i] = relevant[f + i - 1]
    BY DEF Faces!GroundTruth, GtK
  <2> HIDE DEF D, f
  <2> QED BY <1>6, <1>11, <1>12, <2>1, <2>2, NoGap
<1> HIDE DEF f
<1>14. \A i \in 1 .. GtK : Faces!GroundTruth(relevant, q)[i] \in Matching(q)
  <2> SUFFICES ASSUME NEW i \in 1 .. GtK PROVE relevant[f + i - 1] \in T
    BY <1>5, <1>13
  <2> QED BY <1>6, <1>13
<1>15. \A i, j \in 1 .. GtK :
         Faces!GroundTruth(relevant, q)[i] = Faces!GroundTruth(relevant, q)[j] => i = j
  <2> SUFFICES ASSUME NEW i \in 1 .. GtK, NEW j \in 1 .. GtK,
                      relevant[f + i - 1] = relevant[f + j - 1]
               PROVE  i = j
    BY <1>13
  <2>1. f + i - 1 \in 1 .. N /\ f + j - 1 \in 1 .. N /\ f \in 1 .. N
    BY <1>11, <1>13
  <2>2. f + i - 1 = f + j - 1
    BY <1>6, <2>1
  <2> QED BY <1>2, <1>6, <2>1, <2>2
<1>16. Faces!GroundTruth(relevant, q)
         = [i \in 1 .. GtK |-> Faces!GroundTruth(relevant, q)[i]]
  BY DEF Faces!GroundTruth, GtK
<1> QED BY <1>14, <1>15, <1>16

LEMMA FacesStart == Faces!Init => FacesInv
BY DEF Faces!Init, FacesInv

LEMMA SampleFollows ==
  ASSUME Faces!FacesAssumption, FacesInv, Faces!Sample PROVE FacesInv'
<1>1. UNCHANGED <<faces, sample, top_k, answers>> /\ stage' \in {"rejected", "scatter"}
  BY DEF Faces!Sample
<1> SUFFICES ASSUME stage' = "scatter" PROVE Scattering'
  BY <1>1 DEF FacesInv
<1>2. /\ asked' \in [1 .. sample.queries -> 1 .. Len(faces)]
      /\ \A q \in 1 .. sample.queries :
           /\ faces[asked'[q]] \in Faces!EligiblePersons
           /\ \A o \in 1 .. q - 1 : faces[asked'[o]] # faces[asked'[q]]
      /\ reader' \in Faces!Orders((1 .. Len(faces)) \ {asked'[q] : q \in 1 .. sample.queries})
      /\ perm' \in Faces!Orders(1 .. Faces!n_db)
      /\ fetched' = 0 /\ write_pos' = 0
      /\ db' = [i \in 1 .. Faces!n_db |-> 0] /\ db_q_idx' = [i \in 1 .. Faces!n_db |-> 1]
  BY DEF Faces!Sample
<1>3. /\ Faces!EligiblePersons' = Faces!EligiblePersons /\ Faces!n_db' = Faces!n_db
      /\ \A S : Faces!Orders(S)' = Faces!Orders(S)
  BY <1>1 DEF Faces!EligiblePersons, Faces!RowsOf, Faces!n_db, Faces!Orders
<1>4. Drawn'
  BY <1>1, <1>2, <1>3 DEF Drawn, Rows
<1>5. Rest' = (1 .. Len(faces)) \ {asked'[q] : q \in 1 .. sample.queries}
  BY <1>1 DEF Rest, Rows
<1>6. Faces!n_db \in Nat
  <2>1. ~ (Len(faces) < sample.queries)
    BY DEF Faces!Sample
  <2>2. Len(faces) \in Nat /\ sample.queries \in Nat
    BY DEF Faces!FacesAssumption, FacesInv
  <2> QED BY <2>1, <2>2 DEF Faces!n_db
<1> QED BY <1>1, <1>2, <1>3, <1>4, <1>5, <1>6 DEF Scattering

LEMMA ScatterFollows ==
  ASSUME Faces!FacesAssumption, FacesInv, Faces!Scatter PROVE FacesInv'
<1>1. /\ UNCHANGED <<faces, sample, asked, reader, perm, gt, top_k, answers>>
      /\ stage = "scatter" /\ Scattering
  BY DEF Faces!Scatter, FacesInv
<1>2. PICK n \in 1 .. Len(reader) - fetched :
        IF write_pos + n > Faces!n_db
        THEN stage' = "internal_error" /\ UNCHANGED <<fetched, write_pos, db, db_q_idx>>
        ELSE /\ db' = Faces!Put(db, n, Faces!Batch(n))
             /\ db_q_idx' = Faces!Put(db_q_idx, n, Faces!QIdxs(n))
             /\ write_pos' = write_pos + n /\ fetched' = fetched + n
             /\ UNCHANGED stage
  BY DEF Faces!Scatter
<1> DEFINE N == Faces!n_db
           w == write_pos
           At(i) == CHOOSE j \in 1 .. n : perm[w + j] = i
<1>3. /\ IsFiniteSet(Rest) /\ Cardinality(Rest) = N /\ N \in Nat
      /\ fetched = w /\ w \in 0 .. N /\ DOMAIN db = 1 .. N /\ DOMAIN db_q_idx = 1 .. N
  BY <1>1, DrawnAre DEF FacesInv, Scattering
<1>4. reader \in [1 .. N -> Rest] /\ Len(reader) = N
  BY <1>1, <1>3, OrdersAre DEF Scattering
<1>5. perm \in [1 .. N -> 1 .. N] /\ \A i, j \in 1 .. N : perm[i] = perm[j] => i = j
  <2> DEFINE S == 1 .. N
  <2>1. IsFiniteSet(S) /\ Cardinality(S) = N
    BY <1>3, CountUpTo
  <2>2. perm \in Faces!Orders(S)
    BY <1>1 DEF Scattering
  <2> HIDE DEF S
  <2>3. perm \in [1 .. Cardinality(S) -> S] /\ \A i, j \in 1 .. Cardinality(S) : perm[i] = perm[j] => i = j
    BY <2>1, <2>2, OrdersAre
  <2> HIDE DEF N
  <2>4. perm \in [1 .. N -> S] /\ \A i, j \in 1 .. N : perm[i] = perm[j] => i = j
    BY <2>1, <2>3
  <2> QED BY <2>4 DEF S
<1>6. \A j \in 1 .. w : db[perm[j]] = reader[j] /\ db_q_idx[perm[j]] = Faces!QIdx(reader[j])
  BY <1>1 DEF Scattering
<1> HIDE DEF N, w
<1>7. n \in Nat /\ w + n \in 0 .. N /\ ~ (w + n > N)
  BY <1>3, <1>4
<1>8. /\ db' = Faces!Put(db, n, Faces!Batch(n))
      /\ db_q_idx' = Faces!Put(db_q_idx, n, Faces!QIdxs(n))
      /\ write_pos' = w + n /\ fetched' = w + n /\ stage' = "scatter"
  BY <1>1, <1>2, <1>3, <1>7 DEF N, w
<1>9. /\ db' = [i \in 1 .. N |-> IF \E j \in 1 .. n : perm[w + j] = i
                                 THEN reader[w + At(i)] ELSE db[i]]
      /\ db_q_idx' = [i \in 1 .. N |-> IF \E j \in 1 .. n : perm[w + j] = i
                                       THEN Faces!QIdx(reader[w + At(i)]) ELSE db_q_idx[i]]
  <2>1. ASSUME NEW i, \E j \in 1 .. n : perm[w + j] = i
        PROVE  /\ Faces!Batch(n)[At(i)] = reader[w + At(i)]
               /\ Faces!QIdxs(n)[At(i)] = Faces!QIdx(reader[w + At(i)])
    <3>1. At(i) \in 1 .. n
      BY <2>1
    <3> HIDE DEF At
    <3> QED BY <1>3, <3>1 DEF Faces!Batch, Faces!QIdxs
  <2>2. \A a, v : Faces!Put(a, n, v) = [i \in DOMAIN a |-> IF \E j \in 1 .. n : perm[w + j] = i
                                                           THEN v[At(i)] ELSE a[i]]
    BY DEF Faces!Put, w
  <2> HIDE DEF At
  <2>3. /\ db' = [i \in 1 .. N |-> IF \E j \in 1 .. n : perm[w + j] = i
                                   THEN Faces!Batch(n)[At(i)] ELSE db[i]]
        /\ db_q_idx' = [i \in 1 .. N |-> IF \E j \in 1 .. n : perm[w + j] = i
                                         THEN Faces!QIdxs(n)[At(i)] ELSE db_q_idx[i]]
    <3>1. DOMAIN db = 1 .. N /\ DOMAIN db_q_idx = 1 .. N
      BY <1>3
    <3>2. /\ Faces!Put(db, n, Faces!Batch(n))
               = [i \in DOMAIN db |-> IF \E j \in 1 .. n : perm[w + j] = i
                                      THEN Faces!Batch(n)[At(i)] ELSE db[i]]
          /\ Faces!Put(db_q_idx, n, Faces!QIdxs(n))
               = [i \in DOMAIN db_q_idx |-> IF \E j \in 1 .. n : perm[w + j] = i
                                            THEN Faces!QIdxs(n)[At(i)] ELSE db_q_idx[i]]
      BY <2>2, Zenon
    <3> QED BY <1>8, <3>1, <3>2, Zenon
  <2>4. \A i \in 1 .. N :
          /\ (IF \E j \in 1 .. n : perm[w + j] = i THEN Faces!Batch(n)[At(i)] ELSE db[i])
               = (IF \E j \in 1 .. n : perm[w + j] = i THEN reader[w + At(i)] ELSE db[i])
          /\ (IF \E j \in 1 .. n : perm[w + j] = i THEN Faces!QIdxs(n)[At(i)] ELSE db_q_idx[i])
               = (IF \E j \in 1 .. n : perm[w + j] = i
                  THEN Faces!QIdx(reader[w + At(i)]) ELSE db_q_idx[i])
    BY <2>1, Zenon
  <2> QED BY <2>3, <2>4, Zenon
<1>10. ASSUME NEW j \in 1 .. w + n
       PROVE  db'[perm[j]] = reader[j] /\ db_q_idx'[perm[j]] = Faces!QIdx(reader[j])
  <2>1. j \in 1 .. N /\ perm[j] \in 1 .. N
    BY <1>3, <1>5, <1>7
  <2>2. CASE j <= w
    <3>1. ~ \E m \in 1 .. n : perm[w + m] = perm[j]
      <4> SUFFICES ASSUME NEW m \in 1 .. n, perm[w + m] = perm[j] PROVE FALSE
        OBVIOUS
      <4>1. w + m \in 1 .. N /\ w + m # j
        BY <1>3, <1>7, <2>2
      <4> QED BY <1>5, <2>1, <4>1
    <3>2. j \in 1 .. w
      BY <1>3, <2>2
    <3> HIDE DEF At
    <3> QED BY <1>6, <1>9, <2>1, <3>1, <3>2
  <2>3. CASE ~ (j <= w)
    <3> DEFINE m == j - w
    <3>1. m \in 1 .. n /\ w + m = j
      BY <1>3, <1>7, <2>3
    <3>2. \A k \in 1 .. n : perm[w + k] = perm[j] => k = m
      <4> SUFFICES ASSUME NEW k \in 1 .. n, perm[w + k] = perm[j] PROVE k = m
        OBVIOUS
      <4>1. w + k \in 1 .. N
        BY <1>3, <1>7
      <4>2. w + k = j
        BY <1>5, <2>1, <4>1
      <4> QED BY <1>3, <1>7, <4>2
    <3> HIDE DEF m
    <3>3. \E k \in 1 .. n : perm[w + k] = perm[j]
      BY <3>1
    <3>4. At(perm[j]) \in 1 .. n /\ perm[w + At(perm[j])] = perm[j]
      BY <3>3, Zenon
    <3> HIDE DEF At
    <3>5. w + At(perm[j]) = j
      BY <3>1, <3>2, <3>4
    <3> QED BY <1>9, <2>1, <3>3, <3>5
  <2> QED BY <2>2, <2>3
<1>11. /\ db' = [i \in 1 .. N |-> db'[i]] /\ db_q_idx' = [i \in 1 .. N |-> db_q_idx'[i]]
  BY <1>9
<1>12. (\A S : Faces!Orders(S)' = Faces!Orders(S)) /\ \A r : Faces!QIdx(r)' = Faces!QIdx(r)
  BY <1>1 DEF Faces!Orders, Faces!QIdx
<1>13. Rest' = Rest /\ Faces!n_db' = N
  BY <1>1 DEF Rest, Rows, Faces!n_db, N
<1>14. Drawn' /\ reader' \in Faces!Orders(Rest) /\ perm' \in Faces!Orders(1 .. N)
  BY <1>1, DrawnStays DEF Scattering, N
<1>15. Scattering'
  BY <1>1, <1>7, <1>8, <1>10, <1>11, <1>12, <1>13, <1>14 DEF Scattering
<1> QED BY <1>1, <1>8, <1>15 DEF FacesInv

LEMMA CollectFollows ==
  ASSUME Faces!FacesAssumption, FacesInv, Faces!Collect PROVE FacesInv'
<1>1. /\ UNCHANGED <<faces, sample, asked, db, top_k, answers>>
      /\ stage = "scatter" /\ Scattering /\ fetched = Len(reader)
  BY DEF Faces!Collect, FacesInv
<1>2. write_pos = Faces!n_db
  <2>1. IsFiniteSet(Rest) /\ Cardinality(Rest) = Faces!n_db /\ Faces!n_db \in Nat
    BY <1>1, DrawnAre DEF FacesInv, Scattering
  <2>2. Len(reader) = Faces!n_db
    BY <1>1, <2>1, OrdersAre DEF Scattering
  <2> QED BY <1>1, <2>2 DEF Scattering
<1>3. /\ Drawn /\ Stocked /\ DOMAIN asked = 1 .. sample.queries /\ Faces!Queries = DOMAIN asked
      /\ DOMAIN db_q_idx = DOMAIN db /\ \A i \in DOMAIN db : db_q_idx[i] = Faces!QIdx(db[i])
  BY <1>1, <1>2, ScatteredIs DEF Scattering, Drawn, Faces!Queries
<1>4. ASSUME NEW q \in DOMAIN asked PROVE ~ (Faces!Counted(q) < sample.gt_k)
  <2>1. {i \in Faces!Relevant : db_q_idx[i] = q} = Matching(q)
    <3>1. \A i \in DOMAIN db : db[i] \in Rest
      BY <1>3 DEF Stocked
    <3>2. /\ \A i \in DOMAIN db : db_q_idx[i] = q <=> faces[db[i]] = faces[asked[q]]
          /\ q # 0
      BY <1>3, <3>1, DrawnAre DEF FacesInv
    <3> QED BY <1>3, <3>2 DEF Faces!Relevant, Faces!Nobody, Matching
  <2>2. Cardinality(Matching(q)) \in Nat /\ Cardinality(Matching(q)) >= GtK /\ GtK \in Nat
    BY <1>3, EnoughMatch, SampleIs
  <2> QED BY <2>1, <2>2, FaceCounts DEF GtK
<1>5. PICK relevant \in Faces!Orders(Faces!Relevant) :
        /\ Faces!Sorted(relevant) /\ stage' = "sampled"
        /\ gt' = [q \in DOMAIN asked |-> Faces!GroundTruth(relevant, q)]
  BY <1>2, <1>4 DEF Faces!Collect
<1>6. \A q \in 1 .. sample.queries : Truthful(q)'
  <2> SUFFICES ASSUME NEW q \in 1 .. sample.queries PROVE Truthful(q)'
    BY <1>1
  <2>1. /\ Faces!GroundTruth(relevant, q) \in [1 .. GtK -> Matching(q)]
        /\ \A i, j \in 1 .. GtK :
             Faces!GroundTruth(relevant, q)[i] = Faces!GroundTruth(relevant, q)[j] => i = j
    BY <1>1, <1>2, <1>5, SliceIsRight
  <2>2. gt'[q] = Faces!GroundTruth(relevant, q)
    BY <1>3, <1>5
  <2>3. Matching(q)' = Matching(q) /\ GtK' = GtK
    BY <1>1 DEF Matching, GtK
  <2> QED BY <2>1, <2>2, <2>3 DEF Truthful
<1>7. Drawn' /\ Stocked'
  BY <1>1, <1>3, DrawnStays DEF Stocked, Rest, Rows
<1> QED BY <1>1, <1>5, <1>6, <1>7 DEF FacesInv, Sampled

LEMMA SearchFollows == FacesInv /\ Faces!Search => FacesInv'
<1> SUFFICES ASSUME FacesInv, Faces!Search PROVE FacesInv'
  OBVIOUS
<1>1. /\ UNCHANGED <<faces, sample, asked, db, gt>> /\ stage = "sampled"
      /\ stage' \in {"rejected", "searched"}
  BY DEF Faces!Search
<1>2. Sampled'
  BY <1>1, SampledStays DEF FacesInv
<1>3. ASSUME stage' = "searched" PROVE Searched'
  <2>1. PICK k \in TopKs : /\ top_k' = k
                           /\ IF k > Len(db) THEN stage' = "rejected" /\ UNCHANGED answers
                              ELSE answers' \in [DOMAIN asked -> Faces!Answers(k)] /\ stage' = "searched"
    BY DEF Faces!Search
  <2>2. ~ (k > Len(db)) /\ answers' \in [DOMAIN asked -> Faces!Answers(k)]
    BY <1>3, <2>1
  <2>3. \A n : Faces!Answers(n)' = Faces!Answers(n)
    BY <1>1 DEF Faces!Answers
  <2> QED BY <1>1, <2>1, <2>2, <2>3 DEF Searched
<1> QED BY <1>1, <1>2, <1>3 DEF FacesInv

LEMMA FacesFollow == Faces!FacesAssumption /\ FacesInv /\ Faces!Next => FacesInv'
BY SampleFollows, ScatterFollows, CollectFollows, SearchFollows DEF Faces!Next

LEMMA TruthHolds ==
  ASSUME Faces!FacesAssumption, FacesInv
  PROVE  Faces!TruthIsSound
<1> SUFFICES ASSUME stage \in {"sampled", "searched"} PROVE Faces!TruthIsSound
  BY DEF Faces!TruthIsSound, FacesInv
<1>1. Sampled /\ stage # "internal_error"
  BY DEF FacesInv
<1>2. ASSUME NEW r \in Rows
      PROVE  Faces!Count({i \in DOMAIN db : db[i] = r}) + Faces!Count({q \in Faces!Queries : asked[q] = r}) = 1
  <2> DEFINE A == {i \in DOMAIN db : db[i] = r}
             B == {q \in Faces!Queries : asked[q] = r}
  <2>1. CASE r \in Rest
    <3>1. PICK i \in DOMAIN db : db[i] = r
      BY <1>1, <2>1, SampleIs DEF Sampled
    <3>2. A = {i}
      BY <1>1, <3>1, SampleIs DEF Sampled
    <3>3. B = {}
      BY <1>1, <2>1, SampleIs DEF Rest, Sampled
    <3> HIDE DEF A, B
    <3>4. Cardinality(A) = 1 /\ Cardinality(B) = 0
      BY <3>2, <3>3, FS_Singleton, FS_EmptySet
    <3>5. Faces!Count(A) + Faces!Count(B) = 1
      BY <3>4, FaceCounts
    <3> QED BY <3>5 DEF A, B
  <2>2. CASE r \notin Rest
    <3>1. PICK q \in Faces!Queries : asked[q] = r
      BY <1>1, <2>2, SampleIs DEF Rest, Sampled
    <3>2. B = {q}
      BY <1>1, <3>1, SampleIs DEF Sampled
    <3>3. A = {}
      BY <1>1, <2>2, SampleIs DEF Sampled
    <3> HIDE DEF A, B
    <3>4. Cardinality(B) = 1 /\ Cardinality(A) = 0
      BY <3>2, <3>3, FS_Singleton, FS_EmptySet
    <3>5. Faces!Count(A) + Faces!Count(B) = 1
      BY <3>4, FaceCounts
    <3> QED BY <3>5 DEF A, B
  <2> QED BY <2>1, <2>2
<1>3. ASSUME NEW q \in Faces!Queries
      PROVE  /\ Faces!Count(Faces!Right(q)) = sample.gt_k
             /\ \A i \in Faces!Right(q) : faces[db[i]] = faces[asked[q]] /\ db[i] # asked[q]
  <2>1. Faces!Count(Faces!Right(q)) = sample.gt_k
    BY <1>1, RightIs, FaceCounts DEF GtK
  <2>2. \A i \in Faces!Right(q) : i \in DOMAIN db /\ faces[db[i]] = faces[asked[q]]
    BY <1>1, RightIs
  <2>3. \A i \in DOMAIN db : db[i] # asked[q]
    BY <1>1, SampleIs DEF Rest, Sampled
  <2> QED BY <2>1, <2>2, <2>3
<1> QED BY <1>1, <1>2, <1>3 DEF Faces!TruthIsSound, Rows

(* Answers are lists without repetitions: positions count what is found.   *)
Hits(q, k) == {i \in DOMAIN answers[q] : i <= k /\ answers[q][i] \in Faces!Right(q)}

LEMMA AnswersAre ==
  ASSUME Faces!FacesAssumption, FacesInv, Sampled, Searched
  PROVE  /\ top_k \in Nat \ {0}
         /\ \A q \in Faces!Queries :
              /\ Len(answers[q]) \in Nat /\ Len(answers[q]) <= top_k
              /\ DOMAIN answers[q] = 1 .. Len(answers[q])
              /\ \A i, j \in DOMAIN answers[q] : answers[q][i] = answers[q][j] => i = j
              /\ Faces!FirstSeen(q) = DOMAIN answers[q]
<1>1. top_k \in Nat \ {0}
  BY DEF Searched, Faces!FacesAssumption
<1> SUFFICES ASSUME NEW q \in Faces!Queries
             PROVE  /\ Len(answers[q]) \in Nat /\ Len(answers[q]) <= top_k
                    /\ DOMAIN answers[q] = 1 .. Len(answers[q])
                    /\ \A i, j \in DOMAIN answers[q] : answers[q][i] = answers[q][j] => i = j
                    /\ Faces!FirstSeen(q) = DOMAIN answers[q]
  BY <1>1
<1> DEFINE a == answers[q]
<1>2. a \in Faces!Answers(top_k)
  BY DEF Searched, Faces!Queries
<1>3. PICK n \in 0 .. top_k : a \in [1 .. n -> DOMAIN db] /\ \A i, j \in 1 .. n : a[i] = a[j] => i = j
  BY <1>2 DEF Faces!Answers
<1> HIDE DEF a
<1>4. n \in Nat /\ n <= top_k /\ Len(a) = n /\ DOMAIN a = 1 .. n
  BY <1>1, <1>3
<1>5. \A i \in 1 .. n : \A j \in 1 .. i - 1 : j \in 1 .. n /\ j # i
  BY <1>4
<1>6. Faces!FirstSeen(q) = DOMAIN a
  BY <1>3, <1>4, <1>5 DEF Faces!FirstSeen, a
<1> QED BY <1>3, <1>4, <1>6 DEF a

LEMMA HitsCount ==
  ASSUME Faces!FacesAssumption, FacesInv, Sampled, Searched, NEW q \in Faces!Queries, NEW k \in Nat
  PROVE  /\ IsFiniteSet(Hits(q, k)) /\ Cardinality(Hits(q, k)) \in Nat
         /\ Cardinality(Hits(q, k)) <= k /\ Cardinality(Hits(q, k)) <= GtK
         /\ Faces!RecallCurve(k)[q] = Cardinality(Hits(q, k))
         /\ \A m \in Nat : m <= k => Cardinality(Hits(q, m)) <= Cardinality(Hits(q, k))
         /\ Cardinality(Hits(q, k)) > 0 <=>
              \E i \in DOMAIN answers[q] : i <= k /\ answers[q][i] \in Faces!Right(q)
<1> DEFINE a == answers[q]
           N == Len(answers[q])
           H == Hits(q, k)
<1>1. /\ N \in Nat /\ DOMAIN a = 1 .. N /\ (\A i, j \in DOMAIN a : a[i] = a[j] => i = j)
      /\ Faces!FirstSeen(q) = DOMAIN a
  BY AnswersAre
<1>2. H \in SUBSET (1 .. N)
  BY <1>1 DEF Hits
<1>3. IsFiniteSet(1 .. N)
  BY <1>1, UpToIsFinite
<1> HIDE DEF H
<1>4. IsFiniteSet(H) /\ Cardinality(H) \in Nat
  BY <1>2, <1>3, FS_Subset, FS_CardinalityType
<1>5. Cardinality(H) <= k
  <2>1. H \in SUBSET (1 .. k)
    BY <1>1, <1>2 DEF H, Hits
  <2>2. IsFiniteSet(1 .. k) /\ Cardinality(1 .. k) = IF 1 > k THEN 0 ELSE k - 1 + 1
    BY FS_Interval
  <2>3. Cardinality(H) <= Cardinality(1 .. k)
    BY <2>1, <2>2, FS_Subset
  <2> QED BY <1>4, <2>2, <2>3
<1>6. Cardinality(H) <= GtK
  <2>1. IsFiniteSet(Faces!Right(q)) /\ Cardinality(Faces!Right(q)) = GtK
    BY RightIs
  <2> DEFINE g == [i \in H |-> a[i]]
             R == Faces!Right(q)
  <2>2. g \in Injection(H, R)
    BY <1>1 DEF Injection, IsInjective, H, Hits
  <2> HIDE DEF g, R
  <2>3. Cardinality(H) <= Cardinality(R)
    BY <2>1, <2>2, FS_Injection DEF R
  <2> QED BY <2>1, <2>3 DEF R
<1>7. Faces!RecallCurve(k)[q] = Cardinality(H)
  <2>1. Faces!RecallCurve(k)[q] =
          Faces!Count({i \in Faces!FirstSeen(q) : i <= k /\ answers[q][i] \in Faces!Right(q)})
    BY DEF Faces!RecallCurve
  <2> QED BY <1>1, <2>1, FaceCounts DEF H, Hits
<1>8. ASSUME NEW m \in Nat, m <= k PROVE Cardinality(Hits(q, m)) <= Cardinality(H)
  <2>1. Hits(q, m) \in SUBSET H
    BY <1>1, <1>8 DEF H, Hits
  <2> QED BY <1>4, <2>1, FS_Subset
<1>9. Cardinality(H) > 0 <=> H # {}
  BY <1>4, FS_EmptySet
<1> QED BY <1>4, <1>5, <1>6, <1>7, <1>8, <1>9 DEF H, Hits

(* Members found are so many as positions that hit.                        *)
LEMMA HitsAreFound ==
  ASSUME Faces!FacesAssumption, FacesInv, Sampled, Searched, NEW q \in Faces!Queries, NEW k \in Nat,
         NEW R, \A x : x \in R <=>
                         x \in Faces!Right(q) /\ \E i \in DOMAIN answers[q] : i <= k /\ answers[q][i] = x
  PROVE  Cardinality(R) = Cardinality(Hits(q, k))
<1> DEFINE a == answers[q]
           H == Hits(q, k)
<1>1. \A i, j \in DOMAIN a : a[i] = a[j] => i = j
  BY AnswersAre
<1>2. IsFiniteSet(H)
  BY HitsCount
<1>3. (\A i \in H : a[i] \in R) /\ (\A i, j \in H : a[i] = a[j] => i = j) /\ \A x \in R : \E i \in H : a[i] = x
  BY <1>1 DEF Hits
<1> HIDE DEF a, H
<1>4. Cardinality(R) = Cardinality(H)
  BY <1>2, <1>3, SameNumber
<1> QED BY <1>4 DEF H

LEMMA CurvesEnd ==
  ASSUME Faces!FacesAssumption, FacesInv
  PROVE  Faces!CurvesEndInNumbers
<1> SUFFICES ASSUME stage = "searched", Faces!BioRuns
             PROVE /\ Faces!HitCurve(top_k) = Faces!HitAtK /\ Faces!RecallCurve(top_k) = Faces!RecallAtK
                   /\ \A k \in 1 .. top_k :
                        /\ Faces!HitCurve(k) = Faces!Count({q \in Faces!Queries : Faces!RecallCurve(k)[q] > 0})
                        /\ \A q \in Faces!Queries :
                             /\ Faces!RecallCurve(k)[q] <= Faces!Least(k, sample.gt_k)
                             /\ k > 1 => Faces!RecallCurve(k)[q] >= Faces!RecallCurve(k - 1)[q]
  BY DEF Faces!CurvesEndInNumbers
<1>1. Sampled /\ Searched
  BY DEF FacesInv
<1>2. top_k \in Nat /\ GtK \in Nat
  BY <1>1, AnswersAre, SampleIs DEF Sampled
<1>3. \A q \in Faces!Queries : DOMAIN answers[q] = 1 .. top_k
  BY <1>1, AnswersAre DEF Faces!BioRuns
<1>4. Faces!HitCurve(top_k) = Faces!HitAtK
  <2>1. \A q \in Faces!Queries :
          (\E i \in 1 .. top_k : answers[q][i] \in Faces!Right(q)) <=> Faces!Found(q) \cap Faces!Right(q) # {}
    BY <1>3 DEF Faces!Found
  <2> QED BY <2>1 DEF Faces!HitCurve, Faces!HitAtK
<1>5. Faces!RecallCurve(top_k) = Faces!RecallAtK
  <2>1. ASSUME NEW q \in Faces!Queries PROVE Faces!RecallCurve(top_k)[q] = Faces!RecallAtK[q]
    <3> DEFINE R == Faces!Found(q) \cap Faces!Right(q)
    <3>1. \A x : x \in R <=>
                   x \in Faces!Right(q) /\ \E i \in DOMAIN answers[q] : i <= top_k /\ answers[q][i] = x
      <4>1. \A i \in DOMAIN answers[q] : i <= top_k
        BY <1>2, <1>3, <2>1
      <4> QED BY <4>1 DEF Faces!Found
    <3> HIDE DEF R
    <3>2. Cardinality(R) = Cardinality(Hits(q, top_k))
      BY <1>1, <1>2, <2>1, <3>1, HitsAreFound
    <3>3. Faces!RecallAtK[q] = Cardinality(R)
      BY <2>1, FaceCounts DEF Faces!RecallAtK, R
    <3> QED BY <1>1, <1>2, <2>1, <3>2, <3>3, HitsCount
  <2> QED BY <2>1 DEF Faces!RecallCurve, Faces!RecallAtK
<1>6. ASSUME NEW k \in 1 .. top_k
      PROVE  Faces!HitCurve(k) = Faces!Count({q \in Faces!Queries : Faces!RecallCurve(k)[q] > 0})
  <2>1. ASSUME NEW q \in Faces!Queries
        PROVE  (\E i \in 1 .. k : answers[q][i] \in Faces!Right(q)) <=> Faces!RecallCurve(k)[q] > 0
    <3>1. k \in Nat /\ k <= top_k
      BY <1>2, <1>6
    <3>2. Faces!RecallCurve(k)[q] > 0 <=>
            \E i \in DOMAIN answers[q] : i <= k /\ answers[q][i] \in Faces!Right(q)
      BY <1>1, <2>1, <3>1, HitsCount
    <3>3. \A i : i \in 1 .. top_k /\ i <= k <=> i \in 1 .. k
      BY <1>2, <3>1
    <3> QED BY <1>3, <2>1, <3>2, <3>3
  <2> QED BY <2>1 DEF Faces!HitCurve
<1>7. ASSUME NEW k \in 1 .. top_k, NEW q \in Faces!Queries
      PROVE  /\ Faces!RecallCurve(k)[q] <= Faces!Least(k, sample.gt_k)
             /\ k > 1 => Faces!RecallCurve(k)[q] >= Faces!RecallCurve(k - 1)[q]
  <2>1. k \in Nat /\ k - 1 \in Nat /\ k - 1 <= k
    BY <1>2, <1>7
  <2>2. /\ Faces!RecallCurve(k)[q] <= k /\ Faces!RecallCurve(k)[q] <= GtK /\ Faces!RecallCurve(k)[q] \in Nat
        /\ Faces!RecallCurve(k - 1)[q] <= Faces!RecallCurve(k)[q] /\ Faces!RecallCurve(k - 1)[q] \in Nat
    BY <1>1, <1>7, <2>1, HitsCount
  <2> QED BY <2>2 DEF Faces!Least, GtK
<1> QED BY <1>4, <1>5, <1>6, <1>7

(* The nearest right answer has one position, if any.                      *)
LEMMA RankIs ==
  ASSUME Faces!FacesAssumption, FacesInv, Sampled, Searched, NEW q \in Faces!Queries, NEW pid, NEW k \in Nat
  PROVE  (Faces!Rank(q, pid) # 0 /\ Faces!Rank(q, pid) <= k) <=>
           \E i \in DOMAIN answers[q] : i <= k /\ answers[q][i] = pid
<1> DEFINE a == answers[q]
<1>1. Len(a) \in Nat /\ DOMAIN a = 1 .. Len(a) /\ \A i, j \in DOMAIN a : a[i] = a[j] => i = j
  BY AnswersAre
<1>2. CASE pid \in Faces!Found(q)
  <2>1. PICK i \in DOMAIN a : a[i] = pid
    BY <1>2 DEF Faces!Found
  <2>2. Faces!Rank(q, pid) = CHOOSE j \in DOMAIN a : a[j] = pid
    BY <1>2 DEF Faces!Rank
  <2>3. Faces!Rank(q, pid) \in DOMAIN a /\ a[Faces!Rank(q, pid)] = pid
    BY <2>1, <2>2, Zenon
  <2>4. Faces!Rank(q, pid) = i
    BY <1>1, <2>1, <2>3
  <2>5. i # 0
    BY <1>1, <2>1
  <2> QED BY <1>1, <2>1, <2>4, <2>5
<1>3. CASE pid \notin Faces!Found(q)
  BY <1>3 DEF Faces!Rank, Faces!Found
<1> QED BY <1>2, <1>3

LEMMA BenchesAgree ==
  ASSUME Faces!FacesAssumption, FacesInv
  PROVE  Faces!BenchmarksAgree
<1> SUFFICES ASSUME stage = "searched", NEW k \in 1 .. top_k
             PROVE /\ Faces!AccRecall(k) = Faces!RankHits(k)
                   /\ sample.gt_k = 1 /\ Faces!BioRuns => Faces!HitCurve(k) = Faces!RankHits(k)
                   /\ \A q \in Faces!Queries :
                        k = sample.gt_k /\ Faces!HasPass(q, k) => Faces!AccPass(q, k) = Faces!RecallCurve(k)[q]
  BY DEF Faces!BenchmarksAgree
<1>1. Sampled /\ Searched
  BY DEF FacesInv
<1>2. top_k \in Nat /\ GtK \in Nat \ {0} /\ k \in Nat /\ k <= top_k
  BY <1>1, AnswersAre, SampleIs DEF Sampled
<1>3. ASSUME NEW q \in Faces!Queries
      PROVE  (\E i \in 1 .. Faces!Least(k, Len(answers[q])) : answers[q][i] = gt[q][1])
               <=> Faces!Rank(q, gt[q][1]) # 0 /\ Faces!Rank(q, gt[q][1]) <= k
  <2>1. Len(answers[q]) \in Nat /\ DOMAIN answers[q] = 1 .. Len(answers[q])
    BY <1>1, <1>3, AnswersAre
  <2>2. \A i : i \in 1 .. Faces!Least(k, Len(answers[q])) <=> i \in DOMAIN answers[q] /\ i <= k
    BY <1>2, <2>1 DEF Faces!Least
  <2>3. (Faces!Rank(q, gt[q][1]) # 0 /\ Faces!Rank(q, gt[q][1]) <= k)
          <=> \E i \in DOMAIN answers[q] : i <= k /\ answers[q][i] = gt[q][1]
    BY <1>1, <1>2, <1>3, RankIs
  <2> QED BY <2>2, <2>3
<1>4. Faces!AccRecall(k) = Faces!RankHits(k)
  BY <1>3 DEF Faces!AccRecall, Faces!RankHits
<1>5. ASSUME sample.gt_k = 1, Faces!BioRuns PROVE Faces!HitCurve(k) = Faces!RankHits(k)
  <2>1. ASSUME NEW q \in Faces!Queries
        PROVE  (\E i \in 1 .. k : answers[q][i] \in Faces!Right(q))
                 <=> Faces!Rank(q, gt[q][1]) # 0 /\ Faces!Rank(q, gt[q][1]) <= k
    <3>1. DOMAIN answers[q] = 1 .. top_k
      BY <1>1, <1>5, <2>1, AnswersAre DEF Faces!BioRuns
    <3>2. \A i : i \in 1 .. top_k /\ i <= k <=> i \in 1 .. k
      BY <1>2
    <3>3. Faces!Right(q) = {gt[q][i] : i \in 1 .. 1}
      BY <1>1, <1>5, <2>1, RightIs DEF GtK
    <3>4. \A x : x \in Faces!Right(q) <=> x = gt[q][1]
      BY <3>3
    <3>5. (Faces!Rank(q, gt[q][1]) # 0 /\ Faces!Rank(q, gt[q][1]) <= k)
            <=> \E i \in DOMAIN answers[q] : i <= k /\ answers[q][i] = gt[q][1]
      BY <1>1, <1>2, <2>1, RankIs
    <3> QED BY <3>1, <3>2, <3>4, <3>5
  <2> QED BY <2>1 DEF Faces!HitCurve, Faces!RankHits
<1>6. ASSUME NEW q \in Faces!Queries, k = sample.gt_k, Faces!HasPass(q, k)
      PROVE  Faces!AccPass(q, k) = Faces!RecallCurve(k)[q]
  <2>1. Len(answers[q]) \in Nat /\ DOMAIN answers[q] = 1 .. Len(answers[q]) /\ k <= Len(answers[q])
    BY <1>1, <1>6, AnswersAre DEF Faces!HasPass
  <2>2. Faces!Right(q) = {gt[q][i] : i \in 1 .. k}
    BY <1>1, <1>6, RightIs DEF GtK
  <2> DEFINE R == {answers[q][i] : i \in 1 .. k} \cap {gt[q][i] : i \in 1 .. k}
  <2>3. \A x : x \in R <=> x \in Faces!Right(q) /\ \E i \in DOMAIN answers[q] : i <= k /\ answers[q][i] = x
    <3>1. \A i : i \in DOMAIN answers[q] /\ i <= k <=> i \in 1 .. k
      BY <1>2, <2>1
    <3> QED BY <2>2, <3>1
  <2>4. Faces!AccPass(q, k) = Cardinality(R)
    BY FaceCounts DEF Faces!AccPass
  <2> HIDE DEF R
  <2>5. Cardinality(R) = Cardinality(Hits(q, k))
    BY <1>1, <1>2, <1>6, <2>3, HitsAreFound
  <2> QED BY <1>1, <1>2, <1>6, <2>4, <2>5, HitsCount
<1> QED BY <1>4, <1>5, <1>6

LEMMA RunsStayCached ==
  ASSUME Faces!FacesAssumption, FacesInv
  PROVE  Faces!RunsAreKept
<1> SUFFICES ASSUME stage = "searched", NEW ks \in ReportKs, Faces!AccRuns(Faces!NormalizeReportKs(ks))
             PROVE  Faces!RequiredRunKeys(Faces!NormalizeReportKs(ks))
                      \subseteq Faces!RunKeys(Faces!NormalizeReportKs(ks))
  BY DEF Faces!RunsAreKept
<1> DEFINE report == Faces!NormalizeReportKs(ks)
<1>1. Sampled /\ Searched
  BY DEF FacesInv
<1>2. report \subseteq Int /\ top_k \in Nat
  BY <1>1, AnswersAre DEF Faces!NormalizeReportKs, Faces!FacesAssumption
<1>3. \E q \in Faces!Queries : Faces!HasPass(q, top_k)
  BY DEF Faces!AccRuns, Faces!RunKeys
<1>4. PICK q \in Faces!Queries : Faces!HasPass(q, top_k)
  BY <1>3
<1>5. Len(answers[q]) \in Nat /\ Len(gt[q]) \in Nat
  <2>1. DOMAIN gt[q] = 1 .. GtK /\ GtK \in Nat
    BY <1>1, RightIs, SampleIs DEF Sampled
  <2>2. Len(gt[q]) = GtK
    <3>1. gt[q] \in [1 .. GtK -> Matching(q)]
      BY <1>1, SampleIs DEF Truthful, Sampled
    <3> QED BY <2>1, <3>1
  <2> QED BY <1>1, <2>1, <2>2, AnswersAre
<1>6. \A k \in report : k <= top_k => Faces!HasPass(q, k)
  BY <1>2, <1>4, <1>5 DEF Faces!HasPass
<1> HIDE DEF report
<1>7. Faces!RequiredRunKeys(report) \subseteq Faces!RunKeys(report)
  BY <1>6 DEF Faces!RequiredRunKeys, Faces!RunKeys
<1> QED BY <1>7 DEF report

LEMMA FacesAgree == Faces!FacesAssumption /\ FacesInv => Faces!MeasuresAgree
BY TruthHolds, CurvesEnd, BenchesAgree, RunsStayCached DEF Faces!MeasuresAgree

(***************************************************************************)
(* Answers behind a mask.  Every row of metrics is ordered by itself,      *)
(* whatever the mask.  The heap is a fold over the objects in the order of *)
(* their ids, and holds k nearest of those it has seen; the first of a     *)
(* full answer are nearest as well, so they have the best object if no     *)
(* other is as near, and are what a trace of everything, in order, shows.  *)
(***************************************************************************)
(***************************************************************************)
(* The k nearest.                                                          *)
(***************************************************************************)
Smaller(a, b) == IF a <= b THEN a ELSE b

NearestOf(d, mask, k) ==
  {S \in SUBSET mask : /\ Cardinality(S) = Smaller(k, Cardinality(mask))
                       /\ \A o \in S, x \in mask \ S : d[o] <= d[x]}

IsTop(d, H, o) == \A x \in H : d[x] < d[o] \/ (d[x] = d[o] /\ o <= x)
TopOf(d, H)    == CHOOSE o \in H : IsTop(d, H, o)

Updated(d, k, H, o) ==
  IF Cardinality(H) < k THEN H \cup {o}
  ELSE IF d[o] < d[TopOf(d, H)] THEN (H \ {TopOf(d, H)}) \cup {o}
  ELSE H

(* A heap that is not empty has an entry on top.                           *)
LEMMA TopExists ==
  ASSUME NEW H, IsFiniteSet(H), H \subseteq Nat, H # {}, NEW d, \A x \in H : d[x] \in Int
  PROVE  TopOf(d, H) \in H /\ IsTop(d, H, TopOf(d, H))
<1> DEFINE Under(o, x) == d[x] < d[o] \/ (d[x] = d[o] /\ o <= x)
           B(o) == {x \in H : Under(o, x)}
           c(o) == Cardinality(B(o))
           N == Cardinality(H)
           T == {c(o) : o \in H}
<1>1. \A o, x, y \in H : Under(o, o) /\ (Under(o, x) \/ Under(x, o))
                         /\ (Under(o, x) /\ Under(x, y) => Under(o, y))
                         /\ (Under(o, x) /\ Under(x, o) => x = o)
  <2> TAKE o, x, y \in H
  <2>1. d[o] \in Int /\ d[x] \in Int /\ d[y] \in Int /\ o \in Nat /\ x \in Nat /\ y \in Nat
    OBVIOUS
  <2> QED BY <2>1
<1> HIDE DEF Under
<1>2. N \in Nat /\ \A o \in H : IsFiniteSet(B(o)) /\ c(o) \in 0 .. N
  <2>1. N \in Nat
    BY FS_CardinalityType
  <2>2. ASSUME NEW o \in H PROVE IsFiniteSet(B(o)) /\ c(o) \in Nat /\ c(o) <= N
    <3>1. B(o) \in SUBSET H
      OBVIOUS
    <3> HIDE DEF B
    <3> QED BY <3>1, FS_Subset, FS_CardinalityType
  <2> HIDE DEF c, N
  <2> QED BY <2>1, <2>2
<1>3. ASSUME NEW o \in H, NEW x \in H, ~ Under(o, x) PROVE c(o) < c(x)
  <2>1. Under(x, o) /\ x # o
    BY <1>1, <1>3
  <2>2. B(o) \in SUBSET B(x)
    BY <1>1, <2>1
  <2>3. x \in B(x) /\ x \notin B(o)
    BY <1>1, <1>3
  <2>4. IsFiniteSet(B(x)) /\ IsFiniteSet(B(o)) /\ c(o) \in Nat /\ c(x) \in Nat
    BY <1>2
  <2> HIDE DEF B
  <2>5. c(o) <= c(x) /\ c(o) # c(x)
    BY <2>2, <2>3, <2>4, FS_Subset
  <2> HIDE DEF c
  <2> QED BY <2>4, <2>5
<1> HIDE DEF c, N
<1>4. T \subseteq 0 .. N /\ T # {}
  BY <1>2
<1>5. Marco!Max(T) \in T /\ \A m \in T : m <= Marco!Max(T)
  <2> HIDE DEF T
  <2> QED BY <1>2, <1>4, GreatestOf
<1>6. PICK o \in H : c(o) = Marco!Max(T)
  BY <1>5
<1>7. \A x \in H : Under(o, x)
  <2> TAKE x \in H
  <2>1. c(x) <= c(o) /\ c(x) \in 0 .. N /\ c(o) \in 0 .. N
    BY <1>2, <1>5, <1>6
  <2>2. ~ (c(o) < c(x))
    BY <2>1
  <2> QED BY <1>3, <2>2
<1>8. IsTop(d, H, o)
  BY <1>7 DEF IsTop, Under
<1> QED BY <1>8, Zenon DEF TopOf

(* A heap of the nearest that is shown another object stays one.           *)
LEMMA UpdateKeeps ==
  ASSUME NEW T, IsFiniteSet(T), T \subseteq Nat, NEW o \in Nat, o \notin T,
         NEW d, \A x \in T \cup {o} : d[x] \in Int, NEW k \in Nat \ {0}, NEW H \in NearestOf(d, T, k)
  PROVE  Updated(d, k, H, o) \in NearestOf(d, T \cup {o}, k)
<1> DEFINE n == Cardinality(T)
           U == T \cup {o}
           t == TopOf(d, H)
<1>1. /\ H \in SUBSET T /\ Cardinality(H) = Smaller(k, n) /\ \A a \in H, x \in T \ H : d[a] <= d[x]
  BY DEF NearestOf
<1>2. IsFiniteSet(H) /\ Cardinality(H) \in Nat /\ n \in Nat /\ o \notin H
  BY <1>1, FS_Subset, FS_CardinalityType
<1>3. IsFiniteSet(U) /\ Cardinality(U) = n + 1
  BY FS_AddElement
<1> HIDE DEF n
<1>4. CASE Cardinality(H) < k
  <2>1. n = Cardinality(H) /\ n < k
    BY <1>1, <1>2, <1>4 DEF Smaller
  <2>2. H = T
    BY <1>1, <2>1, FS_Subset DEF n
  <2>3. Updated(d, k, H, o) = U
    BY <1>4, <2>2 DEF Updated
  <2>4. Cardinality(U) = Smaller(k, Cardinality(U))
    BY <1>2, <1>3, <2>1 DEF Smaller
  <2> HIDE DEF U
  <2>5. U \in NearestOf(d, U, k)
    BY <2>4 DEF NearestOf
  <2> QED BY <2>3, <2>5 DEF U
<1>5. CASE ~ (Cardinality(H) < k)
  <2>1. Cardinality(H) = k /\ k <= n
    BY <1>1, <1>2, <1>5 DEF Smaller
  <2>2. k = Smaller(k, Cardinality(U))
    BY <1>2, <1>3, <2>1 DEF Smaller
  <2>3. H # {}
    BY <2>1, FS_EmptySet
  <2>4. t \in H /\ \A x \in H : d[x] <= d[t]
    <3>1. H \subseteq Nat /\ \A x \in H : d[x] \in Int
      BY <1>1
    <3>2. t \in H /\ IsTop(d, H, t)
      BY <1>2, <2>3, <3>1, TopExists
    <3> HIDE DEF t
    <3> QED BY <3>1, <3>2 DEF IsTop
  <2>5. CASE d[o] < d[t]
    <3> DEFINE G == (H \ {t}) \cup {o}
    <3>1. Updated(d, k, H, o) = G
      BY <1>5, <2>5 DEF Updated
    <3> HIDE DEF t
    <3>2. Cardinality(G) = k
      <4>1. Cardinality(H \ {t}) = k - 1 /\ IsFiniteSet(H \ {t}) /\ o \notin H \ {t}
        BY <1>2, <2>1, <2>4, FS_RemoveElement
      <4>2. Cardinality(G) = (k - 1) + 1
        BY <4>1, FS_AddElement
      <4> QED BY <4>2
    <3>3. G \in SUBSET U
      BY <1>1
    <3>4. ASSUME NEW a \in G, NEW x \in U \ G PROVE d[a] <= d[x]
      <4>1. d[a] \in Int /\ d[x] \in Int /\ d[t] \in Int /\ d[o] \in Int
        BY <1>1, <2>4, <3>3
      <4>2. x \in T /\ (x = t \/ x \notin H)
        OBVIOUS
      <4>3. d[t] <= d[x]
        BY <1>1, <2>4, <4>1, <4>2
      <4>4. d[a] <= d[t]
        BY <2>4, <2>5, <4>1
      <4> QED BY <4>1, <4>3, <4>4
    <3> HIDE DEF G, U
    <3>5. G \in NearestOf(d, U, k)
      BY <2>2, <3>2, <3>3, <3>4 DEF NearestOf
    <3> QED BY <3>1, <3>5 DEF U
  <2>6. CASE ~ (d[o] < d[t])
    <3>1. Updated(d, k, H, o) = H
      BY <1>5, <2>6 DEF Updated
    <3> HIDE DEF t
    <3>2. ASSUME NEW a \in H, NEW x \in U \ H PROVE d[a] <= d[x]
      <4>1. CASE x \in T
        BY <1>1, <4>1
      <4>2. CASE x = o
        <5>1. d[a] \in Int /\ d[t] \in Int /\ d[o] \in Int /\ d[a] <= d[t]
          BY <1>1, <2>4
        <5> QED BY <2>6, <4>2, <5>1
      <4> QED BY <4>1, <4>2
    <3>3. H \in SUBSET U
      BY <1>1
    <3> HIDE DEF U
    <3>4. H \in NearestOf(d, U, k)
      BY <2>1, <2>2, <3>2, <3>3 DEF NearestOf
    <3> QED BY <3>1, <3>4 DEF U
  <2> QED BY <2>5, <2>6
<1> QED BY <1>4, <1>5


(* The tracker takes objects in the order of their ids.  What it makes of  *)
(* every set of them is a function, which exists, and which holds nearest. *)
Highest(s) == CHOOSE x \in s : \A y \in s : x >= y

TrackStep(d, k, h, s) ==
  IF s = {} THEN {} ELSE Updated(d, k, h[s \ {Highest(s)}], Highest(s))

Tracks(U, d, k, h) == h = [s \in SUBSET U |-> TrackStep(d, k, h, s)]

LEMMA HighestIs ==
  ASSUME NEW b \in Nat, NEW S, S \subseteq 0 .. b, S # {}
  PROVE  Highest(S) \in S
<1>1. Marco!Max(S) \in S
  BY GreatestOf
<1> QED BY <1>1 DEF Marco!Max, Highest

LEMMA LeastSubset ==
  ASSUME NEW U, IsFiniteSet(U), NEW bad \in SUBSET (SUBSET U), bad # {}
  PROVE  \E s \in bad : \A x \in s : s \ {x} \notin bad
<1> DEFINE sizes == {Cardinality(s) : s \in bad}
           n == Marco!Min(sizes)
<1>1. \A s \in SUBSET U : IsFiniteSet(s) /\ Cardinality(s) \in Nat
  BY FS_Subset, FS_CardinalityType
<1>2. sizes \subseteq Nat /\ sizes # {}
  BY <1>1
<1>3. n \in sizes /\ \A k \in sizes : n <= k
  <2> HIDE DEF sizes
  <2> QED BY <1>2, LeastOf
<1> HIDE DEF n
<1>4. PICK s \in bad : Cardinality(s) = n
  BY <1>3
<1>5. ASSUME NEW x \in s, s \ {x} \in bad PROVE FALSE
  <2>1. Cardinality(s \ {x}) = Cardinality(s) - 1 /\ Cardinality(s) \in Nat
    BY <1>1, <1>4, FS_RemoveElement
  <2>2. Cardinality(s \ {x}) \in sizes
    BY <1>5
  <2>3. n <= Cardinality(s \ {x})
    BY <1>3, <2>2
  <2> QED BY <1>4, <2>1, <2>3
<1> QED BY <1>4, <1>5

LEMMA TrackExists ==
  ASSUME NEW b \in Nat, NEW U, U \subseteq 0 .. b, NEW d, NEW k
  PROVE  \E h : Tracks(U, d, k, h)
<1> DEFINE Level(n) == {s \in SUBSET U : Cardinality(s) <= n}
           Built(n) == \E h : h = [s \in Level(n) |-> TrackStep(d, k, h, s)]
           bad == {n \in Nat : ~ Built(n)}
<1>0. IsFiniteSet(U)
  <2>1. IsFiniteSet(0 .. b)
    BY FS_Interval
  <2> QED BY <2>1, FS_Subset
<1>1. \A s \in SUBSET U : IsFiniteSet(s) /\ Cardinality(s) \in Nat
  BY <1>0, FS_Subset, FS_CardinalityType
<1>2. Built(0)
  <2> DEFINE h == [s \in Level(0) |-> {}]
  <2>1. \A s \in Level(0) : s = {}
    <3> TAKE s \in Level(0)
    <3>1. Cardinality(s) = 0
      BY <1>1
    <3> QED BY <1>1, <3>1, FS_EmptySet
  <2> HIDE DEF Level
  <2>2. \A g : \A s \in Level(0) : TrackStep(d, k, g, s) = {}
    BY <2>1 DEF TrackStep
  <2>3. h = [s \in Level(0) |-> TrackStep(d, k, h, s)]
    BY <2>2
  <2> QED BY <2>3
<1>3. ASSUME NEW m \in Nat, Built(m) PROVE Built(m + 1)
  <2>1. PICK g : g = [s \in Level(m) |-> TrackStep(d, k, g, s)]
    BY <1>3
  <2> DEFINE h == [s \in Level(m + 1) |-> TrackStep(d, k, g, s)]
  <2>2. Level(m) \subseteq Level(m + 1)
    BY <1>1
  <2>3. ASSUME NEW s \in Level(m + 1), s # {} PROVE s \ {Highest(s)} \in Level(m)
    <3>1. Highest(s) \in s
      BY <2>3, HighestIs
    <3>2. IsFiniteSet(s) /\ Cardinality(s) \in Nat /\ Cardinality(s) <= m + 1
      BY <1>1
    <3>3. Cardinality(s \ {Highest(s)}) = Cardinality(s) - 1
      BY <3>1, <3>2, FS_RemoveElement
    <3> DEFINE r == s \ {Highest(s)}
    <3>4. r \in SUBSET U /\ Cardinality(r) = Cardinality(s) - 1
      BY <3>3
    <3> HIDE DEF r
    <3>5. r \in Level(m)
      BY <3>2, <3>4
    <3> QED BY <3>5 DEF r
  <2> HIDE DEF Level
  <2>4. \A s \in Level(m) : h[s] = g[s]
    BY <2>1, <2>2
  <2>5. \A s \in Level(m + 1) : TrackStep(d, k, g, s) = TrackStep(d, k, h, s)
    <3> HIDE DEF h
    <3> QED BY <2>3, <2>4 DEF TrackStep
  <2>6. h = [s \in Level(m + 1) |-> TrackStep(d, k, h, s)]
    <3> DEFINE f == [s \in Level(m + 1) |-> TrackStep(d, k, h, s)]
    <3>1. DOMAIN h = DOMAIN f /\ \A s \in Level(m + 1) : h[s] = f[s]
      BY <2>5
    <3>2. h = f
      BY <3>1
    <3> QED BY <3>2
  <2> QED BY <2>6
<1> HIDE DEF Built
<1>4. bad = {}
  <2> SUFFICES ASSUME bad # {} PROVE FALSE
    OBVIOUS
  <2> DEFINE n == Marco!Min(bad)
  <2>1. n \in bad /\ \A m \in bad : n <= m
    <3>1. bad \subseteq Nat
      OBVIOUS
    <3> HIDE DEF bad
    <3> QED BY <3>1, LeastOf
  <2> HIDE DEF n
  <2>2. n # 0
    BY <1>2, <2>1
  <2>3. n - 1 \in Nat /\ n - 1 \notin bad
    BY <2>1, <2>2
  <2>4. Built(n - 1 + 1)
    BY <1>3, <2>3
  <2>5. n - 1 + 1 = n
    BY <2>1
  <2> QED BY <2>1, <2>4, <2>5
<1>5. Cardinality(U) \in Nat
  BY <1>0, FS_CardinalityType
<1>6. Built(Cardinality(U))
  BY <1>4, <1>5
<1>7. Level(Cardinality(U)) = SUBSET U
  <2>1. \A s \in SUBSET U : Cardinality(s) <= Cardinality(U)
    BY <1>0, FS_Subset
  <2> QED BY <2>1
<1> HIDE DEF Level
<1> QED BY <1>6, <1>7 DEF Built, Tracks

LEMMA TracksNearest ==
  ASSUME NEW b \in Nat, NEW U, U \subseteq 0 .. b, NEW d, \A x \in U : d[x] \in Int,
         NEW k \in Nat \ {0}, NEW h, Tracks(U, d, k, h)
  PROVE  h[U] \in NearestOf(d, U, k)
<1> DEFINE bad == {s \in SUBSET U : h[s] \notin NearestOf(d, s, k)}
<1>0. IsFiniteSet(U)
  <2>1. IsFiniteSet(0 .. b)
    BY FS_Interval
  <2> QED BY <2>1, FS_Subset
<1>1. bad = {}
  <2> SUFFICES ASSUME bad # {} PROVE FALSE
    OBVIOUS
  <2>1. PICK s \in bad : \A x \in s : s \ {x} \notin bad
    BY <1>0, LeastSubset
  <2>2. s \in SUBSET U /\ h[s] = TrackStep(d, k, h, s)
    BY DEF Tracks
  <2>3. CASE s = {}
    <3>1. h[s] = {}
      BY <2>2, <2>3 DEF TrackStep
    <3>2. Cardinality({}) = 0
      BY FS_EmptySet
    <3>3. {} \in NearestOf(d, {}, k)
      BY <3>2 DEF NearestOf, Smaller
    <3> QED BY <2>1, <2>3, <3>1, <3>3
  <2>4. CASE s # {}
    <3> DEFINE o == Highest(s)
               T == s \ {o}
               H == h[T]
    <3>1. o \in s
      BY <2>2, <2>4, HighestIs
    <3>2. h[s] = Updated(d, k, H, o)
      BY <2>2, <2>4 DEF TrackStep
    <3> HIDE DEF o
    <3>3. H \in NearestOf(d, T, k)
      BY <2>1, <2>2, <3>1
    <3>4. /\ IsFiniteSet(T) /\ T \subseteq Nat /\ o \in Nat /\ o \notin T /\ T \cup {o} = s
          /\ \A x \in T \cup {o} : d[x] \in Int
      <4>1. s \subseteq 0 .. b /\ \A x \in s : d[x] \in Int
        BY <2>2
      <4>2. T \subseteq s /\ o \notin T /\ T \cup {o} = s
        BY <3>1
      <4>3. IsFiniteSet(T)
        BY <1>0, <2>2, <4>2, FS_Subset
      <4>4. T \subseteq Nat /\ o \in Nat
        BY <3>1, <4>1, <4>2
      <4> QED BY <4>1, <4>2, <4>3, <4>4
    <3> HIDE DEF T, H
    <3>5. Updated(d, k, H, o) \in NearestOf(d, T \cup {o}, k)
      BY <3>3, <3>4, UpdateKeeps
    <3> QED BY <2>1, <3>2, <3>4, <3>5
  <2> QED BY <2>3, <2>4
<1> QED BY <1>1

(* The model's words for it.                                               *)
Ranges(st, q) == st.trace.dist[q]

LEMMA NearestIs ==
  ASSUME NEW q, NEW mask, IsFiniteSet(mask), NEW k \in Nat
  PROVE  Overlay!Nearest(q, mask, k) = NearestOf(Ranges(study, q), mask, k)
<1>1. Cardinality(mask) \in Nat
  BY FS_CardinalityType
<1>2. Overlay!Min({k, Overlay!Cardinality(mask)}) = Smaller(k, Cardinality(mask))
  BY <1>1, SmallerOf, SameCounts DEF Smaller
<1> DEFINE A == Overlay!Nearest(q, mask, k)
           B == NearestOf(Ranges(study, q), mask, k)
<1>3. \A S : S \in A <=> S \in B
  BY <1>2, SameCounts DEF Overlay!Nearest, Overlay!kSubset, Overlay!Dist, Ranges, NearestOf
<1> HIDE DEF A, B
<1>4. A = B
  BY <1>3
<1> QED BY <1>4 DEF A, B

IsTracked(q, mask, k) ==
  \E h : Tracks(mask, Ranges(study, q), k, h) /\ Overlay!TopKTracker(q, mask, k) = h[mask]

LEMMA TrackerIs ==
  ASSUME NEW b \in Nat, NEW q, NEW mask, NEW k, mask \subseteq 0 .. b
  PROVE  IsTracked(q, mask, k)
<1> DEFINE h == CHOOSE g : Tracks(mask, Ranges(study, q), k, g)
<1>1. Tracks(mask, Ranges(study, q), k, h)
  BY TrackExists, Zenon
<1>2. \A H : Overlay!Cardinality(H) = Cardinality(H)
  BY SameCounts
<1>3. Overlay!TopKTracker(q, mask, k) = h[mask]
  BY Zenon DEF Overlay!TopKTracker, Overlay!MapThenFoldSet, Overlay!Update, Overlay!Top, Overlay!Dist,
       Overlay!Max, Overlay!Cardinality, Overlay!IsFiniteSet,
       Tracks, TrackStep, Updated, TopOf, IsTop, Highest, Ranges, Cardinality, IsFiniteSet
<1> QED BY <1>1, <1>3 DEF IsTracked

LEMMA TrackerIsNearest ==
  ASSUME NEW b \in Nat, NEW q, NEW mask, mask \subseteq 0 .. b,
         \A x \in mask : Ranges(study, q)[x] \in Int, NEW k \in Nat \ {0}
  PROVE  Overlay!TopKTracker(q, mask, k) \in NearestOf(Ranges(study, q), mask, k)
<1>1. PICK h : /\ Tracks(mask, Ranges(study, q), k, h)
               /\ Overlay!TopKTracker(q, mask, k) = h[mask]
  <2>1. IsTracked(q, mask, k)
    BY TrackerIs
  <2> QED BY <2>1 DEF IsTracked
<1> DEFINE d == Ranges(study, q)
<1>2. Tracks(mask, d, k, h) /\ \A x \in mask : d[x] \in Int
  BY <1>1
<1> HIDE DEF d
<1>3. h[mask] \in NearestOf(d, mask, k)
  BY <1>2, TracksNearest
<1> QED BY <1>1, <1>3 DEF d


(* A list in which none is nearer than the one before it is in order.      *)
LEMMA Rising ==
  ASSUME NEW n \in Nat, NEW f, \A i \in 1 .. n : f[i] \in Int, \A i \in 2 .. n : f[i - 1] <= f[i]
  PROVE  \A i, j \in 1 .. n : i <= j => f[i] <= f[j]
<1> DEFINE bad == {j \in 1 .. n : \E i \in 1 .. n : i <= j /\ ~ (f[i] <= f[j])}
<1>1. bad = {}
  <2> SUFFICES ASSUME bad # {} PROVE FALSE
    OBVIOUS
  <2> DEFINE j == Marco!Min(bad)
  <2>1. j \in bad /\ \A m \in bad : j <= m
    <3>1. bad \subseteq Nat
      OBVIOUS
    <3> HIDE DEF bad
    <3> QED BY <3>1, LeastOf
  <2> HIDE DEF j
  <2>2. j \in 1 .. n
    BY <2>1
  <2>3. PICK i \in 1 .. n : i <= j /\ ~ (f[i] <= f[j])
    BY <2>1
  <2>4. i # j
    BY <2>2, <2>3
  <2>5. j \in 2 .. n /\ j - 1 \in 1 .. n /\ i <= j - 1 /\ ~ (j <= j - 1)
    BY <2>2, <2>3, <2>4
  <2>6. j - 1 \notin bad
    BY <2>1, <2>5
  <2>7. f[i] <= f[j - 1] /\ f[j - 1] <= f[j]
    BY <2>5, <2>6
  <2>8. f[i] \in Int /\ f[j - 1] \in Int /\ f[j] \in Int
    BY <2>2, <2>3, <2>5
  <2> QED BY <2>3, <2>7, <2>8
<1> QED BY <1>1

(* The lists a heap may be turned into.                                    *)
Listings(d, S) ==
  {s \in [1 .. Cardinality(S) -> S] :
     /\ \A i, j \in 1 .. Cardinality(S) : i # j => s[i] # s[j]
     /\ \A i \in 2 .. Len(s) : d[s[i - 1]] <= d[s[i]]}

LEMMA ResultsAre ==
  ASSUME NEW q, NEW S
  PROVE  Overlay!Results(q, S) = Listings(Ranges(study, q), S)
<1>1. Overlay!Cardinality(S) = Cardinality(S)
  BY SameCounts
<1> DEFINE A == Overlay!Results(q, S)
           B == Listings(Ranges(study, q), S)
<1>2. \A s : s \in A <=> s \in B
  BY <1>1 DEF Overlay!Results, Overlay!SetToSeqs, Listings, Overlay!Dist, Ranges
<1> HIDE DEF A, B
<1>3. A = B
  BY <1>2
<1> QED BY <1>3 DEF A, B

LEMMA ListingIs ==
  ASSUME NEW S, IsFiniteSet(S), NEW d, \A x \in S : d[x] \in Int, NEW s \in Listings(d, S)
  PROVE  /\ s \in Seq(S) /\ Len(s) = Cardinality(S) /\ DOMAIN s = 1 .. Cardinality(S)
         /\ \A i, j \in 1 .. Cardinality(S) : s[i] = s[j] => i = j
         /\ \A x \in S : \E i \in 1 .. Cardinality(S) : s[i] = x
         /\ \A i, j \in 1 .. Cardinality(S) : i <= j => d[s[i]] <= d[s[j]]
<1> DEFINE n == Cardinality(S)
           D == 1 .. n
<1>1. /\ s \in [D -> S] /\ (\A i, j \in D : i # j => s[i] # s[j])
      /\ \A i \in 2 .. Len(s) : d[s[i - 1]] <= d[s[i]]
  BY DEF Listings
<1>2. n \in Nat
  BY FS_CardinalityType
<1>3. IsFiniteSet(D) /\ Cardinality(D) = n
  BY <1>2, CountUpTo
<1>4. s \in Seq(S) /\ Len(s) = n
  <2> HIDE DEF n
  <2> QED BY <1>1, <1>2, FunctionIsSequence
<1>5. \A x \in S : \E i \in D : s[i] = x
  <2> HIDE DEF D
  <2>1. s \in Injection(D, S)
    BY <1>1 DEF Injection, IsInjective
  <2>2. s \in Surjection(D, S)
    BY <1>3, <2>1, FS_Injection DEF n
  <2> QED BY <2>2 DEF Surjection
<1>6. \A i, j \in D : i <= j => d[s[i]] <= d[s[j]]
  <2> DEFINE f == [i \in D |-> d[s[i]]]
  <2>1. (\A i \in D : f[i] = d[s[i]]) /\ \A i \in D : f[i] \in Int
    BY <1>1
  <2>2. \A i \in 2 .. n : i \in D /\ i - 1 \in D
    BY <1>2
  <2>3. \A i \in 2 .. n : f[i - 1] <= f[i]
    BY <1>1, <1>4, <2>1, <2>2
  <2> HIDE DEF f, n
  <2>4. \A i, j \in D : i <= j => f[i] <= f[j]
    BY <1>2, <2>1, <2>3, Rising
  <2> QED BY <2>1, <2>4
<1> QED BY <1>1, <1>4, <1>5, <1>6

LEMMA PrefixItems ==
  ASSUME NEW T, NEW s \in Seq(T), NEW k \in Nat
  PROVE  /\ Overlay!Items(Overlay!Prefix(s, k)) = {s[i] : i \in 1 .. Smaller(k, Len(s))}
         /\ Smaller(k, Len(s)) \in Nat
         /\ Len(s) <= k => Overlay!Items(Overlay!Prefix(s, k)) = Overlay!Items(s)
<1> DEFINE m == IF k <= Len(s) THEN k ELSE Len(s)
           p == Overlay!Prefix(s, k)
<1>1. p = [i \in 1 .. m |-> s[i]] /\ m \in Nat /\ m <= k /\ m <= Len(s) /\ Len(s) \in Nat
  BY PrefixIs
<1>2. Len(s) <= k => m = Len(s)
  BY <1>1
<1>3. Smaller(k, Len(s)) = m
  BY DEF Smaller
<1> HIDE DEF m, p
<1>4. Overlay!Items(p) = {s[i] : i \in 1 .. m}
  BY <1>1 DEF Overlay!Items
<1>5. Overlay!Items(s) = {s[i] : i \in 1 .. Len(s)}
  BY DEF Overlay!Items
<1> QED BY <1>1, <1>2, <1>3, <1>4, <1>5 DEF p

(* The first of the nearest, in order, are nearest.                        *)
LEMMA FirstAreNearest ==
  ASSUME NEW mask, IsFiniteSet(mask), NEW d, \A x \in mask : d[x] \in Int,
         NEW n \in Nat, NEW k \in Nat, k <= n, NEW S \in NearestOf(d, mask, n), NEW s \in Listings(d, S)
  PROVE  Overlay!Items(Overlay!Prefix(s, k)) \in NearestOf(d, mask, k)
<1> DEFINE c == Cardinality(S)
           e == Smaller(k, c)
           F == {s[i] : i \in 1 .. e}
<1>1. S \in SUBSET mask /\ c = Smaller(n, Cardinality(mask)) /\ \A o \in S, x \in mask \ S : d[o] <= d[x]
  BY DEF NearestOf
<1>2. IsFiniteSet(S) /\ c \in Nat /\ Cardinality(mask) \in Nat
  BY <1>1, FS_Subset, FS_CardinalityType
<1>3. /\ s \in Seq(S) /\ Len(s) = c /\ (\A i \in 1 .. c : s[i] \in S)
      /\ \A i, j \in 1 .. c : s[i] = s[j] => i = j
      /\ \A x \in S : \E i \in 1 .. c : s[i] = x
      /\ \A i, j \in 1 .. c : i <= j => d[s[i]] <= d[s[j]]
  BY <1>1, <1>2, ListingIs
<1>4. Overlay!Items(Overlay!Prefix(s, k)) = F
  BY <1>3, PrefixItems
<1> HIDE DEF c
<1>5. e \in Nat /\ e <= c /\ e = Smaller(k, Cardinality(mask))
  BY <1>1, <1>2 DEF Smaller
<1> HIDE DEF e
<1>6. \A i \in 1 .. e : i \in 1 .. c
  BY <1>2, <1>5
<1>7. F \in SUBSET mask
  BY <1>1, <1>3, <1>6
<1>8. Cardinality(F) = e
  <2> DEFINE D == 1 .. e
  <2>1. IsFiniteSet(D) /\ Cardinality(D) = e
    BY <1>5, CountUpTo
  <2>2. /\ (\A i \in D : s[i] \in F) /\ (\A i, j \in D : s[i] = s[j] => i = j)
        /\ \A x \in F : \E i \in D : s[i] = x
    BY <1>3, <1>6
  <2> HIDE DEF D, F
  <2> QED BY <2>1, <2>2, SameNumber
<1>9. ASSUME NEW o \in F, NEW x \in mask \ F PROVE d[o] <= d[x]
  <2>1. PICK i \in 1 .. e : o = s[i]
    OBVIOUS
  <2>2. CASE x \in S
    <3>1. PICK j \in 1 .. c : x = s[j]
      BY <1>3, <2>2
    <3>2. j \notin 1 .. e
      BY <1>9, <3>1
    <3>3. i <= j
      BY <1>2, <1>5, <2>1, <3>1, <3>2
    <3> QED BY <1>3, <1>6, <2>1, <3>1, <3>3
  <2>3. CASE x \notin S
    BY <1>1, <1>3, <1>6, <2>1, <2>3
  <2> QED BY <2>2, <2>3
<1> HIDE DEF F
<1>10. F \in NearestOf(d, mask, k)
  BY <1>5, <1>7, <1>8, <1>9 DEF NearestOf
<1> QED BY <1>4, <1>10

(* Without ties there is one such set.                                     *)
LEMMA OneNearest ==
  ASSUME NEW mask, IsFiniteSet(mask), NEW d, \A x \in mask : d[x] \in Int,
         \A x, y \in mask : d[x] = d[y] => x = y,
         NEW k \in Nat, NEW A \in NearestOf(d, mask, k), NEW B \in NearestOf(d, mask, k)
  PROVE  A = B
<1>1. /\ A \in SUBSET mask /\ B \in SUBSET mask /\ Cardinality(A) = Cardinality(B)
      /\ \A o \in A, x \in mask \ A : d[o] <= d[x]
      /\ \A o \in B, x \in mask \ B : d[o] <= d[x]
  BY DEF NearestOf
<1>2. IsFiniteSet(A) /\ IsFiniteSet(B)
  BY <1>1, FS_Subset
<1>3. A \subseteq B \/ B \subseteq A
  <2> SUFFICES ASSUME NEW a \in A \ B, NEW b \in B \ A PROVE FALSE
    OBVIOUS
  <2>1. d[a] <= d[b] /\ d[b] <= d[a] /\ d[a] \in Int /\ d[b] \in Int
    BY <1>1
  <2>2. a = b
    BY <1>1, <2>1
  <2> QED BY <2>2
<1> QED BY <1>1, <1>2, <1>3, FS_Subset

(* What is left of a ranking, and of its first, is what the mask shows.    *)
LEMMA VisibleItems ==
  ASSUME NEW T, NEW s \in Seq(T), NEW mask
  PROVE  /\ Shown(s, mask) \subseteq 1 .. Len(s) /\ Cardinality(Shown(s, mask)) \in Nat
         /\ Overlay!Visible(s, mask) \in Seq(T)
         /\ Len(Overlay!Visible(s, mask)) = Cardinality(Shown(s, mask))
         /\ \A i \in DOMAIN Overlay!Visible(s, mask) : Overlay!Visible(s, mask)[i] \in mask
         /\ Overlay!Items(Overlay!Visible(s, mask)) = {s[i] : i \in Shown(s, mask)}
<1> DEFINE S == Shown(s, mask)
           n == Cardinality(S)
           v == Overlay!Visible(s, mask)
           list == ListUp(S)
<1>1. S \subseteq 1 .. Len(s) /\ Len(s) \in Nat /\ \A i \in S : s[i] \in mask /\ s[i] \in T
  BY DEF Shown
<1>2. v = [i \in 1 .. n |-> s[list[i]]]
  BY VisibleIs
<1> HIDE DEF S
<1>3. /\ n \in Nat /\ (\A i \in 1 .. n : list[i] \in S /\ RankIn(S, list[i]) = i)
      /\ (\A x \in S : RankIn(S, x) \in 1 .. n)
      /\ \A x, y \in S : RankIn(S, x) = RankIn(S, y) => x = y
  BY <1>1, Ranks
<1> HIDE DEF n, v, list
<1>4. v \in [1 .. n -> T]
  BY <1>1, <1>2, <1>3
<1>5. v \in Seq(T) /\ Len(v) = n
  BY <1>3, <1>4, FunctionIsSequence
<1>6. \A x \in S : \E i \in 1 .. n : list[i] = x
  BY <1>3
<1>7. Overlay!Items(v) = {v[i] : i \in 1 .. n}
  BY <1>4 DEF Overlay!Items
<1>8. {v[i] : i \in 1 .. n} = {s[i] : i \in S}
  BY <1>2, <1>3, <1>6
<1>9. \A i \in DOMAIN v : v[i] \in mask
  BY <1>1, <1>2, <1>3
<1> QED BY <1>1, <1>3, <1>5, <1>7, <1>8, <1>9 DEF v, n, S

LEMMA FilteredItems ==
  ASSUME NEW T, NEW s \in Seq(T), NEW mask, NEW k \in Nat,
         NEW post, post = Overlay!Visible(Overlay!Prefix(s, k), mask)
  PROVE  /\ post \in Seq(T) /\ (\A i \in DOMAIN post : post[i] \in mask)
         /\ Overlay!Items(post) \subseteq Overlay!Items(Overlay!Prefix(s, k))
<1> DEFINE m == IF k <= Len(s) THEN k ELSE Len(s)
           p == Overlay!Prefix(s, k)
<1>1. p = [i \in 1 .. m |-> s[i]] /\ m \in Nat /\ m <= Len(s)
  BY PrefixIs
<1> HIDE DEF p, m
<1>2. p \in [1 .. m -> T]
  BY <1>1
<1>3. p \in Seq(T) /\ Len(p) = m
  BY <1>1, <1>2, FunctionIsSequence
<1>4. post = Overlay!Visible(p, mask)
  BY DEF p
<1>5. /\ post \in Seq(T) /\ \A i \in DOMAIN post : post[i] \in mask
      /\ Overlay!Items(post) = {p[i] : i \in Shown(p, mask)} /\ Shown(p, mask) \subseteq 1 .. Len(p)
  BY <1>3, <1>4, VisibleItems
<1>6. Overlay!Items(p) = {p[i] : i \in 1 .. m}
  BY <1>2 DEF Overlay!Items
<1> QED BY <1>3, <1>5, <1>6 DEF p

(* The answers behind a mask show nothing hidden, so the sum of what they  *)
(* show of it is zero.                                                     *)
OutsideOf(st, q, mask, k) ==
  Cardinality({i \in DOMAIN PostOf(st, q, mask, k) : PostOf(st, q, mask, k)[i] \notin mask})

One(s) == CHOOSE x \in s : TRUE

AddsUp(st, mask, k, h) ==
  h = [s \in SUBSET Asked(st) |->
         IF s = {} THEN 0 ELSE OutsideOf(st, One(s), mask, k) + h[s \ {One(s)}]]

ViolatesAs(sel, mask, k) ==
  \E h : AddsUp(study, mask, k, h) /\ Overlay!EvaluateTrace(sel, mask, k).violations = h[Asked(study)]

LEMMA NoneOutside ==
  ASSUME Overlay!StudiesAssumption, NEW st \in Studies, NEW q \in Asked(st), NEW mask, NEW k \in Nat
  PROVE  OutsideOf(st, q, mask, k) = 0
<1> DEFINE p == st.trace.pred[q]
           post == PostOf(st, q, mask, k)
<1>1. p \in Seq(Int) /\ post = Overlay!Visible(Overlay!Prefix(p, k), mask)
  BY StudyIs DEF PostOf
<1> HIDE DEF p, post
<1>2. \A i \in DOMAIN post : post[i] \in mask
  BY <1>1, FilteredItems
<1>3. {i \in DOMAIN post : post[i] \notin mask} = {}
  BY <1>2
<1> QED BY <1>3, FS_EmptySet DEF OutsideOf, post

LEMMA ZeroAddsUp ==
  ASSUME Overlay!StudiesAssumption, NEW st \in Studies, NEW mask, NEW k \in Nat
  PROVE  \E h : AddsUp(st, mask, k, h)
<1> DEFINE U == Asked(st)
           h == [s \in SUBSET U |-> 0]
           f(s) == IF s = {} THEN 0 ELSE OutsideOf(st, One(s), mask, k) + h[s \ {One(s)}]
<1>1. ASSUME NEW s \in SUBSET U PROVE f(s) = 0
  <2>1. CASE s = {}
    BY <2>1
  <2>2. CASE s # {}
    <3>1. One(s) \in s
      BY <2>2 DEF One
    <3>2. OutsideOf(st, One(s), mask, k) = 0 /\ h[s \ {One(s)}] = 0
      BY <3>1, NoneOutside
    <3> QED BY <2>2, <3>2
  <2> QED BY <2>1, <2>2
<1>2. [s \in SUBSET U |-> f(s)] = h
  <2> HIDE DEF f
  <2> QED BY <1>1
<1> QED BY <1>2 DEF AddsUp

LEMMA AddsUpToZero ==
  ASSUME Overlay!StudiesAssumption, NEW st \in Studies, NEW mask, NEW k \in Nat,
         NEW h, AddsUp(st, mask, k, h)
  PROVE  h[Asked(st)] = 0
<1> DEFINE U == Asked(st)
           bad == {s \in SUBSET U : h[s] # 0}
<1>1. IsFiniteSet(U)
  BY StudyIs
<1>2. bad = {}
  <2> SUFFICES ASSUME bad # {} PROVE FALSE
    OBVIOUS
  <2>1. PICK s \in bad : \A x \in s : s \ {x} \notin bad
    <3> HIDE DEF U
    <3>1. bad \in SUBSET (SUBSET U)
      OBVIOUS
    <3> HIDE DEF bad
    <3> QED BY <1>1, <3>1, LeastSubset
  <2>2. h[s] = IF s = {} THEN 0 ELSE OutsideOf(st, One(s), mask, k) + h[s \ {One(s)}]
    BY DEF AddsUp
  <2>3. s # {}
    BY <2>2
  <2>4. One(s) \in s
    BY <2>3 DEF One
  <2>5. h[s \ {One(s)}] = 0
    BY <2>1, <2>4
  <2>6. OutsideOf(st, One(s), mask, k) = 0
    BY <2>4, NoneOutside
  <2> QED BY <2>1, <2>2, <2>3, <2>5, <2>6
<1> QED BY <1>2

LEMMA ViolationsAre ==
  ASSUME Overlay!StudiesAssumption, study \in Studies, NEW sel, NEW mask, NEW k \in Nat
  PROVE  ViolatesAs(sel, mask, k)
<1> DEFINE h == CHOOSE g : AddsUp(study, mask, k, g)
<1>1. AddsUp(study, mask, k, h)
  BY ZeroAddsUp, Zenon
<1>2. \A q : Overlay!PostFilterResults(q, mask, k) = PostOf(study, q, mask, k)
  BY DEF Overlay!PostFilterResults, PostOf
<1> DEFINE outside(q) == Overlay!Cardinality({i \in DOMAIN Overlay!PostFilterResults(q, mask, k) :
                                   Overlay!PostFilterResults(q, mask, k)[i] \notin mask})
<1>3. Overlay!EvaluateTrace(sel, mask, k).violations = Overlay!MapThenSumSet(outside, Overlay!Queries)
  BY DEF Overlay!EvaluateTrace
<1>4. Overlay!MapThenSumSet(outside, Overlay!Queries) = h[Asked(study)]
  BY Zenon DEF Overlay!MapThenSumSet, Overlay!MapThenFoldSet, Overlay!Queries, Asked, AddsUp, One,
       OutsideOf, Overlay!PostFilterResults, PostOf, Overlay!Cardinality, Overlay!IsFiniteSet,
       Cardinality, IsFiniteSet
<1> QED BY <1>1, <1>3, <1>4 DEF ViolatesAs

(* What a row of metrics counts, in order.                                 *)
AllFinds(st, k)      == {q \in Asked(st) : Finds(st, q, Overlay!Prefix(st.trace.pred[q], k))}
Short(st, mask, k)   == {q \in Asked(st) : Len(PostOf(st, q, mask, k)) < k}

Ordered(m) ==
  /\ m.violations = 0
  /\ m.post_filter <= m.unrestricted /\ m.post_filter <= m.authorized
  /\ m.authorized - m.post_filter <= m.affected /\ m.affected <= m.underfill

LEMMA RowIsOrdered ==
  ASSUME Overlay!StudiesAssumption, study \in Studies, NEW sel, NEW mask, NEW k \in Nat
  PROVE  Ordered(Overlay!EvaluateTrace(sel, mask, k))
<1> DEFINE m == Overlay!EvaluateTrace(sel, mask, k)
           A == AllFinds(study, k)
           P == PostFinds(study, mask, k)
           C == CandFinds(study, mask, k)
           D == OnlyCand(study, mask, k)
           T == Touched(study, mask, k)
           S == Short(study, mask, k)
<1>1. /\ m.unrestricted = Cardinality(A) /\ m.post_filter = Cardinality(P) /\ m.authorized = Cardinality(C)
      /\ m.affected = Cardinality(T) /\ m.underfill = Cardinality(S)
  BY SameCounts
     DEF Overlay!EvaluateTrace, Overlay!PostFilterResults, Overlay!CandidateResults, Overlay!Hit,
         Overlay!Queries, AllFinds, Short, PostFinds, CandFinds, Touched, Finds, PostOf, CandOf, Asked
<1>2. m.violations = 0
  <2>1. ViolatesAs(sel, mask, k)
    BY ViolationsAre
  <2> QED BY <2>1, AddsUpToZero DEF ViolatesAs
<1>3. /\ P \subseteq C /\ D \subseteq T
      /\ \A q \in T : q \in Asked(study) /\ ~ (Len(PostOf(study, q, mask, k)) >= k)
  BY FilteringHelps
<1>4. T \subseteq S
  BY <1>3, FilteredLength DEF Short
<1>5. P \subseteq A
  <2>1. ASSUME NEW q \in Asked(study)
        PROVE  Overlay!Items(PostOf(study, q, mask, k))
                 \subseteq Overlay!Items(Overlay!Prefix(study.trace.pred[q], k))
    <3> DEFINE p == study.trace.pred[q]
    <3>1. p \in Seq(Int)
      BY StudyIs
    <3>2. PostOf(study, q, mask, k) = Overlay!Visible(Overlay!Prefix(p, k), mask)
      BY DEF PostOf
    <3> HIDE DEF p
    <3>3. Overlay!Items(PostOf(study, q, mask, k)) \subseteq Overlay!Items(Overlay!Prefix(p, k))
      BY <3>1, <3>2, FilteredItems
    <3> QED BY <3>3 DEF p
  <2> QED BY <2>1 DEF PostFinds, AllFinds, Finds
<1>6. /\ A \in SUBSET Asked(study) /\ P \in SUBSET Asked(study) /\ C \in SUBSET Asked(study)
      /\ T \in SUBSET Asked(study) /\ S \in SUBSET Asked(study) /\ D = C \ P
  BY DEF AllFinds, PostFinds, CandFinds, Touched, Short, OnlyCand
<1> HIDE DEF m, A, P, C, D, T, S
<1>7. IsFiniteSet(A) /\ IsFiniteSet(C) /\ IsFiniteSet(T) /\ IsFiniteSet(S)
  BY <1>6, StudyIs, FS_Subset
<1>8. Cardinality(P) <= Cardinality(A) /\ Cardinality(P) <= Cardinality(C)
      /\ Cardinality(D) <= Cardinality(T) /\ Cardinality(T) <= Cardinality(S)
  BY <1>3, <1>4, <1>5, <1>7, FS_Subset
<1>9. Cardinality(D) = Cardinality(C) - Cardinality(P)
  BY <1>3, <1>6, <1>7, DifferenceCounts
<1> QED BY <1>1, <1>2, <1>8, <1>9 DEF Ordered, m

(* What a study holds for the calibration.                                 *)
Base(st) == 0 .. st.trace.num_base - 1

LEMMA RangesAre ==
  ASSUME Overlay!StudiesAssumption, NEW st \in Studies
  PROVE  /\ st.mode \in {"uniform_random", "clustered_acl", "skewed_acl"}
         /\ st.trace.num_base \in Nat /\ IsFiniteSet(st.ks)
         /\ \A q \in Asked(st), o \in Base(st) : Ranges(st, q)[o] \in Int
<1>1. /\ st.mode \in {"uniform_random", "clustered_acl", "skewed_acl"}
      /\ st.trace.num_base \in Nat /\ Overlay!IsFiniteSet(st.ks)
      /\ \A q \in DOMAIN st.trace.pred : st.trace.dist[q] \in [0 .. st.trace.num_base - 1 -> Int]
  BY DEF Overlay!StudiesAssumption
<1>2. IsFiniteSet(st.ks)
  BY <1>1, SameCounts
<1>3. \A q \in Asked(st), o \in Base(st) : Ranges(st, q)[o] \in Int
  BY <1>1 DEF Asked, Base, Ranges
<1> QED BY <1>1, <1>2, <1>3

LEMMA MaskIs ==
  ASSUME Overlay!StudiesAssumption, NEW st \in Studies, NEW mask, mask \subseteq Base(st)
  PROVE  /\ mask \subseteq 0 .. st.trace.num_base /\ st.trace.num_base \in Nat
         /\ IsFiniteSet(mask) /\ Cardinality(mask) \in Nat
         /\ \A q \in Asked(st), o \in mask : Ranges(st, q)[o] \in Int
<1> DEFINE n == st.trace.num_base
<1>1. n \in Nat /\ mask \subseteq 0 .. n - 1 /\ \A q \in Asked(st), o \in mask : Ranges(st, q)[o] \in Int
  BY RangesAre DEF Base
<1> HIDE DEF n
<1>2. mask \in SUBSET (0 .. n)
  BY <1>1
<1>3. IsFiniteSet(0 .. n)
  BY <1>1, FS_Interval
<1>4. IsFiniteSet(mask) /\ Cardinality(mask) \in Nat
  BY <1>2, <1>3, FS_Subset, FS_CardinalityType
<1> QED BY <1>1, <1>2, <1>4 DEF n

(* The full answer lists nearest visible objects.                          *)
FullFor(st, q, mask, n, full) ==
  \E S \in NearestOf(Ranges(st, q), mask, n) : full \in Listings(Ranges(st, q), S)

LEMMA FullIs ==
  ASSUME Overlay!StudiesAssumption, study \in Studies, NEW q \in Asked(study),
         NEW mask, mask \subseteq Base(study), NEW n \in Nat \ {0}, NEW full \in Overlay!FullTopK(q, mask, n)
  PROVE  FullFor(study, q, mask, n, full)
<1>1. /\ mask \subseteq 0 .. study.trace.num_base /\ study.trace.num_base \in Nat
      /\ IsFiniteSet(mask) /\ \A o \in mask : Ranges(study, q)[o] \in Int
  BY MaskIs
<1>2. PICK S \in {Overlay!TopKTracker(q, mask, n)} \cup Overlay!Nearest(q, mask, n) :
        full \in Overlay!Results(q, S)
  BY DEF Overlay!FullTopK
<1>3. Overlay!TopKTracker(q, mask, n) \in NearestOf(Ranges(study, q), mask, n)
  BY <1>1, TrackerIsNearest
<1>4. Overlay!Nearest(q, mask, n) = NearestOf(Ranges(study, q), mask, n)
  BY <1>1, NearestIs
<1>5. S \in NearestOf(Ranges(study, q), mask, n)
  BY <1>2, <1>3, <1>4
<1>6. full \in Listings(Ranges(study, q), S)
  BY <1>2, ResultsAre
<1> QED BY <1>5, <1>6 DEF FullFor

(* A trace of everything, in order, has the nearest visible objects first. *)
Ascends(st, q) ==
  /\ Overlay!Items(st.trace.pred[q]) = Base(st)
  /\ \A i \in 2 .. Len(st.trace.pred[q]) :
       Ranges(st, q)[st.trace.pred[q][i - 1]] < Ranges(st, q)[st.trace.pred[q][i]]

LEMMA CandNearest ==
  ASSUME NEW p \in Seq(Int), NEW mask, mask \subseteq Overlay!Items(p), NEW d,
         \A i \in 1 .. Len(p) : d[p[i]] \in Int, \A i \in 2 .. Len(p) : d[p[i - 1]] < d[p[i]],
         NEW k \in Nat
  PROVE  /\ Overlay!Items(Overlay!Prefix(Overlay!Visible(p, mask), k)) \in NearestOf(d, mask, k)
         /\ \A x, y \in mask : d[x] = d[y] => x = y
<1> DEFINE L == Len(p)
           S == Shown(p, mask)
           m == Cardinality(S)
           list == ListUp(S)
           v == Overlay!Visible(p, mask)
           e == Smaller(k, m)
           F == {v[i] : i \in 1 .. e}
<1>1. L \in Nat /\ (\A i \in 1 .. L : d[p[i]] \in Int) /\ (\A i \in 2 .. L : d[p[i - 1]] < d[p[i]])
      /\ \A x \in mask : \E i \in 1 .. L : p[i] = x
  BY DEF Overlay!Items
<1>2. S \subseteq 1 .. L /\ (\A i \in S : p[i] \in mask) /\ \A i \in 1 .. L : p[i] \in mask => i \in S
  BY DEF Shown
<1>3. \A i \in 1 .. m : v[i] = p[list[i]]
  BY VisibleIs
<1>4. Overlay!Items(Overlay!Prefix(v, k)) = F
  <2> HIDE DEF F
  <2>1. v \in Seq(Int) /\ Len(v) = m
    BY VisibleItems
  <2> HIDE DEF v, m
  <2> QED BY <2>1, PrefixItems DEF F
<1> HIDE DEF L, S, v
<1>5. /\ IsFiniteSet(S) /\ m \in Nat /\ (\A i \in 1 .. m : list[i] \in S /\ RankIn(S, list[i]) = i)
      /\ (\A x \in S : RankIn(S, x) \in 1 .. m)
      /\ (\A x, y \in S : x < y => RankIn(S, x) < RankIn(S, y))
      /\ \A x, y \in S : RankIn(S, x) = RankIn(S, y) => x = y
  BY <1>1, <1>2, Ranks
<1> HIDE DEF list, m
<1>6. \A i, j \in 1 .. L : i <= j => d[p[i]] <= d[p[j]]
  <2> DEFINE f == [i \in 1 .. L |-> d[p[i]]]
  <2>1. \A i \in 2 .. L : i \in 1 .. L /\ i - 1 \in 1 .. L
    BY <1>1
  <2>2. (\A i \in 1 .. L : f[i] = d[p[i]] /\ f[i] \in Int) /\ \A i \in 2 .. L : f[i - 1] <= f[i]
    BY <1>1, <2>1
  <2> HIDE DEF f
  <2>3. \A i, j \in 1 .. L : i <= j => f[i] <= f[j]
    BY <1>1, <2>2, Rising
  <2> QED BY <2>2, <2>3
<1>7. ASSUME NEW i \in 1 .. L, NEW j \in 1 .. L, i < j PROVE d[p[i]] < d[p[j]]
  <2>1. j \in 2 .. L /\ j - 1 \in 1 .. L /\ i <= j - 1
    BY <1>1, <1>7
  <2>2. d[p[i]] <= d[p[j - 1]] /\ d[p[j - 1]] < d[p[j]]
    BY <1>1, <1>6, <2>1
  <2>3. d[p[i]] \in Int /\ d[p[j - 1]] \in Int /\ d[p[j]] \in Int
    BY <1>1, <2>1
  <2> QED BY <2>2, <2>3
<1>8. \A i, j \in 1 .. L : d[p[i]] = d[p[j]] => i = j
  <2> SUFFICES ASSUME NEW i \in 1 .. L, NEW j \in 1 .. L, d[p[i]] = d[p[j]], i # j PROVE FALSE
    OBVIOUS
  <2>1. i < j \/ j < i
    BY <1>1
  <2>2. d[p[i]] \in Int /\ d[p[j]] \in Int
    BY <1>1
  <2> QED BY <1>7, <2>1, <2>2
<1>9. \A x, y \in mask : d[x] = d[y] => x = y
  BY <1>1, <1>8
<1>10. Cardinality(mask) = m
  <2>1. \A x, y \in S : p[x] = p[y] => x = y
    BY <1>2, <1>8
  <2>2. \A y \in mask : \E x \in S : p[x] = y
    BY <1>1, <1>2
  <2> QED BY <1>2, <1>5, <2>1, <2>2, SameNumber DEF m
<1>11. e \in Nat /\ e <= m /\ e = Smaller(k, Cardinality(mask)) /\ \A i \in 1 .. e : i \in 1 .. m
  BY <1>5, <1>10 DEF Smaller
<1> HIDE DEF e
<1>12. (\A i \in 1 .. e : v[i] = p[list[i]] /\ list[i] \in S) /\ F \in SUBSET mask
  <2>1. \A i \in 1 .. e : v[i] = p[list[i]] /\ list[i] \in S
    <3> TAKE i \in 1 .. e
    <3>1. i \in 1 .. m
      BY <1>11
    <3> QED BY <1>3, <1>5, <3>1
  <2>2. \A i \in 1 .. e : v[i] \in mask
    BY <1>2, <2>1
  <2> QED BY <2>1, <2>2
<1>13. Cardinality(F) = e
  <2> DEFINE D == 1 .. e
  <2>1. IsFiniteSet(D) /\ Cardinality(D) = e
    BY <1>11, CountUpTo
  <2>2. \A i, j \in D : v[i] = v[j] => i = j
    <3> TAKE i, j \in D
    <3>1. v[i] = p[list[i]] /\ v[j] = p[list[j]] /\ list[i] \in 1 .. L /\ list[j] \in 1 .. L
      BY <1>2, <1>12
    <3>2. v[i] = v[j] => list[i] = list[j]
      BY <1>8, <3>1
    <3>3. RankIn(S, list[i]) = i /\ RankIn(S, list[j]) = j
      BY <1>5, <1>11
    <3> QED BY <3>2, <3>3
  <2>3. (\A i \in D : v[i] \in F) /\ \A x \in F : \E i \in D : v[i] = x
    OBVIOUS
  <2> HIDE DEF D, F
  <2> QED BY <2>1, <2>2, <2>3, SameNumber
<1>14. ASSUME NEW o \in F, NEW x \in mask \ F PROVE d[o] <= d[x]
  <2>1. PICK i \in 1 .. e : o = v[i]
    OBVIOUS
  <2>2. PICK j \in S : x = p[j]
    BY <1>1, <1>2
  <2> DEFINE r == RankIn(S, j)
  <2>3. r \in 1 .. m /\ list[r] = j
    BY <1>5
  <2>4. r \notin 1 .. e
    BY <1>3, <1>14, <2>2, <2>3
  <2>5. ~ (r < i) /\ i \in 1 .. m
    BY <1>5, <1>11, <2>3, <2>4
  <2>6. list[i] \in S /\ RankIn(S, list[i]) = i
    BY <1>5, <2>5
  <2>7. ~ (j < list[i])
    BY <1>5, <2>5, <2>6
  <2>8. list[i] \in 1 .. L /\ j \in 1 .. L /\ list[i] <= j
    BY <1>1, <1>2, <2>6, <2>7
  <2> QED BY <1>6, <1>12, <2>1, <2>2, <2>8
<1> HIDE DEF F
<1>15. F \in NearestOf(d, mask, k)
  BY <1>11, <1>12, <1>13, <1>14 DEF NearestOf
<1> QED BY <1>4, <1>9, <1>15 DEF v

(* The best object, if it has no twin, is the first of the full answer.    *)
LEMMA BestIsFirst ==
  ASSUME NEW mask, IsFiniteSet(mask), NEW d, \A x \in mask : d[x] \in Int,
         NEW n \in Nat, NEW k \in Nat \ {0}, k <= n,
         NEW S \in NearestOf(d, mask, n), NEW s \in Listings(d, S),
         NEW g \in mask, \A x \in mask \ {g} : d[g] < d[x]
  PROVE  g \in Overlay!Items(Overlay!Prefix(s, k))
<1> DEFINE F == Overlay!Items(Overlay!Prefix(s, k))
<1>1. F \in NearestOf(d, mask, k)
  BY FirstAreNearest
<1> HIDE DEF F
<1>2. F \in SUBSET mask /\ Cardinality(F) = Smaller(k, Cardinality(mask))
      /\ \A o \in F, x \in mask \ F : d[o] <= d[x]
  BY <1>1 DEF NearestOf
<1>3. Cardinality(mask) \in Nat /\ Cardinality(mask) # 0
  BY FS_CardinalityType, FS_EmptySet
<1>4. F # {}
  <2>1. Cardinality(F) # 0
    BY <1>2, <1>3 DEF Smaller
  <2> QED BY <2>1, FS_EmptySet
<1>5. PICK o \in F : TRUE
  BY <1>4
<1>6. CASE g \notin F
  <2>1. d[o] <= d[g] /\ d[g] < d[o] /\ d[o] \in Int /\ d[g] \in Int
    BY <1>2, <1>5, <1>6
  <2> QED BY <2>1
<1> QED BY <1>6 DEF F

LEMMA GreatestIn ==
  ASSUME NEW S, IsFiniteSet(S), S \subseteq Nat, S # {}
  PROVE  Overlay!Max(S) \in S /\ \A x \in S : x <= Overlay!Max(S)
<1> DEFINE d == [x \in S |-> x]
<1>1. \A x \in S : d[x] = x /\ d[x] \in Int
  OBVIOUS
<1> HIDE DEF d
<1>2. PICK o \in S : IsTop(d, S, o)
  BY <1>1, TopExists
<1>3. \A x \in S : o >= x
  <2> TAKE x \in S
  <2>1. d[x] < d[o] \/ (d[x] = d[o] /\ o <= x)
    BY <1>2 DEF IsTop
  <2>2. x \in Nat /\ o \in Nat /\ d[x] = x /\ d[o] = o
    BY <1>1
  <2> QED BY <2>1, <2>2
<1>4. Overlay!Max(S) \in S /\ \A x \in S : Overlay!Max(S) >= x
  BY <1>3 DEF Overlay!Max
<1> QED BY <1>4

(* The candidates show what the mask shows, at most k of it.               *)
LEMMA CandIs ==
  ASSUME NEW p \in Seq(Int), NEW mask, NEW k \in Nat,
         NEW cand, cand = Overlay!Prefix(Overlay!Visible(p, mask), k)
  PROVE  cand \in Seq(Int) /\ Len(cand) <= k /\ Overlay!Items(cand) \subseteq mask
<1> DEFINE v == Overlay!Visible(p, mask)
           m == IF k <= Len(v) THEN k ELSE Len(v)
<1>1. v \in Seq(Int) /\ \A i \in DOMAIN v : v[i] \in mask
  BY VisibleItems
<1>2. cand = Overlay!Prefix(v, k)
  OBVIOUS
<1> HIDE DEF v
<1>3. cand = [i \in 1 .. m |-> v[i]] /\ m \in Nat /\ m <= k /\ m <= Len(v) /\ Len(v) \in Nat
  BY <1>1, <1>2, PrefixIs
<1> HIDE DEF m
<1>4. \A i \in 1 .. m : i \in DOMAIN v
  BY <1>1, <1>3
<1>5. cand \in [1 .. m -> Int] /\ \A i \in 1 .. m : cand[i] \in mask
  BY <1>1, <1>3, <1>4
<1>6. cand \in Seq(Int) /\ Len(cand) = m
  BY <1>3, <1>5, FunctionIsSequence
<1>7. Overlay!Items(cand) \subseteq mask
  BY <1>5 DEF Overlay!Items
<1> QED BY <1>3, <1>6, <1>7

LEMMA PrefixWithin ==
  ASSUME NEW T, NEW s \in Seq(T), NEW k \in Nat
  PROVE  Overlay!Items(Overlay!Prefix(s, k)) \subseteq Overlay!Items(s)
<1> DEFINE e == IF k <= Len(s) THEN k ELSE Len(s)
           b == Overlay!Prefix(s, k)
<1>1. b = [i \in 1 .. e |-> s[i]] /\ e \in Nat /\ e <= Len(s) /\ Len(s) \in Nat
  BY PrefixIs
<1> HIDE DEF e, b
<1>2. \A i \in 1 .. e : i \in DOMAIN s
  BY <1>1
<1>3. Overlay!Items(b) \subseteq Overlay!Items(s)
  BY <1>1, <1>2 DEF Overlay!Items
<1> QED BY <1>3 DEF b

(* What a row of the calibration holds of the mask it was made behind.     *)
HasBest(st, q) ==
  \A o \in Base(st) \ {st.trace.gt[q]} : Ranges(st, q)[st.trace.gt[q]] < Ranges(st, q)[o]

Common(a, b, k) == Cardinality(Overlay!Items(Overlay!Prefix(a, k)) \cap Overlay!Items(Overlay!Prefix(b, k)))

BestBehind(st, mask, c) ==
  /\ c.q \in Asked(st) /\ c.k \in st.ks
  /\ c.post_filter => c.candidate
  /\ c.candidate /\ HasBest(st, c.q) => c.full
  /\ c.post_overlap <= c.candidate_overlap
  /\ Ascends(st, c.q) => c.candidate_overlap = Smaller(c.k, Cardinality(mask))

LEMMA AnswersCompare ==
  ASSUME Overlay!StudiesAssumption, NEW st \in Studies, NEW q \in Asked(st), NEW mask, mask \subseteq Base(st),
         NEW n \in Nat, NEW k \in Nat \ {0}, k <= n, NEW full, FullFor(st, q, mask, n, full),
         NEW post, post = PostOf(st, q, mask, k), NEW cand, cand = CandOf(st, q, mask, k)
  PROVE  /\ Finds(st, q, post) => Finds(st, q, cand)
         /\ Finds(st, q, cand) /\ HasBest(st, q) => Finds(st, q, Overlay!Prefix(full, k))
         /\ Common(post, full, k) <= Common(cand, full, k)
         /\ Ascends(st, q) => Common(cand, full, k) = Smaller(k, Cardinality(mask))
<1> DEFINE p == st.trace.pred[q]
           d == Ranges(st, q)
           F == Overlay!Items(Overlay!Prefix(full, k))
           A == Overlay!Items(cand)
           P == Overlay!Items(post)
<1>1. /\ p \in Seq(Int) /\ post = Overlay!Visible(Overlay!Prefix(p, k), mask)
      /\ cand = Overlay!Prefix(Overlay!Visible(p, mask), k)
  BY StudyIs DEF PostOf, CandOf
<1>2. IsFiniteSet(mask) /\ \A o \in mask : d[o] \in Int
  BY MaskIs
<1>3. PICK S \in NearestOf(d, mask, n) : full \in Listings(d, S)
  BY DEF FullFor
<1> HIDE DEF p, d
<1>4. F \in NearestOf(d, mask, k)
  BY <1>2, <1>3, FirstAreNearest
<1>5. F \in SUBSET mask /\ Cardinality(F) = Smaller(k, Cardinality(mask))
  <2> HIDE DEF F
  <2> QED BY <1>4 DEF NearestOf
<1>6. P \subseteq A
  BY <1>1, FilteredIsFirst
<1>7. cand \in Seq(Int) /\ Len(cand) <= k /\ A \subseteq mask
  BY <1>1, CandIs
<1>8. post \in Seq(Int)
  BY <1>1, FilteredItems
<1>9. Overlay!Items(Overlay!Prefix(cand, k)) = A
  BY <1>7, PrefixItems
<1>10. Overlay!Items(Overlay!Prefix(post, k)) \subseteq P
  BY <1>8, PrefixWithin
<1>11. Finds(st, q, post) => Finds(st, q, cand)
  BY <1>6 DEF Finds
<1>12. ASSUME Finds(st, q, cand), HasBest(st, q) PROVE Finds(st, q, Overlay!Prefix(full, k))
  <2> DEFINE g == st.trace.gt[q]
  <2>1. g \in mask
    BY <1>7, <1>12 DEF Finds
  <2>2. \A x \in mask \ {g} : d[g] < d[x]
    BY <1>12 DEF HasBest, d
  <2> HIDE DEF g
  <2>3. g \in F
    BY <1>2, <1>3, <2>1, <2>2, BestIsFirst
  <2> QED BY <2>3 DEF Finds, g
<1>13. Common(post, full, k) <= Common(cand, full, k)
  <2> DEFINE B == Overlay!Items(Overlay!Prefix(post, k))
  <2>1. Common(post, full, k) = Cardinality(B \cap F) /\ Common(cand, full, k) = Cardinality(A \cap F)
    BY <1>9 DEF Common
  <2>2. B \cap F \in SUBSET (A \cap F)
    BY <1>6, <1>10
  <2> HIDE DEF B, A, F
  <2>3. A \cap F \in SUBSET mask
    BY <1>5
  <2>4. IsFiniteSet(A \cap F)
    BY <1>2, <2>3, FS_Subset
  <2>5. Cardinality(B \cap F) <= Cardinality(A \cap F)
    BY <2>2, <2>4, FS_Subset
  <2> QED BY <2>1, <2>5
<1>14. ASSUME Ascends(st, q) PROVE Common(cand, full, k) = Smaller(k, Cardinality(mask))
  <2>1. Overlay!Items(p) = Base(st) /\ \A i \in 2 .. Len(p) : d[p[i - 1]] < d[p[i]]
    BY <1>14 DEF Ascends, p, d
  <2>2. \A i \in 1 .. Len(p) : d[p[i]] \in Int
    <3>1. \A o \in Base(st) : d[o] \in Int
      BY RangesAre DEF d
    <3>2. \A i \in 1 .. Len(p) : p[i] \in Overlay!Items(p)
      BY <1>1 DEF Overlay!Items
    <3> QED BY <2>1, <3>1, <3>2
  <2>3. mask \subseteq Overlay!Items(p)
    BY <2>1
  <2>4. A \in NearestOf(d, mask, k) /\ \A x, y \in mask : d[x] = d[y] => x = y
    BY <1>1, <2>1, <2>2, <2>3, CandNearest
  <2> HIDE DEF A, F
  <2>5. A = F
    BY <1>2, <1>4, <2>4, OneNearest
  <2>6. Common(cand, full, k) = Cardinality(A \cap F)
    BY <1>9 DEF Common, F, A
  <2>7. A \cap F = F
    BY <2>5
  <2> QED BY <1>5, <2>6, <2>7
<1> QED BY <1>11, <1>12, <1>13, <1>14

LEMMA RowsAreBest ==
  ASSUME Overlay!StudiesAssumption, study \in Studies, NEW sel, NEW q \in Asked(study),
         NEW mask, mask \subseteq Base(study), NEW ks, ks \subseteq study.ks, ks # {},
         NEW full \in Overlay!FullTopK(q, mask, Overlay!Max(ks))
  PROVE  \A c \in Overlay!EvaluateCalibrationQuery(sel, q, mask, ks, full) :
           c.sel = sel /\ BestBehind(study, mask, c)
<1> DEFINE n == Overlay!Max(ks)
           post(k) == Overlay!PostFilterResults(q, mask, k)
           candidate(k) == Overlay!CandidateResults(q, mask, k)
           row(k) == [sel |-> sel, q |-> q, k |-> k,
                      post_filter |-> Overlay!Hit(q, post(k)), candidate |-> Overlay!Hit(q, candidate(k)),
                      full |-> Overlay!Hit(q, Overlay!Prefix(full, k)), underfill |-> Len(post(k)) < k,
                      candidate_overlap |-> Overlay!OverlapAtK(candidate(k), full, k),
                      post_overlap |-> Overlay!OverlapAtK(post(k), full, k)]
<1>1. Overlay!EvaluateCalibrationQuery(sel, q, mask, ks, full) = {row(k) : k \in ks}
  BY DEF Overlay!EvaluateCalibrationQuery
<1>2. n \in ks /\ (\A k \in ks : k <= n) /\ study.ks \subseteq Nat \ {0}
  <2>1. IsFiniteSet(ks) /\ ks \subseteq Nat \ {0} /\ study.ks \subseteq Nat \ {0}
    <3>1. IsFiniteSet(study.ks) /\ study.ks \subseteq Nat \ {0}
      BY StudyIs, RangesAre
    <3> QED BY <3>1, FS_Subset
  <2> QED BY <2>1, GreatestIn
<1>3. FullFor(study, q, mask, n, full)
  <2>1. n \in Nat \ {0}
    BY <1>2
  <2>2. full \in Overlay!FullTopK(q, mask, n)
    OBVIOUS
  <2> HIDE DEF n
  <2> QED BY <2>1, <2>2, FullIs
<1> HIDE DEF n
<1>4. \A k : /\ row(k).sel = sel /\ row(k).q = q /\ row(k).k = k
             /\ row(k).post_filter = Overlay!Hit(q, post(k)) /\ row(k).candidate = Overlay!Hit(q, candidate(k))
             /\ row(k).full = Overlay!Hit(q, Overlay!Prefix(full, k))
             /\ row(k).candidate_overlap = Overlay!OverlapAtK(candidate(k), full, k)
             /\ row(k).post_overlap = Overlay!OverlapAtK(post(k), full, k)
  <2> HIDE DEF post, candidate
  <2> QED OBVIOUS
<1> HIDE DEF row
<1>5. \A k : post(k) = PostOf(study, q, mask, k) /\ candidate(k) = CandOf(study, q, mask, k)
  BY DEF Overlay!PostFilterResults, Overlay!CandidateResults, PostOf, CandOf
<1> HIDE DEF post, candidate
<1>6. \A result : Overlay!Hit(q, result) = Finds(study, q, result)
  BY DEF Overlay!Hit, Finds
<1>7. \A a, b, k : Overlay!OverlapAtK(a, b, k) = Common(a, b, k)
  BY SameCounts DEF Overlay!OverlapAtK, Common
<1>8. ASSUME NEW k \in ks PROVE row(k).sel = sel /\ BestBehind(study, mask, row(k))
  <2>1. k \in Nat \ {0} /\ k <= n /\ n \in Nat /\ k \in study.ks
    BY <1>2
  <2> DEFINE po == post(k)
             ca == candidate(k)
  <2>2. /\ Finds(study, q, po) => Finds(study, q, ca)
        /\ Finds(study, q, ca) /\ HasBest(study, q) => Finds(study, q, Overlay!Prefix(full, k))
        /\ Common(po, full, k) <= Common(ca, full, k)
        /\ Ascends(study, q) => Common(ca, full, k) = Smaller(k, Cardinality(mask))
    <3>1. po = PostOf(study, q, mask, k) /\ ca = CandOf(study, q, mask, k)
      BY <1>5
    <3> HIDE DEF po, ca
    <3> QED BY <1>3, <2>1, <3>1, AnswersCompare
  <2> HIDE DEF po, ca
  <2>3. /\ row(k).sel = sel /\ row(k).q = q /\ row(k).k = k
        /\ row(k).post_filter = Finds(study, q, po) /\ row(k).candidate = Finds(study, q, ca)
        /\ row(k).full = Finds(study, q, Overlay!Prefix(full, k))
        /\ row(k).candidate_overlap = Common(ca, full, k) /\ row(k).post_overlap = Common(po, full, k)
    BY <1>4, <1>6, <1>7 DEF po, ca
  <2> DEFINE c == row(k)
  <2> HIDE DEF c
  <2>4. c.sel = sel /\ BestBehind(study, mask, c)
    BY <2>1, <2>2, <2>3 DEF BestBehind, c
  <2> QED BY <2>4 DEF c
<1> QED BY <1>1, <1>8

(* What the measures need of the masks, the files and the rows.            *)
DrawnWithin(st, dr) == \A s \in DOMAIN dr : dr[s] \subseteq Base(st)

OrderedRows(ou, sc) ==
  /\ Is(ou["metrics"]) => \A m \in ou["metrics"].content : Ordered(m)
  /\ sc.name = "evaluate" => \A m \in sc.rows : Ordered(m)

BestRows(st, dr, C) == \A c \in C : \E mask \in MasksOf(dr, c.sel) : BestBehind(st, mask, c)

AnswersInv == DrawnWithin(study, drawn) /\ OrderedRows(outputs, script) /\ BestRows(study, drawn, checkpoint)

LEMMA MasksWithin ==
  ASSUME NEW st, NEW dr, DrawnWithin(st, dr), NEW sel, NEW mask \in MasksOf(dr, sel)
  PROVE  mask \subseteq Base(st)
BY DEF DrawnWithin, MasksOf

LEMMA AnswersStart ==
  ASSUME Overlay!Init
  PROVE  AnswersInv
<1>1. /\ outputs = [o \in {"metrics", "summary", "queries"} |-> [state |-> "none"]]
      /\ checkpoint = {} /\ drawn = <<>> /\ script.name = "none"
  BY DEF Overlay!Init, Overlay!NoFile, Overlay!Idle
<1>2. DOMAIN drawn = {}
  BY <1>1
<1> QED BY <1>1, <1>2 DEF AnswersInv, DrawnWithin, OrderedRows, BestRows, Is

(* A mask that is drawn is one of the objects.                             *)
LEMMA DrawnAnew ==
  ASSUME Overlay!StudiesAssumption, OverlayInv, AnswersInv, Overlay!SaveMask
  PROVE  AnswersInv'
<1> DEFINE sel == Overlay!Min(script.left)
           seed == <<sel, script.salt>>
<1>1. /\ script.name = "generate" /\ script' = [script EXCEPT !.left = @ \ {sel}, !.open = FALSE]
      /\ UNCHANGED <<study, outputs, checkpoint>> /\ study \in Studies
  BY DEF Overlay!SaveMask, Overlay!Running, OverlayInv
<1>2. PICK mask \in IF seed \in DOMAIN drawn THEN {drawn[seed]} ELSE Overlay!GenerateOverlay(sel) :
        drawn' = [s \in DOMAIN drawn \cup {seed} |-> IF s = seed THEN mask ELSE drawn[s]]
  BY DEF Overlay!SaveMask, Overlay!SeedFor, Overlay!Whole
<1> HIDE DEF sel, seed
<1>3. mask \subseteq Base(study)
  <2>1. CASE seed \in DOMAIN drawn
    BY <1>2, <2>1 DEF AnswersInv, DrawnWithin
  <2>2. CASE seed \notin DOMAIN drawn
    <3>1. study.mode \in {"uniform_random", "clustered_acl", "skewed_acl"}
      BY <1>1, RangesAre
    <3>2. mask \in Overlay!GenerateOverlay(sel)
      BY <1>2, <2>2
    <3> QED BY <3>1, <3>2 DEF Overlay!GenerateOverlay, Overlay!UniformMasks, Overlay!ClusteredMasks,
                              Overlay!SkewedMasks, Overlay!kSubset, Overlay!Objects, Base
  <2> QED BY <2>1, <2>2
<1>4. DrawnWithin(study, drawn')
  BY <1>2, <1>3 DEF AnswersInv, DrawnWithin
<1>5. Extends(drawn, drawn')
  BY <1>2 DEF Extends
<1>6. BestRows(study, drawn', checkpoint)
  BY <1>5, RowsStay DEF AnswersInv, BestRows
<1>7. script'.name = "generate"
  BY <1>1 DEF OverlayInv, Shape
<1> QED BY <1>1, <1>4, <1>6, <1>7 DEF AnswersInv, OrderedRows

LEMMA AnswersLoad ==
  ASSUME Overlay!StudiesAssumption, OverlayInv, AnswersInv, Overlay!LoadMask
  PROVE  AnswersInv'
<1> DEFINE sel == Overlay!Min(script.left)
           mask == masks[sel].content
           more == {Overlay!EvaluateTrace(sel, mask, k) : k \in study.ks}
<1>1. UNCHANGED <<study, outputs, checkpoint, drawn>> /\ script.name \in {"evaluate", "select"}
      /\ study \in Studies
  BY DEF Overlay!LoadMask, OverlayInv
<1>2. CASE masks[sel].state = "torn"
  <2>1. script'.name = "none"
    BY <1>2 DEF Overlay!LoadMask, Overlay!Fail, Overlay!Finish, Overlay!Idle
  <2> QED BY <1>1, <2>1 DEF AnswersInv, OrderedRows
<1>3. CASE masks[sel].state # "torn"
  <2>1. \E new : /\ script' = [script EXCEPT !.left = script.left \ {sel}, !.rows = script.rows \cup new]
                 /\ script.name = "evaluate" => new = more
    BY <1>3 DEF Overlay!LoadMask, Overlay!Continue, Overlay!Running
  <2> HIDE DEF sel, mask
  <2>2. \A m \in more : Ordered(m)
    BY <1>1, StudyIs, RowIsOrdered
  <2> HIDE DEF more
  <2>3. PICK new : /\ script' = [script EXCEPT !.left = script.left \ {sel}, !.rows = script.rows \cup new]
                   /\ script.name = "evaluate" => new = more
    BY <2>1
  <2>4. script = [name |-> script.name, salt |-> script.salt, left |-> script.left,
                  rows |-> script.rows, todo |-> script.todo, open |-> script.open]
    BY DEF OverlayInv, Shape
  <2>5. script'.name = script.name /\ script'.rows = script.rows \cup new
    <3> DEFINE left == script.left \ {sel}
               all == script.rows \cup new
    <3>1. script' = [script EXCEPT !.left = left, !.rows = all]
      BY <2>3
    <3> HIDE DEF left, all
    <3>2. script' = [name |-> script.name, salt |-> script.salt, left |-> left, rows |-> all,
                     todo |-> script.todo, open |-> script.open]
      BY <2>4, <3>1, ScriptContinues
    <3> QED BY <3>2 DEF all
  <2>6. OrderedRows(outputs, script')
    BY <2>2, <2>3, <2>5 DEF AnswersInv, OrderedRows
  <2> QED BY <1>1, <2>6 DEF AnswersInv
<1> QED BY <1>2, <1>3

LEMMA AnswersOpen ==
  ASSUME OverlayInv, AnswersInv, Overlay!OpenOutput
  PROVE  AnswersInv'
<1> DEFINE o == Head(script.todo)
<1>1. /\ outputs' = [outputs EXCEPT ![o] = [state |-> "torn"]]
      /\ UNCHANGED <<study, checkpoint, drawn>>
  BY DEF Overlay!OpenOutput, Overlay!TornFile
<1>2. PICK R \in IF script.name = "select" THEN Overlay!CapQueries(script.rows) ELSE {script.rows} :
        script' = [script EXCEPT !.rows = R, !.open = TRUE]
  BY DEF Overlay!OpenOutput, Overlay!Running
<1>3. script'.name = script.name /\ script'.rows = R
  <2>1. script = [name |-> script.name, salt |-> script.salt, left |-> script.left, rows |-> script.rows,
                  todo |-> script.todo, open |-> script.open]
    BY DEF OverlayInv, Shape
  <2> DEFINE b == TRUE
  <2>2. script' = [script EXCEPT !.rows = R, !.open = b]
    BY <1>2
  <2> HIDE DEF b
  <2>3. script' = [name |-> script.name, salt |-> script.salt, left |-> script.left, rows |-> R,
                   todo |-> script.todo, open |-> b]
    BY <2>1, <2>2, ScriptOpens
  <2> QED BY <2>3
<1>4. DOMAIN outputs = {"metrics", "summary", "queries"}
  BY DEF OverlayInv, OutputSound
<1> HIDE DEF o
<1>5. outputs'["metrics"] = [state |-> "torn"] \/ outputs'["metrics"] = outputs["metrics"]
  BY <1>1, <1>4
<1>6. OrderedRows(outputs', script')
  BY <1>2, <1>3, <1>5 DEF AnswersInv, OrderedRows, Is
<1> QED BY <1>1, <1>6 DEF AnswersInv

LEMMA AnswersClose ==
  ASSUME OverlayInv, AnswersInv, Overlay!CloseOutput
  PROVE  AnswersInv'
<1> DEFINE o == Head(script.todo)
<1>1. /\ script.todo # <<>> /\ outputs' = [outputs EXCEPT ![o] = [state |-> "whole", content |-> script.rows]]
      /\ UNCHANGED <<study, checkpoint, drawn>>
  BY DEF Overlay!CloseOutput, Overlay!Whole
<1>2. \/ script' = [script EXCEPT !.todo = Tail(@), !.open = FALSE]
      \/ script' = Overlay!Idle
  BY DEF Overlay!CloseOutput, Overlay!Finish
<1>3. script'.name = "none" \/ (script'.name = script.name /\ script'.rows = script.rows)
  <2>1. script = [name |-> script.name, salt |-> script.salt, left |-> script.left, rows |-> script.rows,
                  todo |-> script.todo, open |-> script.open]
    BY DEF OverlayInv, Shape
  <2>2. CASE script' = Overlay!Idle
    BY <2>2 DEF Overlay!Idle
  <2>3. CASE script' = [script EXCEPT !.todo = Tail(@), !.open = FALSE]
    <3> DEFINE T == Tail(script.todo)
               b == FALSE
    <3>1. script' = [script EXCEPT !.todo = T, !.open = b]
      BY <2>3
    <3> HIDE DEF T, b
    <3>2. script' = [name |-> script.name, salt |-> script.salt, left |-> script.left, rows |-> script.rows,
                     todo |-> T, open |-> b]
      BY <2>1, <3>1, ScriptCloses
    <3> QED BY <3>2
  <2> QED BY <1>2, <2>2, <2>3
<1>4. /\ DOMAIN outputs = {"metrics", "summary", "queries"}
      /\ script.name \in {"evaluate", "select"}
      /\ script.name = "select" => o = "queries"
  BY <1>1 DEF OverlayInv, OutputSound, Shape, GenerateSound, SelectSound, CalibrateSound
<1> HIDE DEF o
<1>5. outputs'["metrics"] = outputs["metrics"]
      \/ (outputs'["metrics"] = [state |-> "whole", content |-> script.rows] /\ script.name = "evaluate")
  BY <1>1, <1>4
<1>6. OrderedRows(outputs', script')
  BY <1>3, <1>5 DEF AnswersInv, OrderedRows, Is
<1> QED BY <1>1, <1>6 DEF AnswersInv

LEMMA AnswersCalibrate ==
  ASSUME Overlay!StudiesAssumption, OverlayInv, AnswersInv, Overlay!Calibrate
  PROVE  AnswersInv'
<1> DEFINE r == CHOOSE x \in script.left : TRUE
           ks == Overlay!PendingKs(r.sel, r.q)
           mask == masks[r.sel].content
<1>1. /\ script.name = "calibrate" /\ script.left # {} /\ study \in Studies
      /\ UNCHANGED <<study, outputs, drawn>>
  BY DEF Overlay!Calibrate, Overlay!Running, OverlayInv
<1>2. r \in script.left
  BY <1>1
<1>3. /\ script' = [script EXCEPT !.left = script.left \ {r}, !.rows = {}] \/ script' = Overlay!Idle
      /\ \/ UNCHANGED checkpoint
         \/ /\ ks # {} /\ masks[r.sel].state = "whole"
            /\ \E full \in Overlay!FullTopK(r.q, mask, Overlay!Max(ks)) :
                 checkpoint' = checkpoint
                   \cup Overlay!EvaluateCalibrationQuery(r.sel, r.q, mask, ks, full)
  BY DEF Overlay!Calibrate, Overlay!Continue, Overlay!Fail, Overlay!Finish
<1> HIDE DEF r
<1>4. ks \subseteq study.ks
  BY DEF Overlay!PendingKs
<1> HIDE DEF ks
<1>5. r \in outputs["queries"].content /\ QueryRows(study, drawn, outputs["queries"].content)
  BY <1>1, <1>2 DEF OverlayInv, OutputSound, CalibrateSound
<1>6. r.q \in Asked(study) /\ r.sel \in study.sels
  <2>1. PICK m \in MasksOf(drawn, r.sel) : r.q \in Asked(study)
    BY <1>5 DEF QueryRows
  <2>2. \E s \in DOMAIN drawn : s[1] = r.sel
    BY <2>1 DEF MasksOf
  <2> QED BY <2>1, <2>2 DEF OverlayInv, DrawSound
<1>7. BestRows(study, drawn, checkpoint')
  <2>1. CASE UNCHANGED checkpoint
    BY <2>1 DEF AnswersInv
  <2>2. ASSUME ks # {}, masks[r.sel].state = "whole",
               NEW full \in Overlay!FullTopK(r.q, mask, Overlay!Max(ks)),
               checkpoint' = checkpoint \cup Overlay!EvaluateCalibrationQuery(r.sel, r.q, mask, ks, full)
        PROVE  BestRows(study, drawn, checkpoint')
    <3> DEFINE D == Overlay!EvaluateCalibrationQuery(r.sel, r.q, mask, ks, full)
    <3>1. mask \in MasksOf(drawn, r.sel)
      BY <1>6, <2>2 DEF OverlayInv, MaskSound, Is
    <3>2. mask \subseteq Base(study)
      BY <3>1, MasksWithin DEF AnswersInv
    <3> HIDE DEF mask
    <3>3. \A c \in D : c.sel = r.sel /\ BestBehind(study, mask, c)
      BY <1>1, <1>4, <1>6, <2>2, <3>2, RowsAreBest
    <3>4. checkpoint' = checkpoint \cup D
      BY <2>2
    <3> HIDE DEF D
    <3> QED BY <3>1, <3>3, <3>4 DEF AnswersInv, BestRows
  <2> HIDE DEF mask
  <2> QED BY <1>3, <2>1, <2>2
<1>8. script'.name # "evaluate"
  <2>1. script = [name |-> script.name, salt |-> script.salt, left |-> script.left, rows |-> script.rows,
                  todo |-> script.todo, open |-> script.open]
    BY DEF OverlayInv, Shape
  <2>2. CASE script' = Overlay!Idle
    BY <2>2 DEF Overlay!Idle
  <2>3. CASE script' = [script EXCEPT !.left = script.left \ {r}, !.rows = {}]
    <3> DEFINE left == script.left \ {r}
               none == {}
    <3>1. script' = [script EXCEPT !.left = left, !.rows = none]
      BY <2>3
    <3> HIDE DEF left, none
    <3>2. script' = [name |-> script.name, salt |-> script.salt, left |-> left, rows |-> none,
                     todo |-> script.todo, open |-> script.open]
      BY <2>1, <3>1, ScriptContinues
    <3> QED BY <1>1, <3>2
  <2> QED BY <1>3, <2>2, <2>3
<1> QED BY <1>1, <1>7, <1>8 DEF AnswersInv, OrderedRows

LEMMA AnswersFollow ==
  ASSUME Overlay!StudiesAssumption, OverlayInv, AnswersInv, Overlay!Next
  PROVE  AnswersInv'
<1>1. CASE Overlay!Start
  <2>1. UNCHANGED <<study, outputs, checkpoint, drawn>>
    BY <1>1 DEF Overlay!Start
  <2>2. script'.rows = {}
    <3>1. CASE Overlay!Exits(next)
      BY <1>1, <3>1 DEF Overlay!Start, Overlay!Fail, Overlay!Finish, Overlay!Idle
    <3>2. CASE ~ Overlay!Exits(next)
      <4> DEFINE left == Overlay!Inputs(next)
                 todo_ == Overlay!OutputsOf(next)
      <4>1. PICK salt :
              script' = [Overlay!Idle EXCEPT !.name = next, !.salt = salt, !.left = left, !.todo = todo_]
        BY <1>1, <3>2 DEF Overlay!Start
      <4> HIDE DEF left, todo_
      <4> QED BY <4>1 DEF Overlay!Idle
    <3> QED BY <3>1, <3>2
  <2> QED BY <2>1, <2>2 DEF AnswersInv, OrderedRows
<1>2. CASE Overlay!OpenMask
  <2>1. UNCHANGED <<study, outputs, checkpoint, drawn>> /\ script' = [script EXCEPT !.open = TRUE]
    BY <1>2 DEF Overlay!OpenMask
  <2>2. script'.name = script.name /\ script'.rows = script.rows
    BY <2>1 DEF OverlayInv, Shape
  <2> QED BY <2>1, <2>2 DEF AnswersInv, OrderedRows
<1>3. CASE Overlay!Generated \/ Overlay!Calibrated \/ Overlay!Kill
  <2>1. UNCHANGED <<study, outputs, checkpoint, drawn>> /\ script'.name = "none"
    BY <1>3 DEF Overlay!Generated, Overlay!Calibrated, Overlay!Kill, Overlay!Finish, Overlay!Idle
  <2> QED BY <2>1 DEF AnswersInv, OrderedRows
<1>4. CASE Overlay!Renew
  BY <1>4 DEF Overlay!Renew, AnswersInv, OrderedRows
<1> QED BY <1>1, <1>2, <1>3, <1>4, DrawnAnew, AnswersLoad, AnswersOpen, AnswersClose, AnswersCalibrate
        DEF Overlay!Next, Overlay!Step

(* What the invariants say of the files.                                   *)
LEMMA AnswersAgree ==
  ASSUME Overlay!StudiesAssumption, OverlayInv, AnswersInv
  PROVE  Overlay!MeasuresAgree
<1>1. study \in Studies /\ study.ks \subseteq Nat \ {0} /\ IsFiniteSet(study.salts)
  BY StudyIs DEF OverlayInv
<1>2. Overlay!RecallsAreOrdered
  BY RowsOfIs DEF AnswersInv, OrderedRows, Ordered, Overlay!RecallsAreOrdered
<1>3. ASSUME NEW sel \in study.sels, masks[sel].state = "whole"
      PROVE  masks[sel].content \in MasksOf(drawn, sel) /\ masks[sel].content \subseteq Base(study)
  <2>1. masks[sel].content \in MasksOf(drawn, sel)
    BY <1>3 DEF OverlayInv, MaskSound, Is
  <2> QED BY <2>1, MasksWithin DEF AnswersInv
<1>4. Overlay!TrackerIsExact
  <2> SUFFICES ASSUME NEW sel \in study.sels, masks[sel].state = "whole",
                      NEW q \in Asked(study), NEW k \in study.ks
               PROVE  Overlay!TopKTracker(q, masks[sel].content, k)
                        \in Overlay!Nearest(q, masks[sel].content, k)
    BY DEF Overlay!TrackerIsExact, Overlay!Queries, Asked
  <2> DEFINE mask == masks[sel].content
             b == study.trace.num_base
  <2>1. mask \subseteq Base(study)
    BY <1>3
  <2> HIDE DEF mask
  <2>2. mask \subseteq 0 .. b /\ b \in Nat /\ IsFiniteSet(mask) /\ \A o \in mask : Ranges(study, q)[o] \in Int
    BY <1>1, <2>1, MaskIs
  <2> HIDE DEF b
  <2>3. k \in Nat \ {0}
    BY <1>1
  <2>4. Overlay!TopKTracker(q, mask, k) \in NearestOf(Ranges(study, q), mask, k)
    BY <2>2, <2>3, TrackerIsNearest
  <2>5. Overlay!Nearest(q, mask, k) = NearestOf(Ranges(study, q), mask, k)
    BY <2>2, <2>3, NearestIs
  <2> QED BY <2>4, <2>5 DEF mask
<1>5. ASSUME NEW c \in checkpoint
      PROVE  /\ c.post_filter => c.candidate
             /\ c.candidate /\ Overlay!UniqueBest(c.q) => c.full
             /\ c.post_overlap <= c.candidate_overlap
             /\ Overlay!Exhaustive(c.q) /\ Overlay!DrawnAlike(c.sel) /\ masks[c.sel].state = "whole" =>
                  c.candidate_overlap = Overlay!Min({c.k, Overlay!Cardinality(masks[c.sel].content)})
  <2>1. PICK mask \in MasksOf(drawn, c.sel) : BestBehind(study, mask, c)
    BY <1>5 DEF AnswersInv, BestRows
  <2>2. Overlay!UniqueBest(c.q) => HasBest(study, c.q)
    BY DEF Overlay!UniqueBest, HasBest, Overlay!Objects, Base, Overlay!Dist, Ranges
  <2>3. Overlay!Exhaustive(c.q) => Ascends(study, c.q)
    BY DEF Overlay!Exhaustive, Ascends, Overlay!Objects, Base, Overlay!Dist, Ranges, Overlay!Depth
  <2>4. ASSUME Overlay!Exhaustive(c.q), Overlay!DrawnAlike(c.sel), masks[c.sel].state = "whole"
        PROVE  c.candidate_overlap = Overlay!Min({c.k, Overlay!Cardinality(masks[c.sel].content)})
    <3> DEFINE held == masks[c.sel].content
    <3>1. c.sel \in study.sels
      <4>1. \E s \in DOMAIN drawn : s[1] = c.sel
        BY <2>1 DEF MasksOf
      <4> QED BY <4>1 DEF OverlayInv, DrawSound
    <3>2. held \in MasksOf(drawn, c.sel) /\ held \subseteq Base(study)
      BY <1>3, <2>4, <3>1
    <3>3. held = mask
      <4> HIDE DEF held
      <4> QED BY <2>1, <2>4, <3>2, AlikeAre
    <3>4. c.k \in Nat /\ c.candidate_overlap = Smaller(c.k, Cardinality(mask))
      BY <1>1, <2>1, <2>3, <2>4 DEF BestBehind
    <3>5. Cardinality(mask) \in Nat
      BY <1>1, <3>2, <3>3, MaskIs
    <3>6. Overlay!Min({c.k, Cardinality(mask)}) = Smaller(c.k, Cardinality(mask))
      BY <3>4, <3>5, SmallerOf DEF Smaller
    <3>7. Overlay!Cardinality(held) = Cardinality(mask)
      BY <3>3, SameCounts
    <3> QED BY <3>4, <3>6, <3>7
  <2> QED BY <2>1, <2>2, <2>4 DEF BestBehind
<1>6. Overlay!FullIsBest
  BY <1>5 DEF Overlay!FullIsBest
<1> QED BY <1>2, <1>4, <1>6 DEF Overlay!MeasuresAgree

(* Nothing that is measured changes while its program waits.               *)
LEMMA FacesWait == FacesInv /\ UNCHANGED search => FacesInv'
<1> SUFFICES ASSUME FacesInv, UNCHANGED search PROVE FacesInv'
  OBVIOUS
<1>1. UNCHANGED <<faces, sample, stage, asked, reader, fetched, perm, write_pos, db, db_q_idx, gt,
                 top_k, answers>>
  BY DEF search
<1>2. (Sampled => Sampled') /\ (Scattering => Scattering')
  BY <1>1, SampledStays, ScatteringStays
<1>3. Searched' = Searched
  <2>1. \A n : Faces!Answers(n)' = Faces!Answers(n)
    BY <1>1 DEF Faces!Answers
  <2> QED BY <1>1, <2>1 DEF Searched
<1> QED BY <1>1, <1>2, <1>3 DEF FacesInv

LEMMA AnswersWait == OverlayInv /\ AnswersInv /\ UNCHANGED overlay => OverlayInv' /\ AnswersInv'
<1> SUFFICES ASSUME OverlayInv, AnswersInv, UNCHANGED overlay PROVE OverlayInv' /\ AnswersInv'
  OBVIOUS
<1>1. UNCHANGED <<study, masks, outputs, checkpoint, drawn, next, script, losses, renewals>>
  BY DEF overlay
<1> QED BY <1>1 DEF OverlayInv, AnswersInv

(* What the measuring programs report agrees: the faces a search is asked  *)
(* for are those of its samples, the curves of the three benchmarks meet   *)
(* where they mean the same, the rows of metrics are ordered for every     *)
(* mask, and the full answer, from the heap or from an exact index, holds  *)
(* k nearest visible objects, which are best.                              *)
THEOREM MeasuresHold == Spec => []MeasuresAgree
<1> DEFINE Inv == /\ program = "faces" => FacesInv
                  /\ program = "overlay" => OverlayInv /\ AnswersInv
<1>1. Init => Inv
  BY FacesStart, OverlayStarts, AnswersStart, MeasuringAssumption DEF Init
<1>2. Inv => MeasuresAgree
  BY FacesAgree, AnswersAgree, MeasuringAssumption DEF MeasuresAgree
<1>3. Inv /\ [Next]_vars => Inv'
  <2> SUFFICES ASSUME Inv, [Next]_vars PROVE Inv'
    OBVIOUS
  <2>1. CASE program' = "faces"
    <3>1. program = "faces" /\ FacesInv /\ (Faces!Next \/ UNCHANGED search)
      BY <2>1 DEF Next, vars
    <3>2. FacesInv'
      BY <3>1, FacesFollow, FacesWait, MeasuringAssumption
    <3> QED BY <2>1, <3>2
  <2>2. CASE program' = "overlay"
    <3>1. program = "overlay" /\ OverlayInv /\ AnswersInv /\ (Overlay!Next \/ UNCHANGED overlay)
      BY <2>2 DEF Next, vars
    <3>2. OverlayInv' /\ AnswersInv'
      BY <3>1, OverlayFollows, AnswersFollow, AnswersWait, MeasuringAssumption
    <3> QED BY <2>2, <3>2
  <2>3. CASE program' \notin {"faces", "overlay"}
    BY <2>3
  <2> QED BY <2>1, <2>2, <2>3
<1> QED BY <1>1, <1>2, <1>3, PTL DEF Spec
=============================================================================
