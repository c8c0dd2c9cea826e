---------------------------- MODULE Provision_proofs ----------------------------
(***************************************************************************)
(* Proofs about VersionNegotiation and Provision, for any registry, ABI    *)
(* map and set of installed versions, any situations and any number of     *)
(* modules and builds.                                                     *)
(*                                                                         *)
(* find_replacement is a loop that keeps the best version so far; that it  *)
(* finds the best is an induction over the loop (BestSoFar).  A run of     *)
(* Provision is a run of NativeBuilder as far as the builder's variables go*)
(* (BuilderIsCalled), so that what is proved there holds here; what is in  *)
(* the cache then follows from what is known of each entry while the loop  *)
(* over the modules goes on (EntriesFit).  That no failure makes it start  *)
(* again is a measure, five numbers compared from the left, that every     *)
(* step lowers and that cannot be lowered for ever.                        *)
(***************************************************************************)
EXTENDS Provision, NativeBuilder_proofs, NaturalsInduction, WellFoundedInduction

-------------------------------------------------------------------------------
\* find_replacement
Usable(governed, v) == {i \in DOMAIN governed : TargetMajor(v) \notin governed[i].bad}
Tested(governed, v) == {i \in Usable(governed, v) : TargetMajor(v) \in governed[i].electrons}

\* A set of numbers that is not empty has a least element.
LEMMA LeastElement ==
  ASSUME NEW S \in SUBSET Nat, S # {}
  PROVE  \E n \in S : \A m \in S : n <= m
<1> DEFINE Less == {p \in Nat \X Nat : p[1] < p[2]}
<1>1. IsWellFoundedOn(Less, Nat)
  <2>1. Less = OpToRel(<, Nat)
    BY Zenon DEF OpToRel
  <2> QED
    BY <2>1, NatLessThanWellFounded, Zenon
<1>2. PICK x \in S : \A y \in S : <<y, x>> \notin Less
  <2> HIDE DEF Less
  <2> QED
    BY <1>1, WFMin, Zenon
<1>3. ASSUME NEW y \in S PROVE x <= y
  <2>1. ASSUME y < x PROVE <<y, x>> \in Less
    BY <2>1
  <2> HIDE DEF Less
  <2> QED
    BY <1>2, <2>1
<1> QED
  BY <1>3

-------------------------------------------------------------------------------
\* Phase 2 of find_replacement

NothingYet == [at |-> NoneFits, delta |-> Far]

AfterRound(b, governed, v, map, i) ==
  IF i \in Usable(governed, v) THEN Consider(b, governed, i, Nmv(map, v)) ELSE b

\* f is the loop over the first n versions.
IsLoop(f, n, governed, v, map) ==
  f = [i \in 0..n |->
         IF i = 0 THEN NothingYet ELSE AfterRound(f[i - 1], governed, v, map, i)]

Loop(governed, v, map) == CHOOSE f : IsLoop(f, Len(governed), governed, v, map)

\* The loop can be run over any number of versions.
LEMMA LoopExists ==
  ASSUME NEW governed, NEW v, NEW map, NEW n \in Nat
  PROVE  \E f : IsLoop(f, n, governed, v, map)
<1> DEFINE Bad == {k \in Nat : ~ \E f : IsLoop(f, k, governed, v, map)}
<1>1. SUFFICES ASSUME Bad # {} PROVE FALSE
  OBVIOUS
<1>2. PICK k \in Bad : \A m \in Bad : k <= m
  <2> HIDE DEF Bad
  <2>1. Bad \in SUBSET Nat
    BY DEF Bad
  <2> QED
    BY <1>1, <2>1, LeastElement
<1>3. CASE k = 0
  <2> DEFINE f == [i \in 0..0 |-> NothingYet]
  <2>1. IsLoop(f, 0, governed, v, map)
    BY DEF IsLoop
  <2> QED
    BY <1>2, <1>3, <2>1
<1>4. CASE k # 0
  <2>1. k \in Nat /\ k - 1 \in Nat /\ k - 1 \notin Bad
    BY <1>2, <1>4
  <2>2. PICK f : IsLoop(f, k - 1, governed, v, map)
    BY <2>1
  <2> DEFINE last == AfterRound(f[k - 1], governed, v, map, k)
             g == [i \in 0..k |-> IF i = k THEN last ELSE f[i]]
  <2>3. \A i \in 0..k : i # 0 => g[i - 1] = f[i - 1]
    BY <2>1
  <2>4. \A i \in 0..(k - 1) :
          f[i] = IF i = 0 THEN NothingYet ELSE AfterRound(f[i - 1], governed, v, map, i)
    BY <2>2 DEF IsLoop
  <2>5. \A i \in 0..k :
          g[i] = IF i = 0 THEN NothingYet ELSE AfterRound(g[i - 1], governed, v, map, i)
    <3> SUFFICES ASSUME NEW i \in 0..k 
                 PROVE  g[i] = IF i = 0 THEN NothingYet ELSE AfterRound(g[i - 1], governed, v, map, i)
      OBVIOUS
    <3>1. CASE i = k
      <4>1. g[i] = last
        BY <3>1, <2>1
      <4>2. g[i - 1] = f[k - 1]
        BY <3>1, <2>3, <1>4
      <4> HIDE DEF g
      <4> QED
        BY <3>1, <4>1, <4>2, <1>4
    <3>2. CASE i # k
      <4>1. i \in 0..(k - 1) /\ g[i] = f[i]
        BY <3>2, <2>1
      <4>2. i # 0 => g[i - 1] = f[i - 1]
        BY <2>3
      <4> HIDE DEF g, last
      <4> QED
        BY <2>4, <4>1, <4>2
    <3> QED
      BY <3>1, <3>2
  <2>6. g = [i \in 0..k |-> g[i]]
    OBVIOUS
  <2>7. IsLoop(g, k, governed, v, map)
    <3> HIDE DEF g
    <3> QED
      BY <2>5, <2>6, Zenon DEF IsLoop
  <2> QED
    BY <1>2, <2>7
<1> QED
  BY <1>3, <1>4

\* What find_replacement computes, with its loop by name.
LEMMA ReplacementByLoop ==
  ASSUME NEW governed, NEW v, NEW map
  PROVE  Replacement(governed, v, map) =
           IF Tested(governed, v) # {}
           THEN CHOOSE i \in Tested(governed, v) : \A j \in Tested(governed, v) : i <= j
           ELSE Loop(governed, v, map)[Len(governed)].at
  BY Zenon DEF Replacement, Tested, Usable, Loop, IsLoop, AfterRound, NothingYet


LEMMA FarPositive == Far \in Nat \ {0}
  BY SMT DEF Far

\* Versions of the registry, and an ABI map.
AreGoverned(governed) ==
  /\ DOMAIN governed = 1..Len(governed) /\ Len(governed) \in Nat
  /\ \A i \in DOMAIN governed : IsGoverned(governed[i])
IsMap(map) == \A w : Nmv(map, w) \in 0..(Far - 1)

Reached(governed, v, i) == {j \in Usable(governed, v) : j <= i}
Comparable(governed, v, map, i) ==
  {j \in Reached(governed, v, i) : Nmv(map, v) # Unknown /\ governed[j].nmv # Unknown}
Gap(governed, v, map, j) == Distance(governed[j].nmv, Nmv(map, v))

\* What the loop knows after i versions: the nearest of those whose ABI can be
\* compared, or, as long as there is none, any that is usable.
BestSoFar(b, governed, v, map, i) ==
  /\ b = [at |-> b.at, delta |-> b.delta]
  /\ b.delta \in 0..Far
  /\ Reached(governed, v, i) = {} => b.at = NoneFits
  /\ Reached(governed, v, i) # {} => b.at \in Reached(governed, v, i)
  /\ Comparable(governed, v, map, i) = {} => b.delta = Far
  /\ Comparable(governed, v, map, i) # {} =>
       /\ b.at \in Comparable(governed, v, map, i)
       /\ b.delta = Gap(governed, v, map, b.at)
       /\ \A j \in Comparable(governed, v, map, i) : b.delta <= Gap(governed, v, map, j)

LEMMA LoopStep ==
  ASSUME NEW governed, NEW v, NEW map, AreGoverned(governed), IsMap(map),
         NEW i \in 1..Len(governed), NEW b, BestSoFar(b, governed, v, map, i - 1)
  PROVE  BestSoFar(AfterRound(b, governed, v, map, i), governed, v, map, i)
<1> DEFINE c == AfterRound(b, governed, v, map, i)
           U == Reached(governed, v, i - 1)
           C == Comparable(governed, v, map, i - 1)
           U2 == Reached(governed, v, i)
           C2 == Comparable(governed, v, map, i)
           d == [j \in DOMAIN governed |-> Gap(governed, v, map, j)]
           open == Nmv(map, v) # Unknown /\ governed[i].nmv # Unknown
<1>0. i \in Nat \ {0} /\ i \in DOMAIN governed /\ Usable(governed, v) \subseteq Nat
  BY DEF AreGoverned, Usable
<1>1. \A j \in DOMAIN governed : d[j] \in 0..(Far - 1)
  <2> SUFFICES ASSUME NEW j \in DOMAIN governed PROVE d[j] \in 0..(Far - 1)
    OBVIOUS
  <2>1. governed[j].nmv \in 0..(Far - 1) /\ Nmv(map, v) \in 0..(Far - 1)
    BY DEF AreGoverned, IsGoverned, IsMap
  <2> QED
    BY <2>1, FarPositive DEF Gap, Distance
<1>2. U2 = IF i \in Usable(governed, v) THEN U \cup {i} ELSE U
  BY <1>0 DEF Reached
<1>3. C2 = IF i \in Usable(governed, v) /\ open THEN C \cup {i} ELSE C
  BY <1>2 DEF Comparable
<1>4. i \in Usable(governed, v) =>
        c = IF open THEN IF d[i] < b.delta THEN [at |-> i, delta |-> d[i]] ELSE b
            ELSE IF b.at = NoneFits THEN [at |-> i, delta |-> b.delta] ELSE b
  <2>1. b = [at |-> b.at, delta |-> b.delta]
    BY DEF BestSoFar
  <2>2. [b EXCEPT !.at = i] = [at |-> i, delta |-> b.delta]
    BY <2>1
  <2>3. d[i] = Distance(governed[i].nmv, Nmv(map, v))
    BY <1>0 DEF Gap
  <2> HIDE DEF d
  <2> QED
    BY <2>2, <2>3, Zenon DEF AfterRound, Consider
<1>5. i \notin Usable(governed, v) => c = b
  BY DEF AfterRound
<1>6. C \subseteq U /\ U \subseteq DOMAIN governed /\ i \notin U /\ 0 \notin U
  BY <1>0 DEF Comparable, Reached, Usable, AreGoverned
<1>7. /\ b = [at |-> b.at, delta |-> b.delta]
      /\ b.delta \in 0..Far
      /\ U = {} => b.at = 0
      /\ U # {} => b.at \in U
      /\ C = {} => b.delta = Far
      /\ C # {} => b.at \in C /\ b.delta = d[b.at] /\ \A j \in C : b.delta <= d[j]
  BY <1>6 DEF BestSoFar, NoneFits
<1>8. C2 \subseteq DOMAIN governed
  BY <1>0, <1>3, <1>6
<1> SUFFICES /\ c = [at |-> c.at, delta |-> c.delta]
             /\ c.delta \in 0..Far
             /\ U2 = {} => c.at = 0
             /\ U2 # {} => c.at \in U2
             /\ C2 = {} => c.delta = Far
             /\ C2 # {} => c.at \in C2 /\ c.delta = d[c.at] /\ \A j \in C2 : c.delta <= d[j]
  BY <1>8 DEF BestSoFar, NoneFits
<1> HIDE DEF c, U, C, U2, C2, d, open
<1>9. CASE i \notin Usable(governed, v)
  BY <1>2, <1>3, <1>5, <1>7, <1>9
<1>10. CASE i \in Usable(governed, v) /\ open /\ d[i] < b.delta
  <2>1. c = [at |-> i, delta |-> d[i]]
    BY <1>4, <1>10
  <2>2. \A j \in C : d[i] <= d[j]
    BY <1>0, <1>1, <1>6, <1>7, <1>10, FarPositive
  <2> QED
    BY <1>0, <1>1, <1>2, <1>3, <1>10, <2>1, <2>2, FarPositive
<1>11. CASE i \in Usable(governed, v) /\ open /\ ~(d[i] < b.delta)
  <2>1. c = b /\ C # {}
    BY <1>0, <1>1, <1>4, <1>7, <1>11, FarPositive
  <2>2. b.delta <= d[i]
    BY <1>0, <1>1, <1>7, <1>11, FarPositive
  <2> QED
    BY <1>2, <1>3, <1>6, <1>7, <1>11, <2>1, <2>2
<1>12. CASE i \in Usable(governed, v) /\ ~open
  BY <1>2, <1>3, <1>4, <1>6, <1>7, <1>12 DEF NoneFits
<1> QED
  BY <1>9, <1>10, <1>11, <1>12

LEMMA LoopFindsBest ==
  ASSUME NEW governed, NEW v, NEW map, AreGoverned(governed), IsMap(map)
  PROVE  BestSoFar(Loop(governed, v, map)[Len(governed)], governed, v, map, Len(governed))
<1> DEFINE n == Len(governed)
           f == Loop(governed, v, map)
           Good(i) == BestSoFar(f[i], governed, v, map, i)
           Bad == {i \in 0..n : ~Good(i)}
<1>1. n \in Nat
  BY DEF AreGoverned
<1>2. IsLoop(f, n, governed, v, map)
  BY <1>1, LoopExists, Zenon DEF Loop
<1> HIDE DEF f
<1>3. \A i \in 0..n : f[i] = IF i = 0 THEN NothingYet ELSE AfterRound(f[i - 1], governed, v, map, i)
  BY <1>1, <1>2 DEF IsLoop
<1>4. Good(0)
  <2>1. f[0] = [at |-> 0, delta |-> Far]
    BY <1>1, <1>3 DEF NothingYet, NoneFits
  <2>2. Reached(governed, v, 0) = {} /\ Comparable(governed, v, map, 0) = {}
    BY DEF Comparable, Reached, Usable, AreGoverned
  <2> QED
    BY <2>1, <2>2, FarPositive DEF BestSoFar, NoneFits
<1>5. ASSUME NEW i \in 1..n, Good(i - 1) PROVE Good(i)
  <2>1. f[i] = AfterRound(f[i - 1], governed, v, map, i)
    BY <1>1, <1>3
  <2>2. BestSoFar(AfterRound(f[i - 1], governed, v, map, i), governed, v, map, i)
    BY <1>5, LoopStep
  <2> QED
    BY <2>1, <2>2
<1> HIDE DEF Good
<1>6. Bad = {}
  <2> SUFFICES ASSUME Bad # {} PROVE FALSE
    OBVIOUS
  <2>1. Bad \in SUBSET Nat
    BY <1>1
  <2>2. PICK k \in Bad : \A m \in Bad : k <= m
    BY <2>1, LeastElement
  <2>3. k \in 1..n /\ k - 1 \in 0..n
    BY <1>1, <1>4, <2>2
  <2>4. k - 1 \notin Bad
    BY <2>1, <2>2, <2>3
  <2> QED
    BY <1>5, <2>2, <2>3, <2>4
<1>7. Good(n)
  BY <1>1, <1>6
<1> QED
  BY <1>7 DEF Good, f

\* find_replacement answers with a usable version than which none is closer, for
\* every registry, every ABI map and every version.
LEMMA ReplacementIsBest ==
  ASSUME NEW governed, NEW v, NEW map, AreGoverned(governed), IsMap(map)
  PROVE  IF Usable(governed, v) = {} THEN Replacement(governed, v, map) = NoneFits
         ELSE /\ Replacement(governed, v, map) \in Usable(governed, v)
              /\ \A i \in Usable(governed, v) :
                   ~Closer(governed, i, Replacement(governed, v, map), v, map)
<1> DEFINE U == Usable(governed, v)
           T == Tested(governed, v)
           r == Replacement(governed, v, map)
<1>1. T \subseteq U /\ U \subseteq Nat /\ U = Reached(governed, v, Len(governed))
  BY DEF Tested, Usable, AreGoverned, Reached
<1>2. \A i \in U : i \in T <=> TargetMajor(v) \in governed[i].electrons
  BY DEF Tested
<1>3. CASE T # {}
  <2>1. \E i \in T : \A j \in T : i <= j
    BY <1>1, <1>3, LeastElement
  <2>2. r = CHOOSE i \in T : \A j \in T : i <= j
    BY <1>3, ReplacementByLoop
  <2>3. r \in T
    BY <2>1, <2>2
  <2> HIDE DEF T, U, r
  <2>4. \A i \in U : ~Closer(governed, i, r, v, map)
    BY <1>1, <1>2, <2>3 DEF Closer
  <2> QED
    BY <1>1, <2>3, <2>4 DEF U, r
<1>4. CASE T = {}
  <2> DEFINE b == Loop(governed, v, map)[Len(governed)]
             C == Comparable(governed, v, map, Len(governed))
  <2>1. r = b.at
    BY <1>4, ReplacementByLoop
  <2>2. BestSoFar(b, governed, v, map, Len(governed))
    BY LoopFindsBest
  <2>3. CASE U = {}
    BY <1>1, <2>1, <2>2, <2>3 DEF BestSoFar
  <2>4. CASE U # {}
    <3>1. r \in U
      BY <1>1, <2>1, <2>2, <2>4 DEF BestSoFar
    <3>2. C # {} => r \in C /\ \A j \in C : Gap(governed, v, map, r) <= Gap(governed, v, map, j)
      BY <2>1, <2>2 DEF BestSoFar
    <3>3. \A j \in U : j \in C <=> Nmv(map, v) # Unknown /\ governed[j].nmv # Unknown
      BY <1>1 DEF Comparable
    <3>4. ASSUME NEW i \in U, Closer(governed, i, r, v, map) PROVE FALSE
      <4>1. TargetMajor(v) \notin governed[i].electrons
        BY <1>2, <1>4
      <4>2. CASE i \in C /\ r \notin C
        BY <3>2, <4>2
      <4>3. CASE i \in C /\ r \in C /\ Gap(governed, v, map, i) < Gap(governed, v, map, r)
        <5>1. Gap(governed, v, map, i) \in Nat /\ Gap(governed, v, map, r) \in Nat
          <6>1. /\ governed[i].nmv \in 0..(Far - 1) /\ governed[r].nmv \in 0..(Far - 1)
                /\ Nmv(map, v) \in 0..(Far - 1)
            BY <3>1 DEF AreGoverned, IsGoverned, IsMap, Usable
          <6> HIDE DEF r
          <6> QED
            BY <6>1, FarPositive DEF Gap, Distance
        <5> QED
          BY <3>2, <4>3, <5>1
      <4> HIDE DEF U, C, T, r
      <4> QED
        BY <3>1, <3>3, <3>4, <4>1, <4>2, <4>3 DEF Closer, Gap
    <3> QED
      BY <2>4, <3>1, <3>4
  <2> QED
    BY <2>3, <2>4
<1> QED
  BY <1>3, <1>4

-------------------------------------------------------------------------------
\* resolve_runtime_binary

\* A version as resolve_runtime_binary compares it.
LEMMA ParsedType ==
  ASSUME NEW v, IsVersion(v)
  PROVE  /\ Parse(v)[1] \in Nat /\ Parse(v)[2] \in Nat /\ Parse(v)[3] \in Nat
         /\ Parse(v) = [i \in 1..3 |-> Parse(v)[i]]
<1>1. \A i \in 1..3 : Parse(v)[i] = IF i <= Len(v) THEN v[i] ELSE 0
  BY DEF Parse
<1>2. v \in Seq(Nat)
  BY DEF IsVersion
<1>3. \A i \in 1..3 : Parse(v)[i] \in Nat
  BY <1>1, <1>2
<1> QED
  BY <1>3 DEF Parse

LEMMA OlderByParts ==
  ASSUME NEW v, NEW w, IsVersion(v), IsVersion(w)
  PROVE  /\ Older(v, w) <=>
              \/ Parse(v)[1] < Parse(w)[1]
              \/ Parse(v)[1] = Parse(w)[1] /\ Parse(v)[2] < Parse(w)[2]
              \/ Parse(v)[1] = Parse(w)[1] /\ Parse(v)[2] = Parse(w)[2] /\ Parse(v)[3] < Parse(w)[3]
         /\ Same(v, w) <=>
              Parse(v)[1] = Parse(w)[1] /\ Parse(v)[2] = Parse(w)[2] /\ Parse(v)[3] = Parse(w)[3]
<1>1. 1..3 = {1, 2, 3} /\ 1..(1 - 1) = {} /\ 1..(2 - 1) = {1} /\ 1..(3 - 1) = {1, 2}
  OBVIOUS
<1>2. ASSUME \A i \in {1, 2, 3} : Parse(v)[i] = Parse(w)[i] PROVE Same(v, w)
  <2>1. [i \in 1..3 |-> Parse(v)[i]] = [i \in 1..3 |-> Parse(w)[i]]
    BY <1>1, <1>2
  <2> QED
    BY <2>1, ParsedType DEF Same
<1>3. Same(v, w) => \A i \in {1, 2, 3} : Parse(v)[i] = Parse(w)[i]
  BY DEF Same
<1> QED
  BY <1>1, <1>2, <1>3 DEF Older

\* Versions are ordered by their numbers, however they are spelt.
LEMMA OlderIsOrder ==
  ASSUME NEW u, NEW v, NEW w, IsVersion(u), IsVersion(v), IsVersion(w)
  PROVE  /\ Older(u, v) /\ Older(v, w) => Older(u, w)
         /\ Older(u, v) => ~Older(v, u) /\ ~Same(u, v)
         /\ Older(u, v) \/ Older(v, u) \/ Same(u, v)
         /\ Same(u, v) /\ Same(v, w) => Same(u, w)
         /\ Same(u, v) <=> Same(v, u)
         /\ Same(u, v) => (Major(u) = Major(v) /\ (Older(u, w) <=> Older(v, w)))
<1> DEFINE p == Parse(u) q == Parse(v) r == Parse(w)
<1>1. /\ p[1] \in Nat /\ p[2] \in Nat /\ p[3] \in Nat
      /\ q[1] \in Nat /\ q[2] \in Nat /\ q[3] \in Nat
      /\ r[1] \in Nat /\ r[2] \in Nat /\ r[3] \in Nat
  BY ParsedType
<1> QED
  BY <1>1, OlderByParts DEF Major

\* What resolve_runtime_binary chooses, whatever is cached.
LEMMA RuntimesKeepMajor ==
  ASSUME NEW wanted, NEW C, \A u \in C : IsVersion(u), IsVersion(wanted),
         wanted # AutoVersion, NEW v \in Runtimes(wanted, C),
         NEW M, M = {u \in C : Major(u) = Major(wanted)}
  PROVE  /\ v \in C
         /\ IF M # {}
            THEN /\ v \in M
                 /\ \A u \in M : Same(u, wanted) => Same(v, u)
                 /\ Older(v, wanted) => \A u \in M : ~Older(wanted, u)
            ELSE \A u \in C :
                   /\ Older(wanted, v) => ~(Older(wanted, u) /\ Older(u, v))
                   /\ Older(v, wanted) => Older(u, wanted) /\ ~Older(v, u)
<1> DEFINE exact == {u \in C : Same(u, wanted)}
           higher == {u \in C : Older(wanted, u)}
<1>1. v \in IF exact # {} THEN exact
            ELSE IF M # {} THEN Newest(M)
            ELSE IF higher # {} THEN Oldest(higher)
            ELSE Newest(C)
  BY DEF Runtimes
<1>2. v \in C
  BY <1>1 DEF Newest, Oldest
<1>3. CASE exact # {}
  <2>1. v \in exact /\ Same(v, wanted)
    BY <1>1, <1>3
  <2>2. v \in M /\ ~Older(v, wanted)
    BY <1>2, <2>1, OlderIsOrder
  <2>3. ASSUME NEW u \in M, Same(u, wanted) PROVE Same(v, u)
    BY <1>2, <2>1, <2>3, OlderIsOrder
  <2> QED
    BY <1>2, <2>2, <2>3
<1>4. CASE exact = {} /\ M # {}
  <2>1. v \in M /\ \A u \in M : ~Older(v, u)
    BY <1>1, <1>4 DEF Newest
  <2>2. \A u \in M : ~Same(u, wanted)
    BY <1>4
  <2>3. ASSUME Older(v, wanted), NEW u \in M, Older(wanted, u) PROVE FALSE
    BY <1>2, <2>1, <2>3, OlderIsOrder
  <2> QED
    BY <1>2, <1>4, <2>1, <2>2, <2>3
<1>5. CASE exact = {} /\ M = {} /\ higher # {}
  <2>1. Older(wanted, v) /\ \A u \in higher : ~Older(u, v)
    BY <1>1, <1>5 DEF Oldest
  <2>2. ~Older(v, wanted)
    BY <1>2, <2>1, OlderIsOrder
  <2> QED
    BY <1>2, <1>5, <2>1, <2>2
<1>6. CASE exact = {} /\ M = {} /\ higher = {}
  <2>1. ASSUME NEW u \in C PROVE Older(u, wanted)
    <3>1. ~Same(u, wanted) /\ ~Older(wanted, u)
      BY <1>6
    <3> QED
      BY <3>1, OlderIsOrder
  <2>2. \A u \in C : ~Older(v, u)
    BY <1>1, <1>6 DEF Newest
  <2> QED
    BY <1>2, <1>6, <2>1, <2>2
<1> QED
  BY <1>3, <1>4, <1>5, <1>6

\* An installed version is chosen when it is the only one that compares equal.
LEMMA ExactRuntimeIsChosen ==
  ASSUME NEW wanted, NEW C, wanted # AutoVersion, NEW v \in Runtimes(wanted, C),
         {u \in C : Same(u, wanted)} = {wanted}
  PROVE  v = wanted
BY DEF Runtimes

-------------------------------------------------------------------------------
\* What the assumptions on the constants say

LEMMA VersionParts ==
  ASSUME NEW v \in Versions \cup {AutoVersion}
  PROVE  IsVersion(v)
<1>1. IsVersion(AutoVersion)
  BY DEF IsVersion, AutoVersion
<1> QED
  BY <1>1, VersionsAssumption

LEMMA SituationParts ==
  ASSUME NEW s \in Situations
  PROVE  /\ s.modules \in Seq(STRING)
         /\ \A m \in DOMAIN s.registry : AreGoverned(s.registry[m])
         /\ \A m \in DOMAIN s.registry :
              \A i \in DOMAIN s.registry[m] : IsReplacement(s.registry[m][i])
         /\ ElectronFor(s) \in Versions \cup {AutoVersion}
         /\ Wanted(s) \in Versions \cup {AutoVersion}
         /\ Wanted(s) # AutoVersion => Wanted(s) = ElectronFor(s)
<1>1. IsSituation(s)
  BY SituationsAssumption
<1>2. ASSUME NEW m \in DOMAIN s.registry PROVE AreGoverned(s.registry[m])
  <2> DEFINE g == s.registry[m]
             R == {g[i] : i \in DOMAIN g}
  <2>1. g \in Seq(R) /\ \A i \in DOMAIN g : IsGoverned(g[i])
    BY <1>1 DEF IsSituation, IsReplacement
  <2> HIDE DEF g, R
  <2>2. DOMAIN g = 1..Len(g) /\ Len(g) \in Nat
    BY <2>1
  <2> QED
    BY <2>1, <2>2 DEF AreGoverned, g
<1>3. /\ ElectronFor(s) \in Versions \cup {AutoVersion}
      /\ Wanted(s) \in Versions \cup {AutoVersion}
      /\ Wanted(s) # AutoVersion => Wanted(s) = ElectronFor(s)
  BY <1>1, VersionsCoverAssumption DEF IsSituation, ElectronFor, Wanted
<1> QED
  BY <1>1, <1>2, <1>3 DEF IsSituation

LEMMA MapParts ==
  ASSUME world \in Worlds
  PROVE  IsMap(world.abi_map)
<1>1. IsWorld(world)
  BY WorldsAssumption
<1> SUFFICES ASSUME NEW w PROVE Nmv(world.abi_map, w) \in 0..(Far - 1)
  BY DEF IsMap
<1> QED
  BY <1>1, FarPositive DEF IsWorld, Nmv, Unknown

\* A version of the registry that was found may be built.
LEMMA FoundParts ==
  ASSUME situation \in Situations, world \in Worlds, NEW m, NEW v, Found(m, v) # NoneFits
  PROVE  /\ m \in DOMAIN situation.registry
         /\ Found(m, v) \in DOMAIN situation.registry[m]
         /\ TargetMajor(v) \notin Governed(m, v).bad
         /\ IsReplacement(Governed(m, v))
<1>1. /\ m \in DOMAIN situation.registry
      /\ Found(m, v) = Replacement(situation.registry[m], v, world.abi_map)
  BY DEF Found
<1>2. AreGoverned(situation.registry[m]) /\ IsMap(world.abi_map)
  BY <1>1, SituationParts, MapParts
<1>3. Found(m, v) \in Usable(situation.registry[m], v)
  BY <1>1, <1>2, ReplacementIsBest
<1> QED
  BY <1>1, <1>3, SituationParts DEF Usable, Governed

-------------------------------------------------------------------------------
\* The builder within provision

\* What is decided at the beginning, or by the environment.
Situated ==
  /\ situation \in Situations
  /\ world \in Worlds
  /\ electron \in Versions \cup {AutoVersion}
  /\ pc \in {"begin", "loop", "building", "over", "launched", "refused"}
  /\ pc \notin {"begin", "refused"} => electron = ElectronFor(situation)

LEMMA BuilderKeeps ==
  ASSUME BuilderStep \/ SandboxExits
  PROVE  UNCHANGED <<world, cached>>
BY DEF BuilderStep, SandboxExits, Refuse, MakeDirectory, FetchTarball, FetchHeaders, Unpack,
       UnpackHeaders, LocatePackage, FetchDependency, DependenciesDone, ApplyPatch, PatchesDone,
       StartSandbox, PollExited, StopWaiting, Reap, Collect

LEMMA SituatedKept ==
  ASSUME Situated, [Next]_vars
  PROVE  Situated' /\ UNCHANGED <<situation, world>>
<1> USE DEF Situated
<1>1. CASE Refused
  BY <1>1 DEF Refused, buildVars
<1>2. CASE Begin
  BY <1>2, SituationParts DEF Begin, buildVars
<1>3. CASE Skip
  BY <1>3 DEF Skip, buildVars
<1>4. CASE StartBuild
  BY <1>4 DEF StartBuild, Call
<1>5. CASE EndBuild
  BY <1>5 DEF EndBuild, buildVars
<1>6. CASE Finish
  BY <1>6 DEF Finish, buildVars
<1>7. CASE Launch
  BY <1>7 DEF Launch, buildVars
<1>8. CASE (BuilderStep \/ SandboxExits) /\ UNCHANGED mine
  BY <1>8, BuilderKeeps DEF mine
<1>9. ASSUME NEW v \in Installable, Acquire(v), UNCHANGED mine
      PROVE  Situated' /\ UNCHANGED <<situation, world>>
  BY <1>9 DEF Acquire, mine
<1>10. CASE UNCHANGED vars
  BY <1>10 DEF vars, buildVars, mine
<1> QED
  BY <1>1, <1>2, <1>3, <1>4, <1>5, <1>6, <1>7, <1>8, <1>9, <1>10 DEF Next, CommandStep

\* What the command line and the disk were at the beginning stays so, and the Electron
\* of a provision is the one find_electron_version has decided on.
THEOREM SituatedAlways == Spec => []Situated
<1>1. Init => Situated
  BY DEF Init, BuildInit, Situated
<1>2. Situated /\ [Next]_vars => Situated'
  BY SituatedKept
<1> QED
  BY <1>1, <1>2, PTL DEF Spec

\* What provision does is, for the builder, one of its own steps.
THEOREM BuilderIsCalled == Spec => BuildSpec
<1>1. Init => BuildInit
  BY DEF Init
<1>2. ASSUME Situated, [Next]_vars PROVE [BuildNext]_buildVars
  <2>1. CASE StartBuild
    <3> DEFINE m == Head(rest)
    <3>1. Found(m, electron) # NoneFits
      BY <2>1 DEF StartBuild, Skips, Dropped
    <3>2. IsReplacement(Governed(m, electron))
      BY <1>2, <3>1, FoundParts DEF Situated
    <3>3. [Governed(m, electron).spec EXCEPT !.electron = electron] \in Orders
      BY <1>2, <3>2 DEF Situated, IsReplacement
    <3> QED
      BY <2>1, <3>3 DEF StartBuild, BuildNext
  <2>2. CASE Refused \/ Begin \/ Skip \/ EndBuild \/ Finish \/ Launch
    BY <2>2 DEF Refused, Begin, Skip, EndBuild, Finish, Launch
  <2>3. CASE BuilderStep \/ SandboxExits
    BY <2>3 DEF BuildNext
  <2>4. ASSUME NEW v \in Installable, Acquire(v) PROVE BuildNext
    BY <2>4 DEF BuildNext
  <2>5. CASE UNCHANGED vars
    BY <2>5 DEF vars
  <2> QED
    BY <1>2, <2>1, <2>2, <2>3, <2>4, <2>5 DEF Next, CommandStep
<1> QED
  BY <1>1, <1>2, SituatedAlways, PTL DEF Spec, BuildSpec

\* The builder's types hold of Provision as well.
LEMMA BuilderTypes == Spec => []BuildTypeOK
BY BuilderIsCalled, BuildTypeCorrect, PTL

\* So do its properties: macrun provision never sees a sandbox outlive its build,
\* nor one on a tree without sources, headers or patches, however many modules there are.
THEOREM BuilderGuarantees ==
  Spec => [](SandboxReady /\ SandboxIsContained /\ EarlyEndsCleanUp /\ SuccessNamesBinary)
BY BuilderIsCalled, SandboxReadyAlways, SandboxIsContainedAlways, EarlyEndsCleanUpAlways,
   SuccessNamesBinaryAlways, PTL

-------------------------------------------------------------------------------
\* The loop over the modules

\* The modules that are left were scanned, and there is one while the builder works.
Pending ==
  /\ rest \in Seq(STRING) /\ rest \in Seq(Scanned)
  /\ pc = "building" => rest # <<>> /\ ~Dropped(Head(rest), electron)
  /\ pc # "building" => step = "idle"

LEMMA PendingKept ==
  ASSUME Situated, Pending, [Next]_vars
  PROVE  Pending'
<1> DEFINE S == Scanned
<1>1. UNCHANGED <<situation, world>> /\ Scanned' = Scanned
  BY SituatedKept DEF Scanned
<1>2. \A m, v : Dropped(m, v)' = Dropped(m, v)
  BY <1>1 DEF Dropped, Found
<1>3. ASSUME rest # <<>>, rest' = Tail(rest) PROVE rest' \in Seq(STRING) /\ rest' \in Seq(Scanned')
  <2> HIDE DEF S
  <2>1. \A T : \A q \in Seq(T) : q # <<>> => Tail(q) \in Seq(T)
    OBVIOUS
  <2> QED
    BY <1>1, <1>3, <2>1, Zenon DEF Pending
<1>4. CASE Refused
  BY <1>1, <1>2, <1>4 DEF Refused, Pending, buildVars
<1>5. CASE Begin
  <2>1. situation.modules \in Seq(STRING)
    BY SituationParts DEF Situated
  <2>2. situation.modules \in Seq(Scanned)
    BY <2>1 DEF Scanned
  <2> QED
    BY <1>1, <1>5, <2>1, <2>2 DEF Begin, Pending, buildVars
<1>6. CASE Skip
  BY <1>1, <1>3, <1>6 DEF Skip, Pending, buildVars
<1>7. CASE StartBuild
  BY <1>1, <1>2, <1>7 DEF StartBuild, Skips, Pending
<1>8. CASE EndBuild
  BY <1>1, <1>3, <1>8 DEF EndBuild, Pending, buildVars
<1>9. CASE Finish
  BY <1>1, <1>9 DEF Finish, Pending, buildVars
<1>10. CASE Launch
  BY <1>1, <1>10 DEF Launch, Pending, buildVars
<1>11. CASE BuilderStep /\ UNCHANGED mine
  <2>1. step # "idle"
    BY <1>11 DEF BuilderStep, Refuse, MakeDirectory, FetchTarball, FetchHeaders, Unpack,
         UnpackHeaders, LocatePackage, FetchDependency, DependenciesDone, ApplyPatch,
         PatchesDone, StartSandbox, PollExited, StopWaiting, Reap, Collect
  <2> QED
    BY <1>1, <1>2, <1>11, <2>1 DEF Pending, mine
<1>12. CASE SandboxExits /\ UNCHANGED mine
  BY <1>1, <1>2, <1>12 DEF SandboxExits, Pending, mine
<1>13. ASSUME NEW v \in Installable, Acquire(v), UNCHANGED mine PROVE Pending'
  BY <1>1, <1>2, <1>13 DEF Acquire, Pending, mine
<1>14. CASE UNCHANGED vars
  BY <1>1, <1>2, <1>14 DEF Pending, vars, buildVars, mine
<1> QED
  BY <1>4, <1>5, <1>6, <1>7, <1>8, <1>9, <1>10, <1>11, <1>12, <1>13, <1>14 DEF Next, CommandStep

\* The builder works for the Electron that provision decided on, and the headers
\* it asked for are that one's.
Served ==
  /\ step # "idle" => order.electron = electron
  /\ work.headers = "asked" => work.version = electron
  /\ work.version \in Versions \cup {AutoVersion}
  /\ pc \in {"begin", "refused"} => work = EmptyWork /\ entries = <<>>

\* A step that leaves the headers alone, or removes everything.
LEMMA ServedKept ==
  ASSUME Served, UNCHANGED mine, order' = order \/ step' = "idle", step # "idle",
         work' = EmptyWork \/ (work'.headers = work.headers /\ work'.version = work.version),
         pc \notin {"begin", "refused"}
  PROVE  Served'
BY DEF Served, EmptyWork, mine

LEMMA ServedLeft ==
  ASSUME BuildTypeOK, Served, UNCHANGED mine, step # "idle", pc \notin {"begin", "refused"},
         NEW e, NEW kept, NEW binary, Return(e, kept, binary)
  PROVE  Served'
BY ServedKept DEF Return

LEMMA ServedByBuilder ==
  ASSUME BuildTypeOK, Situated, Pending, Served, BuilderStep, UNCHANGED mine
  PROVE  Served'
<1> USE DEF Pending
<1>1. CASE Refuse
  BY <1>1, ServedKept DEF Refuse
<1>2. CASE MakeDirectory
  BY <1>2, ServedKept DEF MakeDirectory
<1>3. ASSUME NEW e, GiveUp(e), step # "idle" PROVE Served'
  BY <1>3, ServedLeft DEF GiveUp
<1>4. ASSUME NEW next, NEW t, t.headers = work.headers, t.version = work.version,
             GoOn(next, t), step # "idle"
      PROVE  Served'
  BY <1>4, ServedKept DEF GoOn
<1>5. ASSUME NEW t, t.headers = work.headers, t.version = work.version,
             Round(t), step # "idle"
      PROVE  Served'
  BY <1>5, ServedKept DEF Round
<1>6. \A d \in BOOLEAN :
        /\ [work EXCEPT !.tarball = d].headers = work.headers
        /\ [work EXCEPT !.tarball = d].version = work.version
        /\ [work EXCEPT !.nodedir = d].headers = work.headers
        /\ [work EXCEPT !.nodedir = d].version = work.version
        /\ [work EXCEPT !.package = TRUE, !.nodes = order.shipped].headers = work.headers
        /\ [work EXCEPT !.package = TRUE, !.nodes = order.shipped].version = work.version
        /\ [work EXCEPT !.nodes = @ \cup order.carried].headers = work.headers
        /\ [work EXCEPT !.nodes = @ \cup order.carried].version = work.version
        /\ [work EXCEPT !.patched = @ + 1].headers = work.headers
        /\ [work EXCEPT !.patched = @ + 1].version = work.version
  BY DEF BuildTypeOK, WorkType
<1>7. CASE FetchTarball
  BY <1>3, <1>4, <1>6, <1>7, Zenon DEF FetchTarball
<1>8. CASE FetchHeaders
  <2>1. ASSUME NEW kind \in {"asked", "nearest", "elsewhere"},
               NEW v \in Versions \cup {AutoVersion}, NEW d \in BOOLEAN,
               kind = "asked" => v = electron, GoOn("unpack", HeadersOf(kind, v, d))
        PROVE  Served'
    <3>1. CASE d
      <4>1. HeadersOf(kind, v, d).headers = kind /\ HeadersOf(kind, v, d).version = v
        BY <3>1 DEF HeadersOf, BuildTypeOK, WorkType
      <4> QED
        BY <1>8, <2>1, <4>1 DEF FetchHeaders, GoOn, Served, mine
    <3>2. CASE ~d
      BY <1>4, <1>8, <2>1, <3>2 DEF FetchHeaders, HeadersOf
    <3> QED
      BY <3>1, <3>2
  <2>2. order.electron = electron /\ electron \in Versions \cup {AutoVersion}
    BY <1>8 DEF FetchHeaders, Served, Situated
  <2>3. Nearest(order.electron) \subseteq Versions
    BY VersionsAssumption DEF Nearest, BuildTypeOK
  <2> QED
    BY <1>3, <1>8, <2>1, <2>2, <2>3 DEF FetchHeaders
<1>9. CASE Unpack
  BY <1>3, <1>4, <1>6, <1>9, Zenon DEF Unpack
<1>10. CASE UnpackHeaders
  BY <1>3, <1>4, <1>6, <1>10, Zenon DEF UnpackHeaders
<1>11. CASE LocatePackage
  BY <1>3, <1>11, ServedKept DEF LocatePackage
<1>12. CASE FetchDependency
  BY <1>3, <1>5, <1>6, <1>12, Zenon DEF FetchDependency
<1>13. CASE DependenciesDone
  BY <1>13, ServedKept DEF DependenciesDone
<1>14. CASE ApplyPatch
  BY <1>3, <1>5, <1>6, <1>14, Zenon DEF ApplyPatch
<1>15. CASE PatchesDone
  BY <1>4, <1>15 DEF PatchesDone
<1>16. CASE StartSandbox
  BY <1>3, <1>4, <1>16 DEF StartSandbox
<1>17. CASE PollExited
  BY <1>4, <1>17, ServedLeft DEF PollExited
<1>18. CASE StopWaiting
  BY <1>4, <1>18 DEF StopWaiting
<1>19. CASE Reap
  BY <1>3, <1>19 DEF Reap
<1>20. CASE Collect
  BY <1>20, ServedLeft DEF Collect
<1> QED
  BY <1>1, <1>2, <1>7, <1>8, <1>9, <1>10, <1>11, <1>12, <1>13, <1>14, <1>15, <1>16, <1>17,
     <1>18, <1>19, <1>20 DEF BuilderStep

LEMMA ServedAlong ==
  ASSUME BuildTypeOK, SandboxIsContained, Situated, Pending, Served, [Next]_vars
  PROVE  Served'
<1>1. CASE Refused
  BY <1>1 DEF Refused, Served, buildVars
<1>2. CASE Begin
  BY <1>2 DEF Begin, Served, Pending, EmptyWork, buildVars
<1>3. CASE Skip
  BY <1>3 DEF Skip, Served, buildVars
<1>4. CASE StartBuild
  <2> DEFINE m == Head(rest)
             o == [Governed(m, electron).spec EXCEPT !.electron = electron]
  <2>1. o.electron = electron
    <3>1. Found(m, electron) # NoneFits
      BY <1>4 DEF StartBuild, Skips, Dropped
    <3>2. o \in Orders
      BY <3>1, FoundParts DEF Situated, IsReplacement
    <3>3. "electron" \in DOMAIN o
      BY <3>2, OrdersAssumption DEF IsOrder
    <3> QED
      BY <3>3
  <2> HIDE DEF o
  <2>2. order' = o /\ UNCHANGED <<work, electron, entries>> /\ pc' = "building" /\ pc = "loop"
    BY <1>4 DEF StartBuild, Call, o
  <2> QED
    BY <2>1, <2>2 DEF Served
<1>5. CASE EndBuild
  BY <1>5 DEF EndBuild, Served, buildVars
<1>6. CASE Finish
  BY <1>6 DEF Finish, Served, buildVars
<1>7. CASE Launch
  BY <1>7 DEF Launch, Served, buildVars
<1>8. CASE BuilderStep /\ UNCHANGED mine
  BY <1>8, ServedByBuilder
<1>9. CASE SandboxExits /\ UNCHANGED mine
  <2>1. pc = "building" /\ step # "idle"
    BY <1>9 DEF SandboxExits, SandboxIsContained, Pending
  <2>2. work'.headers = work.headers /\ work'.version = work.version
    BY <1>9 DEF SandboxExits, BuildTypeOK, WorkType
  <2> QED
    BY <1>9, <2>1, <2>2, ServedKept DEF SandboxExits
<1>10. ASSUME NEW v \in Installable, Acquire(v), UNCHANGED mine PROVE Served'
  BY <1>10 DEF Acquire, Served, mine
<1>11. CASE UNCHANGED vars
  BY <1>11 DEF vars, buildVars, mine, Served
<1> QED
  BY <1>1, <1>2, <1>3, <1>4, <1>5, <1>6, <1>7, <1>8, <1>9, <1>10, <1>11 DEF Next, CommandStep

-------------------------------------------------------------------------------
\* The cache

\* What is known of an entry: its module was scanned and is governed, its key is the
\* one the module has for the Electron that provision decided on.
EntryFits(k, entry) ==
  /\ k[1] \in Scanned /\ ~Dropped(k[1], electron) /\ k = Key(k[1], electron)
  /\ entry.binary \in Nodes /\ entry.binary.elf
  /\ entry.headers \in {"none", "asked", "nearest", "elsewhere"}
  /\ entry.version \in Versions \cup {AutoVersion}
  /\ entry.headers = "asked" => entry.version = electron

EntriesFit == \A k \in DOMAIN entries : EntryFits(k, entries[k])

LEMMA EntriesFitKept ==
  ASSUME BuildTypeOK, SuccessNamesBinary, Situated, Pending, Served, EntriesFit, [Next]_vars
  PROVE  EntriesFit'
<1>1. UNCHANGED <<situation, world>> /\ Scanned' = Scanned
  BY SituatedKept DEF Scanned
<1>2. electron' = electron => \A k, e : EntryFits(k, e)' <=> EntryFits(k, e)
  BY <1>1 DEF EntryFits, Dropped, Found, Key, Governed
<1>3. ASSUME UNCHANGED <<electron, entries>> PROVE EntriesFit'
  BY <1>2, <1>3 DEF EntriesFit
<1>4. CASE Begin
  <2>1. entries' = <<>>
    BY <1>4 DEF Begin, Served
  <2> QED
    BY <2>1 DEF EntriesFit
<1>5. CASE EndBuild
  <2> DEFINE m == Head(rest)
             k == Key(m, electron)
  <2>1. CASE entries' = entries
    BY <1>3, <1>5, <2>1 DEF EndBuild
  <2>2. CASE result.success /\ entries' = Stored(k)
    <3>1. m \in Scanned /\ ~Dropped(m, electron)
      BY <1>5 DEF EndBuild, Pending
    <3>2. k[1] = m
      BY DEF Key
    <3>3. result.binary \in Nodes /\ result.binary.elf
      BY <2>2 DEF SuccessNamesBinary, BuildTypeOK, WorkType
    <3>4. EntryFits(k, NewEntry)
      BY <3>1, <3>2, <3>3 DEF EntryFits, NewEntry, Served, BuildTypeOK, WorkType
    <3> HIDE DEF k
    <3>5. DOMAIN entries' = DOMAIN entries \cup {k}
      BY <2>2 DEF Stored
    <3>6. \A j \in DOMAIN entries' : entries'[j] = IF j = k THEN NewEntry ELSE entries[j]
      BY <2>2 DEF Stored
    <3>7. electron' = electron
      BY <1>5 DEF EndBuild
    <3>8. \A j \in DOMAIN entries' : EntryFits(j, entries'[j])
      BY <3>4, <3>5, <3>6 DEF EntriesFit
    <3> QED
      BY <1>2, <3>7, <3>8 DEF EntriesFit
  <2> QED
    BY <1>5, <2>1, <2>2 DEF EndBuild
<1>6. CASE Refused \/ Skip \/ StartBuild \/ Finish \/ Launch
  BY <1>3, <1>6 DEF Refused, Skip, StartBuild, Finish, Launch
<1>7. CASE UNCHANGED mine
  BY <1>3, <1>7 DEF mine
<1>8. CASE UNCHANGED vars
  BY <1>7, <1>8 DEF vars
<1> QED
  BY <1>4, <1>5, <1>6, <1>7, <1>8 DEF Next, CommandStep

\* What the launch has decided stays what it would decide again.
Decided ==
  /\ pc # "launched" => runtime = AutoVersion
  /\ pc = "launched" =>
       /\ runtime \in Runtimes(Wanted(situation), cached)
       /\ plan = [m \in Modules |-> Planned(m, runtime)]

LEMMA DecidedKept ==
  ASSUME Situated, Decided, Pending, [Next]_vars
  PROVE  Decided'
<1>1. UNCHANGED <<situation, world>>
  BY SituatedKept
<1>2. ASSUME UNCHANGED <<entries, runtime, plan, cached>>, pc' = pc PROVE Decided'
  BY <1>1, <1>2 DEF Decided, Modules, Scanned, Planned, Dropped, Found, Key, Governed
<1>3. CASE Launch
  <2>1. \A m, v : Planned(m, v)' = Planned(m, v)
    BY <1>1, <1>3 DEF Launch, Planned, Dropped, Found, Key, Governed
  <2>2. Modules' = Modules /\ Wanted(situation)' = Wanted(situation) /\ cached' = cached
    BY <1>1, <1>3 DEF Launch, Modules, Scanned, buildVars
  <2>3. PICK v \in Runtimes(Wanted(situation), cached) :
          runtime' = v /\ plan' = [m \in Modules |-> Planned(m, v)]
    BY <1>3 DEF Launch
  <2>4. plan' = [m \in Modules' |-> Planned(m, runtime)']
    BY <2>1, <2>2, <2>3
  <2> QED
    BY <1>3, <2>2, <2>3, <2>4 DEF Decided, Launch
<1>4. CASE (BuilderStep \/ SandboxExits) /\ UNCHANGED mine
  BY <1>2, <1>4, BuilderKeeps DEF mine
<1>5. ASSUME NEW v \in Installable, pc # "launched", UNCHANGED mine PROVE Decided'
  BY <1>5 DEF Decided, mine
<1>6. CASE CommandStep
  BY <1>6 DEF CommandStep, Refused, Begin, Skip, StartBuild, EndBuild, Finish, Decided
<1>7. CASE UNCHANGED vars
  BY <1>2, <1>7 DEF vars, buildVars, mine
<1> QED
  BY <1>3, <1>4, <1>5, <1>6, <1>7 DEF Next

\* The inductive invariant.
CommandInv == Situated /\ Pending /\ Served /\ EntriesFit /\ Decided

\* CommandInv is an invariant of any number of provisions, builds and a launch.
THEOREM CommandInvAlways == Spec => []CommandInv
<1>1. Init => CommandInv
  <2> SUFFICES ASSUME Init PROVE CommandInv
    OBVIOUS
  <2>1. Situated
    BY DEF Init, BuildInit, Situated
  <2>2. \A S : <<>> \in Seq(S)
    OBVIOUS
  <2>3. rest = <<>> /\ step = "idle" /\ pc = "begin"
    BY DEF Init, BuildInit
  <2>4. Pending
    BY <2>2, <2>3, Zenon DEF Pending
  <2>5. Served
    BY DEF Init, BuildInit, Served, EmptyWork
  <2>6. EntriesFit
    BY DEF Init, EntriesFit
  <2>7. Decided
    BY <2>3 DEF Decided, Init
  <2> QED
    BY <2>1, <2>4, <2>5, <2>6, <2>7 DEF CommandInv
<1>2. ASSUME BuildTypeOK, SandboxIsContained, SuccessNamesBinary, CommandInv, [Next]_vars
      PROVE  CommandInv'
  BY <1>2, SituatedKept, PendingKept, ServedAlong, EntriesFitKept, DecidedKept DEF CommandInv
<1> QED
  BY <1>1, <1>2, BuilderTypes, BuilderGuarantees, PTL DEF Spec

\* Every module is counted once, when the loop is done with it.
Counted(t) == t.built + t.skipped + t.failed

Tallied ==
  /\ tally \in [built : Nat, skipped : Nat, failed : Nat]
  /\ pc = "begin" => Counted(tally) = 0
  /\ pc # "begin" => Counted(tally) + Len(rest) <= Len(situation.modules)
  /\ pc = "begin" => rest = <<>>

LEMMA TalliedKept ==
  ASSUME Situated, Pending, Tallied, [Next]_vars
  PROVE  Tallied'
<1> DEFINE Tallies == [built : Nat, skipped : Nat, failed : Nat]
<1>0. Counted(tally) \in Nat
  BY DEF Tallied, Counted
<1>1. UNCHANGED situation
  BY SituatedKept
<1>2. situation.modules \in Seq(STRING) /\ Len(situation.modules) \in Nat
  BY SituationParts DEF Situated
<1>3. ASSUME UNCHANGED <<tally, rest>>, pc = "begin" <=> pc' = "begin" PROVE Tallied'
  BY <1>1, <1>3 DEF Tallied
<1>4. ASSUME pc = "begin", pc' # "begin", UNCHANGED tally,
             rest' = situation.modules \/ rest' = <<>>
      PROVE  Tallied'
  <2>1. Len(<<>>) = 0
    OBVIOUS
  <2> QED
    BY <1>1, <1>2, <1>4, <2>1 DEF Tallied
<1>5. ASSUME rest # <<>>, rest' = Tail(rest), pc # "begin", pc' # "begin",
             tally' \in Tallies, Counted(tally') = Counted(tally) + 1
      PROVE  Tallied'
  <2>1. Len(rest') = Len(rest) - 1 /\ Len(rest) \in Nat
    BY <1>5 DEF Pending
  <2> QED
    BY <1>0, <1>1, <1>2, <1>5, <2>1 DEF Tallied
<1>6. /\ [tally EXCEPT !.built = @ + 1] \in Tallies
      /\ [tally EXCEPT !.skipped = @ + 1] \in Tallies
      /\ [tally EXCEPT !.failed = @ + 1] \in Tallies
  BY DEF Tallied
<1>7. /\ Counted([tally EXCEPT !.built = @ + 1]) = Counted(tally) + 1
      /\ Counted([tally EXCEPT !.skipped = @ + 1]) = Counted(tally) + 1
      /\ Counted([tally EXCEPT !.failed = @ + 1]) = Counted(tally) + 1
  BY DEF Tallied, Counted
<1> HIDE DEF Tallies
<1>8. CASE Refused
  BY <1>4, <1>8 DEF Refused, Tallied
<1>9. CASE Begin
  BY <1>4, <1>9 DEF Begin
<1>10. CASE Skip
  BY <1>5, <1>6, <1>7, <1>10 DEF Skip
<1>11. CASE EndBuild
  BY <1>5, <1>6, <1>7, <1>11 DEF EndBuild, Pending
<1>12. CASE StartBuild \/ Finish \/ Launch
  BY <1>3, <1>12 DEF StartBuild, Finish, Launch
<1>13. CASE UNCHANGED mine
  BY <1>3, <1>13 DEF mine
<1>14. CASE UNCHANGED vars
  BY <1>13, <1>14 DEF vars
<1> QED
  BY <1>8, <1>9, <1>10, <1>11, <1>12, <1>13, <1>14 DEF Next, CommandStep

\* provision counts each module at most once: the counts and the modules still to come
\* are never more than the modules of the bundle.
THEOREM TalliedAlways == Spec => []Tallied
<1>1. ASSUME Init PROVE Tallied
  BY <1>1 DEF Init, Tallied, Counted
<1>2. ASSUME CommandInv, Tallied, [Next]_vars PROVE Tallied'
  BY <1>2, TalliedKept DEF CommandInv
<1> QED
  BY <1>1, <1>2, CommandInvAlways, PTL DEF Spec

-------------------------------------------------------------------------------
\* The properties

LEMMA LaunchedParts ==
  ASSUME Situated, Decided, BuildTypeOK, pc = "launched"
  PROVE  /\ runtime \in cached /\ runtime \in Versions
         /\ plan \in [Modules -> {"stub", "shim", "cached", "provision_needed"}]
<1>1. runtime \in cached
  BY DEF Decided, Runtimes, Newest, Oldest
<1>2. cached \subseteq Versions
  BY VersionsAssumption DEF BuildTypeOK
<1>3. \A m : Planned(m, runtime) \in {"stub", "shim", "cached", "provision_needed"}
  BY DEF Planned
<1> QED
  BY <1>1, <1>2, <1>3 DEF Decided

\* provision, the builder and the launch keep their types, and provision counts no
\* module twice, for any number of modules.
THEOREM TypeCorrect == Spec => []TypeOK
<1>1. ASSUME BuildTypeOK, CommandInv, Tallied PROVE TypeOK
  <2>1. ASSUME NEW k \in DOMAIN entries
        PROVE  /\ k \in Scanned \X STRING \X (Versions \cup {AutoVersion})
               /\ entries[k].binary \in Nodes
               /\ entries[k].headers \in {"none", "asked", "nearest", "elsewhere"}
               /\ entries[k].version \in Versions \cup {AutoVersion}
    <3>1. EntryFits(k, entries[k])
      BY <1>1, <2>1 DEF CommandInv, EntriesFit
    <3>2. Governed(k[1], electron).npm \in STRING
      BY <1>1, <3>1, FoundParts DEF CommandInv, Situated, EntryFits, Dropped, IsReplacement
    <3>3. k = <<k[1], Governed(k[1], electron).npm, electron>> /\ k[1] \in Scanned
      BY <3>1 DEF EntryFits, Key
    <3>4. electron \in Versions \cup {AutoVersion}
      BY <1>1 DEF CommandInv, Situated
    <3> QED
      BY <3>1, <3>2, <3>3, <3>4 DEF EntryFits
  <2>2. tally.built + tally.skipped + tally.failed + Len(rest) <= Len(situation.modules)
    <3>1. situation.modules \in Seq(STRING) /\ Len(situation.modules) \in Nat /\ Len(<<>>) = 0
      BY <1>1, SituationParts DEF CommandInv, Situated
    <3>2. Counted(tally) \in Nat
      BY <1>1 DEF Tallied, Counted
    <3>3. CASE pc = "begin"
      <4>1. rest = <<>> /\ tally.built + tally.skipped + tally.failed = 0
        BY <1>1, <3>3 DEF Tallied, Counted
      <4>2. Len(rest) = 0
        BY <4>1
      <4> QED
        BY <3>1, <4>1, <4>2
    <3>4. CASE pc # "begin"
      BY <1>1, <3>4 DEF Tallied, Counted
    <3> QED
      BY <3>3, <3>4
  <2>3. pc = "launched" => plan \in [Modules -> {"stub", "shim", "cached", "provision_needed"}]
    BY <1>1, LaunchedParts DEF CommandInv
  <2>4. runtime \in Versions \cup {AutoVersion}
    BY <1>1, LaunchedParts DEF CommandInv, Decided
  <2>5. Situated /\ Pending /\ Tallied /\ BuildTypeOK
    BY <1>1 DEF CommandInv
  <2>6. tally \in [built : Nat, skipped : Nat, failed : Nat]
    BY <2>5 DEF Tallied
  <2> QED
    BY <2>1, <2>2, <2>3, <2>4, <2>5, <2>6, Zenon DEF TypeOK, Situated, Pending
<1> QED
  BY <1>1, BuilderTypes, CommandInvAlways, TalliedAlways, PTL DEF Spec

\* find_replacement never answers with a version that is known to be bad, nor with
\* one while another is closer, for any registry, ABI map and version.
THEOREM AnswersAreBestAlways == Spec => []AnswersAreBest
<1>1. ASSUME Situated PROVE AnswersAreBest
  <2>1. ASSUME NEW m \in DOMAIN situation.registry, NEW v \in Versions
        PROVE  LET governed == situation.registry[m]
                   usable == {i \in DOMAIN governed : TargetMajor(v) \notin governed[i].bad}
               IN IF usable = {} THEN Found(m, v) = NoneFits
                  ELSE /\ Found(m, v) \in usable
                       /\ \A i \in usable : ~Closer(governed, i, Found(m, v), v, world.abi_map)
    <3>1. AreGoverned(situation.registry[m]) /\ IsMap(world.abi_map)
      BY <1>1, SituationParts, MapParts DEF Situated
    <3>2. Found(m, v) = Replacement(situation.registry[m], v, world.abi_map)
      BY DEF Found
    <3> QED
      BY <3>1, <3>2, ReplacementIsBest DEF Usable
  <2> QED
    BY <2>1 DEF AnswersAreBest
<1> QED
  BY <1>1, SituatedAlways, PTL

\* Whatever is in the cache after provision is a build of a governed version for the
\* Electron in its key, whichever builds failed and whichever writes were lost.
THEOREM EntriesAreGovernedAlways == Spec => []EntriesAreGoverned
<1>1. ASSUME CommandInv PROVE EntriesAreGoverned
  <2> SUFFICES ASSUME NEW k \in DOMAIN entries
               PROVE  /\ k[1] \in Scanned \ situation.stubs
                      /\ \E i \in DOMAIN situation.registry[k[1]] :
                           /\ situation.registry[k[1]][i].npm = k[2]
                           /\ TargetMajor(k[3]) \notin situation.registry[k[1]][i].bad
                      /\ entries[k].binary.elf
                      /\ entries[k].headers = "asked" => entries[k].version = k[3]
    BY DEF EntriesAreGoverned
  <2>1. EntryFits(k, entries[k])
    BY <1>1 DEF CommandInv, EntriesFit
  <2> DEFINE m == k[1]
  <2>2. k[2] = Governed(m, electron).npm /\ k[3] = electron
    BY <2>1 DEF EntryFits, Key
  <2>3. m \notin situation.stubs /\ Found(m, electron) # NoneFits
    BY <2>1 DEF EntryFits, Dropped
  <2>4. /\ Found(m, electron) \in DOMAIN situation.registry[m]
        /\ TargetMajor(electron) \notin Governed(m, electron).bad
    BY <1>1, <2>3, FoundParts DEF CommandInv, Situated
  <2> QED
    BY <2>1, <2>2, <2>3, <2>4 DEF EntryFits, Governed
<1> QED
  BY <1>1, CommandInvAlways, PTL

\* Of any installed versions the launch runs one of the major version that is wanted if
\* there is one, else the next higher one, else the newest.
THEOREM RuntimeKeepsMajorAlways == Spec => []RuntimeKeepsMajor
<1>1. ASSUME BuildTypeOK, CommandInv PROVE RuntimeKeepsMajor
  <2> SUFFICES ASSUME pc = "launched", Wanted(situation) # AutoVersion PROVE RuntimeKeepsMajor
    BY DEF RuntimeKeepsMajor
  <2> DEFINE wanted == Wanted(situation)
             M == {u \in cached : Major(u) = Major(wanted)}
  <2>1. IsVersion(wanted) /\ \A u \in cached : IsVersion(u)
    BY <1>1, SituationParts, VersionParts, VersionsAssumption DEF CommandInv, Situated, BuildTypeOK
  <2>2. runtime \in Runtimes(wanted, cached)
    BY <1>1 DEF CommandInv, Decided
  <2>3. IF M # {}
        THEN /\ runtime \in M
             /\ \A u \in M : Same(u, wanted) => Same(runtime, u)
             /\ Older(runtime, wanted) => \A u \in M : ~Older(wanted, u)
        ELSE \A u \in cached :
               /\ Older(wanted, runtime) => ~(Older(wanted, u) /\ Older(u, runtime))
               /\ Older(runtime, wanted) => Older(u, wanted) /\ ~Older(runtime, u)
    BY <2>1, <2>2, RuntimesKeepMajor
  <2> QED
    BY <2>3 DEF RuntimeKeepsMajor
<1> QED
  BY <1>1, BuilderTypes, CommandInvAlways, PTL

\* Where the environment, the record or the detection names a version and the one that
\* provision built for is installed, once, the launch runs that one; and a launch that
\* runs it, named or not, finds every entry that provision has written.
THEOREM ProvisionedIsFoundAlways == Spec => []ProvisionedIsFound
<1>1. ASSUME CommandInv PROVE ProvisionedIsFound
  <2> SUFFICES ASSUME pc = "launched"
               PROVE  /\ Wanted(situation) # AutoVersion
                           /\ {v \in cached : Same(v, electron)} = {electron}
                             => runtime = electron
                      /\ runtime = electron
                           => \A k \in DOMAIN entries : plan[k[1]] \in {"cached", "shim"}
    BY DEF ProvisionedIsFound
  <2>1. ASSUME Wanted(situation) # AutoVersion, {v \in cached : Same(v, electron)} = {electron}
        PROVE  runtime = electron
    <3>1. Wanted(situation) = electron
      BY <1>1, <2>1, SituationParts DEF CommandInv, Situated
    <3> QED
      BY <1>1, <2>1, <3>1, ExactRuntimeIsChosen DEF CommandInv, Decided
  <2>2. ASSUME NEW k \in DOMAIN entries, runtime = electron PROVE plan[k[1]] \in {"cached", "shim"}
    <3>1. EntryFits(k, entries[k])
      BY <1>1 DEF CommandInv, EntriesFit
    <3>2. plan[k[1]] = Planned(k[1], electron)
      BY <1>1, <2>2, <3>1 DEF CommandInv, Decided, EntryFits, Modules
    <3> QED
      BY <3>1, <3>2 DEF EntryFits, Planned
  <2> QED
    BY <2>1, <2>2
<1> QED
  BY <1>1, CommandInvAlways, PTL

-------------------------------------------------------------------------------
\* Provision advances

Measures == Nat \X Nat \X Nat \X Nat \X Nat

LessToDo == {p \in Measures \X Measures : Below(p[1], p[2])}

\* The least element of a component of the members of a set.
LEMMA LeastComponent ==
  ASSUME NEW T \in SUBSET Measures, T # {}, NEW i \in 1..5
  PROVE  \E x \in T : \A y \in T : ~(y[i] < x[i])
<1>1. {x[i] : x \in T} \in SUBSET Nat /\ {x[i] : x \in T} # {}
  BY DEF Measures
<1>2. PICK n \in {x[i] : x \in T} : \A m \in {x[i] : x \in T} : n <= m
  BY <1>1, LeastElement
<1>3. PICK x \in T : x[i] = n
  BY <1>2
<1>4. ASSUME NEW y \in T PROVE ~(y[i] < x[i])
  <2>1. n <= y[i] /\ n \in Nat /\ y[i] \in Nat
    BY <1>1, <1>2
  <2> QED
    BY <1>3, <2>1
<1> QED
  BY <1>4

\* There is no infinite sequence of measures each of which is below the one
\* before: one that advances all the time comes to an end.
LEMMA LessToDoWellFounded == IsWellFoundedOn(LessToDo, Measures)
<1> SUFFICES ASSUME NEW T \in SUBSET Measures, T # {}
             PROVE  \E x \in T : \A y \in T : <<y, x>> \notin LessToDo
  BY MinWF, Zenon
<1> DEFINE Least(S, i) == {x \in S : \A y \in S : ~(y[i] < x[i])}
<1>1. \A S \in SUBSET Measures : S # {} => \A i \in 1..5 :
        Least(S, i) # {} /\ Least(S, i) \in SUBSET S
  BY LeastComponent
<1> DEFINE A == Least(T, 1)
           B == Least(A, 2)
           C == Least(B, 3)
           D == Least(C, 4)
           E == Least(D, 5)
<1> HIDE DEF Least
<1>2. /\ A # {} /\ B # {} /\ C # {} /\ D # {} /\ E # {}
      /\ A \subseteq T /\ B \subseteq A /\ C \subseteq B /\ D \subseteq C /\ E \subseteq D
  <2>1. A # {} /\ A \subseteq T
    BY <1>1
  <2>2. B # {} /\ B \subseteq A
    BY <1>1, <2>1
  <2>3. C # {} /\ C \subseteq B
    BY <1>1, <2>1, <2>2
  <2>4. D # {} /\ D \subseteq C
    BY <1>1, <2>1, <2>2, <2>3
  <2>5. E # {} /\ E \subseteq D
    BY <1>1, <2>1, <2>2, <2>3, <2>4
  <2> QED
    BY <2>1, <2>2, <2>3, <2>4, <2>5
<1>3. PICK x \in E : TRUE
  BY <1>2
<1>4. ASSUME NEW y \in T, <<y, x>> \in LessToDo PROVE FALSE
  <2>1. PICK i \in 1..5 : y[i] < x[i] /\ \A j \in 1..(i - 1) : y[j] = x[j]
    BY <1>4 DEF LessToDo, Below
  <2>2. x \in A /\ x \in B /\ x \in C /\ x \in D /\ x \in E
    BY <1>2, <1>3
  <2>3. \A S, k : x \in Least(S, k) => \A z \in S : ~(z[k] < x[k])
    BY DEF Least
  <2>4. \A S, k, z : x \in Least(S, k) /\ z \in S /\ z[k] = x[k] => z \in Least(S, k)
    BY DEF Least
  <2>5. CASE i = 1
    BY <2>1, <2>2, <2>3, <2>5
  <2>6. i > 1 => y \in A
    BY <2>1, <2>2, <2>4
  <2>7. CASE i = 2
    BY <2>1, <2>2, <2>3, <2>6, <2>7
  <2>8. i > 2 => y \in B
    BY <2>1, <2>2, <2>4, <2>6
  <2>9. CASE i = 3
    BY <2>1, <2>2, <2>3, <2>8, <2>9
  <2>10. i > 3 => y \in C
    BY <2>1, <2>2, <2>4, <2>8
  <2>11. CASE i = 4
    BY <2>1, <2>2, <2>3, <2>10, <2>11
  <2>12. i > 4 => y \in D
    BY <2>1, <2>2, <2>4, <2>10
  <2>13. CASE i = 5
    BY <2>1, <2>2, <2>3, <2>12, <2>13
  <2> QED
    BY <2>5, <2>7, <2>9, <2>11, <2>13
<1>5. x \in T
  BY <1>2, <1>3
<1> QED
  BY <1>4, <1>5

LEMMA ShorterTail ==
  \A S : \A q \in Seq(S) : q # <<>> => Len(Tail(q)) < Len(q)
OBVIOUS

\* A step of the builder goes on in build_in_sandbox, or round in one of its loops.
LEMMA BuilderAdvances ==
  ASSUME BuildTypeOK, BuilderStep
  PROVE  \/ StepsLeft[step'] < StepsLeft[step]
         \/ step' = step /\ Len(left') < Len(left)
<1> USE DEF StepsLeft
<1>1. left \in Seq(STRING)
  BY DEF BuildTypeOK
<1>2. CASE FetchDependency \/ ApplyPatch
  <2>1. CASE step' = "idle"
    BY <1>2, <2>1 DEF FetchDependency, ApplyPatch
  <2>2. CASE step' # "idle"
    <3>1. step' = step /\ left' = Tail(left) /\ left # <<>>
      BY <1>2, <2>2 DEF FetchDependency, ApplyPatch, Round, GiveUp, Return
    <3> QED
      BY <1>1, <3>1, ShorterTail
  <2> QED
    BY <2>1, <2>2
<1>3. CASE Refuse \/ MakeDirectory \/ LocatePackage \/ DependenciesDone \/ PatchesDone
  BY <1>3 DEF Refuse, MakeDirectory, LocatePackage, DependenciesDone, PatchesDone,
              GoOn, GiveUp, Return
<1>4. CASE FetchTarball \/ FetchHeaders
  <2>1. \/ step = "tarball" /\ step' \in {"headers", "idle"}
        \/ step = "headers" /\ step' \in {"unpack", "idle"}
    BY <1>4, Zenon DEF FetchTarball, FetchHeaders, GoOn, GiveUp, Return
  <2> QED
    BY <2>1
<1>5. CASE Unpack \/ UnpackHeaders
  BY <1>5 DEF Unpack, UnpackHeaders, GoOn, GiveUp, Return
<1>6. CASE StartSandbox \/ PollExited \/ StopWaiting \/ Reap \/ Collect
  <2>1. \/ step = "compile" /\ step' \in {"waiting", "idle"}
        \/ step = "waiting" /\ step' \in {"collect", "reaping", "idle"}
        \/ step \in {"reaping", "collect"} /\ step' = "idle"
    BY <1>6, Zenon
    DEF StartSandbox, PollExited, StopWaiting, Reap, Collect, GoOn, GiveUp, Return
  <2> QED
    BY <2>1
<1> QED
  BY <1>2, <1>3, <1>4, <1>5, <1>6 DEF BuilderStep

LEMMA CommandAdvances ==
  ASSUME BuildTypeOK, CommandInv, CommandStep
  PROVE  Below(ToDo', ToDo)
<1> USE DEF Phase, CommandInv, Pending
<1>1. CASE Refused \/ Begin \/ Finish
  <2>1. Phase' < Phase
    BY <1>1 DEF Refused, Begin, Finish
  <2> QED
    BY <2>1 DEF ToDo, Below
<1>2. CASE Skip \/ EndBuild
  <2>1. Phase' = Phase /\ rest # <<>> /\ rest' = Tail(rest)
    BY <1>2 DEF Skip, EndBuild
  <2>2. Len(rest') < Len(rest)
    BY <2>1, ShorterTail
  <2> QED
    BY <2>1, <2>2 DEF ToDo, Below
<1>3. CASE StartBuild
  <2>1. Phase' = Phase /\ rest' = rest /\ pc = "loop" /\ pc' = "building"
    BY <1>3 DEF StartBuild
  <2> QED
    BY <2>1 DEF ToDo, Below
<1> QED
  BY <1>1, <1>2, <1>3 DEF CommandStep

\* For any registry, modules and failures: every step of macrun provision and of
\* the builder leaves less to do, in an order without infinite descent, and what
\* happens in between (the compiler exits, Electrons are acquired, the launch)
\* leaves that alone (provision_command, build_in_sandbox).  What ProvisionEnds
\* adds to it is that the steps are taken.
THEOREM ProvisionAdvancesAlways ==
  /\ Spec => ProvisionAdvances
  /\ Spec => [](ToDo \in Measures)
  /\ IsWellFoundedOn(LessToDo, Measures)
<1>1. ASSUME BuildTypeOK, CommandInv, [Next]_vars
      PROVE  [IF CommandStep \/ (BuilderStep /\ UNCHANGED mine)
              THEN Below(ToDo', ToDo) ELSE UNCHANGED ToDo]_vars
  <2>1. CASE CommandStep
    BY <1>1, <2>1, CommandAdvances
  <2>2. CASE BuilderStep /\ UNCHANGED mine
    <3>1. UNCHANGED <<pc, rest>>
      BY <2>2 DEF mine
    <3>2. ASSUME StepsLeft[step'] < StepsLeft[step] PROVE Below(ToDo', ToDo)
      BY <3>1, <3>2 DEF ToDo, Below, Phase
    <3>3. ASSUME step' = step, Len(left') < Len(left) PROVE Below(ToDo', ToDo)
      BY <3>1, <3>3 DEF ToDo, Below, Phase
    <3>4. Below(ToDo', ToDo)
      BY <1>1, <2>2, <3>2, <3>3, BuilderAdvances
    <3> QED
      BY <2>2, <3>4
  <2>3. CASE ~(CommandStep \/ (BuilderStep /\ UNCHANGED mine)) /\ Next
    <3>1. ASSUME Launch PROVE UNCHANGED ToDo
      BY <3>1 DEF Launch, ToDo, Phase, buildVars
    <3>2. ASSUME SandboxExits, UNCHANGED mine PROVE UNCHANGED ToDo
      BY <3>2 DEF SandboxExits, ToDo, Phase, mine
    <3>3. ASSUME NEW v \in Installable, Acquire(v), UNCHANGED mine PROVE UNCHANGED ToDo
      BY <3>3 DEF Acquire, ToDo, Phase, mine
    <3> QED
      BY <2>3, <3>1, <3>2, <3>3 DEF Next
  <2> QED
    BY <1>1, <2>1, <2>2, <2>3
<1>2. Spec => ProvisionAdvances
  BY <1>1, BuilderTypes, CommandInvAlways, PTL DEF Spec, ProvisionAdvances
<1>3. ASSUME BuildTypeOK, CommandInv PROVE ToDo \in Measures
  <2>1. rest \in Seq(STRING) /\ left \in Seq(STRING) /\ step \in Steps
    BY <1>3 DEF BuildTypeOK, CommandInv, Pending
  <2>2. Len(rest) \in Nat /\ Len(left) \in Nat
    BY <2>1
  <2>3. StepsLeft[step] \in Nat
    BY <2>1 DEF Steps, StepsLeft
  <2> QED
    BY <2>2, <2>3 DEF ToDo, Measures, Phase
<1>4. Spec => [](ToDo \in Measures)
  BY <1>3, BuilderTypes, CommandInvAlways, PTL
<1> QED
  BY <1>2, <1>4, LessToDoWellFounded

===============================================================================
