------------------------ MODULE Linearization_proofs ------------------------
(***************************************************************************)
(* The linearization of a cluster comes out with every transaction once    *)
(* and after its parents.  Acyclic says that no chunks of the second and   *)
(* third phase depend on each other in a cycle; from such chunks, or from  *)
(* a cluster without dependencies, the extraction makes an Ordering, and   *)
(* every later stage takes an Ordering (or its groups) to another one.     *)
(*                                                                         *)
(* And its chunks come out as they went in: what chunkify makes of an      *)
(* Ordering is determined by two properties of the chunks (ChunksTo), and  *)
(* putting them in canonical order keeps both.                             *)
(***************************************************************************)
EXTENDS Templates_proofs, SequenceTheorems

-----------------------------------------------------------------------------
(* A list of the members of T, each once, and one in which what rel names for
   an item comes before it. *)
Lists(s, T) ==
  /\ s \in Seq(T)
  /\ \A i, j \in DOMAIN s : s[i] = s[j] => i = j
  /\ \A x \in T : \E i \in DOMAIN s : s[i] = x
Follows(s, rel) == \A i, j \in DOMAIN s : s[i] \in rel[s[j]] => i < j
Ordering(s, T, rel) == Lists(s, T) /\ Follows(s, rel)

(* What ToSet of the community modules says, for the INSTANCE as well. *)
LEMMA SameSet == \A s : Forest!ToSet(s) = {s[i] : i \in DOMAIN s}
  BY DEF Forest!ToSet

(* A list is as long as the set is large. *)
LEMMA ListLength ==
  ASSUME NEW T, IsFiniteSet(T), NEW s, Lists(s, T)
  PROVE  Len(s) = Cardinality(T)
<1>1. Len(s) \in Nat /\ DOMAIN s = 1..Len(s) /\ s \in [1..Len(s) -> T]
  BY DEF Lists
<1>2. s \in Injection(1..Len(s), T) /\ s \in Surjection(1..Len(s), T)
  BY <1>1 DEF Lists, Injection, Surjection, IsInjective
<1>3. Cardinality(1..Len(s)) = Cardinality(T)
  BY <1>2, FS_Injection
<1>4. Cardinality(1..Len(s)) = Len(s)
  BY <1>1, FS_Interval
<1> QED BY <1>3, <1>4

-----------------------------------------------------------------------------
(* Feerates in the form a / u >= b / v, multiplied out. *)
LEMMA WeaklyMultiplied ==
  ASSUME NEW a \in Int, NEW b \in Int, NEW c \in Int,
         NEW u \in Nat \ {0}, NEW v \in Nat \ {0}, NEW w \in Nat \ {0},
         a * v >= b * u, b * w >= c * v
  PROVE  a * w >= c * u /\ (a * v > b * u \/ b * w > c * v => a * w > c * u)
<1>1. (a * v) * w >= (b * u) * w /\ (a * v > b * u => (a * v) * w > (b * u) * w)
  OBVIOUS
<1>2. (b * w) * u >= (c * v) * u /\ (b * w > c * v => (b * w) * u > (c * v) * u)
  OBVIOUS
<1>3. /\ v * (a * w) >= v * (c * u)
      /\ a * v > b * u \/ b * w > c * v => v * (a * w) > v * (c * u)
  BY <1>1, <1>2
<1>4. /\ a * w \in Int /\ c * u \in Int
  OBVIOUS
<1>5. ASSUME NEW x \in Int, NEW y \in Int
      PROVE (v * x >= v * y => x >= y) /\ (v * x > v * y => x > y)
  OBVIOUS
<1> QED BY <1>3, <1>4, <1>5

(* What Sooner says of two items with fees, weights, keys and orders. *)
Beats(x, y) ==
  \/ x.fee * y.weight > y.fee * x.weight
  \/ /\ ~(y.fee * x.weight > x.fee * y.weight)
     /\ x.key < y.key \/ (x.key = y.key /\ x.order < y.order)
Rated == [fee : Int, weight : Nat \ {0}, key : Int, order : Int]

LEMMA BeatsIsAnOrder ==
  /\ \A x \in Rated : ~Beats(x, x)
  /\ \A x, y, z \in Rated : Beats(x, y) /\ Beats(y, z) => Beats(x, z)
<1>1. ASSUME NEW x \in Rated PROVE ~Beats(x, x)
  <2>1. x.fee * x.weight \in Int /\ x.key \in Int /\ x.order \in Int
    BY DEF Rated
  <2> QED BY <2>1 DEF Beats
<1>2. ASSUME NEW x \in Rated, NEW y \in Rated, NEW z \in Rated, Beats(x, y), Beats(y, z)
      PROVE Beats(x, z)
  <2>1. /\ x.fee \in Int /\ y.fee \in Int /\ z.fee \in Int
        /\ x.weight \in Nat \ {0} /\ y.weight \in Nat \ {0} /\ z.weight \in Nat \ {0}
        /\ x.key \in Int /\ y.key \in Int /\ z.key \in Int
        /\ x.order \in Int /\ y.order \in Int /\ z.order \in Int
    BY DEF Rated
  <2>2. /\ x.fee * y.weight \in Int /\ y.fee * x.weight \in Int
        /\ y.fee * z.weight \in Int /\ z.fee * y.weight \in Int
        /\ x.fee * z.weight \in Int /\ z.fee * x.weight \in Int
    BY <2>1
  <2>3. x.fee * y.weight >= y.fee * x.weight /\ y.fee * z.weight >= z.fee * y.weight
    BY <1>2, <2>2 DEF Beats
  <2>4. /\ x.fee * z.weight >= z.fee * x.weight
        /\ x.fee * y.weight > y.fee * x.weight \/ y.fee * z.weight > z.fee * y.weight
             => x.fee * z.weight > z.fee * x.weight
    BY <2>1, <2>3, WeaklyMultiplied
  <2>5. CASE x.fee * y.weight > y.fee * x.weight \/ y.fee * z.weight > z.fee * y.weight
    BY <2>4, <2>5 DEF Beats
  <2>6. CASE ~(x.fee * y.weight > y.fee * x.weight \/ y.fee * z.weight > z.fee * y.weight)
    <3>1. /\ x.key < y.key \/ (x.key = y.key /\ x.order < y.order)
          /\ y.key < z.key \/ (y.key = z.key /\ y.order < z.order)
      BY <1>2, <2>6 DEF Beats
    <3>2. x.key < z.key \/ (x.key = z.key /\ x.order < z.order)
      BY <2>1, <3>1
    <3> QED BY <2>2, <2>4, <3>2 DEF Beats
  <2> QED BY <2>5, <2>6
<1> QED BY <1>1, <1>2

(* The order of a set is 0 or that of a member, and none has a larger one. *)
LEMMA LargestOrder ==
  ASSUME g \in Clusters, NEW S \in SUBSET Forest!Txs
  PROVE  /\ Forest!MaxOrder(S) \in Int
         /\ Forest!MaxOrder(S) \in {0} \cup {Order[t] : t \in S}
         /\ \A t \in S : Order[t] <= Forest!MaxOrder(S)
<1> DEFINE Orders == {0} \cup {Order[t] : t \in S}
<1>1. IsFiniteSet(S) /\ \A t \in S : Order[t] \in Nat
  BY ForestAssumption, FS_Subset DEF Forest!Txs
<1>2. IsFiniteSet(Orders)
  <2>1. IsFiniteSet({Order[t] : t \in S})
    <3> DEFINE f == [t \in S |-> Order[t]]
    <3>1. f \in Surjection(S, {Order[t] : t \in S})
      BY DEF Surjection
    <3> HIDE DEF f
    <3> QED BY <1>1, <3>1, FS_Surjection
  <2>2. IsFiniteSet({0})
    BY FS_Singleton
  <2> QED BY <2>1, <2>2, FS_Union
<1>3. \A n \in Orders : n \in Int
  BY <1>1
<1>4. 0 \in Orders /\ \A t \in S : Order[t] \in Orders
  OBVIOUS
<1>5. Forest!MaxOrder(S) = CHOOSE x \in Orders : \A y \in Orders : x >= y
  BY Zenon DEF Forest!MaxOrder, Forest!Max
<1> HIDE DEF Orders
<1>6. PICK n \in Orders : \A m \in Orders : m <= n
  BY <1>2, <1>3, <1>4, GreatestOfFinite
<1>7. \A m \in Orders : n >= m
  BY <1>3, <1>6
<1>8. Forest!MaxOrder(S) \in Orders /\ \A m \in Orders : Forest!MaxOrder(S) >= m
  BY <1>5, <1>7
<1>9. \A m \in Orders : m <= Forest!MaxOrder(S)
  BY <1>3, <1>8
<1> QED BY <1>3, <1>4, <1>8, <1>9 DEF Orders

(* Of any items there is a soonest one: nothing comes sooner than it. *)
HasSoonest(S, sooner) == \A R \in SUBSET S : R # {} => \E x \in R : \A y \in R \ {x} : <<y, x>> \notin sooner

LEMMA SoonestExists ==
  ASSUME g \in Clusters, NEW txs, NEW rank, IsFiniteSet(DOMAIN txs),
         \A x \in DOMAIN txs : txs[x] \in SUBSET Forest!Txs /\ txs[x] # {} /\ rank[x] \in Int
  PROVE  HasSoonest(DOMAIN txs, Forest!Sooner(g, txs, rank))
<1> DEFINE rated == [x \in DOMAIN txs |-> [fee |-> Forest!FeeOf(g, txs[x]), weight |-> Forest!WeightOf(txs[x]),
                                          key |-> rank[x], order |-> Forest!MaxOrder(txs[x])]]
           sooner == Forest!Sooner(g, txs, rank)
<1>1. \A x \in DOMAIN txs : rated[x] \in Rated
  BY SetRates, LargestOrder DEF Rated
<1>2. \A x, y \in DOMAIN txs : <<x, y>> \in sooner <=> Beats(rated[x], rated[y])
  BY DEF Forest!Sooner, Forest!HigherFeerate, Beats
<1> HIDE DEF rated, sooner
<1> SUFFICES ASSUME NEW R \in SUBSET (DOMAIN txs), R # {}
             PROVE  \E x \in R : \A y \in R \ {x} : <<y, x>> \notin sooner
  BY DEF HasSoonest, sooner
<1> DEFINE Q == {p \in R \X R : <<p[2], p[1]>> \in sooner}
<1>3. \A x, y \in R : <<x, y>> \in Q <=> Beats(rated[y], rated[x])
  BY <1>2
<1> HIDE DEF Q
<1>4. \A x \in R : <<x, x>> \notin Q
  BY <1>1, <1>3, BeatsIsAnOrder
<1>5. \A x, y, z \in R : <<x, y>> \in Q /\ <<y, z>> \in Q => <<x, z>> \in Q
  BY <1>1, <1>3, BeatsIsAnOrder
<1>6. IsFiniteSet(R)
  BY FS_Subset
<1>7. PICK x \in R : \A y \in R : <<x, y>> \notin Q
  BY <1>4, <1>5, <1>6, Extreme
<1> QED BY <1>2, <1>3, <1>7

-----------------------------------------------------------------------------
(* TakeReady: what a round takes, and the rounds. *)
TakenNext(S, needs, sooner, taken) ==
  LET rest == S \ Forest!ToSet(taken)
      ready == {x \in rest : needs[x] \cap rest = {}}
  IN IF ready = {} THEN taken
     ELSE Append(taken, CHOOSE x \in ready : \A y \in ready \ {x} : <<y, x>> \notin sooner)
TakeRounds(S, needs, sooner) ==
  \E f \in [0..Cardinality(S) -> Seq(S)] :
    /\ f[0] = <<>> /\ Forest!TakeReady(S, needs, sooner) = f[Cardinality(S)]
    /\ \A i \in 1..Cardinality(S) : f[i] = TakenNext(S, needs, sooner, f[i - 1])

TakesOne(S, needs, s, t) ==
  LET rest == S \ Forest!ToSet(s)
  IN \/ t = s /\ \A x \in rest : needs[x] \cap rest # {}
     \/ \E x \in rest : t = Append(s, x) /\ needs[x] \cap rest = {}
(* A round takes a ready item, or none is ready. *)
LEMMA TakenMore ==
  ASSUME NEW S, NEW needs, NEW sooner, HasSoonest(S, sooner), NEW s \in Seq(S)
  PROVE  TakesOne(S, needs, s, TakenNext(S, needs, sooner, s))
<1> DEFINE rest == S \ Forest!ToSet(s)
           ready == {x \in rest : needs[x] \cap rest = {}}
           Best(x) == \A y \in ready \ {x} : <<y, x>> \notin sooner
<1>1. CASE ready = {}
  BY <1>1 DEF TakenNext, TakesOne
<1>2. CASE ready # {}
  <2>1. PICK x \in ready : Best(x)
    <3>1. ready \in SUBSET S
      OBVIOUS
    <3> HIDE DEF ready
    <3> QED BY <1>2, <3>1 DEF HasSoonest
  <2> DEFINE c == CHOOSE y \in ready : Best(y)
  <2>2. c \in ready
    <3> HIDE DEF ready, Best
    <3> QED BY <2>1
  <2>3. TakenNext(S, needs, sooner, s) = Append(s, c)
    BY <1>2 DEF TakenNext
  <2> HIDE DEF c
  <2> QED BY <2>2, <2>3 DEF TakesOne
<1> QED BY <1>1, <1>2

(* The recursion of TakeReady, unfolded. *)
LEMMA TakesByRounds ==
  ASSUME NEW S, IsFiniteSet(S), NEW needs, NEW sooner, HasSoonest(S, sooner)
  PROVE  TakeRounds(S, needs, sooner)
<1> DEFINE N == Cardinality(S)
           V == Seq(S)
           Round(s) == TakenNext(S, needs, sooner, s)
           Goes(f) == f = [i \in 0..N |-> IF i = 0 THEN <<>> ELSE Round(f[i - 1])]
           taken == CHOOSE f : Goes(f)
           each == [x \in (1..N) \X V |-> Round(x[2])]
<1>1. N \in Nat
  BY FS_CardinalityType
<1>2. Forest!TakeReady(S, needs, sooner) = taken[N]
  BY SameCount, Zenon DEF Forest!TakeReady, TakenNext
<1>3. <<>> \in V /\ \A s \in V : Round(s) \in V
  <2>1. ASSUME NEW s \in V PROVE Round(s) \in V
    <3>1. TakesOne(S, needs, s, Round(s))
      BY TakenMore
    <3> HIDE DEF Round
    <3> QED BY <3>1 DEF TakesOne
  <2> QED BY <2>1
<1> HIDE DEF Round, N, V
<1>4. each \in [(1..N) \X V -> V]
  BY <1>3
<1>5. PICK f \in [0..N -> V] : f[0] = <<>> /\ \A i \in 1..N : f[i] = each[<<i, f[i - 1]>>]
  <2>1. Iterates(N, V, <<>>, each)
    <3> HIDE DEF each
    <3> QED BY <1>1, <1>3, <1>4, Recursion
  <2> QED BY <2>1 DEF Iterates
<1>6. ASSUME NEW i \in 1..N PROVE f[i] = Round(f[i - 1])
  <2>1. <<i, f[i - 1]>> \in (1..N) \X V
    BY <1>1
  <2> QED BY <1>5, <2>1
<1> HIDE DEF each
<1>7. Goes(f)
  <2>1. f = [i \in 0..N |-> f[i]]
    OBVIOUS
  <2>2. \A i \in 0..N : f[i] = IF i = 0 THEN <<>> ELSE Round(f[i - 1])
    BY <1>1, <1>5, <1>6
  <2> QED BY <2>1, <2>2
<1>8. Goes(taken)
  BY <1>7
<1> HIDE DEF taken
<1>9. \A i \in 0..N : taken[i] = IF i = 0 THEN <<>> ELSE Round(taken[i - 1])
  BY <1>8
<1> DEFINE T == {i \in 0..N : taken[i] = f[i]}
<1>10. N \in T
  <2>1. 0 \in T
    BY <1>1, <1>5, <1>9
  <2>2. \A i \in 0..(N - 1) : i \in T => i + 1 \in T
    <3> TAKE i \in 0..(N - 1)
    <3> HAVE i \in T
    <3>1. i + 1 \in 1..N /\ (i + 1) - 1 = i /\ i + 1 \in 0..N /\ i + 1 # 0
      BY <1>1
    <3> QED BY <1>6, <1>9, <3>1
  <2>3. N \in 0..N
    BY <1>1
  <2> HIDE DEF T
  <2> QED BY <1>1, <2>1, <2>2, <2>3, UpTo
<1> QED BY <1>2, <1>5, <1>6, <1>10 DEF TakeRounds, Round, N, V

(* Where the needs have no cycle, every item is taken, after what it needs. *)
Unlooped(S, needs) == \A R \in SUBSET S : R # {} => \E x \in R : needs[x] \cap R = {}

LEMMA AppendedList ==
  ASSUME NEW S, NEW s \in Seq(S), NEW x \in S, \A i \in DOMAIN s : s[i] # x,
         \A i, j \in DOMAIN s : s[i] = s[j] => i = j
  PROVE  LET t == Append(s, x)
         IN /\ t \in Seq(S) /\ Len(t) = Len(s) + 1
            /\ \A i, j \in DOMAIN t : t[i] = t[j] => i = j
            /\ \A i \in DOMAIN s : i \in DOMAIN t /\ t[i] = s[i] /\ i < Len(t)
            /\ Len(t) \in DOMAIN t /\ t[Len(t)] = x
            /\ \A i \in DOMAIN t : i \in DOMAIN s \/ i = Len(t)
  OBVIOUS

LEMMA TakesAll ==
  ASSUME NEW S, IsFiniteSet(S), NEW needs, Unlooped(S, needs), NEW sooner, HasSoonest(S, sooner)
  PROVE  Ordering(Forest!TakeReady(S, needs, sooner), S, needs)
<1> DEFINE N == Cardinality(S)
           Rest(s) == S \ Forest!ToSet(s)
           Fine(s, i) == /\ s \in Seq(S) /\ Cardinality(Rest(s)) = N - i
                         /\ \A k, l \in DOMAIN s : s[k] = s[l] => k = l
                         /\ \A l \in DOMAIN s : \A x \in needs[s[l]] \cap S : \E k \in DOMAIN s : k < l /\ s[k] = x
<1>1. PICK f \in [0..N -> Seq(S)] :
        /\ f[0] = <<>> /\ Forest!TakeReady(S, needs, sooner) = f[N]
        /\ \A i \in 1..N : f[i] = TakenNext(S, needs, sooner, f[i - 1])
  BY TakesByRounds DEF TakeRounds
<1>2. N \in Nat
  BY FS_CardinalityType
<1>3. ASSUME NEW s, NEW i \in 0..(N - 1), Fine(s, i)
      PROVE  Fine(TakenNext(S, needs, sooner, s), i + 1)
  <2> DEFINE t == TakenNext(S, needs, sooner, s)
  <2>1. IsFiniteSet(Rest(s)) /\ Rest(s) # {} /\ Rest(s) \in SUBSET S
    <3>1. Rest(s) \in SUBSET S /\ Cardinality(Rest(s)) = N - i
      BY <1>3
    <3>2. N - i # 0
      BY <1>2
    <3> HIDE DEF Rest
    <3> QED BY <3>1, <3>2, FS_Subset, FS_EmptySet
  <2>2. PICK x \in Rest(s) : t = Append(s, x) /\ needs[x] \cap Rest(s) = {}
    <3>1. \E x \in Rest(s) : needs[x] \cap Rest(s) = {}
      <4> HIDE DEF Rest
      <4> QED BY <2>1 DEF Unlooped
    <3>2. s \in Seq(S)
      BY <1>3
    <3> QED BY <3>1, <3>2, TakenMore DEF TakesOne
  <2> HIDE DEF t
  <2>3. /\ t \in Seq(S) /\ Len(t) = Len(s) + 1 /\ x \in S
        /\ \A k, l \in DOMAIN t : t[k] = t[l] => k = l
        /\ \A k \in DOMAIN s : k \in DOMAIN t /\ t[k] = s[k] /\ k < Len(t)
        /\ Len(t) \in DOMAIN t /\ t[Len(t)] = x
        /\ \A k \in DOMAIN t : k \in DOMAIN s \/ k = Len(t)
    <3>1. \A k \in DOMAIN s : s[k] # x
      BY SameSet
    <3>2. s \in Seq(S) /\ x \in S /\ \A k, l \in DOMAIN s : s[k] = s[l] => k = l
      BY <1>3
    <3> QED BY <2>2, <3>1, <3>2, AppendedList
  <2>4. Rest(t) = Rest(s) \ {x}
    BY <2>3, SameSet
  <2>5. Cardinality(Rest(t)) = N - (i + 1)
    <3>1. Cardinality(Rest(s) \ {x}) = Cardinality(Rest(s)) - 1
      <4> HIDE DEF Rest
      <4> QED BY <2>1, FS_RemoveElement
    <3>2. Cardinality(Rest(s)) = N - i
      BY <1>3
    <3> HIDE DEF Rest, N
    <3> QED BY <1>2, <2>4, <3>1, <3>2
  <2>6. ASSUME NEW l \in DOMAIN t, NEW y \in needs[t[l]] \cap S
        PROVE  \E k \in DOMAIN t : k < l /\ t[k] = y
    <3>1. CASE l \in DOMAIN s
      BY <1>3, <2>3, <2>6, <3>1
    <3>2. CASE l = Len(t)
      <4>1. y \notin Rest(s)
        BY <2>2, <2>3, <2>6, <3>2
      <4>2. PICK k \in DOMAIN s : s[k] = y
        BY <2>6, <4>1, SameSet
      <4> QED BY <2>3, <3>2, <4>2
    <3> QED BY <2>3, <3>1, <3>2
  <2>7. Fine(t, i + 1)
    <3> HIDE DEF N, Rest
    <3> QED BY <2>3, <2>5, <2>6
  <2> HIDE DEF Fine
  <2> QED BY <2>7 DEF t
<1> DEFINE T == {i \in 0..N : Fine(f[i], i)}
<1>4. N \in T
  <2>1. 0 \in T
    <3>1. Rest(f[0]) = S /\ DOMAIN f[0] = {} /\ f[0] \in Seq(S)
      BY <1>1, SameSet
    <3> HIDE DEF Rest
    <3> QED BY <1>2, <3>1
  <2>2. \A i \in 0..(N - 1) : i \in T => i + 1 \in T
    <3> TAKE i \in 0..(N - 1)
    <3> HAVE i \in T
    <3>1. i + 1 \in 1..N /\ (i + 1) - 1 = i /\ i + 1 \in 0..N
      BY <1>2
    <3>2. Fine(TakenNext(S, needs, sooner, f[i]), i + 1)
      <4> HIDE DEF Fine
      <4> QED BY <1>3
    <3>3. f[i + 1] = TakenNext(S, needs, sooner, f[i])
      BY <1>1, <3>1
    <3> HIDE DEF Fine
    <3> QED BY <3>1, <3>2, <3>3
  <2>3. N \in 0..N
    BY <1>2
  <2> HIDE DEF T
  <2> QED BY <1>2, <2>1, <2>2, <2>3, UpTo
<1> DEFINE s == f[N]
<1>5. Fine(s, N)
  BY <1>4
<1>6. Rest(s) = {}
  <2>1. Rest(s) \in SUBSET S
    OBVIOUS
  <2>2. Cardinality(Rest(s)) = 0
    BY <1>2, <1>5
  <2> HIDE DEF Rest
  <2> QED BY <2>1, <2>2, FS_Subset, FS_EmptySet
<1>7. \A x \in S : \E k \in DOMAIN s : s[k] = x
  BY <1>6, SameSet
<1>8. Follows(s, needs)
  <2> SUFFICES ASSUME NEW k \in DOMAIN s, NEW l \in DOMAIN s, s[k] \in needs[s[l]] PROVE k < l
    BY DEF Follows
  <2>1. s[k] \in S
    BY <1>5
  <2> QED BY <1>5, <2>1
<1> HIDE DEF s
<1> QED BY <1>1, <1>5, <1>7, <1>8 DEF Ordering, Lists, s

(* emitChunkTxs. *)
LEMMA ChunkEmitted ==
  ASSUME g \in Clusters, NEW S \in SUBSET Forest!Txs
  PROVE  Ordering(Forest!EmitChunk(g, S), S, g.parents)
<1> DEFINE needs == [t \in S |-> g.parents[t] \cap S]
           txs == [t \in S |-> {t}]
           rank == [t \in S |-> -Forest!WeightOf({t})]
           s == Forest!TakeReady(S, needs, Forest!Sooner(g, txs, rank))
<1>1. IsFiniteSet(S) /\ Unlooped(S, needs)
  <2>1. \A R \in SUBSET S : R # {} => \E t \in R : g.parents[t] \cap R = {}
    BY ForestAssumption DEF Forest!Txs
  <2>2. Unlooped(S, needs)
    BY <2>1 DEF Unlooped
  <2> QED BY <2>2, ForestAssumption, FS_Subset DEF Forest!Txs
<1>2. HasSoonest(S, Forest!Sooner(g, txs, rank))
  <2>1. \A t \in S : txs[t] \in SUBSET Forest!Txs /\ txs[t] # {} /\ rank[t] \in Int
    <3>1. \A t \in S : Forest!WeightOf({t}) \in Nat
      BY SetRates
    <3> QED BY <3>1
  <2>2. DOMAIN txs = S
    OBVIOUS
  <2> HIDE DEF txs, rank
  <2> QED BY <1>1, <2>1, <2>2, SoonestExists
<1>3. Ordering(s, S, needs)
  <2> HIDE DEF needs, txs, rank
  <2> QED BY <1>1, <1>2, TakesAll
<1>4. s = Forest!EmitChunk(g, S)
  BY DEF Forest!EmitChunk
<1> HIDE DEF s
<1>5. Follows(s, g.parents)
  <2>1. \A i \in DOMAIN s : s[i] \in S
    BY <1>3 DEF Ordering, Lists
  <2> QED BY <1>3, <2>1 DEF Ordering, Follows
<1> QED BY <1>3, <1>4, <1>5 DEF Ordering

-----------------------------------------------------------------------------
(* A sequence of sequences, laid out in a row: what stands where. *)
LaidAt(s, ss, m, row, col) ==
  /\ row \in [DOMAIN s -> Nat] /\ col \in [DOMAIN s -> Nat]
  /\ \A k \in DOMAIN s : row[k] \in 1..m /\ col[k] \in DOMAIN ss[row[k]] /\ s[k] = ss[row[k]][col[k]]
  /\ \A k, l \in DOMAIN s : k < l => row[k] < row[l] \/ (row[k] = row[l] /\ col[k] < col[l])
  /\ \A i \in 1..m : \A j \in DOMAIN ss[i] : \E k \in DOMAIN s : row[k] = i /\ col[k] = j
Laid(s, ss, m) == \E row, col : LaidAt(s, ss, m, row, col)
FlattenRounds(E, ss) ==
  \E f \in [0..Len(ss) -> Seq(E)] :
    /\ f[0] = <<>> /\ Forest!FlattenSeq(ss) = f[Len(ss)]
    /\ \A i \in 1..Len(ss) : f[i] = f[i - 1] \o ss[i]

LEMMA FlattensByRounds == ASSUME NEW E, NEW ss \in Seq(Seq(E)) PROVE FlattenRounds(E, ss)
<1> DEFINE N == Len(ss)
           V == Seq(E)
           Goes(f) == f = [i \in 1..N |-> IF i = 1 THEN ss[i] ELSE f[i - 1] \o ss[i]]
           flatten == CHOOSE f : Goes(f)
           each == [x \in (1..N) \X V |-> x[2] \o ss[x[1]]]
<1>1. N \in Nat /\ (\A i \in 1..N : ss[i] \in V) /\ (N = 0 => ss = <<>>)
  OBVIOUS
<1>2. Forest!FlattenSeq(ss) = IF N = 0 THEN ss ELSE flatten[N]
  BY Zenon DEF Forest!FlattenSeq
<1>3. <<>> \in V /\ \A x \in V, y \in V : x \o y \in V /\ <<>> \o y = y
  OBVIOUS
<1> HIDE DEF N, V
<1>4. each \in [(1..N) \X V -> V]
  BY <1>1, <1>3
<1>5. PICK f \in [0..N -> V] : f[0] = <<>> /\ \A i \in 1..N : f[i] = each[<<i, f[i - 1]>>]
  <2>1. Iterates(N, V, <<>>, each)
    <3> HIDE DEF each
    <3> QED BY <1>1, <1>3, <1>4, Recursion
  <2> QED BY <2>1 DEF Iterates
<1>6. ASSUME NEW i \in 1..N PROVE f[i] = f[i - 1] \o ss[i]
  <2>1. <<i, f[i - 1]>> \in (1..N) \X V
    BY <1>1
  <2> QED BY <1>5, <2>1
<1> HIDE DEF each
<1>7. 1 \in 1..N => f[1] = ss[1]
  <2> SUFFICES ASSUME 1 \in 1..N PROVE f[1] = ss[1]
    OBVIOUS
  <2>1. f[1] = f[1 - 1] \o ss[1] /\ ss[1] \in V
    BY <1>1, <1>6
  <2>2. 1 - 1 = 0
    OBVIOUS
  <2> QED BY <1>3, <1>5, <2>1, <2>2
<1> DEFINE h == [i \in 1..N |-> f[i]]
<1>8. Goes(h)
  <2>1. \A i \in 1..N : h[i] = IF i = 1 THEN ss[i] ELSE h[i - 1] \o ss[i]
    <3> TAKE i \in 1..N
    <3>1. CASE i = 1
      BY <1>7, <3>1
    <3>2. CASE i # 1
      <4>1. i - 1 \in 1..N
        BY <1>1, <3>2
      <4> QED BY <1>6, <3>2, <4>1
    <3> QED BY <3>1, <3>2
  <2> QED BY <2>1
<1>9. Goes(flatten)
  <2> HIDE DEF h
  <2> QED BY <1>8
<1> HIDE DEF flatten
<1>10. \A i \in 1..N : flatten[i] = IF i = 1 THEN ss[i] ELSE flatten[i - 1] \o ss[i]
  BY <1>9
<1> DEFINE T == {i \in 0..N : i # 0 => flatten[i] = f[i]}
<1>11. N \in T
  <2>1. 0 \in T
    BY <1>1
  <2>2. \A i \in 0..(N - 1) : i \in T => i + 1 \in T
    <3> TAKE i \in 0..(N - 1)
    <3> HAVE i \in T
    <3>1. i + 1 \in 1..N /\ (i + 1) - 1 = i /\ i + 1 \in 0..N /\ (i + 1 = 1 <=> i = 0)
      BY <1>1
    <3>2. f[i + 1] = f[i] \o ss[i + 1] /\ (i = 0 => f[i + 1] = ss[i + 1])
      BY <1>6, <1>7, <3>1
    <3>3. i # 0 => flatten[i] = f[i]
      OBVIOUS
    <3>4. flatten[i + 1] = IF i = 0 THEN ss[i + 1] ELSE flatten[i] \o ss[i + 1]
      BY <1>10, <3>1
    <3> QED BY <3>1, <3>2, <3>3, <3>4
  <2>3. N \in 0..N
    BY <1>1
  <2> HIDE DEF T
  <2> QED BY <1>1, <2>1, <2>2, <2>3, UpTo
<1>12. Forest!FlattenSeq(ss) = f[N]
  BY <1>1, <1>2, <1>5, <1>11
<1> QED BY <1>5, <1>6, <1>12 DEF FlattenRounds, N, V

LEMMA LaidMore ==
  ASSUME NEW E, NEW ss \in Seq(Seq(E)), NEW m \in 0..(Len(ss) - 1), NEW s \in Seq(E), Laid(s, ss, m)
  PROVE  Laid(s \o ss[m + 1], ss, m + 1)
<1> DEFINE u == ss[m + 1]
           t == s \o u
           n == Len(s)
<1>1. /\ m \in Nat /\ m + 1 \in 1..Len(ss) /\ u \in Seq(E) /\ n \in Nat
      /\ \A i \in 1..(m + 1) : i \in 1..m \/ i = m + 1
      /\ \A i \in 1..m : i \in 1..(m + 1) /\ i < m + 1
  OBVIOUS
<1> HIDE DEF u
<1>2. /\ DOMAIN t = 1..(n + Len(u)) /\ DOMAIN s = 1..n /\ DOMAIN u = 1..Len(u) /\ Len(u) \in Nat
      /\ \A k \in DOMAIN t : k \in DOMAIN s \/ k - n \in DOMAIN u
      /\ \A k \in DOMAIN s : k \in DOMAIN t /\ k <= n /\ t[k] = s[k]
      /\ \A k \in DOMAIN t : k \notin DOMAIN s => k > n /\ t[k] = u[k - n]
      /\ \A j \in DOMAIN u : j + n \in DOMAIN t /\ j + n \notin DOMAIN s /\ (j + n) - n = j
  BY <1>1, SMTT(30)
<1> PICK row, col : LaidAt(s, ss, m, row, col)
  BY DEF Laid
<1>3. /\ row \in [DOMAIN s -> Nat] /\ col \in [DOMAIN s -> Nat]
      /\ \A k \in DOMAIN s : row[k] \in 1..m /\ col[k] \in DOMAIN ss[row[k]] /\ s[k] = ss[row[k]][col[k]]
      /\ \A k, l \in DOMAIN s : k < l => row[k] < row[l] \/ (row[k] = row[l] /\ col[k] < col[l])
      /\ \A i \in 1..m : \A j \in DOMAIN ss[i] : \E k \in DOMAIN s : row[k] = i /\ col[k] = j
  BY DEF LaidAt
<1> DEFINE r == [k \in DOMAIN t |-> IF k \in DOMAIN s THEN row[k] ELSE m + 1]
           c == [k \in DOMAIN t |-> IF k \in DOMAIN s THEN col[k] ELSE k - n]
<1> HIDE DEF t
<1>4. /\ \A k \in DOMAIN s : r[k] = row[k] /\ c[k] = col[k]
      /\ \A k \in DOMAIN t : k \notin DOMAIN s => r[k] = m + 1 /\ c[k] = k - n
      /\ r \in [DOMAIN t -> Nat] /\ c \in [DOMAIN t -> Nat]
  BY <1>1, <1>2, <1>3
<1> HIDE DEF r, c, n
<1>5. ASSUME NEW k \in DOMAIN t PROVE r[k] \in 1..(m + 1) /\ c[k] \in DOMAIN ss[r[k]] /\ t[k] = ss[r[k]][c[k]]
  <2>1. CASE k \in DOMAIN s
    BY <1>1, <1>2, <1>3, <1>4, <2>1
  <2>2. CASE k \notin DOMAIN s
    BY <1>1, <1>2, <1>4, <2>2 DEF u
  <2> QED BY <2>1, <2>2
<1>6. ASSUME NEW k \in DOMAIN t, NEW l \in DOMAIN t, k < l
      PROVE r[k] < r[l] \/ (r[k] = r[l] /\ c[k] < c[l])
  <2>1. CASE l \in DOMAIN s
    <3>1. k \in DOMAIN s
      BY <1>2, <1>6, <2>1 DEF n
    <3> QED BY <1>3, <1>4, <1>6, <2>1, <3>1
  <2>2. CASE l \notin DOMAIN s /\ k \in DOMAIN s
    BY <1>1, <1>3, <1>4, <2>2
  <2>3. CASE l \notin DOMAIN s /\ k \notin DOMAIN s
    BY <1>1, <1>2, <1>4, <1>6, <2>3
  <2> QED BY <2>1, <2>2, <2>3
<1>7. ASSUME NEW i \in 1..(m + 1), NEW j \in DOMAIN ss[i] PROVE \E k \in DOMAIN t : r[k] = i /\ c[k] = j
  <2>1. CASE i \in 1..m
    BY <1>2, <1>3, <1>4, <2>1
  <2>2. CASE i = m + 1
    <3>1. j \in DOMAIN u
      BY <1>7, <2>2 DEF u
    <3>2. j + n \in DOMAIN t /\ r[j + n] = m + 1 /\ c[j + n] = j
      BY <1>2, <1>4, <3>1
    <3> QED BY <2>2, <3>2
  <2> QED BY <1>1, <2>1, <2>2
<1>8. LaidAt(t, ss, m + 1, r, c)
  BY <1>4, <1>5, <1>6, <1>7 DEF LaidAt
<1>9. Laid(t, ss, m + 1)
  BY <1>8 DEF Laid
<1> QED BY <1>9 DEF t, u

LEMMA Flattened ==
  ASSUME NEW E, NEW ss \in Seq(Seq(E))
  PROVE  Forest!FlattenSeq(ss) \in Seq(E) /\ Laid(Forest!FlattenSeq(ss), ss, Len(ss))
<1> DEFINE N == Len(ss)
<1>1. PICK f \in [0..N -> Seq(E)] :
        /\ f[0] = <<>> /\ Forest!FlattenSeq(ss) = f[N]
        /\ \A i \in 1..N : f[i] = f[i - 1] \o ss[i]
  BY FlattensByRounds DEF FlattenRounds
<1>2. N \in Nat
  OBVIOUS
<1> DEFINE T == {i \in 0..N : f[i] \in Seq(E) /\ Laid(f[i], ss, i)}
<1>3. N \in T
  <2>1. 0 \in T
    <3>1. DOMAIN f[0] = {} /\ f[0] \in Seq(E)
      BY <1>1
    <3>2. LaidAt(f[0], ss, 0, <<>>, <<>>)
      BY <3>1 DEF LaidAt
    <3>3. Laid(f[0], ss, 0)
      BY <3>2 DEF Laid
    <3> QED BY <1>2, <3>1, <3>3
  <2>2. \A i \in 0..(N - 1) : i \in T => i + 1 \in T
    <3> TAKE i \in 0..(N - 1)
    <3> HAVE i \in T
    <3>1. i + 1 \in 1..N /\ (i + 1) - 1 = i /\ i + 1 \in 0..N
      BY <1>2
    <3>2. f[i + 1] = f[i] \o ss[i + 1] /\ f[i + 1] \in Seq(E)
      BY <1>1, <3>1
    <3>3. Laid(f[i] \o ss[i + 1], ss, i + 1)
      BY LaidMore
    <3> QED BY <3>1, <3>2, <3>3
  <2>3. N \in 0..N
    BY <1>2
  <2> HIDE DEF T
  <2> QED BY <1>2, <2>1, <2>2, <2>3, UpTo
<1> QED BY <1>1, <1>3

(* Groups of members of T: each member in one of them, each group in an order,
   and nothing that rel names for one in a later group. *)
Grouped(gs, T, rel) ==
  /\ gs \in Seq(Seq(T))
  /\ \A i \in DOMAIN gs : gs[i] # <<>> /\ Ordering(gs[i], Forest!ToSet(gs[i]), rel)
  /\ \A i, j \in DOMAIN gs : i < j =>
       /\ Forest!ToSet(gs[i]) \cap Forest!ToSet(gs[j]) = {}
       /\ \A t \in Forest!ToSet(gs[i]) : rel[t] \cap Forest!ToSet(gs[j]) = {}
  /\ \A x \in T : \E i \in DOMAIN gs : x \in Forest!ToSet(gs[i])

(* Groups, one after the other, are an ordering. *)
LEMMA FlattenedGroups ==
  ASSUME NEW T, NEW rel, NEW gs, Grouped(gs, T, rel)
  PROVE  Ordering(Forest!FlattenSeq(gs), T, rel)
<1> DEFINE s == Forest!FlattenSeq(gs)
<1>1. gs \in Seq(Seq(T)) /\ s \in Seq(T) /\ Laid(s, gs, Len(gs)) /\ DOMAIN gs = 1..Len(gs)
  BY Flattened DEF Grouped
<1> PICK row, col : LaidAt(s, gs, Len(gs), row, col)
  BY <1>1 DEF Laid
<1>2. /\ row \in [DOMAIN s -> Nat] /\ col \in [DOMAIN s -> Nat]
      /\ \A k \in DOMAIN s : row[k] \in DOMAIN gs /\ col[k] \in DOMAIN gs[row[k]] /\ s[k] = gs[row[k]][col[k]]
      /\ \A k, l \in DOMAIN s : k < l => row[k] < row[l] \/ (row[k] = row[l] /\ col[k] < col[l])
      /\ \A i \in DOMAIN gs : \A j \in DOMAIN gs[i] : \E k \in DOMAIN s : row[k] = i /\ col[k] = j
  BY <1>1 DEF LaidAt
<1>3. DOMAIN s \subseteq Nat
  BY <1>1
<1> HIDE DEF s
<1>4. \A k, l \in DOMAIN s : row[k] = row[l] /\ col[k] = col[l] => k = l
  BY <1>2, <1>3
<1>5. ASSUME NEW i \in DOMAIN gs, NEW j \in DOMAIN gs, NEW a \in DOMAIN gs[i], NEW b \in DOMAIN gs[j]
      PROVE  /\ gs[i][a] = gs[j][b] => i = j /\ a = b
             /\ gs[i][a] \in rel[gs[j][b]] => i < j \/ (i = j /\ a < b)
  <2>1. gs[i][a] \in Forest!ToSet(gs[i]) /\ gs[j][b] \in Forest!ToSet(gs[j]) /\ i \in Nat /\ j \in Nat
    BY <1>1, SameSet
  <2>2. CASE i = j
    BY <2>2 DEF Grouped, Ordering, Lists, Follows
  <2>3. CASE i < j
    BY <2>1, <2>3 DEF Grouped
  <2>4. CASE j < i
    <3>1. /\ Forest!ToSet(gs[j]) \cap Forest!ToSet(gs[i]) = {}
          /\ rel[gs[j][b]] \cap Forest!ToSet(gs[i]) = {}
      BY <2>1, <2>4 DEF Grouped
    <3> QED BY <2>1, <3>1
  <2> QED BY <2>1, <2>2, <2>3, <2>4
<1>6. ASSUME NEW k \in DOMAIN s, NEW l \in DOMAIN s, s[k] = s[l] PROVE k = l
  <2>1. row[k] = row[l] /\ col[k] = col[l]
    BY <1>2, <1>5, <1>6
  <2> QED BY <1>4, <2>1
<1>7. ASSUME NEW k \in DOMAIN s, NEW l \in DOMAIN s, s[k] \in rel[s[l]] PROVE k < l
  <2>1. row[k] < row[l] \/ (row[k] = row[l] /\ col[k] < col[l])
    BY <1>2, <1>5, <1>7
  <2>2. row[k] \in Nat /\ row[l] \in Nat /\ col[k] \in Nat /\ col[l] \in Nat /\ k \in Nat /\ l \in Nat
    BY <1>2, <1>3
  <2>3. k = l \/ l < k => ~(row[k] < row[l] \/ (row[k] = row[l] /\ col[k] < col[l]))
    BY <1>2, <2>2
  <2> QED BY <2>1, <2>2, <2>3
<1>8. ASSUME NEW x \in T PROVE \E k \in DOMAIN s : s[k] = x
  <2>1. PICK i \in DOMAIN gs : \E a \in DOMAIN gs[i] : gs[i][a] = x
    BY SameSet DEF Grouped
  <2> QED BY <1>2, <2>1
<1>9. Lists(s, T)
  BY <1>1, <1>6, <1>8 DEF Lists
<1>10. Follows(s, rel)
  BY <1>7 DEF Follows
<1> QED BY <1>9, <1>10 DEF Ordering, s

-----------------------------------------------------------------------------
(* The chunks a chunk depends on.  Those of the search depend on one another
   in no cycle from the end of makeTopological on. *)
ChunkNeeds(C, parents) ==
  [c \in C |-> {d \in C \ {c} : \E t \in c : parents[t] \cap d # {}}]
Acyclic == phase \in {"optimize", "minimize"} => Unlooped(chunks, ChunkNeeds(chunks, g.parents))

(* A cut that leaves no parent of the top behind closes no cycle. *)
LEMMA CutStaysUnlooped ==
  ASSUME NEW C, NEW parents, NEW c \in C, NEW top \in SUBSET c,
         \A t \in top : parents[t] \cap (c \ top) = {},
         Unlooped(C, ChunkNeeds(C, parents))
  PROVE  Unlooped(CutIn(C, c, top), ChunkNeeds(CutIn(C, c, top), parents))
<1> DEFINE M == CutIn(C, c, top)
           needs(x, y) == y # x /\ \E t \in x : parents[t] \cap y # {}
           old == ChunkNeeds(C, parents)
           new == ChunkNeeds(M, parents)
<1>1. \A x : x \in M <=> (x \in C /\ x # c) \/ x = top \/ x = c \ top
  BY DEF CutIn
<1>2. /\ \A x, y \in C : y \in old[x] <=> needs(x, y)
      /\ \A x \in M : \A y \in new[x] : needs(x, y)
  BY DEF ChunkNeeds
<1> HIDE DEF M, old, new
<1> SUFFICES ASSUME NEW R \in SUBSET M, R # {} PROVE \E x \in R : new[x] \cap R = {}
  BY DEF Unlooped, M, new
<1> DEFINE cut == {top, c \ top}
           Q == IF R \cap cut = {} THEN R ELSE (R \ cut) \cup {c}
<1>3. Q \in SUBSET C /\ Q # {}
  BY <1>1
<1>4. PICK x \in Q : \A y \in Q : ~needs(x, y)
  <2>1. PICK x \in Q : old[x] \cap Q = {}
    BY <1>3 DEF Unlooped, old
  <2> HIDE DEF needs, Q
  <2>2. \A y \in Q : ~needs(x, y)
    BY <1>2, <1>3, <2>1
  <2> QED BY <2>2
<1>5. CASE x \in R /\ x \notin cut
  <2>1. ASSUME NEW y \in R, needs(x, y) PROVE FALSE
    <3>1. y \in cut
      BY <1>4, <2>1
    <3>2. \E t \in x : parents[t] \cap c # {}
      BY <2>1, <3>1
    <3>3. x # c => needs(x, c)
      BY <3>2
    <3>4. c \in Q
      BY <2>1, <3>1
    <3>5. x = c
      BY <1>4, <3>3, <3>4
    <3>6. c \in cut
      BY <1>1, <1>5, <3>5
    <3> QED BY <1>5, <3>5, <3>6
  <2> HIDE DEF needs
  <2> QED BY <1>2, <1>5, <2>1
<1>6. CASE ~(x \in R /\ x \notin cut)
  <2>1. x = c /\ R \cap cut # {}
    BY <1>4, <1>6
  <2>2. ASSUME NEW z \in cut, NEW y \in R, needs(z, y) PROVE y \in cut
    <3> SUFFICES ASSUME y \notin cut PROVE FALSE
      OBVIOUS
    <3>1. y \in Q
      BY <2>1
    <3>2. \E t \in c : parents[t] \cap y # {}
      BY <2>2
    <3>3. y = c
      BY <1>4, <2>1, <3>1, <3>2
    <3> QED BY <1>1, <3>3
  <2>3. ~needs(top, c \ top)
    OBVIOUS
  <2>4. CASE top \in R
    <3>1. ASSUME NEW y \in R, needs(top, y) PROVE FALSE
      <4>1. y \in cut /\ y # top
        BY <2>2, <3>1
      <4> QED BY <2>3, <3>1, <4>1
    <3> HIDE DEF needs
    <3> QED BY <1>2, <2>4, <3>1
  <2>5. CASE top \notin R /\ c \ top \in R
    <3>1. ASSUME NEW y \in R, needs(c \ top, y) PROVE FALSE
      <4>1. y \in cut /\ y # c \ top
        BY <2>2, <3>1
      <4> QED BY <2>5, <4>1
    <3> DEFINE b == c \ top
    <3>2. b \in R /\ b \in M /\ \A y \in R : ~needs(b, y)
      BY <2>5, <3>1
    <3> HIDE DEF needs, b
    <3>3. new[b] \cap R = {}
      BY <1>2, <3>2
    <3> QED BY <3>2, <3>3
  <2>6. top \in R \/ c \ top \in R
    <3>1. PICK z : z \in R /\ z \in cut
      <4> HIDE DEF cut
      <4> QED BY <2>1
    <3> QED BY <3>1
  <2> QED BY <2>4, <2>5, <2>6
<1> QED BY <1>5, <1>6

(* What the code cuts off has no parent on the other side. *)
LEMMA NothingCutAbove ==
  ASSUME ForestInv, NEW c \in chunks, NEW d \in Forest!Cuts(c)
  PROVE  \A t \in Forest!TopSet(c, d) : g.parents[t] \cap (c \ Forest!TopSet(c, d)) = {}
<1> DEFINE top == Forest!TopSet(c, d)
           D == Forest!Deps
<1>1. c \in SUBSET Forest!Txs /\ IsFiniteSet(c)
  BY FiniteChunks
<1>2. d \in active /\ d \in Forest!Inside(c) /\ d \in DepsIn(D, c) /\ d[2] \notin top /\ IsFiniteSet(active)
  BY InsideIsDepsIn, FiniteChunks DEF Forest!Cuts
<1>3. /\ d[1] \in top /\ top \subseteq c
      /\ \A e \in Remaining(c, d) : e[1] \in top <=> e[2] \in top
  BY <1>1, <1>2, TopSets DEF DepsIn
<1> HIDE DEF top
<1> SUFFICES ASSUME NEW t \in top, NEW p \in g.parents[t], p \in c \ top PROVE FALSE
  BY DEF top
<1> DEFINE e == <<p, t>>
<1>4. e \in DepsIn(D, c)
  <2>1. t \in Forest!Txs /\ p \in Forest!Txs /\ t \in c
    BY <1>1, <1>3
  <2>2. e \in D
    BY <2>1 DEF Forest!Deps
  <2> QED BY <2>1, <2>2 DEF DepsIn
<1>5. e \in active /\ e \in Forest!Inside(c)
  BY <1>4, InsideIsDepsIn DEF ForestInv, Internal
<1>6. e # d
  BY <1>3
<1>7. e \in Remaining(c, d)
  BY <1>5, <1>6 DEF Remaining
<1> QED BY <1>3, <1>7

(* Along a cycle the feerate could not fall at every dependency. *)
LEMMA DescendingIsUnlooped ==
  ASSUME ForestInv, Forest!CrossDescends
  PROVE  Unlooped(chunks, ChunkNeeds(chunks, g.parents))
<1> SUFFICES ASSUME NEW R \in SUBSET chunks, R # {}
             PROVE  \E x \in R : ChunkNeeds(chunks, g.parents)[x] \cap R = {}
  BY DEF Unlooped
<1> DEFINE Q == {p \in R \X R : Forest!HigherFeerate(g, p[2], p[1])}
<1>1. IsFiniteSet(R)
  BY FiniteChunks, FS_Subset
<1>2. \A x, y \in R : <<x, y>> \in Q <=> Forest!HigherFeerate(g, y, x)
  OBVIOUS
<1> HIDE DEF Q
<1>3. \A x \in R : <<x, x>> \notin Q
  BY <1>2, RatesAreOrdered
<1>4. \A x, y, z \in R : <<x, y>> \in Q /\ <<y, z>> \in Q => <<x, z>> \in Q
  BY <1>2, RatesAreOrdered
<1>5. PICK x \in R : \A y \in R : <<x, y>> \notin Q
  BY <1>1, <1>3, <1>4, Extreme
<1>6. ASSUME NEW y \in ChunkNeeds(chunks, g.parents)[x], y \in R PROVE FALSE
  <2>1. y \in chunks /\ y # x /\ \E t \in x : g.parents[t] \cap y # {}
    BY DEF ChunkNeeds
  <2>2. PICK t \in x, p \in y : p \in g.parents[t]
    BY <2>1
  <2>3. t \in Forest!Txs /\ p \in Forest!Txs
    BY <2>1 DEF ForestInv, PartitionOf
  <2>4. <<p, t>> \in Forest!Deps
    BY <2>2, <2>3 DEF Forest!Deps
  <2>5. Forest!HigherFeerate(g, y, x)
    BY <2>1, <2>2, <2>4 DEF Forest!CrossDescends
  <2> QED BY <1>2, <1>5, <1>6, <2>5
<1> QED BY <1>6

(* optimizeSFL and minimizeSFL start without cycles and cut none into the chunks. *)
LEMMA StaysAcyclic == ForestInv /\ Restless /\ Acyclic /\ Forest!Next => Acyclic'
<1> SUFFICES ASSUME ForestInv, Restless, Acyclic, Forest!Next PROVE Acyclic'
  OBVIOUS
<1> DEFINE Fine == Unlooped(chunks, ChunkNeeds(chunks, g.parents))
<1>1. g' = g /\ (chunks' = chunks => (Fine' <=> Fine))
  <2>1. g' = g
    BY DEF Forest!Next, Forest!Search, Forest!NoDependencies, Forest!LoadHint, Forest!StartTopological,
           Forest!TopologicalStep, Forest!TopologicalDone, Forest!OptimizeStep, Forest!OptimizeDone,
           Forest!MinimizeStep, Forest!Finish
  <2> QED BY <2>1
<1>2. ASSUME phase \in {"optimize", "minimize"}, NEW c \in chunks, NEW d \in Forest!Cuts(c), Forest!Split(c, d)
      PROVE  Fine'
  <2>1. Forest!TopSet(c, d) \in SUBSET c /\ chunks' = CutIn(chunks, c, Forest!TopSet(c, d))
    BY <1>1, <1>2, ChunksCut
  <2>2. Fine
    BY <1>2 DEF Acyclic
  <2> HIDE DEF Fine
  <2>3. \A t \in Forest!TopSet(c, d) : g.parents[t] \cap (c \ Forest!TopSet(c, d)) = {}
    BY NothingCutAbove
  <2> QED BY <1>1, <2>1, <2>2, <2>3, CutStaysUnlooped DEF Fine
<1> HIDE DEF Fine
<1>3. CASE Forest!OptimizeStep
  <2>1. phase = "optimize" /\ pending \subseteq chunks
    BY <1>3 DEF Forest!OptimizeStep, ForestInv
  <2>2. \/ \E c \in pending : \E d \in Forest!Cuts(c) : Forest!Split(c, d)
        \/ chunks' = chunks
    BY <1>3 DEF Forest!OptimizeStep
  <2> QED BY <1>1, <1>2, <2>1, <2>2 DEF Acyclic, Fine
<1>4. CASE Forest!MinimizeStep
  <2>1. phase = "minimize" /\ \A e \in pending : e.chunk \in chunks
    BY <1>4 DEF Forest!MinimizeStep, ForestInv
  <2>2. PICK e \in pending : \E pivot \in e.pivots, down \in e.downs : MinimizesBy(e, pivot, down)
    BY <1>4 DEF Forest!MinimizeStep, MinimizesBy
  <2>3. \/ \E d \in Forest!Cuts(e.chunk) : Forest!Split(e.chunk, d)
        \/ chunks' = chunks
    BY <2>2 DEF MinimizesBy
  <2> QED BY <1>1, <1>2, <2>1, <2>3 DEF Acyclic, Fine
<1>5. CASE Forest!TopologicalDone
  <2>1. phase = "topological" /\ phase' = "optimize" /\ chunks' = chunks
    BY <1>5 DEF Forest!TopologicalDone
  <2>2. Forest!CrossDescends
    BY <2>1, OptimizationStartsOrdered DEF Forest!OptimizesTopological
  <2> QED BY <1>1, <2>1, <2>2, DescendingIsUnlooped DEF Acyclic, Fine
<1>6. CASE Forest!OptimizeDone
  BY <1>1, <1>6 DEF Forest!OptimizeDone, Acyclic, Fine
<1>7. CASE Forest!NoDependencies \/ Forest!LoadHint \/ Forest!StartTopological \/ Forest!TopologicalStep \/ Forest!Finish
  <2>1. phase' \notin {"optimize", "minimize"}
    BY <1>7 DEF Forest!NoDependencies, Forest!LoadHint, Forest!StartTopological, Forest!TopologicalStep, Forest!Finish
  <2> QED BY <2>1 DEF Acyclic
<1> QED BY <1>3, <1>4, <1>5, <1>6, <1>7 DEF Forest!Next, Forest!Search

-----------------------------------------------------------------------------
LEMMA ListedSet == ASSUME NEW T, NEW s, Lists(s, T) PROVE Forest!ToSet(s) = T /\ s \in Seq(T)
  BY SameSet DEF Lists

(* Parts C of T in an order, each laid out in an order. *)
LEMMA PartsInOrder ==
  ASSUME NEW T, NEW C, PartitionOf(C, T), NEW rel, NEW order, Ordering(order, C, ChunkNeeds(C, rel)),
         NEW gs, gs = [i \in DOMAIN order |-> gs[i]],
         \A i \in DOMAIN order : Ordering(gs[i], order[i], rel)
  PROVE  Grouped(gs, T, rel)
<1>1. /\ order \in Seq(C) /\ DOMAIN order = 1..Len(order) /\ Len(order) \in Nat
      /\ \A i \in DOMAIN order : order[i] \in C /\ order[i] \subseteq T /\ order[i] # {}
      /\ \A i, j \in DOMAIN order : order[i] = order[j] => i = j
      /\ \A x \in C : \E i \in DOMAIN order : order[i] = x
  <2>1. /\ order \in Seq(C)
        /\ \A i, j \in DOMAIN order : order[i] = order[j] => i = j
        /\ \A x \in C : \E i \in DOMAIN order : order[i] = x
    BY DEF Ordering, Lists
  <2>2. \A c \in C : c \subseteq T /\ c # {}
    BY DEF PartitionOf
  <2>3. DOMAIN order = 1..Len(order) /\ Len(order) \in Nat /\ \A i \in DOMAIN order : order[i] \in C
    BY <2>1
  <2> QED BY <2>1, <2>2, <2>3
<1>2. DOMAIN gs = DOMAIN order
  OBVIOUS
<1>3. \A i \in DOMAIN order : /\ gs[i] \in Seq(order[i]) /\ \A a \in DOMAIN gs[i] : gs[i][a] \in order[i]
                              /\ \A x \in order[i] : \E a \in DOMAIN gs[i] : gs[i][a] = x
  BY DEF Ordering, Lists
<1>4. ASSUME NEW i \in DOMAIN order PROVE gs[i] \in Seq(T) /\ gs[i] # <<>>
  <2>1. gs[i] \in Seq(T)
    BY <1>1, <1>3
  <2>2. PICK x : x \in order[i]
    BY <1>1
  <2>3. PICK a \in DOMAIN gs[i] : gs[i][a] = x
    BY <1>3, <2>2
  <2> QED BY <2>1, <2>3
<1>5. gs \in Seq(Seq(T))
  BY <1>1, <1>2, <1>4
<1>6. \A i \in DOMAIN order : Forest!ToSet(gs[i]) = order[i]
  BY ListedSet DEF Ordering
<1>7. ASSUME NEW i \in DOMAIN order, NEW j \in DOMAIN order, i < j
      PROVE  /\ order[i] \cap order[j] = {}
             /\ \A t \in order[i] : rel[t] \cap order[j] = {}
  <2>1. order[i] \in C /\ order[j] \in C /\ order[i] # order[j]
    BY <1>1, <1>7
  <2>2. ASSUME NEW t \in order[i], rel[t] \cap order[j] # {} PROVE FALSE
    <3>1. order[j] \in ChunkNeeds(C, rel)[order[i]]
      BY <2>1, <2>2 DEF ChunkNeeds
    <3>2. j < i
      BY <3>1 DEF Ordering, Follows
    <3> QED BY <1>1, <1>7, <3>2
  <2> QED BY <2>1, <2>2 DEF PartitionOf
<1>8. ASSUME NEW x \in T PROVE \E i \in DOMAIN gs : x \in order[i]
  <2>1. PICK c \in C : x \in c
    BY DEF PartitionOf
  <2>2. PICK i \in DOMAIN order : order[i] = c
    BY <1>1
  <2> QED BY <1>2, <2>1, <2>2
<1> QED BY <1>2, <1>4, <1>5, <1>6, <1>7, <1>8 DEF Grouped

(* extractLinearization: every transaction once, after its parents. *)
LEMMA Extracted ==
  ASSUME ForestInv, Unlooped(chunks, ChunkNeeds(chunks, g.parents))
  PROVE  Ordering(Forest!ExtractLinearization(g, chunks), Forest!Txs, g.parents)
<1> DEFINE needs == ChunkNeeds(chunks, g.parents)
           txs == [c \in chunks |-> c]
           rank == [c \in chunks |-> -Forest!WeightOf(c)]
           order == Forest!TakeReady(chunks, needs, Forest!Sooner(g, txs, rank))
           gs == [i \in DOMAIN order |-> Forest!EmitChunk(g, order[i])]
<1>1. IsFiniteSet(chunks) /\ PartitionOf(chunks, Forest!Txs) /\ g \in Clusters
  BY FiniteChunks DEF ForestInv
<1>2. HasSoonest(chunks, Forest!Sooner(g, txs, rank))
  <2>1. \A c \in chunks : c \in SUBSET Forest!Txs /\ c # {}
    BY <1>1 DEF PartitionOf
  <2>2. \A c \in chunks : txs[c] \in SUBSET Forest!Txs /\ txs[c] # {} /\ rank[c] \in Int
    <3>1. \A c \in chunks : Forest!WeightOf(c) \in Nat
      BY <1>1, <2>1, SetRates
    <3> QED BY <2>1, <3>1
  <2>3. DOMAIN txs = chunks
    OBVIOUS
  <2> HIDE DEF txs, rank
  <2> QED BY <1>1, <2>2, <2>3, SoonestExists
<1>3. Ordering(order, chunks, needs)
  <2> HIDE DEF needs, txs, rank
  <2>1. Unlooped(chunks, needs)
    BY DEF needs
  <2> QED BY <1>1, <1>2, <2>1, TakesAll
<1>4. Forest!ExtractLinearization(g, chunks) = Forest!FlattenSeq(gs)
  BY Zenon DEF Forest!ExtractLinearization, ChunkNeeds
<1> HIDE DEF order
<1>5. \A i \in DOMAIN order : order[i] \in SUBSET Forest!Txs
  BY <1>1, <1>3 DEF Ordering, Lists, PartitionOf
<1>6. \A i \in DOMAIN order : Ordering(gs[i], order[i], g.parents)
  BY <1>1, <1>5, ChunkEmitted
<1>7. gs = [i \in DOMAIN order |-> gs[i]]
  OBVIOUS
<1> HIDE DEF gs, needs
<1>8. Grouped(gs, Forest!Txs, g.parents)
  BY <1>1, <1>3, <1>6, <1>7, PartsInOrder DEF needs
<1> QED BY <1>4, <1>8, FlattenedGroups

(* sortByFeerateDesc, where nothing depends on anything. *)
LEMMA Sorted ==
  ASSUME g \in Clusters, Forest!Deps = {}
  PROVE  Ordering(Forest!SortByFeerate(g, Forest!Txs), Forest!Txs, g.parents)
<1> DEFINE T == Forest!Txs
           needs == [t \in T |-> {}]
           txs == [t \in T |-> {t}]
           rank == [t \in T |-> 0]
           s == Forest!TakeReady(T, needs, Forest!Sooner(g, txs, rank))
<1>1. IsFiniteSet(T) /\ \A R \in SUBSET T : R # {} => \E x \in R : needs[x] \cap R = {}
  BY ForestAssumption DEF Forest!Txs
<1>2. HasSoonest(T, Forest!Sooner(g, txs, rank))
  <2>1. \A t \in T : txs[t] \in SUBSET Forest!Txs /\ txs[t] # {} /\ rank[t] \in Int
    OBVIOUS
  <2>2. DOMAIN txs = T
    OBVIOUS
  <2> HIDE DEF txs, rank, T
  <2> QED BY <1>1, <2>1, <2>2, SoonestExists
<1>3. Ordering(s, T, needs)
  <2> HIDE DEF needs, txs, rank, T
  <2>1. Unlooped(T, needs)
    BY <1>1 DEF Unlooped
  <2> QED BY <1>1, <1>2, <2>1, TakesAll
<1>4. s = Forest!SortByFeerate(g, T)
  BY DEF Forest!SortByFeerate
<1> HIDE DEF s
<1>5. Follows(s, g.parents)
  <2>1. \A i \in DOMAIN s : s[i] \in T
    BY <1>3 DEF Ordering, Lists
  <2>2. \A t, p \in T : p \notin g.parents[t]
    <3> SUFFICES ASSUME NEW t \in T, NEW p \in T, p \in g.parents[t] PROVE FALSE
      OBVIOUS
    <3>1. <<p, t>> \in Forest!Deps
      BY DEF Forest!Deps
    <3> QED BY <3>1
  <2> QED BY <2>1, <2>2 DEF Follows
<1> QED BY <1>3, <1>4, <1>5 DEF Ordering

-----------------------------------------------------------------------------
(* What is done to groups: one more, two of them joined, some put elsewhere. *)
LEMMA ConcatenatedOrder ==
  ASSUME NEW T, NEW rel, NEW s \in Seq(T), NEW t \in Seq(T),
         Ordering(s, Forest!ToSet(s), rel), Ordering(t, Forest!ToSet(t), rel),
         Forest!ToSet(s) \cap Forest!ToSet(t) = {},
         \A x \in Forest!ToSet(s) : rel[x] \cap Forest!ToSet(t) = {}
  PROVE  /\ Forest!ToSet(s \o t) = Forest!ToSet(s) \cup Forest!ToSet(t)
         /\ Ordering(s \o t, Forest!ToSet(s \o t), rel)
<1> DEFINE u == s \o t
           m == Len(s)
           n == Len(t)
<1>1. /\ u \in Seq(T) /\ DOMAIN u = 1..(m + n) /\ m \in Nat /\ n \in Nat
      /\ DOMAIN s = 1..m /\ DOMAIN t = 1..n
      /\ \A i \in DOMAIN s : i \in DOMAIN u /\ u[i] = s[i]
      /\ \A i \in DOMAIN t : i + m \in DOMAIN u /\ u[i + m] = t[i]
      /\ \A i \in DOMAIN u : i \in DOMAIN s \/ (i - m \in DOMAIN t /\ u[i] = t[i - m])
  OBVIOUS
<1> HIDE DEF u, m, n
<1>2. \A i \in DOMAIN u : \/ i \in DOMAIN s /\ u[i] = s[i] /\ u[i] \in Forest!ToSet(s)
                          \/ i \notin DOMAIN s /\ i - m \in DOMAIN t /\ u[i] = t[i - m] /\ u[i] \in Forest!ToSet(t)
  BY <1>1, SameSet
<1>3. Forest!ToSet(u) = Forest!ToSet(s) \cup Forest!ToSet(t)
  <2>1. \A x \in Forest!ToSet(u) : x \in Forest!ToSet(s) \cup Forest!ToSet(t)
    BY <1>2, SameSet
  <2>2. \A i \in DOMAIN s : s[i] \in Forest!ToSet(u)
    BY <1>1, SameSet
  <2>3. \A i \in DOMAIN t : t[i] \in Forest!ToSet(u)
    BY <1>1, SameSet
  <2>4. \A x \in Forest!ToSet(s) \cup Forest!ToSet(t) : x \in Forest!ToSet(u)
    BY <2>2, <2>3, SameSet
  <2> QED BY <2>1, <2>4
<1>4. ASSUME NEW i \in DOMAIN u, NEW j \in DOMAIN u, u[i] = u[j] PROVE i = j
  <2>1. CASE i \in DOMAIN s /\ j \in DOMAIN s
    BY <1>1, <1>4, <2>1 DEF Ordering, Lists
  <2>2. CASE i \notin DOMAIN s /\ j \notin DOMAIN s
    <3>1. t[i - m] = t[j - m] /\ i - m \in DOMAIN t /\ j - m \in DOMAIN t
      BY <1>2, <1>4, <2>2
    <3>2. i - m = j - m
      BY <3>1 DEF Ordering, Lists
    <3> QED BY <1>1, <3>2
  <2> QED BY <1>2, <1>4, <2>1, <2>2
<1>5. ASSUME NEW i \in DOMAIN u, NEW j \in DOMAIN u, u[i] \in rel[u[j]] PROVE i < j
  <2>1. CASE i \in DOMAIN s /\ j \in DOMAIN s
    BY <1>1, <1>5, <2>1 DEF Ordering, Follows
  <2>2. CASE i \notin DOMAIN s /\ j \notin DOMAIN s
    <3>1. t[i - m] \in rel[t[j - m]] /\ i - m \in DOMAIN t /\ j - m \in DOMAIN t
      BY <1>2, <1>5, <2>2
    <3>2. i - m < j - m
      BY <3>1 DEF Ordering, Follows
    <3> QED BY <1>1, <3>2
  <2>3. CASE i \in DOMAIN s /\ j \notin DOMAIN s
    BY <1>1, <2>3
  <2>4. CASE i \notin DOMAIN s /\ j \in DOMAIN s
    <3>1. u[i] \in Forest!ToSet(t) /\ u[j] \in Forest!ToSet(s)
      BY <1>2, <2>4
    <3> QED BY <1>5, <3>1
  <2> QED BY <2>1, <2>2, <2>3, <2>4
<1>6. u \in Seq(Forest!ToSet(u)) /\ \A x \in Forest!ToSet(u) : \E i \in DOMAIN u : u[i] = x
  BY <1>1, SameSet
<1>7. Ordering(u, Forest!ToSet(u), rel)
  BY <1>4, <1>5, <1>6 DEF Ordering, Lists, Follows
<1> QED BY <1>3, <1>7 DEF u

LEMMA GroupAdded ==
  ASSUME NEW T, NEW rel, NEW gs, Grouped(gs, T, rel), NEW x, x \notin T, x \notin rel[x],
         \A t \in T : x \notin rel[t]
  PROVE  Grouped(Append(gs, <<x>>), T \cup {x}, rel)
<1> DEFINE hs == Append(gs, <<x>>)
           n == Len(gs)
           U == T \cup {x}
<1>1. gs \in Seq(Seq(T)) /\ n \in Nat /\ DOMAIN gs = 1..n /\ \A i \in DOMAIN gs : gs[i] \in Seq(T)
  BY DEF Grouped
<1>2. /\ DOMAIN hs = 1..(n + 1) /\ hs[n + 1] = <<x>>
      /\ \A i \in DOMAIN gs : i \in DOMAIN hs /\ hs[i] = gs[i] /\ i < n + 1
      /\ \A i \in DOMAIN hs : i \in DOMAIN gs \/ i = n + 1
      /\ hs \in Seq(Seq(U))
  <2>1. \A s \in Seq(T) : s \in Seq(U)
    OBVIOUS
  <2>2. gs \in Seq(Seq(U)) /\ <<x>> \in Seq(U)
    BY <1>1, <2>1
  <2> HIDE DEF U
  <2> QED BY <1>1, <2>2
<1> HIDE DEF hs
<1>3. Forest!ToSet(<<x>>) = {x} /\ <<x>> # <<>>
  BY SameSet
<1>4. Ordering(<<x>>, {x}, rel)
  BY DEF Ordering, Lists, Follows
<1>5. \A i \in DOMAIN gs : Forest!ToSet(gs[i]) \subseteq T
  BY <1>1, SameSet
<1>6. ASSUME NEW i \in DOMAIN hs PROVE hs[i] # <<>> /\ Ordering(hs[i], Forest!ToSet(hs[i]), rel)
  BY <1>2, <1>3, <1>4 DEF Grouped
<1>7. ASSUME NEW i \in DOMAIN hs, NEW j \in DOMAIN hs, i < j
      PROVE  /\ Forest!ToSet(hs[i]) \cap Forest!ToSet(hs[j]) = {}
             /\ \A t \in Forest!ToSet(hs[i]) : rel[t] \cap Forest!ToSet(hs[j]) = {}
  <2>1. i \in DOMAIN gs
    BY <1>1, <1>2, <1>7
  <2>2. CASE j \in DOMAIN gs
    BY <1>2, <1>7, <2>1, <2>2 DEF Grouped
  <2>3. CASE j = n + 1
    <3>1. hs[i] = gs[i] /\ hs[j] = <<x>>
      BY <1>2, <2>1, <2>3
    <3>2. Forest!ToSet(hs[i]) \subseteq T /\ Forest!ToSet(hs[j]) = {x}
      BY <1>3, <1>5, <2>1, <3>1
    <3> QED BY <3>2
  <2> QED BY <1>2, <2>2, <2>3
<1>8. ASSUME NEW y \in U PROVE \E i \in DOMAIN hs : y \in Forest!ToSet(hs[i])
  <2>1. CASE y = x
    <3>1. n + 1 \in DOMAIN hs
      BY <1>1, <1>2
    <3>2. Forest!ToSet(hs[n + 1]) = {x}
      BY <1>2, <1>3
    <3> HIDE DEF n
    <3> QED BY <2>1, <3>1, <3>2
  <2>2. CASE y \in T
    BY <1>2, <2>2 DEF Grouped
  <2> QED BY <2>1, <2>2
<1> QED BY <1>2, <1>6, <1>7, <1>8 DEF Grouped, hs

Joined(gs, p) ==
  [i \in 1..(Len(gs) - 1) |-> IF i < p THEN gs[i] ELSE IF i = p THEN gs[p] \o gs[p + 1] ELSE gs[i + 1]]

LEMMA GroupsJoined ==
  ASSUME NEW T, NEW rel, NEW gs, Grouped(gs, T, rel), NEW p \in 1..(Len(gs) - 1)
  PROVE  Grouped(Joined(gs, p), T, rel)
<1> DEFINE hs == Joined(gs, p)
           n == Len(gs)
           S(i) == Forest!ToSet(gs[i])
           both == gs[p] \o gs[p + 1]
<1>1. /\ gs \in Seq(Seq(T)) /\ n \in Nat /\ DOMAIN gs = 1..n
      /\ \A i \in DOMAIN gs : gs[i] \in Seq(T) /\ gs[i] # <<>>
  BY DEF Grouped
<1>2. p \in Nat /\ p \in DOMAIN gs /\ p + 1 \in DOMAIN gs /\ p < p + 1
  BY <1>1
<1>3. /\ Forest!ToSet(both) = S(p) \cup S(p + 1) /\ Ordering(both, Forest!ToSet(both), rel)
      /\ both \in Seq(T) /\ both # <<>>
  <2>1. /\ gs[p] \in Seq(T) /\ gs[p + 1] \in Seq(T) /\ gs[p] # <<>>
        /\ Ordering(gs[p], S(p), rel) /\ Ordering(gs[p + 1], S(p + 1), rel)
        /\ S(p) \cap S(p + 1) = {} /\ \A t \in S(p) : rel[t] \cap S(p + 1) = {}
    BY <1>1, <1>2 DEF Grouped
  <2>2. both \in Seq(T) /\ both # <<>>
    BY <2>1
  <2> QED BY <2>1, <2>2, ConcatenatedOrder
<1> HIDE DEF both
<1>4. /\ DOMAIN hs = 1..(n - 1)
      /\ \A i \in DOMAIN hs : \/ i < p /\ i \in DOMAIN gs /\ hs[i] = gs[i]
                              \/ i = p /\ hs[i] = both
                              \/ i > p /\ i + 1 \in DOMAIN gs /\ hs[i] = gs[i + 1]
  BY <1>1, <1>2, SMTT(30) DEF Joined, both
<1>5. /\ p \in DOMAIN hs
      /\ \A i \in DOMAIN gs : \/ i < p /\ i \in DOMAIN hs /\ hs[i] = gs[i]
                              \/ i = p /\ hs[p] = both
                              \/ i = p + 1 /\ hs[p] = both
                              \/ i > p + 1 /\ i - 1 \in DOMAIN hs /\ hs[i - 1] = gs[i]
  <2>1. p \in DOMAIN hs /\ hs[p] = both
    BY <1>1, <1>2, <1>4
  <2>2. \A i \in DOMAIN gs : i < p => i \in DOMAIN hs /\ hs[i] = gs[i]
    BY <1>1, <1>2, <1>4, SMTT(30)
  <2>3. ASSUME NEW i \in DOMAIN gs, i > p + 1 PROVE i - 1 \in DOMAIN hs /\ hs[i - 1] = gs[i]
    <3>1. i - 1 \in DOMAIN hs /\ i - 1 > p /\ (i - 1) + 1 = i
      BY <1>1, <1>2, <1>4, <2>3
    <3> QED BY <1>2, <1>4, <3>1
  <2> QED BY <1>1, <1>2, <2>1, <2>2, <2>3
<1> HIDE DEF hs
<1>6. ASSUME NEW i \in DOMAIN hs PROVE hs[i] \in Seq(T) /\ hs[i] # <<>> /\ Ordering(hs[i], Forest!ToSet(hs[i]), rel)
  BY <1>1, <1>3, <1>4 DEF Grouped
<1>7. hs \in Seq(Seq(T))
  <2>1. hs = [i \in 1..(n - 1) |-> hs[i]]
    BY <1>4 DEF hs, Joined
  <2>2. n - 1 \in Nat
    BY <1>1, <1>2
  <2> HIDE DEF n
  <2> QED BY <1>4, <1>6, <2>1, <2>2
<1>8. ASSUME NEW i \in DOMAIN gs, NEW j \in DOMAIN gs, i < j
      PROVE S(i) \cap S(j) = {} /\ \A t \in S(i) : rel[t] \cap S(j) = {}
  BY <1>8 DEF Grouped
<1>9. ASSUME NEW i \in DOMAIN hs, NEW j \in DOMAIN hs, i < j
      PROVE  /\ Forest!ToSet(hs[i]) \cap Forest!ToSet(hs[j]) = {}
             /\ \A t \in Forest!ToSet(hs[i]) : rel[t] \cap Forest!ToSet(hs[j]) = {}
  <2>0. i \in Nat /\ j \in Nat
    BY <1>1, <1>4
  <2> HIDE DEF S, n
  <2>1. \E a, b : /\ a \in DOMAIN gs /\ b \in DOMAIN gs
                  /\ Forest!ToSet(hs[i]) = S(a) /\ Forest!ToSet(hs[j]) = S(b) /\ a < b
                  \/ i = p \/ j = p
    <3>1. CASE i < p /\ j < p
      BY <1>4, <1>9, <2>0, <3>1 DEF S
    <3>2. CASE i < p /\ j > p
      <4>1. i < j + 1
        BY <2>0, <1>9
      <4> QED BY <1>2, <1>4, <2>0, <3>2, <4>1 DEF S
    <3>3. CASE i > p /\ j > p
      <4>1. i + 1 < j + 1
        BY <2>0, <1>9
      <4> QED BY <1>2, <1>4, <2>0, <3>3, <4>1 DEF S
    <3> QED BY <1>2, <1>9, <2>0, <3>1, <3>2, <3>3
  <2>2. CASE i = p
    <3>1. j > p /\ j + 1 \in DOMAIN gs /\ hs[j] = gs[j + 1] /\ p < j + 1 /\ p + 1 < j + 1
      BY <1>2, <1>4, <1>9, <2>0, <2>2
    <3>2. hs[i] = both
      BY <1>4, <1>2, <2>2
    <3>3. Forest!ToSet(hs[i]) = S(p) \cup S(p + 1) /\ Forest!ToSet(hs[j]) = S(j + 1)
      BY <1>3, <3>1, <3>2 DEF S
    <3>4. /\ S(p) \cap S(j + 1) = {} /\ \A t \in S(p) : rel[t] \cap S(j + 1) = {}
          /\ S(p + 1) \cap S(j + 1) = {} /\ \A t \in S(p + 1) : rel[t] \cap S(j + 1) = {}
      BY <1>2, <1>8, <3>1
    <3> QED BY <3>3, <3>4
  <2>3. CASE j = p
    <3>1. i < p /\ i \in DOMAIN gs /\ hs[i] = gs[i] /\ i < p + 1
      BY <1>2, <1>4, <1>9, <2>0, <2>3
    <3>2. hs[j] = both
      BY <1>4, <1>2, <2>3
    <3>3. Forest!ToSet(hs[j]) = S(p) \cup S(p + 1) /\ Forest!ToSet(hs[i]) = S(i)
      BY <1>3, <3>1, <3>2 DEF S
    <3>4. /\ S(i) \cap S(p) = {} /\ \A t \in S(i) : rel[t] \cap S(p) = {}
          /\ S(i) \cap S(p + 1) = {} /\ \A t \in S(i) : rel[t] \cap S(p + 1) = {}
      BY <1>2, <1>8, <3>1
    <3> QED BY <3>3, <3>4
  <2>4. CASE i # p /\ j # p
    <3>1. PICK a, b : /\ a \in DOMAIN gs /\ b \in DOMAIN gs
                      /\ Forest!ToSet(hs[i]) = S(a) /\ Forest!ToSet(hs[j]) = S(b) /\ a < b
      BY <2>1, <2>4
    <3> QED BY <1>8, <3>1
  <2> QED BY <2>2, <2>3, <2>4
<1>10. ASSUME NEW x \in T PROVE \E i \in DOMAIN hs : x \in Forest!ToSet(hs[i])
  <2>1. PICK k \in DOMAIN gs : x \in S(k)
    BY DEF Grouped
  <2>2. CASE k = p \/ k = p + 1
    <3>1. hs[p] = both /\ p \in DOMAIN hs
      BY <1>2, <1>5
    <3> QED BY <1>3, <2>1, <2>2, <3>1
  <2>3. CASE k # p /\ k # p + 1
    BY <1>5, <2>1, <2>3
  <2> QED BY <2>2, <2>3
<1> QED BY <1>6, <1>7, <1>9, <1>10 DEF Grouped, hs

LEMMA GroupsRearranged ==
  ASSUME NEW T, NEW rel, NEW gs, Grouped(gs, T, rel), NEW order, Lists(order, DOMAIN gs),
         \A k, l \in DOMAIN order : k < l =>
           \A t \in Forest!ToSet(gs[order[k]]) : rel[t] \cap Forest!ToSet(gs[order[l]]) = {}
  PROVE  Grouped([k \in DOMAIN order |-> gs[order[k]]], T, rel)
<1> DEFINE hs == [k \in DOMAIN order |-> gs[order[k]]]
<1>1. gs \in Seq(Seq(T)) /\ order \in Seq(DOMAIN gs)
  BY DEF Grouped, Lists
<1>2. /\ DOMAIN order = 1..Len(order) /\ Len(order) \in Nat /\ DOMAIN gs = 1..Len(gs) /\ Len(gs) \in Nat
      /\ \A k \in DOMAIN order : order[k] \in DOMAIN gs
      /\ \A i \in DOMAIN gs : gs[i] \in Seq(T)
  BY <1>1
<1>3. hs \in Seq(Seq(T)) /\ DOMAIN hs = DOMAIN order /\ \A k \in DOMAIN hs : hs[k] = gs[order[k]]
  BY <1>2
<1> HIDE DEF hs
<1>4. ASSUME NEW i \in DOMAIN hs PROVE hs[i] # <<>> /\ Ordering(hs[i], Forest!ToSet(hs[i]), rel)
  BY <1>2, <1>3 DEF Grouped
<1>5. ASSUME NEW i \in DOMAIN hs, NEW j \in DOMAIN hs, i < j
      PROVE  /\ Forest!ToSet(hs[i]) \cap Forest!ToSet(hs[j]) = {}
             /\ \A t \in Forest!ToSet(hs[i]) : rel[t] \cap Forest!ToSet(hs[j]) = {}
  <2>1. order[i] # order[j]
    <3>1. i # j
      BY <1>2, <1>3, <1>5
    <3> QED BY <1>3, <3>1 DEF Lists
  <2>2. order[i] \in 1..Len(gs) /\ order[j] \in 1..Len(gs)
    BY <1>2, <1>3
  <2>3. order[i] < order[j] \/ order[j] < order[i]
    BY <1>2, <2>1, <2>2
  <2>4. Forest!ToSet(gs[order[i]]) \cap Forest!ToSet(gs[order[j]]) = {}
    BY <1>2, <2>2, <2>3 DEF Grouped
  <2> QED BY <1>3, <1>5, <2>4
<1>6. ASSUME NEW x \in T PROVE \E i \in DOMAIN hs : x \in Forest!ToSet(hs[i])
  <2>1. PICK i \in DOMAIN gs : x \in Forest!ToSet(gs[i])
    BY DEF Grouped
  <2>2. PICK k \in DOMAIN order : order[k] = i
    BY DEF Lists
  <2> QED BY <1>3, <2>1, <2>2
<1> QED BY <1>3, <1>4, <1>5, <1>6 DEF Grouped, hs

-----------------------------------------------------------------------------
(* chunkify. *)
AbsorbsLast(c) ==
  LET n == Len(c)
  IN IF n >= 2 /\ Forest!HigherFeerate(g, Forest!ToSet(c[n]), Forest!ToSet(c[n - 1]))
     THEN Append(SubSeq(c, 1, n - 2), c[n - 1] \o c[n])
     ELSE c

LEMMA LastAbsorbed ==
  ASSUME NEW T, NEW c \in Seq(Seq(T))
  PROVE  /\ AbsorbsLast(c) \in Seq(Seq(T))
         /\ AbsorbsLast(c) = c \/ (Len(c) - 1 \in 1..(Len(c) - 1) /\ AbsorbsLast(c) = Joined(c, Len(c) - 1))
<1> DEFINE n == Len(c)
           V == Seq(T)
           both == c[n - 1] \o c[n]
           d == Append(SubSeq(c, 1, n - 2), both)
<1>1. CASE AbsorbsLast(c) = c
  BY <1>1
<1>2. CASE AbsorbsLast(c) # c
  <2>1. n >= 2 /\ AbsorbsLast(c) = d
    BY <1>2 DEF AbsorbsLast
  <2>2. n \in Nat /\ n - 1 \in DOMAIN c /\ n \in DOMAIN c /\ n - 1 \in 1..(n - 1) /\ n - 2 \in 0..n /\ (n - 1) + 1 = n
    BY <2>1
  <2>3. c[n - 1] \in V /\ c[n] \in V
    BY <2>2
  <2>4. both \in V
    BY <2>3
  <2> HIDE DEF V, both, n
  <2>5. /\ SubSeq(c, 1, n - 2) \in Seq(V) /\ Len(SubSeq(c, 1, n - 2)) = n - 2
        /\ \A i \in 1..(n - 2) : SubSeq(c, 1, n - 2)[i] = c[i]
    BY <2>1, <2>2 DEF n, V
  <2>6. /\ d \in Seq(V) /\ DOMAIN d = 1..(n - 1) /\ d[n - 1] = both
        /\ \A i \in 1..(n - 2) : d[i] = c[i]
    BY <2>1, <2>2, <2>4, <2>5
  <2> HIDE DEF d
  <2>7. \A i \in 1..(n - 1) : d[i] = IF i < n - 1 THEN c[i] ELSE IF i = n - 1 THEN both ELSE c[i + 1]
    BY <2>1, <2>2, <2>6
  <2>8. d = [i \in 1..(n - 1) |-> d[i]]
    BY <2>6
  <2>9. d = Joined(c, n - 1)
    <3>1. Joined(c, n - 1) = [i \in 1..(n - 1) |-> IF i < n - 1 THEN c[i] ELSE IF i = n - 1 THEN both ELSE c[i + 1]]
      BY <2>2, Zenon DEF Joined, both, n
    <3> QED BY <2>7, <2>8, <3>1
  <2> QED BY <2>1, <2>2, <2>6, <2>9 DEF n, V
<1> QED BY <1>1, <1>2

LEMMA AbsorbStays ==
  ASSUME NEW T, NEW V \in SUBSET Seq(Seq(T)), \A c \in V : AbsorbsLast(c) \in V, NEW cs \in V
  PROVE  Forest!Absorb(g, cs) \in V
<1> DEFINE N == Len(cs)
           Goes(f) == f = [i \in 0..N |-> IF i = 0 THEN cs ELSE AbsorbsLast(f[i - 1])]
           rounds == CHOOSE f : Goes(f)
           each == [x \in (1..N) \X V |-> AbsorbsLast(x[2])]
           I == (0..N) \X V
<1>1. N \in Nat
  OBVIOUS
<1>2. Forest!Absorb(g, cs) = rounds[N]
  BY Zenon DEF Forest!Absorb, AbsorbsLast
<1> HIDE DEF N
<1>3. RecursIn(N, V, I, cs, each)
  <2>1. I \in SUBSET ((0..N) \X V) /\ <<0, cs>> \in I
    BY <1>1
  <2>2. \A i \in 1..N : \A v \in V : <<i - 1, v>> \in I => <<i, each[<<i, v>>]>> \in I
    BY <1>1
  <2>3. \A i \in 1..N : \A v \in V : each[<<i, v>>] = AbsorbsLast(v)
    OBVIOUS
  <2> HIDE DEF each, I
  <2> QED BY <1>1, <2>1, <2>2, GuardedRecursion
<1> PICK f \in [0..N -> V] : f[0] = cs /\ \A i \in 1..N : f[i] = each[<<i, f[i - 1]>>]
  BY <1>3 DEF RecursIn
<1>4. Goes(f)
  <2>1. \A i \in 0..N : f[i] = IF i = 0 THEN cs ELSE AbsorbsLast(f[i - 1])
    <3> TAKE i \in 0..N
    <3>1. CASE i # 0
      <4>1. i \in 1..N /\ i - 1 \in 0..N /\ f[i - 1] \in V
        BY <1>1, <3>1
      <4> QED BY <3>1, <4>1
    <3> QED BY <3>1
  <2> QED BY <2>1
<1>5. Goes(rounds)
  BY <1>4
<1> HIDE DEF rounds
<1>6. rounds[0] = cs /\ \A i \in 1..N : rounds[i] = AbsorbsLast(rounds[i - 1])
  BY <1>1, <1>5
<1>7. <<N, rounds[N]>> \in I
  <2>1. \A i \in 1..N : <<i - 1, rounds[i - 1]>> \in I => <<i, rounds[i]>> \in I
    BY <1>1, <1>6
  <2>2. <<0, rounds[0]>> \in I
    BY <1>1, <1>6
  <2> HIDE DEF I
  <2> QED BY <1>1, <2>1, <2>2, StaysIn
<1> QED BY <1>2, <1>7

LEMMA Absorbed ==
  ASSUME NEW T, NEW cs \in Seq(Seq(T))
  PROVE  /\ Forest!Absorb(g, cs) \in Seq(Seq(T))
         /\ \A rel : Grouped(cs, T, rel) => Grouped(Forest!Absorb(g, cs), T, rel)
<1>1. Forest!Absorb(g, cs) \in Seq(Seq(T))
  <2> DEFINE V == Seq(Seq(T))
  <2>1. V \in SUBSET Seq(Seq(T)) /\ (\A c \in V : AbsorbsLast(c) \in V) /\ cs \in V
    BY LastAbsorbed
  <2> HIDE DEF V
  <2>2. Forest!Absorb(g, cs) \in V
    BY <2>1, AbsorbStays
  <2> QED BY <2>2 DEF V
<1>2. ASSUME NEW rel, Grouped(cs, T, rel) PROVE Grouped(Forest!Absorb(g, cs), T, rel)
  <2> DEFINE V == {c \in Seq(Seq(T)) : Grouped(c, T, rel)}
  <2>1. V \in SUBSET Seq(Seq(T)) /\ cs \in V
    BY <1>2
  <2>2. ASSUME NEW c \in V PROVE AbsorbsLast(c) \in V
    <3>1. c \in Seq(Seq(T)) /\ Grouped(c, T, rel)
      OBVIOUS
    <3>2. Grouped(AbsorbsLast(c), T, rel)
      BY <3>1, LastAbsorbed, GroupsJoined
    <3>3. AbsorbsLast(c) \in Seq(Seq(T))
      BY <3>1, LastAbsorbed
    <3> QED BY <3>2, <3>3
  <2> HIDE DEF V
  <2>3. Forest!Absorb(g, cs) \in V
    BY <2>1, <2>2, AbsorbStays
  <2> QED BY <2>3 DEF V
<1> QED BY <1>1, <1>2

Prefix(s, n) == {s[j] : j \in 1..n}

LEMMA PrefixGrown ==
  ASSUME NEW T, NEW rel, NEW s, Ordering(s, T, rel), NEW i \in 1..Len(s), NEW gs, Grouped(gs, Prefix(s, i - 1), rel)
  PROVE  /\ Grouped(Append(gs, <<s[i]>>), Prefix(s, i), rel)
         /\ gs \in Seq(Seq(T)) /\ Append(gs, <<s[i]>>) \in Seq(Seq(T)) /\ Append(gs, <<s[i]>>) \in Seq(Seq(Prefix(s, i)))
<1> DEFINE x == s[i]
           P == Prefix(s, i - 1)
<1>1. s \in Seq(T) /\ DOMAIN s = 1..Len(s) /\ Len(s) \in Nat /\ i \in DOMAIN s /\ x \in T
  BY DEF Ordering, Lists
<1>2. \A j \in 1..(i - 1) : j \in DOMAIN s /\ j # i /\ ~(i < j)
  BY <1>1
<1>3. P \subseteq T /\ x \notin P /\ x \notin rel[x] /\ \A t \in P : x \notin rel[t]
  <2>1. x \notin rel[x]
    BY <1>1 DEF Ordering, Follows
  <2>2. ASSUME NEW t \in P PROVE t \in T /\ t # x /\ x \notin rel[t]
    <3>1. PICK j \in 1..(i - 1) : t = s[j]
      BY DEF Prefix
    <3> QED BY <1>1, <1>2, <3>1 DEF Ordering, Lists, Follows
  <2> QED BY <2>1, <2>2
<1>4. Prefix(s, i) = P \cup {x}
  <2>1. \A j \in 1..i : j \in 1..(i - 1) \/ j = i
    BY <1>1
  <2>2. \A j \in 1..(i - 1) : j \in 1..i
    BY <1>1
  <2>3. i \in 1..i
    BY <1>1
  <2> QED BY <2>1, <2>2, <2>3 DEF Prefix
<1>5. gs \in Seq(Seq(P)) /\ Grouped(gs, P, rel)
  BY DEF Grouped
<1> HIDE DEF P, x
<1>6. Grouped(Append(gs, <<x>>), P \cup {x}, rel)
  BY <1>3, <1>5, GroupAdded
<1>7. \A U : P \subseteq U => gs \in Seq(Seq(U))
  BY <1>5
<1>8. \A U : P \subseteq U /\ x \in U => Append(gs, <<x>>) \in Seq(Seq(U))
  <2> TAKE U
  <2> HAVE P \subseteq U /\ x \in U
  <2>1. gs \in Seq(Seq(U)) /\ <<x>> \in Seq(U)
    BY <1>7
  <2> QED BY <2>1
<1> QED BY <1>1, <1>3, <1>4, <1>6, <1>7, <1>8 DEF x, P

LEMMA PrefixEnds ==
  ASSUME NEW T, NEW s, Lists(s, T)
  PROVE  Prefix(s, 0) = {} /\ Prefix(s, Len(s)) = T /\ Len(s) \in Nat
<1>1. s \in Seq(T) /\ DOMAIN s = 1..Len(s) /\ Len(s) \in Nat
  BY DEF Lists
<1>2. Prefix(s, Len(s)) = T
  BY <1>1 DEF Prefix, Lists
<1> QED BY <1>1, <1>2 DEF Prefix

LEMMA NoGroups == ASSUME NEW rel PROVE Grouped(<<>>, {}, rel)
  BY DEF Grouped

(* chunkify: the chunks of an ordering are its groups. *)
LEMMA Chunkified ==
  ASSUME NEW T, NEW rel, NEW s, Ordering(s, T, rel)
  PROVE  Grouped(Forest!Chunkify(g, s), T, rel)
<1> DEFINE N == Len(s)
           V == Seq(Seq(T))
           Grow(c, i) == Forest!Absorb(g, Append(c, <<s[i]>>))
           Goes(f) == f = [i \in 0..N |-> IF i = 0 THEN <<>> ELSE Grow(f[i - 1], i)]
           rounds == CHOOSE f : Goes(f)
           each == [x \in (1..N) \X V |-> Grow(x[2], x[1])]
           I == {x \in (0..N) \X V : Grouped(x[2], Prefix(s, x[1]), rel)}
<1>1. N \in Nat /\ Prefix(s, 0) = {} /\ Prefix(s, N) = T
  BY PrefixEnds DEF Ordering
<1>2. Forest!Chunkify(g, s) = rounds[N]
  BY Zenon DEF Forest!Chunkify
<1>3. ASSUME NEW i \in 1..N, NEW c, Grouped(c, Prefix(s, i - 1), rel)
      PROVE  Grow(c, i) \in V /\ Grouped(Grow(c, i), Prefix(s, i), rel)
  <2> DEFINE d == Append(c, <<s[i]>>)
             P == Prefix(s, i)
  <2>1. Grouped(d, P, rel) /\ d \in V /\ d \in Seq(Seq(P))
    BY <1>3, PrefixGrown
  <2> HIDE DEF d, P
  <2>2. Forest!Absorb(g, d) \in V
    BY <2>1, Absorbed
  <2>3. Grouped(Forest!Absorb(g, d), P, rel)
    BY <2>1, Absorbed
  <2> QED BY <2>2, <2>3 DEF d, P
<1> HIDE DEF N, V, Grow
<1>4. ASSUME NEW i \in 1..N, NEW c, <<i - 1, c>> \in I PROVE <<i, Grow(c, i)>> \in I
  <2>1. Grouped(c, Prefix(s, i - 1), rel)
    BY <1>4
  <2>2. i \in 0..N
    BY <1>1
  <2> QED BY <1>3, <2>1, <2>2
<1>5. <<0, <<>>>> \in I
  <2>1. <<>> \in V /\ 0 \in 0..N
    BY <1>1 DEF V
  <2>2. Grouped(<<>>, Prefix(s, 0), rel)
    BY <1>1, NoGroups
  <2> QED BY <2>1, <2>2
<1>6. RecursIn(N, V, I, <<>>, each)
  <2>1. I \in SUBSET ((0..N) \X V)
    OBVIOUS
  <2>2. \A i \in 1..N : \A v \in V : each[<<i, v>>] = Grow(v, i)
    OBVIOUS
  <2> HIDE DEF each, I
  <2> QED BY <1>1, <1>4, <1>5, <2>1, <2>2, GuardedRecursion
<1> PICK f \in [0..N -> V] : f[0] = <<>> /\ \A i \in 1..N : f[i] = each[<<i, f[i - 1]>>]
  BY <1>6 DEF RecursIn
<1>7. Goes(f)
  <2>1. \A i \in 0..N : f[i] = IF i = 0 THEN <<>> ELSE Grow(f[i - 1], i)
    <3> TAKE i \in 0..N
    <3>1. CASE i # 0
      <4>1. i \in 1..N /\ i - 1 \in 0..N /\ f[i - 1] \in V
        BY <1>1, <3>1
      <4> QED BY <3>1, <4>1
    <3> QED BY <3>1
  <2> QED BY <2>1
<1>8. Goes(rounds)
  BY <1>7
<1> HIDE DEF rounds
<1>9. rounds[0] = <<>> /\ \A i \in 1..N : rounds[i] = Grow(rounds[i - 1], i)
  BY <1>1, <1>8
<1>10. <<N, rounds[N]>> \in I
  <2>1. \A i \in 1..N : <<i - 1, rounds[i - 1]>> \in I => <<i, rounds[i]>> \in I
    BY <1>4, <1>9
  <2>2. <<0, rounds[0]>> \in I
    BY <1>5, <1>9
  <2> HIDE DEF I
  <2> QED BY <1>1, <2>1, <2>2, StaysIn
<1>11. Grouped(rounds[N], Prefix(s, N), rel)
  BY <1>10
<1> QED BY <1>1, <1>2, <1>11

-----------------------------------------------------------------------------
(* postLinearizePass: what a group does at position pos. *)
ClimbsOnce(rel, forward, gs, pos) ==
  LET cur == gs[pos]
      before == gs[pos - 1]
      pays(A, B) == IF forward THEN Forest!HigherFeerate(g, A, B) ELSE Forest!HigherFeerate(g, B, A)
  IN IF \E t \in Forest!ToSet(cur) : rel[t] \cap Forest!ToSet(before) # {}
     THEN <<Forest!ReplaceAt(Forest!RemoveAt(gs, pos), pos - 1, before \o cur), TRUE>>
     ELSE IF pays(Forest!ToSet(cur), Forest!ToSet(before))
          THEN <<[gs EXCEPT ![pos] = before, ![pos - 1] = cur], TRUE>>
          ELSE <<gs, FALSE>>
Climbs(rel, gs, T, u, pos) ==
  /\ u = <<u[1], u[2]>> /\ Grouped(u[1], T, rel) /\ u[2] \in BOOLEAN
  /\ u[2] => Len(u[1]) >= pos - 1

LEMMA SubSeqTaken ==
  ASSUME NEW V, NEW s \in Seq(V), NEW m \in Nat \ {0}, m <= Len(s) + 1
  PROVE  LET b == SubSeq(s, m, Len(s))
         IN /\ b \in Seq(V) /\ Len(b) = Len(s) - m + 1
            /\ \A i \in 1..(Len(s) - m + 1) : b[i] = s[m + i - 1]
<1>1. m \in Int /\ Len(s) \in Int /\ \A i \in m..Len(s) : s[i] \in V
  OBVIOUS
<1>2. /\ SubSeq(s, m, Len(s)) \in Seq(V)
      /\ Len(SubSeq(s, m, Len(s))) = IF m <= Len(s) THEN Len(s) - m + 1 ELSE 0
      /\ \A i \in 1..(Len(s) - m + 1) : SubSeq(s, m, Len(s))[i] = s[m + i - 1]
  BY <1>1, SubSeqProperties
<1>3. (IF m <= Len(s) THEN Len(s) - m + 1 ELSE 0) = Len(s) - m + 1
  OBVIOUS
<1> QED BY <1>2, <1>3

(* The splice of merge, as a join of two neighbours. *)
LEMMA JoinedInPlace ==
  ASSUME NEW T, NEW gs \in Seq(Seq(T)), NEW pos \in 2..Len(gs)
  PROVE  Forest!ReplaceAt(Forest!RemoveAt(gs, pos), pos - 1, gs[pos - 1] \o gs[pos]) = Joined(gs, pos - 1)
<1> DEFINE V == Seq(T)
           n == Len(gs)
           both == gs[pos - 1] \o gs[pos]
           a == SubSeq(gs, 1, pos - 1)
           b == SubSeq(gs, pos + 1, n)
           r == a \o b
<1>1. /\ n \in Nat /\ DOMAIN gs = 1..n /\ pos \in Nat /\ pos >= 2 /\ pos <= n /\ gs \in Seq(V)
      /\ pos - 1 \in DOMAIN gs /\ pos \in DOMAIN gs /\ (pos - 1) + 1 = pos
  OBVIOUS
<1>2. Forest!RemoveAt(gs, pos) = r
  BY DEF Forest!RemoveAt
<1> HIDE DEF V, n
<1>3. /\ a \in Seq(V) /\ Len(a) = pos - 1 /\ \A i \in 1..(pos - 1) : a[i] = gs[i]
      /\ b \in Seq(V) /\ Len(b) = n - pos /\ \A i \in 1..(n - pos) : b[i] = gs[i + pos]
  <2>1. a \in Seq(V) /\ Len(a) = pos - 1 /\ \A i \in 1..(pos - 1) : a[i] = gs[i]
    BY <1>1 DEF n
  <2>2. pos + 1 \in Nat \ {0} /\ pos + 1 <= Len(gs) + 1
    BY <1>1 DEF n
  <2>3. /\ SubSeq(gs, pos + 1, Len(gs)) \in Seq(V) /\ Len(SubSeq(gs, pos + 1, Len(gs))) = Len(gs) - (pos + 1) + 1
        /\ \A i \in 1..(Len(gs) - (pos + 1) + 1) : SubSeq(gs, pos + 1, Len(gs))[i] = gs[(pos + 1) + i - 1]
    BY <1>1, <2>2, SubSeqTaken
  <2>4. /\ b \in Seq(V) /\ Len(b) = n - (pos + 1) + 1
        /\ \A i \in 1..(n - (pos + 1) + 1) : b[i] = gs[(pos + 1) + i - 1]
    BY <2>3 DEF n
  <2>5. Len(b) = n - pos /\ n - (pos + 1) + 1 = n - pos
    BY <1>1, <2>4
  <2>6. \A i \in 1..(n - pos) : b[i] = gs[i + pos]
    <3> TAKE i \in 1..(n - pos)
    <3>1. (pos + 1) + i - 1 = i + pos
      BY <1>1
    <3> QED BY <2>4, <2>5, <3>1
  <2> QED BY <2>1, <2>4, <2>5, <2>6
<1> HIDE DEF a, b
<1>4. /\ r \in Seq(V) /\ DOMAIN r = 1..(n - 1)
      /\ \A i \in 1..(n - 1) : r[i] = IF i < pos THEN gs[i] ELSE gs[i + 1]
  <2>0. /\ r \in Seq(V) /\ Len(r) = Len(a) + Len(b)
        /\ \A i \in 1..(Len(a) + Len(b)) : r[i] = IF i <= Len(a) THEN a[i] ELSE b[i - Len(a)]
    BY <1>3, ConcatProperties
  <2>1. r \in Seq(V) /\ Len(r) = n - 1 /\ Len(a) + Len(b) = n - 1
    BY <1>1, <1>3, <2>0
  <2>2. \A i \in 1..(pos - 1) : r[i] = gs[i]
    BY <1>1, <1>3, <2>0, <2>1
  <2>3. ASSUME NEW i \in 1..(n - 1), ~(i < pos) PROVE r[i] = gs[i + 1]
    <3>1. r[i] = b[i - (pos - 1)]
      <4>1. i \in 1..(Len(a) + Len(b)) /\ ~(i <= Len(a)) /\ Len(a) = pos - 1
        BY <1>1, <1>3, <2>1, <2>3
      <4> HIDE DEF r
      <4> QED BY <2>0, <4>1
    <3>2. i - (pos - 1) \in 1..(n - pos) /\ (i - (pos - 1)) + pos = i + 1
      BY <1>1, <2>3
    <3> QED BY <1>3, <3>1, <3>2
  <2>4. DOMAIN r = 1..(n - 1)
    BY <2>1
  <2>5. \A i \in 1..(n - 1) : i < pos => i \in 1..(pos - 1)
    BY <1>1
  <2> QED BY <2>1, <2>2, <2>3, <2>4, <2>5
<1> HIDE DEF r, both
<1>5. Forest!ReplaceAt(r, pos - 1, both) = [i \in 1..(n - 1) |-> IF i = pos - 1 THEN both ELSE r[i]]
  BY <1>1, <1>4 DEF Forest!ReplaceAt
<1>6. \A i \in 1..(n - 1) :
        (IF i = pos - 1 THEN both ELSE r[i])
          = IF i < pos - 1 THEN gs[i] ELSE IF i = pos - 1 THEN both ELSE gs[i + 1]
  BY <1>1, <1>4
<1>7. Joined(gs, pos - 1)
        = [i \in 1..(n - 1) |-> IF i < pos - 1 THEN gs[i] ELSE IF i = pos - 1 THEN both ELSE gs[i + 1]]
  BY <1>1 DEF Joined, both, n
<1> QED BY <1>2, <1>5, <1>6, <1>7 DEF both

(* swap: neighbours that do not depend on each other change places. *)
LEMMA GroupsSwapped ==
  ASSUME NEW T, NEW rel, NEW gs, Grouped(gs, T, rel), NEW pos \in 2..Len(gs),
         \A t \in Forest!ToSet(gs[pos]) : rel[t] \cap Forest!ToSet(gs[pos - 1]) = {}
  PROVE  Grouped([gs EXCEPT ![pos] = gs[pos - 1], ![pos - 1] = gs[pos]], T, rel)
<1> DEFINE n == Len(gs)
           order == [k \in 1..n |-> IF k = pos THEN pos - 1 ELSE IF k = pos - 1 THEN pos ELSE k]
           hs == [k \in DOMAIN order |-> gs[order[k]]]
           S(i) == Forest!ToSet(gs[i])
<1>1. gs \in Seq(Seq(T)) /\ n \in Nat /\ DOMAIN gs = 1..n /\ pos \in Nat /\ pos - 1 \in 1..n /\ pos \in 1..n
  BY DEF Grouped
<1>2. [gs EXCEPT ![pos] = gs[pos - 1], ![pos - 1] = gs[pos]] = hs
  <2>1. gs = [k \in 1..n |-> gs[k]]
    BY <1>1
  <2> QED BY <1>1, <2>1
<1>3. \A k \in 1..n : order[k] \in 1..n /\ order[order[k]] = k
  BY <1>1
<1>4. DOMAIN order = 1..n
  OBVIOUS
<1>5. Lists(order, DOMAIN gs)
  <2>1. order \in [1..n -> 1..n]
    BY <1>3
  <2> HIDE DEF order, n
  <2>2. order \in Seq(1..n)
    BY <1>1, <2>1, SMTT(30)
  <2>3. DOMAIN gs = 1..n
    BY <1>1
  <2>4. \A i, j \in 1..n : order[i] = order[j] => i = j
    BY <1>3
  <2>5. \A x \in 1..n : \E i \in 1..n : order[i] = x
    BY <1>3
  <2> QED BY <1>4, <2>2, <2>3, <2>4, <2>5 DEF Lists
<1>6. \A k, l \in 1..n : k < l => order[k] < order[l] \/ (order[k] = pos /\ order[l] = pos - 1)
  BY <1>1
<1> HIDE DEF order, n, S
<1>7. ASSUME NEW k \in DOMAIN order, NEW l \in DOMAIN order, k < l PROVE \A t \in S(order[k]) : rel[t] \cap S(order[l]) = {}
  <2>1. CASE order[k] < order[l]
    BY <1>1, <1>3, <1>4, <2>1 DEF Grouped, S
  <2>2. CASE order[k] = pos /\ order[l] = pos - 1
    BY <2>2 DEF S
  <2> QED BY <1>4, <1>6, <1>7, <2>1, <2>2
<1>8. Grouped(hs, T, rel)
  <2> HIDE DEF hs
  <2> QED BY <1>5, <1>7, GroupsRearranged DEF S, hs
<1> QED BY <1>2, <1>8

LEMMA ClimbedOnce ==
  ASSUME NEW T, NEW rel, NEW forward, NEW gs, Grouped(gs, T, rel), NEW pos \in 2..Len(gs)
  PROVE  Climbs(rel, gs, T, ClimbsOnce(rel, forward, gs, pos), pos)
<1> DEFINE u == ClimbsOnce(rel, forward, gs, pos)
           linked == \E t \in Forest!ToSet(gs[pos]) : rel[t] \cap Forest!ToSet(gs[pos - 1]) # {}
           swapped == [gs EXCEPT ![pos] = gs[pos - 1], ![pos - 1] = gs[pos]]
<1>1. gs \in Seq(Seq(T)) /\ Len(gs) \in Nat /\ pos - 1 \in 1..(Len(gs) - 1)
  BY DEF Grouped
<1>2. CASE linked
  <2>1. u = <<Joined(gs, pos - 1), TRUE>>
    BY <1>1, <1>2, JoinedInPlace DEF ClimbsOnce
  <2>2. Grouped(Joined(gs, pos - 1), T, rel)
    BY <1>1, GroupsJoined
  <2>3. Joined(gs, pos - 1) \in Seq(Seq(T)) /\ DOMAIN Joined(gs, pos - 1) = 1..(Len(gs) - 1)
    BY <2>2 DEF Grouped, Joined
  <2>4. Len(Joined(gs, pos - 1)) >= pos - 1
    BY <1>1, <2>3
  <2> HIDE DEF u
  <2> QED BY <2>1, <2>2, <2>4 DEF Climbs, u
<1>3. CASE ~linked
  <2>1. u = <<swapped, TRUE>> \/ u = <<gs, FALSE>>
    BY <1>3 DEF ClimbsOnce
  <2>2. Grouped(swapped, T, rel)
    BY <1>3, GroupsSwapped
  <2>3. Len(swapped) = Len(gs)
    BY <1>1
  <2>4. CASE u = <<swapped, TRUE>>
    <3> HIDE DEF u, swapped
    <3>1. u[1] = swapped /\ u[2] = TRUE /\ u = <<u[1], u[2]>>
      BY <2>4
    <3>2. Len(u[1]) >= pos - 1
      BY <1>1, <2>3, <3>1
    <3> QED BY <2>2, <3>1, <3>2 DEF Climbs, u
  <2>5. CASE u = <<gs, FALSE>>
    <3> HIDE DEF u
    <3>1. u[1] = gs /\ u[2] = FALSE /\ u = <<u[1], u[2]>>
      BY <2>5
    <3> QED BY <3>1 DEF Climbs, u
  <2> QED BY <2>1, <2>4, <2>5
<1> QED BY <1>2, <1>3

(* A group climbs to where it stays. *)
LEMMA Climbed ==
  ASSUME NEW T, NEW rel, NEW forward, NEW gs, Grouped(gs, T, rel), gs # <<>>
  PROVE  Grouped(Forest!Climb(gs, g, rel, forward), T, rel)
<1> DEFINE last == Len(gs)
           N == last - 1
           V == Seq(Seq(T)) \X BOOLEAN
           Up(u, i) == IF u[2] THEN ClimbsOnce(rel, forward, u[1], last - i + 1) ELSE u
           Goes(f) == f = [i \in 0..N |-> IF i = 0 THEN <<gs, TRUE>> ELSE Up(f[i - 1], i)]
           rounds == CHOOSE f : Goes(f)
           each == [x \in (1..N) \X V |-> Up(x[2], x[1])]
           I == {x \in (0..N) \X V : Climbs(rel, gs, T, x[2], last - x[1] + 1)}
<1>1. N \in Nat /\ last \in Nat
  <2>1. gs \in Seq(Seq(T))
    BY DEF Grouped
  <2> QED BY <2>1
<1>2. Forest!Climb(gs, g, rel, forward) = rounds[N][1]
  BY Zenon DEF Forest!Climb, ClimbsOnce
<1>3. ASSUME NEW i \in 1..N, NEW u, Climbs(rel, gs, T, u, last - (i - 1) + 1)
      PROVE  Climbs(rel, gs, T, Up(u, i), last - i + 1)
  <2>1. /\ u = <<u[1], u[2]>> /\ Grouped(u[1], T, rel) /\ u[2] \in BOOLEAN
        /\ u[2] => Len(u[1]) >= (last - (i - 1) + 1) - 1
    BY <1>3 DEF Climbs
  <2>2. CASE u[2]
    <3>1. u[1] \in Seq(Seq(T))
      BY <2>1 DEF Grouped
    <3>2. last - i + 1 \in 2..Len(u[1])
      BY <1>1, <2>1, <2>2, <3>1
    <3>3. Climbs(rel, u[1], T, ClimbsOnce(rel, forward, u[1], last - i + 1), last - i + 1)
      BY <2>1, <3>2, ClimbedOnce
    <3> QED BY <2>2, <3>3 DEF Climbs
  <2>3. CASE ~u[2]
    BY <2>1, <2>3 DEF Climbs
  <2> QED BY <2>2, <2>3
<1>4. ASSUME NEW i, NEW u, Climbs(rel, gs, T, u, i) PROVE u \in V
  <2>1. u = <<u[1], u[2]>> /\ u[1] \in Seq(Seq(T)) /\ u[2] \in BOOLEAN
    BY <1>4 DEF Climbs, Grouped
  <2> QED BY <2>1
<1>5. Climbs(rel, gs, T, <<gs, TRUE>>, last - 0 + 1)
  BY <1>1 DEF Climbs
<1> HIDE DEF last, N, V, Up
<1>6. ASSUME NEW i \in 1..N, NEW u, <<i - 1, u>> \in I PROVE <<i, Up(u, i)>> \in I
  <2>1. Climbs(rel, gs, T, u, last - (i - 1) + 1)
    BY <1>6
  <2>2. Climbs(rel, gs, T, Up(u, i), last - i + 1) /\ i \in 0..N
    BY <1>1, <1>3, <2>1
  <2>3. Up(u, i) \in V
    BY <1>4, <2>2
  <2> QED BY <2>2, <2>3
<1>7. <<0, <<gs, TRUE>>>> \in I
  <2>1. <<gs, TRUE>> \in V /\ 0 \in 0..N
    BY <1>1, <1>4, <1>5
  <2> QED BY <1>5, <2>1
<1>8. RecursIn(N, V, I, <<gs, TRUE>>, each)
  <2>1. I \in SUBSET ((0..N) \X V)
    OBVIOUS
  <2>2. \A i \in 1..N : \A v \in V : each[<<i, v>>] = Up(v, i)
    OBVIOUS
  <2> HIDE DEF each, I
  <2> QED BY <1>1, <1>6, <1>7, <2>1, <2>2, GuardedRecursion
<1> PICK f \in [0..N -> V] : f[0] = <<gs, TRUE>> /\ \A i \in 1..N : f[i] = each[<<i, f[i - 1]>>]
  BY <1>8 DEF RecursIn
<1>9. Goes(f)
  <2>1. \A i \in 0..N : f[i] = IF i = 0 THEN <<gs, TRUE>> ELSE Up(f[i - 1], i)
    <3> TAKE i \in 0..N
    <3>1. CASE i # 0
      <4>1. i \in 1..N /\ i - 1 \in 0..N /\ f[i - 1] \in V
        BY <1>1, <3>1
      <4> QED BY <3>1, <4>1
    <3> QED BY <3>1
  <2> QED BY <2>1
<1>10. Goes(rounds)
  BY <1>9
<1> HIDE DEF rounds
<1>11. rounds[0] = <<gs, TRUE>> /\ \A i \in 1..N : rounds[i] = Up(rounds[i - 1], i)
  <2>1. \A i \in 0..N : rounds[i] = IF i = 0 THEN <<gs, TRUE>> ELSE Up(rounds[i - 1], i)
    BY <1>10
  <2>2. 0 \in 0..N /\ \A i \in 1..N : i \in 0..N /\ i # 0
    BY <1>1
  <2> QED BY <2>1, <2>2
<1>12. <<N, rounds[N]>> \in I
  <2>1. \A i \in 1..N : <<i - 1, rounds[i - 1]>> \in I => <<i, rounds[i]>> \in I
    BY <1>6, <1>11
  <2>2. <<0, rounds[0]>> \in I
    BY <1>7, <1>11
  <2> HIDE DEF I
  <2> QED BY <1>1, <2>1, <2>2, StaysIn
<1>13. Climbs(rel, gs, T, rounds[N], last - N + 1)
  BY <1>12
<1> QED BY <1>2, <1>13 DEF Climbs

(* A pass in one direction over an ordering keeps it one. *)
Grows(c, rel, forward, s, i) == Forest!Climb(Append(c, <<s[i]>>), g, rel, forward)
GrownBy(rel, forward, s) ==
  LET groups[i \in 0..Len(s)] == IF i = 0 THEN <<>> ELSE Grows(groups[i - 1], rel, forward, s, i)
  IN groups[Len(s)]

LEMMA GrownGroups ==
  ASSUME NEW T, NEW rel, NEW forward, NEW s, Ordering(s, T, rel)
  PROVE  Grouped(GrownBy(rel, forward, s), T, rel)
<1> DEFINE N == Len(s)
           V == Seq(Seq(T))
           Grow(c, i) == Grows(c, rel, forward, s, i)
           Goes(f) == f = [i \in 0..N |-> IF i = 0 THEN <<>> ELSE Grow(f[i - 1], i)]
           rounds == CHOOSE f : Goes(f)
           each == [x \in (1..N) \X V |-> Grow(x[2], x[1])]
           I == {x \in (0..N) \X V : Grouped(x[2], Prefix(s, x[1]), rel)}
<1>1. N \in Nat /\ Prefix(s, 0) = {} /\ Prefix(s, N) = T
  BY PrefixEnds DEF Ordering
<1>2. GrownBy(rel, forward, s) = rounds[N]
  BY Zenon DEF GrownBy
<1>3. ASSUME NEW i \in 1..N, NEW c, Grouped(c, Prefix(s, i - 1), rel)
      PROVE  Grow(c, i) \in V /\ Grouped(Grow(c, i), Prefix(s, i), rel)
  <2> DEFINE d == Append(c, <<s[i]>>)
             P == Prefix(s, i)
  <2>1. Grouped(d, P, rel) /\ c \in V
    BY <1>3, PrefixGrown
  <2>2. d # <<>>
    <3>1. s[i] \in P
      BY <1>1 DEF Prefix
    <3>2. \E k : k \in DOMAIN d
      BY <2>1, <3>1 DEF Grouped
    <3> HIDE DEF d
    <3> QED BY <3>2
  <2>3. P \subseteq T
    BY <1>1 DEF Prefix
  <2> HIDE DEF d, P
  <2>4. Grouped(Forest!Climb(d, g, rel, forward), P, rel)
    BY <2>1, <2>2, Climbed
  <2>5. Forest!Climb(d, g, rel, forward) \in Seq(Seq(P))
    BY <2>4 DEF Grouped
  <2>6. \A x \in Seq(Seq(P)) : x \in V
    BY <2>3
  <2> QED BY <2>4, <2>5, <2>6 DEF d, P, Grows
<1> HIDE DEF N, V, Grow
<1>4. ASSUME NEW i \in 1..N, NEW c, <<i - 1, c>> \in I PROVE <<i, Grow(c, i)>> \in I
  <2>1. Grouped(c, Prefix(s, i - 1), rel)
    BY <1>4
  <2>2. i \in 0..N
    BY <1>1
  <2> QED BY <1>3, <2>1, <2>2
<1>5. <<0, <<>>>> \in I
  <2>1. <<>> \in V /\ 0 \in 0..N
    BY <1>1 DEF V
  <2>2. Grouped(<<>>, Prefix(s, 0), rel)
    BY <1>1, NoGroups
  <2> QED BY <2>1, <2>2
<1>6. RecursIn(N, V, I, <<>>, each)
  <2>1. I \in SUBSET ((0..N) \X V)
    OBVIOUS
  <2>2. \A i \in 1..N : \A v \in V : each[<<i, v>>] = Grow(v, i)
    OBVIOUS
  <2> HIDE DEF each, I
  <2> QED BY <1>1, <1>4, <1>5, <2>1, <2>2, GuardedRecursion
<1> PICK f \in [0..N -> V] : f[0] = <<>> /\ \A i \in 1..N : f[i] = each[<<i, f[i - 1]>>]
  BY <1>6 DEF RecursIn
<1>7. Goes(f)
  <2>1. \A i \in 0..N : f[i] = IF i = 0 THEN <<>> ELSE Grow(f[i - 1], i)
    <3> TAKE i \in 0..N
    <3>1. CASE i # 0
      <4>1. i \in 1..N /\ i - 1 \in 0..N /\ f[i - 1] \in V
        BY <1>1, <3>1
      <4> QED BY <3>1, <4>1
    <3> QED BY <3>1
  <2> QED BY <2>1
<1>8. Goes(rounds)
  BY <1>7
<1> HIDE DEF rounds
<1>9. rounds[0] = <<>> /\ \A i \in 1..N : rounds[i] = Grow(rounds[i - 1], i)
  BY <1>1, <1>8
<1>10. <<N, rounds[N]>> \in I
  <2>1. \A i \in 1..N : <<i - 1, rounds[i - 1]>> \in I => <<i, rounds[i]>> \in I
    BY <1>4, <1>9
  <2>2. <<0, rounds[0]>> \in I
    BY <1>5, <1>9
  <2> HIDE DEF I
  <2> QED BY <1>1, <2>1, <2>2, StaysIn
<1>11. Grouped(rounds[N], Prefix(s, N), rel)
  BY <1>10
<1> QED BY <1>1, <1>2, <1>11

(* The second pass runs from the end, over the children instead of the parents. *)
LEMMA Reversed ==
  ASSUME NEW T, NEW rel, NEW back, NEW s, Ordering(s, T, rel),
         \A t, u \in T : u \in back[t] => t \in rel[u]
  PROVE  Ordering(Forest!Reverse(s), T, back)
<1> DEFINE n == Len(s)
           r == Forest!Reverse(s)
<1>1. s \in Seq(T) /\ DOMAIN s = 1..n /\ n \in Nat /\ \A i \in 1..n : s[i] \in T
  BY DEF Ordering, Lists
<1>2. /\ r = [i \in 1..n |-> s[(n - i) + 1]]
      /\ \A i \in 1..n : (n - i) + 1 \in 1..n /\ (n - ((n - i) + 1)) + 1 = i
      /\ \A i, j \in 1..n : (n - i) + 1 = (n - j) + 1 => i = j
      /\ \A i, j \in 1..n : (n - i) + 1 < (n - j) + 1 => j < i
  <2>1. r = [i \in 1..n |-> s[(n - i) + 1]]
    BY DEF Forest!Reverse
  <2> HIDE DEF r, n
  <2> QED BY <1>1, <2>1
<1>3. DOMAIN r = 1..n /\ \A i \in 1..n : r[i] = s[(n - i) + 1] /\ r[i] \in T
  BY <1>1, <1>2
<1> HIDE DEF r, n
<1>4. r \in Seq(T)
  <2>1. r \in [1..n -> T]
    BY <1>2, <1>3
  <2> QED BY <1>1, <2>1
<1>5. ASSUME NEW i \in 1..n, NEW j \in 1..n, r[i] = r[j] PROVE i = j
  <2>1. (n - i) + 1 = (n - j) + 1
    <3>1. s[(n - i) + 1] = s[(n - j) + 1] /\ (n - i) + 1 \in DOMAIN s /\ (n - j) + 1 \in DOMAIN s
      BY <1>1, <1>2, <1>3, <1>5
    <3>2. \A k, l \in DOMAIN s : s[k] = s[l] => k = l
      BY DEF Ordering, Lists
    <3> HIDE DEF n
    <3> QED BY <3>1, <3>2
  <2> QED BY <1>2, <2>1
<1>6. ASSUME NEW i \in 1..n, NEW j \in 1..n, r[i] \in back[r[j]] PROVE i < j
  <2>1. r[j] \in rel[r[i]]
    BY <1>3, <1>6
  <2>2. (n - j) + 1 < (n - i) + 1
    BY <1>1, <1>2, <1>3, <2>1 DEF Ordering, Follows
  <2> QED BY <1>2, <2>2
<1>7. ASSUME NEW x \in T PROVE \E i \in 1..n : r[i] = x
  <2>1. PICK k \in 1..n : s[k] = x
    BY <1>1 DEF Ordering, Lists
  <2>2. (n - k) + 1 \in 1..n /\ r[(n - k) + 1] = s[k]
    BY <1>2, <1>3
  <2> QED BY <2>1, <2>2
<1>8. Lists(r, T)
  BY <1>3, <1>4, <1>5, <1>7 DEF Lists
<1>9. Follows(r, back)
  BY <1>3, <1>6 DEF Follows
<1> QED BY <1>8, <1>9 DEF Ordering, r

LEMMA PassKeepsOrder ==
  ASSUME NEW s, Ordering(s, Forest!Txs, g.parents), NEW forward \in BOOLEAN
  PROVE  Ordering(Forest!PostPass(g, s, forward), Forest!Txs, g.parents)
<1> DEFINE T == Forest!Txs
           children == [t \in DOMAIN g.parents |-> {u \in DOMAIN g.parents : t \in g.parents[u]}]
           rel == IF forward THEN g.parents ELSE children
           input == IF forward THEN s ELSE Forest!Reverse(s)
           output == Forest!FlattenSeq(GrownBy(rel, forward, input))
<1>1. Forest!PostPass(g, s, forward) = IF forward THEN output ELSE Forest!Reverse(output)
  BY Zenon DEF Forest!PostPass, GrownBy, Grows
<1>2. \A t, u \in T : u \in children[t] <=> t \in g.parents[u]
  BY DEF Forest!Txs
<1> HIDE DEF children, output
<1>3. Ordering(input, T, rel)
  <2>1. CASE forward
    BY <2>1
  <2>2. CASE ~forward
    <3>1. Ordering(Forest!Reverse(s), T, children)
      <4> HIDE DEF T
      <4> QED BY <1>2, Reversed DEF T
    <3> QED BY <2>2, <3>1
  <2> QED BY <2>1, <2>2
<1> HIDE DEF T, rel, input
<1>4. Ordering(output, T, rel)
  BY <1>3, GrownGroups, FlattenedGroups DEF output
<1>5. CASE forward
  BY <1>1, <1>4, <1>5 DEF T, rel
<1>6. CASE ~forward
  <2>1. Ordering(output, T, children)
    BY <1>4, <1>6 DEF rel
  <2>2. Ordering(Forest!Reverse(output), T, g.parents)
    BY <1>2, <2>1, Reversed
  <2> QED BY <1>1, <1>6, <2>2 DEF T
<1> QED BY <1>5, <1>6

LEMMA PostLinearized ==
  ASSUME NEW s, Ordering(s, Forest!Txs, g.parents)
  PROVE  Ordering(Forest!PostLinearize(g, s), Forest!Txs, g.parents)
<1>1. Ordering(Forest!PostPass(g, s, TRUE), Forest!Txs, g.parents)
  BY PassKeepsOrder
<1>2. Ordering(Forest!PostPass(g, Forest!PostPass(g, s, TRUE), FALSE), Forest!Txs, g.parents)
  BY <1>1, PassKeepsOrder
<1> QED BY <1>2 DEF Forest!PostLinearize

-----------------------------------------------------------------------------
(* The parts of a chunk: connected, and with no dependency between them. *)
Shut(S, A) == A \in SUBSET S /\ Forest!LinkedIn(g, S, A) = A

(* What the dependencies inside S reach from t: the least set that is shut. *)
LEMMA PartIsLeast ==
  ASSUME NEW S, IsFiniteSet(S), NEW t \in S
  PROVE  LET P == Forest!PartOf(g, S, t)
         IN /\ t \in P /\ Shut(S, P)
            /\ \A A : Shut(S, A) /\ t \in A => P \subseteq A
<1> DEFINE N == Cardinality(S)
           V == SUBSET S
           Grow(A) == Forest!LinkedIn(g, S, A)
           step == [A \in V |-> Grow(A)]
           Goes(f) == f = [i \in 0..N |-> IF i = 0 THEN {t} ELSE Grow(f[i - 1])]
           rounds == CHOOSE f : Goes(f)
           each == [x \in (1..N) \X V |-> Grow(x[2])]
<1>1. N \in Nat
  BY FS_CardinalityType
<1>2. Forest!PartOf(g, S, t) = rounds[N]
  BY SameCount, Zenon DEF Forest!PartOf
<1>3. \A A \in V : Grow(A) \in V /\ A \subseteq Grow(A)
  BY DEF Forest!LinkedIn
<1>4. \A A, B \in V : A \subseteq B => Grow(A) \subseteq Grow(B)
  BY DEF Forest!LinkedIn
<1>5. {t} \in V
  OBVIOUS
<1> HIDE DEF N, V, Grow
<1>6. each \in [(1..N) \X V -> V] /\ step \in [V -> V]
  BY <1>3
<1>7. PICK f \in [0..N -> V] : f[0] = {t} /\ \A i \in 1..N : f[i] = each[<<i, f[i - 1]>>]
  <2>1. Iterates(N, V, {t}, each)
    <3> HIDE DEF each
    <3> QED BY <1>1, <1>5, <1>6, Recursion
  <2> QED BY <2>1 DEF Iterates
<1>8. ASSUME NEW i \in 1..N PROVE f[i] = Grow(f[i - 1]) /\ f[i - 1] \in V
  <2>1. <<i, f[i - 1]>> \in (1..N) \X V
    BY <1>1
  <2> QED BY <1>7, <2>1
<1> HIDE DEF each
<1>9. Goes(f)
  <2>1. \A i \in 0..N : f[i] = IF i = 0 THEN {t} ELSE Grow(f[i - 1])
    BY <1>1, <1>7, <1>8
  <2> QED BY <2>1
<1>10. Goes(rounds)
  BY <1>9
<1> HIDE DEF rounds
<1>11. rounds[0] = {t} /\ \A i \in 1..N : rounds[i] = Grow(rounds[i - 1])
  <2>1. \A i \in 0..N : rounds[i] = IF i = 0 THEN {t} ELSE Grow(rounds[i - 1])
    BY <1>10
  <2>2. 0 \in 0..N /\ \A i \in 1..N : i \in 0..N /\ i # 0
    BY <1>1
  <2> QED BY <2>1, <2>2
<1>12. rounds \in [0..N -> V] /\ t \in rounds[N]
  <2> DEFINE D == {i \in 0..N : rounds[i] \in V /\ t \in rounds[i]}
  <2>1. 0 \in D
    <3>1. 0 \in 0..N
      BY <1>1
    <3>2. rounds[0] \in V /\ t \in rounds[0]
      BY <1>5, <1>11, Zenon
    <3> QED BY <3>1, <3>2
  <2>2. \A i \in 0..(N - 1) : i \in D => i + 1 \in D
    <3> TAKE i \in 0..(N - 1)
    <3> HAVE i \in D
    <3>1. i + 1 \in 1..N /\ (i + 1) - 1 = i /\ i + 1 \in 0..N
      BY <1>1
    <3> QED BY <1>3, <1>11, <3>1
  <2>3. \A i \in 0..N : i \in D
    <3> HIDE DEF D
    <3> QED BY <1>1, <2>1, <2>2, UpTo
  <2>4. rounds = [i \in 0..N |-> rounds[i]]
    <3>1. DOMAIN rounds = 0..N
      BY <1>10
    <3> QED BY <1>10
  <2>5. N \in 0..N
    BY <1>1
  <2> QED BY <2>3, <2>4, <2>5
<1>13. Grow(rounds[N]) = rounds[N]
  <2>1. step[rounds[N]] = rounds[N]
    <3>1. \A A \in V : A \subseteq step[A]
      BY <1>3
    <3>2. \A i \in 1..N : rounds[i] = step[rounds[i - 1]]
      <4> TAKE i \in 1..N
      <4>1. i - 1 \in 0..N
        BY <1>1
      <4> QED BY <1>11, <1>12, <4>1
    <3> HIDE DEF step
    <3> QED BY <1>6, <1>12, <3>1, <3>2, RoundsClose DEF N, V
  <2>2. rounds[N] \in V
    BY <1>1, <1>12
  <2> QED BY <2>1, <2>2
<1>14. ASSUME NEW A, Shut(S, A), t \in A PROVE rounds[N] \subseteq A
  <2>1. A \in V /\ Grow(A) = A
    BY <1>14 DEF Shut, V, Grow
  <2> DEFINE D == {i \in 0..N : rounds[i] \subseteq A}
  <2>2. 0 \in D
    BY <1>1, <1>11, <1>14
  <2>3. \A i \in 0..(N - 1) : i \in D => i + 1 \in D
    <3> TAKE i \in 0..(N - 1)
    <3> HAVE i \in D
    <3>1. i + 1 \in 1..N /\ (i + 1) - 1 = i /\ i + 1 \in 0..N /\ i \in 0..N
      BY <1>1
    <3>2. rounds[i + 1] = Grow(rounds[i]) /\ rounds[i] \in V /\ rounds[i] \subseteq A
      BY <1>11, <1>12, <3>1
    <3> QED BY <1>4, <2>1, <3>1, <3>2
  <2>4. N \in 0..N
    BY <1>1
  <2> HIDE DEF D
  <2>5. N \in D
    BY <1>1, <2>2, <2>3, <2>4, UpTo
  <2> QED BY <2>5 DEF D
<1>15. Shut(S, rounds[N])
  BY <1>1, <1>12, <1>13 DEF Shut, V, Grow
<1> QED BY <1>2, <1>12, <1>14, <1>15

LEMMA PartsPartition ==
  ASSUME NEW S, IsFiniteSet(S)
  PROVE  /\ PartitionOf(Forest!PartsOf(g, S), S)
         /\ \A A, B \in Forest!PartsOf(g, S) : A # B => \A t \in A : g.parents[t] \cap B = {}
<1> DEFINE P(t) == Forest!PartOf(g, S, t)
           C == Forest!PartsOf(g, S)
<1>1. \A t \in S : t \in P(t) /\ Shut(S, P(t)) /\ \A A : Shut(S, A) /\ t \in A => P(t) \subseteq A
  BY PartIsLeast
<1>2. C = {P(t) : t \in S}
  BY DEF Forest!PartsOf
<1> HIDE DEF P, C
<1>3. \A A : Shut(S, A) => Shut(S, S \ A)
  BY DEF Shut, Forest!LinkedIn
<1>4. ASSUME NEW t \in S, NEW u \in P(t) PROVE P(u) = P(t)
  <2>1. u \in S /\ P(u) \subseteq P(t)
    BY <1>1 DEF Shut
  <2>2. t \in P(u)
    <3> SUFFICES ASSUME t \notin P(u) PROVE FALSE
      OBVIOUS
    <3>1. Shut(S, S \ P(u)) /\ t \in S \ P(u)
      BY <1>1, <1>3, <2>1
    <3>2. P(t) \subseteq S \ P(u)
      BY <1>1, <3>1
    <3> QED BY <1>1, <2>1, <3>2
  <2>3. P(t) \subseteq P(u)
    BY <1>1, <2>1, <2>2
  <2> QED BY <2>1, <2>3
<1>5. ASSUME NEW A \in C, NEW B \in C, A # B PROVE A \cap B = {}
  <2>1. PICK t \in S : A = P(t)
    BY <1>2
  <2>2. PICK u \in S : B = P(u)
    BY <1>2
  <2>3. ASSUME NEW x \in A \cap B PROVE FALSE
    <3>1. P(x) = P(t) /\ P(x) = P(u)
      BY <1>4, <2>1, <2>2
    <3> QED BY <1>5, <2>1, <2>2, <3>1
  <2> QED BY <2>3
<1>6. PartitionOf(C, S)
  <2>1. \A A \in C : A \subseteq S /\ A # {}
    BY <1>1, <1>2 DEF Shut
  <2>2. \A t \in S : P(t) \in C /\ t \in P(t)
    BY <1>1, <1>2
  <2> QED BY <1>5, <2>1, <2>2 DEF PartitionOf
<1>7. ASSUME NEW A \in C, NEW B \in C, A # B, NEW t \in A PROVE g.parents[t] \cap B = {}
  <2>1. A \in SUBSET S /\ B \in SUBSET S /\ Forest!LinkedIn(g, S, A) = A
    BY <1>1, <1>2 DEF Shut
  <2>2. ASSUME NEW p \in g.parents[t], p \in B PROVE FALSE
    <3>1. p \in Forest!LinkedIn(g, S, A)
      BY <2>1, <2>2 DEF Forest!LinkedIn
    <3> QED BY <1>5, <1>7, <2>1, <2>2, <3>1
  <2> QED BY <2>2
<1> QED BY <1>6, <1>7 DEF C

LEMMA SameSelected == \A s, I : Forest!Selected(s, I) = Selected(s, I)
  BY Zenon DEF Forest!Selected, Selected

(* What is selected of an ordering is an ordering of the members selected. *)
LEMMA PartSelected ==
  ASSUME NEW S, NEW rel, NEW s, Ordering(s, S, rel), NEW P \in SUBSET S
  PROVE  Ordering(Forest!Selected(s, {k \in DOMAIN s : s[k] \in P}), P, rel)
<1> DEFINE I == {k \in DOMAIN s : s[k] \in P}
           t == Selected(s, I)
           n == Len(s)
<1>1. /\ s \in Seq(S) /\ DOMAIN s = 1..n /\ n \in Nat
      /\ \A i, j \in 1..n : s[i] = s[j] => i = j
      /\ \A i, j \in 1..n : s[i] \in rel[s[j]] => i < j
      /\ \A x \in S : \E i \in 1..n : s[i] = x
  <2>1. s \in Seq(S) /\ DOMAIN s = 1..n /\ n \in Nat
    BY DEF Ordering, Lists
  <2> HIDE DEF n
  <2> QED BY <2>1 DEF Ordering, Lists, Follows
<1>2. t \in Seq(S) /\ Picks(t, s, I, n)
  BY <1>1, Selecting
<1>3. \A i \in 1..n : i \in I <=> s[i] \in P
  BY <1>1
<1> HIDE DEF t, n, I
<1>4. /\ \A j \in DOMAIN t : \E i \in 1..n : i \in I /\ t[j] = s[i]
      /\ \A i \in 1..n : i \in I => \E j \in DOMAIN t : t[j] = s[i]
      /\ \A j, k \in DOMAIN t : j < k => \E i, l \in 1..n : i < l /\ t[j] = s[i] /\ t[k] = s[l]
  BY <1>2 DEF Picks
<1>5. DOMAIN t = 1..Len(t) /\ Len(t) \in Nat /\ \A j \in DOMAIN t : t[j] \in P /\ j \in Nat
  <2>1. DOMAIN t = 1..Len(t) /\ Len(t) \in Nat /\ \A j \in DOMAIN t : j \in Nat
    BY <1>2
  <2> QED BY <1>3, <1>4, <2>1
<1>6. t \in Seq(P)
  BY <1>2, <1>5
<1>7. ASSUME NEW j \in DOMAIN t, NEW k \in DOMAIN t, j < k PROVE t[j] # t[k] /\ t[k] \notin rel[t[j]]
  <2>1. PICK i, l \in 1..n : i < l /\ t[j] = s[i] /\ t[k] = s[l]
    BY <1>4, <1>7
  <2>2. i # l /\ ~(l < i)
    BY <1>1, <2>1
  <2> QED BY <1>1, <2>1, <2>2
<1>8. ASSUME NEW j \in DOMAIN t PROVE t[j] \notin rel[t[j]]
  <2>1. PICK i \in 1..n : t[j] = s[i]
    BY <1>4
  <2>2. ~(i < i)
    BY <1>1
  <2> QED BY <1>1, <2>1, <2>2
<1>9. \A x \in P : \E j \in DOMAIN t : t[j] = x
  BY <1>1, <1>3, <1>4
<1>10. \A j, k \in DOMAIN t : j = k \/ j < k \/ k < j
  BY <1>5
<1>11. Lists(t, P)
  BY <1>6, <1>7, <1>9, <1>10 DEF Lists
<1>12. Follows(t, rel)
  BY <1>7, <1>8, <1>10 DEF Follows
<1> QED BY <1>11, <1>12, SameSelected DEF Ordering, t, I

(* splitDisconnectedChunk: the parts of a chunk, as groups. *)
LEMMA ChunkSplit ==
  ASSUME g \in Clusters, NEW S \in SUBSET Forest!Txs, NEW s, Ordering(s, S, g.parents)
  PROVE  Grouped(Forest!SplitChunk(g, s), S, g.parents)
<1> DEFINE at(P) == CHOOSE i \in DOMAIN s : s[i] \in P /\ \A j \in 1..(i - 1) : s[j] \notin P
           parts == Forest!PartsOf(g, Forest!ToSet(s))
           needs == [P \in parts |-> {}]
           txs == [P \in parts |-> P]
           rank == [P \in parts |-> at(P)]
           order == Forest!TakeReady(parts, needs, Forest!Sooner(g, txs, rank))
           gs == [i \in DOMAIN order |-> Forest!Selected(s, {k \in DOMAIN s : s[k] \in order[i]})]
<1>1. Forest!SplitChunk(g, s) = gs
  BY Zenon DEF Forest!SplitChunk
<1>2. Forest!ToSet(s) = S /\ IsFiniteSet(S)
  BY ListedSet, ForestAssumption, FS_Subset DEF Ordering, Forest!Txs
<1>3. /\ PartitionOf(parts, S)
      /\ \A A, B \in parts : A # B => \A t \in A : g.parents[t] \cap B = {}
  BY <1>2, PartsPartition
<1>4. IsFiniteSet(parts) /\ \A P \in parts : P \in SUBSET S /\ P # {}
  <2>1. \A P \in parts : P \in SUBSET S /\ P # {}
    BY <1>3 DEF PartitionOf
  <2>2. parts \in SUBSET (SUBSET S)
    BY <2>1
  <2> HIDE DEF parts
  <2> QED BY <1>2, <2>1, <2>2, FS_SUBSET, FS_Subset
<1>5. ASSUME NEW P \in parts PROVE at(P) \in Int
  <2> DEFINE Hits == {i \in DOMAIN s : s[i] \in P}
  <2>1. DOMAIN s = 1..Len(s) /\ Len(s) \in Nat
    BY DEF Ordering, Lists
  <2>2. Hits \in SUBSET Nat /\ Hits # {}
    <3>1. PICK x : x \in P /\ x \in S
      BY <1>4
    <3>2. PICK i \in DOMAIN s : s[i] = x
      BY <3>1 DEF Ordering, Lists
    <3> QED BY <2>1, <3>1, <3>2
  <2>3. PICK i \in Hits : \A j \in Hits : i <= j
    <3> HIDE DEF Hits
    <3> QED BY <2>2, LeastNat
  <2>4. i \in DOMAIN s /\ s[i] \in P /\ \A j \in 1..(i - 1) : s[j] \notin P
    <3>1. ASSUME NEW j \in 1..(i - 1) PROVE s[j] \notin P
      <4>1. j \in DOMAIN s /\ ~(i <= j)
        BY <2>1, <2>2
      <4> QED BY <2>3, <4>1
    <3> QED BY <3>1
  <2>5. at(P) \in DOMAIN s
    <3> HIDE DEF parts, Hits
    <3> QED BY <2>4
  <2> QED BY <2>1, <2>5
<1> HIDE DEF parts, at
<1>6. HasSoonest(parts, Forest!Sooner(g, txs, rank))
  <2>1. \A P \in parts : txs[P] \in SUBSET Forest!Txs /\ txs[P] # {} /\ rank[P] \in Int
    BY <1>4, <1>5
  <2>2. DOMAIN txs = parts
    OBVIOUS
  <2> HIDE DEF txs, rank
  <2> QED BY <1>4, <2>1, <2>2, SoonestExists
<1>7. Ordering(order, parts, needs)
  <2>1. Unlooped(parts, needs)
    BY DEF Unlooped
  <2> HIDE DEF needs, txs, rank
  <2> QED BY <1>4, <1>6, <2>1, TakesAll
<1> HIDE DEF order, needs
<1>8. Ordering(order, parts, ChunkNeeds(parts, g.parents))
  <2>1. \A i \in DOMAIN order : order[i] \in parts
    BY <1>7 DEF Ordering, Lists
  <2>2. \A A, B \in parts : A \notin ChunkNeeds(parts, g.parents)[B]
    BY <1>3 DEF ChunkNeeds
  <2>3. Follows(order, ChunkNeeds(parts, g.parents))
    BY <2>1, <2>2 DEF Follows
  <2> QED BY <1>7, <2>3 DEF Ordering
<1>9. \A i \in DOMAIN order : Ordering(gs[i], order[i], g.parents)
  <2> TAKE i \in DOMAIN order
  <2>1. order[i] \in SUBSET S
    BY <1>4, <1>7 DEF Ordering, Lists
  <2> QED BY <2>1, PartSelected
<1>10. gs = [i \in DOMAIN order |-> gs[i]]
  OBVIOUS
<1> HIDE DEF gs
<1>11. Grouped(gs, S, g.parents)
  BY <1>3, <1>8, <1>9, <1>10, PartsInOrder
<1> QED BY <1>1, <1>11

(* Groups of each of the groups are groups. *)
LEMMA GroupsOfGroups ==
  ASSUME NEW T, NEW rel, NEW gs, Grouped(gs, T, rel), NEW ss, ss = [i \in DOMAIN gs |-> ss[i]],
         \A i \in DOMAIN gs : Grouped(ss[i], Forest!ToSet(gs[i]), rel)
  PROVE  Grouped(Forest!FlattenSeq(ss), T, rel)
<1> DEFINE E == Seq(T)
           fs == Forest!FlattenSeq(ss)
           S(i) == Forest!ToSet(gs[i])
<1>1. /\ gs \in Seq(Seq(T)) /\ DOMAIN gs = 1..Len(gs) /\ Len(gs) \in Nat
      /\ DOMAIN ss = DOMAIN gs
  BY DEF Grouped
<1>2. \A i \in DOMAIN gs : S(i) \subseteq T
  BY <1>1, SameSet
<1>3. ss \in Seq(Seq(E)) /\ Len(ss) = Len(gs)
  <2>1. \A i \in DOMAIN gs : ss[i] \in Seq(Seq(S(i)))
    BY DEF Grouped
  <2>2. \A i \in DOMAIN gs : ss[i] \in Seq(E)
    BY <1>2, <2>1
  <2> HIDE DEF E
  <2> QED BY <1>1, <2>2
<1>4. fs \in Seq(E) /\ Laid(fs, ss, Len(gs))
  <2> HIDE DEF E
  <2> QED BY <1>3, Flattened
<1> PICK row, col : LaidAt(fs, ss, Len(gs), row, col)
  BY <1>4 DEF Laid
<1>5. /\ \A k \in DOMAIN fs : row[k] \in DOMAIN gs /\ col[k] \in DOMAIN ss[row[k]] /\ fs[k] = ss[row[k]][col[k]]
      /\ \A k, l \in DOMAIN fs : k < l => row[k] < row[l] \/ (row[k] = row[l] /\ col[k] < col[l])
      /\ \A i \in DOMAIN gs : \A j \in DOMAIN ss[i] : \E k \in DOMAIN fs : row[k] = i /\ col[k] = j
  BY <1>1 DEF LaidAt
<1> HIDE DEF fs, S, E
<1>9. ASSUME NEW hs, NEW U, Grouped(hs, U, rel)
      PROVE  /\ \A i \in DOMAIN hs : hs[i] # <<>> /\ Ordering(hs[i], Forest!ToSet(hs[i]), rel) /\ hs[i] \in Seq(U)
             /\ \A i, j \in DOMAIN hs : i < j =>
                  /\ Forest!ToSet(hs[i]) \cap Forest!ToSet(hs[j]) = {}
                  /\ \A t \in Forest!ToSet(hs[i]) : rel[t] \cap Forest!ToSet(hs[j]) = {}
  BY <1>9 DEF Grouped
<1>10. ASSUME NEW i \in DOMAIN gs
       PROVE  /\ \A a \in DOMAIN ss[i] : /\ ss[i][a] # <<>> /\ Ordering(ss[i][a], Forest!ToSet(ss[i][a]), rel)
                                        /\ Forest!ToSet(ss[i][a]) \subseteq S(i)
              /\ \A a, b \in DOMAIN ss[i] : a < b =>
                   /\ Forest!ToSet(ss[i][a]) \cap Forest!ToSet(ss[i][b]) = {}
                   /\ \A t \in Forest!ToSet(ss[i][a]) : rel[t] \cap Forest!ToSet(ss[i][b]) = {}
  <2> DEFINE hs == ss[i]
             U == Forest!ToSet(gs[i])
  <2>1. Grouped(hs, U, rel) /\ S(i) = U
    BY DEF S
  <2> HIDE DEF hs, U
  <2>2. /\ \A a \in DOMAIN hs : hs[a] # <<>> /\ Ordering(hs[a], Forest!ToSet(hs[a]), rel) /\ hs[a] \in Seq(U)
        /\ \A a, b \in DOMAIN hs : a < b =>
             /\ Forest!ToSet(hs[a]) \cap Forest!ToSet(hs[b]) = {}
             /\ \A t \in Forest!ToSet(hs[a]) : rel[t] \cap Forest!ToSet(hs[b]) = {}
    BY <1>9, <2>1
  <2>3. \A a \in DOMAIN hs : Forest!ToSet(hs[a]) \subseteq U
    BY <2>2, SameSet
  <2>4. /\ \A a \in DOMAIN hs : /\ hs[a] # <<>> /\ Ordering(hs[a], Forest!ToSet(hs[a]), rel)
                                 /\ Forest!ToSet(hs[a]) \subseteq S(i)
    BY <2>1, <2>2, <2>3
  <2> QED BY <2>2, <2>4 DEF hs
<1>6. ASSUME NEW k \in DOMAIN fs
      PROVE  /\ fs[k] # <<>> /\ Ordering(fs[k], Forest!ToSet(fs[k]), rel)
             /\ Forest!ToSet(fs[k]) \subseteq S(row[k])
  <2>1. PICK i \in DOMAIN gs : i = row[k]
    BY <1>5
  <2>2. PICK a \in DOMAIN ss[i] : fs[k] = ss[i][a]
    BY <1>5, <2>1
  <2> QED BY <1>10, <2>1, <2>2
<1>7. ASSUME NEW k \in DOMAIN fs, NEW l \in DOMAIN fs, k < l
      PROVE  /\ Forest!ToSet(fs[k]) \cap Forest!ToSet(fs[l]) = {}
             /\ \A t \in Forest!ToSet(fs[k]) : rel[t] \cap Forest!ToSet(fs[l]) = {}
  <2>1. CASE row[k] < row[l]
    <3>1. S(row[k]) \cap S(row[l]) = {} /\ \A t \in S(row[k]) : rel[t] \cap S(row[l]) = {}
      BY <1>5, <2>1 DEF Grouped, S
    <3> QED BY <1>6, <3>1
  <2>2. CASE row[k] = row[l] /\ col[k] < col[l]
    <3>1. PICK i \in DOMAIN gs : i = row[k] /\ i = row[l]
      BY <1>5, <2>2
    <3>2. /\ col[k] \in DOMAIN ss[i] /\ col[l] \in DOMAIN ss[i]
          /\ fs[k] = ss[i][col[k]] /\ fs[l] = ss[i][col[l]]
      BY <1>5, <3>1
    <3> QED BY <1>10, <2>2, <3>2
  <2> QED BY <1>5, <1>7, <2>1, <2>2
<1>8. ASSUME NEW x \in T PROVE \E k \in DOMAIN fs : x \in Forest!ToSet(fs[k])
  <2>1. PICK i \in DOMAIN gs : x \in S(i)
    BY DEF Grouped, S
  <2>2. PICK j \in DOMAIN ss[i] : x \in Forest!ToSet(ss[i][j])
    BY <2>1 DEF Grouped, S
  <2> QED BY <1>5, <2>1, <2>2
<1> QED BY <1>4, <1>6, <1>7, <1>8 DEF Grouped, fs, E

(* minimizeChunks. *)
LEMMA Minimized ==
  ASSUME g \in Clusters, NEW gs, Grouped(gs, Forest!Txs, g.parents)
  PROVE  Grouped(Forest!MinimizeChunks(g, gs), Forest!Txs, g.parents)
<1> DEFINE ss == [i \in DOMAIN gs |-> Forest!SplitChunk(g, gs[i])]
<1>1. Forest!MinimizeChunks(g, gs) = Forest!FlattenSeq(ss)
  BY DEF Forest!MinimizeChunks
<1>2. ASSUME NEW i \in DOMAIN gs PROVE Grouped(ss[i], Forest!ToSet(gs[i]), g.parents)
  <2>1. Ordering(gs[i], Forest!ToSet(gs[i]), g.parents) /\ gs[i] \in Seq(Forest!Txs)
    BY DEF Grouped
  <2>2. Forest!ToSet(gs[i]) \in SUBSET Forest!Txs
    BY <2>1, SameSet
  <2> QED BY <2>1, <2>2, ChunkSplit
<1>3. ss = [i \in DOMAIN gs |-> ss[i]]
  OBVIOUS
<1> HIDE DEF ss
<1> QED BY <1>1, <1>2, <1>3, GroupsOfGroups

-----------------------------------------------------------------------------
(* A sum over a set, whatever the order: what First takes out first. *)
SumsBy(S, f, h) ==
  /\ h \in [SUBSET S -> Int] /\ h[{}] = 0
  /\ \A s \in SUBSET S : s # {} => h[s] = h[s \ {First(s)}] + f[First(s)]

LEMMA SumsUnfold ==
  ASSUME NEW S, IsFiniteSet(S), NEW f, \A t \in S : f[t] \in Int
  PROVE  \E h : SumsBy(S, f, h) /\ Sums(S, f) = h[S]
<1> DEFINE Goes(h) == h = [s \in SUBSET S |-> IF s = {} THEN 0 ELSE h[s \ {First(s)}] + f[First(s)]]
           sum == CHOOSE h : Goes(h)
           pick == [s \in SUBSET S |-> First(s)]
           step == [x \in S \X Int |-> x[2] + f[x[1]]]
<1>1. Sums(S, f) = sum[S]
  BY Zenon DEF Sums
<1>2. \A s \in SUBSET S : s # {} => pick[s] \in s /\ pick[s] = First(s)
  BY DEF First
<1>3. step \in [S \X Int -> Int] /\ 0 \in Int
  OBVIOUS
<1>4. Unfolds(S, Int, 0, pick, step)
  <2> HIDE DEF step, pick
  <2> QED BY <1>2, <1>3, SetRecursion
<1>5. PICK h \in [SUBSET S -> Int] :
        h[{}] = 0 /\ \A s \in SUBSET S : s # {} => h[s] = step[<<pick[s], h[s \ {pick[s]}]>>]
  BY <1>4 DEF Unfolds
<1>6. ASSUME NEW s \in SUBSET S, s # {} PROVE h[s] = h[s \ {First(s)}] + f[First(s)]
  <2>1. pick[s] = First(s) /\ First(s) \in S /\ h[s \ {pick[s]}] \in Int
    BY <1>2, <1>5, <1>6
  <2>2. h[s] = step[<<pick[s], h[s \ {pick[s]}]>>]
    BY <1>5, <1>6
  <2> HIDE DEF pick
  <2>3. h[s] = step[<<First(s), h[s \ {First(s)}]>>] /\ h[s \ {First(s)}] \in Int
    BY <2>1, <2>2
  <2> QED BY <2>1, <2>3
<1>7. Goes(h)
  <2>1. h = [s \in SUBSET S |-> h[s]]
    BY <1>5
  <2>2. \A s \in SUBSET S : h[s] = IF s = {} THEN 0 ELSE h[s \ {First(s)}] + f[First(s)]
    BY <1>5, <1>6
  <2> QED BY <2>1, <2>2
<1>8. Goes(sum)
  BY <1>7
<1> HIDE DEF sum
<1>9. \A s \in SUBSET S : sum[s] = IF s = {} THEN 0 ELSE sum[s \ {First(s)}] + f[First(s)]
  BY <1>8
<1> DEFINE T == {s \in SUBSET S : sum[s] = h[s]}
<1>10. \A s \in SUBSET S : s \in T
  <2>1. {} \in T
    BY <1>5, <1>9
  <2>2. \A s \in SUBSET S : s # {} /\ s \ {pick[s]} \in T => s \in T
    <3> TAKE s \in SUBSET S
    <3> HAVE s # {} /\ s \ {pick[s]} \in T
    <3>1. sum[s \ {First(s)}] = h[s \ {First(s)}]
      BY <1>2
    <3> QED BY <1>6, <1>9, <3>1
  <2> HIDE DEF T, pick
  <2> QED BY <1>2, <2>1, <2>2, SetInduction
<1>11. Sums(S, f) = h[S]
  BY <1>1, <1>10
<1>12. SumsBy(S, f, h)
  BY <1>5, <1>6 DEF SumsBy
<1> QED BY <1>11, <1>12

LEMMA SumsAgree ==
  ASSUME NEW S, IsFiniteSet(S), NEW U \in SUBSET S, NEW f, NEW h, SumsBy(S, f, h), NEW k, SumsBy(U, f, k)
  PROVE  h[U] = k[U]
<1> DEFINE pick == [s \in SUBSET U |-> First(s)]
           T == {s \in SUBSET U : h[s] = k[s]}
<1>1. \A s \in SUBSET U : s # {} => pick[s] \in s /\ pick[s] = First(s)
  BY DEF First
<1>2. {} \in T
  BY DEF SumsBy
<1>3. \A s \in SUBSET U : s # {} /\ s \ {pick[s]} \in T => s \in T
  <2> TAKE s \in SUBSET U
  <2> HAVE s # {} /\ s \ {pick[s]} \in T
  <2>1. h[s \ {First(s)}] = k[s \ {First(s)}]
    BY <1>1
  <2>2. h[s] = h[s \ {First(s)}] + f[First(s)] /\ k[s] = k[s \ {First(s)}] + f[First(s)]
    BY DEF SumsBy
  <2> QED BY <2>1, <2>2
<1>4. IsFiniteSet(U)
  BY FS_Subset
<1>5. \A s \in SUBSET U : s \in T
  <2> HIDE DEF T, pick
  <2> QED BY <1>1, <1>2, <1>3, <1>4, SetInduction
<1> QED BY <1>5

(* The sums of all the subsets of S. *)
LEMMA SumsOfSubsets ==
  ASSUME NEW S, IsFiniteSet(S), NEW f, \A t \in S : f[t] \in Int
  PROVE  SumsBy(S, f, [s \in SUBSET S |-> Sums(s, f)])
<1> PICK h : SumsBy(S, f, h)
  BY SumsUnfold
<1>1. ASSUME NEW U \in SUBSET S PROVE Sums(U, f) = h[U]
  <2>1. IsFiniteSet(U) /\ \A t \in U : f[t] \in Int
    BY FS_Subset
  <2>2. PICK k : SumsBy(U, f, k) /\ Sums(U, f) = k[U]
    BY <2>1, SumsUnfold
  <2> QED BY <2>2, SumsAgree
<1>2. h = [s \in SUBSET S |-> Sums(s, f)]
  BY <1>1 DEF SumsBy
<1> QED BY <1>2

(* It does not matter which member is taken out. *)
LEMMA SumsWithout ==
  ASSUME NEW S, IsFiniteSet(S), NEW f, \A t \in S : f[t] \in Int
  PROVE  \A s \in SUBSET S : \A x \in s : Sums(s, f) = Sums(s \ {x}, f) + f[x]
<1> DEFINE h == [s \in SUBSET S |-> Sums(s, f)]
           N == Cardinality(S)
           Free(s) == \A x \in s : h[s] = h[s \ {x}] + f[x]
           T == {n \in 0..N : \A s \in SUBSET S : Cardinality(s) <= n => Free(s)}
<1>1. SumsBy(S, f, h)
  BY SumsOfSubsets
<1>2. \A s \in SUBSET S : IsFiniteSet(s) /\ Cardinality(s) \in 0..N /\ (Cardinality(s) = 0 => s = {})
  BY FS_Subset, FS_CardinalityType, FS_EmptySet
<1>3. N \in Nat
  BY FS_CardinalityType
<1> HIDE DEF h, N
<1>4. 0 \in T
  <2>1. \A s \in SUBSET S : Cardinality(s) <= 0 => s = {}
    BY <1>2, <1>3
  <2> QED BY <1>3, <2>1
<1>5. \A n \in 0..(N - 1) : n \in T => n + 1 \in T
  <2> TAKE n \in 0..(N - 1)
  <2> HAVE n \in T
  <2>1. ASSUME NEW s \in SUBSET S, Cardinality(s) <= n + 1, NEW x \in s PROVE h[s] = h[s \ {x}] + f[x]
    <3> DEFINE p == First(s)
               r == s \ {p}
               q == s \ {x}
    <3>1. p \in s /\ p \in S /\ x \in S /\ h[s] = h[r] + f[p]
      BY <1>1 DEF SumsBy, First
    <3>2. CASE x = p
      BY <3>1, <3>2
    <3>3. CASE x # p
      <4>1. Cardinality(r) <= n /\ Cardinality(q) <= n
        <5>1. Cardinality(r) = Cardinality(s) - 1 /\ Cardinality(q) = Cardinality(s) - 1
          BY <1>2, <3>1, FS_RemoveElement
        <5> QED BY <1>2, <1>3, <2>1, <5>1
      <4>2. Free(r) /\ Free(q)
        BY <4>1
      <4>3. h[r] = h[r \ {x}] + f[x] /\ h[q] = h[q \ {p}] + f[p]
        BY <3>1, <3>3, <4>2
      <4>4. r \ {x} = q \ {p} /\ q \ {p} \in SUBSET S
        OBVIOUS
      <4>5. h[q \ {p}] \in Int /\ f[x] \in Int /\ f[p] \in Int
        BY <1>1, <3>1, <4>4 DEF SumsBy
      <4> HIDE DEF p, q, r
      <4>7. PICK z : z = q \ {p} /\ z = r \ {x}
        BY <4>4
      <4>8. h[r] = h[z] + f[x] /\ h[q] = h[z] + f[p] /\ h[z] \in Int
        BY <4>3, <4>5, <4>7
      <4>6. h[s] = h[q] + f[x]
        BY <3>1, <4>5, <4>8
      <4> QED BY <4>6 DEF q
    <3> QED BY <3>2, <3>3
  <2>2. n + 1 \in 0..N
    BY <1>3
  <2> QED BY <2>1, <2>2
<1>6. N \in T
  <2>1. N \in 0..N
    BY <1>3
  <2> HIDE DEF T
  <2> QED BY <1>3, <1>4, <1>5, <2>1, UpTo
<1>7. \A s \in SUBSET S : Free(s)
  <2> TAKE s \in SUBSET S
  <2>1. Cardinality(s) <= N
    BY <1>2, <1>3
  <2> HIDE DEF Free
  <2> QED BY <1>6, <2>1
<1> QED BY <1>7 DEF h

InductsOver(S, pick, T) ==
  /\ IsFiniteSet(S) /\ (\A s \in SUBSET S : s # {} => pick[s] \in s) /\ {} \in T
  /\ \A s \in SUBSET S : s # {} /\ s \ {pick[s]} \in T => s \in T
  => \A s \in SUBSET S : s \in T
LEMMA SetInducts == \A S, pick, T : InductsOver(S, pick, T)
  BY SetInduction DEF InductsOver

(* The sums over two sets without a common member add up. *)
LEMMA SumsAdd ==
  ASSUME NEW S, IsFiniteSet(S), NEW f, \A t \in S : f[t] \in Int,
         NEW A \in SUBSET S, NEW B \in SUBSET S, A \cap B = {}
  PROVE  Sums(A \cup B, f) = Sums(A, f) + Sums(B, f)
<1> DEFINE pick == [s \in SUBSET B |-> First(s)]
           h == [s \in SUBSET S |-> Sums(s, f)]
           T == {s \in SUBSET B : h[A \cup s] = h[A] + h[s]}
<1>1. SumsBy(S, f, h)
  BY SumsOfSubsets
<1>2. \A s \in SUBSET S : \A x \in s : h[s] = h[s \ {x}] + f[x]
  BY SumsWithout
<1> HIDE DEF h
<1>3. \A s \in SUBSET B : s # {} => pick[s] \in s
  BY DEF First
<1>4. {} \in T
  <2>1. h[{}] = 0 /\ h[A] \in Int /\ A \cup {} = A
    BY <1>1 DEF SumsBy
  <2> QED BY <2>1
<1>5. \A s \in SUBSET B : s # {} /\ s \ {pick[s]} \in T => s \in T
  <2> TAKE s \in SUBSET B
  <2> HAVE s # {} /\ s \ {pick[s]} \in T
  <2> DEFINE x == pick[s]
             r == s \ {x}
  <2>1. x \in s /\ x \in S /\ s \in SUBSET S /\ r \in SUBSET S /\ A \cup s \in SUBSET S /\ f[x] \in Int
    BY <1>3
  <2>2. (A \cup s) \ {x} = A \cup r
    BY <2>1
  <2>3. h[A \cup s] = h[A \cup r] + f[x] /\ h[s] = h[r] + f[x]
    BY <1>2, <2>1, <2>2
  <2>4. h[A \cup r] = h[A] + h[r]
    OBVIOUS
  <2>5. h[A] \in Int /\ h[r] \in Int
    BY <1>1, <2>1 DEF SumsBy
  <2> HIDE DEF x, r
  <2> QED BY <2>1, <2>3, <2>4, <2>5
<1>6. \A s \in SUBSET B : s \in T
  <2>1. IsFiniteSet(B)
    BY FS_Subset
  <2>2. \A s \in SUBSET B : s # {} => pick[s] \in s
    BY <1>3
  <2> HIDE DEF T, pick
  <2>3. \A s \in SUBSET B : s # {} /\ s \ {pick[s]} \in T => s \in T
    BY <1>5
  <2>4. InductsOver(B, pick, T)
    BY SetInducts
  <2> QED BY <1>4, <2>1, <2>2, <2>3, <2>4 DEF InductsOver
<1>7. h[A \cup B] = h[A] + h[B]
  BY <1>6
<1> QED BY <1>7 DEF h

-----------------------------------------------------------------------------
(* Feerates of sets, and of their unions. *)
Pays(A, B) == Forest!HigherFeerate(g, A, B)
Sets == (SUBSET Forest!Txs) \ {{}}

(* HigherFeerate, multiplied out. *)
LEMMA PaysBy ==
  \A A, B : Pays(A, B) <=> Forest!FeeOf(g, A) * Forest!WeightOf(B) > Forest!FeeOf(g, B) * Forest!WeightOf(A)
  BY DEF Pays, Forest!HigherFeerate

(* Fees and weights of sets without a common member add up. *)
LEMMA RatesAdd ==
  ASSUME g \in Clusters, NEW A \in Sets, NEW B \in Sets, A \cap B = {}
  PROVE  /\ A \cup B \in Sets
         /\ Forest!FeeOf(g, A \cup B) = Forest!FeeOf(g, A) + Forest!FeeOf(g, B)
         /\ Forest!WeightOf(A \cup B) = Forest!WeightOf(A) + Forest!WeightOf(B)
<1>1. IsFiniteSet(Forest!Txs) /\ \A t \in Forest!Txs : Weight[t] \in Int /\ g.fee[t] \in Int
  BY ForestAssumption DEF Forest!Txs
<1>2. A \in SUBSET Forest!Txs /\ B \in SUBSET Forest!Txs /\ A \cup B \in Sets
  BY DEF Sets
<1>3. \A S : Forest!WeightOf(S) = Sums(S, Weight)
  BY Zenon DEF Forest!WeightOf, Forest!FoldSet, Forest!MapThenFoldSet, Sums, First
<1>4. \A S : Forest!FeeOf(g, S) = Sums(S, g.fee)
  BY Zenon DEF Forest!FeeOf, Forest!FoldSet, Forest!MapThenFoldSet, Sums, First
<1>5. Sums(A \cup B, Weight) = Sums(A, Weight) + Sums(B, Weight)
  BY <1>1, <1>2, SumsAdd
<1>6. Sums(A \cup B, g.fee) = Sums(A, g.fee) + Sums(B, g.fee)
  BY <1>1, <1>2, SumsAdd
<1> QED BY <1>2, <1>3, <1>4, <1>5, <1>6

(* Feerates are ordered: nothing pays more than itself, and paying no more is
   transitive. *)
LEMMA PaysOrder ==
  ASSUME g \in Clusters, NEW A \in Sets, NEW B \in Sets, NEW C \in Sets
  PROVE  /\ ~Pays(A, A) /\ ~(Pays(A, B) /\ Pays(B, A))
         /\ ~Pays(B, A) /\ ~Pays(C, B) => ~Pays(C, A)
         /\ Pays(A, B) /\ ~Pays(C, B) => Pays(A, C)
         /\ ~Pays(B, A) /\ Pays(B, C) => Pays(A, C)
<1> DEFINE f(S) == Forest!FeeOf(g, S)
           w(S) == Forest!WeightOf(S)
<1>1. \A S \in Sets : f(S) \in Int /\ w(S) \in Nat \ {0}
  BY SetRates DEF Sets
<1>2. \A S, T \in Sets : Pays(S, T) <=> f(S) * w(T) > f(T) * w(S)
  BY PaysBy
<1> HIDE DEF f, w
<1>3. \A S, T \in Sets : f(S) * w(T) \in Int
  BY <1>1
<1>4. \A S, T, U \in Sets : f(S) * w(T) >= f(T) * w(S) /\ f(T) * w(U) >= f(U) * w(T)
        => /\ f(S) * w(U) >= f(U) * w(S)
           /\ f(S) * w(T) > f(T) * w(S) \/ f(T) * w(U) > f(U) * w(T) => f(S) * w(U) > f(U) * w(S)
  BY <1>1, WeaklyMultiplied
<1>5. ~Pays(A, A) /\ ~(Pays(A, B) /\ Pays(B, A))
  BY <1>2, <1>3
<1>6. ~Pays(B, A) /\ ~Pays(C, B) => ~Pays(C, A)
  <2> HAVE ~Pays(B, A) /\ ~Pays(C, B)
  <2>1. f(A) * w(B) >= f(B) * w(A) /\ f(B) * w(C) >= f(C) * w(B)
    BY <1>2, <1>3
  <2> QED BY <1>2, <1>3, <1>4, <2>1
<1>7. Pays(A, B) /\ ~Pays(C, B) => Pays(A, C)
  <2> HAVE Pays(A, B) /\ ~Pays(C, B)
  <2>1. f(A) * w(B) > f(B) * w(A) /\ f(A) * w(B) >= f(B) * w(A) /\ f(B) * w(C) >= f(C) * w(B)
    BY <1>2, <1>3
  <2> QED BY <1>2, <1>3, <1>4, <2>1
<1>8. ~Pays(B, A) /\ Pays(B, C) => Pays(A, C)
  <2> HAVE ~Pays(B, A) /\ Pays(B, C)
  <2>1. f(A) * w(B) >= f(B) * w(A) /\ f(B) * w(C) >= f(C) * w(B) /\ f(B) * w(C) > f(C) * w(B)
    BY <1>2, <1>3
  <2> QED BY <1>2, <1>3, <1>4, <2>1
<1> QED BY <1>5, <1>6, <1>7, <1>8

(* The feerate of a union lies between those of its parts. *)
LEMMA PaysUnion ==
  ASSUME g \in Clusters, NEW A \in Sets, NEW B \in Sets, A \cap B = {}, NEW C \in Sets
  PROVE  /\ A \cup B \in Sets
         /\ Pays(C, A) /\ Pays(C, B) => Pays(C, A \cup B)
         /\ Pays(A, C) /\ Pays(B, C) => Pays(A \cup B, C)
         /\ ~Pays(C, A) /\ ~Pays(C, B) => ~Pays(C, A \cup B)
         /\ ~Pays(A, C) /\ ~Pays(B, C) => ~Pays(A \cup B, C)
         /\ Pays(B, A) => Pays(B, A \cup B) /\ Pays(A \cup B, A)
<1> DEFINE a == Forest!FeeOf(g, A)
           b == Forest!FeeOf(g, B)
           c == Forest!FeeOf(g, C)
           u == Forest!WeightOf(A)
           v == Forest!WeightOf(B)
           w == Forest!WeightOf(C)
<1>1. a \in Int /\ b \in Int /\ c \in Int /\ u \in Nat \ {0} /\ v \in Nat \ {0} /\ w \in Nat \ {0}
  BY SetRates DEF Sets
<1>2. /\ A \cup B \in Sets
      /\ Forest!FeeOf(g, A \cup B) = a + b /\ Forest!WeightOf(A \cup B) = u + v
  BY RatesAdd
<1>3. /\ Pays(C, A) <=> c * u > a * w
      /\ Pays(C, B) <=> c * v > b * w
      /\ Pays(A, C) <=> a * w > c * u
      /\ Pays(B, C) <=> b * w > c * v
      /\ Pays(B, A) <=> b * u > a * v
      /\ Pays(C, A \cup B) <=> c * (u + v) > (a + b) * w
      /\ Pays(A \cup B, C) <=> (a + b) * w > c * (u + v)
      /\ Pays(B, A \cup B) <=> b * (u + v) > (a + b) * v
      /\ Pays(A \cup B, A) <=> (a + b) * u > a * (u + v)
  BY <1>2, PaysBy
<1> HIDE DEF a, b, c, u, v, w
<1>4. /\ c * (u + v) = c * u + c * v /\ (a + b) * w = a * w + b * w
      /\ b * (u + v) = b * u + b * v /\ (a + b) * v = a * v + b * v
      /\ (a + b) * u = a * u + b * u /\ a * (u + v) = a * u + a * v
  BY <1>1
<1>5. /\ c * u \in Int /\ c * v \in Int /\ a * w \in Int /\ b * w \in Int /\ b * u \in Int
      /\ b * v \in Int /\ a * v \in Int /\ a * u \in Int
  BY <1>1
<1> QED BY <1>2, <1>3, <1>4, <1>5

-----------------------------------------------------------------------------
(* The members of s between two positions; a chunk no front part of which pays
   as much as the rest; chunks of which none pays more than an earlier one. *)
Piece(s, a, b) == {s[j] : j \in (a + 1)..b}
Rises(s) == \A k \in 1..(Len(s) - 1) : Pays(Piece(s, k, Len(s)), Piece(s, 0, k))
Falls(gs, n) == \A i, j \in 1..n : i < j => ~Pays(Forest!ToSet(gs[j]), Forest!ToSet(gs[i]))

(* A sequence is one piece, and neighbouring pieces join to one. *)
LEMMA WholePiece == ASSUME NEW T, NEW s \in Seq(T) PROVE Forest!ToSet(s) = Piece(s, 0, Len(s))
<1>1. DOMAIN s = (0 + 1)..Len(s)
  OBVIOUS
<1> QED BY <1>1, SameSet DEF Piece

LEMMA PiecesJoin ==
  ASSUME NEW T, NEW s \in Seq(T), \A i, j \in DOMAIN s : s[i] = s[j] => i = j,
         NEW a \in 0..Len(s), NEW b \in a..Len(s), NEW c \in b..Len(s)
  PROVE  /\ Piece(s, a, c) = Piece(s, a, b) \cup Piece(s, b, c)
         /\ Piece(s, a, b) \cap Piece(s, b, c) = {}
         /\ Piece(s, a, b) \in SUBSET T /\ (a < b => Piece(s, a, b) # {})
<1>1. /\ a \in Nat /\ b \in Nat /\ c \in Nat /\ Len(s) \in Nat
      /\ a <= b /\ b <= c /\ c <= Len(s) /\ DOMAIN s = 1..Len(s)
  OBVIOUS
<1>2. (a + 1)..c = ((a + 1)..b) \cup ((b + 1)..c) /\ (a + 1)..c \subseteq DOMAIN s
  BY <1>1
<1>3. \A i \in (a + 1)..b, j \in (b + 1)..c : i # j /\ i \in DOMAIN s /\ j \in DOMAIN s
  BY <1>1
<1>4. a < b => b \in (a + 1)..b
  BY <1>1
<1>5. \A i \in (a + 1)..b : s[i] \in T
  BY <1>1
<1>6. Piece(s, a, c) = Piece(s, a, b) \cup Piece(s, b, c)
  BY <1>2 DEF Piece
<1>7. Piece(s, a, b) \cap Piece(s, b, c) = {}
  BY <1>3 DEF Piece
<1> QED BY <1>4, <1>5, <1>6, <1>7 DEF Piece

(* Chunks that chunkify joins are a chunk of that kind again. *)
LEMMA RisesJoined ==
  ASSUME g \in Clusters, NEW c \in Seq(Forest!Txs), NEW d \in Seq(Forest!Txs), c # <<>>, d # <<>>,
         \A i, j \in DOMAIN (c \o d) : (c \o d)[i] = (c \o d)[j] => i = j,
         Rises(c), Rises(d), Pays(Forest!ToSet(d), Forest!ToSet(c))
  PROVE  Rises(c \o d)
<1> DEFINE u == c \o d
           m == Len(c)
           n == Len(d)
           C == Piece(u, 0, m)
           D == Piece(u, m, m + n)
<1>1. /\ u \in Seq(Forest!Txs) /\ Len(u) = m + n /\ m \in Nat \ {0} /\ n \in Nat \ {0}
      /\ \A i \in 1..m : u[i] = c[i]
      /\ \A i \in 1..n : u[m + i] = d[i]
  OBVIOUS
<1>2. \A i, j \in DOMAIN u : u[i] = u[j] => i = j
  OBVIOUS
<1> HIDE DEF u, m, n
<1>3. \A a \in 0..m, b \in 0..m : Piece(u, a, b) = Piece(c, a, b)
  <2> TAKE a \in 0..m, b \in 0..m
  <2>1. \A j \in (a + 1)..b : u[j] = c[j]
    BY <1>1
  <2> QED BY <2>1 DEF Piece
<1>4. \A a \in 0..n, b \in 0..n : Piece(u, m + a, m + b) = Piece(d, a, b)
  <2> TAKE a \in 0..n, b \in 0..n
  <2>1. ASSUME NEW x \in Piece(d, a, b) PROVE x \in Piece(u, m + a, m + b)
    <3>1. PICK j \in (a + 1)..b : x = d[j]
      BY DEF Piece
    <3>2. m + j \in ((m + a) + 1)..(m + b) /\ u[m + j] = d[j]
      BY <1>1
    <3> QED BY <3>1, <3>2 DEF Piece
  <2>2. ASSUME NEW x \in Piece(u, m + a, m + b) PROVE x \in Piece(d, a, b)
    <3>1. PICK i \in ((m + a) + 1)..(m + b) : x = u[i]
      BY DEF Piece
    <3>2. i - m \in (a + 1)..b /\ i - m \in 1..n /\ i = m + (i - m)
      BY <1>1
    <3>3. u[i] = d[i - m]
      BY <1>1, <3>2
    <3> QED BY <3>1, <3>2, <3>3 DEF Piece
  <2> QED BY <2>1, <2>2
<1>5. \A a \in 0..(m + n) : \A b \in a..(m + n) : \A e \in b..(m + n) :
        /\ Piece(u, a, e) = Piece(u, a, b) \cup Piece(u, b, e)
        /\ Piece(u, a, b) \cap Piece(u, b, e) = {}
        /\ Piece(u, a, b) \in SUBSET Forest!Txs /\ (a < b => Piece(u, a, b) # {})
  <2> TAKE a \in 0..(m + n)
  <2> TAKE b \in a..(m + n)
  <2> TAKE e \in b..(m + n)
  <2>1. a \in 0..Len(u) /\ b \in a..Len(u) /\ e \in b..Len(u) /\ u \in Seq(Forest!Txs)
    BY <1>1
  <2> QED BY <1>2, <2>1, PiecesJoin
<1>6. \A a \in 0..(m + n) : \A b \in a..(m + n) : a < b => Piece(u, a, b) \in Sets
  <2> TAKE a \in 0..(m + n)
  <2> TAKE b \in a..(m + n)
  <2>1. b \in b..(m + n)
    BY <1>1
  <2> QED BY <1>5, <2>1 DEF Sets
<1>7. C \in Sets /\ D \in Sets /\ Pays(D, C)
  <2>1. 0 \in 0..(m + n) /\ m \in 0..(m + n) /\ m + n \in m..(m + n) /\ 0 < m /\ m < m + n
    BY <1>1
  <2>2. Forest!ToSet(c) = C /\ Forest!ToSet(d) = D
    <3>1. Forest!ToSet(c) = Piece(c, 0, m) /\ Forest!ToSet(d) = Piece(d, 0, n)
      BY WholePiece DEF m, n
    <3>2. 0 \in 0..m /\ m \in 0..m /\ 0 \in 0..n /\ n \in 0..n /\ m + 0 = m
      BY <1>1
    <3> QED BY <1>3, <1>4, <3>1, <3>2
  <2> QED BY <1>6, <2>1, <2>2
<1>8. ASSUME NEW k \in 1..(m + n - 1) PROVE Pays(Piece(u, k, m + n), Piece(u, 0, k))
  <2> DEFINE A == Piece(u, 0, k)
             Z == Piece(u, k, m + n)
  <2>1. A \in Sets /\ Z \in Sets
    <3>1. 0 \in 0..(m + n) /\ k \in 0..(m + n) /\ m + n \in k..(m + n) /\ 0 < k /\ k < m + n
      BY <1>1
    <3> QED BY <1>6, <3>1
  <2>2. CASE k = m
    BY <1>7, <2>2
  <2>3. CASE k < m
    <3> DEFINE B == Piece(u, k, m)
    <3>1. k \in 0..m /\ k < m /\ m \in k..m /\ 0 \in 0..m /\ m \in 0..m /\ k \in 1..(m - 1) /\ m \in 0..(m + n)
          /\ 0 \in 0..(m + n) /\ k \in 0..(m + n) /\ m \in k..(m + n) /\ m + n \in m..(m + n)
      BY <1>1, <2>3
    <3>2. B \in Sets
      BY <1>6, <3>1
    <3>3. C = A \cup B /\ A \cap B = {} /\ Z = B \cup D /\ B \cap D = {}
      BY <1>5, <3>1
    <3>4. Pays(B, A)
      <4>1. Pays(Piece(c, k, m), Piece(c, 0, k))
        BY <3>1 DEF Rises, m
      <4> QED BY <1>3, <3>1, <4>1
    <3> HIDE DEF A, B, C, D, Z
    <3>5. Pays(C, A)
      BY <2>1, <3>2, <3>3, <3>4, PaysUnion
    <3>6. Pays(D, A)
      BY <1>7, <2>1, <3>5, PaysOrder
    <3>7. Pays(B \cup D, A)
      BY <1>7, <2>1, <3>2, <3>3, <3>4, <3>6, PaysUnion
    <3> QED BY <3>3, <3>7 DEF A, Z
  <2>4. CASE k > m
    <3> DEFINE B == Piece(u, m, k)
    <3>1. /\ 0 \in 0..(m + n) /\ m \in 0..(m + n) /\ k \in m..(m + n) /\ m + n \in k..(m + n) /\ m < k
          /\ k - m \in 1..(n - 1) /\ k - m \in 0..n /\ 0 \in 0..n /\ n \in 0..n /\ m + (k - m) = k /\ m + 0 = m
      BY <1>1, <2>4
    <3>2. B \in Sets
      BY <1>6, <3>1
    <3>3. D = B \cup Z /\ B \cap Z = {} /\ A = C \cup B /\ C \cap B = {}
      BY <1>5, <3>1
    <3>4. Pays(Z, B)
      <4>1. Pays(Piece(d, k - m, n), Piece(d, 0, k - m))
        BY <3>1 DEF Rises, n
      <4>2. Piece(u, m + (k - m), m + n) = Piece(d, k - m, n) /\ Piece(u, m + 0, m + (k - m)) = Piece(d, 0, k - m)
        BY <1>4, <3>1
      <4> QED BY <3>1, <4>1, <4>2
    <3> HIDE DEF A, B, C, D, Z
    <3>5. Pays(Z, D)
      BY <2>1, <3>2, <3>3, <3>4, PaysUnion
    <3>6. Pays(Z, C)
      BY <1>7, <2>1, <3>5, PaysOrder
    <3>7. Pays(Z, C \cup B)
      BY <1>7, <2>1, <3>2, <3>3, <3>4, <3>6, PaysUnion
    <3> QED BY <3>3, <3>7 DEF A, Z
  <2>5. k \in Int /\ m \in Int
    BY <1>1
  <2> QED BY <2>2, <2>3, <2>4, <2>5
<1> QED BY <1>1, <1>8 DEF Rises, u

(* After as many rounds as there are chunks, no last chunk is absorbed. *)
LEMMA AbsorbSettles ==
  ASSUME NEW T, NEW V \in SUBSET Seq(Seq(T)), \A c \in V : AbsorbsLast(c) \in V, NEW cs \in V
  PROVE  LET c == Forest!Absorb(g, cs) IN c \in V /\ AbsorbsLast(c) = c
<1> DEFINE N == Len(cs)
           Goes(f) == f = [i \in 0..N |-> IF i = 0 THEN cs ELSE AbsorbsLast(f[i - 1])]
           rounds == CHOOSE f : Goes(f)
           each == [x \in (1..N) \X V |-> AbsorbsLast(x[2])]
           Settles(i, c) == AbsorbsLast(c) = c \/ Len(c) <= N - i
           I == {x \in (0..N) \X V : Settles(x[1], x[2])}
<1>1. N \in Nat
  OBVIOUS
<1>2. Forest!Absorb(g, cs) = rounds[N]
  BY Zenon DEF Forest!Absorb, AbsorbsLast
<1>a. Settles(0, cs)
  BY <1>1
<1>b. ASSUME NEW i \in 1..N, NEW c \in V, Settles(i - 1, c) PROVE Settles(i, AbsorbsLast(c))
  <2>1. CASE AbsorbsLast(c) = c
    BY <2>1
  <2>2. CASE AbsorbsLast(c) # c
    <3>1. Len(c) - 1 \in 1..(Len(c) - 1) /\ AbsorbsLast(c) = Joined(c, Len(c) - 1)
      BY <2>2, LastAbsorbed
    <3>2. Len(c) <= N - (i - 1) /\ Len(c) \in Nat /\ AbsorbsLast(c) \in Seq(Seq(T))
      BY <1>b, <2>2
    <3>3. DOMAIN AbsorbsLast(c) = 1..(Len(c) - 1)
      BY <3>1 DEF Joined
    <3>4. Len(AbsorbsLast(c)) = Len(c) - 1
      <4>1. \A u \in Seq(Seq(T)), m \in Nat : DOMAIN u = 1..m => Len(u) = m
        OBVIOUS
      <4>2. Len(c) - 1 \in Nat
        BY <3>1, <3>2
      <4> QED BY <3>2, <3>3, <4>1, <4>2
    <3> QED BY <1>1, <3>2, <3>4
  <2> QED BY <2>1, <2>2
<1>c. ASSUME NEW c \in V, Settles(N, c) PROVE AbsorbsLast(c) = c
  <2>1. Len(c) <= 0 => Len(c) < 2
    OBVIOUS
  <2>2. Len(c) <= N - N => Len(c) <= 0
    BY <1>1
  <2>3. ~(Len(c) >= 2) => AbsorbsLast(c) = c
    BY DEF AbsorbsLast
  <2> QED BY <1>c, <2>1, <2>2, <2>3
<1> HIDE DEF N, Settles
<1>d. \A i \in 1..N : \A v \in V : <<i - 1, v>> \in I => <<i, AbsorbsLast(v)>> \in I
  <2> TAKE i \in 1..N
  <2> TAKE v \in V
  <2> HAVE <<i - 1, v>> \in I
  <2>1. i \in 0..N /\ AbsorbsLast(v) \in V
    BY <1>1
  <2> QED BY <1>b, <2>1
<1>3. RecursIn(N, V, I, cs, each)
  <2>1. I \in SUBSET ((0..N) \X V) /\ <<0, cs>> \in I
    BY <1>1, <1>a
  <2>2. \A i \in 1..N : \A v \in V : each[<<i, v>>] = AbsorbsLast(v)
    OBVIOUS
  <2> HIDE DEF each, I
  <2> QED BY <1>1, <1>d, <2>1, <2>2, GuardedRecursion
<1> PICK f \in [0..N -> V] : f[0] = cs /\ \A i \in 1..N : f[i] = each[<<i, f[i - 1]>>]
  BY <1>3 DEF RecursIn
<1>4. Goes(f)
  <2>1. \A i \in 0..N : f[i] = IF i = 0 THEN cs ELSE AbsorbsLast(f[i - 1])
    <3> TAKE i \in 0..N
    <3>1. CASE i # 0
      <4>1. i \in 1..N /\ i - 1 \in 0..N /\ f[i - 1] \in V
        BY <1>1, <3>1
      <4> QED BY <3>1, <4>1
    <3> QED BY <3>1
  <2> QED BY <2>1
<1>5. Goes(rounds)
  BY <1>4
<1> HIDE DEF rounds
<1>6. rounds[0] = cs /\ \A i \in 1..N : rounds[i] = AbsorbsLast(rounds[i - 1])
  BY <1>1, <1>5
<1>7. <<N, rounds[N]>> \in I
  <2>1. \A i \in 1..N : <<i - 1, rounds[i - 1]>> \in I => <<i, rounds[i]>> \in I
    <3> TAKE i \in 1..N
    <3> HAVE <<i - 1, rounds[i - 1]>> \in I
    <3>1. rounds[i - 1] \in V
      OBVIOUS
    <3> HIDE DEF I
    <3> QED BY <1>6, <1>d, <3>1
  <2>2. <<0, rounds[0]>> \in I
    BY <1>1, <1>6, <1>a
  <2> HIDE DEF I
  <2> QED BY <1>1, <2>1, <2>2, StaysIn
<1> QED BY <1>2, <1>7, <1>c

(* What every step of chunkify keeps holds of its result. *)
LEMMA ChunkifyRounds ==
  ASSUME NEW T, NEW s \in Seq(T), NEW I \in SUBSET ((0..Len(s)) \X Seq(Seq(T))), <<0, <<>>>> \in I,
         \A i \in 1..Len(s) : \A c \in Seq(Seq(T)) :
           <<i - 1, c>> \in I => <<i, Forest!Absorb(g, Append(c, <<s[i]>>))>> \in I
  PROVE  <<Len(s), Forest!Chunkify(g, s)>> \in I
<1> DEFINE N == Len(s)
           V == Seq(Seq(T))
           Grow(c, i) == Forest!Absorb(g, Append(c, <<s[i]>>))
           Goes(f) == f = [i \in 0..N |-> IF i = 0 THEN <<>> ELSE Grow(f[i - 1], i)]
           rounds == CHOOSE f : Goes(f)
           each == [x \in (1..N) \X V |-> Grow(x[2], x[1])]
<1>1. N \in Nat
  OBVIOUS
<1>2. Forest!Chunkify(g, s) = rounds[N]
  BY Zenon DEF Forest!Chunkify
<1>3. \A i \in 1..N : \A c \in V : <<i - 1, c>> \in I => <<i, Grow(c, i)>> \in I
  OBVIOUS
<1>4. I \in SUBSET ((0..N) \X V)
  OBVIOUS
<1> HIDE DEF N, V, Grow
<1>6. RecursIn(N, V, I, <<>>, each)
  <2>2. \A i \in 1..N : \A v \in V : each[<<i, v>>] = Grow(v, i)
    OBVIOUS
  <2> HIDE DEF each
  <2> QED BY <1>1, <1>3, <1>4, <2>2, GuardedRecursion
<1> PICK f \in [0..N -> V] : f[0] = <<>> /\ \A i \in 1..N : f[i] = each[<<i, f[i - 1]>>]
  BY <1>6 DEF RecursIn
<1>7. Goes(f)
  <2>1. \A i \in 0..N : f[i] = IF i = 0 THEN <<>> ELSE Grow(f[i - 1], i)
    <3> TAKE i \in 0..N
    <3>1. CASE i # 0
      <4>1. i \in 1..N /\ i - 1 \in 0..N /\ f[i - 1] \in V
        BY <1>1, <3>1
      <4> QED BY <3>1, <4>1
    <3> QED BY <3>1
  <2> QED BY <2>1
<1>8. Goes(rounds)
  BY <1>7
<1> HIDE DEF rounds
<1>9. rounds[0] = <<>> /\ \A i \in 1..N : rounds[i] = Grow(rounds[i - 1], i)
  BY <1>1, <1>8
<1>10. <<N, rounds[N]>> \in I
  <2>1. \A i \in 1..N : <<i - 1, rounds[i - 1]>> \in I => <<i, rounds[i]>> \in I
    <3> TAKE i \in 1..N
    <3> HAVE <<i - 1, rounds[i - 1]>> \in I
    <3>1. rounds[i - 1] \in V
      BY <1>4
    <3> QED BY <1>3, <1>9, <3>1
  <2>2. <<0, rounds[0]>> \in I
    BY <1>9
  <2> QED BY <1>1, <2>1, <2>2, StaysIn
<1> QED BY <1>2, <1>10 DEF N

-----------------------------------------------------------------------------
(* The first m of the sequences gs make up the first n members of s; e are the
   places in s where they end. *)
Slices(gs, m, s, n, e) ==
  /\ e \in [0..m -> Nat] /\ e[0] = 0 /\ e[m] = n
  /\ \A i \in 1..m : /\ Len(gs[i]) \in Nat \ {0} /\ e[i] = e[i - 1] + Len(gs[i])
                     /\ \A p \in 1..Len(gs[i]) : s[e[i - 1] + p] = gs[i][p]
  /\ \A i, j \in 0..m : i < j => e[i] < e[j]
Sliced(gs, m, s, n) == \E e : Slices(gs, m, s, n, e)

(* With one more sequence after them. *)
LEMMA SlicedMore ==
  ASSUME NEW gs, NEW m \in Nat, NEW s, NEW n \in Nat, Sliced(gs, m, s, n), NEW hs, NEW t,
         \A i \in 1..m : hs[i] = gs[i], \A j \in 1..n : t[j] = s[j],
         NEW k \in Nat \ {0}, k = Len(hs[m + 1]), \A p \in 1..k : t[n + p] = hs[m + 1][p]
  PROVE  Sliced(hs, m + 1, t, n + k)
<1> PICK e : Slices(gs, m, s, n, e)
  BY DEF Sliced
<1> DEFINE d == [i \in 0..(m + 1) |-> IF i = m + 1 THEN n + k ELSE e[i]]
<1>1. /\ \A i \in 0..(m + 1) : i \in 0..m \/ i = m + 1
      /\ \A i \in 0..m : i # m + 1 /\ i \in 0..(m + 1)
      /\ \A i \in 1..(m + 1) : i \in 1..m \/ i = m + 1
      /\ \A i \in 1..m : i \in 0..m /\ i - 1 \in 0..m
      /\ (m + 1) - 1 = m /\ m \in 0..m /\ 0 \in 0..m /\ m + 1 \in 0..(m + 1)
  OBVIOUS
<1>2. /\ e \in [0..m -> Nat] /\ e[0] = 0 /\ e[m] = n
      /\ \A i \in 1..m : /\ Len(gs[i]) \in Nat \ {0} /\ e[i] = e[i - 1] + Len(gs[i])
                         /\ \A p \in 1..Len(gs[i]) : s[e[i - 1] + p] = gs[i][p]
      /\ \A i, j \in 0..m : i < j => e[i] < e[j]
  BY DEF Slices
<1>3. d[m + 1] = n + k /\ (\A i \in 0..m : d[i] = e[i]) /\ d \in [0..(m + 1) -> Nat]
  BY <1>1, <1>2
<1> HIDE DEF d
<1>4. \A i \in 0..m : e[i] <= n /\ e[i] \in Nat
  <2> TAKE i \in 0..m
  <2>1. i = m \/ i < m
    OBVIOUS
  <2> QED BY <1>1, <1>2, <2>1
<1>5. ASSUME NEW i \in 1..(m + 1)
      PROVE  /\ Len(hs[i]) \in Nat \ {0} /\ d[i] = d[i - 1] + Len(hs[i])
             /\ \A p \in 1..Len(hs[i]) : t[d[i - 1] + p] = hs[i][p]
  <2>1. CASE i = m + 1
    <3>1. i - 1 = m /\ d[i - 1] = n /\ d[i] = n + k /\ k = Len(hs[i])
      BY <1>1, <1>2, <1>3, <2>1
    <3>2. \A p \in 1..k : t[n + p] = hs[i][p]
      BY <2>1
    <3> QED BY <3>1, <3>2
  <2>2. CASE i \in 1..m
    <3>1. /\ hs[i] = gs[i] /\ d[i] = e[i] /\ d[i - 1] = e[i - 1] /\ i - 1 \in 0..m
          /\ e[i] = e[i - 1] + Len(gs[i]) /\ Len(gs[i]) \in Nat \ {0}
      BY <1>1, <1>2, <1>3, <2>2
    <3>2. \A p \in 1..Len(gs[i]) : t[e[i - 1] + p] = gs[i][p]
      <4> TAKE p \in 1..Len(gs[i])
      <4>1. e[i - 1] + p \in 1..n
        <5>1. e[i] <= n /\ e[i - 1] \in Nat /\ e[i] \in Nat
          BY <1>1, <1>4, <2>2
        <5>2. \A a, b, l \in Nat : \A q \in 1..l : b = a + l /\ b <= n => a + q \in 1..n
          OBVIOUS
        <5> QED BY <3>1, <5>1, <5>2
      <4> QED BY <1>2, <2>2, <4>1
    <3> QED BY <3>1, <3>2
  <2> QED BY <1>1, <2>1, <2>2
<1>6. ASSUME NEW i \in 0..(m + 1), NEW j \in 0..(m + 1), i < j PROVE d[i] < d[j]
  <2>1. i \in 0..m
    BY <1>6
  <2>2. CASE j \in 0..m
    BY <1>2, <1>3, <1>6, <2>1, <2>2
  <2>3. CASE j = m + 1
    <3>1. d[i] <= n /\ d[i] \in Nat /\ d[j] = n + k
      BY <1>3, <1>4, <2>1, <2>3
    <3> QED BY <3>1
  <2> QED BY <1>1, <2>2, <2>3
<1>7. Slices(hs, m + 1, t, n + k, d)
  BY <1>1, <1>2, <1>3, <1>5, <1>6 DEF Slices
<1> QED BY <1>7 DEF Sliced

(* Without the last of them. *)
SlicedBefore(gs, m, s, n) ==
  \E k, r \in Nat : /\ k # 0 /\ k = Len(gs[m]) /\ r + k = n /\ Sliced(gs, m - 1, s, r)
                    /\ \A p \in 1..k : s[r + p] = gs[m][p]
LEMMA SlicedLess ==
  ASSUME NEW gs, NEW m \in Nat \ {0}, NEW s, NEW n \in Nat, Sliced(gs, m, s, n)
  PROVE  SlicedBefore(gs, m, s, n)
<1> DEFINE k == Len(gs[m])
<1> PICK e : Slices(gs, m, s, n, e)
  BY DEF Sliced
<1> DEFINE d == [i \in 0..(m - 1) |-> e[i]]
<1>1. /\ e \in [0..m -> Nat] /\ e[0] = 0 /\ e[m] = n
      /\ \A i \in 1..m : /\ Len(gs[i]) \in Nat \ {0} /\ e[i] = e[i - 1] + Len(gs[i])
                         /\ \A p \in 1..Len(gs[i]) : s[e[i - 1] + p] = gs[i][p]
      /\ \A i, j \in 0..m : i < j => e[i] < e[j]
  BY DEF Slices
<1>2. m \in 1..m /\ m - 1 \in 0..m /\ m - 1 \in 0..(m - 1) /\ 0 \in 0..(m - 1)
      /\ (\A i \in 0..(m - 1) : i \in 0..m) /\ (\A i \in 1..(m - 1) : i \in 1..m /\ i - 1 \in 0..(m - 1) /\ i \in 0..(m - 1))
  OBVIOUS
<1>3. k \in Nat \ {0} /\ e[m - 1] \in Nat /\ n = e[m - 1] + k
  BY <1>1, <1>2
<1> HIDE DEF k
<1>4. e[m - 1] = n - k /\ n - k \in Nat
  BY <1>3
<1>5. \A i \in 0..(m - 1) : d[i] = e[i]
  OBVIOUS
<1>6. d \in [0..(m - 1) -> Nat]
  BY <1>1, <1>2
<1> HIDE DEF d
<1>7. Slices(gs, m - 1, s, n - k, d)
  BY <1>1, <1>2, <1>4, <1>5, <1>6 DEF Slices
<1>8. \A p \in 1..k : s[(n - k) + p] = gs[m][p]
  <2>1. \A p \in 1..k : s[e[m - 1] + p] = gs[m][p]
    BY <1>1, <1>2 DEF k
  <2> QED BY <1>4, <2>1
<1>9. Sliced(gs, m - 1, s, n - k) /\ k = Len(gs[m]) /\ (n - k) + k = n
  BY <1>3, <1>7 DEF Sliced, k
<1> HIDE DEF k
<1> DEFINE r == n - k
<1>10. r \in Nat /\ Sliced(gs, m - 1, s, r) /\ r + k = n /\ \A p \in 1..k : s[r + p] = gs[m][p]
  BY <1>4, <1>8, <1>9
<1> HIDE DEF r
<1> QED BY <1>3, <1>9, <1>10 DEF SlicedBefore

(* The last two joined. *)
LEMMA SlicedJoined ==
  ASSUME NEW T, NEW gs \in Seq(Seq(T)), Len(gs) >= 2, NEW s, NEW n \in Nat, Sliced(gs, Len(gs), s, n)
  PROVE  Sliced(Joined(gs, Len(gs) - 1), Len(gs) - 1, s, n)
<1> DEFINE m == Len(gs)
           hs == Joined(gs, m - 1)
           both == gs[m - 1] \o gs[m]
<1>1. m \in Nat /\ m >= 2 /\ DOMAIN gs = 1..m
  OBVIOUS
<1>2. gs[m - 1] \in Seq(T) /\ gs[m] \in Seq(T)
  BY <1>1
<1> HIDE DEF m
<1>3. m - 1 \in Nat \ {0} /\ m - 2 \in Nat /\ m \in Nat \ {0} /\ (m - 1) - 1 = m - 2 /\ (m - 2) + 1 = m - 1
  BY <1>1
<1>4. hs[m - 1] = both /\ \A i \in 1..(m - 2) : hs[i] = gs[i]
  <2>1. hs = [i \in 1..(m - 1) |-> IF i < m - 1 THEN gs[i]
                                  ELSE IF i = m - 1 THEN gs[m - 1] \o gs[(m - 1) + 1] ELSE gs[i + 1]]
    BY DEF Joined, m
  <2>2. (m - 1) + 1 = m /\ m - 1 \in 1..(m - 1) /\ \A i \in 1..(m - 2) : i \in 1..(m - 1) /\ i < m - 1
    BY <1>1
  <2> HIDE DEF hs
  <2>3. \A i \in 1..(m - 1) : hs[i] = IF i < m - 1 THEN gs[i]
                                  ELSE IF i = m - 1 THEN gs[m - 1] \o gs[(m - 1) + 1] ELSE gs[i + 1]
    BY <2>1
  <2>4. hs[m - 1] = gs[m - 1] \o gs[(m - 1) + 1]
    <3>1. PICK x \in Nat : x = m - 1
      BY <1>3
    <3>2. x \in 1..(m - 1) /\ ~(x < m - 1)
      BY <2>2, <3>1
    <3>3. hs[x] = gs[m - 1] \o gs[(m - 1) + 1]
      BY <2>3, <3>1, <3>2
    <3> QED BY <3>1, <3>3
  <2>5. hs[m - 1] = both
    BY <2>2, <2>4
  <2> HIDE DEF both
  <2>6. \A i \in 1..(m - 2) : hs[i] = gs[i]
    BY <2>2, <2>3
  <2> QED BY <2>5, <2>6
<1> HIDE DEF hs
<1>5. Sliced(gs, m, s, n)
  BY DEF m
<1>a. SlicedBefore(gs, m, s, n)
  BY <1>3, <1>5, SlicedLess
<1>6. PICK b, r \in Nat : /\ b # 0 /\ b = Len(gs[m]) /\ r + b = n /\ Sliced(gs, m - 1, s, r)
                          /\ \A p \in 1..b : s[r + p] = gs[m][p]
  BY <1>a DEF SlicedBefore
<1>7. SlicedBefore(gs, m - 1, s, r)
  BY <1>3, <1>6, SlicedLess
<1>9. PICK a, q \in Nat : /\ a # 0 /\ a = Len(gs[m - 1]) /\ q + a = r /\ Sliced(gs, m - 2, s, q)
                          /\ \A p \in 1..a : s[q + p] = gs[m - 1][p]
  BY <1>3, <1>7 DEF SlicedBefore
<1>10. /\ Len(both) = a + b
       /\ \A p \in 1..(a + b) : both[p] = IF p <= a THEN gs[m - 1][p] ELSE gs[m][p - a]
  <2>1. \A u, v \in Seq(T) : /\ Len(u \o v) = Len(u) + Len(v)
                             /\ \A p \in 1..(Len(u) + Len(v)) :
                                  (u \o v)[p] = IF p <= Len(u) THEN u[p] ELSE v[p - Len(u)]
    OBVIOUS
  <2>2. a = Len(gs[m - 1]) /\ b = Len(gs[m])
    BY <1>6, <1>9
  <2> QED BY <1>2, <2>1, <2>2
<1> HIDE DEF both
<1>11. a \in Nat \ {0} /\ b \in Nat \ {0} /\ a + b \in Nat \ {0} /\ q + (a + b) = n /\ r \in Nat /\ q + a = r
  <2>1. r + b = n /\ q + a = r /\ a # 0 /\ b # 0
    BY <1>6, <1>9
  <2> QED BY <2>1
<1>12. \A p \in 1..(a + b) : s[q + p] = both[p]
  <2> TAKE p \in 1..(a + b)
  <2>1. CASE p <= a
    <3>1. p \in 1..a
      BY <1>11, <2>1
    <3> QED BY <1>9, <1>10, <2>1, <3>1
  <2>2. CASE ~(p <= a)
    <3>1. p - a \in 1..b /\ r + (p - a) = q + p
      BY <1>11, <2>2
    <3>2. s[r + (p - a)] = gs[m][p - a]
      BY <1>6, <3>1
    <3> QED BY <1>10, <2>2, <3>1, <3>2
  <2> QED BY <2>1, <2>2
<1>13. Sliced(hs, (m - 2) + 1, s, q + (a + b))
  <2> DEFINE k == a + b
  <2>1. k \in Nat \ {0} /\ k = Len(hs[(m - 2) + 1]) /\ \A p \in 1..k : s[q + p] = hs[(m - 2) + 1][p]
    BY <1>3, <1>4, <1>10, <1>11, <1>12
  <2> HIDE DEF k
  <2>2. Sliced(hs, (m - 2) + 1, s, q + k)
    BY <1>3, <1>4, <1>9, <2>1, SlicedMore, ZenonT(40)
  <2> QED BY <2>2 DEF k
<1> QED BY <1>3, <1>11, <1>13 DEF hs, m

-----------------------------------------------------------------------------
(* Chunks of the first n members of s, all of which rise; the first f fall. *)
ChunksTo(c, P, s, n, f) ==
  /\ P \in SUBSET Forest!Txs /\ Grouped(c, P, g.parents)
  /\ \A k \in DOMAIN c : Rises(c[k])
  /\ Falls(c, f) /\ Sliced(c, Len(c), s, n)

LEMMA SequenceLength == ASSUME NEW V, NEW u \in Seq(V), NEW m \in Nat, DOMAIN u = 1..m PROVE Len(u) = m
  OBVIOUS

(* Groups hold transactions, some each, and none twice. *)
LEMMA GroupSets ==
  ASSUME NEW P, P \in SUBSET Forest!Txs, NEW c, Grouped(c, P, g.parents)
  PROVE  /\ c \in Seq(Seq(Forest!Txs)) /\ DOMAIN c = 1..Len(c) /\ Len(c) \in Nat
         /\ \A k \in DOMAIN c : c[k] \in Seq(Forest!Txs) /\ c[k] # <<>> /\ Forest!ToSet(c[k]) \in Sets
         /\ \A k \in DOMAIN c : \A i, j \in DOMAIN c[k] : c[k][i] = c[k][j] => i = j
<1>1. c \in Seq(Seq(P)) /\ \A k \in DOMAIN c : c[k] # <<>> /\ Ordering(c[k], Forest!ToSet(c[k]), g.parents)
  BY DEF Grouped
<1>2. c \in Seq(Seq(Forest!Txs))
  <2>1. Seq(P) \subseteq Seq(Forest!Txs)
    OBVIOUS
  <2> QED BY <1>1, <2>1
<1>3. DOMAIN c = 1..Len(c) /\ Len(c) \in Nat /\ \A k \in DOMAIN c : c[k] \in Seq(Forest!Txs)
  BY <1>2
<1>4. ASSUME NEW k \in DOMAIN c PROVE Forest!ToSet(c[k]) \in Sets
  <2> PICK u \in Seq(Forest!Txs) : u = c[k]
    BY <1>3
  <2>1. Forest!ToSet(u) = {u[i] : i \in DOMAIN u}
    BY SameSet
  <2>2. u # <<>>
    BY <1>1
  <2>3. 1 \in DOMAIN u /\ \A i \in DOMAIN u : u[i] \in Forest!Txs
    BY <2>2
  <2> QED BY <2>1, <2>3 DEF Sets
<1>5. \A k \in DOMAIN c : \A i, j \in DOMAIN c[k] : c[k][i] = c[k][j] => i = j
  BY <1>1 DEF Ordering, Lists
<1> QED BY <1>1, <1>2, <1>3, <1>4, <1>5

LEMMA AbsorbsWhen ==
  ASSUME NEW c
  PROVE  \/ AbsorbsLast(c) = c
         \/ Len(c) >= 2 /\ Pays(Forest!ToSet(c[Len(c)]), Forest!ToSet(c[Len(c) - 1]))
  BY DEF AbsorbsLast, Pays

(* One round of Absorb joins two chunks to one that rises again. *)
LEMMA ChunksJoined ==
  ASSUME g \in Clusters, NEW P, NEW s, NEW n \in Nat, NEW c, ChunksTo(c, P, s, n, Len(c) - 1)
  PROVE  LET d == AbsorbsLast(c) IN ChunksTo(d, P, s, n, Len(d) - 1)
<1> DEFINE d == AbsorbsLast(c)
           m == Len(c)
<1>1. CASE d = c
  BY <1>1
<1>2. CASE d # c
  <2>1. P \in SUBSET Forest!Txs /\ Grouped(c, P, g.parents) /\ Falls(c, m - 1) /\ Sliced(c, m, s, n)
        /\ \A k \in DOMAIN c : Rises(c[k])
    BY DEF ChunksTo
  <2>2. /\ c \in Seq(Seq(Forest!Txs)) /\ DOMAIN c = 1..m /\ m \in Nat
        /\ \A k \in DOMAIN c : c[k] \in Seq(Forest!Txs) /\ c[k] # <<>>
    BY <2>1, GroupSets
  <2>3. m >= 2 /\ Pays(Forest!ToSet(c[m]), Forest!ToSet(c[m - 1])) /\ d = Joined(c, m - 1)
    BY <1>2, <2>2, AbsorbsWhen, LastAbsorbed
  <2> HIDE DEF d, m
  <2>4. m - 1 \in 1..(m - 1) /\ m - 1 \in DOMAIN c /\ m \in DOMAIN c /\ (m - 1) + 1 = m /\ m - 1 \in Nat
    BY <2>2, <2>3
  <2>5. Grouped(d, P, g.parents)
    BY <2>1, <2>3, <2>4, GroupsJoined DEF m
  <2>6. Sliced(d, m - 1, s, n)
    BY <2>1, <2>2, <2>3, SlicedJoined DEF m
  <2>7. d = [i \in 1..(m - 1) |-> IF i < m - 1 THEN c[i] ELSE IF i = m - 1 THEN c[m - 1] \o c[(m - 1) + 1] ELSE c[i + 1]]
    BY <2>3 DEF Joined, m
  <2>8. DOMAIN d = 1..(m - 1) /\ \A i \in 1..(m - 1) : IF i < m - 1 THEN d[i] = c[i] ELSE d[i] = c[m - 1] \o c[m]
    <3>1. PICK u : u = c[m - 1] \o c[m]
      OBVIOUS
    <3>2. c[(m - 1) + 1] = c[m]
      BY <2>4
    <3>3. d = [i \in 1..(m - 1) |-> IF i < m - 1 THEN c[i] ELSE IF i = m - 1 THEN u ELSE c[i + 1]]
      BY <2>7, <3>1, <3>2
    <3>4. \A i \in 1..(m - 1) : ~(i < m - 1) => i = m - 1
      BY <2>4
    <3> QED BY <3>1, <3>3, <3>4
  <2>9. Len(d) = m - 1
    <3>1. d \in Seq(Seq(P))
      BY <2>5 DEF Grouped
    <3> QED BY <2>4, <2>8, <3>1, SequenceLength
  <2>10. ASSUME NEW k \in DOMAIN d PROVE Rises(d[k])
    <3>1. CASE k < m - 1
      <4>1. k \in DOMAIN c /\ d[k] = c[k]
        BY <2>2, <2>4, <2>8, <3>1
      <4> QED BY <2>1, <4>1
    <3>2. CASE ~(k < m - 1)
      <4>1. PICK u \in Seq(Forest!Txs), v \in Seq(Forest!Txs) : u = c[m - 1] /\ v = c[m]
        BY <2>2, <2>4
      <4>2. d[k] = u \o v /\ u # <<>> /\ v # <<>> /\ Rises(u) /\ Rises(v) /\ Pays(Forest!ToSet(v), Forest!ToSet(u))
        BY <2>1, <2>2, <2>3, <2>4, <2>8, <3>2, <4>1
      <4>3. \A i, j \in DOMAIN d[k] : d[k][i] = d[k][j] => i = j
        BY <2>1, <2>5, GroupSets
      <4>4. \A i, j \in DOMAIN (u \o v) : (u \o v)[i] = (u \o v)[j] => i = j
        BY <4>2, <4>3
      <4>5. Rises(u \o v)
        BY <4>2, <4>4, RisesJoined
      <4> QED BY <4>2, <4>5
    <3> QED BY <3>1, <3>2
  <2>11. Falls(d, (m - 1) - 1)
    <3>1. \A i \in 1..((m - 1) - 1) : i \in 1..(m - 1) /\ d[i] = c[i]
      BY <2>4, <2>8
    <3> QED BY <2>1, <3>1 DEF Falls
  <2> QED BY <2>1, <2>5, <2>6, <2>9, <2>10, <2>11 DEF ChunksTo, d
<1> QED BY <1>1, <1>2

(* When the last chunk pays no more than the one before it, all of them fall. *)
LEMMA ChunksSettled ==
  ASSUME g \in Clusters, NEW P, NEW s, NEW n \in Nat, NEW c, ChunksTo(c, P, s, n, Len(c) - 1), AbsorbsLast(c) = c
  PROVE  ChunksTo(c, P, s, n, Len(c))
<1> DEFINE m == Len(c)
<1>1. P \in SUBSET Forest!Txs /\ Grouped(c, P, g.parents) /\ Falls(c, m - 1) /\ Sliced(c, m, s, n)
      /\ \A k \in DOMAIN c : Rises(c[k])
  BY DEF ChunksTo
<1>2. /\ c \in Seq(Seq(Forest!Txs)) /\ DOMAIN c = 1..m /\ m \in Nat
      /\ \A k \in DOMAIN c : Forest!ToSet(c[k]) \in Sets
  BY <1>1, GroupSets
<1>3. m >= 2 => ~Pays(Forest!ToSet(c[m]), Forest!ToSet(c[m - 1]))
  <2> SUFFICES ASSUME m >= 2, Pays(Forest!ToSet(c[m]), Forest!ToSet(c[m - 1])) PROVE FALSE
    OBVIOUS
  <2>1. c = Append(SubSeq(c, 1, m - 2), c[m - 1] \o c[m])
    BY DEF AbsorbsLast, Pays
  <2>2. Len(Append(SubSeq(c, 1, m - 2), c[m - 1] \o c[m])) = m - 1
    <3> DEFINE V == Seq(Forest!Txs)
    <3>1. c[m - 1] \in V /\ c[m] \in V
      BY <1>2
    <3>2. c[m - 1] \o c[m] \in V
      BY <3>1
    <3> HIDE DEF V
    <3>3. SubSeq(c, 1, m - 2) \in Seq(V) /\ Len(SubSeq(c, 1, m - 2)) = m - 2
      BY <1>2 DEF V
    <3> QED BY <1>2, <3>2, <3>3
  <2> QED BY <1>2, <2>1, <2>2
<1> HIDE DEF m
<1>4. ASSUME NEW i \in 1..m, NEW j \in 1..m, i < j
      PROVE  ~Pays(Forest!ToSet(c[j]), Forest!ToSet(c[i]))
  <2>1. CASE j # m
    <3>1. i \in 1..(m - 1) /\ j \in 1..(m - 1)
      BY <1>2, <1>4, <2>1
    <3> QED BY <1>1, <1>4, <3>1 DEF Falls
  <2>2. CASE j = m /\ i = m - 1
    BY <1>2, <1>3, <1>4, <2>2
  <2>3. CASE j = m /\ i # m - 1
    <3>1. i \in 1..(m - 1) /\ m - 1 \in 1..(m - 1) /\ i < m - 1 /\ m >= 2 /\ m - 1 \in 1..m /\ m \in 1..m
      BY <1>2, <1>4, <2>3
    <3>2. ~Pays(Forest!ToSet(c[m - 1]), Forest!ToSet(c[i])) /\ ~Pays(Forest!ToSet(c[m]), Forest!ToSet(c[m - 1]))
      BY <1>1, <1>3, <3>1 DEF Falls
    <3>3. Forest!ToSet(c[m - 1]) \in Sets /\ Forest!ToSet(c[m]) \in Sets /\ Forest!ToSet(c[i]) \in Sets
      BY <1>2, <3>1
    <3> QED BY <2>3, <3>2, <3>3, PaysOrder
  <2> QED BY <2>1, <2>2, <2>3
<1>5. Falls(c, m)
  BY <1>4 DEF Falls
<1> QED BY <1>1, <1>5 DEF ChunksTo, m

(* chunkify: a new transaction is a chunk of its own, which rises. *)
LEMMA ChunkStarted ==
  ASSUME g \in Clusters, NEW s, Ordering(s, Forest!Txs, g.parents), NEW i \in 1..Len(s),
         NEW c, ChunksTo(c, Prefix(s, i - 1), s, i - 1, Len(c))
  PROVE  LET d == Append(c, <<s[i]>>) IN ChunksTo(d, Prefix(s, i), s, i, Len(d) - 1)
<1> DEFINE d == Append(c, <<s[i]>>)
           m == Len(c)
           x == s[i]
<1>1. s \in Seq(Forest!Txs) /\ Len(s) \in Nat /\ i \in Nat /\ i - 1 \in Nat /\ x \in Forest!Txs
  BY DEF Ordering, Lists
<1>2. /\ Grouped(c, Prefix(s, i - 1), g.parents) /\ Falls(c, m) /\ Sliced(c, m, s, i - 1)
      /\ \A k \in DOMAIN c : Rises(c[k])
  BY DEF ChunksTo
<1>3. Grouped(d, Prefix(s, i), g.parents) /\ c \in Seq(Seq(Forest!Txs))
  BY <1>2, PrefixGrown
<1>4. Prefix(s, i) \in SUBSET Forest!Txs
  <2>1. \A j \in 1..i : s[j] \in Forest!Txs
    BY <1>1
  <2> QED BY <2>1 DEF Prefix
<1>5. /\ Len(d) = m + 1 /\ m \in Nat /\ d[m + 1] = <<x>> /\ DOMAIN d = 1..(m + 1) /\ DOMAIN c = 1..m
      /\ \A k \in 1..m : d[k] = c[k]
  BY <1>1, <1>3
<1> HIDE DEF d, m, x
<1>6. Rises(<<x>>)
  <2>1. 1..(Len(<<x>>) - 1) = {}
    OBVIOUS
  <2> QED BY <2>1 DEF Rises
<1>7. \A k \in DOMAIN d : Rises(d[k])
  <2> TAKE k \in DOMAIN d
  <2>1. CASE k = m + 1
    BY <1>5, <1>6, <2>1
  <2>2. CASE k # m + 1
    <3>1. k \in 1..m
      BY <1>5, <2>2
    <3> QED BY <1>2, <1>5, <3>1
  <2> QED BY <2>1, <2>2
<1>8. Falls(d, Len(d) - 1)
  <2>1. Len(d) - 1 = m
    BY <1>5
  <2> QED BY <1>2, <1>5, <2>1 DEF Falls
<1>9. Sliced(d, m + 1, s, (i - 1) + 1)
  <2>1. Len(d[m + 1]) = 1 /\ \A p \in 1..1 : s[(i - 1) + p] = d[m + 1][p]
    <3>1. (i - 1) + 1 = i /\ <<x>>[1] = x /\ Len(<<x>>) = 1
      BY <1>1
    <3>2. \A p \in 1..1 : p = 1
      OBVIOUS
    <3> QED BY <1>5, <3>1, <3>2 DEF x
  <2>2. PICK k \in Nat \ {0} : k = 1
    OBVIOUS
  <2>3. PICK n \in Nat : n = i - 1
    BY <1>1
  <2>4. k = Len(d[m + 1]) /\ (\A p \in 1..k : s[n + p] = d[m + 1][p]) /\ Sliced(c, m, s, n)
    BY <1>2, <2>1, <2>2, <2>3
  <2>5. \A j \in 1..n : s[j] = s[j]
    OBVIOUS
  <2>6. Sliced(d, m + 1, s, n + k)
    BY <1>5, <2>4, <2>5, SlicedMore
  <2> QED BY <2>2, <2>3, <2>6
<1>10. (i - 1) + 1 = i
  BY <1>1
<1>11. ChunksTo(d, Prefix(s, i), s, i, Len(d) - 1)
  BY <1>3, <1>4, <1>5, <1>7, <1>8, <1>9, <1>10 DEF ChunksTo
<1> QED BY <1>11 DEF d

(* When nothing is absorbed any more, all chunks fall. *)
LEMMA ChunksAbsorbed ==
  ASSUME g \in Clusters, NEW P, NEW s, NEW n \in Nat, NEW c, ChunksTo(c, P, s, n, Len(c) - 1)
  PROVE  LET d == Forest!Absorb(g, c) IN ChunksTo(d, P, s, n, Len(d))
<1> DEFINE V == {b \in Seq(Seq(Forest!Txs)) : ChunksTo(b, P, s, n, Len(b) - 1)}
           d == Forest!Absorb(g, c)
<1>1. \A b : ChunksTo(b, P, s, n, Len(b) - 1) => b \in V
  <2> TAKE b
  <2> HAVE ChunksTo(b, P, s, n, Len(b) - 1)
  <2>1. P \in SUBSET Forest!Txs /\ Grouped(b, P, g.parents)
    BY DEF ChunksTo
  <2> QED BY <2>1, GroupSets
<1>2. \A b \in V : AbsorbsLast(b) \in V
  <2> TAKE b \in V
  <2>1. ChunksTo(AbsorbsLast(b), P, s, n, Len(AbsorbsLast(b)) - 1)
    BY ChunksJoined
  <2> HIDE DEF V
  <2> QED BY <1>1, <2>1
<1>3. c \in V /\ V \in SUBSET Seq(Seq(Forest!Txs))
  BY <1>1
<1>4. d \in V /\ AbsorbsLast(d) = d
  <2> HIDE DEF V
  <2> QED BY <1>2, <1>3, AbsorbSettles
<1> HIDE DEF d
<1>5. ChunksTo(d, P, s, n, Len(d))
  BY <1>4, ChunksSettled
<1> QED BY <1>5 DEF d

(* The chunks of chunkify rise, and fall from one to the next. *)
LEMMA ChunksOfOrdering ==
  ASSUME g \in Clusters, NEW s, Ordering(s, Forest!Txs, g.parents)
  PROVE  LET c == Forest!Chunkify(g, s) IN ChunksTo(c, Forest!Txs, s, Len(s), Len(c))
<1> DEFINE V == Seq(Seq(Forest!Txs))
           N == Len(s)
           I == {x \in (0..N) \X V : ChunksTo(x[2], Prefix(s, x[1]), s, x[1], Len(x[2]))}
<1>1. s \in Seq(Forest!Txs) /\ N \in Nat /\ Prefix(s, 0) = {} /\ Prefix(s, N) = Forest!Txs
  BY PrefixEnds DEF Ordering, Lists
<1>2. <<0, <<>>>> \in I
  <2>1. Grouped(<<>>, {}, g.parents)
    BY NoGroups
  <2>2. Sliced(<<>>, 0, s, 0)
    <3> DEFINE e == [i \in 0..0 |-> 0]
    <3>1. Slices(<<>>, 0, s, 0, e)
      BY DEF Slices
    <3> QED BY <3>1 DEF Sliced
  <2>3. ChunksTo(<<>>, {}, s, 0, Len(<<>>))
    <3>1. Falls(<<>>, 0) /\ Len(<<>>) = 0 /\ DOMAIN <<>> = {}
      BY DEF Falls
    <3> QED BY <2>1, <2>2, <3>1 DEF ChunksTo
  <2>4. 0 \in 0..N /\ <<>> \in V
    BY <1>1
  <2> HIDE DEF V, N
  <2> QED BY <1>1, <2>3, <2>4
<1>3. ASSUME NEW i \in 1..N, NEW c \in V, <<i - 1, c>> \in I
      PROVE  <<i, Forest!Absorb(g, Append(c, <<s[i]>>))>> \in I
  <2> DEFINE d == Append(c, <<s[i]>>)
             a == Forest!Absorb(g, d)
  <2>1. ChunksTo(c, Prefix(s, i - 1), s, i - 1, Len(c))
    <3> HIDE DEF V, N
    <3> QED BY <1>3
  <2>2. ChunksTo(d, Prefix(s, i), s, i, Len(d) - 1)
    BY <2>1, ChunkStarted
  <2>3. i \in Nat /\ i \in 0..N
    BY <1>1
  <2> HIDE DEF d
  <2>4. ChunksTo(a, Prefix(s, i), s, i, Len(a))
    BY <2>2, <2>3, ChunksAbsorbed
  <2>5. a \in V
    <3>1. Prefix(s, i) \in SUBSET Forest!Txs /\ Grouped(a, Prefix(s, i), g.parents)
      BY <2>4 DEF ChunksTo
    <3> QED BY <3>1, GroupSets
  <2> HIDE DEF a, V, N
  <2>6. <<i, a>> \in I
    BY <2>3, <2>4, <2>5
  <2> QED BY <2>6 DEF a, d
<1>4. I \in SUBSET ((0..Len(s)) \X V)
  OBVIOUS
<1> HIDE DEF I
<1>5. <<Len(s), Forest!Chunkify(g, s)>> \in I
  BY <1>1, <1>2, <1>3, <1>4, ChunkifyRounds
<1> HIDE DEF V, N
<1>6. ChunksTo(Forest!Chunkify(g, s), Prefix(s, Len(s)), s, Len(s), Len(Forest!Chunkify(g, s)))
  BY <1>5 DEF I
<1> QED BY <1>1, <1>6 DEF N

-----------------------------------------------------------------------------
(* Places e that cut the members of s into m pieces that rise, and fall from
   one to the next. *)
Cuts(s, m, e) ==
  /\ e \in [0..m -> 0..Len(s)] /\ e[0] = 0 /\ e[m] = Len(s)
  /\ \A i, j \in 0..m : i < j => e[i] < e[j]
  /\ \A i \in 1..m : \A k \in 0..Len(s) :
       e[i - 1] < k /\ k < e[i] => Pays(Piece(s, k, e[i]), Piece(s, e[i - 1], k))
  /\ \A i, j \in 1..m : i < j => ~Pays(Piece(s, e[j - 1], e[j]), Piece(s, e[i - 1], e[i]))
Once(s) == s \in Seq(Forest!Txs) /\ \A i, j \in DOMAIN s : s[i] = s[j] => i = j

ShowsAt(s, u, o, n) == \A p \in 1..n : s[o + p] = u[p]
SamePieces(s, u, o, n) == \A a, b \in 0..n : Piece(s, o + a, o + b) = Piece(u, a, b)
LEMMA PieceOfSlice ==
  ASSUME NEW s, NEW u, NEW o \in Nat, NEW n \in Nat, ShowsAt(s, u, o, n)
  PROVE  SamePieces(s, u, o, n)
<1> SUFFICES ASSUME NEW a \in 0..n, NEW b \in 0..n PROVE Piece(s, o + a, o + b) = Piece(u, a, b)
  BY DEF SamePieces
<1>1. ASSUME NEW x \in Piece(u, a, b) PROVE x \in Piece(s, o + a, o + b)
  <2>1. PICK j \in (a + 1)..b : x = u[j]
    BY DEF Piece
  <2>2. o + j \in ((o + a) + 1)..(o + b) /\ s[o + j] = u[j]
    BY DEF ShowsAt
  <2> QED BY <2>1, <2>2 DEF Piece
<1>2. ASSUME NEW x \in Piece(s, o + a, o + b) PROVE x \in Piece(u, a, b)
  <2>1. PICK i \in ((o + a) + 1)..(o + b) : x = s[i]
    BY DEF Piece
  <2>2. i - o \in (a + 1)..b /\ i - o \in 1..n /\ i = o + (i - o)
    OBVIOUS
  <2>3. s[i] = u[i - o]
    BY <2>2 DEF ShowsAt
  <2> QED BY <2>1, <2>2, <2>3 DEF Piece
<1> QED BY <1>1, <1>2

LEMMA PieceSets ==
  ASSUME NEW s, Once(s), NEW a \in 0..Len(s), NEW b \in 0..Len(s), a < b
  PROVE  /\ Piece(s, a, b) \in Sets
         /\ \A c \in 0..Len(s) : b < c => /\ Piece(s, a, c) = Piece(s, a, b) \cup Piece(s, b, c)
                                         /\ Piece(s, a, b) \cap Piece(s, b, c) = {}
<1>1. s \in Seq(Forest!Txs) /\ \A i, j \in DOMAIN s : s[i] = s[j] => i = j
  BY DEF Once
<1>2. Len(s) \in Nat /\ a \in 0..Len(s) /\ b \in a..Len(s) /\ \A c \in 0..Len(s) : b < c => c \in b..Len(s)
  BY <1>1
<1>3. \A c \in b..Len(s) :
         /\ Piece(s, a, c) = Piece(s, a, b) \cup Piece(s, b, c)
         /\ Piece(s, a, b) \cap Piece(s, b, c) = {}
         /\ Piece(s, a, b) \in SUBSET Forest!Txs /\ (a < b => Piece(s, a, b) # {})
  BY <1>1, <1>2, PiecesJoin
<1>4. b \in b..Len(s)
  BY <1>2
<1>5. Piece(s, a, b) \in Sets
  BY <1>3, <1>4 DEF Sets
<1> QED BY <1>2, <1>3, <1>5

(* Up to an end and from it on: what comes after pays no more. *)
LEMMA EndsPart ==
  ASSUME g \in Clusters, NEW s, Once(s), NEW m \in Nat, NEW e, Cuts(s, m, e), NEW i \in 1..m,
         NEW x \in 0..Len(s), x < e[i], NEW y \in 0..Len(s), e[i] < y
  PROVE  ~Pays(Piece(s, e[i], y), Piece(s, x, e[i]))
<1> DEFINE N == Len(s)
           C == Piece(s, e[i - 1], e[i])
           Low(z) == ~Pays(Piece(s, e[i], z), C)
           High(z) == ~Pays(C, Piece(s, z, e[i]))
<1>1. /\ e \in [0..m -> 0..N] /\ e[0] = 0 /\ e[m] = N /\ N \in Nat
      /\ \A j, k \in 0..m : j < k => e[j] < e[k]
      /\ \A j \in 1..m : \A k \in 0..N : e[j - 1] < k /\ k < e[j] => Pays(Piece(s, k, e[j]), Piece(s, e[j - 1], k))
      /\ \A j, k \in 1..m : j < k => ~Pays(Piece(s, e[k - 1], e[k]), Piece(s, e[j - 1], e[j]))
  BY DEF Cuts, Once
<1>2. /\ \A j \in 1..m : j \in 0..m /\ j - 1 \in 0..m /\ e[j - 1] \in 0..N /\ e[j] \in 0..N /\ e[j - 1] < e[j]
      /\ \A j \in 0..m : e[j] \in 0..N
  <2>1. \A j \in 1..m : j \in 0..m /\ j - 1 \in 0..m /\ j - 1 < j
    OBVIOUS
  <2> QED BY <1>1, <2>1
<1>3. \A a, b \in 0..N : a < b => /\ Piece(s, a, b) \in Sets
        /\ \A c \in 0..N : b < c => /\ Piece(s, a, c) = Piece(s, a, b) \cup Piece(s, b, c)
                                    /\ Piece(s, a, b) \cap Piece(s, b, c) = {}
  BY PieceSets
<1> HIDE DEF N
(* A front part of a piece pays at most as much as the piece, the rest at least. *)
<1>4. ASSUME NEW j \in 1..m, NEW z \in 0..N, e[j - 1] < z, z < e[j]
      PROVE  /\ ~Pays(Piece(s, e[j - 1], z), Piece(s, e[j - 1], e[j]))
             /\ ~Pays(Piece(s, e[j - 1], e[j]), Piece(s, z, e[j]))
  <2> DEFINE A == Piece(s, e[j - 1], z)
             B == Piece(s, z, e[j])
  <2>1. A \in Sets /\ B \in Sets /\ A \cap B = {} /\ Piece(s, e[j - 1], e[j]) = A \cup B
    BY <1>2, <1>3, <1>4
  <2>2. Pays(B, A)
    BY <1>1, <1>4
  <2> HIDE DEF A, B
  <2>3. A \cup B \in Sets /\ Pays(B, A \cup B) /\ Pays(A \cup B, A)
    BY <2>1, <2>2, PaysUnion
  <2>4. ~Pays(A, A \cup B) /\ ~Pays(A \cup B, B)
    BY <2>1, <2>3, PaysOrder
  <2> QED BY <2>1, <2>4 DEF A, B
<1>5. C \in Sets /\ ~Pays(C, C)
  <2>1. C \in Sets
    BY <1>2, <1>3
  <2> QED BY <2>1, PaysOrder
<1> DEFINE U == {j \in 0..m : \A z \in 0..N : e[i] < z /\ z <= e[j] => Low(z)}
<1>6. 0 \in U
  BY <1>1, <1>2
<1>7. ASSUME NEW j \in 0..(m - 1), j \in U PROVE j + 1 \in U
  <2> SUFFICES ASSUME NEW z \in 0..N, e[i] < z, z <= e[j + 1] PROVE Low(z)
    OBVIOUS
  <2>1. j \in 0..m /\ j + 1 \in 1..m /\ (j + 1) - 1 = j /\ j \in Nat /\ i \in Nat /\ i \in 0..m
    OBVIOUS
  <2>2. e[j] \in 0..N /\ e[j + 1] \in 0..N /\ e[j] < e[j + 1] /\ e[i] \in 0..N
    BY <1>2, <2>1
  <2>3. CASE z <= e[j]
    BY <1>7, <2>3
  <2>4. CASE ~(z <= e[j])
    <3> DEFINE B == Piece(s, e[j], z)
               D == Piece(s, e[j], e[j + 1])
    <3>1. i <= j
      <4>1. j < i => j + 1 <= i /\ (j + 1 = i \/ j + 1 < i)
        BY <2>1
      <4>2. j + 1 < i => e[j + 1] < e[i]
        BY <1>1, <2>1
      <4> QED BY <1>2, <2>1, <2>2, <4>1, <4>2
    <3>2. e[j] < z /\ B \in Sets /\ D \in Sets
      BY <1>3, <2>2, <2>4
    <3>3. ~Pays(B, D)
      <4>1. CASE z < e[j + 1]
        BY <1>4, <2>1, <3>2, <4>1
      <4>2. CASE z = e[j + 1]
        BY <3>2, <4>2, PaysOrder
      <4> QED BY <2>2, <4>1, <4>2
    <3>4. ~Pays(D, C)
      <4>1. i < j + 1 /\ i \in 1..m
        BY <2>1, <3>1
      <4> QED BY <1>1, <2>1, <4>1
    <3>5. ~Pays(B, C)
      <4> HIDE DEF B, C, D
      <4> QED BY <1>5, <3>2, <3>3, <3>4, PaysOrder
    <3>6. CASE i = j
      BY <3>5, <3>6
    <3>7. CASE i < j
      <4> DEFINE A == Piece(s, e[i], e[j])
      <4>1. e[i] < e[j]
        BY <1>1, <2>1, <3>7
      <4>2. A \in Sets /\ A \cap B = {} /\ Piece(s, e[i], z) = A \cup B
        BY <1>3, <2>2, <3>2, <4>1
      <4>3. ~Pays(A, C)
        BY <1>7, <2>2, <4>1
      <4> HIDE DEF A, B, C
      <4>4. ~Pays(A \cup B, C)
        BY <1>5, <3>2, <3>5, <4>2, <4>3, PaysUnion
      <4> QED BY <4>2, <4>4
    <3> QED BY <2>1, <3>1, <3>6, <3>7
  <2> QED BY <2>2, <2>3, <2>4
<1>8. Low(y)
  <2>1. m \in U
    <3>1. m \in 0..m
      OBVIOUS
    <3> HIDE DEF U
    <3> QED BY <1>6, <1>7, <3>1, UpTo
  <2>2. y <= e[m] /\ y \in 0..N
    BY <1>1 DEF N
  <2> QED BY <2>1, <2>2
<1> DEFINE W == {j \in 0..(i - 1) : \A z \in 0..N : e[(i - 1) - j] <= z /\ z < e[i] => High(z)}
<1>9. \A j \in 1..i : \A z \in 0..N : e[j - 1] <= z /\ z < e[j] => ~Pays(C, Piece(s, z, e[j]))
  <2> TAKE j \in 1..i
  <2> TAKE z \in 0..N
  <2> HAVE e[j - 1] <= z /\ z < e[j]
  <2> DEFINE B == Piece(s, z, e[j])
             D == Piece(s, e[j - 1], e[j])
  <2>1. j \in 1..m /\ i \in 1..m /\ (j = i \/ j < i)
    OBVIOUS
  <2>2. B \in Sets /\ D \in Sets /\ e[j - 1] \in 0..N
    BY <1>2, <1>3, <2>1
  <2>3. ~Pays(D, B)
    <3>1. CASE e[j - 1] < z
      BY <1>4, <2>1, <3>1
    <3>2. CASE e[j - 1] = z
      BY <2>2, <3>2, PaysOrder
    <3> QED BY <2>2, <3>1, <3>2
  <2>4. ~Pays(C, D)
    BY <1>1, <1>5, <2>1
  <2> HIDE DEF B, C, D
  <2>5. ~Pays(C, B)
    BY <1>5, <2>2, <2>3, <2>4, PaysOrder
  <2> QED BY <2>5 DEF B
<1>10. 0 \in W
  <2>1. (i - 1) - 0 = i - 1 /\ 0 \in 0..(i - 1) /\ i \in 1..i
    OBVIOUS
  <2> QED BY <1>9, <2>1
<1>11. ASSUME NEW j \in 0..((i - 1) - 1), j \in W PROVE j + 1 \in W
  <2> SUFFICES ASSUME NEW z \in 0..N, e[(i - 1) - (j + 1)] <= z, z < e[i] PROVE High(z)
    OBVIOUS
  <2> DEFINE k == (i - 1) - j
  <2>1. k \in 1..i /\ k \in 0..m /\ k \in 1..m /\ k < i /\ (i - 1) - (j + 1) = k - 1 /\ i \in 0..m
    OBVIOUS
  <2>2. e[k] <= z => High(z)
    BY <1>11
  <2> HIDE DEF k
  <2>3. CASE z < e[k]
    <3> DEFINE A == Piece(s, z, e[k])
               B == Piece(s, e[k], e[i])
    <3>1. e[k] < e[i] /\ e[k] \in 0..N /\ e[i] \in 0..N
      BY <1>1, <1>2, <2>1
    <3>2. A \in Sets /\ B \in Sets /\ A \cap B = {} /\ Piece(s, z, e[i]) = A \cup B
      BY <1>3, <2>3, <3>1
    <3>3. ~Pays(C, A)
      BY <1>9, <2>1, <2>3
    <3>4. ~Pays(C, B)
      BY <1>11, <3>1 DEF k
    <3> HIDE DEF A, B, C
    <3>5. ~Pays(C, A \cup B)
      BY <1>5, <3>2, <3>3, <3>4, PaysUnion
    <3> QED BY <3>2, <3>5
  <2>4. e[k] \in 0..N
    BY <1>2, <2>1
  <2> QED BY <2>2, <2>3, <2>4
<1>12. High(x)
  <2>1. i - 1 \in Nat /\ i - 1 \in 0..(i - 1) /\ (i - 1) - (i - 1) = 0
    OBVIOUS
  <2>2. i - 1 \in W
    <3> HIDE DEF W
    <3> QED BY <1>10, <1>11, <2>1, UpTo
  <2>3. e[0] <= x /\ x \in 0..N
    BY <1>1 DEF N
  <2> QED BY <2>1, <2>2, <2>3
<1>13. Piece(s, e[i], y) \in Sets /\ Piece(s, x, e[i]) \in Sets
  <2>1. e[i] \in 0..N /\ x \in 0..N /\ y \in 0..N
    BY <1>2 DEF N
  <2> QED BY <1>3, <2>1
<1> HIDE DEF C
<1> QED BY <1>5, <1>8, <1>12, <1>13, PaysOrder

(* Every end of one cutting is an end of any other. *)
LEMMA SharedEnds ==
  ASSUME g \in Clusters, NEW s, Once(s), NEW m \in Nat, NEW e, Cuts(s, m, e), NEW l \in Nat, NEW d, Cuts(s, l, d),
         NEW i \in 0..m
  PROVE  \E j \in 0..l : d[j] = e[i]
<1> DEFINE N == Len(s)
           q == e[i]
           D == {j \in 0..l : q <= d[j]}
<1>1. /\ e \in [0..m -> 0..N] /\ e[0] = 0 /\ e[m] = N /\ N \in Nat
      /\ \A j, k \in 0..m : j < k => e[j] < e[k]
      /\ d \in [0..l -> 0..N] /\ d[0] = 0 /\ d[l] = N
      /\ \A j \in 1..l : \A k \in 0..N : d[j - 1] < k /\ k < d[j] => Pays(Piece(s, k, d[j]), Piece(s, d[j - 1], k))
  BY DEF Cuts, Once
<1>2. q \in 0..N
  BY <1>1
<1> HIDE DEF N, q
<1>3. PICK j \in D : \A k \in D : j <= k
  <2>1. l \in 0..l /\ q <= d[l]
    BY <1>1, <1>2
  <2>2. D \in SUBSET Nat /\ D # {}
    BY <2>1
  <2> HIDE DEF D
  <2> QED BY <2>2, LeastNat
<1>4. j \in 0..l /\ q <= d[j] /\ d[j] \in 0..N
  BY <1>1
<1>5. CASE q = d[j]
  BY <1>4, <1>5 DEF q
<1>6. CASE q # d[j]
  <2>1. j # 0
    BY <1>1, <1>2, <1>4, <1>6
  <2>2. j \in 1..l /\ j - 1 \in 0..l /\ ~(j <= j - 1)
    BY <1>4, <2>1
  <2>3. d[j - 1] < q
    <3>1. j - 1 \notin D
      <4> HIDE DEF D
      <4> QED BY <1>3, <2>2
    <3>2. d[j - 1] \in 0..N
      BY <1>1, <2>2
    <3> QED BY <1>2, <2>2, <3>1, <3>2
  <2>4. q < d[j]
    BY <1>2, <1>4, <1>6
  <2>5. Pays(Piece(s, q, d[j]), Piece(s, d[j - 1], q))
    BY <1>1, <1>2, <2>2, <2>3, <2>4
  <2>6. i # 0
    <3>1. d[j - 1] \in 0..N
      BY <1>1, <2>2
    <3> QED BY <1>1, <1>2, <2>3, <3>1 DEF q
  <2>7. i \in 1..m /\ d[j - 1] \in 0..Len(s) /\ d[j] \in 0..Len(s)
    BY <1>1, <2>2, <2>6 DEF N
  <2>8. ~Pays(Piece(s, e[i], d[j]), Piece(s, d[j - 1], e[i]))
    BY <2>3, <2>4, <2>7, EndsPart DEF q
  <2> QED BY <2>5, <2>8 DEF q
<1> QED BY <1>5, <1>6

(* So two such cuts of a list are the same. *)
LEMMA SameEnds ==
  ASSUME g \in Clusters, NEW s, Once(s), NEW m \in Nat, NEW e, Cuts(s, m, e), NEW l \in Nat, NEW d, Cuts(s, l, d)
  PROVE  m = l /\ \A i \in 0..m : e[i] = d[i]
<1> DEFINE T == {i \in 0..m : i <= l /\ \A j \in 0..i : e[j] = d[j]}
<1>1. /\ e \in [0..m -> 0..Len(s)] /\ e[0] = 0 /\ e[m] = Len(s) /\ Len(s) \in Nat
      /\ \A j, k \in 0..m : j < k => e[j] < e[k]
      /\ d \in [0..l -> 0..Len(s)] /\ d[0] = 0 /\ d[l] = Len(s)
      /\ \A j, k \in 0..l : j < k => d[j] < d[k]
  BY DEF Cuts, Once
<1>2. /\ \A i \in 0..m : \E j \in 0..l : d[j] = e[i]
      /\ \A i \in 0..l : \E j \in 0..m : e[j] = d[i]
  BY SharedEnds
<1>3. 0 \in T
  BY <1>1
<1>4. ASSUME NEW i \in 0..(m - 1), i \in T PROVE i + 1 \in T
  <2>1. i \in 0..l /\ i \in 0..m /\ i + 1 \in 0..m /\ e[i] = d[i] /\ e[i] < e[i + 1] /\ i \in Nat
    BY <1>1, <1>4
  <2>2. i # l
    <3> SUFFICES ASSUME i = l PROVE FALSE
      OBVIOUS
    <3>1. e[i] = Len(s) /\ e[i + 1] \in 0..Len(s)
      BY <1>1, <2>1
    <3> QED BY <1>1, <2>1, <3>1
  <2>3. i + 1 \in 0..l
    BY <2>1, <2>2
  <2>4. e[i + 1] \in 0..Len(s) /\ d[i + 1] \in 0..Len(s) /\ d[i] < d[i + 1]
    BY <1>1, <2>1, <2>3
  <2>5. ~(e[i + 1] < d[i + 1])
    <3> SUFFICES ASSUME e[i + 1] < d[i + 1] PROVE FALSE
      OBVIOUS
    <3>1. PICK j \in 0..l : d[j] = e[i + 1]
      BY <1>2, <2>1
    <3>2. CASE j <= i
      <4>1. j = i \/ j < i
        BY <2>1, <3>2
      <4>2. d[j] = d[i] \/ d[j] < d[i]
        BY <1>1, <2>1, <4>1
      <4> QED BY <1>1, <2>1, <2>4, <3>1, <4>2
    <3>3. CASE ~(j <= i)
      <4>1. j = i + 1 \/ i + 1 < j
        BY <2>1, <3>3
      <4>2. d[j] = d[i + 1] \/ d[i + 1] < d[j]
        BY <1>1, <2>3, <4>1
      <4> QED BY <2>4, <3>1, <4>2
    <3> QED BY <3>2, <3>3
  <2>6. ~(d[i + 1] < e[i + 1])
    <3> SUFFICES ASSUME d[i + 1] < e[i + 1] PROVE FALSE
      OBVIOUS
    <3>1. PICK j \in 0..m : e[j] = d[i + 1]
      BY <1>2, <2>3
    <3>2. CASE j <= i
      <4>1. j = i \/ j < i
        BY <2>1, <3>2
      <4>2. e[j] = e[i] \/ e[j] < e[i]
        BY <1>1, <2>1, <4>1
      <4> QED BY <1>1, <2>1, <2>4, <3>1, <4>2
    <3>3. CASE ~(j <= i)
      <4>1. j = i + 1 \/ i + 1 < j
        BY <2>1, <3>3
      <4>2. e[j] = e[i + 1] \/ e[i + 1] < e[j]
        BY <1>1, <2>1, <4>1
      <4> QED BY <2>4, <3>1, <4>2
    <3> QED BY <3>2, <3>3
  <2>7. e[i + 1] = d[i + 1]
    BY <2>4, <2>5, <2>6
  <2>8. \A j \in 0..(i + 1) : j \in 0..i \/ j = i + 1
    BY <2>1
  <2> QED BY <1>4, <2>1, <2>3, <2>7, <2>8
<1>5. m \in T
  <2>1. m \in 0..m
    OBVIOUS
  <2> HIDE DEF T
  <2> QED BY <1>3, <1>4, <2>1, UpTo
<1>6. m = l
  <2> SUFFICES ASSUME m # l PROVE FALSE
    OBVIOUS
  <2>1. m < l /\ m \in 0..l /\ l \in 0..l /\ e[m] = d[m]
    BY <1>5
  <2>2. d[m] < d[l] /\ d[m] = d[l]
    BY <1>1, <2>1
  <2> QED BY <1>1, <2>2
<1> QED BY <1>5, <1>6

(* Chunks that rise and fall are cuts. *)
CutFrom(c, s) ==
  /\ Len(c) \in Nat /\ c = [i \in 1..Len(c) |-> c[i]]
  /\ \E e : Slices(c, Len(c), s, Len(s), e) /\ Cuts(s, Len(c), e)
LEMMA CutByChunks ==
  ASSUME g \in Clusters, NEW s, Once(s), NEW c, ChunksTo(c, Forest!Txs, s, Len(s), Len(c))
  PROVE  CutFrom(c, s)
<1> DEFINE m == Len(c)
           N == Len(s)
<1>1. /\ Grouped(c, Forest!Txs, g.parents) /\ Falls(c, m) /\ Sliced(c, m, s, N)
      /\ \A k \in DOMAIN c : Rises(c[k])
  BY DEF ChunksTo
<1>2. /\ c \in Seq(Seq(Forest!Txs)) /\ DOMAIN c = 1..m /\ m \in Nat
      /\ \A k \in DOMAIN c : c[k] \in Seq(Forest!Txs)
  BY <1>1, GroupSets
<1>3. N \in Nat
  BY DEF Once
<1> HIDE DEF m, N
<1> PICK e : Slices(c, m, s, N, e)
  BY <1>1 DEF Sliced
<1>4. /\ e \in [0..m -> Nat] /\ e[0] = 0 /\ e[m] = N
      /\ \A i \in 1..m : /\ Len(c[i]) \in Nat \ {0} /\ e[i] = e[i - 1] + Len(c[i])
                         /\ \A p \in 1..Len(c[i]) : s[e[i - 1] + p] = c[i][p]
      /\ \A i, j \in 0..m : i < j => e[i] < e[j]
  BY DEF Slices
<1>5. e \in [0..m -> 0..N]
  <2>1. ASSUME NEW i \in 0..m PROVE e[i] \in 0..N
    <3>1. i = m \/ i < m
      BY <1>2
    <3>2. e[i] \in Nat /\ (e[i] = N \/ e[i] < N)
      BY <1>2, <1>4, <3>1
    <3> QED BY <1>3, <3>2
  <2> QED BY <1>4, <2>1
<1>6. ASSUME NEW i \in 1..m, NEW a \in 0..Len(c[i]), NEW b \in 0..Len(c[i])
      PROVE  Piece(s, e[i - 1] + a, e[i - 1] + b) = Piece(c[i], a, b)
  <2>1. PICK n \in Nat : n = Len(c[i])
    BY <1>4
  <2>2. PICK o \in Nat : o = e[i - 1]
    <3>1. i - 1 \in 0..m
      BY <1>2
    <3> QED BY <1>4, <3>1
  <2>3. PICK u : u = c[i]
    OBVIOUS
  <2>4. ShowsAt(s, u, o, n)
    BY <1>4, <2>1, <2>2, <2>3 DEF ShowsAt
  <2>5. a \in 0..n /\ b \in 0..n
    BY <2>1
  <2>6. Piece(s, o + a, o + b) = Piece(u, a, b)
    <3>1. SamePieces(s, u, o, n)
      BY <2>4, PieceOfSlice
    <3> QED BY <2>5, <3>1 DEF SamePieces
  <2> QED BY <2>2, <2>3, <2>6
<1>7. ASSUME NEW i \in 1..m PROVE Piece(s, e[i - 1], e[i]) = Forest!ToSet(c[i])
  <2>1. PICK n \in Nat : n = Len(c[i])
    BY <1>4
  <2>2. PICK o \in Nat : o = e[i - 1]
    <3>1. i - 1 \in 0..m
      BY <1>2
    <3> QED BY <1>4, <3>1
  <2>3. 0 \in 0..n /\ n \in 0..n /\ o + 0 = o /\ e[i] = o + n
    BY <1>4, <2>1, <2>2
  <2>4. Piece(s, o + 0, o + n) = Piece(c[i], 0, n)
    BY <1>6, <2>1, <2>2, <2>3
  <2>5. Forest!ToSet(c[i]) = Piece(c[i], 0, n)
    BY <1>2, <2>1, WholePiece
  <2> QED BY <2>2, <2>3, <2>4, <2>5
<1>8. ASSUME NEW i \in 1..m, NEW k \in 0..N, e[i - 1] < k, k < e[i]
      PROVE  Pays(Piece(s, k, e[i]), Piece(s, e[i - 1], k))
  <2>1. PICK n \in Nat : n = Len(c[i])
    BY <1>4
  <2>2. PICK o \in Nat : o = e[i - 1]
    <3>1. i - 1 \in 0..m
      BY <1>2
    <3> QED BY <1>4, <3>1
  <2>3. PICK a \in 1..(n - 1) : k = o + a
    <3>1. k - o \in 1..(n - 1) /\ k = o + (k - o)
      <4>1. e[i] = o + n
        BY <1>4, <2>1, <2>2
      <4> QED BY <1>3, <1>8, <2>2, <4>1
    <3> QED BY <3>1
  <2>4. a \in 0..n /\ 0 \in 0..n /\ n \in 0..n /\ o + 0 = o /\ e[i] = o + n
    BY <1>4, <2>1, <2>2
  <2>5. Piece(s, o + a, o + n) = Piece(c[i], a, n) /\ Piece(s, o + 0, o + a) = Piece(c[i], 0, a)
    BY <1>6, <2>1, <2>2, <2>4
  <2>6. Pays(Piece(c[i], a, n), Piece(c[i], 0, a))
    BY <1>1, <1>2, <2>1, <2>3 DEF Rises
  <2> QED BY <2>2, <2>3, <2>4, <2>5, <2>6
<1>9. \A i, j \in 1..m : i < j => ~Pays(Piece(s, e[j - 1], e[j]), Piece(s, e[i - 1], e[i]))
  BY <1>1, <1>7 DEF Falls
<1>10. Cuts(s, m, e)
  BY <1>4, <1>5, <1>8, <1>9 DEF Cuts, N
<1>11. c = [i \in 1..m |-> c[i]]
  BY <1>2
<1> QED BY <1>2, <1>10, <1>11 DEF CutFrom, m, N

(* A list has one such cut into chunks, the one that chunkify makes. *)
LEMMA ChunksUnique ==
  ASSUME g \in Clusters, NEW s, Once(s), NEW c, ChunksTo(c, Forest!Txs, s, Len(s), Len(c)),
         NEW b, ChunksTo(b, Forest!Txs, s, Len(s), Len(b))
  PROVE  b = c
<1>0. CutFrom(c, s) /\ CutFrom(b, s)
  BY CutByChunks
<1>1. PICK e : Slices(c, Len(c), s, Len(s), e) /\ Cuts(s, Len(c), e)
  BY <1>0 DEF CutFrom
<1>2. PICK d : Slices(b, Len(b), s, Len(s), d) /\ Cuts(s, Len(b), d)
  BY <1>0 DEF CutFrom
<1>3. Len(c) \in Nat /\ Len(b) \in Nat /\ b = [i \in 1..Len(b) |-> b[i]] /\ c = [i \in 1..Len(c) |-> c[i]]
  BY <1>0 DEF CutFrom
<1>4. PICK m \in Nat : m = Len(c)
  BY <1>3
<1>5. m = Len(b) /\ \A i \in 0..m : e[i] = d[i]
  <2>1. PICK l \in Nat : l = Len(b)
    BY <1>3
  <2>2. Cuts(s, m, e) /\ Cuts(s, l, d)
    BY <1>1, <1>2, <1>4, <2>1
  <2> QED BY <2>1, <2>2, SameEnds
<1>6. \A i \in 1..m : c[i] \in Seq(Forest!Txs) /\ b[i] \in Seq(Forest!Txs)
  <2>1. Grouped(c, Forest!Txs, g.parents) /\ Grouped(b, Forest!Txs, g.parents)
    BY DEF ChunksTo
  <2>2. DOMAIN c = 1..m /\ DOMAIN b = 1..m
    BY <1>3, <1>4, <1>5
  <2> QED BY <2>1, <2>2, GroupSets
<1>7. ASSUME NEW i \in 1..m PROVE c[i] = b[i]
  <2>1. PICK u \in Seq(Forest!Txs), v \in Seq(Forest!Txs) : u = c[i] /\ v = b[i]
    BY <1>6
  <2>2. PICK o \in Nat : o = e[i - 1] /\ o = d[i - 1]
    <3>1. i - 1 \in 0..m
      OBVIOUS
    <3> QED BY <1>1, <1>4, <1>5, <3>1 DEF Slices
  <2>3. /\ Len(u) \in Nat /\ e[i] = o + Len(u) /\ \A p \in 1..Len(u) : s[o + p] = u[p]
        /\ Len(v) \in Nat /\ d[i] = o + Len(v) /\ \A p \in 1..Len(v) : s[o + p] = v[p]
    <3>1. /\ e[i] = e[i - 1] + Len(c[i]) /\ \A p \in 1..Len(c[i]) : s[e[i - 1] + p] = c[i][p]
      BY <1>1, <1>4 DEF Slices
    <3>2. /\ d[i] = d[i - 1] + Len(b[i]) /\ \A p \in 1..Len(b[i]) : s[d[i - 1] + p] = b[i][p]
      BY <1>2, <1>5 DEF Slices
    <3>3. e[i] = o + Len(u) /\ \A p \in 1..Len(u) : s[o + p] = u[p]
      BY <2>1, <2>2, <3>1, Zenon
    <3>4. d[i] = o + Len(v) /\ \A p \in 1..Len(v) : s[o + p] = v[p]
      BY <2>1, <2>2, <3>2, Zenon
    <3> QED BY <3>3, <3>4
  <2>4. i \in 0..m
    OBVIOUS
  <2>5. Len(u) = Len(v)
    BY <1>5, <2>3, <2>4
  <2>6. \A p \in 1..Len(u) : u[p] = v[p]
    BY <2>3, <2>5
  <2>7. u = v
    BY <2>5, <2>6
  <2> QED BY <2>1, <2>7
<1> QED BY <1>3, <1>4, <1>5, <1>7

-----------------------------------------------------------------------------
(* Sequences laid out in a row are its slices. *)
LEMMA SlicedFlat ==
  ASSUME NEW E, NEW ss \in Seq(Seq(E)), \A i \in DOMAIN ss : ss[i] # <<>>
  PROVE  Sliced(ss, Len(ss), Forest!FlattenSeq(ss), Len(Forest!FlattenSeq(ss)))
<1> DEFINE N == Len(ss)
<1>1. PICK f \in [0..N -> Seq(E)] :
        /\ f[0] = <<>> /\ Forest!FlattenSeq(ss) = f[N]
        /\ \A i \in 1..N : f[i] = f[i - 1] \o ss[i]
  BY FlattensByRounds DEF FlattenRounds
<1>2. N \in Nat /\ \A i \in 1..N : ss[i] \in Seq(E) /\ ss[i] # <<>>
  OBVIOUS
<1> HIDE DEF N
<1> DEFINE T == {i \in 0..N : Sliced(ss, i, f[i], Len(f[i]))}
<1>3. 0 \in T
  <2> DEFINE e == [i \in 0..0 |-> 0]
  <2>1. Slices(ss, 0, f[0], Len(f[0]), e)
    BY <1>1 DEF Slices
  <2> HIDE DEF e
  <2> QED BY <1>2, <2>1 DEF Sliced
<1>4. ASSUME NEW i \in 0..(N - 1), i \in T PROVE i + 1 \in T
  <2>1. i + 1 \in 1..N /\ (i + 1) - 1 = i /\ i + 1 \in 0..N /\ i \in 0..N /\ i \in Nat
    BY <1>2
  <2>2. PICK u \in Seq(E), v \in Seq(E) : u = f[i] /\ v = ss[i + 1]
    BY <1>1, <1>2, <2>1
  <2>3. f[i + 1] = u \o v /\ v # <<>>
    BY <1>1, <1>2, <2>1, <2>2
  <2>4. PICK k \in Nat \ {0}, n \in Nat : k = Len(v) /\ n = Len(u)
    BY <2>2, <2>3
  <2>5. /\ Len(u \o v) = n + k
        /\ \A j \in 1..n : (u \o v)[j] = u[j]
        /\ \A p \in 1..k : (u \o v)[n + p] = v[p]
    BY <2>4
  <2>6. Sliced(ss, i, u, n) /\ k = Len(ss[i + 1])
    BY <1>4, <2>2, <2>4
  <2>7. PICK t : t = u \o v
    OBVIOUS
  <2>8. (\A j \in 1..n : t[j] = u[j]) /\ \A p \in 1..k : t[n + p] = ss[i + 1][p]
    BY <2>2, <2>5, <2>7
  <2>9. \A j \in 1..i : ss[j] = ss[j]
    OBVIOUS
  <2>10. Sliced(ss, i + 1, t, n + k)
    BY <2>1, <2>6, <2>8, <2>9, SlicedMore
  <2> QED BY <2>1, <2>3, <2>5, <2>7, <2>10
<1>5. N \in T
  <2>1. N \in 0..N
    BY <1>2
  <2> HIDE DEF T
  <2> QED BY <1>2, <1>3, <1>4, <2>1, UpTo
<1> QED BY <1>1, <1>5 DEF N

-----------------------------------------------------------------------------
(* TakeReady takes, each time, an item that is ready and none sooner than it. *)
ReadyOf(rest, needs) == {x \in rest : needs[x] \cap rest = {}}
LeftBefore(S, s, i) == S \ {s[j] : j \in 1..(i - 1)}
TakesBest(rest, needs, sooner, x) ==
  x \in ReadyOf(rest, needs) /\ \A y \in ReadyOf(rest, needs) \ {x} : <<y, x>> \notin sooner
Greedy(s, S, needs, sooner) == \A i \in 1..Len(s) : TakesBest(LeftBefore(S, s, i), needs, sooner, s[i])

LEMMA TakesGreedily ==
  ASSUME NEW S, IsFiniteSet(S), NEW needs, NEW sooner, HasSoonest(S, sooner)
  PROVE  Greedy(Forest!TakeReady(S, needs, sooner), S, needs, sooner)
<1> DEFINE N == Cardinality(S)
<1>1. PICK f \in [0..N -> Seq(S)] :
        /\ f[0] = <<>> /\ Forest!TakeReady(S, needs, sooner) = f[N]
        /\ \A i \in 1..N : f[i] = TakenNext(S, needs, sooner, f[i - 1])
  BY TakesByRounds, SMTT(30) DEF TakeRounds
<1>2. N \in Nat
  BY FS_CardinalityType
<1>3. ASSUME NEW s \in Seq(S), Greedy(s, S, needs, sooner)
      PROVE  Greedy(TakenNext(S, needs, sooner, s), S, needs, sooner)
  <2> DEFINE rest == S \ Forest!ToSet(s)
             ready == {x \in rest : needs[x] \cap rest = {}}
             Best(x) == \A y \in ready \ {x} : <<y, x>> \notin sooner
  <2>1. CASE ready = {}
    BY <1>3, <2>1 DEF TakenNext
  <2>2. CASE ready # {}
    <3>1. PICK x \in ready : Best(x)
      <4>1. ready \in SUBSET S
        OBVIOUS
      <4> HIDE DEF ready
      <4> QED BY <2>2, <4>1 DEF HasSoonest
    <3>2. PICK c : c \in ready /\ Best(c) /\ TakenNext(S, needs, sooner, s) = Append(s, c)
      <4> DEFINE c == CHOOSE y \in ready : Best(y)
      <4>1. c \in ready /\ Best(c)
        <5> HIDE DEF ready, Best
        <5> QED BY <3>1
      <4>2. TakenNext(S, needs, sooner, s) = Append(s, c)
        BY <2>2 DEF TakenNext
      <4> HIDE DEF c, Best, ready
      <4> QED BY <4>1, <4>2
    <3>3. PICK t : t = Append(s, c)
      OBVIOUS
    <3>4. /\ Len(t) = Len(s) + 1 /\ t[Len(s) + 1] = c /\ Len(s) \in Nat
          /\ \A i \in 1..Len(s) : t[i] = s[i]
      BY <3>3
    <3>5. ASSUME NEW i \in 1..(Len(s) + 1) PROVE LeftBefore(S, t, i) = LeftBefore(S, s, i)
      <4>1. \A j \in 1..(i - 1) : t[j] = s[j]
        BY <3>4
      <4> QED BY <4>1 DEF LeftBefore
    <3>6. LeftBefore(S, s, Len(s) + 1) = rest
      <4>1. (Len(s) + 1) - 1 = Len(s) /\ DOMAIN s = 1..Len(s)
        BY <3>4
      <4> QED BY <4>1, SameSet DEF LeftBefore
    <3>7. TakesBest(LeftBefore(S, t, Len(s) + 1), needs, sooner, t[Len(s) + 1])
      <4>1. Len(s) + 1 \in 1..(Len(s) + 1)
        BY <3>4
      <4>2. LeftBefore(S, t, Len(s) + 1) = rest
        BY <3>5, <3>6, <4>1
      <4>3. TakesBest(rest, needs, sooner, c)
        <5>1. ReadyOf(rest, needs) = ready
          BY DEF ReadyOf
        <5> HIDE DEF ready, rest
        <5> QED BY <3>2, <5>1 DEF TakesBest
      <4> QED BY <3>4, <4>2, <4>3
    <3>8. ASSUME NEW i \in 1..Len(s) PROVE TakesBest(LeftBefore(S, t, i), needs, sooner, t[i])
      <4>1. i \in 1..(Len(s) + 1)
        BY <3>4
      <4> QED BY <1>3, <3>4, <3>5, <4>1 DEF Greedy
    <3>9. \A i \in 1..Len(t) : i \in 1..Len(s) \/ i = Len(s) + 1
      BY <3>4
    <3>10. Greedy(t, S, needs, sooner)
      BY <3>7, <3>8, <3>9 DEF Greedy
    <3> QED BY <3>2, <3>3, <3>10
  <2> QED BY <2>1, <2>2
<1> HIDE DEF N
<1> DEFINE T == {i \in 0..N : Greedy(f[i], S, needs, sooner)}
<1>4. 0 \in T
  <2>1. 1..Len(f[0]) = {}
    BY <1>1
  <2> QED BY <1>2, <2>1 DEF Greedy
<1>5. \A i \in 0..(N - 1) : i \in T => i + 1 \in T
  <2> TAKE i \in 0..(N - 1)
  <2> HAVE i \in T
  <2>1. i + 1 \in 1..N /\ (i + 1) - 1 = i /\ i + 1 \in 0..N /\ i \in 0..N
    BY <1>2
  <2>2. f[i + 1] = TakenNext(S, needs, sooner, f[i]) /\ f[i] \in Seq(S)
    BY <1>1, <2>1
  <2> QED BY <1>3, <2>1, <2>2
<1>6. N \in T
  <2>1. N \in 0..N
    BY <1>2
  <2> HIDE DEF T
  <2> QED BY <1>2, <1>4, <1>5, <2>1, UpTo
<1> QED BY <1>1, <1>6 DEF N

-----------------------------------------------------------------------------
(* canonicalizeChunkOrder: what it compares, and the indices it takes. *)
ItemTxs(gs) == [i \in DOMAIN gs |-> Forest!ToSet(gs[i])]
ItemRank(gs) == [i \in DOMAIN gs |-> Forest!WeightOf(Forest!ToSet(gs[i]))]
ItemNeeds(gs) ==
  [i \in DOMAIN gs |-> {j \in (DOMAIN gs) \ {i} :
                          \E t \in Forest!ToSet(gs[i]) : g.parents[t] \cap Forest!ToSet(gs[j]) # {}}]
ItemSooner(gs) == Forest!Sooner(g, ItemTxs(gs), ItemRank(gs))
ItemOrder(gs) == Forest!TakeReady(DOMAIN gs, ItemNeeds(gs), ItemSooner(gs))

LEMMA CanonicalByItems ==
  \A gs : Forest!CanonicalOrder(g, gs) = [k \in DOMAIN ItemOrder(gs) |-> gs[ItemOrder(gs)[k]]]
  BY Zenon DEF Forest!CanonicalOrder, ItemOrder, ItemSooner, ItemTxs, ItemRank, ItemNeeds

(* It takes every chunk, after those it depends on. *)
LEMMA ItemsOrdered ==
  ASSUME g \in Clusters, NEW gs, Grouped(gs, Forest!Txs, g.parents)
  PROVE  /\ \A i, j \in DOMAIN gs : j \in ItemNeeds(gs)[i] => j < i
         /\ Ordering(ItemOrder(gs), DOMAIN gs, ItemNeeds(gs))
         /\ Greedy(ItemOrder(gs), DOMAIN gs, ItemNeeds(gs), ItemSooner(gs))
<1> DEFINE C == DOMAIN gs
           txs == ItemTxs(gs)
           rank == ItemRank(gs)
           needs == ItemNeeds(gs)
<1>1. /\ C = 1..Len(gs) /\ Len(gs) \in Nat /\ IsFiniteSet(C)
      /\ \A i \in C : Forest!ToSet(gs[i]) \in Sets
  <2>1. C = 1..Len(gs) /\ Len(gs) \in Nat /\ \A i \in C : Forest!ToSet(gs[i]) \in Sets
    BY GroupSets
  <2> QED BY <2>1, FS_Interval
<1>2. DOMAIN txs = C /\ \A i \in C : txs[i] \in SUBSET Forest!Txs /\ txs[i] # {} /\ rank[i] \in Int
  <2>1. \A i \in C : txs[i] = Forest!ToSet(gs[i]) /\ rank[i] = Forest!WeightOf(Forest!ToSet(gs[i]))
    BY DEF ItemTxs, ItemRank
  <2>2. \A S \in Sets : S \in SUBSET Forest!Txs /\ S # {} /\ Forest!WeightOf(S) \in Int
    BY SetRates DEF Sets
  <2>3. DOMAIN txs = C
    BY DEF ItemTxs
  <2> HIDE DEF txs, rank, C
  <2> QED BY <1>1, <2>1, <2>2, <2>3
<1>3. HasSoonest(C, ItemSooner(gs))
  <2>1. ItemSooner(gs) = Forest!Sooner(g, txs, rank)
    BY DEF ItemSooner
  <2> HIDE DEF txs, rank, C
  <2> QED BY <1>1, <1>2, <2>1, SoonestExists
<1>4. ASSUME NEW i \in C, NEW j \in C, j \in needs[i] PROVE j < i
  <2>1. j # i /\ \E t \in Forest!ToSet(gs[i]) : g.parents[t] \cap Forest!ToSet(gs[j]) # {}
    BY <1>4 DEF ItemNeeds
  <2>2. ~(i < j)
    BY <2>1 DEF Grouped
  <2> QED BY <1>1, <2>1, <2>2
<1>5. Unlooped(C, needs)
  <2> SUFFICES ASSUME NEW R \in SUBSET C, R # {} PROVE \E i \in R : needs[i] \cap R = {}
    BY DEF Unlooped
  <2>1. PICK i \in R : \A j \in R : i <= j
    <3>1. R \in SUBSET Nat
      BY <1>1
    <3> QED BY <3>1, LeastNat
  <2>2. \A j \in R : j \notin needs[i]
    <3> TAKE j \in R
    <3>1. i \in C /\ j \in C /\ i <= j /\ i \in Nat /\ j \in Nat
      BY <1>1, <2>1
    <3> HIDE DEF needs, C
    <3> QED BY <1>4, <3>1
  <2> QED BY <2>2
<1> HIDE DEF needs, C
<1>6. Ordering(Forest!TakeReady(C, needs, ItemSooner(gs)), C, needs)
  BY <1>1, <1>3, <1>5, TakesAll
<1>7. Greedy(Forest!TakeReady(C, needs, ItemSooner(gs)), C, needs, ItemSooner(gs))
  BY <1>1, <1>3, TakesGreedily
<1> QED BY <1>4, <1>6, <1>7 DEF ItemOrder, needs, C

LEMMA SoonerPays ==
  \A gs : \A i, j \in DOMAIN gs :
    <<i, j>> \notin ItemSooner(gs) => ~Pays(Forest!ToSet(gs[i]), Forest!ToSet(gs[j]))
  BY DEF ItemSooner, ItemTxs, Forest!Sooner, Pays

(* Falling chunks fall in the canonical order as well. *)
LEMMA CanonicalFalls ==
  ASSUME g \in Clusters, NEW gs, Grouped(gs, Forest!Txs, g.parents), Falls(gs, Len(gs)),
         NEW k \in DOMAIN ItemOrder(gs), NEW l \in DOMAIN ItemOrder(gs), k < l
  PROVE  ~Pays(Forest!ToSet(gs[ItemOrder(gs)[l]]), Forest!ToSet(gs[ItemOrder(gs)[k]]))
<1> DEFINE C == DOMAIN gs
           o == ItemOrder(gs)
           needs == ItemNeeds(gs)
           sooner == ItemSooner(gs)
           rest == LeftBefore(C, o, k)
           P(i) == Forest!ToSet(gs[i])
<1>1. Ordering(o, C, needs) /\ Greedy(o, C, needs, sooner) /\ \A i, j \in C : j \in needs[i] => j < i
  BY ItemsOrdered
<1>2. C = 1..Len(gs) /\ Len(gs) \in Nat /\ \A i \in C : P(i) \in Sets
  BY GroupSets
<1>3. o \in Seq(C) /\ DOMAIN o = 1..Len(o) /\ \A i, j \in DOMAIN o : o[i] = o[j] => i = j
  <2>1. o \in Seq(C) /\ \A i, j \in DOMAIN o : o[i] = o[j] => i = j
    BY <1>1 DEF Ordering, Lists
  <2> QED BY <2>1
<1>4. \A i, j \in C : i < j => ~Pays(P(j), P(i))
  BY <1>2 DEF Falls
<1>5. \A i, j \in C : <<i, j>> \notin sooner => ~Pays(P(i), P(j))
  BY SoonerPays
<1> HIDE DEF o, needs, sooner, P
<1> PICK x \in C, y \in C : x = o[k] /\ y = o[l]
  BY <1>3 DEF o
<1>6. x # y
  <2>1. k # l /\ k \in DOMAIN o /\ l \in DOMAIN o
    BY DEF o
  <2> QED BY <1>3, <2>1
<1>7. y \in rest
  <2>1. \A j \in 1..(k - 1) : j \in DOMAIN o /\ j # l
    BY <1>3 DEF o
  <2>2. \A j \in 1..(k - 1) : o[j] # y
    <3>1. l \in DOMAIN o
      BY DEF o
    <3> QED BY <1>3, <2>1, <3>1
  <2> QED BY <2>2 DEF LeftBefore
<1>8. TakesBest(rest, needs, sooner, x)
  <2>1. k \in 1..Len(o)
    BY <1>3 DEF o
  <2> QED BY <1>1, <2>1 DEF Greedy
<1>9. PICK m \in rest : \A j \in rest : m <= j
  <2>1. rest \in SUBSET C
    BY DEF LeftBefore
  <2> HIDE DEF rest
  <2>2. rest \in SUBSET Nat /\ rest # {}
    BY <1>2, <1>7, <2>1
  <2> QED BY <2>2, LeastNat
<1>10. rest \in SUBSET C /\ m \in C /\ m \in Nat
  <2>1. rest \in SUBSET C
    BY DEF LeftBefore
  <2> QED BY <1>2, <2>1
<1> HIDE DEF rest, C
<1>11. m \in ReadyOf(rest, needs)
  <2>1. \A j \in rest : j \notin needs[m]
    <3> TAKE j \in rest
    <3>1. j \in C /\ m <= j /\ j \in Nat
      BY <1>2, <1>9, <1>10
    <3>2. ~(j < m)
      BY <1>10, <3>1
    <3> QED BY <1>1, <1>10, <3>1, <3>2
  <2> QED BY <1>10, <2>1 DEF ReadyOf
<1>12. ~Pays(P(m), P(x))
  <2>1. CASE m = x
    BY <1>2, <1>10, <2>1, PaysOrder
  <2>2. CASE m # x
    <3>1. <<m, x>> \notin sooner
      BY <1>8, <1>11, <2>2 DEF TakesBest
    <3> QED BY <1>5, <1>10, <3>1
  <2> QED BY <2>1, <2>2
<1>13. ~Pays(P(y), P(m))
  <2>1. CASE m = y
    BY <1>2, <1>10, <2>1, PaysOrder
  <2>2. CASE m # y
    <3>1. m < y
      BY <1>2, <1>7, <1>9, <1>10, <2>2
    <3> QED BY <1>4, <1>10, <3>1
  <2> QED BY <2>1, <2>2
<1>14. P(m) \in Sets /\ P(x) \in Sets /\ P(y) \in Sets
  BY <1>2, <1>10
<1>15. ~Pays(P(y), P(x))
  BY <1>12, <1>13, <1>14, PaysOrder
<1>16. o[l] = y /\ o[k] = x
  OBVIOUS
<1> QED BY <1>15, <1>16 DEF P, o

-----------------------------------------------------------------------------
(* canonicalizeChunkOrder. *)
LEMMA Canonical ==
  ASSUME g \in Clusters, NEW gs, Grouped(gs, Forest!Txs, g.parents)
  PROVE  Grouped(Forest!CanonicalOrder(g, gs), Forest!Txs, g.parents)
<1> DEFINE C == DOMAIN gs
           needs == ItemNeeds(gs)
           order == ItemOrder(gs)
<1>1. Forest!CanonicalOrder(g, gs) = [k \in DOMAIN order |-> gs[order[k]]]
  BY CanonicalByItems
<1>2. Ordering(order, C, needs) /\ C = 1..Len(gs) /\ Len(gs) \in Nat
  BY ItemsOrdered, GroupSets
<1> HIDE DEF order
<1>3. \A k, l \in DOMAIN order : k < l =>
        \A t \in Forest!ToSet(gs[order[k]]) : g.parents[t] \cap Forest!ToSet(gs[order[l]]) = {}
  <2> TAKE k, l \in DOMAIN order
  <2> HAVE k < l
  <2> TAKE t \in Forest!ToSet(gs[order[k]])
  <2> SUFFICES ASSUME g.parents[t] \cap Forest!ToSet(gs[order[l]]) # {} PROVE FALSE
    OBVIOUS
  <2>1. order[k] \in C /\ order[l] \in C /\ order[k] # order[l] /\ k \in Int /\ l \in Int
    BY <1>2 DEF Ordering, Lists
  <2>2. order[l] \in needs[order[k]]
    BY <2>1 DEF ItemNeeds
  <2>3. l < k
    BY <1>2, <2>2 DEF Ordering, Follows
  <2> QED BY <2>1, <2>3
<1>4. Grouped([k \in DOMAIN order |-> gs[order[k]]], Forest!Txs, g.parents)
  <2>1. Lists(order, DOMAIN gs)
    BY <1>2 DEF Ordering
  <2> QED BY <1>3, <2>1, GroupsRearranged
<1> QED BY <1>1, <1>4

-----------------------------------------------------------------------------
(* Chunks of a linearization, put in canonical order, are the chunks of the
   linearization they make up then. *)
LEMMA CanonicalChunks ==
  ASSUME g \in Clusters, NEW gs, NEW s, ChunksTo(gs, Forest!Txs, s, Len(s), Len(gs))
  PROVE  LET c == Forest!CanonicalOrder(g, gs)
         IN ChunksTo(c, Forest!Txs, Forest!FlattenSeq(c), Len(Forest!FlattenSeq(c)), Len(c))
<1> DEFINE o == ItemOrder(gs)
           c == Forest!CanonicalOrder(g, gs)
<1>1. Grouped(gs, Forest!Txs, g.parents) /\ Falls(gs, Len(gs)) /\ \A k \in DOMAIN gs : Rises(gs[k])
  BY DEF ChunksTo
<1>2. Grouped(c, Forest!Txs, g.parents) /\ c = [k \in DOMAIN o |-> gs[o[k]]]
  BY <1>1, Canonical, CanonicalByItems
<1>3. /\ c \in Seq(Seq(Forest!Txs)) /\ DOMAIN c = 1..Len(c)
      /\ \A k \in DOMAIN c : c[k] # <<>>
  BY <1>2, GroupSets
<1>4. \A k \in DOMAIN o : o[k] \in DOMAIN gs
  <2>1. Ordering(o, DOMAIN gs, ItemNeeds(gs))
    BY <1>1, ItemsOrdered
  <2> QED BY <2>1 DEF Ordering, Lists
<1>5. \A k, l \in DOMAIN o : k < l => ~Pays(Forest!ToSet(gs[o[l]]), Forest!ToSet(gs[o[k]]))
  BY <1>1, CanonicalFalls
<1> HIDE DEF o, c
<1>6. \A k \in DOMAIN c : c[k] = gs[o[k]] /\ k \in DOMAIN o
  BY <1>2
<1>7. Falls(c, Len(c))
  <2>1. \A i, j \in DOMAIN c : i < j => ~Pays(Forest!ToSet(c[j]), Forest!ToSet(c[i]))
    BY <1>5, <1>6
  <2> QED BY <1>3, <2>1 DEF Falls
<1>8. \A k \in DOMAIN c : Rises(c[k])
  BY <1>1, <1>4, <1>6
<1>9. Sliced(c, Len(c), Forest!FlattenSeq(c), Len(Forest!FlattenSeq(c)))
  BY <1>3, SlicedFlat
<1>10. ChunksTo(c, Forest!Txs, Forest!FlattenSeq(c), Len(Forest!FlattenSeq(c)), Len(c))
  BY <1>2, <1>7, <1>8, <1>9 DEF ChunksTo
<1> QED BY <1>10 DEF c

-----------------------------------------------------------------------------
(* Items that are renamed to the places in which they were taken are taken in
   that order, when of any two one comes sooner. *)
OneSooner(S, sooner) == \A x, y \in S : x # y => <<x, y>> \in sooner \/ <<y, x>> \in sooner
Renames(N, o, needs, sooner, others, before) ==
  \A k, l \in 1..N : /\ l \in others[k] <=> o[l] \in needs[o[k]]
                     /\ <<k, l>> \in before <=> <<o[k], o[l]>> \in sooner

LEMMA GreedyRepeats ==
  ASSUME NEW N \in Nat, NEW o, Lists(o, 1..N), Len(o) = N, NEW p, Lists(p, 1..N), Len(p) = N,
         NEW needs, NEW sooner, Greedy(o, 1..N, needs, sooner), OneSooner(1..N, sooner),
         NEW others, NEW before, Greedy(p, 1..N, others, before),
         Renames(N, o, needs, sooner, others, before)
  PROVE  \A i \in 1..N : p[i] = i
<1>1. /\ \A k \in 1..N : o[k] \in 1..N /\ p[k] \in 1..N
      /\ \A k, l \in 1..N : (o[k] = o[l] => k = l) /\ (p[k] = p[l] => k = l)
      /\ \A x \in 1..N : \E k \in 1..N : o[k] = x
  <2>1. DOMAIN o = 1..N /\ DOMAIN p = 1..N /\ o \in Seq(1..N) /\ p \in Seq(1..N)
    BY DEF Lists
  <2>2. \A k, l \in 1..N : (o[k] = o[l] => k = l) /\ (p[k] = p[l] => k = l)
    BY <2>1 DEF Lists
  <2>3. \A x \in 1..N : \E k \in 1..N : o[k] = x
    BY <2>1 DEF Lists
  <2>4. \A u \in Seq(1..N) : \A k \in DOMAIN u : u[k] \in 1..N
    OBVIOUS
  <2>5. \A k \in 1..N : o[k] \in 1..N /\ p[k] \in 1..N
    BY <2>1, <2>4
  <2> QED BY <2>2, <2>3, <2>5
<1> DEFINE T == {i \in 0..N : \A j \in 1..i : p[j] = j}
<1>2. 0 \in T
  OBVIOUS
<1>3. ASSUME NEW i \in 0..(N - 1), i \in T PROVE i + 1 \in T
  <2> PICK n \in 1..N : n = i + 1
    OBVIOUS
  <2> DEFINE R == LeftBefore(1..N, o, n)
             Q == LeftBefore(1..N, p, n)
             x == p[n]
  <2>1. n - 1 = i /\ i \in Nat /\ x \in 1..N /\ n \in 1..Len(o) /\ n \in 1..Len(p)
    BY <1>1
  <2>2. TakesBest(R, needs, sooner, o[n]) /\ TakesBest(Q, others, before, x)
    BY <2>1 DEF Greedy
  <2>3. \A j \in 1..(n - 1) : p[j] = j /\ j \in 1..N
    BY <1>3, <2>1
  <2>4. \A k \in 1..N : k \in Q <=> k >= n
    BY <2>1, <2>3 DEF LeftBefore
  <2>5. \A k \in 1..N : o[k] \in R <=> k >= n
    <3> TAKE k \in 1..N
    <3>1. k < n => k \in 1..(n - 1)
      OBVIOUS
    <3>2. \A j \in 1..(n - 1) : j < n /\ (o[j] = o[k] => j = k)
      BY <1>1, <2>3
    <3>3. o[k] \in R <=> \A j \in 1..(n - 1) : o[j] # o[k]
      BY <1>1, ZenonT(40) DEF LeftBefore
    <3>4. (\A j \in 1..(n - 1) : o[j] # o[k]) <=> k \notin 1..(n - 1)
      BY <3>2
    <3> HIDE DEF R
    <3> QED BY <3>1, <3>2, <3>3, <3>4
  <2>6. R \in SUBSET (1..N) /\ Q \in SUBSET (1..N)
    BY DEF LeftBefore
  <2> HIDE DEF R, Q, x
  <2>7. \A k \in 1..N : k \in ReadyOf(Q, others) <=> o[k] \in ReadyOf(R, needs)
    <3> TAKE k \in 1..N
    <3>1. others[k] \cap Q = {} <=> \A l \in 1..N : l >= n => l \notin others[k]
      BY <2>4, <2>6
    <3>2. needs[o[k]] \cap R = {} <=> \A l \in 1..N : l >= n => o[l] \notin needs[o[k]]
      <4>1. \A y \in R : \E l \in 1..N : l >= n /\ y = o[l]
        BY <1>1, <2>5, <2>6
      <4> QED BY <2>5, <4>1
    <3>3. \A l \in 1..N : l \in others[k] <=> o[l] \in needs[o[k]]
      BY DEF Renames
    <3> QED BY <2>4, <2>5, <3>1, <3>2, <3>3 DEF ReadyOf
  <2>8. /\ x \in ReadyOf(Q, others) /\ o[n] \in ReadyOf(R, needs)
        /\ \A y \in ReadyOf(R, needs) \ {o[n]} : <<y, o[n]>> \notin sooner
        /\ \A y \in ReadyOf(Q, others) \ {x} : <<y, x>> \notin before
    BY <2>2 DEF TakesBest
  <2>9. x = n
    <3> SUFFICES ASSUME x # n PROVE FALSE
      OBVIOUS
    <3>1. o[x] \in ReadyOf(R, needs) /\ n \in ReadyOf(Q, others) /\ o[x] # o[n]
      BY <1>1, <2>1, <2>7, <2>8
    <3>2. <<o[x], o[n]>> \notin sooner /\ <<n, x>> \notin before
      BY <2>8, <3>1
    <3>3. <<o[n], o[x]>> \notin sooner
      BY <2>1, <3>2 DEF Renames
    <3>4. o[x] \in 1..N /\ o[n] \in 1..N
      BY <1>1, <2>1
    <3> QED BY <3>1, <3>2, <3>3, <3>4 DEF OneSooner
  <2>10. \A j \in 1..n : j \in 1..(n - 1) \/ j = n
    OBVIOUS
  <2>11. \A j \in 1..n : p[j] = j
    BY <2>3, <2>9, <2>10 DEF x
  <2> QED BY <2>11
<1>4. N \in T
  <2>1. N \in 0..N
    OBVIOUS
  <2> HIDE DEF T
  <2> QED BY <1>2, <1>3, <2>1, UpTo
<1> QED BY <1>4

-----------------------------------------------------------------------------
(* The order of a transaction is the number in the last four bytes of its txid
   (txidToOrdering): in a cluster they differ as a rule, but need not. *)
OrdersDiffer == \A c \in Clusters : \A t, u \in DOMAIN c.parents : Order[t] = Order[u] => t = u

(* Then disjoint sets of transactions have different orders. *)
LEMMA MaxOrdersDiffer ==
  ASSUME OrdersDiffer, g \in Clusters, NEW S \in Sets, NEW T \in Sets, S \cap T = {}
  PROVE  Forest!MaxOrder(S) # Forest!MaxOrder(T)
<1>1. ASSUME NEW U \in Sets PROVE \E t \in U : Order[t] = Forest!MaxOrder(U)
  <2> PICK t \in U : t \in Forest!Txs
    BY DEF Sets
  <2>1. Order[t] \in Nat
    BY ForestAssumption DEF Forest!Txs
  <2>2. U \in SUBSET Forest!Txs
    BY DEF Sets
  <2>3. Order[t] <= Forest!MaxOrder(U) /\ Forest!MaxOrder(U) \in {0} \cup {Order[u] : u \in U}
        /\ Forest!MaxOrder(U) \in Int
    BY <2>2, LargestOrder
  <2> QED BY <2>1, <2>3
<1>2. PICK t \in S : Order[t] = Forest!MaxOrder(S)
  BY <1>1
<1>3. PICK u \in T : Order[u] = Forest!MaxOrder(T)
  BY <1>1
<1>4. t \in DOMAIN g.parents /\ u \in DOMAIN g.parents /\ t # u
  BY DEF Sets, Forest!Txs
<1> QED BY <1>2, <1>3, <1>4 DEF OrdersDiffer

(* So of any two chunks one comes sooner. *)
LEMMA OneItemSooner ==
  ASSUME OrdersDiffer, g \in Clusters, NEW gs, Grouped(gs, Forest!Txs, g.parents)
  PROVE  OneSooner(DOMAIN gs, ItemSooner(gs))
<1> SUFFICES ASSUME NEW i \in DOMAIN gs, NEW j \in DOMAIN gs, i # j
             PROVE  <<i, j>> \in ItemSooner(gs) \/ <<j, i>> \in ItemSooner(gs)
  BY DEF OneSooner
<1> DEFINE S == Forest!ToSet(gs[i])
           T == Forest!ToSet(gs[j])
<1>1. S \in Sets /\ T \in Sets /\ DOMAIN gs = 1..Len(gs) /\ Len(gs) \in Nat
  BY GroupSets
<1>2. S \cap T = {}
  <2>1. i < j \/ j < i
    BY <1>1
  <2> QED BY <2>1 DEF Grouped
<1>3. Forest!WeightOf(S) \in Int /\ Forest!WeightOf(T) \in Int
  BY <1>1, SetRates DEF Sets
<1>4. Forest!MaxOrder(S) \in Int /\ Forest!MaxOrder(T) \in Int
  BY <1>1, LargestOrder DEF Sets
<1>5. Forest!MaxOrder(S) # Forest!MaxOrder(T)
  BY <1>1, <1>2, MaxOrdersDiffer
<1>6. \A x, y \in DOMAIN gs :
        <<x, y>> \in ItemSooner(gs) <=>
          LET A == Forest!ToSet(gs[x])
              B == Forest!ToSet(gs[y])
          IN \/ Pays(A, B)
             \/ /\ ~Pays(B, A)
                /\ \/ Forest!WeightOf(A) < Forest!WeightOf(B)
                   \/ Forest!WeightOf(A) = Forest!WeightOf(B) /\ Forest!MaxOrder(A) < Forest!MaxOrder(B)
  BY DEF ItemSooner, ItemTxs, ItemRank, Forest!Sooner, Pays
<1> HIDE DEF S, T
<1>7. \/ Forest!WeightOf(S) < Forest!WeightOf(T) \/ Forest!WeightOf(T) < Forest!WeightOf(S)
      \/ Forest!WeightOf(S) = Forest!WeightOf(T) /\ Forest!MaxOrder(S) < Forest!MaxOrder(T)
      \/ Forest!WeightOf(T) = Forest!WeightOf(S) /\ Forest!MaxOrder(T) < Forest!MaxOrder(S)
  BY <1>3, <1>4, <1>5
<1>8. /\ <<i, j>> \in ItemSooner(gs) <=>
          \/ Pays(S, T)
          \/ /\ ~Pays(T, S)
             /\ \/ Forest!WeightOf(S) < Forest!WeightOf(T)
                \/ Forest!WeightOf(S) = Forest!WeightOf(T) /\ Forest!MaxOrder(S) < Forest!MaxOrder(T)
      /\ <<j, i>> \in ItemSooner(gs) <=>
          \/ Pays(T, S)
          \/ /\ ~Pays(S, T)
             /\ \/ Forest!WeightOf(T) < Forest!WeightOf(S)
                \/ Forest!WeightOf(T) = Forest!WeightOf(S) /\ Forest!MaxOrder(T) < Forest!MaxOrder(S)
  BY <1>6 DEF S, T
<1> QED BY <1>7, <1>8

-----------------------------------------------------------------------------
(* The canonical order of chunks in canonical order is the one they have. *)
LEMMA CanonicalStays ==
  ASSUME OrdersDiffer, g \in Clusters, NEW gs, Grouped(gs, Forest!Txs, g.parents)
  PROVE  Forest!CanonicalOrder(g, Forest!CanonicalOrder(g, gs)) = Forest!CanonicalOrder(g, gs)
<1> DEFINE N == Len(gs)
           o == ItemOrder(gs)
           c == Forest!CanonicalOrder(g, gs)
           p == ItemOrder(c)
<1>1. /\ Grouped(c, Forest!Txs, g.parents) /\ c = [k \in DOMAIN o |-> gs[o[k]]]
      /\ Forest!CanonicalOrder(g, c) = [k \in DOMAIN p |-> c[p[k]]]
  BY Canonical, CanonicalByItems
<1>2. DOMAIN gs = 1..N /\ N \in Nat /\ IsFiniteSet(1..N) /\ Cardinality(1..N) = N
  <2>1. DOMAIN gs = 1..N /\ N \in Nat
    BY GroupSets
  <2> HIDE DEF N
  <2>2. IsFiniteSet(1..N) /\ Cardinality(1..N) = N
    BY <2>1, FS_Interval
  <2> QED BY <2>1, <2>2
<1>3. Ordering(o, 1..N, ItemNeeds(gs)) /\ Greedy(o, 1..N, ItemNeeds(gs), ItemSooner(gs))
  BY <1>2, ItemsOrdered
<1>4. Lists(o, 1..N) /\ Len(o) = N
  BY <1>2, <1>3, ListLength DEF Ordering
<1>5. DOMAIN o = 1..N /\ DOMAIN c = 1..N /\ \A k \in 1..N : o[k] \in 1..N /\ c[k] = gs[o[k]]
  <2>1. o \in Seq(1..N) /\ DOMAIN o = 1..N
    BY <1>4 DEF Lists
  <2>2. \A k \in 1..N : o[k] \in 1..N
    BY <2>1
  <2> HIDE DEF o, c
  <2> QED BY <1>1, <2>1, <2>2
<1>6. Ordering(p, 1..N, ItemNeeds(c)) /\ Greedy(p, 1..N, ItemNeeds(c), ItemSooner(c))
  <2> HIDE DEF c
  <2> QED BY <1>1, <1>5, ItemsOrdered
<1>7. Lists(p, 1..N) /\ Len(p) = N /\ DOMAIN p = 1..N
  <2>1. Lists(p, 1..N) /\ Len(p) = N
    BY <1>2, <1>6, ListLength DEF Ordering
  <2> QED BY <2>1 DEF Lists
<1>8. OneSooner(1..N, ItemSooner(gs))
  BY <1>2, OneItemSooner
<1> HIDE DEF o, c, p, N
<1>9. Renames(N, o, ItemNeeds(gs), ItemSooner(gs), ItemNeeds(c), ItemSooner(c))
  <2> SUFFICES ASSUME NEW k \in 1..N, NEW l \in 1..N
               PROVE  /\ l \in ItemNeeds(c)[k] <=> o[l] \in ItemNeeds(gs)[o[k]]
                      /\ <<k, l>> \in ItemSooner(c) <=> <<o[k], o[l]>> \in ItemSooner(gs)
    BY DEF Renames
  <2> PICK x \in DOMAIN gs, y \in DOMAIN gs : x = o[k] /\ y = o[l]
    BY <1>2, <1>5
  <2>1. c[k] = gs[x] /\ c[l] = gs[y] /\ k \in DOMAIN c /\ l \in DOMAIN c
    BY <1>5
  <2>2. k = l <=> x = y
    <3>1. k \in DOMAIN o /\ l \in DOMAIN o
      BY <1>5
    <3> QED BY <1>4, <3>1 DEF Lists
  <2>3. l \in ItemNeeds(c)[k] <=> y \in ItemNeeds(gs)[x]
    BY <2>1, <2>2 DEF ItemNeeds
  <2>4. <<k, l>> \in ItemSooner(c) <=> <<x, y>> \in ItemSooner(gs)
    <3>1. ItemTxs(c)[k] = ItemTxs(gs)[x] /\ ItemTxs(c)[l] = ItemTxs(gs)[y]
          /\ ItemRank(c)[k] = ItemRank(gs)[x] /\ ItemRank(c)[l] = ItemRank(gs)[y]
      BY <2>1 DEF ItemTxs, ItemRank
    <3>2. DOMAIN ItemTxs(c) = DOMAIN c /\ DOMAIN ItemTxs(gs) = DOMAIN gs
      BY DEF ItemTxs
    <3> QED BY <2>1, <3>1, <3>2 DEF ItemSooner, Forest!Sooner
  <2> QED BY <2>3, <2>4
<1>10. \A i \in 1..N : p[i] = i
  BY <1>2, <1>3, <1>4, <1>6, <1>7, <1>8, <1>9, GreedyRepeats
<1>11. [k \in DOMAIN p |-> c[p[k]]] = c
  BY <1>1, <1>5, <1>7, <1>10
<1> QED BY <1>1, <1>11 DEF c

-----------------------------------------------------------------------------
(* What linearizeCluster makes of a linearization in which parents come before
   children is one. *)
LEMMA Finished ==
  ASSUME g \in Clusters, NEW s, Ordering(s, Forest!Txs, g.parents)
  PROVE  Ordering(Forest!FlattenSeq(Forest!FinishChunks(g, s)), Forest!Txs, g.parents)
<1> DEFINE post == Forest!PostLinearize(g, s)
           minimized == Forest!MinimizeChunks(g, Forest!Chunkify(g, post))
           flat == Forest!FlattenSeq(minimized)
<1>1. Ordering(post, Forest!Txs, g.parents)
  BY PostLinearized
<1>2. Grouped(minimized, Forest!Txs, g.parents)
  BY <1>1, Chunkified, Minimized
<1>3. Ordering(flat, Forest!Txs, g.parents)
  BY <1>2, FlattenedGroups
<1>4. Grouped(Forest!CanonicalOrder(g, Forest!Chunkify(g, flat)), Forest!Txs, g.parents)
  BY <1>3, Chunkified, Canonical
<1>5. Forest!FinishChunks(g, s) = Forest!CanonicalOrder(g, Forest!Chunkify(g, flat))
  BY DEF Forest!FinishChunks
<1> QED BY <1>4, <1>5, FlattenedGroups

(* A linearization with every transaction once and after its parents is what
   Topological says. *)
LEMMA OrderedIsTopological ==
  ASSUME g \in Clusters, NEW s, Ordering(s, Forest!Txs, g.parents)
  PROVE  Forest!Topological(s)
<1>1. Lists(s, Forest!Txs) /\ IsFiniteSet(Forest!Txs)
  BY ForestAssumption DEF Ordering, Forest!Txs
<1>2. Len(s) = Forest!Cardinality(Forest!Txs)
  BY <1>1, ListLength, SameCount
<1>3. Forest!ToSet(s) = Forest!Txs
  BY <1>1, ListedSet
<1>4. ASSUME NEW t \in Forest!Txs
      PROVE  Forest!Pos(s, t) \in DOMAIN s /\ s[Forest!Pos(s, t)] = t
  <2>1. \E i \in DOMAIN s : s[i] = t
    BY <1>1 DEF Lists
  <2> QED BY <2>1 DEF Forest!Pos
<1>5. ASSUME NEW d \in Forest!Deps PROVE Forest!Pos(s, d[1]) < Forest!Pos(s, d[2])
  <2>1. PICK t \in Forest!Txs : \E p \in g.parents[t] \cap Forest!Txs : d = <<p, t>>
    BY DEF Forest!Deps
  <2>3. PICK p \in g.parents[t] \cap Forest!Txs : d = <<p, t>>
    BY <2>1
  <2>2. s[Forest!Pos(s, p)] \in g.parents[s[Forest!Pos(s, t)]]
    BY <1>4, <2>3
  <2> QED BY <1>4, <2>2, <2>3 DEF Ordering, Follows
<1> QED BY <1>2, <1>3, <1>5 DEF Forest!Topological

(* What linearizeCluster makes of a linearization is cut into the same chunks
   again, and these are in their canonical order already. *)
LEMMA FinishedReproduces ==
  ASSUME OrdersDiffer, g \in Clusters, NEW s, Ordering(s, Forest!Txs, g.parents)
  PROVE  LET f == Forest!FlattenSeq(Forest!FinishChunks(g, s))
         IN Forest!FlattenSeq(Forest!CanonicalOrder(g, Forest!Chunkify(g, f))) = f
<1> DEFINE post == Forest!PostLinearize(g, s)
           minimized == Forest!MinimizeChunks(g, Forest!Chunkify(g, post))
           flat == Forest!FlattenSeq(minimized)
           cut == Forest!Chunkify(g, flat)
           c == Forest!CanonicalOrder(g, cut)
           f == Forest!FlattenSeq(c)
<1>1. Forest!FinishChunks(g, s) = c
  BY DEF Forest!FinishChunks
<1>2. Ordering(flat, Forest!Txs, g.parents)
  <2>1. Grouped(minimized, Forest!Txs, g.parents)
    BY PostLinearized, Chunkified, Minimized
  <2> QED BY <2>1, FlattenedGroups
<1> HIDE DEF flat, minimized, post
<1>3. ChunksTo(cut, Forest!Txs, flat, Len(flat), Len(cut))
  BY <1>2, ChunksOfOrdering
<1> HIDE DEF cut
<1>4. ChunksTo(c, Forest!Txs, f, Len(f), Len(c))
  BY <1>3, CanonicalChunks
<1>5. Ordering(f, Forest!Txs, g.parents) /\ Grouped(cut, Forest!Txs, g.parents)
  <2>1. Grouped(cut, Forest!Txs, g.parents) /\ Grouped(c, Forest!Txs, g.parents)
    BY <1>3, <1>4 DEF ChunksTo
  <2> QED BY <2>1, FlattenedGroups
<1>6. Once(f)
  BY <1>5 DEF Once, Ordering, Lists
<1>7. Forest!CanonicalOrder(g, c) = c
  BY <1>5, CanonicalStays
<1> HIDE DEF c, f
<1>8. PICK d : d = Forest!Chunkify(g, f)
  OBVIOUS
<1>9. ChunksTo(d, Forest!Txs, f, Len(f), Len(d))
  BY <1>5, <1>8, ChunksOfOrdering
<1>10. d = c
  BY <1>4, <1>6, <1>9, ChunksUnique
<1> QED BY <1>1, <1>7, <1>8, <1>10 DEF f

-----------------------------------------------------------------------------
(* The search hands over an ordering: without dependencies any order is one,
   and the chunks it stops with have no cycle. *)
Handed == phase = "done" => \E s : /\ Ordering(s, Forest!Txs, g.parents)
                                   /\ lin = Forest!FlattenSeq(Forest!FinishChunks(g, s))

LEMMA HandsOverOrdered == ForestInv /\ Acyclic /\ Forest!Next => Handed'
<1> SUFFICES ASSUME ForestInv, Acyclic, Forest!Next, phase' = "done"
             PROVE  \E s : /\ Ordering(s, Forest!Txs', g'.parents)
                           /\ lin' = Forest!FlattenSeq(Forest!FinishChunks(g', s))
  BY DEF Handed
<1>1. CASE Forest!NoDependencies
  <2>1. /\ g \in Clusters /\ Forest!Deps = {} /\ g' = g
        /\ lin' = Forest!FlattenSeq(Forest!FinishChunks(g, Forest!SortByFeerate(g, Forest!Txs)))
    BY <1>1 DEF Forest!NoDependencies, ForestInv
  <2> QED BY <2>1, Sorted, SameGraph
<1>2. CASE Forest!Finish
  <2>1. /\ g \in Clusters /\ phase \in {"optimize", "minimize"} /\ g' = g
        /\ lin' = Forest!FlattenSeq(Forest!FinishChunks(g, Forest!ExtractLinearization(g, chunks)))
    BY <1>2 DEF Forest!Finish, ForestInv
  <2>2. Unlooped(chunks, ChunkNeeds(chunks, g.parents))
    BY <2>1 DEF Acyclic
  <2> QED BY <2>1, <2>2, Extracted, SameGraph
<1>3. CASE ~Forest!NoDependencies /\ ~Forest!Finish
  BY <1>3 DEF Forest!Next, Forest!Search, Forest!LoadHint, Forest!StartTopological, ForestInv,
         Forest!TopologicalStep, Forest!TopologicalDone, Forest!OptimizeStep, Forest!OptimizeDone,
         Forest!MinimizeStep
<1> QED BY <1>1, <1>2, <1>3

OrderInv == SearchInv /\ (subject = "forest" => Acyclic /\ Handed)

LEMMA OrderAlways == Spec => []OrderInv
<1>1. Init => OrderInv
  <2> SUFFICES ASSUME Init, subject = "forest" PROVE Acyclic /\ Handed /\ ForestInv /\ Restless
    BY DEF OrderInv, SearchInv
  <2>1. Forest!Init
    BY DEF Init
  <2>2. phase = "load"
    BY <2>1 DEF Forest!Init
  <2> QED BY <2>1, <2>2, ForestStart DEF Restless, Acyclic, Handed
<1>2. OrderInv /\ [Next]_vars => OrderInv'
  <2> SUFFICES ASSUME OrderInv, [Next]_vars PROVE OrderInv'
    OBVIOUS
  <2>1. SearchInv'
    BY SearchStep DEF OrderInv
  <2>2. CASE UNCHANGED vars
    <3>1. UNCHANGED <<subject, g, phase, chunks, lin>>
      BY <2>2 DEF vars, forestVars
    <3>2. Forest!Txs' = Forest!Txs
      BY <3>1 DEF Forest!Txs
    <3>3. Handed => Handed'
      BY <3>1, <3>2 DEF Handed
    <3>4. ChunkNeeds(chunks, g.parents)' = ChunkNeeds(chunks, g.parents)
      BY <3>1 DEF ChunkNeeds
    <3>5. Acyclic => Acyclic'
      BY <3>1, <3>4 DEF Acyclic
    <3> QED BY <2>1, <3>1, <3>3, <3>5 DEF OrderInv
  <2>3. CASE subject = "forest" /\ Forest!Next /\ UNCHANGED <<subject, blockVars, heapVars>>
    BY <2>1, <2>3, StaysAcyclic, HandsOverOrdered DEF OrderInv, SearchInv
  <2>4. CASE subject # "forest" /\ UNCHANGED <<subject, forestVars>>
    BY <2>1, <2>4 DEF OrderInv
  <2> QED BY <2>2, <2>3, <2>4 DEF Next
<1> QED BY <1>1, <1>2, PTL DEF Spec

(* linearizeCluster returns every transaction once and after its parents,
   wherever its search is cut off: the chunks that the search hands over have
   no cycle, and no stage after it puts a child before its parent. *)
THEOREM LinearizationIsOrdered == Spec => []LinearizationIsTopological
<1>1. OrderInv => LinearizationIsTopological
  <2> SUFFICES ASSUME ForestInv, Handed, phase = "done" PROVE Forest!Topological(lin)
    BY DEF OrderInv, SearchInv, LinearizationIsTopological, Forest!LinearizationIsTopological, Forest!Done
  <2>1. Ordering(lin, Forest!Txs, g.parents)
    BY Finished DEF Handed, ForestInv
  <2> QED BY <2>1, OrderedIsTopological DEF ForestInv
<1> QED BY <1>1, OrderAlways, PTL

(* The result of linearizeCluster, cut into chunks and put in canonical order
   again, is the same, however the search ended: chunkify cuts the result
   where it was cut, and the canonical order of its chunks is the one they
   have.  Where two chunks of the same feerate and weight have equal orders the
   model may take either; orders that differ leave no such choice. *)
THEOREM ChunksAreCanonical == ASSUME OrdersDiffer PROVE Spec => []ChunksReproduce
<1>1. OrderInv => ChunksReproduce
  <2> SUFFICES ASSUME ForestInv, Handed, phase = "done"
               PROVE  Forest!FlattenSeq(Forest!CanonicalOrder(g, Forest!Chunkify(g, lin))) = lin
    BY DEF OrderInv, SearchInv, ChunksReproduce, Forest!ChunksReproduce, Forest!Done
  <2> QED BY FinishedReproduces DEF Handed, ForestInv
<1> QED BY <1>1, OrderAlways, PTL
=============================================================================
