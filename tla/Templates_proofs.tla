--------------------------- MODULE Templates_proofs ---------------------------
EXTENDS Templates, Induction, FiniteSetTheorems

(***************************************************************************)
(* The projected blocks: the theorems follow from BlocksInv, which says of *)
(* every moment of the construction where each chunk of each cluster is.   *)
(***************************************************************************)
(* The chunks of a mempool m, and the blocks built from them. *)
ChunksOf(m) == UNION {{<<id, i>> : i \in DOMAIN m[id]} : id \in DOMAIN m}
BlocksOf(m) == [entries : Seq(ChunksOf(m)), weight : Nat, sigops : Nat]

(* The closed blocks and the one that is being filled. *)
Built == IF state = "filling" THEN Append(blocks, block) ELSE blocks
PlacedIn(bs) == UNION {ToSet(bs[i].entries) : i \in DOMAIN bs}
UpToBlock(bs, n) == UNION {ToSet(bs[i].entries) : i \in 1..n}
Before(e) == <<e[1], e[2] - 1>>
Ready(P, e) == e[2] = 1 \/ Before(e) \in P
LimitedAt(n) == Enforce \/ n < BlockCount

Types ==
  /\ clusters \in Mempools
  /\ heap \subseteq ChunksOf(clusters) /\ deferred \subseteq ChunksOf(clusters)
  /\ blocks \in Seq(BlocksOf(clusters)) /\ block \in BlocksOf(clusters)
  /\ failed \in Nat
  /\ state \in {"between", "filling", "finished"}
  /\ Len(blocks) <= BlockCount
  /\ state = "filling" => Len(blocks) < BlockCount

(* What waits in the heap, or is put aside, is what can be placed next. *)
Frontier ==
  /\ heap \cap deferred = {}
  /\ \A e \in ChunksOf(clusters) :
       /\ e \in heap \cup deferred <=> e \notin PlacedIn(Built) /\ Ready(PlacedIn(Built), e)
       /\ e \in PlacedIn(Built) => Ready(PlacedIn(Built), e)
(* What is put aside does not fit. *)
Aside ==
  /\ state # "filling" => deferred = {}
  /\ state = "filling" =>
       /\ block.entries = <<>> => block = Blocks!EmptyBlock
       /\ \A e \in deferred : ~Blocks!Fits(e)
       /\ failed > 0 => deferred # {}
(* Each chunk once, after its predecessor. *)
EarlierIn(bs, k, l, d) ==
  \E i \in 1..k : \E j \in DOMAIN bs[i].entries : bs[i].entries[j] = d /\ (i = k => j < l)
InOrder(bs) ==
  \A k \in DOMAIN bs : \A l \in DOMAIN bs[k].entries :
    LET e == bs[k].entries[l]
    IN ~EarlierIn(bs, k, l, e) /\ (e[2] > 1 => EarlierIn(bs, k, l, Before(e)))
Within(bs) ==
  \A i \in DOMAIN bs : LimitedAt(i) => bs[i].weight < MaxWeight /\ bs[i].sigops < MaxSigops
(* A chunk that was ready when a limited block was closed did not fit. *)
Tight ==
  \A i \in DOMAIN blocks : LimitedAt(i) =>
    \A e \in ChunksOf(clusters) :
      \/ e \in UpToBlock(blocks, i)
      \/ ~Ready(UpToBlock(blocks, i), e)
      \/ blocks[i].weight + Blocks!Chunk(e).weight >= MaxWeight
      \/ blocks[i].sigops + Blocks!Chunk(e).sigops >= MaxSigops
      \/ blocks[i].weight + MaxWasted > MaxWeight
(* The last block without limits takes everything. *)
Exhausted == (state = "finished" \/ Len(blocks) = BlockCount) /\ ~Enforce => heap \cup deferred = {}

BlocksInv ==
  Types /\ Frontier /\ Aside /\ InOrder(Built) /\ Within(Built) /\ Tight /\ Exhausted

-----------------------------------------------------------------------------
LEMMA ChunkFacts ==
  ASSUME NEW m \in Mempools, NEW e \in ChunksOf(m)
  PROVE  /\ e = <<e[1], e[2]>> /\ e[1] \in DOMAIN m /\ e[2] \in 1..Len(m[e[1]])
         /\ e[2] \in Nat /\ e[2] >= 1
         /\ m[e[1]][e[2]] \in Blocks!Chunks
         /\ Reserved + m[e[1]][e[2]].weight < MaxWeight /\ m[e[1]][e[2]].sigops < MaxSigops
         /\ e[2] # 1 => Before(e) \in ChunksOf(m)
<1>1. PICK id \in DOMAIN m : \E i \in DOMAIN m[id] : e = <<id, i>>
  BY DEF ChunksOf
<1>b. PICK i \in DOMAIN m[id] : e = <<id, i>>
  BY <1>1
<1>2. m[id] \in Seq(Blocks!Chunks) /\ DOMAIN m[id] = 1..Len(m[id]) /\ Len(m[id]) \in Nat
  BY TemplatesAssumption
<1>3. i \in Nat /\ i >= 1 /\ m[id][i] \in Blocks!Chunks
  BY <1>2
<1>4. Reserved + m[id][i].weight < MaxWeight /\ m[id][i].sigops < MaxSigops
  BY TemplatesAssumption
<1>5. ASSUME i # 1 PROVE <<id, i - 1>> \in ChunksOf(m)
  BY <1>2, <1>3, <1>5 DEF ChunksOf
<1> QED BY <1>b, <1>2, <1>3, <1>4, <1>5 DEF Before

LEMMA AppendedBlock ==
  ASSUME NEW V, NEW bs \in Seq(V), NEW b \in V
  PROVE  LET cs == Append(bs, b)
             n == Len(bs) + 1
         IN /\ cs \in Seq(V) /\ Len(cs) = n /\ DOMAIN cs = 1..n /\ DOMAIN bs = 1..Len(bs) /\ Len(bs) \in Nat
            /\ cs[n] = b /\ \A i \in 1..Len(bs) : cs[i] = bs[i]
            /\ \A i \in 1..n : i \in 1..Len(bs) \/ i = n
            /\ \A i \in 1..Len(bs) : i \in 1..n /\ i < n
            /\ n \in 1..n
  OBVIOUS

LEMMA AppendedPlaces ==
  ASSUME NEW V, NEW bs \in Seq(V), NEW b \in V
  PROVE  /\ PlacedIn(Append(bs, b)) = PlacedIn(bs) \cup ToSet(b.entries)
         /\ \A i \in 1..Len(bs) : UpToBlock(Append(bs, b), i) = UpToBlock(bs, i)
         /\ UpToBlock(Append(bs, b), Len(bs) + 1) = PlacedIn(Append(bs, b))
<1> DEFINE cs == Append(bs, b)
           n == Len(bs) + 1
<1>1. /\ DOMAIN cs = 1..n /\ DOMAIN bs = 1..Len(bs) /\ cs[n] = b
      /\ \A i \in 1..Len(bs) : cs[i] = bs[i] /\ i \in 1..n
      /\ \A i \in 1..n : i \in 1..Len(bs) \/ i = n
      /\ n \in 1..n
  OBVIOUS
<1> HIDE DEF cs, n
<1>2. PlacedIn(cs) = PlacedIn(bs) \cup ToSet(b.entries)
  BY <1>1 DEF PlacedIn
<1>3. ASSUME NEW i \in 1..Len(bs) PROVE UpToBlock(cs, i) = UpToBlock(bs, i)
  <2>1. \A j \in 1..i : cs[j] = bs[j]
    BY <1>1
  <2> QED BY <2>1 DEF UpToBlock
<1>4. UpToBlock(cs, n) = PlacedIn(cs)
  BY <1>1 DEF UpToBlock, PlacedIn
<1> QED BY <1>2, <1>3, <1>4 DEF cs, n

(* What comes earlier in the first blocks does not depend on the last one. *)
LEMMA EarlierKept ==
  ASSUME NEW V, NEW bs \in Seq(V), NEW b \in V
  PROVE  \A k \in DOMAIN bs : \A l, d : EarlierIn(Append(bs, b), k, l, d) <=> EarlierIn(bs, k, l, d)
<1> TAKE k \in DOMAIN bs
<1>1. \A i \in 1..k : Append(bs, b)[i] = bs[i]
  BY AppendedBlock
<1> QED BY <1>1 DEF EarlierIn

LEMMA InOrderAppended ==
  ASSUME NEW m, NEW bs \in Seq(BlocksOf(m)), NEW b \in BlocksOf(m)
  PROVE  /\ InOrder(Append(bs, b)) => InOrder(bs)
         /\ InOrder(bs) /\ b.entries = <<>> => InOrder(Append(bs, b))
<1> DEFINE cs == Append(bs, b)
           n == Len(bs) + 1
<1>1. /\ DOMAIN cs = 1..n /\ DOMAIN bs = 1..Len(bs) /\ cs[n] = b
      /\ \A i \in 1..Len(bs) : cs[i] = bs[i] /\ i \in 1..n
      /\ \A i \in 1..n : i \in 1..Len(bs) \/ i = n
  BY AppendedBlock
<1>2. \A k \in DOMAIN bs : \A l, d : EarlierIn(cs, k, l, d) <=> EarlierIn(bs, k, l, d)
  BY EarlierKept
<1> HIDE DEF cs, n
<1>3. InOrder(cs) => InOrder(bs)
  BY <1>1, <1>2 DEF InOrder
<1>4. InOrder(bs) /\ b.entries = <<>> => InOrder(cs)
  BY <1>1, <1>2 DEF InOrder
<1> QED BY <1>3, <1>4 DEF cs

(* The block being filled gets one more chunk. *)
LEMMA InOrderPlaced ==
  ASSUME NEW m \in Mempools, NEW bs \in Seq(BlocksOf(m)), NEW b \in BlocksOf(m), NEW c \in BlocksOf(m),
         NEW e \in ChunksOf(m), c.entries = Append(b.entries, e),
         InOrder(Append(bs, b)), e \notin PlacedIn(Append(bs, b)), Ready(PlacedIn(Append(bs, b)), e)
  PROVE  /\ InOrder(Append(bs, c))
         /\ PlacedIn(Append(bs, c)) = PlacedIn(Append(bs, b)) \cup {e}
<1> DEFINE cs == Append(bs, b)
           ds == Append(bs, c)
           n == Len(bs) + 1
           k0 == Len(b.entries) + 1
<1>1. /\ DOMAIN cs = 1..n /\ DOMAIN ds = 1..n /\ cs[n] = b /\ ds[n] = c /\ n \in Nat
      /\ DOMAIN bs = 1..Len(bs)
      /\ \A i \in 1..Len(bs) : cs[i] = bs[i] /\ ds[i] = bs[i] /\ i < n
      /\ \A i \in 1..n : i \in 1..Len(bs) \/ i = n
      /\ PlacedIn(cs) = PlacedIn(bs) \cup ToSet(b.entries)
      /\ PlacedIn(ds) = PlacedIn(bs) \cup ToSet(c.entries)
  <2>1. /\ DOMAIN cs = 1..n /\ cs[n] = b /\ DOMAIN bs = 1..Len(bs) /\ Len(bs) \in Nat
        /\ \A i \in 1..Len(bs) : cs[i] = bs[i] /\ i < n
        /\ \A i \in 1..n : i \in 1..Len(bs) \/ i = n
    BY AppendedBlock
  <2>2. /\ DOMAIN ds = 1..n /\ ds[n] = c
        /\ \A i \in 1..Len(bs) : ds[i] = bs[i]
    BY AppendedBlock
  <2>3. n \in Nat
    BY <2>1
  <2>4. \A x \in BlocksOf(m) : PlacedIn(Append(bs, x)) = PlacedIn(bs) \cup ToSet(x.entries)
    <3> HIDE DEF cs, ds, n
    <3> QED BY AppendedPlaces
  <2>5. /\ PlacedIn(cs) = PlacedIn(bs) \cup ToSet(b.entries)
        /\ PlacedIn(ds) = PlacedIn(bs) \cup ToSet(c.entries)
    BY <2>4
  <2> HIDE DEF cs, ds, n
  <2> QED BY <2>1, <2>2, <2>3, <2>5
<1>2. b.entries \in Seq(ChunksOf(m))
  BY DEF BlocksOf
<1>3. /\ DOMAIN c.entries = 1..k0 /\ DOMAIN b.entries = 1..(k0 - 1) /\ k0 \in Nat
      /\ c.entries[k0] = e /\ \A j \in 1..(k0 - 1) : c.entries[j] = b.entries[j] /\ j \in 1..k0 /\ j < k0
      /\ \A j \in 1..k0 : j \in 1..(k0 - 1) \/ j = k0
      /\ k0 \in 1..k0
  BY <1>2
<1>a. ToSet(c.entries) = ToSet(b.entries) \cup {e}
  BY <1>3 DEF ToSet
<1>4. \A k \in DOMAIN bs : \A l, d : EarlierIn(ds, k, l, d) <=> EarlierIn(cs, k, l, d)
  BY EarlierKept
<1> HIDE DEF cs, ds, n, k0
<1>5. \A l \in 1..(k0 - 1) : \A d : EarlierIn(ds, n, l, d) <=> EarlierIn(cs, n, l, d)
  <2> TAKE l \in 1..(k0 - 1)
  <2> TAKE d
  <2>1. \A i \in 1..n : i # n => ds[i] = cs[i]
    BY <1>1
  <2>2. \A j : (j \in DOMAIN c.entries /\ c.entries[j] = d /\ j < l) <=> (j \in DOMAIN b.entries /\ b.entries[j] = d /\ j < l)
    BY <1>3
  <2> QED BY <1>1, <2>1, <2>2 DEF EarlierIn
<1>6. \A d : EarlierIn(ds, n, k0, d) <=> d \in PlacedIn(cs)
  <2> TAKE d
  <2>1. ASSUME EarlierIn(ds, n, k0, d) PROVE d \in PlacedIn(cs)
    <3> PICK i \in 1..n : \E j \in DOMAIN ds[i].entries : ds[i].entries[j] = d /\ (i = n => j < k0)
      BY <2>1 DEF EarlierIn
    <3> PICK j \in DOMAIN ds[i].entries : ds[i].entries[j] = d /\ (i = n => j < k0)
      OBVIOUS
    <3>1. CASE i = n
      <4>1. j \in DOMAIN b.entries /\ b.entries[j] = d
        BY <1>1, <1>3, <3>1
      <4> QED BY <1>1, <4>1 DEF ToSet
    <3>2. CASE i # n
      <4>1. i \in DOMAIN cs /\ cs[i] = ds[i]
        BY <1>1, <3>2
      <4> QED BY <4>1 DEF PlacedIn, ToSet
    <3> QED BY <3>1, <3>2
  <2>2. ASSUME d \in PlacedIn(cs) PROVE EarlierIn(ds, n, k0, d)
    <3> PICK i \in DOMAIN cs : \E j \in DOMAIN cs[i].entries : cs[i].entries[j] = d
      BY <2>2 DEF PlacedIn, ToSet
    <3> PICK j \in DOMAIN cs[i].entries : cs[i].entries[j] = d
      OBVIOUS
    <3>1. CASE i = n
      <4>1. j \in DOMAIN c.entries /\ c.entries[j] = d /\ j < k0
        BY <1>1, <1>3, <3>1
      <4> QED BY <1>1, <3>1, <4>1 DEF EarlierIn
    <3>2. CASE i # n
      <4>1. i \in 1..n /\ cs[i] = ds[i]
        BY <1>1, <3>2
      <4> QED BY <3>2, <4>1 DEF EarlierIn
    <3> QED BY <3>1, <3>2
  <2> QED BY <2>1, <2>2
<1>7. e[2] > 1 => Before(e) \in PlacedIn(cs)
  <2>1. e[2] > 1 => e[2] # 1
    BY ChunkFacts
  <2> QED BY <2>1 DEF Ready, cs
<1>8. InOrder(ds)
  <2> SUFFICES ASSUME NEW k \in DOMAIN ds, NEW l \in DOMAIN ds[k].entries
               PROVE  /\ ~EarlierIn(ds, k, l, ds[k].entries[l])
                      /\ ds[k].entries[l][2] > 1 => EarlierIn(ds, k, l, Before(ds[k].entries[l]))
    BY DEF InOrder
  <2>0. InOrder(cs) /\ e \notin PlacedIn(cs)
    BY DEF cs
  <2>1. CASE k \in 1..Len(bs)
    <3>1. k \in DOMAIN cs /\ k \in DOMAIN bs /\ cs[k] = ds[k]
      BY <1>1, <2>1
    <3> QED BY <1>4, <2>0, <3>1 DEF InOrder
  <2>2. CASE k = n /\ l \in 1..(k0 - 1)
    <3>1. n \in DOMAIN cs /\ l \in DOMAIN cs[n].entries /\ cs[n].entries[l] = ds[n].entries[l]
      BY <1>1, <1>3, <2>2
    <3> QED BY <1>5, <2>0, <2>2, <3>1 DEF InOrder
  <2>3. CASE k = n /\ l = k0
    <3>1. ds[k].entries[l] = e
      BY <1>1, <1>3, <2>3
    <3> QED BY <1>6, <1>7, <2>0, <2>3, <3>1
  <2> QED BY <1>1, <1>3, <2>1, <2>2, <2>3
<1> QED BY <1>1, <1>8, <1>a DEF cs, ds

-----------------------------------------------------------------------------
LEMMA OpenKeeps == BlocksInv /\ Blocks!OpenBlock => BlocksInv'
<1> SUFFICES ASSUME BlocksInv, Blocks!OpenBlock PROVE BlocksInv'
  OBVIOUS
<1>1. /\ state = "between" /\ Len(blocks) < BlockCount /\ block' = Blocks!EmptyBlock
      /\ deferred' = {} /\ failed' = 0 /\ state' = "filling" /\ UNCHANGED <<clusters, heap, blocks>>
  BY DEF Blocks!OpenBlock
<1>2. Types /\ Frontier /\ Aside /\ InOrder(Built) /\ Within(Built) /\ Tight /\ deferred = {}
  BY <1>1 DEF BlocksInv, Aside
<1> PICK m \in Mempools : m = clusters
  BY <1>2 DEF Types
<1> DEFINE b == [entries |-> <<>>, weight |-> Reserved, sigops |-> 0]
<1>3. b \in BlocksOf(m) /\ block' = b /\ b.entries = <<>> /\ ToSet(b.entries) = {}
  BY <1>1, TemplatesAssumption DEF BlocksOf, Blocks!EmptyBlock, ToSet
<1>4. blocks \in Seq(BlocksOf(m)) /\ Built = blocks /\ Built' = Append(blocks, b)
  BY <1>1, <1>2, <1>3 DEF Types, Built
<1> HIDE DEF b
<1>5. PlacedIn(Built') = PlacedIn(Built)
  <2>1. PlacedIn(Append(blocks, b)) = PlacedIn(blocks) \cup ToSet(b.entries)
    BY <1>3, <1>4, AppendedPlaces
  <2> QED BY <1>3, <1>4, <2>1
<1>6. Types'
  BY <1>1, <1>2, <1>3 DEF Types
<1>7. Frontier'
  BY <1>1, <1>2, <1>5 DEF Frontier, ChunksOf
<1>8. Aside'
  BY <1>1 DEF Aside, Blocks!EmptyBlock
<1>9. InOrder(Built')
  BY <1>2, <1>3, <1>4, InOrderAppended
<1>10. Within(Built')
  <2>1. b.weight < MaxWeight /\ b.sigops < MaxSigops
    BY TemplatesAssumption DEF b
  <2>2. /\ DOMAIN Built' = 1..(Len(blocks) + 1) /\ DOMAIN blocks = 1..Len(blocks)
        /\ \A i \in 1..(Len(blocks) + 1) : i \in 1..Len(blocks) \/ Built'[i] = b
        /\ \A i \in 1..Len(blocks) : Built'[i] = blocks[i]
    BY <1>3, <1>4, AppendedBlock
  <2> QED BY <1>2, <1>4, <2>1, <2>2 DEF Within
<1>11. Tight'
  BY <1>1, <1>2 DEF Tight, UpToBlock, Blocks!Chunk
<1>12. Exhausted'
  BY <1>1, <1>2, TemplatesAssumption DEF Exhausted, Types
<1> QED BY <1>6, <1>7, <1>8, <1>9, <1>10, <1>11, <1>12 DEF BlocksInv, Within, InOrder, EarlierIn

LEMMA PlaceKeeps == BlocksInv /\ Blocks!Place => BlocksInv'
<1> SUFFICES ASSUME BlocksInv, Blocks!Place PROVE BlocksInv'
  OBVIOUS
<1>0. Types /\ Frontier /\ Aside /\ InOrder(Built) /\ Within(Built) /\ Tight
  BY DEF BlocksInv
<1> PICK m \in Mempools : m = clusters
  BY <1>0 DEF Types
<1>1. PICK e \in Blocks!Best :
        /\ Blocks!Fits(e)
        /\ block' = [entries |-> Append(block.entries, e),
                     weight |-> block.weight + Blocks!Chunk(e).real,
                     sigops |-> block.sigops + Blocks!Chunk(e).sigops]
        /\ heap' = (heap \ {e}) \cup Blocks!Following(e)
  BY DEF Blocks!Place
<1>2. state = "filling" /\ state' = "filling" /\ failed' = 0 /\ UNCHANGED <<clusters, blocks, deferred>>
  BY DEF Blocks!Place
<1>3. e \in heap /\ e \in ChunksOf(m) /\ Blocks!Chunk(e) = m[e[1]][e[2]]
  BY <1>0 DEF Blocks!Best, Types, Blocks!Chunk
<1>4. PICK w \in Nat, s \in Nat, r \in Nat :
        r <= w /\ w = Blocks!Chunk(e).weight /\ s = Blocks!Chunk(e).sigops /\ r = Blocks!Chunk(e).real
  <2>1. Blocks!Chunk(e) \in Blocks!Chunks
    BY <1>3, ChunkFacts
  <2> QED BY <2>1 DEF Blocks!Chunks
<1>5. /\ block \in BlocksOf(m) /\ blocks \in Seq(BlocksOf(m))
      /\ block.entries \in Seq(ChunksOf(m)) /\ block.weight \in Nat /\ block.sigops \in Nat
  BY <1>0 DEF Types, BlocksOf
<1>6. block' \in BlocksOf(m) /\ block'.entries = Append(block.entries, e)
  <2>1. Append(block.entries, e) \in Seq(ChunksOf(m))
    BY <1>3, <1>5
  <2>2. block.weight + r \in Nat /\ block.sigops + s \in Nat
    <3>1. r \in Nat /\ s \in Nat
      BY <1>4
    <3>2. block.weight \in Nat /\ block.sigops \in Nat
      BY <1>5
    <3> QED BY <3>1, <3>2
  <2>3. block' = [entries |-> Append(block.entries, e), weight |-> block.weight + r, sigops |-> block.sigops + s]
    BY <1>1, <1>4
  <2> QED BY <2>1, <2>2, <2>3 DEF BlocksOf
<1>7. Built = Append(blocks, block) /\ Built' = Append(blocks, block')
  BY <1>2 DEF Built
<1>8. e \notin PlacedIn(Built) /\ Ready(PlacedIn(Built), e)
  BY <1>0, <1>3 DEF Frontier
<1>9. InOrder(Built') /\ PlacedIn(Built') = PlacedIn(Built) \cup {e}
  BY <1>0, <1>3, <1>5, <1>6, <1>7, <1>8, InOrderPlaced
<1>10. ASSUME NEW d PROVE d \in Blocks!Following(e) <=> d \in ChunksOf(m) /\ d[2] # 1 /\ Before(d) = e
  <2>1. /\ e = <<e[1], e[2]>> /\ e[1] \in DOMAIN m /\ e[2] \in Nat /\ e[2] >= 1
    BY <1>3, ChunkFacts
  <2>2. d \in Blocks!Following(e) <=> e[2] + 1 \in DOMAIN m[e[1]] /\ d = <<e[1], e[2] + 1>>
    BY DEF Blocks!Following
  <2>3. ASSUME d \in Blocks!Following(e) PROVE d \in ChunksOf(m) /\ d[2] # 1 /\ Before(d) = e
    <3>1. d \in ChunksOf(m)
      BY <2>1, <2>2, <2>3 DEF ChunksOf
    <3> QED BY <2>1, <2>2, <2>3, <3>1 DEF Before
  <2>4. ASSUME d \in ChunksOf(m), d[2] # 1, Before(d) = e PROVE d \in Blocks!Following(e)
    <3>1. d = <<d[1], d[2]>> /\ d[2] \in 1..Len(m[d[1]]) /\ d[2] \in Nat /\ d[1] \in DOMAIN m
      BY <2>4, ChunkFacts
    <3>2. e[1] = d[1] /\ e[2] = d[2] - 1
      BY <2>4 DEF Before
    <3>3. DOMAIN m[d[1]] = 1..Len(m[d[1]])
      BY <3>1, TemplatesAssumption
    <3> QED BY <2>2, <3>1, <3>2, <3>3
  <2> QED BY <2>3, <2>4
<1>11. Blocks!Following(e) \subseteq ChunksOf(m)
  BY <1>10
<1>12. Types'
  BY <1>0, <1>1, <1>2, <1>6, <1>11 DEF Types
<1>13. Frontier'
  <2> DEFINE P == PlacedIn(Built)
             Q == PlacedIn(Built')
  <2>1. Q = P \cup {e} /\ e \notin P /\ heap' = (heap \ {e}) \cup Blocks!Following(e) /\ deferred' = deferred
    BY <1>1, <1>2, <1>8, <1>9
  <2>2. /\ heap \cap deferred = {}
        /\ \A d \in ChunksOf(m) : /\ d \in heap \cup deferred <=> d \notin P /\ Ready(P, d)
                                  /\ d \in P => Ready(P, d)
    BY <1>0 DEF Frontier
  <2>3. \A d \in ChunksOf(m) : Ready(Q, d) <=> Ready(P, d) \/ d \in Blocks!Following(e)
    BY <1>10, <2>1 DEF Ready
  <2>4. \A d \in Blocks!Following(e) : d # e /\ d \notin P /\ d \notin heap \cup deferred
    <3> TAKE d \in Blocks!Following(e)
    <3>1. d \in ChunksOf(m) /\ d[2] # 1 /\ Before(d) = e
      BY <1>10
    <3>2. d # e
      <4>1. d[2] \in Nat /\ e[2] = d[2] - 1
        BY <3>1, ChunkFacts DEF Before
      <4> QED BY <4>1
    <3>3. ~Ready(P, d)
      BY <2>1, <3>1 DEF Ready
    <3> QED BY <2>2, <3>1, <3>2, <3>3
  <2> HIDE DEF P, Q
  <2>5. heap' \cap deferred' = {}
    BY <1>3, <2>1, <2>2, <2>4
  <2>6. \A d \in ChunksOf(m) : /\ d \in heap' \cup deferred' <=> d \notin Q /\ Ready(Q, d)
                               /\ d \in Q => Ready(Q, d)
    BY <1>3, <1>11, <2>1, <2>2, <2>3, <2>4
  <2>7. clusters' = m
    BY <1>2
  <2>8. Frontier' <=> /\ heap' \cap deferred' = {}
                      /\ \A d \in ChunksOf(m) : /\ d \in heap' \cup deferred' <=> d \notin Q /\ Ready(Q, d)
                                                /\ d \in Q => Ready(Q, d)
    BY <2>7 DEF Frontier, Q
  <2> QED BY <2>5, <2>6, <2>8
<1>14. Aside'
  <2>1. \A d \in deferred : ~(Blocks!Fits(d)')
    <3> TAKE d \in deferred
    <3>1. ~Blocks!Fits(d)
      BY <1>0, <1>2 DEF Aside
    <3>2. d \in ChunksOf(m) /\ Blocks!Chunk(d) = m[d[1]][d[2]] /\ Blocks!Chunk(d)' = Blocks!Chunk(d)
      BY <1>0, <1>2 DEF Types, Blocks!Chunk
    <3>3. Blocks!Chunk(d).weight \in Nat /\ Blocks!Chunk(d).sigops \in Nat
      BY <3>2, ChunkFacts DEF Blocks!Chunks
    <3>4. block'.weight = block.weight + r /\ block'.sigops = block.sigops + s
      BY <1>1, <1>4
    <3>5. Blocks!Limited' <=> Blocks!Limited
      BY <1>2 DEF Blocks!Limited
    <3>6. Blocks!Fits(d)' <=> \/ ~Blocks!Limited
                             \/ /\ block'.weight + Blocks!Chunk(d).weight < MaxWeight
                                /\ block'.sigops + Blocks!Chunk(d).sigops < MaxSigops
      BY <3>2, <3>5 DEF Blocks!Fits
    <3>7. /\ Blocks!Limited
          /\ \/ ~(block.weight + Blocks!Chunk(d).weight < MaxWeight)
             \/ ~(block.sigops + Blocks!Chunk(d).sigops < MaxSigops)
      BY <3>1 DEF Blocks!Fits
    <3>8. r \in Nat /\ s \in Nat /\ block.weight \in Nat /\ block.sigops \in Nat
      BY <1>4, <1>5
    <3>9. MaxWeight \in Nat /\ MaxSigops \in Nat
      BY TemplatesAssumption
    <3>10. \/ ~(block'.weight + Blocks!Chunk(d).weight < MaxWeight)
           \/ ~(block'.sigops + Blocks!Chunk(d).sigops < MaxSigops)
      BY <3>3, <3>4, <3>7, <3>8, <3>9
    <3> QED BY <3>6, <3>7, <3>10
  <2>2. block'.entries # <<>>
    BY <1>5, <1>6
  <2> QED BY <1>2, <2>1, <2>2 DEF Aside
<1>15. Within(Built')
  <2>1. /\ DOMAIN Built' = 1..(Len(blocks) + 1) /\ DOMAIN Built = 1..(Len(blocks) + 1)
        /\ \A i \in 1..(Len(blocks) + 1) : i \in 1..Len(blocks) \/ (i = Len(blocks) + 1 /\ Built'[i] = block')
        /\ \A i \in 1..Len(blocks) : Built'[i] = Built[i] /\ i \in 1..(Len(blocks) + 1)
    <3>1. /\ DOMAIN Built = 1..(Len(blocks) + 1)
          /\ \A i \in 1..Len(blocks) : Built[i] = blocks[i] /\ i \in 1..(Len(blocks) + 1)
      BY <1>5, <1>7, AppendedBlock
    <3>2. /\ DOMAIN Built' = 1..(Len(blocks) + 1)
          /\ \A i \in 1..(Len(blocks) + 1) : i \in 1..Len(blocks) \/ (i = Len(blocks) + 1 /\ Built'[i] = block')
          /\ \A i \in 1..Len(blocks) : Built'[i] = blocks[i]
      BY <1>5, <1>6, <1>7, AppendedBlock
    <3> QED BY <3>1, <3>2
  <2>2. LimitedAt(Len(blocks) + 1) => block'.weight < MaxWeight /\ block'.sigops < MaxSigops
    <3>1. LimitedAt(Len(blocks) + 1) => Blocks!Limited
      BY DEF LimitedAt, Blocks!Limited
    <3>2. block'.weight = block.weight + r /\ block'.sigops = block.sigops + s
      BY <1>1, <1>4
    <3>3. Blocks!Limited => block.weight + w < MaxWeight /\ block.sigops + s < MaxSigops
      BY <1>1, <1>4 DEF Blocks!Fits
    <3> QED BY <1>4, <1>5, <3>1, <3>2, <3>3, TemplatesAssumption, SMTT(30)
  <2> QED BY <1>0, <2>1, <2>2 DEF Within
<1>16. Tight'
  BY <1>0, <1>2 DEF Tight, UpToBlock, Blocks!Chunk
<1>17. Exhausted'
  BY <1>0, <1>2, TemplatesAssumption DEF Exhausted, Types
<1> QED BY <1>9, <1>12, <1>13, <1>14, <1>15, <1>16, <1>17 DEF BlocksInv, Within, InOrder, EarlierIn

LEMMA DeferKeeps == BlocksInv /\ Blocks!Defer => BlocksInv'
<1> SUFFICES ASSUME BlocksInv, Blocks!Defer PROVE BlocksInv'
  OBVIOUS
<1>0. Types /\ Frontier /\ Aside /\ InOrder(Built) /\ Within(Built) /\ Tight
  BY DEF BlocksInv
<1>1. PICK e \in Blocks!Best : ~Blocks!Fits(e) /\ deferred' = deferred \cup {e} /\ heap' = heap \ {e}
  BY DEF Blocks!Defer
<1>2. state = "filling" /\ state' = "filling" /\ UNCHANGED <<clusters, blocks, block>> /\ failed' = failed + 1
  BY DEF Blocks!Defer
<1>3. e \in heap
  BY DEF Blocks!Best
<1>4. Types'
  BY <1>0, <1>1, <1>2, <1>3 DEF Types
<1>5. Built' = Built
  BY <1>2 DEF Built
<1>6. Frontier'
  <2>1. heap' \cup deferred' = heap \cup deferred
    BY <1>1, <1>3
  <2>2. heap' \cap deferred' = {}
    BY <1>0, <1>1 DEF Frontier
  <2> QED BY <1>0, <1>2, <1>5, <2>1, <2>2 DEF Frontier
<1>7. Aside'
  <2>1. \A d : Blocks!Fits(d)' <=> Blocks!Fits(d)
    BY <1>2 DEF Blocks!Fits, Blocks!Limited, Blocks!Chunk
  <2>2. \A d \in deferred' : ~(Blocks!Fits(d)')
    BY <1>0, <1>1, <1>2, <2>1 DEF Aside
  <2>3. block'.entries = <<>> => block' = Blocks!EmptyBlock
    BY <1>0, <1>2 DEF Aside
  <2> QED BY <1>1, <1>2, <2>2, <2>3 DEF Aside, Blocks!EmptyBlock
<1>8. Tight'
  BY <1>0, <1>2 DEF Tight, UpToBlock, Blocks!Chunk
<1>9. Exhausted'
  BY <1>0, <1>2, TemplatesAssumption DEF Exhausted, Types
<1> QED BY <1>0, <1>4, <1>5, <1>6, <1>7, <1>8, <1>9 DEF BlocksInv, Within, InOrder, EarlierIn

(* The block is full, or nothing waits any more. *)
LEMMA CloseFullKeeps == BlocksInv /\ Blocks!CloseBlock /\ block.entries # <<>> => BlocksInv'
<1> SUFFICES ASSUME BlocksInv, Blocks!CloseBlock, block.entries # <<>> PROVE BlocksInv'
  OBVIOUS
<1>0. Types /\ Frontier /\ Aside /\ InOrder(Built) /\ Within(Built) /\ Tight
  BY DEF BlocksInv
<1> PICK m \in Mempools : m = clusters
  BY <1>0 DEF Types
<1>1. /\ state = "filling" /\ state' = "between" /\ (heap = {} \/ Blocks!Wasteful(failed))
      /\ heap' = heap \cup deferred /\ deferred' = {} /\ blocks' = Append(blocks, block)
      /\ UNCHANGED <<clusters, block, failed>>
  BY DEF Blocks!CloseBlock, Blocks!PutBack
<1>2. Built' = Built /\ Built = Append(blocks, block) /\ blocks' = Built
  BY <1>1 DEF Built
<1>3. blocks \in Seq(BlocksOf(m)) /\ block \in BlocksOf(m) /\ Len(blocks) \in Nat
  BY <1>0 DEF Types
<1>4. /\ blocks' \in Seq(BlocksOf(m)) /\ Len(blocks') = Len(blocks) + 1
      /\ DOMAIN blocks' = 1..(Len(blocks) + 1) /\ DOMAIN blocks = 1..Len(blocks)
      /\ blocks'[Len(blocks) + 1] = block
      /\ \A i \in 1..Len(blocks) : blocks'[i] = blocks[i]
      /\ \A i \in 1..(Len(blocks) + 1) : i \in 1..Len(blocks) \/ i = Len(blocks) + 1
  BY <1>1, <1>3, AppendedBlock
<1>5. Types'
  BY <1>0, <1>1, <1>4, TemplatesAssumption DEF Types
<1>6. Frontier'
  BY <1>0, <1>1, <1>2 DEF Frontier
<1>7. Aside'
  BY <1>1 DEF Aside
<1>8. ~Blocks!Limited => heap \cup deferred = {}
  BY <1>0, <1>1 DEF Aside, Blocks!Fits, Blocks!Wasteful
<1>9. Tight'
  <2> SUFFICES ASSUME NEW i \in DOMAIN blocks', LimitedAt(i), NEW e \in ChunksOf(m),
                      e \notin UpToBlock(blocks', i), Ready(UpToBlock(blocks', i), e)
               PROVE  \/ blocks'[i].weight + Blocks!Chunk(e).weight >= MaxWeight
                      \/ blocks'[i].sigops + Blocks!Chunk(e).sigops >= MaxSigops
                      \/ blocks'[i].weight + MaxWasted > MaxWeight
    BY <1>1 DEF Tight, Blocks!Chunk
  <2>1. CASE i \in 1..Len(blocks)
    <3>1. UpToBlock(blocks', i) = UpToBlock(blocks, i)
      BY <1>1, <1>3, <2>1, AppendedPlaces
    <3>2. i \in DOMAIN blocks /\ blocks'[i] = blocks[i]
      BY <1>4, <2>1
    <3> QED BY <1>0, <3>1, <3>2 DEF Tight
  <2>2. CASE i = Len(blocks) + 1
    <3>1. UpToBlock(blocks', i) = PlacedIn(Built)
      BY <1>1, <1>2, <1>3, <2>2, AppendedPlaces
    <3>2. e \in heap \cup deferred
      BY <1>0, <3>1 DEF Frontier
    <3>3. Blocks!Limited
      BY <2>2 DEF LimitedAt, Blocks!Limited
    <3>4. blocks'[i] = block
      BY <1>4, <2>2
    <3>5. CASE heap = {}
      <4>1. ~Blocks!Fits(e)
        BY <1>0, <1>1, <3>2, <3>5 DEF Aside
      <4>2. \/ ~(block.weight + Blocks!Chunk(e).weight < MaxWeight)
            \/ ~(block.sigops + Blocks!Chunk(e).sigops < MaxSigops)
        BY <4>1 DEF Blocks!Fits
      <4>3. Blocks!Chunk(e).weight \in Nat /\ Blocks!Chunk(e).sigops \in Nat
        BY ChunkFacts DEF Blocks!Chunks, Blocks!Chunk
      <4>4. block.weight \in Nat /\ block.sigops \in Nat
        BY <1>3 DEF BlocksOf
      <4> QED BY <3>4, <4>2, <4>3, <4>4, TemplatesAssumption
    <3>6. CASE Blocks!Wasteful(failed)
      BY <3>4, <3>6 DEF Blocks!Wasteful
    <3> QED BY <1>1, <3>5, <3>6
  <2> QED BY <1>4, <2>1, <2>2
<1>10. Exhausted'
  <2>1. Len(blocks') = BlockCount /\ ~Enforce => ~Blocks!Limited
    BY <1>3, <1>4, TemplatesAssumption DEF Blocks!Limited
  <2> QED BY <1>1, <1>8, <2>1 DEF Exhausted
<1> QED BY <1>0, <1>2, <1>5, <1>6, <1>7, <1>9, <1>10 DEF BlocksInv, Within, InOrder, EarlierIn

(* Every chunk fits into an empty block: it stays empty when nothing waits. *)
LEMMA CloseEmptyKeeps == BlocksInv /\ Blocks!CloseBlock /\ block.entries = <<>> => BlocksInv'
<1> SUFFICES ASSUME BlocksInv, Blocks!CloseBlock, block.entries = <<>> PROVE BlocksInv'
  OBVIOUS
<1>0. Types /\ Frontier /\ Aside /\ InOrder(Built) /\ Within(Built) /\ Tight
  BY DEF BlocksInv
<1> PICK m \in Mempools : m = clusters
  BY <1>0 DEF Types
<1>1. /\ state = "filling" /\ state' = "finished" /\ (heap = {} \/ Blocks!Wasteful(failed))
      /\ heap' = heap \cup deferred /\ deferred' = {}
      /\ UNCHANGED <<clusters, blocks, block, failed>>
  BY DEF Blocks!CloseBlock, Blocks!PutBack
<1>2. blocks \in Seq(BlocksOf(m)) /\ block \in BlocksOf(m) /\ Built = Append(blocks, block) /\ Built' = blocks
  BY <1>0, <1>1 DEF Types, Built
<1>3. block.weight = Reserved /\ block.sigops = 0
  BY <1>0, <1>1 DEF Aside, Blocks!EmptyBlock
<1>4. deferred = {}
  <2> SUFFICES ASSUME NEW e \in deferred PROVE FALSE
    OBVIOUS
  <2>1. e \in ChunksOf(m) /\ ~Blocks!Fits(e)
    BY <1>0, <1>1 DEF Types, Aside
  <2>2. Blocks!Chunk(e).sigops \in Nat /\ Reserved + Blocks!Chunk(e).weight < MaxWeight /\ Blocks!Chunk(e).sigops < MaxSigops
    BY <2>1, ChunkFacts DEF Blocks!Chunks, Blocks!Chunk
  <2>3. 0 + Blocks!Chunk(e).sigops < MaxSigops
    BY <2>2
  <2> QED BY <1>3, <2>1, <2>2, <2>3 DEF Blocks!Fits
<1>5. heap = {}
  <2>1. failed \in Nat /\ ~(failed > 0)
    BY <1>0, <1>1, <1>4 DEF Aside, Types
  <2> QED BY <1>1, <2>1, TemplatesAssumption DEF Blocks!Wasteful
<1>6. Types'
  BY <1>0, <1>1 DEF Types
<1>7. PlacedIn(Built') = PlacedIn(Built)
  <2>1. PlacedIn(Append(blocks, block)) = PlacedIn(blocks) \cup ToSet(block.entries)
    BY <1>2, AppendedPlaces
  <2>2. ToSet(block.entries) = {}
    BY DEF ToSet
  <2> QED BY <1>2, <2>1, <2>2
<1>8. Frontier'
  BY <1>0, <1>1, <1>7 DEF Frontier
<1>9. Aside'
  BY <1>1 DEF Aside
<1>10. InOrder(Built')
  BY <1>0, <1>2, InOrderAppended
<1>11. Within(Built')
  <2>1. /\ DOMAIN Built = 1..(Len(blocks) + 1) /\ DOMAIN blocks = 1..Len(blocks)
        /\ \A i \in 1..Len(blocks) : Built[i] = blocks[i] /\ i \in 1..(Len(blocks) + 1)
    BY <1>2, AppendedBlock
  <2> QED BY <1>0, <1>2, <2>1 DEF Within
<1>12. Tight'
  BY <1>0, <1>1 DEF Tight, UpToBlock, Blocks!Chunk
<1>13. Exhausted'
  BY <1>1, <1>4, <1>5 DEF Exhausted
<1> QED BY <1>6, <1>8, <1>9, <1>10, <1>11, <1>12, <1>13 DEF BlocksInv, Within, InOrder, EarlierIn

LEMMA FinishKeeps == BlocksInv /\ Blocks!Finish => BlocksInv'
<1> SUFFICES ASSUME BlocksInv, Blocks!Finish PROVE BlocksInv'
  OBVIOUS
<1>1. /\ state = "between" /\ Len(blocks) = BlockCount /\ state' = "finished"
      /\ UNCHANGED <<clusters, heap, blocks, block, deferred, failed>>
  BY DEF Blocks!Finish
<1>2. Built' = Built
  BY <1>1 DEF Built
<1>3. Types' /\ Frontier' /\ Aside' /\ Exhausted'
  BY <1>1, <1>2 DEF BlocksInv, Types, Frontier, Aside, Exhausted
<1>4. Tight'
  BY <1>1 DEF BlocksInv, Tight, UpToBlock, Blocks!Chunk
<1> QED BY <1>2, <1>3, <1>4 DEF BlocksInv, Within, InOrder, EarlierIn

LEMMA BlocksRest == BlocksInv /\ UNCHANGED blockVars => BlocksInv'
<1> SUFFICES ASSUME BlocksInv, UNCHANGED blockVars PROVE BlocksInv'
  OBVIOUS
<1>1. UNCHANGED <<clusters, heap, blocks, block, deferred, failed, state>>
  BY DEF blockVars
<1>2. Built' = Built
  BY <1>1 DEF Built
<1>3. Types' /\ Frontier' /\ Exhausted'
  BY <1>1, <1>2 DEF BlocksInv, Types, Frontier, Exhausted
<1>4. Tight'
  BY <1>1 DEF BlocksInv, Tight, UpToBlock, Blocks!Chunk
<1>5. Aside'
  BY <1>1 DEF BlocksInv, Aside, Blocks!Fits, Blocks!Limited, Blocks!Chunk, Blocks!EmptyBlock
<1> QED BY <1>2, <1>3, <1>4, <1>5 DEF BlocksInv, Within, InOrder, EarlierIn

LEMMA BlocksStart == Blocks!Init => BlocksInv
<1> SUFFICES ASSUME Blocks!Init PROVE BlocksInv
  OBVIOUS
<1>1. /\ clusters \in Mempools /\ heap = {<<id, 1>> : id \in {c \in DOMAIN clusters : clusters[c] # <<>>}}
      /\ blocks = <<>> /\ block = Blocks!EmptyBlock /\ deferred = {} /\ failed = 0 /\ state = "between"
  BY DEF Blocks!Init
<1> PICK m \in Mempools : m = clusters
  BY <1>1
<1>2. \A e : e \in heap <=> e \in ChunksOf(m) /\ e[2] = 1
  <2> TAKE e
  <2>1. ASSUME e \in heap PROVE e \in ChunksOf(m) /\ e[2] = 1
    <3> PICK id \in DOMAIN m : m[id] # <<>> /\ e = <<id, 1>>
      BY <1>1, <2>1
    <3>1. m[id] \in Seq(Blocks!Chunks)
      BY TemplatesAssumption
    <3>2. 1 \in DOMAIN m[id]
      BY <3>1
    <3> QED BY <3>2 DEF ChunksOf
  <2>2. ASSUME e \in ChunksOf(m), e[2] = 1 PROVE e \in heap
    <3>1. e = <<e[1], 1>> /\ e[1] \in DOMAIN m /\ 1 \in 1..Len(m[e[1]])
      BY <2>2, ChunkFacts
    <3>2. m[e[1]] # <<>>
      BY <3>1
    <3> QED BY <1>1, <3>1, <3>2
  <2> QED BY <2>1, <2>2
<1>3. Built = <<>> /\ PlacedIn(Built) = {}
  BY <1>1 DEF Built, PlacedIn
<1>4. Types
  <2>1. block \in BlocksOf(m)
    BY <1>1, TemplatesAssumption DEF Blocks!EmptyBlock, BlocksOf
  <2> QED BY <1>1, <1>2, <2>1, TemplatesAssumption DEF Types
<1>5. Frontier
  <2>1. \A e : ~(Before(e) \in PlacedIn(Built)) /\ ~(e \in PlacedIn(Built))
    BY <1>3
  <2> QED BY <1>1, <1>2, <2>1 DEF Frontier, Ready
<1>6. Aside /\ InOrder(Built) /\ Within(Built) /\ Tight /\ Exhausted
  BY <1>1, <1>3, TemplatesAssumption DEF Aside, InOrder, Within, Tight, Exhausted
<1> QED BY <1>4, <1>5, <1>6 DEF BlocksInv

-----------------------------------------------------------------------------
LEMMA BlockEntries ==
  ASSUME NEW m, NEW bs \in Seq(BlocksOf(m))
  PROVE  \A k \in DOMAIN bs : bs[k].entries \in Seq(ChunksOf(m))
<1> TAKE k \in DOMAIN bs
<1>1. bs[k] \in BlocksOf(m)
  OBVIOUS
<1> QED BY <1>1 DEF BlocksOf

(* What is built without the block being filled. *)
LEMMA ClosedBlocks == BlocksInv => InOrder(blocks) /\ Within(blocks)
<1> SUFFICES ASSUME BlocksInv PROVE InOrder(blocks) /\ Within(blocks)
  OBVIOUS
<1>1. InOrder(Built) /\ Within(Built) /\ Types
  BY DEF BlocksInv
<1> PICK m \in Mempools : m = clusters
  BY <1>1 DEF Types
<1>2. CASE state = "filling"
  <2>1. blocks \in Seq(BlocksOf(m)) /\ block \in BlocksOf(m) /\ Built = Append(blocks, block)
    BY <1>1, <1>2 DEF Types, Built
  <2>2. InOrder(blocks)
    BY <1>1, <2>1, InOrderAppended
  <2>3. /\ DOMAIN Built = 1..(Len(blocks) + 1) /\ DOMAIN blocks = 1..Len(blocks)
        /\ \A i \in 1..Len(blocks) : Built[i] = blocks[i] /\ i \in 1..(Len(blocks) + 1)
    BY <2>1, AppendedBlock
  <2> QED BY <1>1, <2>2, <2>3 DEF Within
<1>3. CASE state # "filling"
  BY <1>1, <1>3 DEF Built
<1> QED BY <1>2, <1>3

LEMMA EveryChunkPlaced ==
  ASSUME BlocksInv, state = "finished", ~Enforce
  PROVE  Blocks!Placed = Blocks!AllChunks
<1>1. Types /\ Frontier /\ heap \cup deferred = {} /\ Built = blocks
  BY DEF BlocksInv, Exhausted, Built
<1> PICK m \in Mempools : m = clusters
  BY <1>1 DEF Types
<1> DEFINE P == PlacedIn(blocks)
<1>2. P \subseteq ChunksOf(m)
  <2>1. blocks \in Seq(BlocksOf(m))
    BY <1>1 DEF Types
  <2>2. \A k \in DOMAIN blocks : blocks[k].entries \in Seq(ChunksOf(m))
    BY <2>1, BlockEntries
  <2> QED BY <2>2 DEF PlacedIn, ToSet
<1>3. \A e \in ChunksOf(m) : e \notin P => ~Ready(P, e)
  BY <1>1 DEF Frontier
<1> HIDE DEF P
<1>4. ASSUME NEW e \in ChunksOf(m), e \notin P PROVE FALSE
  <2> DEFINE s == m[e[1]]
             T == {i \in 1..Len(s) : <<e[1], i>> \notin P}
  <2>1. e = <<e[1], e[2]>> /\ e[1] \in DOMAIN m /\ e[2] \in 1..Len(s)
    BY ChunkFacts
  <2>2. T \in SUBSET Nat /\ T # {}
    BY <1>4, <2>1
  <2>3. PICK n \in T : \A i \in T : n <= i
    <3> HIDE DEF T
    <3> QED BY <2>2, LeastNat
  <2> DEFINE d == <<e[1], n>>
  <2>4. s \in Seq(Blocks!Chunks)
    BY <2>1, TemplatesAssumption
  <2>5. d \in ChunksOf(m) /\ d \notin P
    BY <2>1, <2>4 DEF ChunksOf
  <2>6. Ready(P, d)
    <3>1. CASE n = 1
      BY <3>1 DEF Ready
    <3>2. CASE n # 1
      <4>1. n - 1 \in 1..Len(s) /\ n - 1 \notin T
        BY <2>3, <2>4, <3>2
      <4> QED BY <4>1 DEF Ready, Before
    <3> QED BY <3>1, <3>2
  <2> QED BY <1>3, <2>5, <2>6
<1>5. Blocks!Placed = P /\ Blocks!AllChunks = ChunksOf(m)
  BY DEF Blocks!Placed, Blocks!AllChunks, Blocks!ToSet, ToSet, P, PlacedIn, ChunksOf
<1> QED BY <1>2, <1>4, <1>5

LEMMA BlocksAreOrdered == BlocksInv => Blocks!AncestorsFirst
<1> SUFFICES ASSUME BlocksInv PROVE Blocks!AncestorsFirst
  OBVIOUS
<1>1. InOrder(blocks)
  BY ClosedBlocks
<1>2. state = "finished" /\ ~Enforce => Blocks!Placed = Blocks!AllChunks
  BY EveryChunkPlaced
<1> QED BY <1>1, <1>2 DEF Blocks!AncestorsFirst, InOrder, EarlierIn, Before

LEMMA BlocksAreSmall == BlocksInv => Blocks!BlocksWithinLimits
  BY ClosedBlocks DEF Within, LimitedAt, Blocks!BlocksWithinLimits

LEMMA BlocksAreFull == BlocksInv => Blocks!NoRoomWasted
<1> SUFFICES ASSUME BlocksInv PROVE Blocks!NoRoomWasted
  OBVIOUS
<1>1. InOrder(blocks) /\ Types /\ Tight
  BY ClosedBlocks DEF BlocksInv
<1> PICK m \in Mempools : m = clusters
  BY <1>1 DEF Types
<1>2. /\ blocks \in Seq(BlocksOf(m)) /\ DOMAIN blocks = 1..Len(blocks)
      /\ Len(blocks) \in Nat /\ Len(blocks) <= BlockCount
  BY <1>1 DEF Types
<1>3. ASSUME NEW d \in Blocks!Placed
      PROVE  Blocks!BlockOf(d) \in DOMAIN blocks /\ d \in ToSet(blocks[Blocks!BlockOf(d)].entries)
  BY DEF Blocks!Placed, Blocks!BlockOf, Blocks!ToSet, ToSet
<1> SUFFICES ASSUME NEW e \in Blocks!Placed, NEW i \in 1..(Blocks!BlockOf(e) - 1)
             PROVE  \/ e[2] > 1 /\ Blocks!BlockOf(<<e[1], e[2] - 1>>) > i
                    \/ blocks[i].weight + Blocks!Chunk(e).weight >= MaxWeight
                    \/ blocks[i].sigops + Blocks!Chunk(e).sigops >= MaxSigops
                    \/ blocks[i].weight + MaxWasted > MaxWeight
  BY DEF Blocks!NoRoomWasted
<1> DEFINE b == Blocks!BlockOf(e)
<1>4. b \in DOMAIN blocks /\ e \in ToSet(blocks[b].entries)
  BY <1>3
<1> HIDE DEF b
<1>5. i \in 1..(b - 1)
  BY DEF b
<1>6. PICK l \in DOMAIN blocks[b].entries : blocks[b].entries[l] = e
  BY <1>4 DEF ToSet
<1>7. ~EarlierIn(blocks, b, l, e) /\ (e[2] > 1 => EarlierIn(blocks, b, l, Before(e)))
  BY <1>1, <1>4, <1>6 DEF InOrder
<1>8. e \in ChunksOf(m)
  <2>1. blocks[b].entries \in Seq(ChunksOf(m))
    BY <1>2, <1>4, BlockEntries
  <2> QED BY <1>6, <2>1
<1>9. i \in DOMAIN blocks /\ i < b /\ b \in Nat /\ LimitedAt(i) /\ i < BlockCount
  BY <1>2, <1>4, <1>5, TemplatesAssumption DEF LimitedAt
<1>10. e \notin UpToBlock(blocks, i)
  <2> SUFFICES ASSUME NEW j \in 1..i, e \in ToSet(blocks[j].entries) PROVE FALSE
    BY DEF UpToBlock
  <2>1. j \in 1..b /\ j # b
    BY <1>5, <1>9
  <2>2. PICK x \in DOMAIN blocks[j].entries : blocks[j].entries[x] = e
    BY DEF ToSet
  <2> QED BY <1>7, <2>1, <2>2 DEF EarlierIn
<1>11. ASSUME ~Ready(UpToBlock(blocks, i), e) PROVE e[2] > 1 /\ Blocks!BlockOf(Before(e)) > i
  <2>1. e[2] > 1
    BY <1>8, <1>11, ChunkFacts DEF Ready
  <2>2. Before(e) \in Blocks!Placed
    <3>1. EarlierIn(blocks, b, l, Before(e))
      BY <1>7, <2>1
    <3>2. PICK j \in 1..b : \E x \in DOMAIN blocks[j].entries : blocks[j].entries[x] = Before(e)
      BY <3>1 DEF EarlierIn
    <3>3. j \in DOMAIN blocks
      BY <1>2, <1>4
    <3> QED BY <3>2, <3>3 DEF Blocks!Placed, Blocks!ToSet
  <2>3. Blocks!BlockOf(Before(e)) \in DOMAIN blocks /\ Before(e) \in ToSet(blocks[Blocks!BlockOf(Before(e))].entries)
    BY <1>3, <2>2
  <2>4. Blocks!BlockOf(Before(e)) \notin 1..i
    BY <1>11, <2>3 DEF Ready, UpToBlock
  <2> QED BY <1>2, <1>9, <2>1, <2>3, <2>4
<1> QED BY <1>1, <1>8, <1>9, <1>10, <1>11 DEF Tight, Before

-----------------------------------------------------------------------------
LEMMA BlocksStep ==
  ASSUME subject = "blocks" => BlocksInv, [Next]_vars
  PROVE  subject' = "blocks" => BlocksInv'
<1> SUFFICES ASSUME subject' = "blocks" PROVE BlocksInv'
  OBVIOUS
<1>1. subject = "blocks" /\ (Blocks!Next \/ UNCHANGED blockVars)
  BY DEF Next, vars
<1>2. CASE UNCHANGED blockVars
  BY <1>1, <1>2, BlocksRest
<1>3. CASE Blocks!Next
  BY <1>1, <1>3, OpenKeeps, PlaceKeeps, DeferKeeps, CloseFullKeeps, CloseEmptyKeeps, FinishKeeps DEF Blocks!Next
<1> QED BY <1>1, <1>2, <1>3

LEMMA BlocksAlways == Spec => [](subject = "blocks" => BlocksInv)
<1>1. Init => (subject = "blocks" => BlocksInv)
  BY BlocksStart DEF Init
<1>2. (subject = "blocks" => BlocksInv) /\ [Next]_vars => (subject = "blocks" => BlocksInv)'
  BY BlocksStep
<1> QED BY <1>1, <1>2, PTL DEF Spec

(* assembleBlocks projects every chunk of every cluster once, each after its
   predecessor, and the last block of an unlimited projection takes all that
   is left. *)
THEOREM ChunksAreProjectedInOrder == Spec => []AncestorsFirst
<1>1. (subject = "blocks" => BlocksInv) => AncestorsFirst
  BY BlocksAreOrdered DEF AncestorsFirst
<1> QED BY <1>1, BlocksAlways, PTL

(* No projected block before the last exceeds the limits of weight and
   sigops. *)
THEOREM ProjectedBlocksFit == Spec => []BlocksWithinLimits
<1>1. (subject = "blocks" => BlocksInv) => BlocksWithinLimits
  BY BlocksAreSmall DEF BlocksWithinLimits
<1> QED BY <1>1, BlocksAlways, PTL

(* A chunk that fits into a limited block is not left for a later one, unless
   little room was left when the search was given up. *)
THEOREM ProjectedBlocksAreFull == Spec => []NoRoomWasted
<1>1. (subject = "blocks" => BlocksInv) => NoRoomWasted
  BY BlocksAreFull DEF NoRoomWasted
<1> QED BY <1>1, BlocksAlways, PTL

(***************************************************************************)
(* The spanning forest search: ForestInv says that the chunks part the     *)
(* cluster and that the active dependencies are those inside a chunk.      *)
(* Then a cut never has to be undone: no dependency leads from the child's *)
(* side back to the parent's, and every step leaves less to do.            *)
(***************************************************************************)
(* The dependencies D inside a set of transactions, and chunks C that part
   the transactions T. *)
DepsIn(D, S) == {e \in D : e[1] \in S /\ e[2] \in S}
PartitionOf(C, T) ==
  /\ \A c \in C : c \subseteq T /\ c # {}
  /\ \A c, d \in C : c # d => c \cap d = {}
  /\ \A t \in T : \E c \in C : t \in c
Internal(A, C, D) == \A e : e \in A <=> \E c \in C : e \in DepsIn(D, c)
MergedIn(C, c, d) == (C \ {c, d}) \cup {c \cup d}
CutIn(C, c, top) == (C \ {c}) \cup {top, c \ top}

LEMMA MergedParts ==
  ASSUME NEW T, NEW D, NEW A, NEW C, PartitionOf(C, T), Internal(A, C, D),
         NEW c \in C, NEW d \in C, c # d
  PROVE  /\ PartitionOf(MergedIn(C, c, d), T)
         /\ Internal(A \cup DepsIn(D, c \cup d), MergedIn(C, c, d), D)
<1> DEFINE M == MergedIn(C, c, d)
<1>0. \A x : x \in M <=> (x \in C /\ x # c /\ x # d) \/ x = c \cup d
  BY DEF MergedIn
<1> HIDE DEF M
<1>1. PartitionOf(M, T)
  <2>1. \A x \in M : x \subseteq T /\ x # {}
    BY <1>0 DEF PartitionOf
  <2>2. \A x \in C : x # c /\ x # d => x \cap (c \cup d) = {}
    BY DEF PartitionOf
  <2>3. \A x, y \in M : x # y => x \cap y = {}
    <3> TAKE x, y \in M
    <3> HAVE x # y
    <3>1. CASE x = c \cup d
      BY <1>0, <2>2, <3>1
    <3>2. CASE y = c \cup d
      BY <1>0, <2>2, <3>2
    <3>3. CASE x \in C /\ y \in C
      BY <3>3 DEF PartitionOf
    <3> QED BY <1>0, <3>1, <3>2, <3>3
  <2>4. \A t \in T : \E x \in M : t \in x
    <3> TAKE t \in T
    <3> PICK x \in C : t \in x
      BY DEF PartitionOf
    <3>1. CASE x = c \/ x = d
      BY <1>0, <3>1
    <3>2. CASE x # c /\ x # d
      BY <1>0, <3>2
    <3> QED BY <3>1, <3>2
  <2> QED BY <2>1, <2>3, <2>4 DEF PartitionOf
<1>2. Internal(A \cup DepsIn(D, c \cup d), M, D)
  <2> SUFFICES ASSUME NEW e PROVE e \in A \cup DepsIn(D, c \cup d) <=> \E x \in M : e \in DepsIn(D, x)
    BY DEF Internal
  <2>1. ASSUME e \in A PROVE \E x \in M : e \in DepsIn(D, x)
    <3> PICK x \in C : e \in DepsIn(D, x)
      BY <2>1 DEF Internal
    <3>1. CASE x = c \/ x = d
      BY <1>0, <3>1 DEF DepsIn
    <3>2. CASE x # c /\ x # d
      BY <1>0, <3>2
    <3> QED BY <3>1, <3>2
  <2>2. ASSUME NEW x \in M, e \in DepsIn(D, x) PROVE e \in A \cup DepsIn(D, c \cup d)
    BY <1>0, <2>2 DEF Internal
  <2> QED BY <1>0, <2>1, <2>2
<1> QED BY <1>1, <1>2 DEF M

LEMMA CutParts ==
  ASSUME NEW T, NEW D, NEW A, NEW C, PartitionOf(C, T), Internal(A, C, D),
         NEW c \in C, NEW top \in SUBSET c, top # {}, top # c
  PROVE  /\ PartitionOf(CutIn(C, c, top), T)
         /\ Internal((A \ DepsIn(D, c)) \cup DepsIn(D, top) \cup DepsIn(D, c \ top), CutIn(C, c, top), D)
<1> DEFINE M == CutIn(C, c, top)
           B == (A \ DepsIn(D, c)) \cup DepsIn(D, top) \cup DepsIn(D, c \ top)
<1>0. \A x : x \in M <=> (x \in C /\ x # c) \/ x = top \/ x = c \ top
  BY DEF CutIn
<1> HIDE DEF M
<1>1. PartitionOf(M, T)
  <2>1. \A x \in M : x \subseteq T /\ x # {}
    <3>1. c \subseteq T /\ c \ top # {}
      BY DEF PartitionOf
    <3>2. \A x \in C : x \subseteq T /\ x # {}
      BY DEF PartitionOf
    <3>3. top \subseteq T /\ c \ top \subseteq T
      BY <3>1
    <3> TAKE x \in M
    <3> QED BY <1>0, <3>1, <3>2, <3>3
  <2>2. \A x \in C : x # c => x \cap c = {}
    BY DEF PartitionOf
  <2>3. \A x, y \in M : x # y => x \cap y = {}
    <3> TAKE x, y \in M
    <3> HAVE x # y
    <3>1. CASE x \in C /\ x # c /\ y \in C /\ y # c
      BY <3>1 DEF PartitionOf
    <3>2. CASE x \in C /\ x # c /\ y \in {top, c \ top}
      BY <2>2, <3>2
    <3>3. CASE y \in C /\ y # c /\ x \in {top, c \ top}
      BY <2>2, <3>3
    <3>4. CASE x \in {top, c \ top} /\ y \in {top, c \ top}
      BY <3>4
    <3> QED BY <1>0, <3>1, <3>2, <3>3, <3>4
  <2>4. \A t \in T : \E x \in M : t \in x
    <3> TAKE t \in T
    <3> PICK x \in C : t \in x
      BY DEF PartitionOf
    <3> QED BY <1>0
  <2> QED BY <2>1, <2>3, <2>4 DEF PartitionOf
<1>2. Internal(B, M, D)
  <2> SUFFICES ASSUME NEW e PROVE e \in B <=> \E x \in M : e \in DepsIn(D, x)
    BY DEF Internal
  <2>1. ASSUME e \in B PROVE \E x \in M : e \in DepsIn(D, x)
    <3>1. CASE e \in A /\ e \notin DepsIn(D, c)
      <4> PICK x \in C : e \in DepsIn(D, x)
        BY <3>1 DEF Internal
      <4> QED BY <1>0, <3>1
    <3>2. CASE e \in DepsIn(D, top) \cup DepsIn(D, c \ top)
      BY <1>0, <3>2
    <3> QED BY <2>1, <3>1, <3>2
  <2>2. ASSUME NEW x \in M, e \in DepsIn(D, x) PROVE e \in B
    <3>1. CASE x \in C /\ x # c
      <4>1. e \in A
        BY <2>2, <3>1 DEF Internal
      <4>2. e \notin DepsIn(D, c)
        BY <2>2, <3>1 DEF DepsIn, PartitionOf
      <4> QED BY <4>1, <4>2
    <3>2. CASE x = top \/ x = c \ top
      BY <2>2, <3>2
    <3> QED BY <1>0, <3>1, <3>2
  <2> QED BY <2>1, <2>2
<1> QED BY <1>1, <1>2 DEF M

(* What has to be done counts sets that shrink. *)
LEMMA MergedCount ==
  ASSUME NEW C, IsFiniteSet(C), NEW c \in C, NEW d, c # d
  PROVE  /\ IsFiniteSet(MergedIn(C, c, d)) /\ Cardinality(MergedIn(C, c, d)) \in Nat /\ Cardinality(C) \in Nat
         /\ Cardinality(MergedIn(C, c, d)) <= Cardinality(C)
         /\ d \in C => Cardinality(MergedIn(C, c, d)) < Cardinality(C)
<1> DEFINE A == C \ {c}
           B == A \ {d}
<1>1. IsFiniteSet(A) /\ Cardinality(A) = Cardinality(C) - 1
  BY FS_RemoveElement
<1>2. IsFiniteSet(B) /\ Cardinality(B) = IF d \in A THEN Cardinality(A) - 1 ELSE Cardinality(A)
  BY <1>1, FS_RemoveElement
<1>3. d \in A <=> d \in C
  OBVIOUS
<1> HIDE DEF A
<1>4. IsFiniteSet(B \cup {c \cup d}) /\ Cardinality(B \cup {c \cup d}) <= Cardinality(B) + 1
  <2>1. Cardinality(B) \in Nat
    BY <1>2, FS_CardinalityType
  <2>2. IsFiniteSet(B \cup {c \cup d}) /\ Cardinality(B \cup {c \cup d}) = IF c \cup d \in B THEN Cardinality(B) ELSE Cardinality(B) + 1
    BY <1>2, FS_AddElement
  <2> QED BY <2>1, <2>2
<1>5. MergedIn(C, c, d) = B \cup {c \cup d}
  BY DEF MergedIn, A
<1> HIDE DEF B
<1>6. Cardinality(C) \in Nat /\ Cardinality(B \cup {c \cup d}) \in Nat
  BY <1>4, FS_CardinalityType
<1> QED BY <1>1, <1>2, <1>3, <1>4, <1>5, <1>6

LEMMA ReplacedCount ==
  ASSUME NEW Q, IsFiniteSet(Q), NEW e \in Q, NEW x, NEW y
  PROVE  LET R == (Q \ {e}) \cup {x, y}
             S == (Q \ {e}) \cup {x}
         IN /\ IsFiniteSet(R) /\ Cardinality(R) \in Nat /\ Cardinality(Q) \in Nat
            /\ Cardinality(R) <= Cardinality(Q) + 1
            /\ IsFiniteSet(S) /\ Cardinality(S) \in Nat /\ Cardinality(S) <= Cardinality(Q)
            /\ IsFiniteSet(Q \ {e}) /\ Cardinality(Q \ {e}) = Cardinality(Q) - 1
<1> DEFINE A == Q \ {e}
           B == A \cup {x}
<1>1. IsFiniteSet(A) /\ Cardinality(A) = Cardinality(Q) - 1
  BY FS_RemoveElement
<1>2. Cardinality(A) \in Nat /\ Cardinality(Q) \in Nat
  BY <1>1, FS_CardinalityType
<1>3. IsFiniteSet(B) /\ Cardinality(B) = IF x \in A THEN Cardinality(A) ELSE Cardinality(A) + 1
  BY <1>1, FS_AddElement
<1>4. IsFiniteSet(B \cup {y}) /\ Cardinality(B \cup {y}) = IF y \in B THEN Cardinality(B) ELSE Cardinality(B) + 1
  BY <1>3, FS_AddElement
<1>5. B \cup {y} = A \cup {x, y}
  OBVIOUS
<1> HIDE DEF A, B
<1>6. Cardinality(B) <= Cardinality(Q) /\ Cardinality(B) \in Nat
  BY <1>1, <1>2, <1>3
<1>7. Cardinality(B \cup {y}) <= Cardinality(Q) + 1 /\ Cardinality(B \cup {y}) \in Nat
  BY <1>2, <1>4, <1>6
<1> QED BY <1>1, <1>2, <1>3, <1>4, <1>5, <1>6, <1>7 DEF A, B

-----------------------------------------------------------------------------
(* The rounds of the search from one end of a dependency that is cut. *)
Remaining(c, d) == (active \cap Forest!Inside(c)) \ {d}
SearchRounds(c, d) ==
  \E f : /\ f[0] = {d[1]} /\ Forest!TopSet(c, d) = f[Cardinality(c)]
         /\ \A i \in 1..Cardinality(c) : f[i] = Forest!LinkedBy(f[i - 1], Remaining(c, d))

LEMMA SameCount == \A S : Forest!Cardinality(S) = Cardinality(S)
  BY DEF Forest!Cardinality, Cardinality

LEMMA TopSetRounds ==
  ASSUME NEW c \in SUBSET Forest!Txs, IsFiniteSet(c), NEW d \in Forest!Inside(c)
  PROVE  SearchRounds(c, d)
<1> DEFINE N == Cardinality(c)
           V == SUBSET Forest!Txs
           on == Remaining(c, d)
           Goes(f) == f = [i \in 0..N |-> IF i = 0 THEN {d[1]} ELSE Forest!LinkedBy(f[i - 1], on)]
           linked == CHOOSE f : Goes(f)
           step == [x \in (1..N) \X V |-> Forest!LinkedBy(x[2], on)]
<1>1. N \in Nat
  BY FS_CardinalityType
<1>2. Forest!TopSet(c, d) = linked[N]
  BY SameCount, Zenon DEF Forest!TopSet, Remaining
<1>3. {d[1]} \in V
  BY DEF Forest!Inside
<1>4. \A S \in V : Forest!LinkedBy(S, on) \in V
  BY DEF Forest!LinkedBy
<1> HIDE DEF V, on, N
<1>5. step \in [(1..N) \X V -> V]
  BY <1>4
<1>6. PICK f \in [0..N -> V] : f[0] = {d[1]} /\ \A i \in 1..N : f[i] = step[<<i, f[i - 1]>>]
  <2>1. Iterates(N, V, {d[1]}, step)
    <3> HIDE DEF step
    <3> QED BY <1>1, <1>3, <1>5, Recursion
  <2> QED BY <2>1 DEF Iterates
<1>7. ASSUME NEW i \in 1..N PROVE f[i] = Forest!LinkedBy(f[i - 1], on)
  <2>1. <<i, f[i - 1]>> \in (1..N) \X V
    BY <1>1
  <2> QED BY <1>6, <2>1
<1> HIDE DEF step
<1>8. Goes(f)
  <2>1. f = [i \in 0..N |-> f[i]]
    OBVIOUS
  <2>2. \A i \in 0..N : f[i] = IF i = 0 THEN {d[1]} ELSE Forest!LinkedBy(f[i - 1], on)
    BY <1>1, <1>6, <1>7
  <2> QED BY <2>1, <2>2
<1>9. Goes(linked)
  BY <1>8
<1> HIDE DEF linked
<1>10. \A i \in 0..N : linked[i] = IF i = 0 THEN {d[1]} ELSE Forest!LinkedBy(linked[i - 1], on)
  BY <1>9
<1>11. linked[0] = {d[1]} /\ \A i \in 1..N : linked[i] = Forest!LinkedBy(linked[i - 1], on)
  <2>1. 0 \in 0..N /\ \A i \in 1..N : i \in 0..N /\ i # 0
    BY <1>1
  <2> QED BY <1>10, <2>1
<1> QED BY <1>2, <1>11 DEF SearchRounds, N, on

(* What is reached stays in the chunk, and no dependency leaves it: a round
   that reaches nothing new is the last one that matters. *)
LEMMA TopSets ==
  ASSUME NEW c \in SUBSET Forest!Txs, IsFiniteSet(c), NEW d \in Forest!Inside(c)
  PROVE  /\ d[1] \in Forest!TopSet(c, d) /\ Forest!TopSet(c, d) \subseteq c
         /\ \A e \in Remaining(c, d) : e[1] \in Forest!TopSet(c, d) <=> e[2] \in Forest!TopSet(c, d)
<1> DEFINE N == Cardinality(c)
           on == Remaining(c, d)
           T == Forest!TopSet(c, d)
<1>1. N \in Nat
  BY FS_CardinalityType
<1>2. PICK f : f[0] = {d[1]} /\ T = f[N] /\ \A i \in 1..N : f[i] = Forest!LinkedBy(f[i - 1], on)
  BY TopSetRounds DEF SearchRounds
<1>3. d[1] \in c /\ \A e \in on : e[1] \in c /\ e[2] \in c /\ e = <<e[1], e[2]>>
  BY DEF Remaining, Forest!Inside, Forest!Deps
<1> HIDE DEF on, T, N
<1> DEFINE Closed(S) == \A e \in on : e[1] \in S <=> e[2] \in S
           Good(i) == /\ d[1] \in f[i] /\ f[i] \subseteq c
                      /\ Closed(f[i]) \/ i < Cardinality(f[i])
           I == {i \in 0..N : Good(i)}
<1>4. 0 \in I
  <2>1. Cardinality(f[0]) = 1
    BY <1>2, FS_Singleton
  <2>2. d[1] \in f[0] /\ f[0] \subseteq c /\ 0 \in 0..N
    BY <1>1, <1>2, <1>3
  <2>3. Good(0)
    BY <2>1, <2>2
  <2> QED BY <2>2, <2>3
<1>5. ASSUME NEW i \in 0..(N - 1), i \in I PROVE i + 1 \in I
  <2>1. i + 1 \in 1..N /\ (i + 1) - 1 = i /\ i + 1 \in 0..N /\ i \in Nat
    BY <1>1
  <2>2. f[i + 1] = f[i] \cup {t \in Forest!Txs : \E u \in f[i] : <<t, u>> \in on \/ <<u, t>> \in on}
    BY <1>2, <2>1 DEF Forest!LinkedBy
  <2>3. d[1] \in f[i + 1] /\ f[i + 1] \subseteq c /\ f[i] \subseteq f[i + 1]
    <3>1. \A t, u : <<t, u>> \in on \/ <<u, t>> \in on => t \in c
      <4> SUFFICES ASSUME NEW t, NEW u, <<t, u>> \in on \/ <<u, t>> \in on PROVE t \in c
        OBVIOUS
      <4>1. CASE <<t, u>> \in on
        BY <1>3, <4>1
      <4>2. CASE <<u, t>> \in on
        BY <1>3, <4>2
      <4> QED BY <4>1, <4>2
    <3>2. f[i + 1] \subseteq c
      BY <1>5, <2>2, <3>1
    <3> QED BY <1>5, <2>2, <3>2
  <2>4. CASE f[i + 1] = f[i]
    <3>1. ASSUME NEW e \in on PROVE e[1] \in f[i] <=> e[2] \in f[i]
      <4>1. e[1] \in Forest!Txs /\ e[2] \in Forest!Txs /\ <<e[1], e[2]>> \in on
        BY <1>3
      <4> QED BY <2>2, <2>4, <4>1
    <3> QED BY <2>1, <2>3, <2>4, <3>1
  <2>5. CASE f[i + 1] # f[i] /\ Closed(f[i])
    <3>1. \A t, u : u \in f[i] /\ (<<t, u>> \in on \/ <<u, t>> \in on) => t \in f[i]
      <4> SUFFICES ASSUME NEW t, NEW u \in f[i], <<t, u>> \in on \/ <<u, t>> \in on PROVE t \in f[i]
        OBVIOUS
      <4>1. CASE <<t, u>> \in on
        BY <2>5, <4>1
      <4>2. CASE <<u, t>> \in on
        BY <2>5, <4>2
      <4> QED BY <4>1, <4>2
    <3>2. f[i + 1] \subseteq f[i]
      BY <2>2, <3>1
    <3> QED BY <2>3, <2>5, <3>2
  <2>6. CASE f[i + 1] # f[i] /\ i < Cardinality(f[i])
    <3>1. IsFiniteSet(f[i + 1])
      BY <2>3, FS_Subset
    <3>2. Cardinality(f[i]) <= Cardinality(f[i + 1]) /\ Cardinality(f[i]) # Cardinality(f[i + 1])
      BY <2>3, <2>6, <3>1, FS_Subset
    <3>3. IsFiniteSet(f[i])
      BY <2>3, <3>1, FS_Subset
    <3>4. Cardinality(f[i]) \in Nat /\ Cardinality(f[i + 1]) \in Nat
      BY <3>1, <3>3, FS_CardinalityType
    <3>5. i + 1 < Cardinality(f[i + 1])
      BY <2>1, <2>6, <3>2, <3>4
    <3> QED BY <2>1, <2>3, <3>5
  <2> QED BY <1>5, <2>4, <2>5, <2>6
<1>6. \A i \in 0..N : i \in I
  <2> HIDE DEF I
  <2> QED BY <1>1, <1>4, <1>5, UpTo
<1>7. Good(N)
  BY <1>1, <1>6
<1>8. ~(N < Cardinality(f[N]))
  <2>1. Cardinality(f[N]) <= Cardinality(c) /\ IsFiniteSet(f[N])
    BY <1>7, FS_Subset
  <2>2. Cardinality(f[N]) \in Nat
    BY <2>1, FS_CardinalityType
  <2> QED BY <1>1, <2>1, <2>2 DEF N
<1> QED BY <1>2, <1>7, <1>8 DEF T, on

-----------------------------------------------------------------------------
(* The chunks part the transactions, the active dependencies are those inside
   them, and what waits in the queue of a phase is about them. *)
ForestInv ==
  /\ g \in Clusters /\ toLoad \in Seq(Forest!Txs)
  /\ phase \in {"load", "topological", "optimize", "minimize", "done"}
  /\ PartitionOf(chunks, Forest!Txs)
  /\ Internal(active, chunks, Forest!Deps)
  /\ IsFiniteSet(pending)
  /\ phase \in {"topological", "optimize"} => pending \subseteq chunks
  /\ phase = "minimize" => /\ \A e \in pending : e.chunk \in chunks
                           /\ \A e, f \in pending : e.chunk = f.chunk => e = f

LEMMA FiniteChunks ==
  ASSUME ForestInv
  PROVE  /\ IsFiniteSet(Forest!Txs) /\ IsFiniteSet(chunks) /\ IsFiniteSet(active)
         /\ \A c \in chunks : c \in SUBSET Forest!Txs /\ IsFiniteSet(c)
         /\ Cardinality(chunks) \in Nat /\ Cardinality(active) \in Nat /\ Cardinality(pending) \in Nat
<1>1. IsFiniteSet(Forest!Txs)
  BY ForestAssumption DEF ForestInv, Forest!Txs
<1>2. chunks \in SUBSET (SUBSET Forest!Txs) /\ \A c \in chunks : c \in SUBSET Forest!Txs
  BY DEF ForestInv, PartitionOf
<1>3. IsFiniteSet(chunks)
  BY <1>1, <1>2, FS_SUBSET, FS_Subset
<1>4. \A c \in chunks : IsFiniteSet(c)
  BY <1>1, <1>2, FS_Subset
<1>5. active \in SUBSET (Forest!Txs \X Forest!Txs)
  BY DEF ForestInv, Internal, DepsIn, Forest!Deps
<1>6. IsFiniteSet(active)
  BY <1>1, <1>5, FS_Product, FS_Subset
<1> QED BY <1>1, <1>2, <1>3, <1>4, <1>6, FS_CardinalityType DEF ForestInv

LEMMA SameGraph == g' = g => Forest!Txs' = Forest!Txs /\ Forest!Deps' = Forest!Deps
  BY DEF Forest!Txs, Forest!Deps

LEMMA InsideIsDepsIn == \A S : Forest!Inside(S) = DepsIn(Forest!Deps, S)
  BY DEF Forest!Inside, DepsIn

LEMMA ChunksMerged ==
  ASSUME ForestInv, NEW c \in chunks, NEW d \in chunks, c # d, Forest!Merge(c, d), g' = g
  PROVE  /\ PartitionOf(chunks', Forest!Txs') /\ Internal(active', chunks', Forest!Deps')
         /\ chunks' = MergedIn(chunks, c, d)
         /\ Cardinality(chunks') \in Nat /\ Cardinality(chunks') < Cardinality(chunks)
<1>1. chunks' = MergedIn(chunks, c, d) /\ active' = active \cup DepsIn(Forest!Deps, c \cup d)
  BY InsideIsDepsIn DEF Forest!Merge, MergedIn
<1>2. PartitionOf(chunks, Forest!Txs) /\ Internal(active, chunks, Forest!Deps)
  BY DEF ForestInv
<1>3. /\ PartitionOf(MergedIn(chunks, c, d), Forest!Txs)
      /\ Internal(active \cup DepsIn(Forest!Deps, c \cup d), MergedIn(chunks, c, d), Forest!Deps)
  BY <1>2, MergedParts
<1>4. /\ Cardinality(MergedIn(chunks, c, d)) \in Nat
      /\ Cardinality(MergedIn(chunks, c, d)) < Cardinality(chunks)
  BY FiniteChunks, MergedCount
<1>5. Forest!Txs' = Forest!Txs /\ Forest!Deps' = Forest!Deps
  BY SameGraph
<1> QED BY <1>1, <1>3, <1>4, <1>5

(* A dependency that can be cut is never mended at once: the sides have no
   other dependency between them. *)
LEMMA ChunksCut ==
  ASSUME ForestInv, NEW c \in chunks, NEW d \in Forest!Cuts(c), Forest!Split(c, d), g' = g
  PROVE  LET top == Forest!TopSet(c, d)
         IN /\ Forest!Top(c, d) = top /\ Forest!Bottom(c, d) = c \ top
            /\ top \in SUBSET c /\ top # {} /\ top # c
            /\ chunks' = CutIn(chunks, c, top)
            /\ PartitionOf(chunks', Forest!Txs') /\ Internal(active', chunks', Forest!Deps')
            /\ Cardinality(active') \in Nat /\ Cardinality(active') < Cardinality(active)
<1> DEFINE top == Forest!TopSet(c, d)
           D == Forest!Deps
<1>1. c \in SUBSET Forest!Txs /\ IsFiniteSet(c) /\ IsFiniteSet(active) /\ Cardinality(active) \in Nat
  BY FiniteChunks
<1>2. d \in active /\ d \in Forest!Inside(c) /\ d \in DepsIn(D, c) /\ d[2] \notin top /\ d[2] \in c
  BY InsideIsDepsIn DEF Forest!Cuts, DepsIn
<1>3. /\ d[1] \in top /\ top \subseteq c
      /\ \A e \in Remaining(c, d) : e[1] \in top <=> e[2] \in top
  BY <1>1, <1>2, TopSets
<1> HIDE DEF top
<1>4. ~Forest!Rejoins(c, d)
  <2> SUFFICES ASSUME NEW e \in Forest!Inside(c) \ {d}, e[1] \in c \ top, e[2] \in top PROVE FALSE
    BY DEF Forest!Rejoins, top
  <2>1. e \in active
    BY InsideIsDepsIn DEF ForestInv, Internal
  <2>2. e \in Remaining(c, d)
    BY <2>1 DEF Remaining
  <2> QED BY <1>3, <2>2
<1>5. Forest!Top(c, d) = top /\ Forest!Bottom(c, d) = c \ top
  BY <1>4 DEF Forest!Top, Forest!Bottom, top
<1>6. top # {} /\ top # c
  BY <1>2, <1>3
<1>7. chunks' = CutIn(chunks, c, top)
  <2>1. {top, c \ top} \ {{}} = {top, c \ top}
    BY <1>3, <1>6
  <2> QED BY <1>5, <2>1 DEF Forest!Split, CutIn
<1>8. active' = (active \ DepsIn(D, c)) \cup DepsIn(D, top) \cup DepsIn(D, c \ top)
  BY <1>5, InsideIsDepsIn DEF Forest!Split
<1>9. PartitionOf(chunks, Forest!Txs) /\ Internal(active, chunks, D)
  BY DEF ForestInv
<1>a. Forest!Txs' = Forest!Txs /\ Forest!Deps' = Forest!Deps
  BY SameGraph
<1> HIDE DEF D
<1>10. /\ PartitionOf(CutIn(chunks, c, top), Forest!Txs)
       /\ Internal((active \ DepsIn(D, c)) \cup DepsIn(D, top) \cup DepsIn(D, c \ top), CutIn(chunks, c, top), D)
  BY <1>3, <1>6, <1>9, CutParts
<1>11. Cardinality(active') \in Nat /\ Cardinality(active') < Cardinality(active)
  <2>1. \A e : e \in DepsIn(D, top) \/ e \in DepsIn(D, c \ top) => e \in active /\ e # d
    <3> TAKE e
    <3> HAVE e \in DepsIn(D, top) \/ e \in DepsIn(D, c \ top)
    <3>1. e \in DepsIn(D, c)
      BY <1>3 DEF DepsIn
    <3>2. e \in active
      BY <1>9, <3>1 DEF Internal
    <3>3. e # d
      BY <1>2, <1>3 DEF DepsIn
    <3> QED BY <3>2, <3>3
  <2>2. active' \in SUBSET (active \ {d})
    BY <1>2, <1>8, <2>1
  <2>3. IsFiniteSet(active \ {d}) /\ Cardinality(active \ {d}) = Cardinality(active) - 1
    BY <1>1, <1>2, FS_RemoveElement
  <2>4. IsFiniteSet(active') /\ Cardinality(active') <= Cardinality(active \ {d})
    BY <2>2, <2>3, FS_Subset
  <2>5. Cardinality(active') \in Nat
    BY <2>4, FS_CardinalityType
  <2> QED BY <1>1, <2>3, <2>4, <2>5
<1> QED BY <1>3, <1>5, <1>6, <1>7, <1>8, <1>10, <1>11, <1>a DEF top, D

LEMMA CandidatesAreChunks == \A c, dir : \A d \in Forest!Candidates(c, dir) : d \in chunks /\ d # c
  BY DEF Forest!Candidates

-----------------------------------------------------------------------------
(* One lemma per step of the search: it keeps the invariant, and it enters a
   later phase or leaves less to do in its own. *)
LEMMA LoadHintKeeps == ForestInv /\ Forest!LoadHint => ForestInv' /\ Forest!Advances
<1> SUFFICES ASSUME ForestInv, Forest!LoadHint PROVE ForestInv' /\ Forest!Advances
  OBVIOUS
<1> DEFINE c == Forest!ChunkOf(Head(toLoad))
<1>1. /\ phase = "load" /\ phase' = phase /\ g' = g /\ pending' = pending /\ toLoad # <<>>
      /\ \/ /\ \E d \in Forest!Candidates(c, "up") : Forest!Merge(c, d)
            /\ toLoad' = toLoad
         \/ toLoad' = Tail(toLoad) /\ UNCHANGED <<chunks, active>>
  BY DEF Forest!LoadHint
<1>2. /\ Cardinality(chunks) \in Nat /\ toLoad \in Seq(Forest!Txs) /\ Len(toLoad) \in Nat
      /\ toLoad' \in Seq(Forest!Txs) /\ Forest!Txs' = Forest!Txs /\ Forest!Deps' = Forest!Deps
  <2>1. toLoad \in Seq(Forest!Txs) /\ Forest!Txs' = Forest!Txs /\ Forest!Deps' = Forest!Deps
    BY <1>1, SameGraph DEF ForestInv
  <2>2. toLoad' \in Seq(Forest!Txs)
    BY <1>1, <2>1, SMTT(30)
  <2> QED BY <2>1, <2>2, FiniteChunks
<1>3. c \in chunks
  <2>1. Head(toLoad) \in Forest!Txs
    BY <1>1, <1>2
  <2>2. \E x \in chunks : Head(toLoad) \in x
    BY <2>1 DEF ForestInv, PartitionOf
  <2> QED BY <2>2 DEF Forest!ChunkOf
<1> HIDE DEF c
<1>4. CASE \E d \in Forest!Candidates(c, "up") : Forest!Merge(c, d) /\ toLoad' = toLoad
  <2>1. PICK d \in Forest!Candidates(c, "up") : Forest!Merge(c, d)
    BY <1>4
  <2>2. d \in chunks /\ c # d
    BY CandidatesAreChunks
  <2>3. /\ PartitionOf(chunks', Forest!Txs') /\ Internal(active', chunks', Forest!Deps')
        /\ Cardinality(chunks') \in Nat /\ Cardinality(chunks') < Cardinality(chunks)
    BY <1>1, <1>3, <2>1, <2>2, ChunksMerged
  <2>4. ForestInv'
    BY <1>1, <1>2, <2>3 DEF ForestInv
  <2>5. Forest!Left = Cardinality(chunks) + Len(toLoad) /\ Forest!Left' = Cardinality(chunks') + Len(toLoad)
    BY <1>1, <1>4, SameCount DEF Forest!Left
  <2>6. Forest!Left' \in 0..(Forest!Left - 1)
    BY <1>2, <2>3, <2>5
  <2> QED BY <1>1, <2>4, <2>6 DEF Forest!Advances
<1>5. CASE toLoad' = Tail(toLoad) /\ UNCHANGED <<chunks, active>>
  <2>1. ForestInv'
    BY <1>1, <1>2, <1>5 DEF ForestInv
  <2>2. Forest!Left = Cardinality(chunks) + Len(toLoad) /\ Forest!Left' = Cardinality(chunks) + Len(toLoad')
    BY <1>1, <1>5, SameCount DEF Forest!Left
  <2>3. Len(toLoad') = Len(toLoad) - 1 /\ Len(toLoad) > 0
    BY <1>1, <1>2, <1>5
  <2>4. Forest!Left' \in 0..(Forest!Left - 1)
    BY <1>2, <2>2, <2>3
  <2> QED BY <1>1, <2>1, <2>4 DEF Forest!Advances
<1> QED BY <1>1, <1>4, <1>5

LEMMA TopologicalKeeps == ForestInv /\ Forest!TopologicalStep => ForestInv' /\ Forest!Advances
<1> SUFFICES ASSUME ForestInv, Forest!TopologicalStep PROVE ForestInv' /\ Forest!Advances
  OBVIOUS
<1>1. PICK c \in pending :
        LET dirs == {dir \in Forest!LooksAt(c) : Forest!Candidates(c, dir) # {}}
        IN IF dirs # {}
           THEN \E dir \in dirs : \E d \in Forest!Candidates(c, dir) :
                  /\ Forest!Merge(c, d)
                  /\ pending' = (pending \ {c, d}) \cup {c \cup d}
                  /\ merged' = (merged \ {c, d}) \cup {c \cup d}
           ELSE /\ pending' = pending \ {c}
                /\ UNCHANGED <<chunks, active, merged>>
  BY DEF Forest!TopologicalStep
<1>2. phase = "topological" /\ phase' = phase /\ g' = g /\ toLoad' = toLoad
  BY DEF Forest!TopologicalStep
<1>3. c \in chunks /\ pending \subseteq chunks /\ IsFiniteSet(pending)
  BY <1>2 DEF ForestInv
<1>4. /\ Cardinality(chunks) \in Nat /\ Cardinality(pending) \in Nat
      /\ Forest!Txs' = Forest!Txs /\ Forest!Deps' = Forest!Deps
  BY <1>2, FiniteChunks, SameGraph
<1>5. /\ Forest!Left = Cardinality(chunks) + Cardinality(pending)
      /\ Forest!Left' = Cardinality(chunks') + Cardinality(pending')
  BY <1>2, SameCount DEF Forest!Left
<1>6. CASE \E dir : \E d \in Forest!Candidates(c, dir) :
             Forest!Merge(c, d) /\ pending' = (pending \ {c, d}) \cup {c \cup d}
  <2>1. PICK d \in chunks : c # d /\ Forest!Merge(c, d) /\ pending' = MergedIn(pending, c, d)
    BY <1>6, CandidatesAreChunks DEF MergedIn
  <2>2. /\ PartitionOf(chunks', Forest!Txs') /\ Internal(active', chunks', Forest!Deps')
        /\ Cardinality(chunks') \in Nat /\ Cardinality(chunks') < Cardinality(chunks)
        /\ chunks' = MergedIn(chunks, c, d)
    BY <1>2, <1>3, <2>1, ChunksMerged
  <2>3. pending' \subseteq chunks'
    BY <1>3, <2>1, <2>2 DEF MergedIn
  <2>4. /\ IsFiniteSet(pending') /\ Cardinality(pending') \in Nat
        /\ Cardinality(pending') <= Cardinality(pending)
    BY <1>3, <2>1, MergedCount
  <2>5. ForestInv'
    BY <1>2, <1>4, <2>2, <2>3, <2>4 DEF ForestInv
  <2>6. Forest!Left' \in 0..(Forest!Left - 1)
    BY <1>4, <1>5, <2>2, <2>4
  <2> QED BY <1>2, <2>5, <2>6 DEF Forest!Advances
<1>7. CASE pending' = pending \ {c} /\ UNCHANGED <<chunks, active, merged>>
  <2>1. IsFiniteSet(pending') /\ Cardinality(pending') = Cardinality(pending) - 1
    BY <1>3, <1>7, FS_RemoveElement
  <2>2. Cardinality(pending') \in Nat
    BY <2>1, FS_CardinalityType
  <2>3. ForestInv'
    BY <1>2, <1>3, <1>4, <1>7, <2>1 DEF ForestInv
  <2>4. Forest!Left' \in 0..(Forest!Left - 1)
    BY <1>4, <1>5, <1>7, <2>1, <2>2
  <2> QED BY <1>2, <2>3, <2>4 DEF Forest!Advances
<1> QED BY <1>1, <1>6, <1>7

LEMMA OptimizeKeeps == ForestInv /\ Forest!OptimizeStep => ForestInv' /\ Forest!Advances
<1> SUFFICES ASSUME ForestInv, Forest!OptimizeStep PROVE ForestInv' /\ Forest!Advances
  OBVIOUS
<1>1. PICK c \in pending :
        LET better == {d \in Forest!Cuts(c) : Forest!HigherFeerate(g, Forest!TopSet(c, d), c)}
        IN IF better # {}
           THEN \E d \in better :
                  /\ Forest!Split(c, d)
                  /\ pending' = (pending \ {c}) \cup ({Forest!Top(c, d), Forest!Bottom(c, d)} \ {{}})
           ELSE /\ pending' = pending \ {c}
                /\ UNCHANGED <<chunks, active>>
  BY DEF Forest!OptimizeStep
<1>2. phase = "optimize" /\ phase' = phase /\ g' = g /\ toLoad' = toLoad
  BY DEF Forest!OptimizeStep
<1>3. c \in chunks /\ pending \subseteq chunks /\ IsFiniteSet(pending)
  BY <1>2 DEF ForestInv
<1>4. /\ Cardinality(active) \in Nat /\ Cardinality(pending) \in Nat
      /\ Forest!Txs' = Forest!Txs /\ Forest!Deps' = Forest!Deps
  BY <1>2, FiniteChunks, SameGraph
<1>5. /\ Forest!Left = 2 * Cardinality(active) + Cardinality(pending)
      /\ Forest!Left' = 2 * Cardinality(active') + Cardinality(pending')
  BY <1>2, SameCount DEF Forest!Left
<1>6. CASE \E d \in Forest!Cuts(c) :
             /\ Forest!Split(c, d)
             /\ pending' = (pending \ {c}) \cup ({Forest!Top(c, d), Forest!Bottom(c, d)} \ {{}})
  <2>1. PICK d \in Forest!Cuts(c) :
             /\ Forest!Split(c, d)
             /\ pending' = (pending \ {c}) \cup ({Forest!Top(c, d), Forest!Bottom(c, d)} \ {{}})
    BY <1>6
  <2> DEFINE top == Forest!TopSet(c, d)
  <2>2. /\ Forest!Top(c, d) = top /\ Forest!Bottom(c, d) = c \ top
        /\ top \in SUBSET c /\ top # {} /\ top # c
        /\ chunks' = CutIn(chunks, c, top)
        /\ PartitionOf(chunks', Forest!Txs') /\ Internal(active', chunks', Forest!Deps')
        /\ Cardinality(active') \in Nat /\ Cardinality(active') < Cardinality(active)
    BY <1>2, <1>3, <2>1, ChunksCut
  <2> HIDE DEF top
  <2>3. pending' = (pending \ {c}) \cup {top, c \ top}
    BY <2>1, <2>2
  <2>4. pending' \subseteq chunks'
    BY <1>3, <2>2, <2>3 DEF CutIn
  <2>5. /\ IsFiniteSet(pending') /\ Cardinality(pending') \in Nat
        /\ Cardinality(pending') <= Cardinality(pending) + 1
    BY <1>3, <2>3, ReplacedCount
  <2>6. ForestInv'
    BY <1>2, <1>4, <2>2, <2>4, <2>5 DEF ForestInv
  <2>7. Forest!Left' \in 0..(Forest!Left - 1)
    BY <1>4, <1>5, <2>2, <2>5
  <2> QED BY <1>2, <2>6, <2>7 DEF Forest!Advances
<1>7. CASE pending' = pending \ {c} /\ UNCHANGED <<chunks, active>>
  <2>1. IsFiniteSet(pending') /\ Cardinality(pending') = Cardinality(pending) - 1
    BY <1>3, <1>7, FS_RemoveElement
  <2>2. Cardinality(pending') \in Nat
    BY <2>1, FS_CardinalityType
  <2>3. ForestInv'
    BY <1>2, <1>3, <1>4, <1>7, <2>1 DEF ForestInv
  <2>4. Forest!Left' \in 0..(Forest!Left - 1)
    BY <1>4, <1>5, <1>7, <2>1, <2>2
  <2> QED BY <1>2, <2>3, <2>4 DEF Forest!Advances
<1> QED BY <1>1, <1>6, <1>7

(* The entries of minimizeSFL whose other direction has not been tried. *)
Untried(q) == {e \in q : ~e.second}

LEMMA UntriedCount ==
  ASSUME NEW q, IsFiniteSet(q), NEW e \in q
  PROVE  /\ IsFiniteSet(Untried(q)) /\ Cardinality(Untried(q)) \in Nat
         /\ Cardinality(Untried(q \ {e})) \in Nat /\ Cardinality(Untried(q \ {e})) <= Cardinality(Untried(q))
         /\ \A x : ~e.second /\ x.second =>
              /\ Cardinality(Untried((q \ {e}) \cup {x})) \in Nat
              /\ Cardinality(Untried((q \ {e}) \cup {x})) < Cardinality(Untried(q))
         /\ \A x, y : (x.second <=> e.second) =>
              /\ Cardinality(Untried((q \ {e}) \cup {x, y})) \in Nat
              /\ Cardinality(Untried((q \ {e}) \cup {x, y})) <= Cardinality(Untried(q)) + 1
<1> DEFINE U == Untried(q)
<1>1. IsFiniteSet(U) /\ Cardinality(U) \in Nat
  <2>1. U \in SUBSET q
    BY DEF Untried
  <2> QED BY <2>1, FS_Subset, FS_CardinalityType
<1>2. Untried(q \ {e}) = U \ {e}
  BY DEF Untried
<1>3. IsFiniteSet(U \ {e}) /\ Cardinality(U \ {e}) \in Nat /\ Cardinality(U \ {e}) <= Cardinality(U)
  <2>1. U \ {e} \in SUBSET U
    OBVIOUS
  <2> HIDE DEF U
  <2> QED BY <1>1, <2>1, FS_Subset, FS_CardinalityType
<1>4. ASSUME NEW x, ~e.second, x.second
      PROVE  /\ Cardinality(Untried((q \ {e}) \cup {x})) \in Nat
             /\ Cardinality(Untried((q \ {e}) \cup {x})) < Cardinality(U)
  <2>1. Untried((q \ {e}) \cup {x}) = U \ {e} /\ e \in U
    BY <1>4 DEF Untried
  <2> HIDE DEF U
  <2>2. Cardinality(U \ {e}) = Cardinality(U) - 1
    BY <1>1, <2>1, FS_RemoveElement
  <2> QED BY <1>1, <1>3, <2>1, <2>2
<1>5. ASSUME NEW x, NEW y, x.second <=> e.second
      PROVE  /\ Cardinality(Untried((q \ {e}) \cup {x, y})) \in Nat
             /\ Cardinality(Untried((q \ {e}) \cup {x, y})) <= Cardinality(U) + 1
  <2> DEFINE R == Untried((q \ {e}) \cup {x, y})
  <2>1. CASE e.second
    <3>1. R \in SUBSET (U \cup {y})
      BY <1>5, <2>1 DEF Untried
    <3> HIDE DEF U, R
    <3>2. IsFiniteSet(U \cup {y}) /\ Cardinality(U \cup {y}) <= Cardinality(U) + 1
      <4>1. /\ IsFiniteSet(U \cup {y})
            /\ Cardinality(U \cup {y}) = IF y \in U THEN Cardinality(U) ELSE Cardinality(U) + 1
        BY <1>1, FS_AddElement
      <4> QED BY <1>1, <1>3, <4>1
    <3>3. IsFiniteSet(R) /\ Cardinality(R) <= Cardinality(U \cup {y})
      BY <3>1, <3>2, FS_Subset
    <3>4. Cardinality(R) \in Nat /\ Cardinality(U \cup {y}) \in Nat
      BY <3>2, <3>3, FS_CardinalityType
    <3> QED BY <1>1, <3>2, <3>3, <3>4 DEF R
  <2>2. CASE ~e.second
    <3>1. R \in SUBSET ((U \ {e}) \cup {x, y}) /\ e \in U
      BY <2>2 DEF Untried
    <3> HIDE DEF U, R
    <3>2. /\ IsFiniteSet((U \ {e}) \cup {x, y})
          /\ Cardinality((U \ {e}) \cup {x, y}) <= Cardinality(U) + 1
      BY <1>1, <3>1, ReplacedCount
    <3>3. IsFiniteSet(R) /\ Cardinality(R) <= Cardinality((U \ {e}) \cup {x, y})
      BY <3>1, <3>2, FS_Subset
    <3>4. Cardinality(R) \in Nat /\ Cardinality((U \ {e}) \cup {x, y}) \in Nat
      BY <3>2, <3>3, FS_CardinalityType
    <3> QED BY <1>1, <3>2, <3>3, <3>4 DEF R
  <2> QED BY <2>1, <2>2
<1> QED BY <1>1, <1>2, <1>3, <1>4, <1>5

MinimizesBy(e, pivot, down) ==
  LET c == e.chunk
      even == {d \in Forest!Cuts(c) : Forest!SameFeerate(g, Forest!TopSet(c, d), c)}
      wanted == {d \in even : down = (pivot \notin Forest!TopSet(c, d))}
      again(S) == Forest!Entry(S, {pivot}, {down}, e.second)
  IN IF wanted # {}
     THEN \E d \in wanted :
            /\ Forest!Split(c, d)
            /\ pending' = (pending \ {e}) \cup
                 IF down THEN {again(Forest!Bottom(c, d))} \cup {Forest!Fresh(S) : S \in {Forest!Top(c, d)} \ {{}}}
                         ELSE {Forest!Fresh(Forest!Bottom(c, d))} \cup {again(S) : S \in {Forest!Top(c, d)} \ {{}}}
     ELSE /\ pending' = (pending \ {e}) \cup
               IF even # {} THEN Forest!Retry(e, pivot, down) ELSE {}
          /\ UNCHANGED <<chunks, active>>

LEMMA MinimizeKeeps == ForestInv /\ Forest!MinimizeStep => ForestInv' /\ Forest!Advances
<1> SUFFICES ASSUME ForestInv, Forest!MinimizeStep PROVE ForestInv' /\ Forest!Advances
  OBVIOUS
<1>1. PICK e \in pending : \E pivot \in e.pivots : \E down \in e.downs : MinimizesBy(e, pivot, down)
  BY DEF Forest!MinimizeStep, MinimizesBy
<1>2. PICK pivot \in e.pivots : \E down \in e.downs : MinimizesBy(e, pivot, down)
  BY <1>1
<1>3. PICK down \in e.downs : MinimizesBy(e, pivot, down)
  BY <1>2
<1> DEFINE c == e.chunk
           again(S) == Forest!Entry(S, {pivot}, {down}, e.second)
<1>4. phase = "minimize" /\ phase' = phase /\ g' = g /\ toLoad' = toLoad
  BY DEF Forest!MinimizeStep
<1>5. /\ c \in chunks /\ IsFiniteSet(pending)
      /\ \A f \in pending : f.chunk \in chunks /\ (f.chunk = c => f = e)
  BY <1>4 DEF ForestInv
<1>6. /\ Cardinality(active) \in Nat /\ Cardinality(pending) \in Nat /\ Cardinality(Untried(pending)) \in Nat
      /\ Forest!Txs' = Forest!Txs /\ Forest!Deps' = Forest!Deps
  BY <1>4, <1>5, FiniteChunks, SameGraph, UntriedCount
<1>7. /\ Forest!Left = 3 * Cardinality(active) + Cardinality(pending) + Cardinality(Untried(pending))
      /\ Forest!Left' = 3 * Cardinality(active') + Cardinality(pending') + Cardinality(Untried(pending'))
  BY <1>4, SameCount DEF Forest!Left, Untried
<1>8. ASSUME NEW d \in Forest!Cuts(c), NEW x, NEW y, NEW S, NEW T,
             Forest!Split(c, d), pending' = (pending \ {e}) \cup {x, y},
             x.second <=> e.second, x.chunk = S, y.chunk = T,
             \/ S = Forest!Top(c, d) /\ T = Forest!Bottom(c, d)
             \/ T = Forest!Top(c, d) /\ S = Forest!Bottom(c, d)
      PROVE  ForestInv' /\ Forest!Advances
  <2> DEFINE top == Forest!TopSet(c, d)
  <2>1. /\ Forest!Top(c, d) = top /\ Forest!Bottom(c, d) = c \ top
        /\ top \in SUBSET c /\ top # {} /\ top # c
        /\ chunks' = CutIn(chunks, c, top)
        /\ PartitionOf(chunks', Forest!Txs') /\ Internal(active', chunks', Forest!Deps')
        /\ Cardinality(active') \in Nat /\ Cardinality(active') < Cardinality(active)
    BY <1>4, <1>5, <1>8, ChunksCut
  <2> HIDE DEF top, c
  <2>2. \A f \in pending : f # e => f.chunk \in chunks' /\ f.chunk # S /\ f.chunk # T
    <3> TAKE f \in pending
    <3> HAVE f # e
    <3>1. f.chunk \in chunks /\ f.chunk # c
      BY <1>5
    <3>2. f.chunk \cap c = {} /\ f.chunk # {}
      BY <1>5, <3>1 DEF ForestInv, PartitionOf
    <3> QED BY <1>8, <2>1, <3>1, <3>2 DEF CutIn
  <2>3. S \in chunks' /\ T \in chunks' /\ S # T
    BY <1>8, <2>1 DEF CutIn
  <2>4. \A f \in pending' : f.chunk \in chunks'
    BY <1>8, <2>2, <2>3
  <2>5. \A f, h \in pending' : f.chunk = h.chunk => f = h
    <3> TAKE f, h \in pending'
    <3> HAVE f.chunk = h.chunk
    <3>1. (f \in pending /\ f # e) \/ f = x \/ f = y
      BY <1>8
    <3>2. (h \in pending /\ h # e) \/ h = x \/ h = y
      BY <1>8
    <3>3. CASE f \in pending /\ f # e /\ h \in pending /\ h # e
      BY <1>4, <3>3 DEF ForestInv
    <3> QED BY <1>8, <2>2, <2>3, <3>1, <3>2, <3>3
  <2>6. /\ IsFiniteSet(pending') /\ Cardinality(pending') \in Nat
        /\ Cardinality(pending') <= Cardinality(pending) + 1
    BY <1>5, <1>8, ReplacedCount
  <2>7. /\ Cardinality(Untried(pending')) \in Nat
        /\ Cardinality(Untried(pending')) <= Cardinality(Untried(pending)) + 1
    BY <1>5, <1>8, UntriedCount
  <2>8. ForestInv'
    BY <1>4, <1>6, <2>1, <2>4, <2>5, <2>6 DEF ForestInv
  <2>9. Forest!Left' \in 0..(Forest!Left - 1)
    BY <1>6, <1>7, <2>1, <2>6, <2>7
  <2> QED BY <1>4, <2>8, <2>9 DEF Forest!Advances
<1>9. ASSUME NEW x, ~e.second, x.second, x.chunk = c, pending' = (pending \ {e}) \cup {x}, UNCHANGED <<chunks, active>>
      PROVE  ForestInv' /\ Forest!Advances
  <2> HIDE DEF c
  <2>1. IsFiniteSet(pending') /\ Cardinality(pending') \in Nat /\ Cardinality(pending') <= Cardinality(pending)
    BY <1>5, <1>9, ReplacedCount
  <2>2. /\ Cardinality(Untried(pending')) \in Nat
        /\ Cardinality(Untried(pending')) < Cardinality(Untried(pending))
    BY <1>5, <1>9, UntriedCount
  <2>3. ForestInv'
    <3>1. \A f \in pending' : f.chunk \in chunks'
      BY <1>5, <1>9
    <3>2. \A f, h \in pending' : f.chunk = h.chunk => f = h
      BY <1>4, <1>5, <1>9 DEF ForestInv
    <3> QED BY <1>4, <1>6, <1>9, <2>1, <3>1, <3>2 DEF ForestInv
  <2>4. Forest!Left' \in 0..(Forest!Left - 1)
    BY <1>6, <1>7, <1>9, <2>1, <2>2
  <2> QED BY <1>4, <2>3, <2>4 DEF Forest!Advances
<1>10. ASSUME pending' = pending \ {e}, UNCHANGED <<chunks, active>>
       PROVE  ForestInv' /\ Forest!Advances
  <2>1. IsFiniteSet(pending') /\ Cardinality(pending') = Cardinality(pending) - 1 /\ Cardinality(pending') \in Nat
    BY <1>5, <1>10, FS_RemoveElement, FS_CardinalityType
  <2>2. /\ Cardinality(Untried(pending')) \in Nat
        /\ Cardinality(Untried(pending')) <= Cardinality(Untried(pending))
    BY <1>5, <1>10, UntriedCount
  <2>3. ForestInv'
    <3>1. \A f \in pending' : f.chunk \in chunks'
      BY <1>5, <1>10
    <3>2. \A f, h \in pending' : f.chunk = h.chunk => f = h
      BY <1>4, <1>10 DEF ForestInv
    <3> QED BY <1>4, <1>6, <1>10, <2>1, <3>1, <3>2 DEF ForestInv
  <2>4. Forest!Left' \in 0..(Forest!Left - 1)
    BY <1>6, <1>7, <1>10, <2>1, <2>2
  <2> QED BY <1>4, <2>3, <2>4 DEF Forest!Advances
<1>11. CASE \E d \in Forest!Cuts(c) :
              /\ Forest!Split(c, d)
              /\ pending' = (pending \ {e}) \cup
                   IF down THEN {again(Forest!Bottom(c, d))} \cup {Forest!Fresh(S) : S \in {Forest!Top(c, d)} \ {{}}}
                           ELSE {Forest!Fresh(Forest!Bottom(c, d))} \cup {again(S) : S \in {Forest!Top(c, d)} \ {{}}}
  <2>1. PICK d \in Forest!Cuts(c) :
              /\ Forest!Split(c, d)
              /\ pending' = (pending \ {e}) \cup
                   IF down THEN {again(Forest!Bottom(c, d))} \cup {Forest!Fresh(S) : S \in {Forest!Top(c, d)} \ {{}}}
                           ELSE {Forest!Fresh(Forest!Bottom(c, d))} \cup {again(S) : S \in {Forest!Top(c, d)} \ {{}}}
    BY <1>11
  <2> DEFINE top == Forest!Top(c, d)
             bottom == Forest!Bottom(c, d)
  <2>2. top # {}
    BY <1>4, <1>5, <2>1, ChunksCut
  <2>3. {Forest!Fresh(S) : S \in {top} \ {{}}} = {Forest!Fresh(top)} /\ {again(S) : S \in {top} \ {{}}} = {again(top)}
    BY <2>2
  <2>4. \A S : /\ again(S).chunk = S /\ again(S).second = e.second
               /\ Forest!Fresh(S).chunk = S
    BY DEF Forest!Entry, Forest!Fresh
  <2> HIDE DEF top, bottom, again, c
  <2>5. CASE down
    <3>1. pending' = (pending \ {e}) \cup {again(bottom), Forest!Fresh(top)}
      BY <2>1, <2>3, <2>5 DEF top, bottom
    <3> QED BY <1>8, <2>1, <2>4, <3>1 DEF top, bottom
  <2>6. CASE ~down
    <3>1. pending' = (pending \ {e}) \cup {again(top), Forest!Fresh(bottom)}
      BY <2>1, <2>3, <2>6 DEF top, bottom
    <3> QED BY <1>8, <2>1, <2>4, <3>1 DEF top, bottom
  <2> QED BY <2>5, <2>6
<1>12. CASE pending' = (pending \ {e}) \cup Forest!Retry(e, pivot, down) /\ UNCHANGED <<chunks, active>>
  <2>1. CASE e.second
    <3>1. pending' = pending \ {e}
      BY <1>12, <2>1 DEF Forest!Retry
    <3> QED BY <1>10, <1>12, <3>1
  <2>2. CASE ~e.second
    <3> DEFINE x == Forest!Entry(c, {pivot}, {~down}, TRUE)
    <3>1. x.second /\ x.chunk = c /\ pending' = (pending \ {e}) \cup {x}
      BY <1>12, <2>2 DEF Forest!Retry, Forest!Entry
    <3> HIDE DEF x, c
    <3> QED BY <1>9, <1>12, <2>2, <3>1
  <2> QED BY <2>1, <2>2
<1>13. CASE pending' = (pending \ {e}) \cup {} /\ UNCHANGED <<chunks, active>>
  <2>1. pending' = pending \ {e}
    BY <1>13
  <2> QED BY <1>10, <1>13, <2>1
<1> QED BY <1>3, <1>11, <1>12, <1>13 DEF MinimizesBy

LEMMA PhaseKeeps ==
  ForestInv /\ (Forest!NoDependencies \/ Forest!StartTopological \/ Forest!TopologicalDone \/ Forest!Finish)
    => ForestInv' /\ Forest!Advances
<1> SUFFICES ASSUME ForestInv,
                    Forest!NoDependencies \/ Forest!StartTopological \/ Forest!TopologicalDone \/ Forest!Finish
             PROVE  ForestInv' /\ Forest!Advances
  OBVIOUS
<1>1. UNCHANGED <<g, chunks, active, toLoad>>
  BY DEF Forest!NoDependencies, Forest!StartTopological, Forest!TopologicalDone, Forest!Finish
<1>2. \/ phase = "load" /\ phase' = "done" /\ pending' = pending
      \/ phase = "load" /\ phase' = "topological" /\ pending' = chunks
      \/ phase = "topological" /\ phase' = "optimize" /\ pending' = chunks
      \/ phase \in {"optimize", "minimize"} /\ phase' = "done" /\ pending' = {}
  BY DEF Forest!NoDependencies, Forest!StartTopological, Forest!TopologicalDone, Forest!Finish
<1>3. Forest!Txs' = Forest!Txs /\ Forest!Deps' = Forest!Deps /\ IsFiniteSet(chunks) /\ IsFiniteSet({})
  BY <1>1, SameGraph, FiniteChunks, FS_EmptySet
<1>4. ForestInv'
  BY <1>1, <1>2, <1>3 DEF ForestInv
<1>5. Forest!Rank[phase'] < Forest!Rank[phase]
  BY <1>2 DEF Forest!Rank
<1> QED BY <1>4, <1>5 DEF Forest!Advances

LEMMA OptimizeDoneKeeps == ForestInv /\ Forest!OptimizeDone => ForestInv' /\ Forest!Advances
<1> SUFFICES ASSUME ForestInv, Forest!OptimizeDone PROVE ForestInv' /\ Forest!Advances
  OBVIOUS
<1>1. /\ UNCHANGED <<g, chunks, active, toLoad>> /\ phase = "optimize" /\ phase' = "minimize"
      /\ pending' = {Forest!Fresh(c) : c \in chunks}
  BY DEF Forest!OptimizeDone
<1>2. Forest!Txs' = Forest!Txs /\ Forest!Deps' = Forest!Deps /\ IsFiniteSet(chunks)
  BY <1>1, SameGraph, FiniteChunks
<1>3. \A c : Forest!Fresh(c).chunk = c
  BY DEF Forest!Fresh, Forest!Entry
<1>4. IsFiniteSet(pending')
  <2> DEFINE f == [c \in chunks |-> Forest!Fresh(c)]
  <2>1. f \in Surjection(chunks, pending')
    BY <1>1 DEF Surjection
  <2> QED BY <1>2, <2>1, FS_Surjection
<1>5. ForestInv'
  BY <1>1, <1>2, <1>3, <1>4 DEF ForestInv
<1>6. Forest!Rank[phase'] < Forest!Rank[phase]
  BY <1>1 DEF Forest!Rank
<1> QED BY <1>5, <1>6 DEF Forest!Advances

LEMMA ForestMoves == ForestInv /\ Forest!Next => ForestInv' /\ Forest!Advances
  BY LoadHintKeeps, TopologicalKeeps, OptimizeKeeps, MinimizeKeeps, PhaseKeeps, OptimizeDoneKeeps
  DEF Forest!Next, Forest!Search

LEMMA ForestStart == Forest!Init => ForestInv
<1> SUFFICES ASSUME Forest!Init PROVE ForestInv
  OBVIOUS
<1>1. /\ g \in Clusters /\ hint \in Hints[g] /\ phase = "load" /\ toLoad = hint
      /\ chunks = {{t} : t \in Forest!Txs} /\ active = {} /\ pending = {}
  BY DEF Forest!Init
<1>2. PartitionOf(chunks, Forest!Txs)
  BY <1>1 DEF PartitionOf
<1>3. Internal(active, chunks, Forest!Deps)
  <2>1. \A d \in Forest!Deps : d[1] # d[2]
    BY <1>1, ForestAssumption DEF Forest!Deps, Forest!Txs
  <2> QED BY <1>1, <2>1 DEF Internal, DepsIn
<1>4. toLoad \in Seq(Forest!Txs) /\ IsFiniteSet(pending)
  BY <1>1, ForestAssumption, FS_EmptySet DEF Forest!Txs
<1> QED BY <1>1, <1>2, <1>3, <1>4 DEF ForestInv

-----------------------------------------------------------------------------
(* The sum of f over S, as a fold computes it. *)
First(s) == CHOOSE x \in s : TRUE
Sums(S, f) == LET sum[s \in SUBSET S] == IF s = {} THEN 0 ELSE sum[s \ {First(s)}] + f[First(s)]
              IN sum[S]

LEMMA SumsAreIntegers ==
  ASSUME NEW S, IsFiniteSet(S), NEW f, \A t \in S : f[t] \in Int
  PROVE  /\ Sums(S, f) \in Int
         /\ S # {} /\ (\A t \in S : f[t] > 0) => Sums(S, f) > 0
<1> DEFINE Goes(h) == h = [s \in SUBSET S |-> IF s = {} THEN 0 ELSE h[s \ {First(s)}] + f[First(s)]]
           sum == CHOOSE h : Goes(h)
           pick == [s \in SUBSET S |-> First(s)]
           step == [x \in S \X Int |-> x[2] + f[x[1]]]
           Positive == \A t \in S : f[t] > 0
           Fine(s) == sum[s] \in Int /\ (Positive => sum[s] >= 0 /\ (s # {} => sum[s] > 0))
           T == {s \in SUBSET S : Fine(s)}
<1>1. Sums(S, f) = sum[S]
  BY Zenon DEF Sums
<1>2. \A s \in SUBSET S : s # {} => pick[s] \in s /\ pick[s] = First(s)
  BY DEF First
<1>3. step \in [S \X Int -> Int] /\ 0 \in Int
  OBVIOUS
<1>4. Unfolds(S, Int, 0, pick, step)
  <2> HIDE DEF step, pick
  <2> QED BY <1>2, <1>3, SetRecursion
<1>5. PICK h \in [SUBSET S -> Int] :
        h[{}] = 0 /\ \A s \in SUBSET S : s # {} => h[s] = step[<<pick[s], h[s \ {pick[s]}]>>]
  BY <1>4 DEF Unfolds
<1>6. Goes(h)
  <2>1. h = [s \in SUBSET S |-> h[s]]
    BY <1>5
  <2>2. ASSUME NEW s \in SUBSET S, s # {} PROVE h[s] = h[s \ {First(s)}] + f[First(s)]
    <3>1. pick[s] = First(s) /\ First(s) \in S /\ h[s \ {pick[s]}] \in Int
      BY <1>2, <1>5, <2>2
    <3>2. h[s] = step[<<pick[s], h[s \ {pick[s]}]>>]
      BY <1>5, <2>2
    <3> HIDE DEF pick
    <3>3. h[s] = step[<<First(s), h[s \ {First(s)}]>>] /\ h[s \ {First(s)}] \in Int
      BY <3>1, <3>2
    <3> QED BY <3>1, <3>3
  <2>3. \A s \in SUBSET S : h[s] = IF s = {} THEN 0 ELSE h[s \ {First(s)}] + f[First(s)]
    BY <1>5, <2>2
  <2> QED BY <2>1, <2>3
<1>7. Goes(sum)
  BY <1>6
<1>8. \A s \in SUBSET S : sum[s] = IF s = {} THEN 0 ELSE sum[s \ {First(s)}] + f[First(s)]
  BY <1>7
<1> HIDE DEF sum
<1>9. {} \in T
  <2>1. sum[{}] = 0
    BY <1>8
  <2> QED BY <2>1
<1>10. \A s \in SUBSET S : s # {} /\ s \ {pick[s]} \in T => s \in T
  <2> TAKE s \in SUBSET S
  <2> HAVE s # {} /\ s \ {pick[s]} \in T
  <2>1. pick[s] = First(s) /\ First(s) \in S
    BY <1>2
  <2> DEFINE r == s \ {First(s)}
  <2>2. Fine(r)
    BY <2>1
  <2>3. sum[s] = sum[r] + f[First(s)]
    BY <1>8
  <2> HIDE DEF r
  <2>4. sum[r] \in Int /\ (Positive => sum[r] >= 0)
    BY <2>2
  <2>5. f[First(s)] \in Int /\ (Positive => f[First(s)] > 0)
    BY <2>1
  <2>6. Fine(s)
    <3> HIDE DEF Positive
    <3> QED BY <2>3, <2>4, <2>5
  <2> QED BY <2>6
<1>11. \A s \in SUBSET S : s \in T
  <2> HIDE DEF T, pick
  <2> QED BY <1>2, <1>9, <1>10, SetInduction
<1>12. S \in T
  BY <1>11
<1> QED BY <1>1, <1>12

(* The feerates of sets of transactions are those of positive weights. *)
LEMMA SetRates ==
  ASSUME g \in Clusters, NEW S \in SUBSET Forest!Txs, S # {}
  PROVE  Forest!FeeOf(g, S) \in Int /\ Forest!WeightOf(S) \in Nat \ {0}
<1>1. IsFiniteSet(S) /\ \A t \in S : Weight[t] \in Nat \ {0} /\ g.fee[t] \in Int
  BY ForestAssumption, FS_Subset DEF Forest!Txs
<1>2. Forest!WeightOf(S) = Sums(S, Weight)
  BY Zenon DEF Forest!WeightOf, Forest!FoldSet, Forest!MapThenFoldSet, Sums, First
<1>3. Forest!FeeOf(g, S) = Sums(S, g.fee)
  BY Zenon DEF Forest!FeeOf, Forest!FoldSet, Forest!MapThenFoldSet, Sums, First
<1>4. Sums(S, Weight) \in Int /\ Sums(S, Weight) > 0
  BY <1>1, SumsAreIntegers
<1>5. Sums(S, g.fee) \in Int
  BY <1>1, SumsAreIntegers
<1> QED BY <1>2, <1>3, <1>4, <1>5

LEMMA CrossMultiplied ==
  ASSUME NEW a \in Int, NEW b \in Int, NEW c \in Int,
         NEW u \in Nat \ {0}, NEW v \in Nat \ {0}, NEW w \in Nat \ {0},
         a * v > b * u, b * w > c * v
  PROVE  a * w > c * u
<1>1. (a * v) * w > (b * u) * w
  OBVIOUS
<1>2. (b * w) * u > (c * v) * u
  OBVIOUS
<1>3. v * (a * w) > v * (c * u)
  BY <1>1, <1>2
<1> QED BY <1>3

(* A finite set has a member below which nothing lies in a strict order R:
   one with the fewest members below it. *)
LEMMA Extreme ==
  ASSUME NEW S, IsFiniteSet(S), S # {}, NEW R,
         \A x \in S : <<x, x>> \notin R,
         \A x, y, z \in S : <<x, y>> \in R /\ <<y, z>> \in R => <<x, z>> \in R
  PROVE  \E x \in S : \A y \in S : <<x, y>> \notin R
<1> DEFINE Below(x) == {y \in S : <<x, y>> \in R}
           T == {Cardinality(Below(x)) : x \in S}
<1>1. ASSUME NEW x \in S PROVE IsFiniteSet(Below(x)) /\ Cardinality(Below(x)) \in Nat
  <2>1. Below(x) \in SUBSET S
    OBVIOUS
  <2> HIDE DEF Below
  <2> QED BY <2>1, FS_Subset, FS_CardinalityType
<1>2. PICK n \in T : \A k \in T : n <= k
  <2>1. ASSUME NEW k \in T PROVE k \in Nat
    <3>1. PICK x \in S : k = Cardinality(Below(x))
      OBVIOUS
    <3> HIDE DEF Below
    <3> QED BY <1>1, <3>1
  <2>2. PICK x : x \in S
    OBVIOUS
  <2>3. Cardinality(Below(x)) \in T
    BY <2>2
  <2> HIDE DEF T
  <2>4. T \in SUBSET Nat /\ T # {}
    BY <2>1, <2>3
  <2> QED BY <2>4, LeastNat
<1>3. PICK x \in S : n = Cardinality(Below(x))
  OBVIOUS
<1>4. ASSUME NEW y \in S, <<x, y>> \in R PROVE FALSE
  <2>1. Below(y) \in SUBSET Below(x)
    BY <1>4
  <2>2. y \in Below(x) /\ y \notin Below(y)
    BY <1>4
  <2> HIDE DEF Below
  <2>3. Cardinality(Below(y)) <= Cardinality(Below(x)) /\ Cardinality(Below(y)) # Cardinality(Below(x))
    BY <1>1, <2>1, <2>2, FS_Subset
  <2>4. n <= Cardinality(Below(y))
    BY <1>2
  <2> QED BY <1>1, <1>3, <2>3, <2>4
<1> QED BY <1>4

LEMMA RatesAreOrdered ==
  ASSUME ForestInv
  PROVE  /\ \A x \in chunks : ~Forest!HigherFeerate(g, x, x)
         /\ \A x, y, z \in chunks :
              Forest!HigherFeerate(g, x, y) /\ Forest!HigherFeerate(g, y, z) => Forest!HigherFeerate(g, x, z)
<1>1. \A x \in chunks : Forest!FeeOf(g, x) \in Int /\ Forest!WeightOf(x) \in Nat \ {0}
  BY SetRates DEF ForestInv, PartitionOf
<1>2. ASSUME NEW x \in chunks PROVE ~Forest!HigherFeerate(g, x, x)
  BY <1>1 DEF Forest!HigherFeerate
<1>3. ASSUME NEW x \in chunks, NEW y \in chunks, NEW z \in chunks,
             Forest!HigherFeerate(g, x, y), Forest!HigherFeerate(g, y, z)
      PROVE  Forest!HigherFeerate(g, x, z)
  <2>1. /\ Forest!FeeOf(g, x) * Forest!WeightOf(y) > Forest!FeeOf(g, y) * Forest!WeightOf(x)
        /\ Forest!FeeOf(g, y) * Forest!WeightOf(z) > Forest!FeeOf(g, z) * Forest!WeightOf(y)
    BY <1>3 DEF Forest!HigherFeerate
  <2>2. Forest!FeeOf(g, x) * Forest!WeightOf(z) > Forest!FeeOf(g, z) * Forest!WeightOf(x)
    BY <1>1, <2>1, CrossMultiplied
  <2> QED BY <2>2 DEF Forest!HigherFeerate
<1> QED BY <1>2, <1>3

(* Chunk c holds a parent of a transaction of d and does not pay more. *)
Above(c, d) ==
  /\ c # d /\ \E e \in Forest!Deps : e[1] \in c /\ e[2] \in d
  /\ ~Forest!HigherFeerate(g, c, d)

(* Where two chunks are out of order, each of them finds a chunk to merge with. *)
LEMMA CandidatesFound ==
  ASSUME ForestInv, NEW c \in chunks, NEW d \in chunks, Above(c, d)
  PROVE  Forest!Candidates(d, "up") # {} /\ Forest!Candidates(c, "down") # {}
<1>1. PICK e \in Forest!Deps : e[1] \in c /\ e[2] \in d
  BY DEF Above
<1>2. e \notin active
  <2> SUFFICES ASSUME e \in active PROVE FALSE
    OBVIOUS
  <2>1. PICK x \in chunks : e[1] \in x /\ e[2] \in x
    BY DEF ForestInv, Internal, DepsIn
  <2> QED BY <1>1, <2>1 DEF ForestInv, PartitionOf, Above
<1>3. e \in Forest!Crossing(c, d)
  BY <1>1, <1>2 DEF Forest!Crossing
<1>4. IsFiniteSet(chunks)
  BY FiniteChunks
<1>5. Forest!Candidates(d, "up") # {}
  <2> DEFINE near == {x \in chunks \ {d} : Forest!Crossing(x, d) # {} /\ ~Forest!HigherFeerate(g, x, d)}
             R == {p \in chunks \X chunks : Forest!HigherFeerate(g, p[1], p[2])}
  <2>1. c \in near /\ near \in SUBSET chunks
    BY <1>3 DEF Above
  <2>2. IsFiniteSet(near)
    BY <1>4, <2>1, FS_Subset
  <2> HIDE DEF near
  <2>3. \A x, y \in chunks : <<x, y>> \in R <=> Forest!HigherFeerate(g, x, y)
    OBVIOUS
  <2> HIDE DEF R
  <2>4. /\ \A x \in near : <<x, x>> \notin R
        /\ \A x, y, z \in near : <<x, y>> \in R /\ <<y, z>> \in R => <<x, z>> \in R
    BY <2>1, <2>3, RatesAreOrdered
  <2>5. PICK x \in near : \A y \in near : <<x, y>> \notin R
    BY <2>1, <2>2, <2>4, Extreme
  <2>6. \A y \in near : ~Forest!HigherFeerate(g, x, y)
    BY <2>1, <2>3, <2>5
  <2> QED BY <2>5, <2>6 DEF Forest!Candidates, near
<1>6. Forest!Candidates(c, "down") # {}
  <2> DEFINE near == {x \in chunks \ {c} : Forest!Crossing(c, x) # {} /\ ~Forest!HigherFeerate(g, c, x)}
             R == {p \in chunks \X chunks : Forest!HigherFeerate(g, p[2], p[1])}
  <2>1. d \in near /\ near \in SUBSET chunks
    BY <1>3 DEF Above
  <2>2. IsFiniteSet(near)
    BY <1>4, <2>1, FS_Subset
  <2> HIDE DEF near
  <2>3. \A x, y \in chunks : <<x, y>> \in R <=> Forest!HigherFeerate(g, y, x)
    OBVIOUS
  <2> HIDE DEF R
  <2>4. /\ \A x \in near : <<x, x>> \notin R
        /\ \A x, y, z \in near : <<x, y>> \in R /\ <<y, z>> \in R => <<x, z>> \in R
    BY <2>1, <2>3, RatesAreOrdered
  <2>5. PICK x \in near : \A y \in near : <<x, y>> \notin R
    BY <2>1, <2>2, <2>4, Extreme
  <2>6. \A y \in near : ~Forest!HigherFeerate(g, y, x)
    BY <2>1, <2>3, <2>5
  <2> QED BY <2>5, <2>6 DEF Forest!Candidates, near
<1> QED BY <1>5, <1>6

-----------------------------------------------------------------------------
(* While the search makes the chunks topological, two chunks that are out of
   order are still to be looked at, from the side from which they are seen. *)
Restless ==
  phase = "topological" =>
    /\ initDir \in Forest!Directions
    /\ \A c, d \in chunks : Above(c, d) =>
         \/ initDir = "up" /\ (d \in pending \/ (c \in pending /\ c \in merged))
         \/ initDir = "down" /\ (c \in pending \/ (d \in pending /\ d \in merged))

LEMMA SameOrder == g' = g => \A c, d : Above(c, d)' <=> Above(c, d)
<1> SUFFICES ASSUME g' = g, NEW c, NEW d PROVE Above(c, d)' <=> Above(c, d)
  OBVIOUS
<1>1. Forest!FeeOf(g, c)' = Forest!FeeOf(g, c) /\ Forest!FeeOf(g, d)' = Forest!FeeOf(g, d)
  BY ZenonT(40) DEF Forest!FeeOf, Forest!FoldSet, Forest!MapThenFoldSet
<1>2. Forest!HigherFeerate(g, c, d)' <=> Forest!HigherFeerate(g, c, d)
  BY <1>1 DEF Forest!HigherFeerate
<1> QED BY <1>2, SameGraph DEF Above

LEMMA TopologicalStaysRestless ==
  ASSUME ForestInv, Restless, Forest!TopologicalStep
  PROVE  Restless'
<1>1. PICK c \in pending :
        LET dirs == {dir \in Forest!LooksAt(c) : Forest!Candidates(c, dir) # {}}
        IN IF dirs # {}
           THEN \E dir \in dirs : \E d \in Forest!Candidates(c, dir) :
                  /\ Forest!Merge(c, d)
                  /\ pending' = (pending \ {c, d}) \cup {c \cup d}
                  /\ merged' = (merged \ {c, d}) \cup {c \cup d}
           ELSE /\ pending' = pending \ {c}
                /\ UNCHANGED <<chunks, active, merged>>
  BY DEF Forest!TopologicalStep
<1>2. phase = "topological" /\ phase' = phase /\ g' = g /\ initDir' = initDir
  BY DEF Forest!TopologicalStep
<1>3. /\ initDir \in {"up", "down"} /\ initDir' \in Forest!Directions
      /\ \A x, y \in chunks : Above(x, y) =>
           \/ initDir = "up" /\ (y \in pending \/ (x \in pending /\ x \in merged))
           \/ initDir = "down" /\ (x \in pending \/ (y \in pending /\ y \in merged))
  BY <1>2 DEF Restless, Forest!Directions
<1>4. \A x, y : Above(x, y)' <=> Above(x, y)
  BY <1>2, SameOrder
<1>5. SUFFICES ASSUME NEW x \in chunks', NEW y \in chunks', Above(x, y)
               PROVE  \/ initDir = "up" /\ (y \in pending' \/ (x \in pending' /\ x \in merged'))
                      \/ initDir = "down" /\ (x \in pending' \/ (y \in pending' /\ y \in merged'))
  BY <1>2, <1>3, <1>4 DEF Restless
<1>6. CASE \E dir : \E d \in Forest!Candidates(c, dir) :
             /\ Forest!Merge(c, d)
             /\ pending' = (pending \ {c, d}) \cup {c \cup d}
             /\ merged' = (merged \ {c, d}) \cup {c \cup d}
  <2>1. PICK d : /\ chunks' = (chunks \ {c, d}) \cup {c \cup d}
                 /\ pending' = (pending \ {c, d}) \cup {c \cup d}
                 /\ merged' = (merged \ {c, d}) \cup {c \cup d}
    BY <1>6 DEF Forest!Merge
  <2>2. CASE x = c \cup d \/ y = c \cup d
    BY <1>3, <2>1, <2>2
  <2>3. CASE x # c \cup d /\ y # c \cup d
    <3>1. x \in chunks \ {c, d} /\ y \in chunks \ {c, d}
      BY <2>1, <2>3
    <3> QED BY <1>3, <1>5, <2>1, <3>1
  <2> QED BY <2>2, <2>3
<1>7. CASE /\ \A dir \in Forest!LooksAt(c) : Forest!Candidates(c, dir) = {}
           /\ pending' = pending \ {c} /\ UNCHANGED <<chunks, active, merged>>
  <2>1. x \in chunks /\ y \in chunks
    BY <1>7
  <2>2. Forest!Candidates(y, "up") # {} /\ Forest!Candidates(x, "down") # {}
    BY <1>5, <2>1, CandidatesFound
  <2>3. initDir \in Forest!LooksAt(c) /\ (c \in merged => {"up", "down"} \subseteq Forest!LooksAt(c))
    BY <1>3 DEF Forest!LooksAt, Forest!Directions
  <2>4. CASE initDir = "up"
    <3>1. c # y /\ (x \in merged => c # x)
      BY <1>7, <2>2, <2>3, <2>4
    <3> QED BY <1>3, <1>5, <1>7, <2>1, <2>4, <3>1
  <2>5. CASE initDir = "down"
    <3>1. c # x /\ (y \in merged => c # y)
      BY <1>7, <2>2, <2>3, <2>5
    <3> QED BY <1>3, <1>5, <1>7, <2>1, <2>5, <3>1
  <2> QED BY <1>3, <2>4, <2>5
<1> QED BY <1>1, <1>6, <1>7

LEMMA StaysRestless == ForestInv /\ Restless /\ Forest!Next => Restless'
<1> SUFFICES ASSUME ForestInv, Restless, Forest!Next PROVE Restless'
  OBVIOUS
<1>1. CASE Forest!TopologicalStep
  BY <1>1, TopologicalStaysRestless
<1>2. CASE Forest!StartTopological
  <2>1. initDir' \in Forest!Directions /\ pending' = chunks'
    BY <1>2 DEF Forest!StartTopological
  <2> QED BY <2>1 DEF Restless, Forest!Directions
<1>3. CASE Forest!LoadHint
  BY <1>3 DEF Forest!LoadHint, Restless
<1>4. CASE Forest!NoDependencies \/ Forest!TopologicalDone \/ Forest!OptimizeDone
  BY <1>4 DEF Forest!NoDependencies, Forest!TopologicalDone, Forest!OptimizeDone, Restless
<1>5. CASE Forest!OptimizeStep \/ Forest!MinimizeStep \/ Forest!Finish
  <2>1. phase' # "topological"
    BY <1>5 DEF Forest!OptimizeStep, Forest!MinimizeStep, Forest!Finish
  <2> QED BY <2>1 DEF Restless
<1> QED BY <1>1, <1>2, <1>3, <1>4, <1>5 DEF Forest!Next, Forest!Search

(* The optimisation starts when nothing waits: no two chunks are out of order. *)
LEMMA OptimizationStartsOrdered == ForestInv /\ Restless /\ Forest!Next => Forest!OptimizesTopological
<1> SUFFICES ASSUME ForestInv, Restless, Forest!Next, phase = "topological", phase' = "optimize"
             PROVE  Forest!CrossDescends
  BY DEF Forest!OptimizesTopological
<1>1. pending = {}
  BY DEF Forest!Next, Forest!Search, Forest!NoDependencies, Forest!LoadHint, Forest!StartTopological,
         Forest!TopologicalStep, Forest!TopologicalDone, Forest!OptimizeStep, Forest!OptimizeDone,
         Forest!MinimizeStep, Forest!Finish
<1>2. \A c, d \in chunks : ~Above(c, d)
  BY <1>1 DEF Restless
<1> QED BY <1>2 DEF Above, Forest!CrossDescends

LEMMA ForestRest == ForestInv /\ Restless /\ UNCHANGED forestVars => ForestInv' /\ Restless'
<1> SUFFICES ASSUME ForestInv, Restless, UNCHANGED forestVars PROVE ForestInv' /\ Restless'
  OBVIOUS
<1>1. UNCHANGED <<g, phase, toLoad, chunks, active, pending, merged, initDir>>
  BY DEF forestVars
<1>2. Forest!Txs' = Forest!Txs /\ Forest!Deps' = Forest!Deps
  BY <1>1, SameGraph
<1>3. \A x, y : Above(x, y)' <=> Above(x, y)
  BY <1>1, SameOrder
<1> QED BY <1>1, <1>2, <1>3 DEF ForestInv, Restless

-----------------------------------------------------------------------------
SearchInv == subject = "forest" => ForestInv /\ Restless

LEMMA SearchStep ==
  ASSUME SearchInv, [Next]_vars
  PROVE  /\ SearchInv'
         /\ UNCHANGED forestVars \/ (subject = "forest" => Forest!Advances /\ Forest!OptimizesTopological)
<1>1. CASE UNCHANGED vars
  BY <1>1, ForestRest DEF SearchInv, vars
<1>2. CASE subject = "forest" /\ Forest!Next /\ UNCHANGED <<subject, blockVars, heapVars>>
  BY <1>2, ForestMoves, StaysRestless, OptimizationStartsOrdered DEF SearchInv
<1>3. CASE subject # "forest" /\ UNCHANGED <<subject, forestVars>>
  BY <1>3 DEF SearchInv
<1> QED BY <1>1, <1>2, <1>3 DEF Next

LEMMA SearchAlways == Spec => []SearchInv
<1>1. Init => SearchInv
  <2> SUFFICES ASSUME Init, subject = "forest" PROVE ForestInv /\ Restless
    BY DEF SearchInv
  <2>1. Forest!Init
    BY DEF Init
  <2>2. phase = "load"
    BY <2>1 DEF Forest!Init
  <2> QED BY <2>1, <2>2, ForestStart DEF Restless
<1>2. SearchInv /\ [Next]_vars => SearchInv'
  BY SearchStep
<1> QED BY <1>1, <1>2, PTL DEF Spec

(* The search merges and cuts chunks step by step, and keeps in active exactly
   the dependencies that lie inside a chunk. *)
THEOREM ActiveDependenciesAreInternal == Spec => []ActiveIsInternal
<1>1. SearchInv => ActiveIsInternal
  <2> SUFFICES ASSUME ForestInv PROVE Forest!ActiveIsInternal
    BY DEF SearchInv, ActiveIsInternal
  <2>1. \A d : d \in active <=> \E c \in chunks : d \in Forest!Inside(c)
    BY InsideIsDepsIn DEF ForestInv, Internal
  <2> QED BY <2>1 DEF Forest!ActiveIsInternal
<1> QED BY <1>1, SearchAlways, PTL

(* optimizeSFL starts from chunks that pay less than the chunks they depend
   on, in whichever direction makeTopological began to look. *)
THEOREM OptimizationIsTopological == Spec => OptimizesTopological
<1>1. SearchInv /\ [Next]_vars => [subject = "forest" => Forest!OptimizesTopological]_forestVars
  BY SearchStep
<1> QED BY <1>1, SearchAlways, PTL DEF Spec, OptimizesTopological

(* Every step of the search enters a later phase or leaves less to do in its
   own, so that linearizeCluster ends even when no cost limit stops it. *)
THEOREM SearchEnds == Spec => SearchAdvances
<1>1. SearchInv /\ [Next]_vars => [subject = "forest" => Forest!Advances]_forestVars
  BY SearchStep
<1> QED BY <1>1, SearchAlways, PTL DEF Spec, SearchAdvances

(***************************************************************************)
(* The pairing heap: HeapInv says that the pointers of the nodes it holds  *)
(* make up one tree in heap order.  A tree is given by the set S of its    *)
(* nodes, and a forest by S and its topmost nodes, so that every step of   *)
(* meld, of mergePairs and of an unlink is a step from one forest to       *)
(* another over the same nodes, or over all of them but one.               *)
(***************************************************************************)
LinkType == [Nodes -> Nodes \cup {Nil}]
LinksType == [child : LinkType, next : LinkType, prev : LinkType]

(* Where the links h of the nodes S lead: a node that is not one of the tops
   has one link to it, which prev undoes. *)
Bonds(h, S, tops) ==
  /\ \A n \in S : h.child[n] # Nil => h.child[n] \in S \ tops /\ h.prev[h.child[n]] = n
  /\ \A n \in S \ tops :
       /\ h.next[n] # Nil => /\ h.next[n] \in S \ tops /\ h.prev[h.next[n]] = n
                             /\ h.next[n] # h.child[n]
       /\ h.prev[n] \in S
       /\ h.child[h.prev[n]] = n \/ (h.prev[n] \notin tops /\ h.next[h.prev[n]] = n)
(* The parents par: siblings share theirs, and nobody beats it. *)
Under(k, h, S, tops, par) ==
  /\ \A n \in S : h.child[n] # Nil => par[h.child[n]] = n
  /\ \A n \in S \ tops : k[n] <= k[par[n]] /\ (h.next[n] # Nil => par[h.next[n]] = par[n])
ClosedIn(h, tops, T) ==
  /\ tops \subseteq T
  /\ \A n \in T : /\ h.child[n] # Nil => h.child[n] \in T
                  /\ n \notin tops /\ h.next[n] # Nil => h.next[n] \in T
(* Everything in S hangs below one of the tops. *)
Reached(h, S, tops) == \A T \in SUBSET S : ClosedIn(h, tops, T) => T = S
(* The nodes S make up trees in heap order, with the given tops.  The next and
   prev of a top are not looked at. *)
Trees(k, h, S, tops) ==
  /\ S \subseteq Nodes /\ tops \subseteq S
  /\ \A n \in S : k[n] \in Int
  /\ Bonds(h, S, tops) /\ Reached(h, S, tops)
  /\ \E par \in [S -> S] : Under(k, h, S, tops, par)

(* Trees are what their own links make them. *)
SameInside(h, m, S, tops) ==
  \A n \in S : /\ m.child[n] = h.child[n]
               /\ n \notin tops => m.next[n] = h.next[n] /\ m.prev[n] = h.prev[n]

LEMMA TreesOfLinks ==
  ASSUME NEW k, NEW j, NEW h, NEW m, NEW S, NEW tops, Trees(k, h, S, tops),
         SameInside(h, m, S, tops), \A n \in S : j[n] = k[n]
  PROVE  Trees(j, m, S, tops)
<1>1. tops \subseteq S /\ S \subseteq Nodes /\ \A n \in S : j[n] \in Int
  BY DEF Trees
<1>2. Bonds(m, S, tops)
  BY DEF Trees, Bonds, SameInside
<1>3. Reached(m, S, tops)
  <2> SUFFICES ASSUME NEW T \in SUBSET S, ClosedIn(m, tops, T) PROVE T = S
    BY DEF Reached
  <2>1. ClosedIn(h, tops, T)
    BY DEF ClosedIn, SameInside
  <2> QED BY <2>1 DEF Trees, Reached
<1>4. PICK par \in [S -> S] : Under(k, h, S, tops, par)
  BY DEF Trees
<1>5. Under(j, m, S, tops, par)
  <2>1. \A n \in S : m.child[n] # Nil => par[m.child[n]] = n
    BY <1>4 DEF Under, SameInside
  <2>2. \A n \in S \ tops : par[n] \in S /\ j[n] <= j[par[n]] /\ (m.next[n] # Nil => par[m.next[n]] = par[n])
    BY <1>4 DEF Under, SameInside
  <2> QED BY <2>1, <2>2 DEF Under
<1> QED BY <1>1, <1>2, <1>3, <1>4, <1>5 DEF Trees

(* The links that meld makes when p wins over l. *)
Attached(h, p, l) ==
  [child |-> [h.child EXCEPT ![p] = l],
   next |-> [h.next EXCEPT ![l] = h.child[p], ![p] = Nil],
   prev |-> [n \in Nodes |-> IF n = l THEN p ELSE IF n = p THEN Nil
                             ELSE IF n = h.child[p] THEN l ELSE h.prev[n]]]

LEMMA AttachedLinks ==
  ASSUME NEW h \in LinksType, NEW p \in Nodes, NEW l \in Nodes, p # l
  PROVE  LET m == Attached(h, p, l)
         IN /\ m \in LinksType
            /\ \A n \in Nodes : m.child[n] = IF n = p THEN l ELSE h.child[n]
            /\ \A n \in Nodes : m.next[n] = IF n = p THEN Nil ELSE IF n = l THEN h.child[p] ELSE h.next[n]
            /\ \A n \in Nodes : m.prev[n] = IF n = l THEN p ELSE IF n = p THEN Nil
                                            ELSE IF n = h.child[p] THEN l ELSE h.prev[n]
  BY DEF LinksType, LinkType, Attached

LEMMA AttachedTrees ==
  ASSUME NEW k, NEW h \in LinksType, NEW S, NEW tops, Trees(k, h, S, tops),
         NEW p \in tops, NEW l \in tops, p # l, k[l] <= k[p]
  PROVE  Trees(k, Attached(h, p, l), S, tops \ {l})
<1> DEFINE m == Attached(h, p, l)
           less == tops \ {l}
           first == h.child[p]
<1>1. /\ S \subseteq Nodes /\ tops \subseteq S /\ p \in S /\ l \in S /\ less \subseteq S
      /\ p \in Nodes /\ l \in Nodes /\ p # Nil /\ l # Nil /\ p \in less /\ l \notin less
  BY HeapAssumption DEF Trees
<1>2. /\ \A n \in S : m.child[n] = IF n = p THEN l ELSE h.child[n]
      /\ \A n \in S : m.next[n] = IF n = p THEN Nil ELSE IF n = l THEN first ELSE h.next[n]
      /\ \A n \in S : m.prev[n] = IF n = l THEN p ELSE IF n = p THEN Nil
                                  ELSE IF n = first THEN l ELSE h.prev[n]
  BY <1>1, AttachedLinks
<1>3. \A n \in S : n \notin less <=> n \notin tops \/ n = l
  OBVIOUS
<1>4. Bonds(h, S, tops)
  BY DEF Trees
<1>5. first # Nil => first \in S \ tops /\ h.prev[first] = p
  BY <1>1, <1>4 DEF Bonds
<1>6. \A n \in S : n # p /\ h.child[n] # Nil => h.child[n] # first
  BY <1>4, <1>5 DEF Bonds
<1>7. \A n \in S \ tops : h.next[n] # Nil => h.next[n] # first
  BY <1>1, <1>4, <1>5 DEF Bonds
<1> HIDE DEF m, less, first
<1>8. Bonds(m, S, less)
  <2>1. ASSUME NEW n \in S, m.child[n] # Nil
        PROVE  m.child[n] \in S \ less /\ m.prev[m.child[n]] = n
    <3>1. CASE n = p
      BY <1>1, <1>2, <3>1
    <3>2. CASE n # p
      <4>1. h.child[n] \in S \ tops /\ h.prev[h.child[n]] = n /\ m.child[n] = h.child[n]
        BY <1>2, <1>4, <2>1, <3>2 DEF Bonds
      <4>2. h.child[n] # first /\ h.child[n] # l /\ h.child[n] # p
        BY <1>1, <1>2, <1>6, <2>1, <3>2, <4>1
      <4> QED BY <1>2, <1>3, <4>1, <4>2
    <3> QED BY <3>1, <3>2
  <2>2. ASSUME NEW n \in S \ less, m.next[n] # Nil
        PROVE  /\ m.next[n] \in S \ less /\ m.prev[m.next[n]] = n
               /\ m.next[n] # m.child[n]
    <3>1. CASE n = l
      <4>1. m.next[n] = first /\ first \in S \ tops /\ first # l /\ first # p
        BY <1>1, <1>2, <1>5, <2>2, <3>1
      <4>2. m.prev[first] = l
        BY <1>2, <4>1
      <4>3. m.child[l] = h.child[l] /\ (h.child[l] # Nil => h.child[l] # first)
        BY <1>1, <1>2, <1>6
      <4> QED BY <1>3, <2>2, <3>1, <4>1, <4>2, <4>3
    <3>2. CASE n # l
      <4>1. n \in S \ tops /\ n # p /\ m.next[n] = h.next[n] /\ m.child[n] = h.child[n]
        BY <1>1, <1>2, <1>3, <3>2
      <4>2. h.next[n] \in S \ tops /\ h.prev[h.next[n]] = n /\ h.next[n] # h.child[n]
        BY <1>4, <2>2, <4>1 DEF Bonds
      <4>3. h.next[n] # first /\ h.next[n] # l /\ h.next[n] # p
        BY <1>1, <1>7, <2>2, <4>1, <4>2
      <4> QED BY <1>2, <1>3, <4>1, <4>2, <4>3
    <3> QED BY <3>1, <3>2
  <2>3. ASSUME NEW n \in S \ less
        PROVE  /\ m.prev[n] \in S
               /\ m.child[m.prev[n]] = n \/ (m.prev[n] \notin less /\ m.next[m.prev[n]] = n)
    <3>1. CASE n = l
      BY <1>1, <1>2, <3>1
    <3>2. CASE n = first /\ n # l
      <4>1. m.prev[n] = l /\ m.next[l] = first
        BY <1>1, <1>2, <1>3, <3>2
      <4> QED BY <1>1, <3>2, <4>1
    <3>3. CASE n # l /\ n # first
      <4>1. n \in S \ tops /\ n # p /\ m.prev[n] = h.prev[n]
        BY <1>1, <1>2, <1>3, <3>3
      <4>2. /\ h.prev[n] \in S
            /\ h.child[h.prev[n]] = n \/ (h.prev[n] \notin tops /\ h.next[h.prev[n]] = n)
        BY <1>4, <4>1 DEF Bonds
      <4>3. CASE h.child[h.prev[n]] = n
        <5>1. h.prev[n] # p
          BY <3>3, <4>3 DEF first
        <5> QED BY <1>2, <4>1, <4>2, <4>3, <5>1
      <4>4. CASE h.prev[n] \notin tops /\ h.next[h.prev[n]] = n
        BY <1>1, <1>2, <1>3, <4>1, <4>2, <4>4
      <4> QED BY <4>2, <4>3, <4>4
    <3> QED BY <3>1, <3>2, <3>3
  <2> QED BY <2>1, <2>2, <2>3 DEF Bonds
<1>9. Reached(m, S, less)
  <2> SUFFICES ASSUME NEW T \in SUBSET S, ClosedIn(m, less, T) PROVE T = S
    BY DEF Reached
  <2>1. p \in T /\ l \in T /\ tops \subseteq T
    BY <1>1, <1>2 DEF ClosedIn, less
  <2>2. first # Nil => first \in T
    BY <1>1, <1>2, <2>1 DEF ClosedIn
  <2>3. \A n \in T : /\ h.child[n] # Nil => h.child[n] \in T
                     /\ n \notin tops /\ h.next[n] # Nil => h.next[n] \in T
    <3> TAKE n \in T
    <3>1. h.child[n] # Nil => h.child[n] \in T
      BY <1>2, <2>2 DEF ClosedIn, first
    <3>2. n \notin tops => n \notin less /\ n # p /\ n # l
      BY <1>1, <1>3
    <3> QED BY <1>2, <3>1, <3>2 DEF ClosedIn
  <2> QED BY <2>1, <2>3 DEF Trees, Reached, ClosedIn
<1>10. PICK par \in [S -> S] : Under(k, h, S, tops, par)
  BY DEF Trees
<1> DEFINE q == [par EXCEPT ![l] = p]
<1>11. q \in [S -> S] /\ \A n \in S : q[n] = IF n = l THEN p ELSE par[n]
  BY <1>1
<1> HIDE DEF q
<1>12. Under(k, m, S, less, q)
  <2>1. ASSUME NEW n \in S, m.child[n] # Nil PROVE q[m.child[n]] = n
    <3>1. CASE n = p
      BY <1>1, <1>2, <1>11, <3>1
    <3>2. CASE n # p
      <4>1. h.child[n] \in S \ tops /\ m.child[n] = h.child[n]
        BY <1>2, <1>4, <2>1, <3>2 DEF Bonds
      <4> QED BY <1>10, <1>11, <2>1, <4>1 DEF Under
    <3> QED BY <3>1, <3>2
  <2>2. ASSUME NEW n \in S \ less
        PROVE  k[n] <= k[q[n]] /\ (m.next[n] # Nil => q[m.next[n]] = q[n])
    <3>1. CASE n = l
      <4>1. first # Nil => par[first] = p /\ first # l
        BY <1>1, <1>5, <1>10 DEF Under, first
      <4> QED BY <1>1, <1>2, <1>5, <1>11, <3>1, <4>1
    <3>2. CASE n # l
      <4>1. n \in S \ tops /\ n # p /\ q[n] = par[n] /\ m.next[n] = h.next[n]
        BY <1>1, <1>2, <1>3, <1>11, <3>2
      <4>2. k[n] <= k[par[n]] /\ (h.next[n] # Nil => par[h.next[n]] = par[n])
        BY <1>10, <4>1 DEF Under
      <4>3. h.next[n] # Nil => h.next[n] \in S \ tops
        BY <1>4, <4>1 DEF Bonds
      <4> QED BY <1>11, <4>1, <4>2, <4>3
    <3> QED BY <3>1, <3>2
  <2> QED BY <2>1, <2>2 DEF Under
<1>13. \A n \in S : k[n] \in Int
  BY DEF Trees
<1> QED BY <1>1, <1>8, <1>9, <1>11, <1>12, <1>13 DEF Trees, m, less

(* Nodes outside S keep their own links. *)
StayOutside(h, m, S) == \A n \in Nodes \ S : m.child[n] = h.child[n] /\ m.next[n] = h.next[n]
TreeType == [links : LinksType, top : Nodes \cup {Nil}]

LEMMA MeldOfTwo ==
  ASSUME NEW k, NEW h \in LinksType, NEW a \in Nodes, NEW b \in Nodes, a # b
  PROVE  Heap!Meld(k, h, a, b) = IF k[a] > k[b] THEN [links |-> Attached(h, a, b), top |-> a]
                                 ELSE [links |-> Attached(h, b, a), top |-> b]
<1>1. a # Nil /\ b # Nil
  BY HeapAssumption
<1>2. CASE k[a] > k[b]
  BY <1>1, <1>2 DEF Heap!Meld, Heap!Tree, Attached
<1>3. CASE ~(k[a] > k[b])
  BY <1>1, <1>3 DEF Heap!Meld, Heap!Tree, Attached
<1> QED BY <1>2, <1>3

LEMMA MeldOfNone ==
  ASSUME NEW k, NEW h, NEW a
  PROVE  /\ Heap!Meld(k, h, Nil, a) = [links |-> h, top |-> a]
         /\ Heap!Meld(k, h, a, Nil) = [links |-> h, top |-> a]
  BY DEF Heap!Meld, Heap!Tree

LEMMA MeldType ==
  ASSUME NEW k, NEW h \in LinksType, NEW a \in Nodes \cup {Nil}, NEW b \in Nodes \cup {Nil}
  PROVE  Heap!Meld(k, h, a, b) \in TreeType
<1>1. CASE a = Nil \/ b = Nil
  BY <1>1, MeldOfNone DEF TreeType
<1>2. CASE a \in Nodes /\ b \in Nodes /\ a # b
  <2>1. Attached(h, a, b) \in LinksType /\ Attached(h, b, a) \in LinksType
    BY <1>2, AttachedLinks
  <2>2. /\ [links |-> Attached(h, a, b), top |-> a] \in TreeType
        /\ [links |-> Attached(h, b, a), top |-> b] \in TreeType
    BY <1>2, <2>1 DEF TreeType
  <2>3. \/ Heap!Meld(k, h, a, b) = [links |-> Attached(h, a, b), top |-> a]
        \/ Heap!Meld(k, h, a, b) = [links |-> Attached(h, b, a), top |-> b]
    BY <1>2, MeldOfTwo
  <2> QED BY <2>2, <2>3
<1>3. CASE a = b /\ a # Nil
  <2>1. Heap!Meld(k, h, a, b) = [links |-> h, top |-> a]
    BY <1>3 DEF Heap!Meld, Heap!Tree
  <2> QED BY <2>1 DEF TreeType
<1> QED BY <1>1, <1>2, <1>3

(* What meld does to trees with the tops a, b and others. *)
Melded(k, h, S, others, a, b, m) ==
  /\ m.top \in {a, b} /\ m.links \in LinksType
  /\ Trees(k, m.links, S, others \cup {m.top})
  /\ m.links.next[m.top] = Nil
  /\ \A n \in Nodes : n # a /\ n # b => m.links.child[n] = h.child[n] /\ m.links.next[n] = h.next[n]
  /\ \A n \in others : m.links.prev[n] = h.prev[n]

LEMMA MeldedTrees ==
  ASSUME NEW k, NEW h \in LinksType, NEW S, NEW others, NEW a, NEW b, a # b,
         a \notin others, b \notin others, Trees(k, h, S, others \cup {a, b})
  PROVE  Melded(k, h, S, others, a, b, Heap!Meld(k, h, a, b))
<1>1. /\ a \in S /\ b \in S /\ S \subseteq Nodes /\ others \subseteq S
      /\ k[a] \in Int /\ k[b] \in Int /\ Bonds(h, S, others \cup {a, b})
  BY DEF Trees
<1>2. ASSUME NEW p \in {a, b}, NEW l \in {a, b}, p # l, k[l] <= k[p]
      PROVE  Melded(k, h, S, others, a, b, [links |-> Attached(h, p, l), top |-> p])
  <2> DEFINE m == Attached(h, p, l)
  <2>1. /\ m \in LinksType
        /\ \A n \in Nodes : m.child[n] = IF n = p THEN l ELSE h.child[n]
        /\ \A n \in Nodes : m.next[n] = IF n = p THEN Nil ELSE IF n = l THEN h.child[p] ELSE h.next[n]
        /\ \A n \in Nodes : m.prev[n] = IF n = l THEN p ELSE IF n = p THEN Nil
                                        ELSE IF n = h.child[p] THEN l ELSE h.prev[n]
    <3>1. p \in Nodes /\ l \in Nodes /\ p # l
      BY <1>1, <1>2
    <3> QED BY <3>1, AttachedLinks
  <2>2. Trees(k, m, S, (others \cup {a, b}) \ {l})
    BY <1>2, AttachedTrees
  <2> HIDE DEF m
  <2>3. (others \cup {a, b}) \ {l} = others \cup {p}
    BY <1>2
  <2>4. \A n \in others : n # h.child[p] /\ n # p /\ n # l /\ n \in Nodes
    BY <1>1, <1>2, HeapAssumption DEF Bonds
  <2>5. \A n \in others : m.prev[n] = h.prev[n]
    BY <2>1, <2>4
  <2>6. m.next[p] = Nil /\ \A n \in Nodes : n # a /\ n # b => m.child[n] = h.child[n] /\ m.next[n] = h.next[n]
    BY <1>1, <1>2, <2>1
  <2>7. Trees(k, m, S, others \cup {p})
    BY <2>2, <2>3
  <2>8. Melded(k, h, S, others, a, b, [links |-> m, top |-> p])
    BY <1>2, <2>1, <2>5, <2>6, <2>7 DEF Melded
  <2> QED BY <2>8 DEF m
<1>3. CASE k[a] > k[b]
  <2>1. Melded(k, h, S, others, a, b, [links |-> Attached(h, a, b), top |-> a])
    BY <1>1, <1>2, <1>3
  <2> QED BY <1>1, <1>3, <2>1, MeldOfTwo
<1>4. CASE ~(k[a] > k[b])
  <2>1. Melded(k, h, S, others, a, b, [links |-> Attached(h, b, a), top |-> b])
    BY <1>1, <1>2, <1>4
  <2> QED BY <1>1, <1>4, <2>1, MeldOfTwo
<1> QED BY <1>3, <1>4

-----------------------------------------------------------------------------
(* The list that starts with a and goes on with to, and has the members R. *)
Chain(to, R, a) ==
  /\ a = Nil => R = {}
  /\ a # Nil => a \in R
  /\ \A x \in R : to[x] # Nil => to[x] \in R /\ to[x] # a
  /\ \A x, y \in R : to[x] = to[y] /\ to[x] # Nil => x = y
  /\ \A T \in SUBSET R : a \in T /\ (\A x \in T : to[x] # Nil => to[x] \in T) => T = R

LEMMA ChainRest ==
  ASSUME NEW to, NEW R, NEW a, a # Nil, Chain(to, R, a)
  PROVE  a \in R /\ Chain(to, R \ {a}, to[a])
<1> DEFINE L == R \ {a}
<1>1. a \in R /\ \A x \in R : x \in L <=> x # a
  BY DEF Chain
<1>2. to[a] = Nil => L = {}
  <2>1. to[a] = Nil => {a} = R
    BY <1>1 DEF Chain
  <2> QED BY <2>1
<1>3. to[a] # Nil => to[a] \in L
  BY <1>1 DEF Chain
<1>4. \A x \in L : to[x] # Nil => to[x] \in L /\ to[x] # to[a]
  BY <1>1 DEF Chain
<1>5. \A x, y \in L : to[x] = to[y] /\ to[x] # Nil => x = y
  BY DEF Chain
<1>6. ASSUME NEW T \in SUBSET L, to[a] \in T, \A x \in T : to[x] # Nil => to[x] \in T PROVE T = L
  <2>1. T \cup {a} \in SUBSET R
    BY <1>1
  <2>2. \A x \in T \cup {a} : to[x] # Nil => to[x] \in T \cup {a}
    BY <1>6
  <2>3. T \cup {a} = R
    BY <2>1, <2>2 DEF Chain
  <2> QED BY <2>3
<1> HIDE DEF L
<1>7. Chain(to, L, to[a])
  BY <1>2, <1>3, <1>4, <1>5, <1>6 DEF Chain
<1> QED BY <1>1, <1>7 DEF L

LEMMA ChainMore ==
  ASSUME NEW to, NEW on, NEW R, NEW a, NEW b, Chain(to, R, a), b \notin R, b # Nil, Nil \notin R,
         on[b] = a, \A x \in R : on[x] = to[x]
  PROVE  Chain(on, R \cup {b}, b)
<1>1. \A x \in R \cup {b} : on[x] # Nil => on[x] \in R \cup {b} /\ on[x] # b
  BY DEF Chain
<1>2. \A x, y \in R \cup {b} : on[x] = on[y] /\ on[x] # Nil => x = y
  BY DEF Chain
<1>3. ASSUME NEW T \in SUBSET (R \cup {b}), b \in T, \A x \in T : on[x] # Nil => on[x] \in T
      PROVE  T = R \cup {b}
  <2>1. T \cap R \in SUBSET R /\ \A x \in T \cap R : to[x] # Nil => to[x] \in T \cap R
    BY <1>3 DEF Chain
  <2>2. CASE a = Nil
    BY <1>3, <2>2 DEF Chain
  <2>3. CASE a # Nil
    <3>1. a \in T \cap R
      BY <1>3, <2>3 DEF Chain
    <3>2. T \cap R = R
      BY <2>1, <3>1 DEF Chain
    <3> QED BY <1>3, <3>2
  <2> QED BY <2>2, <2>3
<1> QED BY <1>1, <1>2, <1>3 DEF Chain

LEMMA ChainSame ==
  ASSUME NEW to, NEW on, NEW R, NEW a, Chain(to, R, a), \A x \in R : on[x] = to[x]
  PROVE  Chain(on, R, a)
  BY DEF Chain

-----------------------------------------------------------------------------
(* The two passes of mergePairs: what a round does, and the rounds. *)
PassType == [links : LinksType, rest : Nodes \cup {Nil}, top : Nodes \cup {Nil}]
PairOf(k, s) ==
  LET current == s.rest
      sibling == s.links.next[current]
      melded == Heap!Meld(k, s.links, current, sibling)
  IN IF sibling = Nil
     THEN [links |-> [s.links EXCEPT !.prev[current] = s.top], rest |-> Nil, top |-> current]
     ELSE [links |-> [melded.links EXCEPT !.prev[melded.top] = s.top],
           rest |-> s.links.next[sibling], top |-> melded.top]
CombineOf(k, s) ==
  LET melded == Heap!Meld(k, s.links, s.top, s.rest)
  IN [links |-> melded.links, rest |-> s.links.prev[s.rest], top |-> melded.top]

LEMMA HeapCount == \A S : Heap!Cardinality(S) = Cardinality(S)
  BY DEF Heap!Cardinality, Cardinality

LEMMA PassTypes ==
  ASSUME NEW k, NEW s \in PassType, s.rest # Nil
  PROVE  PairOf(k, s) \in PassType /\ CombineOf(k, s) \in PassType
<1>1. /\ s.links \in LinksType /\ s.rest \in Nodes /\ s.top \in Nodes \cup {Nil}
      /\ \A n \in Nodes : s.links.next[n] \in Nodes \cup {Nil} /\ s.links.prev[n] \in Nodes \cup {Nil}
  BY DEF PassType, LinksType, LinkType
<1>2. \A m \in TreeType : m.links \in LinksType /\ m.top \in Nodes \cup {Nil}
  BY DEF TreeType
<1>3. CombineOf(k, s) \in PassType
  <2>1. Heap!Meld(k, s.links, s.top, s.rest) \in TreeType
    BY <1>1, MeldType
  <2> QED BY <1>1, <1>2, <2>1 DEF CombineOf, PassType
<1>4. \A h \in LinksType, n, t \in Nodes \cup {Nil} : [h EXCEPT !.prev[n] = t] \in LinksType
  BY DEF LinksType, LinkType
<1>5. PairOf(k, s) \in PassType
  <2> DEFINE sibling == s.links.next[s.rest]
             m == Heap!Meld(k, s.links, s.rest, sibling)
  <2>1. CASE sibling = Nil
    <3>1. [s.links EXCEPT !.prev[s.rest] = s.top] \in LinksType
      BY <1>1, <1>4
    <3>2. PairOf(k, s) = [links |-> [s.links EXCEPT !.prev[s.rest] = s.top], rest |-> Nil, top |-> s.rest]
      BY <2>1 DEF PairOf
    <3> QED BY <1>1, <3>1, <3>2 DEF PassType
  <2>2. CASE sibling # Nil
    <3>1. m \in TreeType /\ s.links.next[sibling] \in Nodes \cup {Nil}
      BY <1>1, <2>2, MeldType
    <3>2. PairOf(k, s) = [links |-> [m.links EXCEPT !.prev[m.top] = s.top],
                          rest |-> s.links.next[sibling], top |-> m.top]
      BY <2>2 DEF PairOf
    <3> HIDE DEF m, sibling
    <3>3. [m.links EXCEPT !.prev[m.top] = s.top] \in LinksType
      BY <1>1, <1>2, <1>4, <3>1
    <3> QED BY <1>2, <3>1, <3>2, <3>3 DEF PassType
  <2> QED BY <2>1, <2>2
<1> QED BY <1>3, <1>5

PairRounds(k, a, result) ==
  \E f \in [0..Cardinality(Nodes) -> PassType] :
    /\ f[0] = a /\ result = f[Cardinality(Nodes)]
    /\ \A i \in 1..Cardinality(Nodes) :
         f[i] = IF f[i - 1].rest = Nil THEN f[i - 1] ELSE PairOf(k, f[i - 1])
CombineRounds(k, a, result) ==
  \E f \in [0..Cardinality(Nodes) -> PassType] :
    /\ f[0] = a /\ result = f[Cardinality(Nodes)]
    /\ \A i \in 1..Cardinality(Nodes) :
         f[i] = IF f[i - 1].rest = Nil THEN f[i - 1] ELSE CombineOf(k, f[i - 1])

LEMMA PairsByRounds ==
  ASSUME NEW k, NEW h \in LinksType, NEW first \in Nodes \cup {Nil}
  PROVE  PairRounds(k, [links |-> h, rest |-> first, top |-> Nil], Heap!Pairs(k, h, first))
<1> DEFINE N == Cardinality(Nodes)
           a == [links |-> h, rest |-> first, top |-> Nil]
           Round(s) == IF s.rest = Nil THEN s ELSE PairOf(k, s)
           Goes(f) == f = [i \in 0..N |-> IF i = 0 THEN a ELSE Round(f[i - 1])]
           paired == CHOOSE f : Goes(f)
           each == [x \in (1..N) \X PassType |-> Round(x[2])]
<1>1. N \in Nat
  BY HeapAssumption, FS_CardinalityType
<1>2. Heap!Pairs(k, h, first) = paired[N]
  BY HeapCount, Zenon DEF Heap!Pairs, PairOf
<1>3. a \in PassType /\ \A s \in PassType : Round(s) \in PassType
  <2>1. a \in PassType
    BY DEF PassType
  <2> QED BY <2>1, PassTypes
<1> HIDE DEF Round, a, N
<1>4. each \in [(1..N) \X PassType -> PassType]
  BY <1>3
<1>5. PICK f \in [0..N -> PassType] : f[0] = a /\ \A i \in 1..N : f[i] = each[<<i, f[i - 1]>>]
  <2>1. Iterates(N, PassType, a, each)
    <3> HIDE DEF each
    <3> QED BY <1>1, <1>3, <1>4, Recursion
  <2> QED BY <2>1 DEF Iterates
<1>6. ASSUME NEW i \in 1..N PROVE f[i] = Round(f[i - 1])
  <2>1. <<i, f[i - 1]>> \in (1..N) \X PassType
    BY <1>1
  <2> QED BY <1>5, <2>1
<1> HIDE DEF each
<1>7. Goes(f)
  <2>1. f = [i \in 0..N |-> f[i]]
    OBVIOUS
  <2>2. \A i \in 0..N : f[i] = IF i = 0 THEN a ELSE Round(f[i - 1])
    BY <1>1, <1>5, <1>6
  <2> QED BY <2>1, <2>2
<1>8. Goes(paired)
  BY <1>7
<1> HIDE DEF paired
<1>9. \A i \in 0..N : paired[i] = IF i = 0 THEN a ELSE Round(paired[i - 1])
  BY <1>8
<1> DEFINE T == {i \in 0..N : paired[i] = f[i]}
<1>10. N \in T
  <2>1. 0 \in T
    BY <1>1, <1>5, <1>9
  <2>2. \A i \in 0..(N - 1) : i \in T => i + 1 \in T
    <3> TAKE i \in 0..(N - 1)
    <3> HAVE i \in T
    <3>1. i + 1 \in 1..N /\ (i + 1) - 1 = i /\ i + 1 \in 0..N /\ i + 1 # 0
      BY <1>1
    <3> QED BY <1>6, <1>9, <3>1
  <2>3. N \in 0..N
    BY <1>1
  <2> HIDE DEF T
  <2> QED BY <1>1, <2>1, <2>2, <2>3, UpTo
<1> QED BY <1>2, <1>5, <1>6, <1>10 DEF PairRounds, Round, a, N

LEMMA CombineByRounds ==
  ASSUME NEW k, NEW h \in LinksType, NEW stack \in Nodes \cup {Nil}
  PROVE  CombineRounds(k, [links |-> h, rest |-> stack, top |-> Nil], Heap!Combine(k, h, stack))
<1> DEFINE N == Cardinality(Nodes)
           a == [links |-> h, rest |-> stack, top |-> Nil]
           Round(s) == IF s.rest = Nil THEN s ELSE CombineOf(k, s)
           Goes(f) == f = [i \in 0..N |-> IF i = 0 THEN a ELSE Round(f[i - 1])]
           combined == CHOOSE f : Goes(f)
           each == [x \in (1..N) \X PassType |-> Round(x[2])]
<1>1. N \in Nat
  BY HeapAssumption, FS_CardinalityType
<1>2. Heap!Combine(k, h, stack) = combined[N]
  BY HeapCount, Zenon DEF Heap!Combine, CombineOf
<1>3. a \in PassType /\ \A s \in PassType : Round(s) \in PassType
  <2>1. a \in PassType
    BY DEF PassType
  <2> QED BY <2>1, PassTypes
<1> HIDE DEF Round, a, N
<1>4. each \in [(1..N) \X PassType -> PassType]
  BY <1>3
<1>5. PICK f \in [0..N -> PassType] : f[0] = a /\ \A i \in 1..N : f[i] = each[<<i, f[i - 1]>>]
  <2>1. Iterates(N, PassType, a, each)
    <3> HIDE DEF each
    <3> QED BY <1>1, <1>3, <1>4, Recursion
  <2> QED BY <2>1 DEF Iterates
<1>6. ASSUME NEW i \in 1..N PROVE f[i] = Round(f[i - 1])
  <2>1. <<i, f[i - 1]>> \in (1..N) \X PassType
    BY <1>1
  <2> QED BY <1>5, <2>1
<1> HIDE DEF each
<1>7. Goes(f)
  <2>1. f = [i \in 0..N |-> f[i]]
    OBVIOUS
  <2>2. \A i \in 0..N : f[i] = IF i = 0 THEN a ELSE Round(f[i - 1])
    BY <1>1, <1>5, <1>6
  <2> QED BY <2>1, <2>2
<1>8. Goes(combined)
  BY <1>7
<1> HIDE DEF combined
<1>9. \A i \in 0..N : combined[i] = IF i = 0 THEN a ELSE Round(combined[i - 1])
  BY <1>8
<1> DEFINE T == {i \in 0..N : combined[i] = f[i]}
<1>10. N \in T
  <2>1. 0 \in T
    BY <1>1, <1>5, <1>9
  <2>2. \A i \in 0..(N - 1) : i \in T => i + 1 \in T
    <3> TAKE i \in 0..(N - 1)
    <3> HAVE i \in T
    <3>1. i + 1 \in 1..N /\ (i + 1) - 1 = i /\ i + 1 \in 0..N /\ i + 1 # 0
      BY <1>1
    <3> QED BY <1>6, <1>9, <3>1
  <2>3. N \in 0..N
    BY <1>1
  <2> HIDE DEF T
  <2> QED BY <1>1, <2>1, <2>2, <2>3, UpTo
<1> QED BY <1>2, <1>5, <1>6, <1>10 DEF CombineRounds, Round, a, N

(* Between two rounds of the first pass: the siblings R that are left, the
   stack Q, and tops A that are not concerned. *)
Pairing(k, h, S, A, s, R, Q) ==
  /\ s \in PassType
  /\ A \cap R = {} /\ A \cap Q = {} /\ R \cap Q = {} /\ R \cup Q # {}
  /\ Trees(k, s.links, S, A \cup R \cup Q)
  /\ Chain(s.links.next, R, s.rest) /\ Chain(s.links.prev, Q, s.top)
  /\ \A n \in Q : s.links.next[n] = Nil
  /\ StayOutside(h, s.links, S)

(* A round of the first pass keeps all of that. *)
LEMMA PairedTrees ==
  ASSUME NEW k, NEW h, NEW S, NEW A, NEW s, NEW R, NEW Q, Pairing(k, h, S, A, s, R, Q), s.rest # Nil
  PROVE  \E P, V : Pairing(k, h, S, A, PairOf(k, s), P, V) /\ P \subseteq R \ {s.rest} /\ s.rest \in R
<1> DEFINE c == s.rest
           b == s.links.next[c]
           m == s.links
           u == PairOf(k, s)
<1>1. /\ m \in LinksType /\ s.top \in Nodes \cup {Nil} /\ u \in PassType
      /\ S \subseteq Nodes /\ A \subseteq S /\ R \subseteq S /\ Q \subseteq S
      /\ Nil \notin S
  BY HeapAssumption, PassTypes DEF Pairing, Trees, PassType
<1>2. c \in R /\ Chain(m.next, R \ {c}, b) /\ c # Nil
  BY ChainRest DEF Pairing
<1>3. \A t \in {c} \cup R \cup Q : t \in Nodes /\ t # Nil
  BY <1>1, <1>2
<1>4. CASE b = Nil
  <2> DEFINE j == [m EXCEPT !.prev[c] = s.top]
  <2>1. u = [links |-> j, rest |-> Nil, top |-> c]
    BY <1>4 DEF PairOf
  <2>2. /\ j.next = m.next /\ j.child = m.child /\ j \in LinksType
        /\ \A n \in Nodes : j.prev[n] = IF n = c THEN s.top ELSE m.prev[n]
    BY <1>1, <1>3 DEF LinksType, LinkType
  <2>3. R = {c}
    BY <1>2, <1>4 DEF Chain
  <2> HIDE DEF j, b, c, m, u
  <2>4. Trees(k, j, S, A \cup R \cup Q)
    <3>1. SameInside(m, j, S, A \cup R \cup Q)
      BY <1>1, <1>2, <2>2 DEF SameInside
    <3> QED BY <3>1, TreesOfLinks DEF Pairing, m
  <2>5. A \cup R \cup Q = A \cup {} \cup (Q \cup {c})
    BY <2>3
  <2>6. Chain(j.prev, Q \cup {c}, c)
    <3>1. Chain(m.prev, Q, s.top) /\ c \notin Q
      BY <1>2 DEF Pairing, m
    <3>2. \A x \in Q : j.prev[x] = m.prev[x]
      BY <1>3, <2>2, <3>1
    <3>3. j.prev[c] = s.top /\ Nil \notin Q
      BY <1>3, <2>2
    <3> QED BY <1>2, <3>1, <3>2, <3>3, ChainMore
  <2>7. Chain(j.next, {}, Nil)
    BY DEF Chain
  <2>8. StayOutside(h, j, S)
    BY <2>2 DEF Pairing, StayOutside, m
  <2>9. \A n \in Q \cup {c} : j.next[n] = Nil
    BY <1>4, <2>2 DEF Pairing, m, b
  <2>10. Pairing(k, h, S, A, u, {}, Q \cup {c})
    <3>1. u \in PassType /\ u.links = j /\ u.rest = Nil /\ u.top = c
      BY <1>1, <2>1
    <3>2. A \cap (Q \cup {c}) = {}
      BY <1>2 DEF Pairing
    <3>3. Trees(k, j, S, A \cup {} \cup (Q \cup {c}))
      BY <2>4, <2>5
    <3> QED BY <2>6, <2>7, <2>8, <2>9, <3>1, <3>2, <3>3 DEF Pairing
  <2> QED BY <1>2, <2>10 DEF u, c
<1>5. CASE b # Nil
  <2> DEFINE P == (R \ {c}) \ {b}
             w == Heap!Meld(k, m, c, b)
             j == [w.links EXCEPT !.prev[w.top] = s.top]
             others == A \cup P \cup Q
  <2>1. b \in R \ {c} /\ Chain(m.next, P, m.next[b])
    BY <1>2, <1>5, ChainRest
  <2>2. u = [links |-> j, rest |-> m.next[b], top |-> w.top]
    BY <1>5 DEF PairOf
  <2>3. A \cup R \cup Q = others \cup {c, b} /\ c \notin others /\ b \notin others /\ c # b
    BY <1>2, <2>1 DEF Pairing
  <2> HIDE DEF others, P, w, b, c, m, u
  <2>4. Melded(k, m, S, others, c, b, w)
    <3>1. Trees(k, m, S, others \cup {c, b})
      BY <2>3 DEF Pairing, m
    <3> QED BY <1>1, <2>3, <3>1, MeldedTrees DEF w
  <2>5. /\ w.top \in {c, b} /\ w.links \in LinksType /\ w.top \in Nodes
        /\ \A n \in Nodes : n # c /\ n # b => w.links.child[n] = m.child[n] /\ w.links.next[n] = m.next[n]
        /\ \A n \in others : w.links.prev[n] = m.prev[n]
        /\ w.links.next[w.top] = Nil /\ Trees(k, w.links, S, others \cup {w.top})
    BY <1>3, <2>1, <2>4 DEF Melded
  <2>6. /\ j.next = w.links.next /\ j.child = w.links.child
        /\ \A n \in Nodes : j.prev[n] = IF n = w.top THEN s.top ELSE w.links.prev[n]
    <3>1. \A v \in LinksType, n \in Nodes, t \in Nodes \cup {Nil} :
            LET x == [v EXCEPT !.prev[n] = t]
            IN x.next = v.next /\ x.child = v.child /\ \A y \in Nodes : x.prev[y] = IF y = n THEN t ELSE v.prev[y]
      BY DEF LinksType, LinkType
    <3> QED BY <1>1, <2>5, <3>1
  <2> HIDE DEF j
  <2>7. Trees(k, j, S, others \cup {w.top})
    <3>1. SameInside(w.links, j, S, others \cup {w.top})
      BY <1>1, <2>6 DEF SameInside
    <3> QED BY <2>5, <3>1, TreesOfLinks
  <2>8. others \cup {w.top} = A \cup P \cup (Q \cup {w.top})
    BY DEF others
  <2>9. w.top \notin Q /\ w.top \notin A /\ w.top \notin P /\ w.top \in R
    BY <1>2, <2>1, <2>3, <2>5 DEF Pairing, P
  <2>10. Chain(j.next, P, m.next[b])
    <3>1. \A x \in P : j.next[x] = m.next[x]
      BY <1>3, <2>5, <2>6 DEF P
    <3> QED BY <2>1, <3>1, ChainSame
  <2>11. Chain(j.prev, Q \cup {w.top}, w.top)
    <3>1. Chain(m.prev, Q, s.top) /\ Nil \notin Q /\ w.top # Nil
      BY <1>3, <2>9 DEF Pairing, m
    <3>2. \A x \in Q : j.prev[x] = m.prev[x]
      <4> TAKE x \in Q
      <4>1. x \in others /\ x # w.top /\ x \in Nodes
        BY <1>3, <2>9 DEF others
      <4> QED BY <2>5, <2>6, <4>1
    <3>3. j.prev[w.top] = s.top
      BY <2>5, <2>6
    <3> QED BY <2>9, <3>1, <3>2, <3>3, ChainMore
  <2>12. StayOutside(h, j, S)
    <3> SUFFICES ASSUME NEW n \in Nodes \ S PROVE j.child[n] = h.child[n] /\ j.next[n] = h.next[n]
      BY DEF StayOutside
    <3>1. n # c /\ n # b
      BY <1>1, <1>2, <2>1
    <3>2. m.child[n] = h.child[n] /\ m.next[n] = h.next[n]
      BY DEF Pairing, StayOutside, m
    <3> QED BY <2>5, <2>6, <3>1, <3>2
  <2>13. \A n \in Q \cup {w.top} : j.next[n] = Nil
    <3>1. \A n \in Q : n \in Nodes /\ n # c /\ n # b /\ m.next[n] = Nil
      BY <1>2, <1>3, <2>1 DEF Pairing, m
    <3> QED BY <2>5, <2>6, <3>1
  <2>14. Pairing(k, h, S, A, u, P, Q \cup {w.top})
    <3>1. u \in PassType /\ u.links = j /\ u.rest = m.next[b] /\ u.top = w.top
      BY <1>1, <2>2
    <3>2. A \cap P = {} /\ A \cap (Q \cup {w.top}) = {} /\ P \cap (Q \cup {w.top}) = {}
      BY <2>9 DEF Pairing, P
    <3>3. Trees(k, j, S, A \cup P \cup (Q \cup {w.top}))
      BY <2>7, <2>8
    <3> QED BY <2>10, <2>11, <2>12, <2>13, <3>1, <3>2, <3>3 DEF Pairing
  <2>15. P \subseteq R \ {c}
    BY DEF P
  <2> QED BY <1>2, <2>14, <2>15 DEF u, c
<1> QED BY <1>4, <1>5

(* After as many rounds as there are nodes the first pass has paired all of them. *)
LEMMA PairsDone ==
  ASSUME NEW k, NEW h \in LinksType, NEW S, NEW A, NEW R, NEW first \in Nodes \cup {Nil},
         Trees(k, h, S, A \cup R), A \cap R = {}, R # {}, Chain(h.next, R, first)
  PROVE  \E Q : Pairing(k, h, S, A, Heap!Pairs(k, h, first), {}, Q)
<1> DEFINE N == Cardinality(Nodes)
           a == [links |-> h, rest |-> first, top |-> Nil]
           result == Heap!Pairs(k, h, first)
<1>1. N \in Nat /\ R \in SUBSET Nodes /\ a \in PassType
  BY HeapAssumption, FS_CardinalityType DEF Trees, PassType
<1>2. PICK f \in [0..N -> PassType] :
        /\ f[0] = a /\ result = f[N]
        /\ \A i \in 1..N : f[i] = IF f[i - 1].rest = Nil THEN f[i - 1] ELSE PairOf(k, f[i - 1])
  BY PairsByRounds DEF PairRounds
<1>3. Pairing(k, h, S, A, a, R, {})
  <2>1. A \cup R \cup {} = A \cup R
    OBVIOUS
  <2>2. Chain(h.prev, {}, Nil)
    BY DEF Chain
  <2>3. StayOutside(h, h, S)
    BY DEF StayOutside
  <2> QED BY <1>1, <2>1, <2>2, <2>3 DEF Pairing
<1>4. ASSUME NEW T \in SUBSET Nodes PROVE IsFiniteSet(T) /\ Cardinality(T) \in Nat /\ Cardinality(T) <= N
  BY HeapAssumption, FS_Subset, FS_CardinalityType
<1> HIDE DEF N, a, result
<1> DEFINE Good(i) == \E P, Q : /\ Pairing(k, h, S, A, f[i], P, Q)
                               /\ P \in SUBSET Nodes /\ Cardinality(P) <= N - i
           I == {i \in 0..N : Good(i)}
<1>5. 0 \in I
  <2>1. Cardinality(R) <= N - 0
    BY <1>1, <1>4
  <2>2. Good(0)
    BY <1>1, <1>2, <1>3, <2>1
  <2> HIDE DEF Good
  <2> QED BY <1>1, <2>2
<1>6. \A i \in 0..(N - 1) : i \in I => i + 1 \in I
  <2> TAKE i \in 0..(N - 1)
  <2> HAVE i \in I
  <2>1. i + 1 \in 1..N /\ (i + 1) - 1 = i /\ i + 1 \in 0..N /\ i \in Nat
    BY <1>1
  <2>2. PICK P, Q : Pairing(k, h, S, A, f[i], P, Q) /\ P \in SUBSET Nodes /\ Cardinality(P) <= N - i
    OBVIOUS
  <2>3. f[i + 1] = IF f[i].rest = Nil THEN f[i] ELSE PairOf(k, f[i])
    BY <1>2, <2>1
  <2>4. CASE f[i].rest = Nil
    <3>1. P = {}
      BY <2>2, <2>4 DEF Pairing, Chain
    <3>2. Cardinality(P) <= N - (i + 1)
      BY <1>1, <2>1, <3>1, FS_EmptySet
    <3>3. Good(i + 1)
      BY <2>2, <2>3, <2>4, <3>2
    <3> HIDE DEF Good
    <3> QED BY <2>1, <3>3
  <2>5. CASE f[i].rest # Nil
    <3>1. PICK L, V : /\ Pairing(k, h, S, A, PairOf(k, f[i]), L, V)
                      /\ L \subseteq P \ {f[i].rest} /\ f[i].rest \in P
      BY <2>2, <2>5, PairedTrees
    <3>2. Cardinality(P \ {f[i].rest}) = Cardinality(P) - 1 /\ IsFiniteSet(P \ {f[i].rest})
      BY <1>4, <2>2, <3>1, FS_RemoveElement
    <3>3. Cardinality(L) <= Cardinality(P \ {f[i].rest}) /\ L \in SUBSET Nodes
      BY <2>2, <3>1, <3>2, FS_Subset
    <3>4. Cardinality(L) <= N - (i + 1)
      <4>1. Cardinality(L) \in Nat /\ Cardinality(P) \in Nat
        BY <1>4, <2>2, <3>3
      <4> QED BY <1>1, <2>1, <2>2, <3>2, <3>3, <4>1
    <3>5. Good(i + 1)
      BY <2>3, <2>5, <3>1, <3>3, <3>4
    <3> HIDE DEF Good
    <3> QED BY <2>1, <3>5
  <2> QED BY <2>4, <2>5
<1>7. N \in I
  <2>1. \A i \in 0..N : i \in I
    <3> HIDE DEF I
    <3> QED BY <1>1, <1>5, <1>6, UpTo
  <2>2. N \in 0..N
    BY <1>1
  <2> HIDE DEF I
  <2> QED BY <2>1, <2>2
<1>8. PICK P, Q : Pairing(k, h, S, A, result, P, Q) /\ P \in SUBSET Nodes /\ Cardinality(P) <= N - N
  BY <1>2, <1>7
<1>9. P = {}
  <2>1. Cardinality(P) = 0 /\ IsFiniteSet(P)
    BY <1>1, <1>4, <1>8
  <2> QED BY <2>1, FS_EmptySet
<1> QED BY <1>8, <1>9 DEF result

(* Between two rounds of the second pass: what is left of the stack, Q, and
   the tree that is being built, unless it is the first round. *)
Combining(k, h, S, A, s, Q) ==
  /\ s \in PassType
  /\ A \cap Q = {} /\ s.top \notin A \cup Q /\ (s.top = Nil => Q # {})
  /\ Trees(k, s.links, S, A \cup Q \cup ({s.top} \ {Nil}))
  /\ Chain(s.links.prev, Q, s.rest)
  /\ \A n \in Q : s.links.next[n] = Nil
  /\ s.top # Nil => s.links.next[s.top] = Nil
  /\ StayOutside(h, s.links, S)

(* A round of the second pass keeps all of that. *)
LEMMA CombinedTrees ==
  ASSUME NEW k, NEW h, NEW S, NEW A, NEW s, NEW Q, Combining(k, h, S, A, s, Q), s.rest # Nil
  PROVE  Combining(k, h, S, A, CombineOf(k, s), Q \ {s.rest}) /\ s.rest \in Q
<1> DEFINE a == s.top
           b == s.rest
           m == s.links
           w == Heap!Meld(k, m, a, b)
           u == CombineOf(k, s)
           P == Q \ {b}
           others == A \cup P
<1>1. /\ m \in LinksType /\ u \in PassType /\ S \subseteq Nodes /\ Nil \notin Nodes
      /\ Q \subseteq S /\ A \subseteq S /\ a \in Nodes \cup {Nil}
      /\ u.links = w.links /\ u.rest = m.prev[b] /\ u.top = w.top
  BY HeapAssumption, PassTypes DEF Combining, Trees, PassType, CombineOf
<1>2. b \in Q /\ Chain(m.prev, P, m.prev[b])
  BY ChainRest DEF Combining
<1>3. b \in Nodes /\ b \notin others /\ a \notin others /\ a # b
  BY <1>1, <1>2 DEF Combining
<1>4. \A n \in Q : m.next[n] = Nil
  BY DEF Combining
<1>5. StayOutside(h, m, S) /\ Trees(k, m, S, A \cup Q \cup ({a} \ {Nil}))
  BY DEF Combining
<1>6. A \cap P = {}
  BY DEF Combining
<1>7. A \cup Q = others \cup {b}
  BY <1>2
<1> HIDE DEF u, m, P, others, w, a, b
<1>8. CASE a = Nil
  <2>1. w = [links |-> m, top |-> b]
    BY <1>8, MeldOfNone DEF w
  <2>2. Trees(k, m, S, A \cup P \cup ({b} \ {Nil}))
    <3>1. A \cup Q \cup ({a} \ {Nil}) = A \cup P \cup ({b} \ {Nil})
      BY <1>1, <1>3, <1>7, <1>8 DEF others
    <3> QED BY <1>5, <3>1
  <2>3. \A n \in P : m.next[n] = Nil
    BY <1>4 DEF P
  <2>4. Combining(k, h, S, A, u, P)
    <3>1. u.links = m /\ u.top = b /\ b # Nil /\ u.rest = m.prev[b]
      BY <1>1, <1>3, <2>1
    <3>2. u.top \notin A \cup P
      BY <1>3, <3>1 DEF others
    <3> QED BY <1>1, <1>2, <1>4, <1>5, <1>6, <2>2, <2>3, <3>1, <3>2 DEF Combining
  <2> QED BY <1>2, <2>4 DEF u, P, b
<1>9. CASE a # Nil
  <2>1. Melded(k, m, S, others, a, b, w)
    <3>1. A \cup Q \cup ({a} \ {Nil}) = others \cup {a, b}
      BY <1>7, <1>9
    <3>2. Trees(k, m, S, others \cup {a, b})
      BY <1>5, <3>1
    <3> QED BY <1>1, <1>3, <3>2, MeldedTrees DEF w
  <2>2. /\ w.top \in {a, b} /\ w.top \in Nodes /\ w.top # Nil
        /\ Trees(k, w.links, S, others \cup {w.top}) /\ w.links.next[w.top] = Nil
        /\ \A n \in Nodes : n # a /\ n # b => w.links.child[n] = m.child[n] /\ w.links.next[n] = m.next[n]
        /\ \A n \in others : w.links.prev[n] = m.prev[n]
    BY <1>1, <1>3, <1>9, <2>1 DEF Melded
  <2>3. Trees(k, w.links, S, A \cup P \cup ({w.top} \ {Nil}))
    <3>1. others \cup {w.top} = A \cup P \cup ({w.top} \ {Nil})
      BY <2>2 DEF others
    <3> QED BY <2>2, <3>1
  <2>4. Chain(w.links.prev, P, m.prev[b])
    <3>1. \A n \in P : w.links.prev[n] = m.prev[n]
      BY <2>2 DEF others
    <3> QED BY <1>2, <3>1, ChainSame
  <2>5. \A n \in P : w.links.next[n] = Nil
    <3>1. \A n \in P : n \in Nodes /\ n # a /\ n # b /\ m.next[n] = Nil
      BY <1>1, <1>3, <1>4 DEF P, others
    <3> QED BY <2>2, <3>1
  <2>6. a \in S
    BY <1>5, <1>9 DEF Trees
  <2>7. StayOutside(h, w.links, S)
    BY <1>1, <1>2, <1>5, <2>2, <2>6 DEF StayOutside
  <2>8. Combining(k, h, S, A, u, P)
    <3>1. w.top \notin A \cup P
      BY <1>3, <2>2 DEF others
    <3> QED BY <1>1, <1>6, <2>2, <2>3, <2>4, <2>5, <2>7, <3>1 DEF Combining
  <2> QED BY <1>2, <2>8 DEF u, P, b
<1> QED BY <1>8, <1>9

(* ... and the second one has melded the whole stack. *)
LEMMA CombineDone ==
  ASSUME NEW k, NEW h, NEW S, NEW A, NEW Q, NEW m \in LinksType, NEW stack \in Nodes \cup {Nil},
         Combining(k, h, S, A, [links |-> m, rest |-> stack, top |-> Nil], Q)
  PROVE  Combining(k, h, S, A, Heap!Combine(k, m, stack), {})
<1> DEFINE N == Cardinality(Nodes)
           a == [links |-> m, rest |-> stack, top |-> Nil]
           result == Heap!Combine(k, m, stack)
<1>1. N \in Nat /\ Q \in SUBSET Nodes
  BY HeapAssumption, FS_CardinalityType DEF Trees, Combining
<1>2. PICK f \in [0..N -> PassType] :
        /\ f[0] = a /\ result = f[N]
        /\ \A i \in 1..N : f[i] = IF f[i - 1].rest = Nil THEN f[i - 1] ELSE CombineOf(k, f[i - 1])
  BY CombineByRounds DEF CombineRounds
<1>3. Combining(k, h, S, A, a, Q)
  OBVIOUS
<1>4. ASSUME NEW T \in SUBSET Nodes PROVE IsFiniteSet(T) /\ Cardinality(T) \in Nat /\ Cardinality(T) <= N
  BY HeapAssumption, FS_Subset, FS_CardinalityType
<1> HIDE DEF N, a, result
<1> DEFINE Good(i) == \E P \in SUBSET Nodes : Combining(k, h, S, A, f[i], P) /\ Cardinality(P) <= N - i
           I == {i \in 0..N : Good(i)}
<1>5. 0 \in I
  <2>1. Cardinality(Q) <= N - 0
    BY <1>1, <1>4
  <2>2. Good(0)
    BY <1>1, <1>2, <1>3, <2>1
  <2> HIDE DEF Good
  <2> QED BY <1>1, <2>2
<1>6. \A i \in 0..(N - 1) : i \in I => i + 1 \in I
  <2> TAKE i \in 0..(N - 1)
  <2> HAVE i \in I
  <2>1. i + 1 \in 1..N /\ (i + 1) - 1 = i /\ i + 1 \in 0..N /\ i \in Nat
    BY <1>1
  <2>2. PICK P \in SUBSET Nodes : Combining(k, h, S, A, f[i], P) /\ Cardinality(P) <= N - i
    OBVIOUS
  <2>3. f[i + 1] = IF f[i].rest = Nil THEN f[i] ELSE CombineOf(k, f[i])
    BY <1>2, <2>1
  <2>4. CASE f[i].rest = Nil
    <3>1. P = {}
      BY <2>2, <2>4 DEF Combining, Chain
    <3>2. Cardinality(P) <= N - (i + 1)
      BY <1>1, <2>1, <3>1, FS_EmptySet
    <3>3. Good(i + 1)
      BY <2>2, <2>3, <2>4, <3>2
    <3> HIDE DEF Good
    <3> QED BY <2>1, <3>3
  <2>5. CASE f[i].rest # Nil
    <3> DEFINE x == f[i].rest
    <3>1. Combining(k, h, S, A, CombineOf(k, f[i]), P \ {x}) /\ x \in P
      BY <2>2, <2>5, CombinedTrees
    <3>2. Cardinality(P \ {x}) = Cardinality(P) - 1 /\ P \ {x} \in SUBSET Nodes
      BY <1>4, <2>2, <3>1, FS_RemoveElement
    <3>3. Cardinality(P \ {x}) <= N - (i + 1)
      <4>1. Cardinality(P) \in Nat
        BY <1>4, <2>2
      <4> QED BY <1>1, <2>1, <2>2, <3>2, <4>1
    <3>4. Good(i + 1)
      BY <2>3, <2>5, <3>1, <3>2, <3>3
    <3> HIDE DEF Good
    <3> QED BY <2>1, <3>4
  <2> QED BY <2>4, <2>5
<1>7. N \in I
  <2>1. \A i \in 0..N : i \in I
    <3> HIDE DEF I
    <3> QED BY <1>1, <1>5, <1>6, UpTo
  <2>2. N \in 0..N
    BY <1>1
  <2> HIDE DEF I
  <2> QED BY <2>1, <2>2
<1>8. PICK P \in SUBSET Nodes : Combining(k, h, S, A, result, P) /\ Cardinality(P) <= N - N
  BY <1>2, <1>7
<1>9. P = {}
  <2>1. Cardinality(P) = 0 /\ IsFiniteSet(P)
    BY <1>1, <1>4, <1>8
  <2> QED BY <2>1, FS_EmptySet
<1> QED BY <1>8, <1>9 DEF result

(* mergePairs makes one tree of the trees of a list of siblings. *)
Merges(k, h, S, A, m) ==
  /\ m \in TreeType
  /\ m.top = Nil => m.links = h
  /\ m.top # Nil => m.top \notin A /\ m.links.next[m.top] = Nil
  /\ Trees(k, m.links, S, A \cup ({m.top} \ {Nil}))
  /\ StayOutside(h, m.links, S)

(* mergePairs makes one tree of the siblings in R. *)
LEMMA PairsMerged ==
  ASSUME NEW k, NEW h \in LinksType, NEW S, NEW A, NEW R, NEW first \in Nodes \cup {Nil},
         Trees(k, h, S, A \cup R), A \cap R = {}, Chain(h.next, R, first)
  PROVE  Merges(k, h, S, A, Heap!MergePairs(k, h, first))
<1> DEFINE m == Heap!MergePairs(k, h, first)
<1>1. CASE first = Nil
  <2>1. m = [links |-> h, top |-> Nil] /\ R = {}
    BY <1>1 DEF Heap!MergePairs, Heap!Tree, Chain
  <2>2. A \cup R = A \cup ({Nil} \ {Nil})
    BY <2>1
  <2>3. Trees(k, h, S, A \cup ({Nil} \ {Nil}))
    BY <2>2
  <2> HIDE DEF m
  <2>4. m.links = h /\ m.top = Nil /\ m \in TreeType
    BY <2>1 DEF TreeType
  <2>5. Merges(k, h, S, A, m)
    BY <2>3, <2>4 DEF Merges, StayOutside
  <2> QED BY <2>5 DEF m
<1>2. CASE first # Nil
  <2> DEFINE p == Heap!Pairs(k, h, first)
             c == Heap!Combine(k, p.links, p.top)
  <2>1. R # {}
    BY <1>2 DEF Chain
  <2>2. PICK Q : Pairing(k, h, S, A, p, {}, Q)
    BY <2>1, PairsDone
  <2>3. m = [links |-> c.links, top |-> c.top]
    BY <1>2 DEF Heap!MergePairs, Heap!Tree
  <2> HIDE DEF p, m
  <2>4. p.links \in LinksType /\ p.top \in Nodes \cup {Nil}
    BY <2>2 DEF Pairing, PassType
  <2>5. Combining(k, h, S, A, [links |-> p.links, rest |-> p.top, top |-> Nil], Q)
    <3>1. A \cup {} \cup Q = A \cup Q \cup ({Nil} \ {Nil})
      OBVIOUS
    <3>2. Nil \notin A \cup Q
      BY <2>2, HeapAssumption DEF Pairing, Trees
    <3> QED BY <2>2, <2>4, <3>1, <3>2 DEF Pairing, Combining, PassType
  <2>6. Combining(k, h, S, A, c, {})
    BY <2>4, <2>5, CombineDone
  <2> HIDE DEF c
  <2>7. A \cup {} \cup ({c.top} \ {Nil}) = A \cup ({c.top} \ {Nil})
    OBVIOUS
  <2>8. c.links \in LinksType /\ c.top \in Nodes \cup {Nil}
    BY <2>6 DEF Combining, PassType
  <2>9. Merges(k, h, S, A, m)
    <3>1. c.top # Nil
      BY <2>6 DEF Combining
    <3> QED BY <2>3, <2>6, <2>7, <2>8, <3>1 DEF Combining, Merges, TreeType
  <2> QED BY <2>9 DEF m
<1> QED BY <1>1, <1>2

-----------------------------------------------------------------------------
(* When a top is taken away its children become tops: a list of siblings. *)
Orphans(k, h, S, tops, n, R) ==
  /\ Trees(k, h, S \ {n}, (tops \ {n}) \cup R)
  /\ (tops \ {n}) \cap R = {}
  /\ Chain(h.next, R, h.child[n])

(* A top that is taken away leaves its children as tops, chained by next. *)
LEMMA TopTaken ==
  ASSUME NEW k, NEW h, NEW S, NEW tops, Trees(k, h, S, tops), NEW n \in tops
  PROVE  \E R : Orphans(k, h, S, tops, n, R)
<1>1. PICK par \in [S -> S] : Under(k, h, S, tops, par)
  BY DEF Trees
<1> DEFINE R == {x \in S \ tops : par[x] = n}
           U == S \ {n}
           ups == (tops \ {n}) \cup R
           q == [x \in U |-> IF par[x] = n THEN x ELSE par[x]]
           first == h.child[n]
<1>2. /\ S \subseteq Nodes /\ tops \subseteq S /\ Nil \notin S /\ Bonds(h, S, tops)
      /\ \A x \in S : k[x] \in Int
  BY HeapAssumption DEF Trees
<1>3. /\ \A x : x \in R <=> x \in S /\ x \notin tops /\ par[x] = n
      /\ \A x : x \in U <=> x \in S /\ x # n
      /\ \A x : x \in ups <=> (x \in tops /\ x # n) \/ x \in R
      /\ \A x \in U : q[x] = IF par[x] = n THEN x ELSE par[x]
  OBVIOUS
<1>4. ups \subseteq U /\ (tops \ {n}) \cap R = {} /\ \A x \in U \ ups : x \in S \ tops /\ par[x] # n
  BY <1>2
<1>5. q \in [U -> U]
  <2>1. \A x \in U : (IF par[x] = n THEN x ELSE par[x]) \in U
    BY <1>3
  <2> QED BY <2>1
<1> HIDE DEF R, U, ups, q
<1>6. \A x \in S : h.child[x] # Nil =>
        h.child[x] \in S \ tops /\ h.prev[h.child[x]] = x /\ par[h.child[x]] = x
  BY <1>1, <1>2 DEF Bonds, Under
<1>7. \A x \in S \ tops :
        /\ h.next[x] # Nil => /\ h.next[x] \in S \ tops /\ h.prev[h.next[x]] = x
                              /\ h.next[x] # h.child[x] /\ par[h.next[x]] = par[x]
        /\ h.prev[x] \in S /\ k[x] <= k[par[x]] /\ par[x] \in S
        /\ h.child[h.prev[x]] = x \/ (h.prev[x] \notin tops /\ h.next[h.prev[x]] = x)
  BY <1>1, <1>2 DEF Bonds, Under
<1>8. Bonds(h, U, ups)
  <2>1. ASSUME NEW x \in U, h.child[x] # Nil
        PROVE  h.child[x] \in U \ ups /\ h.prev[h.child[x]] = x
    BY <1>3, <1>6, <2>1
  <2>2. ASSUME NEW x \in U \ ups, h.next[x] # Nil
        PROVE  h.next[x] \in U \ ups /\ h.prev[h.next[x]] = x /\ h.next[x] # h.child[x]
    BY <1>3, <1>4, <1>7, <2>2
  <2>3. ASSUME NEW x \in U \ ups
        PROVE  /\ h.prev[x] \in U
               /\ h.child[h.prev[x]] = x \/ (h.prev[x] \notin ups /\ h.next[h.prev[x]] = x)
    <3>1. x \in S \ tops /\ par[x] # n /\ h.prev[x] \in S
      BY <1>4, <1>7
    <3>2. CASE h.child[h.prev[x]] = x
      <4>1. par[x] = h.prev[x]
        BY <1>2, <1>6, <3>1, <3>2
      <4> QED BY <1>3, <3>1, <3>2, <4>1
    <3>3. CASE h.prev[x] \notin tops /\ h.next[h.prev[x]] = x
      <4>1. par[x] = par[h.prev[x]]
        BY <1>2, <1>7, <3>1, <3>3
      <4> QED BY <1>3, <3>1, <3>3, <4>1
    <3> QED BY <1>7, <3>1, <3>2, <3>3
  <2> QED BY <2>1, <2>2, <2>3 DEF Bonds
<1>9. Reached(h, U, ups)
  <2> SUFFICES ASSUME NEW T \in SUBSET U, ClosedIn(h, ups, T) PROVE T = U
    BY DEF Reached
  <2>1. T \cup {n} \in SUBSET S /\ tops \subseteq T \cup {n} /\ R \subseteq T
    BY <1>2, <1>3 DEF ClosedIn
  <2>2. first # Nil => first \in R
    BY <1>2, <1>3, <1>6
  <2>3. \A x \in T \cup {n} : h.child[x] # Nil => h.child[x] \in T \cup {n}
    BY <2>1, <2>2 DEF ClosedIn
  <2>4. \A x \in T \cup {n} : x \notin tops /\ h.next[x] # Nil => h.next[x] \in T \cup {n}
    <3> TAKE x \in T \cup {n}
    <3> HAVE x \notin tops /\ h.next[x] # Nil
    <3>1. CASE x \in R
      <4>1. h.next[x] \in R
        BY <1>3, <1>7, <3>1
      <4> QED BY <2>1, <4>1
    <3>2. CASE x \notin R
      <4>1. x \in T /\ x \notin ups
        BY <1>3, <3>2
      <4> QED BY <4>1 DEF ClosedIn
    <3> QED BY <3>1, <3>2
  <2>5. T \cup {n} = S
    <3>1. ClosedIn(h, tops, T \cup {n})
      BY <2>1, <2>3, <2>4 DEF ClosedIn
    <3> QED BY <2>1, <3>1 DEF Trees, Reached
  <2> QED BY <1>3, <2>5
<1>10. Under(k, h, U, ups, q)
  <2>1. ASSUME NEW x \in U, h.child[x] # Nil PROVE q[h.child[x]] = x
    <3>1. h.child[x] \in U /\ par[h.child[x]] = x /\ x # n
      BY <1>3, <1>6, <1>8, <2>1 DEF Bonds
    <3> QED BY <1>3, <3>1
  <2>2. ASSUME NEW x \in U \ ups
        PROVE  k[x] <= k[q[x]] /\ (h.next[x] # Nil => q[h.next[x]] = q[x])
    <3>1. x \in S \ tops /\ q[x] = par[x] /\ par[x] # n
      BY <1>3, <1>4
    <3>2. h.next[x] # Nil => h.next[x] \in U /\ par[h.next[x]] = par[x]
      BY <1>3, <1>7, <3>1
    <3> QED BY <1>3, <1>7, <3>1, <3>2
  <2> QED BY <2>1, <2>2 DEF Under
<1>11. Trees(k, h, U, ups)
  <2>1. U \subseteq Nodes /\ \A x \in U : k[x] \in Int
    BY <1>2, <1>3
  <2> QED BY <1>4, <1>5, <1>8, <1>9, <1>10, <2>1 DEF Trees
<1>12. Chain(h.next, R, first)
  <2>1. first # Nil => first \in R
    BY <1>2, <1>3, <1>6
  <2>2. \A x \in R : h.next[x] # Nil => h.next[x] \in R /\ h.next[x] # first
    <3> TAKE x \in R
    <3> HAVE h.next[x] # Nil
    <3>1. h.next[x] \in R /\ h.prev[h.next[x]] = x /\ x # n
      BY <1>2, <1>3, <1>7
    <3> QED BY <1>2, <1>6, <3>1
  <2>3. \A x, y \in R : h.next[x] = h.next[y] /\ h.next[x] # Nil => x = y
    BY <1>3, <1>7
  <2>4. ASSUME NEW T \in SUBSET R, first # Nil => first \in T,
               \A x \in T : h.next[x] # Nil => h.next[x] \in T
        PROVE  T = R
    <3> DEFINE V == (S \ R) \cup T
    <3>1. \A x : x \in V <=> x \in S /\ (x \notin R \/ x \in T)
      BY <1>3
    <3> HIDE DEF V
    <3>2. tops \subseteq V /\ V \in SUBSET S
      BY <1>2, <1>3, <3>1
    <3>3. \A x \in V : h.child[x] # Nil => h.child[x] \in V
      <4> TAKE x \in V
      <4> HAVE h.child[x] # Nil
      <4>1. h.child[x] \in S /\ par[h.child[x]] = x
        BY <1>6, <3>1
      <4>2. x = n => h.child[x] \in T
        BY <2>4
      <4> QED BY <1>3, <3>1, <4>1, <4>2
    <3>4. \A x \in V : x \notin tops /\ h.next[x] # Nil => h.next[x] \in V
      <4> TAKE x \in V
      <4> HAVE x \notin tops /\ h.next[x] # Nil
      <4>1. x \in S \ tops
        BY <3>1
      <4>2. h.next[x] \in S /\ par[h.next[x]] = par[x]
        BY <1>7, <4>1
      <4>3. CASE x \in R
        <5>1. x \in T
          BY <3>1, <4>3
        <5> QED BY <2>4, <3>1, <4>2, <5>1
      <4>4. CASE x \notin R
        <5>1. h.next[x] \notin R
          BY <1>3, <4>1, <4>2, <4>4
        <5> QED BY <3>1, <4>2, <5>1
      <4> QED BY <4>3, <4>4
    <3>5. V = S
      <4>1. ClosedIn(h, tops, V)
        BY <3>2, <3>3, <3>4 DEF ClosedIn
      <4> QED BY <3>2, <4>1 DEF Trees, Reached
    <3> QED BY <1>3, <3>1, <3>5
  <2>5. first = Nil => R = {}
    <3> HAVE first = Nil
    <3>1. {} \in SUBSET R
      OBVIOUS
    <3>2. \A x \in {} : h.next[x] # Nil => h.next[x] \in {}
      OBVIOUS
    <3>3. {} = R
      BY <2>4, <3>1, <3>2
    <3> QED BY <3>3
  <2> QED BY <2>1, <2>2, <2>3, <2>4, <2>5 DEF Chain
<1> QED BY <1>4, <1>11, <1>12 DEF Orphans, U, ups

(* A node that is taken away from its siblings or its parent becomes a top. *)
Unlinks(k, h, S, tops, n, u) ==
  /\ u \in LinksType /\ Trees(k, u, S, tops \cup {n})
  /\ u.child[n] = h.child[n] /\ StayOutside(h, u, S)
  /\ \A x \in tops : u.next[x] = h.next[x]

(* An unlinked node is the top of a tree of its own. *)
LEMMA Unlinked ==
  ASSUME NEW k, NEW h \in LinksType, NEW S, NEW tops, Trees(k, h, S, tops), NEW n \in S \ tops
  PROVE  Unlinks(k, h, S, tops, n, Heap!Unlink(h, n))
<1> DEFINE p == h.prev[n]
           s == h.next[n]
           u == Heap!Unlink(h, n)
           more == tops \cup {n}
<1>1. /\ S \subseteq Nodes /\ tops \subseteq S /\ Nil \notin Nodes /\ Bonds(h, S, tops)
      /\ \A x \in S : k[x] \in Int
  BY HeapAssumption DEF Trees
<1>2. \A x \in S : h.child[x] # Nil => h.child[x] \in S \ tops /\ h.prev[h.child[x]] = x
  BY <1>1 DEF Bonds
<1>3. \A x \in S \ tops :
        /\ h.next[x] # Nil => /\ h.next[x] \in S \ tops /\ h.prev[h.next[x]] = x
                              /\ h.next[x] # h.child[x]
        /\ h.prev[x] \in S
        /\ h.child[h.prev[x]] = x \/ (h.prev[x] \notin tops /\ h.next[h.prev[x]] = x)
  BY <1>1 DEF Bonds
<1>4. p \in S /\ (h.child[p] = n \/ (p \notin tops /\ h.next[p] = n)) /\ n \in Nodes
  BY <1>1, <1>3
<1>5. s # Nil => s \in S \ tops /\ h.prev[s] = n /\ s # h.child[n]
  BY <1>3
<1>6. s \in Nodes \cup {Nil} /\ p \in Nodes /\ p # Nil
  BY <1>1, <1>4 DEF LinksType, LinkType
<1> HIDE DEF p, s
<1>7. p # n
  <2> SUFFICES ASSUME p = n PROVE FALSE
    OBVIOUS
  <2>1. ClosedIn(h, tops, S \ {n})
    <3>1. \A x \in S \ {n} : h.child[x] # Nil => h.child[x] \in S \ {n}
      BY <1>2 DEF p
    <3>2. \A x \in S \ {n} : x \notin tops /\ h.next[x] # Nil => h.next[x] \in S \ {n}
      BY <1>3 DEF p
    <3> QED BY <1>1, <3>1, <3>2 DEF ClosedIn
  <2> QED BY <2>1 DEF Trees, Reached
<1>8. /\ u \in LinksType
      /\ \A x \in Nodes : u.child[x] = IF x = p /\ h.child[p] = n THEN s ELSE h.child[x]
      /\ \A x \in Nodes : u.next[x] = IF x = p /\ h.child[p] # n THEN s ELSE h.next[x]
      /\ \A x \in Nodes : u.prev[x] = IF x = s THEN p ELSE h.prev[x]
  <2> DEFINE up == IF h.child[p] = n THEN [h EXCEPT !.child[p] = s] ELSE [h EXCEPT !.next[p] = s]
  <2>1. u = IF s = Nil THEN up ELSE [up EXCEPT !.prev[s] = p]
    BY <1>6 DEF Heap!Unlink, p, s
  <2>2. /\ up \in LinksType
        /\ \A x \in Nodes : up.child[x] = IF x = p /\ h.child[p] = n THEN s ELSE h.child[x]
        /\ \A x \in Nodes : up.next[x] = IF x = p /\ h.child[p] # n THEN s ELSE h.next[x]
        /\ \A x \in Nodes : up.prev[x] = h.prev[x]
    <3>1. CASE h.child[p] = n
      <4>1. up = [h EXCEPT !.child[p] = s]
        BY <3>1
      <4> QED BY <1>6, <3>1, <4>1 DEF LinksType, LinkType
    <3>2. CASE h.child[p] # n
      <4>1. up = [h EXCEPT !.next[p] = s]
        BY <3>2
      <4> QED BY <1>6, <3>2, <4>1 DEF LinksType, LinkType
    <3> QED BY <3>1, <3>2
  <2> HIDE DEF up, u
  <2>3. CASE s = Nil
    BY <1>1, <2>1, <2>2, <2>3
  <2>4. CASE s # Nil
    <3>1. \A v \in LinksType, a \in Nodes, t \in Nodes :
            LET x == [v EXCEPT !.prev[a] = t]
            IN /\ x \in LinksType /\ x.next = v.next /\ x.child = v.child
               /\ \A y \in Nodes : x.prev[y] = IF y = a THEN t ELSE v.prev[y]
      BY DEF LinksType, LinkType
    <3>2. u = [up EXCEPT !.prev[s] = p] /\ s \in Nodes
      BY <1>6, <2>1, <2>4
    <3>3. /\ u \in LinksType /\ u.next = up.next /\ u.child = up.child
          /\ \A y \in Nodes : u.prev[y] = IF y = s THEN p ELSE up.prev[y]
      BY <1>6, <2>2, <3>1, <3>2
    <3> QED BY <2>2, <3>3
  <2> QED BY <2>3, <2>4
<1> HIDE DEF u
<1>9. /\ \A x \in S : u.child[x] = IF x = p /\ h.child[p] = n THEN s ELSE h.child[x]
      /\ \A x \in S : u.next[x] = IF x = p /\ h.child[p] # n THEN s ELSE h.next[x]
      /\ \A x \in S : u.prev[x] = IF x = s THEN p ELSE h.prev[x]
      /\ \A x \in S : x \notin more <=> x \notin tops /\ x # n
  BY <1>1, <1>8
<1>10. s # Nil => s # n
  BY <1>5, <1>7 DEF p
<1>11. h.prev[n] = p
  BY DEF p
<1>12. h.next[n] = s
  BY DEF s
<1>13. Bonds(u, S, more)
  <2>1. ASSUME NEW x \in S, u.child[x] # Nil
        PROVE  u.child[x] \in S \ more /\ u.prev[u.child[x]] = x
    <3>1. CASE x = p /\ h.child[p] = n
      BY <1>5, <1>9, <1>10, <2>1, <3>1
    <3>2. CASE ~(x = p /\ h.child[p] = n)
      <4>1. u.child[x] = h.child[x] /\ h.child[x] \in S \ tops /\ h.prev[h.child[x]] = x
        BY <1>2, <1>9, <2>1, <3>2
      <4>2. h.child[x] # n
        BY <1>11, <3>2, <4>1
      <4>3. h.child[x] # s
        BY <1>5, <2>1, <4>1
      <4> QED BY <1>9, <4>1, <4>2, <4>3
    <3> QED BY <3>1, <3>2
  <2>2. ASSUME NEW x \in S \ more, u.next[x] # Nil
        PROVE  u.next[x] \in S \ more /\ u.prev[u.next[x]] = x /\ u.next[x] # u.child[x]
    <3>0. x \in S \ tops /\ x # n
      BY <1>9
    <3>1. CASE x = p /\ h.child[p] # n
      <4>1. u.next[x] = s /\ s \in S \ more /\ u.prev[s] = p
        BY <1>5, <1>9, <1>10, <2>2, <3>1
      <4>2. u.child[x] = h.child[p] /\ (h.child[p] # Nil => h.prev[h.child[p]] = p)
        BY <1>2, <1>4, <1>9, <3>1
      <4>3. s # h.child[p]
        BY <1>5, <1>7, <2>2, <4>1, <4>2
      <4> QED BY <3>1, <4>1, <4>2, <4>3
    <3>2. CASE ~(x = p /\ h.child[p] # n)
      <4>1. /\ u.next[x] = h.next[x] /\ h.next[x] \in S \ tops /\ h.prev[h.next[x]] = x
            /\ h.next[x] # h.child[x]
        BY <1>3, <1>9, <2>2, <3>0, <3>2
      <4>2. h.next[x] # n
        BY <1>11, <3>2, <4>1
      <4>3. h.next[x] # s
        BY <1>5, <2>2, <3>0, <4>1
      <4>4. u.child[x] = s \/ u.child[x] = h.child[x]
        BY <1>9
      <4> QED BY <1>9, <4>1, <4>2, <4>3, <4>4
    <3> QED BY <3>1, <3>2
  <2>3. ASSUME NEW x \in S \ more
        PROVE  /\ u.prev[x] \in S
               /\ u.child[u.prev[x]] = x \/ (u.prev[x] \notin more /\ u.next[u.prev[x]] = x)
    <3>0. x \in S \ tops /\ x # n
      BY <1>9
    <3>1. CASE x = s
      BY <1>4, <1>7, <1>9, <3>1
    <3>2. CASE x # s
      <4>1. /\ u.prev[x] = h.prev[x] /\ h.prev[x] \in S
            /\ h.child[h.prev[x]] = x \/ (h.prev[x] \notin tops /\ h.next[h.prev[x]] = x)
        BY <1>3, <1>9, <3>0, <3>2
      <4>2. CASE h.child[h.prev[x]] = x
        BY <1>9, <3>0, <4>1, <4>2
      <4>3. CASE h.prev[x] \notin tops /\ h.next[h.prev[x]] = x
        <5>1. h.prev[x] # n
          BY <1>12, <3>2, <4>3
        <5>2. ~(h.prev[x] = p /\ h.child[p] # n)
          BY <1>4, <3>0, <4>3
        <5> QED BY <1>9, <4>1, <4>3, <5>1, <5>2
      <4> QED BY <4>1, <4>2, <4>3
    <3> QED BY <3>1, <3>2
  <2> QED BY <2>1, <2>2, <2>3 DEF Bonds
<1>14. Reached(u, S, more)
  <2> SUFFICES ASSUME NEW T \in SUBSET S, ClosedIn(u, more, T) PROVE T = S
    BY DEF Reached
  <2>1. tops \subseteq T /\ n \in T
    BY DEF ClosedIn
  <2>2. \A x \in T : u.child[x] # Nil => u.child[x] \in T
    BY DEF ClosedIn
  <2>3. \A x \in T : x \notin more /\ u.next[x] # Nil => u.next[x] \in T
    BY DEF ClosedIn
  <2>4. CASE p \in T
    <3>1. \A x \in T : h.child[x] # Nil => h.child[x] \in T
      BY <1>9, <2>1, <2>2
    <3>2. \A x \in T : x \notin tops /\ h.next[x] # Nil => h.next[x] \in T
      <4> TAKE x \in T
      <4> HAVE x \notin tops /\ h.next[x] # Nil
      <4>1. CASE x = n
        <5>1. h.child[p] = n => u.child[p] = s
          BY <1>4, <1>9
        <5>2. h.child[p] # n => u.next[p] = s /\ p \notin more
          BY <1>4, <1>7, <1>9
        <5> QED BY <1>12, <2>2, <2>3, <2>4, <4>1, <5>1, <5>2
      <4>2. CASE x # n /\ x = p /\ h.child[p] # n
        BY <1>4, <2>1, <4>2
      <4>3. CASE x # n /\ ~(x = p /\ h.child[p] # n)
        BY <1>9, <2>3, <4>3
      <4> QED BY <4>1, <4>2, <4>3
    <3> QED BY <2>1, <3>1, <3>2 DEF Trees, Reached, ClosedIn
  <2>5. CASE p \notin T
    <3>1. \A x \in T \ {n} : h.child[x] # Nil => h.child[x] \in T \ {n}
      BY <1>2, <1>9, <1>11, <2>2, <2>5
    <3>2. \A x \in T \ {n} : x \notin tops /\ h.next[x] # Nil => h.next[x] \in T \ {n}
      BY <1>3, <1>9, <1>11, <2>3, <2>5
    <3>3. ClosedIn(h, tops, T \ {n})
      BY <2>1, <3>1, <3>2 DEF ClosedIn
    <3>4. T \ {n} = S
      BY <3>3 DEF Trees, Reached
    <3> QED BY <3>4
  <2> QED BY <2>4, <2>5
<1>15. PICK par \in [S -> S] : Under(k, h, S, tops, par)
  BY DEF Trees
<1>16. Under(k, u, S, more, par)
  <2>1. ASSUME NEW x \in S, u.child[x] # Nil PROVE par[u.child[x]] = x
    <3>1. CASE x = p /\ h.child[p] = n
      <4>1. par[n] = p /\ u.child[x] = s
        BY <1>1, <1>4, <1>9, <1>15, <3>1 DEF Under
      <4>2. par[s] = par[n]
        BY <1>12, <1>15, <2>1, <4>1 DEF Under
      <4> QED BY <3>1, <4>1, <4>2
    <3>2. CASE ~(x = p /\ h.child[p] = n)
      BY <1>9, <1>15, <2>1, <3>2 DEF Under
    <3> QED BY <3>1, <3>2
  <2>2. ASSUME NEW x \in S \ more
        PROVE  k[x] <= k[par[x]] /\ (u.next[x] # Nil => par[u.next[x]] = par[x])
    <3>0. x \in S \ tops /\ x # n /\ k[x] <= k[par[x]]
      BY <1>9, <1>15 DEF Under
    <3>1. CASE x = p /\ h.child[p] # n
      <4>1. par[n] = par[p] /\ u.next[x] = s
        BY <1>1, <1>4, <1>9, <1>15, <3>0, <3>1 DEF Under
      <4>2. s # Nil => par[s] = par[n]
        BY <1>12, <1>15 DEF Under
      <4> QED BY <3>0, <3>1, <4>1, <4>2
    <3>2. CASE ~(x = p /\ h.child[p] # n)
      BY <1>9, <1>15, <3>0, <3>2 DEF Under
    <3> QED BY <3>1, <3>2
  <2> QED BY <2>1, <2>2 DEF Under
<1>17. u.child[n] = h.child[n]
  BY <1>7, <1>9
<1>18. \A x \in tops : u.next[x] = h.next[x]
  BY <1>1, <1>4, <1>9
<1>19. StayOutside(h, u, S)
  BY <1>4, <1>8 DEF StayOutside
<1>20. Trees(k, u, S, more)
  BY <1>1, <1>13, <1>14, <1>15, <1>16 DEF Trees
<1> QED BY <1>8, <1>17, <1>18, <1>19, <1>20 DEF Unlinks, u

-----------------------------------------------------------------------------
(* One tree with root top, or nothing at all. *)
Rooted(k, h, S, top) ==
  /\ h \in LinksType /\ top \in Nodes \cup {Nil}
  /\ Trees(k, h, S, {top} \ {Nil})
  /\ top # Nil => h.next[top] = Nil

(* Without a root there is nothing. *)
LEMMA NothingLeft == ASSUME NEW k, NEW h, NEW S, Rooted(k, h, S, Nil) PROVE S = {}
<1>1. ClosedIn(h, {Nil} \ {Nil}, {}) /\ {} \in SUBSET S
  BY DEF ClosedIn
<1> QED BY <1>1 DEF Rooted, Trees, Reached

(* deleteNode, with priorities that differ from those of the trees at n only. *)
Deletes(j, h, S, top, n) ==
  LET d == Heap!Deleted(j, h, top, n)
  IN /\ Rooted(j, d.links, S \ {n}, d.top)
     /\ d.links.child[n] = Nil /\ d.links.next[n] = Nil /\ StayOutside(h, d.links, S)
LEMMA DeletedTrees ==
  ASSUME NEW k, NEW j, NEW h, NEW S, NEW top, Rooted(k, h, S, top), NEW n \in S,
         \A x \in S \ {n} : j[x] = k[x]
  PROVE  Deletes(j, h, S, top, n)
<1> DEFINE d == Heap!Deleted(j, h, top, n)
           U == S \ {n}
           Fine == Deletes(j, h, S, top, n)
<1>1. /\ h \in LinksType /\ S \subseteq Nodes /\ n \in Nodes /\ Nil \notin Nodes
      /\ h.child[n] \in Nodes \cup {Nil} /\ Trees(k, h, S, {top} \ {Nil}) /\ top \in Nodes
  <2>1. top # Nil
    BY NothingLeft
  <2>2. h \in LinksType /\ S \subseteq Nodes
    BY DEF Rooted, Trees
  <2>3. \A x \in Nodes : h.child[x] \in Nodes \cup {Nil}
    BY <2>2 DEF LinksType, LinkType
  <2> QED BY <2>1, <2>2, <2>3, HeapAssumption DEF Rooted
(* Clearing the links of n leaves the trees without n alone. *)
<1>2. ASSUME NEW m \in LinksType, NEW t \in Nodes \cup {Nil}, Trees(j, m, U, {t} \ {Nil}),
             t # Nil => m.next[t] = Nil, StayOutside(h, m, S),
             d = [links |-> Heap!Cleared(m, n), top |-> t]
      PROVE  Fine
  <2> DEFINE c == Heap!Cleared(m, n)
  <2>1. /\ c \in LinksType
        /\ \A x \in Nodes : x # n => c.child[x] = m.child[x] /\ c.next[x] = m.next[x] /\ c.prev[x] = m.prev[x]
        /\ c.child[n] = Nil /\ c.next[n] = Nil
    BY <1>1 DEF Heap!Cleared, LinksType, LinkType
  <2> HIDE DEF c
  <2>2. SameInside(m, c, U, {t} \ {Nil})
    BY <1>1, <2>1 DEF SameInside
  <2>3. Trees(j, c, U, {t} \ {Nil})
    BY <1>2, <2>2, TreesOfLinks
  <2>4. d.links = c /\ d.top = t
    BY <1>2 DEF c
  <2>5. t # Nil => c.next[t] = Nil
    <3>1. t # Nil => t \in U
      BY <1>2 DEF Trees
    <3> QED BY <1>1, <1>2, <2>1, <3>1
  <2>6. StayOutside(h, c, S)
    BY <1>2, <2>1 DEF StayOutside
  <2>7. /\ Rooted(j, d.links, U, d.top)
        /\ d.links.child[n] = Nil /\ d.links.next[n] = Nil /\ StayOutside(h, d.links, S)
    <3> HIDE DEF d
    <3> QED BY <2>1, <2>3, <2>4, <2>5, <2>6 DEF Rooted
  <2> QED BY <2>7 DEF Deletes
<1>3. ASSUME n = top PROVE Fine
  <2> DEFINE m == Heap!MergePairs(j, h, h.child[n])
  <2>1. d = [links |-> Heap!Cleared(m.links, n), top |-> m.top]
    BY <1>3 DEF Heap!Deleted, Heap!Tree
  <2>2. PICK R : Orphans(k, h, S, {top}, n, R)
    <3>1. Trees(k, h, S, {top})
      <4>1. {top} \ {Nil} = {top}
        BY <1>1
      <4> QED BY <1>1, <4>1
    <3> QED BY <1>3, <3>1, TopTaken
  <2>3. Merges(j, h, U, {}, m)
    <3>1. ({top} \ {n}) \cup R = {} \cup R
      BY <1>3
    <3>2. Trees(k, h, U, {} \cup R) /\ Chain(h.next, R, h.child[n])
      BY <2>2, <3>1 DEF Orphans
    <3>3. Trees(j, h, U, {} \cup R)
      <4>1. SameInside(h, h, U, {} \cup R)
        BY DEF SameInside
      <4> QED BY <3>2, <4>1, TreesOfLinks
    <3> QED BY <1>1, <3>2, <3>3, PairsMerged
  <2> HIDE DEF m, d, Fine
  <2>4. /\ m.links \in LinksType /\ m.top \in Nodes \cup {Nil}
        /\ m.top # Nil => m.links.next[m.top] = Nil
    BY <2>3 DEF Merges, TreeType
  <2>5. Trees(j, m.links, U, {m.top} \ {Nil})
    <3>1. {} \cup ({m.top} \ {Nil}) = {m.top} \ {Nil}
      OBVIOUS
    <3> QED BY <2>3, <3>1 DEF Merges
  <2>6. StayOutside(h, m.links, S)
    BY <2>3 DEF Merges, StayOutside
  <2> QED BY <1>2, <2>1, <2>4, <2>5, <2>6
<1>4. ASSUME n # top PROVE Fine
  <2> DEFINE u == Heap!Unlink(h, n)
             o == Heap!MergePairs(j, u, h.child[n])
             w == Heap!Meld(j, o.links, top, o.top)
  <2>1. d = [links |-> Heap!Cleared(w.links, n), top |-> w.top]
    BY <1>4 DEF Heap!Deleted, Heap!Tree
  <2>2. {top} \ {Nil} = {top}
    BY <1>1
  <2>3. Unlinks(k, h, S, {top}, n, u)
    BY <1>1, <1>4, <2>2, Unlinked
  <2> HIDE DEF u
  <2>4. /\ u \in LinksType /\ Trees(k, u, S, {top} \cup {n}) /\ u.child[n] = h.child[n]
        /\ StayOutside(h, u, S) /\ u.next[top] = Nil
    BY <1>1, <2>3 DEF Unlinks, Rooted
  <2>5. PICK R : Orphans(k, u, S, {top} \cup {n}, n, R)
    BY <2>4, TopTaken
  <2>6. Merges(j, u, U, {top}, o)
    <3>1. ({top} \cup {n}) \ {n} = {top}
      BY <1>4
    <3>2. Trees(k, u, U, {top} \cup R) /\ Chain(u.next, R, h.child[n]) /\ {top} \cap R = {}
      BY <2>4, <2>5, <3>1 DEF Orphans
    <3>3. Trees(j, u, U, {top} \cup R)
      <4>1. SameInside(u, u, U, {top} \cup R)
        BY DEF SameInside
      <4> QED BY <3>2, <4>1, TreesOfLinks
    <3> QED BY <1>1, <2>4, <3>2, <3>3, PairsMerged
  <2> HIDE DEF o, d, w, Fine
  <2>7. o.links \in LinksType /\ o.top \in Nodes \cup {Nil} /\ StayOutside(h, o.links, S)
    BY <2>4, <2>6 DEF Merges, TreeType, StayOutside
  <2>8. ASSUME o.top = Nil PROVE Fine
    <3>1. w = [links |-> o.links, top |-> top] /\ o.links = u
      BY <2>6, <2>8, MeldOfNone DEF Merges, w
    <3>2. {top} \cup ({o.top} \ {Nil}) = {top} \ {Nil}
      BY <2>2, <2>8
    <3>3. Trees(j, u, U, {top} \ {Nil})
      BY <2>6, <3>1, <3>2 DEF Merges
    <3>4. d = [links |-> Heap!Cleared(u, n), top |-> top]
      BY <2>1, <3>1
    <3> QED BY <1>1, <1>2, <2>4, <3>3, <3>4
  <2>9. ASSUME o.top # Nil PROVE Fine
    <3>1. o.top \notin {top} /\ o.top # top /\ {top} \cup ({o.top} \ {Nil}) = {} \cup {top, o.top}
      BY <2>6, <2>9 DEF Merges
    <3>2. Trees(j, o.links, U, {} \cup {top, o.top})
      BY <2>6, <3>1 DEF Merges
    <3>3. Melded(j, o.links, U, {}, top, o.top, w)
      BY <2>7, <3>1, <3>2, MeldedTrees DEF w
    <3>4. /\ w.links \in LinksType /\ w.top \in Nodes /\ w.links.next[w.top] = Nil
          /\ \A x \in Nodes : x # top /\ x # o.top =>
               w.links.child[x] = o.links.child[x] /\ w.links.next[x] = o.links.next[x]
      BY <1>1, <2>7, <2>9, <3>3 DEF Melded
    <3>5. Trees(j, w.links, U, {w.top} \ {Nil})
      <4>1. {} \cup {w.top} = {w.top} \ {Nil}
        BY <1>1, <3>4
      <4> QED BY <3>3, <4>1 DEF Melded
    <3>6. top \in S /\ o.top \in S
      BY <3>2 DEF Trees
    <3>7. StayOutside(h, w.links, S)
      BY <2>7, <3>4, <3>6 DEF StayOutside
    <3> QED BY <1>2, <2>1, <3>4, <3>5, <3>7
  <2> QED BY <2>8, <2>9
<1> QED BY <1>3, <1>4

(* A node with cleared links is a tree of its own. *)
LEMMA AddedTrees ==
  ASSUME NEW k, NEW h, NEW S, NEW tops, Trees(k, h, S, tops), NEW n \in Nodes \ S,
         k[n] \in Int, h.child[n] = Nil
  PROVE  Trees(k, h, S \cup {n}, tops \cup {n})
<1> DEFINE U == S \cup {n}
           more == tops \cup {n}
<1>1. /\ \A x \in U : k[x] \in Int
      /\ U \subseteq Nodes /\ more \subseteq U
      /\ \A x \in U \ more : x \in S \ tops
      /\ \A x \in S \ tops : x \in U \ more
  BY DEF Trees
<1>2. Bonds(h, U, more)
  <2>1. Bonds(h, S, tops)
    BY DEF Trees
  <2>2. \A x \in U : h.child[x] # Nil => h.child[x] \in U \ more /\ h.prev[h.child[x]] = x
    BY <1>1, <2>1 DEF Bonds
  <2>3. \A x \in U \ more : 
       /\ h.next[x] # Nil => /\ h.next[x] \in U \ more /\ h.prev[h.next[x]] = x
                             /\ h.next[x] # h.child[x]
       /\ h.prev[x] \in U
       /\ h.child[h.prev[x]] = x \/ (h.prev[x] \notin more /\ h.next[h.prev[x]] = x)
    BY <1>1, <2>1 DEF Bonds
  <2> QED BY <2>2, <2>3 DEF Bonds
<1>3. Reached(h, U, more)
  <2> SUFFICES ASSUME NEW T \in SUBSET U, ClosedIn(h, more, T) PROVE T = U
    BY DEF Reached
  <2>1. n \in T /\ tops \subseteq T
    BY DEF ClosedIn
  <2>2. ClosedIn(h, tops, T \ {n})
    <3>1. \A x \in T \ {n} : h.child[x] # Nil => h.child[x] \in T \ {n}
      BY DEF ClosedIn, Trees, Bonds
    <3>2. \A x \in T \ {n} : x \notin tops /\ h.next[x] # Nil => h.next[x] \in T \ {n}
      BY DEF ClosedIn, Trees, Bonds
    <3>3. tops \subseteq T \ {n}
      BY <2>1 DEF Trees
    <3> QED BY <3>1, <3>2, <3>3 DEF ClosedIn
  <2>3. T \ {n} = S
    BY <2>2 DEF Trees, Reached
  <2> QED BY <2>1, <2>3
<1>4. PICK par \in [S -> S] : Under(k, h, S, tops, par)
  BY DEF Trees
<1> DEFINE q == [x \in U |-> IF x = n THEN n ELSE par[x]]
<1>5. q \in [U -> U] /\ \A x \in S : q[x] = par[x]
  OBVIOUS
<1>6. Under(k, h, U, more, q)
  <2>1. ASSUME NEW x \in U, h.child[x] # Nil PROVE q[h.child[x]] = x
    <3>1. x \in S /\ h.child[x] \in S
      BY <2>1 DEF Trees, Bonds
    <3> HIDE DEF q
    <3> QED BY <1>4, <1>5, <2>1, <3>1 DEF Under
  <2>2. ASSUME NEW x \in U \ more PROVE k[x] <= k[q[x]] /\ (h.next[x] # Nil => q[h.next[x]] = q[x])
    <3>1. x \in S \ tops /\ q[x] = par[x]
      BY <1>1, <1>5
    <3>2. h.next[x] # Nil => h.next[x] \in S
      BY <3>1 DEF Trees, Bonds
    <3> HIDE DEF q
    <3> QED BY <1>4, <1>5, <3>1, <3>2 DEF Under
  <2> HIDE DEF q
  <2> QED BY <2>1, <2>2 DEF Under
<1> HIDE DEF U, more, q
<1>7. Trees(k, h, U, more)
  BY <1>1, <1>2, <1>3, <1>5, <1>6 DEF Trees
<1> QED BY <1>7 DEF U, more

(* add: meld the root with a node that has no links. *)
LEMMA JoinedTrees ==
  ASSUME NEW k, NEW h, NEW S, NEW top, Rooted(k, h, S, top), NEW n \in Nodes \ S,
         k[n] \in Int, h.child[n] = Nil, h.next[n] = Nil
  PROVE  LET m == Heap!Meld(k, h, top, n)
         IN Rooted(k, m.links, S \cup {n}, m.top) /\ StayOutside(h, m.links, S \cup {n})
<1> DEFINE m == Heap!Meld(k, h, top, n)
           U == S \cup {n}
<1>1. Trees(k, h, U, ({top} \ {Nil}) \cup {n}) /\ h \in LinksType /\ top \in Nodes \cup {Nil}
  BY AddedTrees DEF Rooted
<1>2. n # Nil
  BY HeapAssumption
<1>3. CASE top = Nil
  <2>1. m = [links |-> h, top |-> n]
    BY <1>3, MeldOfNone
  <2>2. ({top} \ {Nil}) \cup {n} = {n} \ {Nil}
    BY <1>2, <1>3
  <2> HIDE DEF U
  <2>3. Trees(k, h, U, {n} \ {Nil}) /\ StayOutside(h, h, U)
    BY <1>1, <2>2 DEF StayOutside
  <2>4. Rooted(k, h, U, n)
    BY <1>1, <2>3 DEF Rooted
  <2> QED BY <2>1, <2>3, <2>4 DEF U
<1>4. CASE top # Nil
  <2>1. top \in S /\ ({top} \ {Nil}) \cup {n} = {} \cup {top, n}
    BY <1>4 DEF Rooted, Trees
  <2>2. Trees(k, h, U, {} \cup {top, n}) /\ top # n
    BY <1>1, <2>1
  <2> HIDE DEF m
  <2>3. Melded(k, h, U, {}, top, n, m)
    BY <1>1, <2>2, MeldedTrees DEF m
  <2>4. m.top \in {top, n} /\ m.top \in Nodes /\ {} \cup {m.top} = {m.top} \ {Nil}
    BY <1>1, <1>2, <1>4, <2>3 DEF Melded
  <2>5. Rooted(k, m.links, U, m.top)
    BY <2>3, <2>4 DEF Melded, Rooted
  <2>6. StayOutside(h, m.links, U)
    BY <2>1, <2>3 DEF Melded, StayOutside
  <2> QED BY <2>5, <2>6 DEF m
<1> QED BY <1>3, <1>4

(* The priority of a node may rise where nobody is above it, or its parent
   still is not worse. *)
LEMMA RaisedTrees ==
  ASSUME NEW k, NEW j, NEW h, NEW S, NEW tops, Trees(k, h, S, tops), NEW n \in S,
         \A x \in S \ {n} : j[x] = k[x], j[n] \in Int, j[n] >= k[n],
         n \in tops \/ \E p \in S \ {n} : h.child[p] = n /\ j[n] <= k[p]
  PROVE  Trees(j, h, S, tops)
<1>1. PICK par \in [S -> S] : Under(k, h, S, tops, par)
  BY DEF Trees
<1>2. \A x \in S : j[x] \in Int /\ k[x] \in Int /\ k[x] <= j[x]
  BY DEF Trees
<1>3. n \notin tops => j[n] <= j[par[n]]
  <2> HAVE n \notin tops
  <2>1. PICK p \in S \ {n} : h.child[p] = n /\ j[n] <= k[p]
    OBVIOUS
  <2>2. n # Nil
    BY HeapAssumption DEF Trees
  <2>3. par[n] = p
    BY <1>1, <2>1, <2>2 DEF Under
  <2> QED BY <2>1, <2>3
<1>4. \A x \in S \ tops : j[x] <= j[par[x]]
  <2> TAKE x \in S \ tops
  <2>1. CASE x = n
    BY <1>3, <2>1
  <2>2. CASE x # n
    <3>1. k[x] <= k[par[x]] /\ j[x] = k[x] /\ par[x] \in S
      BY <1>1, <2>2 DEF Under
    <3>2. k[par[x]] <= j[par[x]] /\ k[par[x]] \in Int /\ j[par[x]] \in Int /\ k[x] \in Int
      BY <1>2, <3>1
    <3> QED BY <3>1, <3>2
  <2> QED BY <2>1, <2>2
<1>5. Under(j, h, S, tops, par)
  BY <1>1, <1>4 DEF Under
<1> QED BY <1>2, <1>5 DEF Trees

-----------------------------------------------------------------------------
(* What hangs below the root is what the queue holds. *)
HeldRounds(S) ==
  \E f \in [0..Cardinality(Nodes) -> SUBSET Nodes] :
    /\ f[0] = {root} \ {Nil} /\ S = f[Cardinality(Nodes)]
    /\ \A i \in 1..Cardinality(Nodes) : f[i] = Heap!Siblings(f[i - 1])

(* A round of Held adds nodes, and takes none away. *)
LEMMA SiblingsStay ==
  ASSUME Heap!Links \in LinksType, NEW s \in SUBSET Nodes
  PROVE  Heap!Siblings(s) \in SUBSET Nodes /\ s \subseteq Heap!Siblings(s)
<1>1. \A n \in Nodes : n # Nil /\ next[n] \in Nodes \cup {Nil} /\ child[n] \in Nodes \cup {Nil}
  BY HeapAssumption DEF LinksType, LinkType, Heap!Links
<1>2. ASSUME NEW x \in Heap!Siblings(s) PROVE x \in Nodes
  BY <1>1 DEF Heap!Siblings
<1>3. ASSUME NEW x \in s PROVE x \in Heap!Siblings(s)
  BY <1>1 DEF Heap!Siblings
<1> QED BY <1>2, <1>3

(* Held is what its recursive definition computes, round by round. *)
LEMMA HeldByRounds ==
  ASSUME Heap!Links \in LinksType, root \in Nodes \cup {Nil}
  PROVE  HeldRounds(Heap!Held)
<1> DEFINE N == Cardinality(Nodes)
           V == SUBSET Nodes
           a == {root} \ {Nil}
           Goes(f) == f = [i \in 0..N |-> IF i = 0 THEN a ELSE Heap!Siblings(f[i - 1])]
           reached == CHOOSE f : Goes(f)
           each == [x \in (1..N) \X V |-> Heap!Siblings(x[2])]
<1>1. N \in Nat
  BY HeapAssumption, FS_CardinalityType
<1>2. Heap!Held = reached[N]
  BY HeapCount, Zenon DEF Heap!Held
<1>3. a \in V /\ \A s \in V : Heap!Siblings(s) \in V
  BY SiblingsStay
<1> HIDE DEF a, N, V
<1>4. each \in [(1..N) \X V -> V]
  BY <1>3
<1>5. PICK f \in [0..N -> V] : f[0] = a /\ \A i \in 1..N : f[i] = each[<<i, f[i - 1]>>]
  <2>1. Iterates(N, V, a, each)
    <3> HIDE DEF each
    <3> QED BY <1>1, <1>3, <1>4, Recursion
  <2> QED BY <2>1 DEF Iterates
<1>6. ASSUME NEW i \in 1..N PROVE f[i] = Heap!Siblings(f[i - 1])
  <2>1. <<i, f[i - 1]>> \in (1..N) \X V
    BY <1>1
  <2> QED BY <1>5, <2>1
<1> HIDE DEF each
<1>7. Goes(f)
  <2>1. f = [i \in 0..N |-> f[i]]
    OBVIOUS
  <2>2. \A i \in 0..N : f[i] = IF i = 0 THEN a ELSE Heap!Siblings(f[i - 1])
    BY <1>1, <1>5, <1>6
  <2> QED BY <2>1, <2>2
<1>8. Goes(reached)
  BY <1>7
<1> HIDE DEF reached
<1>9. reached \in [0..N -> V] /\ reached[0] = a /\ \A i \in 1..N : reached[i] = Heap!Siblings(reached[i - 1])
  <2>1. \A i \in 0..N : reached[i] = IF i = 0 THEN a ELSE Heap!Siblings(reached[i - 1])
    BY <1>8
  <2>2. reached[0] = a /\ \A i \in 1..N : reached[i] = Heap!Siblings(reached[i - 1]) /\ i \in 0..N /\ i # 0
    BY <1>1, <2>1
  <2> DEFINE T == {i \in 0..N : reached[i] \in V}
  <2>3. 0 \in T
    BY <1>1, <1>3, <2>2
  <2>4. \A i \in 0..(N - 1) : i \in T => i + 1 \in T
    <3> TAKE i \in 0..(N - 1)
    <3> HAVE i \in T
    <3>1. i + 1 \in 1..N /\ (i + 1) - 1 = i /\ i + 1 \in 0..N
      BY <1>1
    <3> QED BY <1>3, <2>2, <3>1
  <2>5. \A i \in 0..N : i \in T
    <3> HIDE DEF T
    <3> QED BY <1>1, <2>3, <2>4, UpTo
  <2>6. reached = [i \in 0..N |-> reached[i]]
    <3>1. \E F : reached = [i \in 0..N |-> F[i]]
      <4> DEFINE F == [i \in 0..N |-> IF i = 0 THEN a ELSE Heap!Siblings(reached[i - 1])]
      <4>1. reached = [i \in 0..N |-> F[i]]
        BY <1>8
      <4> QED BY <4>1
    <3> QED BY <3>1
  <2> QED BY <2>2, <2>5, <2>6
<1> QED BY <1>2, <1>9 DEF HeldRounds, a, N, V

(* The nodes of a tree below the root are the nodes that the rounds reach. *)
LEMMA HeldIs == \A S : Rooted(key, Heap!Links, S, root) => Heap!Held = S
<1> SUFFICES ASSUME NEW S, Rooted(key, Heap!Links, S, root) PROVE Heap!Held = S
  OBVIOUS
<1> DEFINE N == Cardinality(Nodes)
           V == SUBSET Nodes
           each == [s \in V |-> Heap!Siblings(s)]
<1>1. /\ N \in Nat /\ Heap!Links \in LinksType /\ root \in Nodes \cup {Nil} /\ S \subseteq Nodes
      /\ Trees(key, Heap!Links, S, {root} \ {Nil}) /\ Nil \notin Nodes
      /\ Heap!Links.next = next /\ Heap!Links.child = child
  BY HeapAssumption, FS_CardinalityType DEF Rooted, Trees, Heap!Links
<1>2. PICK f \in [0..N -> V] : f[0] = {root} \ {Nil} /\ Heap!Held = f[N] /\ \A i \in 1..N : f[i] = Heap!Siblings(f[i - 1])
  BY <1>1, HeldByRounds DEF HeldRounds
<1>3. \A s \in V : Heap!Siblings(s) \in V /\ s \subseteq Heap!Siblings(s)
  BY <1>1, SiblingsStay
<1>4. Heap!Siblings(f[N]) = f[N]
  <2>1. each \in [V -> V] /\ \A s \in V : s \subseteq each[s]
    BY <1>3
  <2>2. \A i \in 1..N : f[i] = each[f[i - 1]]
    <3> TAKE i \in 1..N
    <3>1. i - 1 \in 0..N
      BY <1>1
    <3> QED BY <1>2, <3>1
  <2>3. N \in 0..N
    BY <1>1
  <2>4. each[f[N]] = f[N]
    <3> HIDE DEF each
    <3> QED BY <1>1, <1>2, <2>1, <2>2, HeapAssumption, RoundsClose
  <2> QED BY <2>3, <2>4
(* No round leaves S. *)
<1>5. \A n \in S : /\ child[n] # Nil => child[n] \in S
                   /\ next[n] # Nil => next[n] \in S
  <2> TAKE n \in S
  <2>1. child[n] # Nil => child[n] \in S
    BY <1>1 DEF Trees, Bonds
  <2>2. next[n] # Nil => n \notin {root} \ {Nil}
    BY <1>1 DEF Rooted
  <2> QED BY <1>1, <2>1, <2>2 DEF Trees, Bonds
<1>6. \A s \in SUBSET S : Heap!Siblings(s) \in SUBSET S
  BY <1>5 DEF Heap!Siblings
<1>7. f[N] \in SUBSET S /\ f[0] \subseteq f[N]
  <2> DEFINE T == {i \in 0..N : f[i] \in SUBSET S /\ f[0] \subseteq f[i]}
  <2>1. 0 \in T
    BY <1>1, <1>2 DEF Trees
  <2>2. \A i \in 0..(N - 1) : i \in T => i + 1 \in T
    <3> TAKE i \in 0..(N - 1)
    <3> HAVE i \in T
    <3>1. i + 1 \in 1..N /\ (i + 1) - 1 = i /\ i + 1 \in 0..N
      BY <1>1
    <3> QED BY <1>2, <1>3, <1>6, <3>1
  <2>3. \A i \in 0..N : i \in T
    <3> HIDE DEF T
    <3> QED BY <1>1, <2>1, <2>2, UpTo
  <2>4. N \in 0..N
    BY <1>1
  <2> QED BY <2>3, <2>4
<1>8. ClosedIn(Heap!Links, {root} \ {Nil}, f[N])
  <2>1. ASSUME NEW n \in f[N] PROVE /\ child[n] # Nil => child[n] \in f[N]
                                    /\ next[n] # Nil => next[n] \in f[N]
    BY <1>4 DEF Heap!Siblings
  <2> QED BY <1>1, <1>2, <1>7, <2>1 DEF ClosedIn
<1> HIDE DEF N
<1>9. f[N] = S
  BY <1>1, <1>7, <1>8 DEF Trees, Reached
<1> QED BY <1>2, <1>9

LEMMA HeldNext == \A S : Rooted(key', Heap!Links', S, root') => Heap!Held' = S
<1>1. (\A S : Rooted(key, Heap!Links, S, root) => Heap!Held = S)'
  BY HeldIs, PTL
<1> QED BY <1>1

(* Nobody beats the root. *)
LEMMA RootIsBest ==
  ASSUME NEW k, NEW h, NEW S, NEW top, Rooted(k, h, S, top)
  PROVE  \A n \in S : k[n] <= k[top]
<1>1. CASE top = Nil
  BY <1>1, NothingLeft
<1>2. CASE top # Nil
  <2> DEFINE tops == {top} \ {Nil}
  <2>1. PICK par \in [S -> S] : Under(k, h, S, tops, par)
    BY DEF Rooted, Trees
  <2>2. tops = {top} /\ top \in S /\ \A n \in S : k[n] \in Int
    BY <1>2 DEF Rooted, Trees
  <2> DEFINE T == {n \in S : k[n] <= k[top] /\ (n \notin tops => k[par[n]] <= k[top])}
  <2>3. tops \subseteq T
    BY <2>2
  <2>4. Bonds(h, S, tops)
    BY DEF Rooted, Trees
  <2> HIDE DEF tops
  <2>5. ASSUME NEW n \in T, h.child[n] # Nil PROVE h.child[n] \in T
    <3>1. h.child[n] \in S \ tops /\ par[h.child[n]] = n
      BY <2>1, <2>4, <2>5 DEF Under, Bonds
    <3>2. k[h.child[n]] <= k[n]
      BY <2>1, <3>1 DEF Under
    <3> QED BY <2>2, <3>1, <3>2
  <2>6. ASSUME NEW n \in T, n \notin tops, h.next[n] # Nil PROVE h.next[n] \in T
    <3>1. h.next[n] \in S \ tops /\ par[h.next[n]] = par[n] /\ par[n] \in S
      BY <2>1, <2>4, <2>6 DEF Under, Bonds
    <3>2. k[h.next[n]] <= k[par[n]]
      BY <2>1, <3>1 DEF Under
    <3> QED BY <2>2, <2>6, <3>1, <3>2
  <2>7. T = S
    <3>1. ClosedIn(h, tops, T) /\ T \in SUBSET S
      <4> HIDE DEF T
      <4>1. ClosedIn(h, tops, T)
        BY <2>3, <2>5, <2>6 DEF ClosedIn
      <4> QED BY <4>1 DEF T
    <3> HIDE DEF T
    <3> QED BY <3>1 DEF Rooted, Trees, Reached, tops
  <2> QED BY <2>7
<1> QED BY <1>1, <1>2

(* The priorities of other nodes do not matter to a tree. *)
LEMMA RootedKeys ==
  ASSUME NEW k, NEW j, NEW h, NEW S, NEW top, Rooted(k, h, S, top), \A n \in S : j[n] = k[n]
  PROVE  Rooted(j, h, S, top)
<1>1. SameInside(h, h, S, {top} \ {Nil})
  BY DEF SameInside
<1>2. Trees(j, h, S, {top} \ {Nil})
  BY <1>1, TreesOfLinks DEF Rooted
<1> QED BY <1>2 DEF Rooted

-----------------------------------------------------------------------------
(* The inductive invariant of the heap: the nodes it holds make up one tree in
   heap order, and the others are free of links. *)
HeapHolds(k, h, top, S) ==
  /\ k = [n \in Nodes |-> k[n]]
  /\ Rooted(k, h, S, top)
  /\ \A n \in Nodes \ S : h.child[n] = Nil /\ h.next[n] = Nil
HeapInv == HeapHolds(key, Heap!Links, root, Heap!Held)

(* Whatever one tree below the new root consists of is the new queue. *)
LEMMA HeldHolds ==
  ASSUME NEW S, HeapHolds(key', Heap!Links', root', S)
  PROVE  HeapInv' /\ Heap!Held' = S
<1>1. Heap!Held' = S
  BY HeldNext DEF HeapHolds
<1> QED BY <1>1 DEF HeapInv

LEMMA BecomesLinks ==
  ASSUME NEW t, t.links \in LinksType, Heap!Becomes(t)
  PROVE  Heap!Links' = t.links /\ root' = t.top
<1>1. t.links = [child |-> t.links.child, next |-> t.links.next, prev |-> t.links.prev]
  BY DEF LinksType
<1> QED BY <1>1 DEF Heap!Becomes, Heap!Links

(* One lemma for each operation: HeapInv is kept, and the queue takes a step. *)
LEMMA AddPuts ==
  ASSUME HeapInv, NEW n \in Nodes, NEW k \in Keys, Heap!Add(n, k)
  PROVE  HeapInv' /\ Heap!PQ!Put(n, k)
<1> DEFINE h == Heap!Links
<1>1. PICK S : S = Heap!Held
  OBVIOUS
<1>2. /\ n \in Nodes \ S /\ key' = [key EXCEPT ![n] = k] /\ popped' = {}
      /\ Heap!Becomes(Heap!Meld(key', h, root, n))
  BY <1>1 DEF Heap!Add
<1>3. PICK j : j = key'
  OBVIOUS
<1>4. /\ HeapHolds(key, h, root, S) /\ S \subseteq Nodes
      /\ key = [x \in Nodes |-> key[x]] /\ Rooted(key, h, S, root)
      /\ \A x \in Nodes \ S : h.child[x] = Nil /\ h.next[x] = Nil
  BY <1>1 DEF HeapInv, HeapHolds, Rooted, Trees
<1>5. /\ j = [x \in Nodes |-> j[x]] /\ j[n] = k /\ j[n] \in Int
      /\ \A x \in S : j[x] = key[x]
  BY <1>2, <1>3, <1>4, HeapAssumption
<1> DEFINE m == Heap!Meld(j, h, root, n)
<1> HIDE DEF h
<1>6. Rooted(j, m.links, S \cup {n}, m.top) /\ StayOutside(h, m.links, S \cup {n})
  <2>1. Rooted(j, h, S, root)
    BY <1>4, <1>5, RootedKeys
  <2> QED BY <1>2, <1>4, <1>5, <2>1, JoinedTrees
<1> HIDE DEF m
<1>7. Heap!Links' = m.links /\ root' = m.top
  <2>1. Heap!Becomes(m) /\ m.links \in LinksType
    BY <1>2, <1>3, <1>6 DEF Rooted, m, h
  <2> QED BY <2>1, BecomesLinks
<1>8. HeapHolds(key', Heap!Links', root', S \cup {n})
  <2>1. \A x \in Nodes \ (S \cup {n}) : m.links.child[x] = Nil /\ m.links.next[x] = Nil
    BY <1>4, <1>6 DEF StayOutside
  <2> QED BY <1>3, <1>5, <1>6, <1>7, <2>1 DEF HeapHolds
<1>9. HeapInv' /\ Heap!Held' = S \cup {n}
  BY <1>8, HeldHolds
<1> QED BY <1>1, <1>2, <1>3, <1>5, <1>9 DEF Heap!PQ!Put

LEMMA PopTakes ==
  ASSUME HeapInv, Heap!Pop
  PROVE  HeapInv' /\ Heap!PQ!Take
<1> DEFINE h == Heap!Links
<1>1. PICK S : S = Heap!Held
  OBVIOUS
<1>2. PICK n : n = root
  OBVIOUS
<1> DEFINE d == Heap!Deleted(key, h, n, n)
<1>3. /\ n # Nil /\ popped' = {n} /\ key' = [key EXCEPT ![n] = Heap!Lowest] /\ Heap!Becomes(d)
  BY <1>2 DEF Heap!Pop, Heap!Deleted, Heap!Links
<1>4. /\ key = [x \in Nodes |-> key[x]] /\ Rooted(key, h, S, n) /\ n \in S /\ S \subseteq Nodes
      /\ \A x \in Nodes \ S : h.child[x] = Nil /\ h.next[x] = Nil
  BY <1>1, <1>2, <1>3 DEF HeapInv, HeapHolds, Rooted, Trees
<1> HIDE DEF h
<1>5. /\ Rooted(key, d.links, S \ {n}, d.top)
      /\ d.links.child[n] = Nil /\ d.links.next[n] = Nil /\ StayOutside(h, d.links, S)
  BY <1>4, DeletedTrees DEF Deletes
<1> HIDE DEF d
<1>6. Heap!Links' = d.links /\ root' = d.top
  BY <1>3, <1>5, BecomesLinks DEF Rooted
<1>7. key' = [x \in Nodes |-> key'[x]] /\ \A x \in S \ {n} : key'[x] = key[x]
  BY <1>3, <1>4
<1>8. HeapHolds(key', Heap!Links', root', S \ {n})
  <2>1. \A x \in Nodes \ (S \ {n}) : d.links.child[x] = Nil /\ d.links.next[x] = Nil
    BY <1>4, <1>5 DEF StayOutside
  <2>2. Rooted(key', d.links, S \ {n}, d.top)
    BY <1>5, <1>7, RootedKeys
  <2> QED BY <1>6, <1>7, <2>1, <2>2 DEF HeapHolds
<1>9. HeapInv' /\ Heap!Held' = S \ {n}
  BY <1>8, HeldHolds
<1>10. \A x \in S : key[x] <= key[n]
  BY <1>4, RootIsBest
<1> QED BY <1>1, <1>3, <1>4, <1>7, <1>9, <1>10 DEF Heap!PQ!Take

LEMMA DeleteDrops ==
  ASSUME HeapInv, NEW n \in Nodes, Heap!DeleteNode(n)
  PROVE  HeapInv' /\ Heap!PQ!Drop(n)
<1> DEFINE h == Heap!Links
           d == Heap!Deleted(key, h, root, n)
<1>1. PICK S : S = Heap!Held
  OBVIOUS
<1>2. /\ n \in S /\ popped' = {} /\ key' = [key EXCEPT ![n] = Heap!Lowest] /\ Heap!Becomes(d)
  BY <1>1 DEF Heap!DeleteNode
<1>3. /\ key = [x \in Nodes |-> key[x]] /\ Rooted(key, h, S, root) /\ S \subseteq Nodes
      /\ \A x \in Nodes \ S : h.child[x] = Nil /\ h.next[x] = Nil
  BY <1>1 DEF HeapInv, HeapHolds, Rooted, Trees
<1> HIDE DEF h
<1>4. /\ Rooted(key, d.links, S \ {n}, d.top)
      /\ d.links.child[n] = Nil /\ d.links.next[n] = Nil /\ StayOutside(h, d.links, S)
  BY <1>2, <1>3, DeletedTrees DEF Deletes
<1> HIDE DEF d
<1>5. Heap!Links' = d.links /\ root' = d.top
  BY <1>2, <1>4, BecomesLinks DEF Rooted
<1>6. key' = [x \in Nodes |-> key'[x]] /\ \A x \in S \ {n} : key'[x] = key[x]
  BY <1>2, <1>3
<1>7. HeapHolds(key', Heap!Links', root', S \ {n})
  <2>1. \A x \in Nodes \ (S \ {n}) : d.links.child[x] = Nil /\ d.links.next[x] = Nil
    BY <1>3, <1>4 DEF StayOutside
  <2>2. Rooted(key', d.links, S \ {n}, d.top)
    BY <1>4, <1>6, RootedKeys
  <2> QED BY <1>5, <1>6, <2>1, <2>2 DEF HeapHolds
<1>8. HeapInv' /\ Heap!Held' = S \ {n}
  BY <1>7, HeldHolds
<1> QED BY <1>1, <1>2, <1>3, <1>6, <1>8 DEF Heap!PQ!Drop

(* What a change of the priority of n leaves: j are the priorities after it. *)
LEMMA MovedHolds ==
  ASSUME NEW S, S = Heap!Held, HeapInv, NEW n \in S, NEW k \in Keys,
         key' = [key EXCEPT ![n] = k], Rooted(key', Heap!Links', S, root'),
         \A x \in Nodes \ S : Heap!Links'.child[x] = Nil /\ Heap!Links'.next[x] = Nil,
         popped' = {}
  PROVE  HeapInv' /\ Heap!PQ!Move(n, k)
<1>1. key = [x \in Nodes |-> key[x]] /\ S \subseteq Nodes
  BY DEF HeapInv, HeapHolds, Rooted, Trees
<1>2. key' = [x \in Nodes |-> key'[x]]
  BY <1>1
<1>3. HeapHolds(key', Heap!Links', root', S)
  BY <1>2 DEF HeapHolds
<1>4. HeapInv' /\ Heap!Held' = S
  BY <1>3, HeldHolds
<1>5. [x \in S |-> key'[x]] = [[x \in S |-> key[x]] EXCEPT ![n] = k]
  BY <1>1
<1> QED BY <1>4, <1>5 DEF Heap!PQ!Move

LEMMA IncreaseMoves ==
  ASSUME HeapInv, NEW n \in Nodes, NEW k \in Keys, Heap!IncreasePriority(n, k)
  PROVE  HeapInv' /\ Heap!PQ!Move(n, k)
<1> DEFINE h == Heap!Links
           tops == {root} \ {Nil}
           settled == n = root \/ (prev[n] # Nil /\ child[prev[n]] = n /\ key'[prev[n]] > k)
<1>1. PICK S : S = Heap!Held
  OBVIOUS
<1>2. /\ n \in S /\ k > key[n] /\ key' = [key EXCEPT ![n] = k] /\ popped' = {}
      /\ IF settled THEN UNCHANGED <<child, next, prev, root>>
         ELSE Heap!Becomes(Heap!Meld(key', Heap!Unlink(h, n), root, n))
  BY <1>1 DEF Heap!IncreasePriority
<1>3. /\ key = [x \in Nodes |-> key[x]] /\ Rooted(key, h, S, root) /\ S \subseteq Nodes
      /\ Trees(key, h, S, tops) /\ \A x \in S : key[x] \in Int
      /\ \A x \in Nodes \ S : h.child[x] = Nil /\ h.next[x] = Nil
  BY <1>1 DEF HeapInv, HeapHolds, Rooted, Trees
<1>4. /\ h.child = child /\ h.next = next /\ h.prev = prev /\ Nil \notin Nodes /\ k \in Int
      /\ h \in LinksType /\ root \in Nodes
  <2>1. root # Nil
    BY <1>2, <1>3, NothingLeft
  <2> QED BY <1>3, <2>1, HeapAssumption DEF Heap!Links, Rooted
<1>5. PICK j : j = key'
  OBVIOUS
<1>6. j[n] = k /\ k \in Int /\ j[n] >= key[n] /\ \A x \in S \ {n} : j[x] = key[x]
  BY <1>2, <1>3, <1>4, <1>5
<1>7. CASE settled
  <2>1. Heap!Links' = h /\ root' = root
    BY <1>2, <1>7 DEF Heap!Links
  <2>2. n \in tops \/ \E p \in S \ {n} : h.child[p] = n /\ j[n] <= key[p]
    <3>1. CASE n = root
      BY <1>3, <1>4, <3>1
    <3>2. CASE n # root
      <4>1. n \notin tops /\ child[prev[n]] = n /\ j[prev[n]] > k
        BY <1>5, <1>7, <3>2
      <4>2. prev[n] \in S
        BY <1>2, <1>3, <1>4, <4>1 DEF Trees, Bonds
      <4>3. prev[n] # n
        BY <1>4, <1>6, <4>1
      <4>4. j[prev[n]] = key[prev[n]] /\ key[prev[n]] \in Int
        BY <1>3, <1>6, <4>2, <4>3
      <4> QED BY <1>4, <1>6, <4>1, <4>2, <4>3, <4>4
    <3> QED BY <3>1, <3>2
  <2> HIDE DEF h, settled, tops
  <2>3. Trees(j, h, S, tops)
    BY <1>2, <1>3, <1>6, <2>2, RaisedTrees
  <2>4. Rooted(j, h, S, root)
    BY <1>3, <2>3 DEF Rooted, tops
  <2> QED BY <1>1, <1>2, <1>3, <1>5, <2>1, <2>4, MovedHolds
<1>8. CASE ~settled
  <2> DEFINE u == Heap!Unlink(h, n)
             m == Heap!Meld(j, u, root, n)
  <2>1. Heap!Becomes(m) /\ n # root /\ tops = {root}
    BY <1>2, <1>4, <1>5, <1>8
  <2> HIDE DEF settled
  <2>2. Unlinks(key, h, S, {root}, n, u)
    <3>1. Trees(key, h, S, {root}) /\ n \in S \ {root}
      BY <1>2, <1>3, <2>1
    <3> HIDE DEF h
    <3> QED BY <1>4, <3>1, Unlinked
  <2> HIDE DEF u, h
  <2>3. u \in LinksType /\ Trees(key, u, S, {root} \cup {n}) /\ StayOutside(h, u, S)
    BY <2>2 DEF Unlinks
  <2>4. Trees(j, u, S, {root} \cup {n})
    BY <1>2, <1>6, <2>3, RaisedTrees
  <2>5. {root} \cup {n} = {} \cup {root, n}
    OBVIOUS
  <2>6. Trees(j, u, S, {} \cup {root, n})
    BY <2>4, <2>5
  <2>7. Melded(j, u, S, {}, root, n, m)
    BY <2>1, <2>3, <2>6, MeldedTrees
  <2> HIDE DEF m
  <2>8. Rooted(j, m.links, S, m.top)
    <3>1. m.top \in {root, n} /\ m.top \in Nodes /\ {} \cup {m.top} = {m.top} \ {Nil}
      BY <1>2, <1>3, <1>4, <2>7 DEF Melded
    <3> QED BY <2>7, <3>1 DEF Melded, Rooted
  <2>9. StayOutside(h, m.links, S)
    <3>1. root \in S /\ n \in S
      BY <2>4 DEF Trees
    <3> QED BY <2>3, <2>7, <3>1 DEF Melded, StayOutside
  <2>10. Heap!Links' = m.links /\ root' = m.top
    BY <2>1, <2>8, BecomesLinks DEF Rooted
  <2>11. \A x \in Nodes \ S : m.links.child[x] = Nil /\ m.links.next[x] = Nil
    BY <1>3, <2>9 DEF StayOutside
  <2> QED BY <1>1, <1>2, <1>5, <2>8, <2>10, <2>11, MovedHolds
<1> QED BY <1>7, <1>8

LEMMA DecreaseMoves ==
  ASSUME HeapInv, NEW n \in Nodes, NEW k \in Keys, Heap!DecreasePriority(n, k)
  PROVE  HeapInv' /\ Heap!PQ!Move(n, k)
<1> DEFINE h == Heap!Links
<1>1. PICK S : S = Heap!Held
  OBVIOUS
<1>2. PICK j : j = key'
  OBVIOUS
<1> DEFINE d == Heap!Deleted(j, h, root, n)
           m == Heap!Meld(j, d.links, d.top, n)
<1>3. n \in S /\ j = [key EXCEPT ![n] = k] /\ popped' = {} /\ Heap!Becomes(m)
  BY <1>1, <1>2 DEF Heap!DecreasePriority
<1>4. /\ key = [x \in Nodes |-> key[x]] /\ Rooted(key, h, S, root) /\ S \subseteq Nodes
      /\ \A x \in Nodes \ S : h.child[x] = Nil /\ h.next[x] = Nil
  BY <1>1 DEF HeapInv, HeapHolds, Rooted, Trees
<1>5. j[n] \in Int /\ \A x \in S \ {n} : j[x] = key[x]
  BY <1>3, <1>4, HeapAssumption
<1> HIDE DEF h, m
<1>6. /\ Rooted(j, d.links, S \ {n}, d.top)
      /\ d.links.child[n] = Nil /\ d.links.next[n] = Nil /\ StayOutside(h, d.links, S)
  <2>1. n \in S /\ Rooted(key, h, S, root) /\ \A x \in S \ {n} : j[x] = key[x]
    BY <1>3, <1>4, <1>5
  <2>2. Deletes(j, h, S, root, n)
    BY <2>1, DeletedTrees
  <2> QED BY <2>2 DEF Deletes
<1> HIDE DEF d
<1>7. (S \ {n}) \cup {n} = S /\ n \in Nodes \ (S \ {n})
  BY <1>3, <1>4
<1>8. Rooted(j, m.links, S, m.top) /\ StayOutside(d.links, m.links, S)
  BY <1>5, <1>6, <1>7, JoinedTrees DEF m
<1>9. Heap!Links' = m.links /\ root' = m.top
  BY <1>3, <1>8, BecomesLinks DEF Rooted
<1>10. \A x \in Nodes \ S : m.links.child[x] = Nil /\ m.links.next[x] = Nil
  BY <1>4, <1>6, <1>8 DEF StayOutside
<1> QED BY <1>1, <1>2, <1>3, <1>8, <1>9, <1>10, MovedHolds

-----------------------------------------------------------------------------
(* The empty heap is an empty queue. *)
LEMMA HeapStarts == ASSUME Heap!Init PROVE HeapInv /\ Heap!PQ!QueueInit
<1> DEFINE h == Heap!Links
<1>1. h \in LinksType /\ h.child = child /\ h.next = next /\ root = Nil /\ popped = {}
  BY DEF Heap!Init, Heap!Links, LinksType, LinkType
<1>2. key = [n \in Nodes |-> key[n]] /\ \A n \in Nodes : child[n] = Nil /\ next[n] = Nil
  BY DEF Heap!Init
<1> HIDE DEF h
<1>3. Trees(key, h, {}, {})
  <2>1. \E par \in [{} -> {}] : Under(key, h, {}, {}, par)
    <3>1. [x \in {} |-> x] \in [{} -> {}]
      OBVIOUS
    <3> QED BY <3>1 DEF Under
  <2> QED BY <2>1 DEF Trees, Bonds, Reached
<1>4. {root} \ {Nil} = {}
  BY <1>1
<1>5. Rooted(key, h, {}, root)
  BY <1>1, <1>3, <1>4 DEF Rooted
<1>6. Heap!Held = {}
  BY <1>5, HeldIs DEF h
<1>7. HeapInv
  BY <1>1, <1>2, <1>5, <1>6 DEF HeapInv, HeapHolds, h
<1>8. [n \in Heap!Held |-> key[n]] = <<>>
  BY <1>6
<1> QED BY <1>1, <1>7, <1>8 DEF Heap!PQ!QueueInit

LEMMA HeapMoves == ASSUME HeapInv, Heap!Next PROVE HeapInv' /\ Heap!PQ!QueueStep
<1>1. CASE Heap!Pop
  BY <1>1, PopTakes DEF Heap!PQ!QueueStep
<1>2. ASSUME NEW n \in Nodes, Heap!DeleteNode(n) PROVE HeapInv' /\ Heap!PQ!QueueStep
  BY <1>2, DeleteDrops DEF Heap!PQ!QueueStep
<1>3. ASSUME NEW n \in Nodes, NEW k \in Keys, Heap!Add(n, k) PROVE HeapInv' /\ Heap!PQ!QueueStep
  BY <1>3, AddPuts DEF Heap!PQ!QueueStep
<1>4. ASSUME NEW n \in Nodes, NEW k \in Keys, Heap!IncreasePriority(n, k) PROVE HeapInv' /\ Heap!PQ!QueueStep
  BY <1>4, IncreaseMoves DEF Heap!PQ!QueueStep
<1>5. ASSUME NEW n \in Nodes, NEW k \in Keys, Heap!DecreasePriority(n, k) PROVE HeapInv' /\ Heap!PQ!QueueStep
  BY <1>5, DecreaseMoves DEF Heap!PQ!QueueStep
<1> QED BY <1>1, <1>2, <1>3, <1>4, <1>5 DEF Heap!Next

LEMMA HeapStays == ASSUME HeapInv, UNCHANGED heapVars PROVE HeapInv' /\ UNCHANGED <<[n \in Heap!Held |-> key[n]], popped>>
<1>1. /\ key' = key /\ Heap!Links' = Heap!Links /\ root' = root /\ popped' = popped
  BY DEF heapVars, Heap!Links
<1>2. PICK S : S = Heap!Held
  OBVIOUS
<1>3. HeapHolds(key', Heap!Links', root', S)
  BY <1>1, <1>2 DEF HeapInv
<1>4. HeapInv' /\ Heap!Held' = S
  BY <1>3, HeldHolds
<1> QED BY <1>1, <1>2, <1>4

LEMMA HeapStep == ASSUME HeapInv, [Next]_vars
                  PROVE  HeapInv' /\ [Heap!PQ!QueueStep]_<<[n \in Heap!Held |-> key[n]], popped>>
<1>1. CASE subject = "heap" /\ Heap!Next
  BY <1>1, HeapMoves
<1>2. CASE UNCHANGED heapVars
  BY <1>2, HeapStays
<1> QED BY <1>1, <1>2 DEF Next, vars

(* The pointers of the pairing heap behave as a priority queue of handles:
   what hangs below the root is the queue, and pop() takes a best node of it. *)
THEOREM HeapIsAQueue == Spec => HeapImplementsQueue
<1>1. Init => HeapInv /\ Heap!PQ!QueueInit
  BY HeapStarts DEF Init
<1>2. HeapInv /\ [Next]_vars => HeapInv' /\ [Heap!PQ!QueueStep]_<<[n \in Heap!Held |-> key[n]], popped>>
  BY HeapStep
<1> QED BY <1>1, <1>2, PTL DEF Spec, HeapImplementsQueue, Heap!ImplementsQueue, Heap!PQ!QueueSpec
=============================================================================
