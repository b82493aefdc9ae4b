-------------------------- MODULE MempoolSync_proofs --------------------------
(***************************************************************************)
(* The main loop around the mempool object (MempoolSync): proof that a     *)
(* transaction whose block is handled does not come back to it, but for    *)
(* those that a copy older than its own blocks puts back, and that the     *)
(* spend map never names one that has left it, whatever the node mines,    *)
(* evicts and answers meanwhile, wherever a save is cut off, and after     *)
(* failures and restarts.  The last part is about the relatives that the   *)
(* dependency graph of a cluster keeps beside its edges (DepGraph of       *)
(* cluster-mempool/depgraph.ts): adding transactions and dependencies keeps*)
(* them the closure of the edges.                                          *)
(***************************************************************************)
EXTENDS MempoolSync, Induction, FiniteSetTheorems

(* A copy of transactions and blocks, and one that is being written. *)
IsCopy(s) ==
  /\ s = [txs |-> s.txs, seen |-> s.seen, late |-> s.late]
  /\ s.txs \in SUBSET TxSet /\ s.seen \in 0..Len(chain)
IsSave(s) ==
  /\ s = [step |-> s.step, txs |-> s.txs, seen |-> s.seen, late |-> s.late]
  /\ s.txs \in SUBSET TxSet /\ s.seen \in 0..Len(chain)

(* The types of the state; only a fetch has work left. *)
Types ==
  /\ pool \in SUBSET TxSet /\ chain \in Seq(SUBSET TxSet)
  /\ raw \in SUBSET TxSet /\ todo \subseteq raw /\ added \in Seq(TxSet)
  /\ pc # "fetch" => todo = {} /\ added = <<>>
  /\ seen \in 0..Len(chain) /\ tip \in 0..Len(chain)
  /\ cache \in SUBSET TxSet
  /\ IsCopy(disk) /\ IsSave(save)
  /\ protection \in 0..2

(* The blocks up to n of a chain c. *)
Covered(c, n) == UNION {c[i] : i \in 1..n}

(* MinedStaysOut as it is kept: what a run may still add is free of the blocks
   that were handled when it was read, and so is what a restart may load, but
   for the transactions listed before a block of the same copy. *)
PoolIsUnmined == pool \cap Covered(chain, Len(chain)) = {}
RawIsUnhandled ==
  pc \in {"raw", "fetch"} \/ (pc = "blocks" /\ ~handled) => raw \cap Covered(chain, seen) = {}
IsUnmined(s) == s.txs \cap Covered(chain, s.seen) \subseteq s.late
SavedIsUnmined == IsUnmined(disk) /\ IsUnmined(save)
MinedInv == PoolIsUnmined /\ RawIsUnhandled /\ SavedIsUnmined /\ MinedStaysOut

(* SpendMapIsCurrent as it is kept: what the run has fetched, and will enter
   into the spend map, is in the mempool object and stays there. *)
AddedIsCached == ToSet(added) \subseteq cache \cap raw
SpendInv == AddedIsCached /\ SpendMapIsCurrent

-----------------------------------------------------------------------------
(* What the conversions between sets and lists give. *)
LEMMA Listed == ASSUME NEW S \in SUBSET TxSet
                PROVE  SetToSeq(S) \in Seq(S) /\ ToSet(SetToSeq(S)) \subseteq S
<1>1. IsFiniteSet(S)
  BY SyncAssumption, FS_Subset
<1>2. Cardinality(S) \in Nat
  BY <1>1, FS_CardinalityType
<1>3. PICK f \in [1..Cardinality(S) -> S] : IsInjective(f)
  <2>1. ExistsBijection(1..Cardinality(S), S)
    BY <1>1, FS_CardinalityType
  <2>2. PICK f \in Bijection(1..Cardinality(S), S) : TRUE
    BY <2>1 DEF ExistsBijection
  <2>3. f \in [1..Cardinality(S) -> S] /\ \A a, b \in 1..Cardinality(S) : f[a] = f[b] => a = b
    BY <2>2 DEF Bijection, Injection, IsInjective
  <2> QED BY <2>3 DEF IsInjective
<1>4. SetToSeq(S) \in [1..Cardinality(S) -> S]
  BY <1>3 DEF SetToSeq
<1>5. SetToSeq(S) \in Seq(S)
  BY <1>2, <1>4
<1> QED BY <1>5 DEF ToSet

LEMMA OrderList ==
  ASSUME NEW S \in SUBSET TxSet, NEW order \in Orders(S)
  PROVE  order \in Seq(TxSet) /\ ToSet(order) \subseteq S
<1>1. CASE order = SetToSeq(S)
  BY <1>1, Listed
<1>2. CASE order \in SetToSeqs(S)
  <2>1. IsFiniteSet(S)
    BY SyncAssumption, FS_Subset
  <2>2. order \in [1..Cardinality(S) -> S] /\ Cardinality(S) \in Nat
    BY <1>2, <2>1, FS_CardinalityType DEF SetToSeqs
  <2>3. order \in Seq(S)
    BY <2>2
  <2> QED BY <2>3 DEF ToSet
<1> QED BY <1>1, <1>2 DEF Orders

LEMMA AnswerList == Types => \A got \in Answers : got \in Seq(TxSet)
<1> SUFFICES ASSUME Types, NEW got \in Answers PROVE got \in Seq(TxSet)
  OBVIOUS
<1>1. PICK S \in SUBSET todo : got \in SetToSeqs(S)
  BY DEF Answers
<1>2. S \in SUBSET TxSet /\ IsFiniteSet(S)
  BY SyncAssumption, FS_Subset DEF Types
<1>3. got \in [1..Cardinality(S) -> S] /\ Cardinality(S) \in Nat
  BY <1>1, <1>2, FS_CardinalityType DEF SetToSeqs
<1> QED BY <1>2, <1>3

LEMMA Members == ASSUME NEW V, NEW s \in Seq(V), NEW x
                 PROVE  x \in ToSet(s) <=> \E i \in 1..Len(s) : x = s[i]
<1>1. DOMAIN s = 1..Len(s)
  OBVIOUS
<1> QED BY <1>1, Zenon DEF ToSet

LEMMA Joined == ASSUME NEW V, NEW s \in Seq(V), NEW t \in Seq(V)
                PROVE  ToSet(s \o t) = ToSet(s) \cup ToSet(t)
<1> DEFINE both == s \o t
           m == Len(s)
           n == Len(t)
<1>1. both \in Seq(V) /\ Len(both) = m + n
  OBVIOUS
<1>2. /\ \A i \in 1..m : i \in 1..(m + n) /\ both[i] = s[i]
      /\ \A i \in 1..n : m + i \in 1..(m + n) /\ both[m + i] = t[i]
      /\ \A i \in 1..(m + n) : i \in 1..m \/ (i - m \in 1..n /\ both[i] = t[i - m])
  OBVIOUS
<1> HIDE DEF both
<1>3. ASSUME NEW x
      PROVE  /\ x \in ToSet(both) <=> \E i \in 1..(m + n) : x = both[i]
             /\ x \in ToSet(s) <=> \E i \in 1..m : x = s[i]
             /\ x \in ToSet(t) <=> \E i \in 1..n : x = t[i]
  <2>1. x \in ToSet(both) <=> \E i \in 1..Len(both) : x = both[i]
    BY <1>1, Members
  <2>2. /\ x \in ToSet(s) <=> \E i \in 1..Len(s) : x = s[i]
        /\ x \in ToSet(t) <=> \E i \in 1..Len(t) : x = t[i]
    BY Members
  <2> QED BY <1>1, <2>1, <2>2
<1> HIDE DEF m, n
<1>4. \A x : x \in ToSet(both) <=> x \in ToSet(s) \cup ToSet(t)
  BY <1>2, <1>3
<1>5. ToSet(both) = ToSet(s) \cup ToSet(t)
  BY <1>4
<1> QED BY <1>5 DEF both

(* After addToSpendMap every entry names a spender from S. *)
LEMMA Learned ==
  ASSUME NEW map, NEW txs \in Seq(TxSet), NEW S, ToSet(txs) \subseteq S,
         \A o \in DOMAIN map : map[o] \in S /\ o \in Inputs[map[o]]
  PROVE  \A o \in DOMAIN Learn(map, txs) : Learn(map, txs)[o] \in S /\ o \in Inputs[Learn(map, txs)[o]]
<1> DEFINE spent == UNION {Inputs[txs[i]] : i \in DOMAIN txs}
           Ends(o, i) == o \in Inputs[txs[i]] /\ \A j \in DOMAIN txs : o \in Inputs[txs[j]] => j <= i
           spender(o) == CHOOSE i \in DOMAIN txs : Ends(o, i)
<1>1. Learn(map, txs) = [o \in DOMAIN map \cup spent |-> IF o \in spent THEN txs[spender(o)] ELSE map[o]]
  BY DEF Learn, LastSpender
<1>2. ASSUME NEW o \in spent PROVE txs[spender(o)] \in S /\ o \in Inputs[txs[spender(o)]]
  <2> DEFINE T == {i \in DOMAIN txs : o \in Inputs[txs[i]]}
  <2>1. T \in SUBSET Int /\ T # {} /\ \A i \in T : i <= Len(txs)
    OBVIOUS
  <2>2. PICK i \in T : \A j \in T : j <= i
    <3> HIDE DEF T
    <3>1. Len(txs) \in Int
      OBVIOUS
    <3> QED BY <2>1, <3>1, Greatest
  <2>3. \E k \in DOMAIN txs : Ends(o, k)
    BY <2>2
  <2>4. spender(o) \in DOMAIN txs /\ Ends(o, spender(o))
    BY <2>3
  <2> QED BY <2>4 DEF ToSet
<1> HIDE DEF spent, spender
<1> QED BY <1>1, <1>2

(* A new block, and the next block of the same chain. *)
LEMMA CoveredAppended ==
  ASSUME NEW c \in Seq(SUBSET TxSet), NEW S \in SUBSET TxSet
  PROVE  /\ Append(c, S) \in Seq(SUBSET TxSet) /\ Len(Append(c, S)) = Len(c) + 1
         /\ \A n \in 0..Len(c) : Covered(Append(c, S), n) = Covered(c, n)
         /\ Covered(Append(c, S), Len(c) + 1) = Covered(c, Len(c)) \cup S
<1>1. \A i \in 1..Len(c) : Append(c, S)[i] = c[i]
  OBVIOUS
<1>2. Append(c, S)[Len(c) + 1] = S
  OBVIOUS
<1>3. \A i \in 1..(Len(c) + 1) : i \in 1..Len(c) \/ i = Len(c) + 1
  OBVIOUS
<1>4. \A i \in 1..Len(c) : i \in 1..(Len(c) + 1)
  OBVIOUS
<1>5. Len(c) + 1 \in 1..(Len(c) + 1) /\ Append(c, S) \in Seq(SUBSET TxSet) /\ Len(Append(c, S)) = Len(c) + 1
  OBVIOUS
<1>6. ASSUME NEW n \in 0..Len(c) PROVE Covered(Append(c, S), n) = Covered(c, n)
  <2>1. \A i \in 1..n : Append(c, S)[i] = c[i]
    BY <1>1
  <2> QED BY <2>1 DEF Covered
<1>7. Covered(Append(c, S), Len(c) + 1) = Covered(c, Len(c)) \cup S
  <2> DEFINE d == Append(c, S)
  <2> HIDE DEF d
  <2>1. \A x : x \in Covered(d, Len(c) + 1) <=> \E i \in 1..(Len(c) + 1) : x \in d[i]
    BY DEF Covered
  <2>2. \A x : x \in Covered(c, Len(c)) <=> \E i \in 1..Len(c) : x \in c[i]
    BY DEF Covered
  <2> QED BY <1>1, <1>2, <1>3, <1>4, <1>5, <2>1, <2>2 DEF d
<1> QED BY <1>5, <1>6, <1>7

LEMMA CoveredFurther ==
  ASSUME NEW c, NEW n \in Nat
  PROVE  /\ Covered(c, 0) = {}
         /\ Covered(c, n + 1) = Covered(c, n) \cup c[n + 1]
         /\ \A m \in 0..n : Covered(c, m) \subseteq Covered(c, n)
<1>1. \A i \in 1..(n + 1) : i \in 1..n \/ i = n + 1
  OBVIOUS
<1>2. n + 1 \in 1..(n + 1) /\ \A i \in 1..n : i \in 1..(n + 1)
  OBVIOUS
<1>3. 1..0 = {}
  OBVIOUS
<1>4. Covered(c, n + 1) = Covered(c, n) \cup c[n + 1]
  BY <1>1, <1>2 DEF Covered
<1> QED BY <1>3, <1>4 DEF Covered

(* A block up to n is one up to m, or between. *)
LEMMA CoveredBetween ==
  ASSUME NEW m \in Nat, NEW n \in Nat
  PROVE  Covered(chain, n) \subseteq Covered(chain, m) \cup Between(m, n)
<1>1. \A i \in 1..n : i \in 1..m \/ i \in (m + 1)..n
  OBVIOUS
<1> QED BY <1>1 DEF Covered, Between

(* Files of two saves: what is not covered by the blocks of its own is late. *)
LEMMA TornCopy ==
  ASSUME IsCopy(disk), NEW s, s.txs \in SUBSET TxSet, s.seen \in 0..Len(chain)
  PROVE  /\ IsCopy(Torn(s)) /\ Torn(s).txs = s.txs \cup disk.txs /\ Torn(s).seen = s.seen
         /\ IsUnmined(s) /\ IsUnmined(disk) => IsUnmined(Torn(s))
<1>1. /\ Torn(s).txs = s.txs \cup disk.txs /\ Torn(s).seen = s.seen
      /\ Torn(s).late = s.late \cup disk.late \cup Between(disk.seen, s.seen)
      /\ Torn(s) = [txs |-> Torn(s).txs, seen |-> Torn(s).seen, late |-> Torn(s).late]
  BY DEF Torn
<1>2. Covered(chain, s.seen) \subseteq Covered(chain, disk.seen) \cup Between(disk.seen, s.seen)
  <2>1. disk.seen \in Nat /\ s.seen \in Nat
    BY DEF IsCopy
  <2> QED BY <2>1, CoveredBetween
<1>3. IsUnmined(s) /\ IsUnmined(disk) => IsUnmined(Torn(s))
  BY <1>1, <1>2 DEF IsUnmined
<1> QED BY <1>1, <1>3 DEF IsCopy

(* What a crash or a stop leaves to load. *)
LEMMA SavesAreCopies ==
  ASSUME Types, NEW saved \in Saves
  PROVE  IsCopy(saved) /\ (MinedInv => IsUnmined(saved))
<1> DEFINE now == [txs |-> cache, seen |-> seen, late |-> restored]
<1>1. IsCopy(disk) /\ (MinedInv => IsUnmined(disk))
  BY DEF Types, MinedInv, SavedIsUnmined
<1>2. IsCopy(now) /\ now.txs \in SUBSET TxSet /\ now.seen \in 0..Len(chain)
  BY DEF Types, IsCopy
<1>3. MinedInv => IsUnmined(now)
  BY DEF MinedInv, MinedStaysOut, MinedBy, IsUnmined, Covered
<1>4. saved \in {disk, now, Torn(now)}
  BY DEF Saves
<1> HIDE DEF now
<1>5. IsCopy(Torn(now)) /\ (MinedInv => IsUnmined(Torn(now)))
  BY <1>1, <1>2, <1>3, TornCopy
<1> QED BY <1>1, <1>2, <1>3, <1>4, <1>5

-----------------------------------------------------------------------------
(* What the steps of the node do, and that those of the loop keep the types. *)
LEMMA NodeTypes ==
  Types /\ PoolIsUnmined /\ Node =>
    /\ Types' /\ PoolIsUnmined'
    /\ \A n \in 0..Len(chain) : Covered(chain', n) = Covered(chain, n)
    /\ UNCHANGED <<pc, raw, handled, todo, added, tip, seen, cache, spendMap, disk, save, restored>>
<1> SUFFICES ASSUME Types, PoolIsUnmined, Node
             PROVE  /\ Types' /\ PoolIsUnmined'
                    /\ \A n \in 0..Len(chain) : Covered(chain', n) = Covered(chain, n)
                    /\ UNCHANGED <<pc, raw, handled, todo, added, tip, seen, cache, spendMap, disk, save, restored>>
  OBVIOUS
<1>1. UNCHANGED <<pc, raw, handled, todo, added, tip, seen, cache, spendMap, protection, disk, save, restored>>
  BY DEF Node, Arrive, Evict, Boosts, MineBlock, NodeMoves, loopVars
<1>2. Mined = Covered(chain, Len(chain))
  BY DEF Mined, MinedBy, Covered
<1>3. CASE \E t \in TxSet : Arrive(t) \/ Evict(t) \/ Boosts(t)
  <2> PICK t \in TxSet : Arrive(t) \/ Evict(t) \/ Boosts(t)
    BY <1>3
  <2>1. chain' = chain
    BY DEF Arrive, Evict, Boosts
  <2>2. pool' \subseteq pool \cup {t} /\ (pool' \subseteq pool \/ t \notin Mined)
    BY DEF Arrive, Evict, Boosts
  <2>3. PoolIsUnmined'
    BY <1>2, <2>1, <2>2 DEF PoolIsUnmined
  <2>4. Types'
    BY <1>1, <2>1, <2>2 DEF Types, IsCopy, IsSave
  <2> QED BY <1>1, <2>1, <2>3, <2>4
<1>4. CASE \E S \in SUBSET pool : MineBlock(S)
  <2> PICK S \in SUBSET pool : MineBlock(S)
    BY <1>4
  <2>1. chain' = Append(chain, S) /\ pool' = pool \ S
    BY DEF MineBlock
  <2>2. chain \in Seq(SUBSET TxSet) /\ S \in SUBSET TxSet
    BY DEF Types
  <2>3. /\ chain' \in Seq(SUBSET TxSet) /\ Len(chain') = Len(chain) + 1
        /\ \A n \in 0..Len(chain) : Covered(chain', n) = Covered(chain, n)
        /\ Covered(chain', Len(chain')) = Covered(chain, Len(chain)) \cup S
    BY <2>1, <2>2, CoveredAppended
  <2>4. PoolIsUnmined'
    BY <2>1, <2>3 DEF PoolIsUnmined
  <2>5. \A n \in 0..Len(chain) : n \in 0..Len(chain')
    BY <2>2, <2>3
  <2>6. Types'
    BY <1>1, <2>1, <2>3, <2>5 DEF Types, IsCopy, IsSave
  <2> QED BY <1>1, <2>3, <2>4, <2>6
<1> QED BY <1>3, <1>4 DEF Node

LEMMA LoopTypes ==
  Types /\ (Loop \/ Throws \/ ProtectionEnds) => Types' /\ UNCHANGED <<pool, chain>>
<1> SUFFICES ASSUME Types, Loop \/ Throws \/ ProtectionEnds PROVE Types' /\ UNCHANGED <<pool, chain>>
  OBVIOUS
<1>0. UNCHANGED <<pool, chain>>
  BY DEF Loop, Throws, ProtectionEnds, ReadRaw, ReadTip, HandleBlock, StartUpdate, Apply, FetchSlice, nodeVars
<1>1. Len(chain) \in Nat /\ <<>> \in Seq(TxSet)
  BY DEF Types
<1>a. ASSUME UNCHANGED <<chain, disk, save>> PROVE IsCopy(disk)' /\ IsSave(save)'
  BY <1>a DEF Types, IsCopy, IsSave
<1>b. ASSUME UNCHANGED <<pool, chain, seen, cache, protection>>, raw' \in SUBSET TxSet, todo' \subseteq raw',
             added' \in Seq(TxSet), tip' \in 0..Len(chain), pc' # "fetch" => todo' = {} /\ added' = <<>>,
             IsCopy(disk)', IsSave(save)'
      PROVE  Types'
  BY <1>b DEF Types
<1>2. CASE ReadRaw
  BY <1>0, <1>2, <1>a DEF ReadRaw, Types
<1>3. CASE ReadTip
  BY <1>0, <1>1, <1>3, <1>a DEF ReadTip, Types
<1>4. CASE HandleBlock
  <2>1. /\ seen' \in 0..Len(chain) /\ cache' \in SUBSET TxSet
        /\ save' = save \/ save' = [step |-> "listed", txs |-> cache', seen |-> seen', late |-> restored]
        /\ UNCHANGED <<pool, chain, pc, raw, tip, todo, added, protection, disk>>
    BY <1>1, <1>4 DEF HandleBlock, Types, nodeVars
  <2>2. IsCopy(disk)' /\ IsSave(save)'
    BY <2>1 DEF Types, IsCopy, IsSave
  <2> QED BY <2>1, <2>2 DEF Types
<1>5. CASE StartUpdate
  <2>1. UNCHANGED <<pool, chain, seen, cache, disk, protection>> /\ save' = Unlocked
    BY <1>5 DEF StartUpdate, nodeVars
  <2>a. IsCopy(disk)' /\ IsSave(save)'
    BY <2>1 DEF Types, IsCopy, IsSave, Unlocked
  <2>2. CASE handled
    <3>1. raw' = {} /\ todo' = {} /\ added' = <<>> /\ tip' = 0
      BY <1>5, <2>2 DEF StartUpdate, Idle
    <3> QED BY <1>1, <1>b, <2>1, <2>a, <3>1
  <2>3. CASE ~handled
    <3>1. pc' = "fetch" /\ todo' = raw \ cache /\ UNCHANGED <<raw, tip, added>>
      BY <1>5, <2>3 DEF StartUpdate
    <3> QED BY <1>b, <2>1, <2>a, <3>1 DEF Types
  <2> QED BY <2>2, <2>3
<1>6. CASE \E got \in Answers : FetchSlice(got)
  <2> PICK got \in Answers : FetchSlice(got)
    BY <1>6
  <2>2. got \in Seq(TxSet)
    BY AnswerList
  <2>3. added' \in Seq(TxSet)
    BY <2>2 DEF FetchSlice, Types
  <2>4. ToSet(got) \subseteq TxSet
    BY <2>2 DEF ToSet
  <2>5. IsCopy(disk)' /\ IsSave(save)'
    BY <1>0, <1>a DEF FetchSlice
  <2> QED BY <1>0, <2>3, <2>4, <2>5 DEF FetchSlice, Types
<1>7. CASE Apply
  BY <1>0, <1>1, <1>7, <1>a DEF Apply, Idle, Types
<1>8. CASE Throws
  BY <1>0, <1>1, <1>8, <1>a DEF Throws, Idle, Types
<1>9. CASE ProtectionEnds
  <2>1. UNCHANGED <<pc, raw, tip, todo, added, seen, cache, disk, save>> /\ protection' = 2
    BY <1>9 DEF ProtectionEnds, loopVars
  <2> QED BY <1>0, <1>a, <2>1 DEF Types
<1> QED BY <1>0, <1>2, <1>3, <1>4, <1>5, <1>6, <1>7, <1>8, <1>9 DEF Loop

(* The files of a save are renamed, or it fails. *)
LEMMA SavingTypes ==
  Types /\ Saving =>
    /\ Types' /\ UNCHANGED <<pool, chain, pc, raw, handled, added, seen, cache, spendMap, restored>>
    /\ \/ disk' = disk \/ disk' = Torn(save)
       \/ disk' = [txs |-> save.txs, seen |-> save.seen, late |-> save.late]
    /\ save' = NoSave \/ save' = [save EXCEPT !.step = "renaming"]
<1> SUFFICES ASSUME Types, Saving
             PROVE  /\ Types'
                    /\ UNCHANGED <<pool, chain, pc, raw, handled, added, seen, cache, spendMap, restored>>
                    /\ \/ disk' = disk \/ disk' = Torn(save)
                       \/ disk' = [txs |-> save.txs, seen |-> save.seen, late |-> save.late]
                    /\ save' = NoSave \/ save' = [save EXCEPT !.step = "renaming"]
  OBVIOUS
<1>1. UNCHANGED <<pool, chain, pc, raw, handled, todo, added, tip, seen, cache, spendMap, protection, restored>>
  BY DEF Saving, RenamesFirst, RenamesLast, SaveFails, nodeVars, loopVars
<1>2. /\ \/ disk' = disk \/ disk' = Torn(save)
         \/ disk' = [txs |-> save.txs, seen |-> save.seen, late |-> save.late]
      /\ save' = NoSave \/ save' = [save EXCEPT !.step = "renaming"]
  BY DEF Saving, RenamesFirst, RenamesLast, SaveFails
<1>3. IsCopy(disk) /\ IsSave(save) /\ Len(chain) \in Nat
  BY DEF Types
<1>4. IsCopy(Torn(save))
  BY <1>3, TornCopy DEF IsSave
<1>5. IsCopy(disk')
  BY <1>2, <1>3, <1>4 DEF IsCopy, IsSave
<1>6. IsSave(save')
  BY <1>2, <1>3 DEF IsSave, NoSave
<1>7. IsCopy(disk)' /\ IsSave(save)'
  BY <1>1, <1>5, <1>6 DEF IsCopy, IsSave
<1> QED BY <1>1, <1>2, <1>7 DEF Types

(* $loadMempoolCache puts back what was saved. *)
LEMMA RestartTypes ==
  ASSUME Types, NEW saved \in Saves, NEW S \in SUBSET saved.txs, NEW order \in Orders(S), Restart(saved, order)
  PROVE  /\ Types' /\ ToSet(order) \subseteq saved.txs /\ order \in Seq(TxSet)
         /\ disk' = [txs |-> ToSet(order), seen |-> saved.seen, late |-> saved.late]
<1>1. IsCopy(saved)
  BY SavesAreCopies
<1>2. order \in Seq(TxSet) /\ ToSet(order) \subseteq saved.txs
  <2>1. S \in SUBSET TxSet
    BY <1>1 DEF IsCopy
  <2> QED BY <2>1, OrderList
<1>3. UNCHANGED <<pool, chain>> /\ disk' = [txs |-> ToSet(order), seen |-> saved.seen, late |-> saved.late]
  BY <1>1 DEF Restart, nodeVars, IsCopy
<1>4. /\ cache' = ToSet(order) /\ seen' = saved.seen /\ protection' = 0 /\ save' = NoSave
      /\ raw' = {} /\ todo' = {} /\ added' = <<>> /\ tip' = 0
  BY DEF Restart, Idle
<1>5. 0 \in 0..Len(chain)
  BY DEF Types
<1>6. IsCopy(disk)' /\ IsSave(save)'
  BY <1>1, <1>2, <1>3, <1>4, <1>5 DEF IsCopy, IsSave, NoSave
<1> QED BY <1>1, <1>2, <1>3, <1>4, <1>5, <1>6 DEF Types, IsCopy

(* The types of the state, and that nothing but a fetch has work left. *)
LEMMA TypesKept == Types /\ PoolIsUnmined /\ [Next]_vars => Types'
<1> SUFFICES ASSUME Types, PoolIsUnmined, [Next]_vars PROVE Types'
  OBVIOUS
<1>1. CASE UNCHANGED vars
  BY <1>1 DEF vars, nodeVars, loopVars, Types, IsCopy, IsSave
<1> QED BY <1>1, NodeTypes, LoopTypes, SavingTypes, RestartTypes DEF Next

-----------------------------------------------------------------------------
(* The run updates the mempool object only if it has handled no block since it
   read the raw mempool, so what it adds is not mined in a handled block. *)
LEMMA MinedKept == Types /\ MinedInv /\ [Next]_vars => MinedInv'
<1> SUFFICES ASSUME Types, MinedInv, [Next]_vars PROVE MinedInv'
  OBVIOUS
<1> DEFINE C(n) == Covered(chain, n)
           Unmined(s) == s.txs \cap C(s.seen) \subseteq s.late
<1>0. /\ pool \cap C(Len(chain)) = {} /\ Unmined(disk) /\ Unmined(save)
      /\ cache \cap C(seen) \subseteq restored
      /\ Len(chain) \in Nat /\ seen \in 0..Len(chain)
      /\ disk.seen \in 0..Len(chain) /\ save.seen \in 0..Len(chain)
  BY DEF MinedInv, PoolIsUnmined, SavedIsUnmined, IsUnmined, MinedStaysOut, MinedBy, Covered,
     Types, IsCopy, IsSave
<1>a. C(seen) \subseteq C(Len(chain))
  BY <1>0, CoveredFurther
<1>1. CASE Node
  <2>1. \A n \in 0..Len(chain) : Covered(chain', n) = C(n)
    BY <1>1, NodeTypes DEF MinedInv
  <2>2. UNCHANGED <<pc, raw, handled, seen, cache, disk, save, restored>> /\ PoolIsUnmined'
    BY <1>1, NodeTypes DEF MinedInv
  <2>3. /\ Covered(chain', seen') = C(seen) /\ Covered(chain', disk'.seen) = C(disk.seen)
        /\ Covered(chain', save'.seen) = C(save.seen)
    BY <1>0, <2>1, <2>2
  <2>4. MinedStaysOut'
    BY <1>0, <2>2, <2>3 DEF MinedStaysOut, MinedBy, Covered
  <2>5. SavedIsUnmined'
    BY <1>0, <2>2, <2>3 DEF SavedIsUnmined, IsUnmined
  <2> QED BY <2>2, <2>3, <2>4, <2>5 DEF MinedInv, RawIsUnhandled
<1> SUFFICES ASSUME ~Node PROVE MinedInv'
  BY <1>1
<1>2. ASSUME UNCHANGED <<pool, chain>>, cache' \cap C(seen') \subseteq restored',
             Unmined(disk'), Unmined(save'), RawIsUnhandled'
      PROVE  MinedInv'
  BY <1>0, <1>2 DEF MinedInv, PoolIsUnmined, SavedIsUnmined, IsUnmined, MinedStaysOut, MinedBy, Covered
<1>b. Unmined(NoSave)
  BY DEF NoSave
<1>c. IsCopy(disk) /\ IsSave(save)
  BY DEF Types
<1> HIDE DEF C
<1>3. CASE ReadRaw
  <2>1. UNCHANGED <<pool, chain, cache, seen, disk, save, restored>> /\ raw' = pool
    BY <1>3 DEF ReadRaw, nodeVars
  <2>2. RawIsUnhandled'
    BY <1>0, <1>a, <2>1 DEF RawIsUnhandled, C
  <2> QED BY <1>0, <1>2, <2>1, <2>2
<1>4. CASE ReadTip
  <2>1. UNCHANGED <<pool, chain, cache, seen, disk, save, restored, raw>> /\ pc = "raw"
    BY <1>4 DEF ReadTip, nodeVars
  <2>2. RawIsUnhandled'
    BY <2>1 DEF RawIsUnhandled, MinedInv
  <2> QED BY <1>0, <1>2, <2>1, <2>2
<1>5. CASE HandleBlock
  <2>1. /\ UNCHANGED <<pool, chain, disk, restored>> /\ cache' = cache \ chain[seen + 1] /\ seen' = seen + 1
        /\ save' = save \/ save' = [step |-> "listed", txs |-> cache', seen |-> seen', late |-> restored]
        /\ handled' /\ pc' = "blocks"
    BY <1>5 DEF HandleBlock, nodeVars
  <2>2. C(seen + 1) = C(seen) \cup chain[seen + 1]
    <3>1. seen \in Nat
      BY <1>0
    <3> QED BY <3>1, CoveredFurther DEF C
  <2>3. cache' \cap C(seen') \subseteq restored'
    BY <1>0, <2>1, <2>2
  <2>4. Unmined(disk') /\ Unmined(save')
    BY <1>0, <2>1, <2>3
  <2> QED BY <1>2, <2>1, <2>3, <2>4 DEF RawIsUnhandled
<1>6. CASE StartUpdate
  <2>1. UNCHANGED <<pool, chain, cache, seen, disk, restored>> /\ save' = Unlocked
    BY <1>6 DEF StartUpdate, nodeVars
  <2>2. RawIsUnhandled'
    BY <1>6, <2>1 DEF StartUpdate, Idle, RawIsUnhandled, MinedInv
  <2>3. C(seen) \subseteq C(save.seen) \cup Between(save.seen, seen)
    <3>1. seen \in Nat /\ save.seen \in Nat
      BY <1>0
    <3> QED BY <3>1, CoveredBetween DEF C
  <2>4. Unmined(save')
    <3>1. CASE save.step = "listed"
      <4>1. save'.txs = save.txs /\ save'.seen = seen /\ save'.late = save.late \cup Between(save.seen, seen)
        BY <1>c, <2>1, <3>1 DEF Unlocked, IsSave
      <4> QED BY <1>0, <2>3, <4>1
    <3>2. CASE save.step # "listed"
      BY <1>0, <2>1, <3>2 DEF Unlocked
    <3> QED BY <3>1, <3>2
  <2> QED BY <1>0, <1>2, <2>1, <2>2, <2>4
<1>7. CASE \E got \in Answers : FetchSlice(got)
  <2> PICK got \in Answers : FetchSlice(got)
    BY <1>7
  <2>1. UNCHANGED <<pool, chain, seen, disk, save, restored, raw, pc, handled>> /\ pc = "fetch"
    BY DEF FetchSlice, nodeVars
  <2>2. RawIsUnhandled' /\ raw \cap C(seen) = {}
    BY <2>1 DEF RawIsUnhandled, MinedInv, C
  <2>3. cache' = cache \cup ToSet(got) /\ ToSet(got) \subseteq raw
    BY DEF FetchSlice, Types
  <2> QED BY <1>0, <1>2, <2>1, <2>2, <2>3
<1>8. CASE Apply
  <2>1. UNCHANGED <<pool, chain, seen, disk, save>> /\ cache' = cache \ Deleted /\ pc' = "idle" /\ pc = "fetch"
    BY <1>8 DEF Apply, Idle, nodeVars
  <2>2. raw \cap C(seen) = {}
    BY <2>1 DEF RawIsUnhandled, MinedInv, C
  <2>3. IF Protects \/ protection = 1 THEN restored' = restored /\ cache' = cache ELSE cache' \subseteq raw
    BY <1>8, <2>1 DEF Apply, Deleted
  <2>4. cache' \cap C(seen') \subseteq restored'
    BY <1>0, <2>1, <2>2, <2>3
  <2> QED BY <1>0, <1>2, <2>1, <2>4 DEF RawIsUnhandled
<1>9. CASE Throws
  <2>1. UNCHANGED <<pool, chain, seen, disk, save, restored, cache>> /\ pc' = "idle"
    BY <1>9 DEF Throws, Idle, nodeVars
  <2> QED BY <1>0, <1>2, <2>1 DEF RawIsUnhandled
<1>10. CASE Saving
  <2>1. /\ UNCHANGED <<pool, chain, pc, raw, handled, seen, cache, restored>>
        /\ \/ disk' = disk \/ disk' = Torn(save)
           \/ disk' = [txs |-> save.txs, seen |-> save.seen, late |-> save.late]
        /\ save' = NoSave \/ save' = [save EXCEPT !.step = "renaming"]
    BY <1>10, SavingTypes
  <2>2. Unmined(Torn(save))
    BY <1>0, <1>c, TornCopy DEF IsSave, IsUnmined, C
  <2>3. Unmined(disk')
    BY <1>0, <2>1, <2>2
  <2>4. Unmined([save EXCEPT !.step = "renaming"])
    BY <1>0, <1>c DEF IsSave
  <2>5. RawIsUnhandled'
    BY <2>1 DEF RawIsUnhandled, MinedInv
  <2>6. Unmined(save')
    BY <1>b, <2>1, <2>4
  <2> HIDE DEF Unmined
  <2> QED BY <1>0, <1>2, <2>1, <2>3, <2>5, <2>6
<1>11. CASE \E saved \in Saves : \E S \in SUBSET saved.txs : \E order \in Orders(S) : Restart(saved, order)
  <2> PICK saved \in Saves : \E S \in SUBSET saved.txs : \E order \in Orders(S) : Restart(saved, order)
    BY <1>11
  <2> PICK S \in SUBSET saved.txs : \E order \in Orders(S) : Restart(saved, order)
    OBVIOUS
  <2> PICK order \in Orders(S) : Restart(saved, order)
    OBVIOUS
  <2>1. /\ UNCHANGED <<pool, chain>> /\ save' = NoSave /\ pc' = "idle"
        /\ cache' = ToSet(order) /\ seen' = saved.seen /\ restored' = ToSet(order) \cap saved.late
    BY DEF Restart, Idle, nodeVars
  <2>2. /\ ToSet(order) \subseteq saved.txs
        /\ disk' = [txs |-> ToSet(order), seen |-> saved.seen, late |-> saved.late]
    BY RestartTypes
  <2>3. Unmined(saved)
    BY SavesAreCopies DEF IsUnmined, C
  <2>4. cache' \cap C(seen') \subseteq restored' /\ Unmined(disk')
    BY <2>1, <2>2, <2>3
  <2>5. Unmined(save')
    BY <1>b, <2>1
  <2> QED BY <1>2, <2>1, <2>4, <2>5 DEF RawIsUnhandled
<1>12. CASE ProtectionEnds \/ UNCHANGED vars
  <2>1. UNCHANGED <<pool, chain, cache, seen, disk, save, restored, raw, pc, handled>>
    BY <1>12 DEF ProtectionEnds, vars, nodeVars, loopVars
  <2>2. RawIsUnhandled'
    BY <2>1 DEF RawIsUnhandled, MinedInv
  <2> QED BY <1>0, <1>2, <2>1, <2>2
<1> QED BY <1>3, <1>4, <1>5, <1>6, <1>7, <1>8, <1>9, <1>10, <1>11, <1>12 DEF Next, Loop

(* Nothing is cached, read or saved yet. *)
LEMMA Started == Init => Types /\ MinedInv /\ SpendInv
<1> SUFFICES ASSUME Init PROVE Types /\ MinedInv /\ SpendInv
  OBVIOUS
<1>1. Covered(chain, 0) = {} /\ chain = <<>> /\ Len(chain) = 0
  BY CoveredFurther DEF Init
<1>2. Types
  BY <1>1, SyncAssumption DEF Init, Types, IsCopy, IsSave, NoDisk, NoSave
<1>3. MinedInv
  BY <1>1 DEF Init, MinedInv, PoolIsUnmined, RawIsUnhandled, SavedIsUnmined, IsUnmined, MinedStaysOut,
     NoDisk, NoSave
<1>4. SpendInv
  BY DEF Init, SpendInv, AddedIsCached, SpendMapIsCurrent, ToSet
<1> QED BY <1>2, <1>3, <1>4

(* Once $updateBlocks has handled a block, none of its transactions is in the
   mempool object again, although runs overlap with the node's moves and a
   restart may load the files of two saves: only a copy puts one back that has
   the block and listed the transaction before it, and the next update that
   may delete anything takes it out. *)
THEOREM HandledTransactionsStayOut == Spec => []MinedStaysOut
<1>1. Types /\ MinedInv /\ [Next]_vars => (Types /\ MinedInv)'
  BY TypesKept, MinedKept DEF MinedInv
<1>2. MinedInv => MinedStaysOut
  BY DEF MinedInv
<1> QED BY Started, <1>1, <1>2, PTL DEF Spec

-----------------------------------------------------------------------------
(* addToSpendMap and removeFromSpendMap follow the mempool object. *)
LEMMA SpendsKept == Types /\ SpendInv /\ [Next]_vars => SpendInv'
<1> SUFFICES ASSUME Types, SpendInv, [Next]_vars PROVE SpendInv'
  OBVIOUS
<1> DEFINE Current(m, S) == \A o \in DOMAIN m : m[o] \in S /\ o \in Inputs[m[o]]
<1>0. Current(spendMap, cache) /\ ToSet(added) \subseteq cache /\ ToSet(added) \subseteq raw
  BY DEF SpendInv, SpendMapIsCurrent, AddedIsCached
<1>1. ASSUME Current(spendMap', cache'), ToSet(added') \subseteq cache' \cap raw'
      PROVE  SpendInv'
  BY <1>1 DEF SpendInv, SpendMapIsCurrent, AddedIsCached
<1>2. ASSUME NEW m, NEW S, NEW T, Current(m, S) PROVE Current(Forget(m, T), S \ T)
  BY <1>2 DEF Forget, Without
<1>3. ToSet(<<>>) = {}
  BY DEF ToSet
<1>4. CASE Node \/ ProtectionEnds \/ Saving \/ UNCHANGED vars
  <2>1. UNCHANGED <<spendMap, cache, added, raw>>
    BY <1>4 DEF Node, Arrive, Evict, Boosts, MineBlock, NodeMoves, ProtectionEnds, Saving, RenamesFirst,
       RenamesLast, SaveFails, vars, loopVars
  <2> QED BY <1>0, <1>1, <2>1
<1>5. CASE ReadRaw
  <2>1. UNCHANGED <<spendMap, cache, added>> /\ added = <<>>
    BY <1>5 DEF ReadRaw, Types
  <2> QED BY <1>0, <1>1, <1>3, <2>1
<1>6. CASE ReadTip
  <2>1. UNCHANGED <<spendMap, cache, added, raw>>
    BY <1>6 DEF ReadTip
  <2> QED BY <1>0, <1>1, <2>1
<1>7. CASE HandleBlock
  <2> DEFINE mined == chain[seen + 1]
  <2>1. /\ spendMap' = Forget(MinedRbf(spendMap, mined), mined) /\ cache' = cache \ mined
        /\ UNCHANGED <<added, raw>> /\ added = <<>>
    BY <1>7 DEF HandleBlock, Types
  <2>2. Current(MinedRbf(spendMap, mined), cache)
    BY <1>0 DEF MinedRbf, Without
  <2> HIDE DEF mined
  <2>3. Current(spendMap', cache')
    BY <1>2, <2>1, <2>2
  <2> HIDE DEF Current
  <2> QED BY <1>1, <1>3, <2>1, <2>3
<1>8. CASE StartUpdate
  <2>1. UNCHANGED <<spendMap, cache>> /\ added = <<>> /\ added' = <<>>
    BY <1>8 DEF StartUpdate, Idle, Types
  <2> QED BY <1>0, <1>1, <1>3, <2>1
<1>9. CASE \E got \in Answers : FetchSlice(got)
  <2> PICK got \in Answers : FetchSlice(got)
    BY <1>9
  <2>1. /\ cache' = cache \cup ToSet(got) /\ added' = added \o got /\ ToSet(got) \subseteq raw
        /\ UNCHANGED <<spendMap, raw>>
    BY DEF FetchSlice, Types
  <2>2. ToSet(added \o got) = ToSet(added) \cup ToSet(got)
    <3>1. added \in Seq(TxSet) /\ got \in Seq(TxSet)
      BY AnswerList DEF Types
    <3> QED BY <3>1, Joined
  <2>3. Current(spendMap', cache')
    BY <1>0, <2>1
  <2> HIDE DEF Current
  <2> QED BY <1>0, <1>1, <2>1, <2>2, <2>3
<1>10. CASE Apply
  <2>1. cache' = cache \ Deleted /\ added' = <<>>
    BY <1>10 DEF Apply, Idle
  <2>2. Current(spendMap', cache')
    <3>1. CASE added # <<>> \/ Deleted # {} \/ latest # cm.accelerated
      <4>1. spendMap' = Learn(Forget(spendMap, Deleted), added)
        BY <1>10, <3>1 DEF Apply
      <4>2. ToSet(added) \subseteq cache \ Deleted
        BY <1>0 DEF Deleted
      <4>3. Current(Forget(spendMap, Deleted), cache \ Deleted)
        BY <1>0, <1>2
      <4>4. added \in Seq(TxSet)
        BY DEF Types
      <4> QED BY <2>1, <4>1, <4>2, <4>3, <4>4, Learned
    <3>2. CASE ~(added # <<>> \/ Deleted # {} \/ latest # cm.accelerated)
      <4>1. UNCHANGED spendMap /\ Deleted = {}
        BY <1>10, <3>2 DEF Apply
      <4> QED BY <1>0, <2>1, <4>1
    <3> QED BY <3>1, <3>2
  <2> HIDE DEF Current
  <2> QED BY <1>1, <1>3, <2>1, <2>2
<1>11. CASE Throws
  <2>1. UNCHANGED <<spendMap, cache>> /\ added' = <<>>
    BY <1>11 DEF Throws, Idle
  <2> QED BY <1>0, <1>1, <1>3, <2>1
<1>12. CASE \E saved \in Saves : \E S \in SUBSET saved.txs : \E order \in Orders(S) : Restart(saved, order)
  <2> PICK saved \in Saves : \E S \in SUBSET saved.txs : \E order \in Orders(S) : Restart(saved, order)
    BY <1>12
  <2> PICK S \in SUBSET saved.txs : \E order \in Orders(S) : Restart(saved, order)
    OBVIOUS
  <2> PICK order \in Orders(S) : Restart(saved, order)
    OBVIOUS
  <2>1. spendMap' = Learn(<<>>, order) /\ cache' = ToSet(order) /\ added' = <<>>
    BY DEF Restart, Idle
  <2>2. order \in Seq(TxSet)
    BY RestartTypes
  <2>3. Current(<<>>, ToSet(order))
    OBVIOUS
  <2>4. Current(Learn(<<>>, order), ToSet(order))
    BY <2>2, <2>3, Learned
  <2> HIDE DEF Current
  <2> QED BY <1>1, <1>3, <2>1, <2>4
<1> QED BY <1>4, <1>5, <1>6, <1>7, <1>8, <1>9, <1>10, <1>11, <1>12 DEF Next, Loop

(* The spend map names only transactions of the mempool object, and for an
   output only one that spends it. *)
THEOREM SpendersStayInTheMempool == Spec => []SpendMapIsCurrent
<1>1. Types /\ MinedInv /\ SpendInv /\ [Next]_vars => (Types /\ MinedInv /\ SpendInv)'
  BY TypesKept, MinedKept, SpendsKept DEF MinedInv
<1>2. SpendInv => SpendMapIsCurrent
  BY DEF SpendInv
<1> QED BY Started, <1>1, <1>2, PTL DEF Spec

-----------------------------------------------------------------------------
(* The dependency graph of a cluster. *)
IsGraph(g) ==
  /\ g = [parents |-> g.parents, ancestors |-> g.ancestors, descendants |-> g.descendants, fee |-> g.fee]
  /\ g.parents \in [TxsOf(g) -> SUBSET TxsOf(g)]
  /\ g.ancestors \in [TxsOf(g) -> SUBSET TxsOf(g)]
  /\ g.descendants \in [TxsOf(g) -> SUBSET TxsOf(g)]
  /\ g.fee = [t \in TxsOf(g) |-> g.fee[t]]

(* ancestors is reflexive and transitive and contains the edges; it has no   *)
(* cycle, and nothing but what a path of edges reaches; descendants is its   *)
(* mirror image.                                                             *)
Mirrored(g) == \A t, u \in TxsOf(g) : u \in g.ancestors[t] <=> t \in g.descendants[u]
Closed(g) ==
  /\ \A t \in TxsOf(g) : t \in g.ancestors[t] /\ g.parents[t] \subseteq g.ancestors[t]
  /\ \A a, b, c \in TxsOf(g) : a \in g.ancestors[b] /\ b \in g.ancestors[c] => a \in g.ancestors[c]
Acyclic(g) == \A t, u \in TxsOf(g) : u \in g.ancestors[t] /\ t \in g.ancestors[u] => t = u
Reached(g) == \A t \in TxsOf(g) : \A u \in g.ancestors[t] \ {t} : \E p \in g.parents[t] : u \in g.ancestors[p]

RelativesFit(g) == IsGraph(g) /\ Mirrored(g) /\ Closed(g) /\ Acyclic(g) /\ Reached(g)

-----------------------------------------------------------------------------
LEMMA EmptyFits == RelativesFit(EmptyGraph)
<1>1. TxsOf(EmptyGraph) = {}
  BY DEF TxsOf, EmptyGraph
<1>2. IsGraph(EmptyGraph)
  <2>1. \A f : f = <<>> => f = [t \in {} |-> f[t]]
    OBVIOUS
  <2> QED BY <1>1, <2>1 DEF IsGraph, EmptyGraph
<1> QED BY <1>1, <1>2 DEF RelativesFit, Mirrored, Closed, Acyclic, Reached

LEMMA AddTransactionEffects ==
  ASSUME NEW g, IsGraph(g), NEW t, t \notin TxsOf(g), NEW fee
  PROVE  LET h == AddTransaction(g, t, fee)
         IN /\ IsGraph(h) /\ TxsOf(h) = TxsOf(g) \cup {t}
            /\ h.parents[t] = {} /\ h.ancestors[t] = {t} /\ h.descendants[t] = {t}
            /\ \A u \in TxsOf(g) : /\ h.parents[u] = g.parents[u]
                                   /\ h.ancestors[u] = g.ancestors[u]
                                   /\ h.descendants[u] = g.descendants[u]
<1> DEFINE h == AddTransaction(g, t, fee)
           T == TxsOf(g)
           with(f, x) == [u \in T \cup {t} |-> IF u = t THEN x ELSE f[u]]
<1>1. DOMAIN g.parents = T /\ DOMAIN g.ancestors = T /\ DOMAIN g.descendants = T /\ DOMAIN g.fee = T
  BY DEF IsGraph
<1>2. h = [parents |-> with(g.parents, {}), ancestors |-> with(g.ancestors, {t}),
           descendants |-> with(g.descendants, {t}), fee |-> with(g.fee, fee)]
  BY <1>1 DEF AddTransaction
<1> HIDE DEF h
<1>3. /\ h.parents = with(g.parents, {}) /\ h.ancestors = with(g.ancestors, {t})
      /\ h.descendants = with(g.descendants, {t}) /\ h.fee = with(g.fee, fee)
      /\ h = [parents |-> h.parents, ancestors |-> h.ancestors, descendants |-> h.descendants, fee |-> h.fee]
  BY <1>2
<1>4. TxsOf(h) = T \cup {t}
  BY <1>3 DEF TxsOf
<1>5. t \notin T
  OBVIOUS
<1>6. /\ h.parents[t] = {} /\ h.ancestors[t] = {t} /\ h.descendants[t] = {t}
      /\ \A u \in T : /\ h.parents[u] = g.parents[u]
                      /\ h.ancestors[u] = g.ancestors[u]
                      /\ h.descendants[u] = g.descendants[u]
  BY <1>3, <1>5
<1>7. /\ g.parents \in [T -> SUBSET T] /\ g.ancestors \in [T -> SUBSET T] /\ g.descendants \in [T -> SUBSET T]
  BY DEF IsGraph
<1> HIDE DEF T
<1>8. IsGraph(h)
  <2>1. /\ h.parents \in [T \cup {t} -> SUBSET (T \cup {t})]
        /\ h.ancestors \in [T \cup {t} -> SUBSET (T \cup {t})]
        /\ h.descendants \in [T \cup {t} -> SUBSET (T \cup {t})]
    BY <1>3, <1>7
  <2>2. h.fee = [u \in T \cup {t} |-> h.fee[u]]
    BY <1>3
  <2> QED BY <1>3, <1>4, <2>1, <2>2 DEF IsGraph
<1> QED BY <1>4, <1>6, <1>8 DEF h, T

(* addTransaction(): a new transaction is its own only relative. *)
THEOREM AddingTransactionFits ==
  ASSUME NEW g, RelativesFit(g), NEW t, t \notin TxsOf(g), NEW fee
  PROVE  RelativesFit(AddTransaction(g, t, fee))
<1> DEFINE h == AddTransaction(g, t, fee)
           T == TxsOf(g)
<1>1. /\ IsGraph(h) /\ TxsOf(h) = T \cup {t} /\ t \notin T
      /\ h.parents[t] = {} /\ h.ancestors[t] = {t} /\ h.descendants[t] = {t}
      /\ \A u \in T : /\ h.parents[u] = g.parents[u]
                      /\ h.ancestors[u] = g.ancestors[u] /\ h.descendants[u] = g.descendants[u]
  BY AddTransactionEffects DEF RelativesFit
<1>2. \A u \in T : g.parents[u] \subseteq T /\ g.ancestors[u] \subseteq T /\ g.descendants[u] \subseteq T
  BY DEF RelativesFit, IsGraph
<1> HIDE DEF h
<1>3. Mirrored(h)
  BY <1>1, <1>2 DEF Mirrored, RelativesFit
<1>4. Closed(h)
  BY <1>1, <1>2 DEF Closed, RelativesFit
<1>5. Acyclic(h)
  BY <1>1, <1>2 DEF Acyclic, RelativesFit
<1>6. Reached(h)
  BY <1>1, <1>2 DEF Reached, RelativesFit
<1> QED BY <1>1, <1>3, <1>4, <1>5, <1>6 DEF RelativesFit, h

-----------------------------------------------------------------------------
(* h is g with one dependency more. *)
Extended(g, parent, child, h) ==
  \A t \in TxsOf(g) :
    /\ h.parents[t] = IF t = child THEN g.parents[t] \cup {parent} ELSE g.parents[t]
    /\ h.ancestors[t] = IF parent \notin g.ancestors[child] /\ t \in g.descendants[child]
                        THEN g.ancestors[t] \cup g.ancestors[parent] ELSE g.ancestors[t]
    /\ h.descendants[t] = IF parent \notin g.ancestors[child] /\ t \in g.ancestors[parent]
                          THEN g.descendants[t] \cup g.descendants[child] ELSE g.descendants[t]

LEMMA AddDependencyEffects ==
  ASSUME NEW g, IsGraph(g), NEW parent \in TxsOf(g), NEW child \in TxsOf(g)
  PROVE  LET h == AddDependency(g, parent, child)
         IN IsGraph(h) /\ TxsOf(h) = TxsOf(g) /\ Extended(g, parent, child, h)
<1> DEFINE T == TxsOf(g)
           h == AddDependency(g, parent, child)
           below == g.descendants[child]
           above == g.ancestors[parent]
           apart == parent \notin g.ancestors[child]
           ps == [g.parents EXCEPT ![child] = @ \cup {parent}]
           as == [t \in T |-> IF t \in below THEN g.ancestors[t] \cup above ELSE g.ancestors[t]]
           ds == [t \in T |-> IF t \in above THEN g.descendants[t] \cup below ELSE g.descendants[t]]
<1>1. /\ g.parents \in [T -> SUBSET T] /\ g.ancestors \in [T -> SUBSET T] /\ g.descendants \in [T -> SUBSET T]
      /\ g.fee = [t \in T |-> g.fee[t]]
      /\ g = [parents |-> g.parents, ancestors |-> g.ancestors, descendants |-> g.descendants, fee |-> g.fee]
  BY DEF IsGraph
<1>2. {parent, child} \subseteq TxsOf(g)
  OBVIOUS
<1>3. h = [parents |-> ps, ancestors |-> IF apart THEN as ELSE g.ancestors,
           descendants |-> IF apart THEN ds ELSE g.descendants, fee |-> g.fee]
  <2> DEFINE linked == [g EXCEPT !.parents[child] = @ \cup {parent}]
  <2>1. linked = [parents |-> ps, ancestors |-> g.ancestors, descendants |-> g.descendants, fee |-> g.fee]
    BY <1>1
  <2>2. h = IF parent \in g.ancestors[child] THEN linked
            ELSE [linked EXCEPT
                   !.ancestors = [t \in TxsOf(g) |-> IF t \in below THEN @[t] \cup above ELSE @[t]],
                   !.descendants = [t \in TxsOf(g) |-> IF t \in above THEN @[t] \cup below ELSE @[t]]]
    BY <1>2 DEF AddDependency
  <2> HIDE DEF linked, ps, h
  <2>3. CASE apart
    BY <2>1, <2>2, <2>3
  <2>4. CASE ~apart
    BY <2>1, <2>2, <2>4
  <2> QED BY <2>3, <2>4
<1>4. ps \in [T -> SUBSET T] /\ as \in [T -> SUBSET T] /\ ds \in [T -> SUBSET T]
  BY <1>1
<1> HIDE DEF h
<1>5. TxsOf(h) = T
  <2>1. h.parents = ps
    BY <1>3
  <2> QED BY <1>4, <2>1 DEF TxsOf
<1>6. \A t \in T :
        /\ h.parents[t] = IF t = child THEN g.parents[t] \cup {parent} ELSE g.parents[t]
        /\ h.ancestors[t] = IF apart /\ t \in below THEN g.ancestors[t] \cup above ELSE g.ancestors[t]
        /\ h.descendants[t] = IF apart /\ t \in above THEN g.descendants[t] \cup below ELSE g.descendants[t]
  BY <1>1, <1>3
<1> HIDE DEF ps, as, ds, T, apart, below, above
<1>7. IsGraph(h)
  <2>1. /\ h.parents = ps /\ h.ancestors \in {as, g.ancestors}
        /\ h.descendants \in {ds, g.descendants} /\ h.fee = g.fee
        /\ h = [parents |-> h.parents, ancestors |-> h.ancestors, descendants |-> h.descendants, fee |-> h.fee]
    BY <1>3
  <2> QED BY <1>1, <1>4, <1>5, <2>1 DEF IsGraph
<1> QED BY <1>5, <1>6, <1>7 DEF Extended, h, T, apart, below, above

(* addDependency(): a dependency that closes no cycle keeps the relatives    *)
(* right although only the ancestors of the parent and the descendants of    *)
(* the child are touched, and nothing at all when the parent was an ancestor *)
(* already.                                                                  *)
THEOREM AddingDependencyFits ==
  ASSUME NEW g, RelativesFit(g), NEW parent \in TxsOf(g), NEW child \in TxsOf(g),
         child \notin g.ancestors[parent]
  PROVE  RelativesFit(AddDependency(g, parent, child))
<1> DEFINE T == TxsOf(g)
           h == AddDependency(g, parent, child)
           apart == parent \notin g.ancestors[child]
           A(u, t) == u \in g.ancestors[t]
           B(u, t) == u \in h.ancestors[t]
<1>a. IsGraph(g)
  BY DEF RelativesFit
<1>1. IsGraph(h) /\ TxsOf(h) = T
  BY <1>a, AddDependencyEffects
<1>b. Extended(g, parent, child, h)
  BY <1>a, AddDependencyEffects
<1>3. /\ \A t \in T : g.parents[t] \subseteq T /\ g.ancestors[t] \subseteq T /\ g.descendants[t] \subseteq T
      /\ \A t, u \in T : A(u, t) <=> t \in g.descendants[u]
      /\ \A t \in T : A(t, t) /\ \A p \in g.parents[t] : A(p, t)
      /\ \A a, b, c \in T : A(a, b) /\ A(b, c) => A(a, c)
      /\ \A t, u \in T : A(u, t) /\ A(t, u) => t = u
      /\ \A t, u \in T : A(u, t) /\ u # t => \E p \in g.parents[t] : A(u, p)
      /\ ~A(child, parent)
  BY DEF RelativesFit, IsGraph, Mirrored, Closed, Acyclic, Reached
<1> HIDE DEF h
<1>2. \A t \in T : h.parents[t] = IF t = child THEN g.parents[t] \cup {parent} ELSE g.parents[t]
  BY <1>b DEF Extended
<1>4. \A t \in T : h.ancestors[t] = IF apart /\ t \in g.descendants[child]
                                    THEN g.ancestors[t] \cup g.ancestors[parent] ELSE g.ancestors[t]
  BY <1>b DEF Extended
<1>5. \A t \in T : h.descendants[t] = IF apart /\ t \in g.ancestors[parent]
                                      THEN g.descendants[t] \cup g.descendants[child] ELSE g.descendants[t]
  BY <1>b DEF Extended
<1> HIDE DEF T
<1>6. parent \in T /\ child \in T
  BY DEF T
(* What an ancestor is now; without apart this was so before. *)
<1>7. ASSUME NEW t \in T, NEW u \in T
      PROVE  B(u, t) <=> A(u, t) \/ (A(child, t) /\ A(u, parent))
  <2>1. t \in g.descendants[child] <=> A(child, t)
    BY <1>3, <1>6
  <2>2. CASE apart /\ A(child, t)
    <3>1. h.ancestors[t] = g.ancestors[t] \cup g.ancestors[parent]
      BY <1>4, <2>1, <2>2
    <3> QED BY <2>2, <3>1
  <2>3. CASE ~(apart /\ A(child, t))
    <3>1. h.ancestors[t] = g.ancestors[t]
      BY <1>4, <2>1, <2>3
    <3>2. ~apart /\ A(child, t) /\ A(u, parent) => A(u, t)
      <4> SUFFICES ASSUME ~apart, A(child, t), A(u, parent) PROVE A(u, t)
        OBVIOUS
      <4>1. A(parent, child)
        OBVIOUS
      <4> HIDE DEF A, B
      <4>2. A(u, child)
        BY <1>3, <1>6, <4>1
      <4> QED BY <1>3, <1>6, <4>2
    <3> QED BY <2>3, <3>1, <3>2
  <2> QED BY <2>2, <2>3
<1>8. Mirrored(h)
  <2> SUFFICES ASSUME NEW t \in T, NEW u \in T
               PROVE  u \in h.ancestors[t] <=> t \in h.descendants[u]
    BY <1>1 DEF Mirrored
  <2>1. /\ A(u, t) <=> t \in g.descendants[u]
        /\ A(child, t) <=> t \in g.descendants[child]
    BY <1>3, <1>6
  <2>2. u \in h.ancestors[t] <=> A(u, t) \/ (apart /\ A(child, t) /\ A(u, parent))
    BY <1>4, <2>1
  <2>3. t \in h.descendants[u] <=> A(u, t) \/ (apart /\ A(child, t) /\ A(u, parent))
    BY <1>5, <2>1
  <2> QED BY <2>2, <2>3
<1>9. \A t \in T : h.parents[t] \subseteq T /\ h.ancestors[t] \subseteq T
  BY <1>1 DEF IsGraph
<1> HIDE DEF A, B
<1>10. Closed(h)
  <2>1. ASSUME NEW t \in T
        PROVE  B(t, t) /\ \A p \in h.parents[t] : B(p, t)
    <3>1. \A p \in h.parents[t] : p \in T /\ (p \in g.parents[t] \/ (p = parent /\ t = child))
      BY <1>2, <1>9
    <3> QED BY <1>3, <1>6, <1>7, <3>1
  <2>2. ASSUME NEW a \in T, NEW b \in T, NEW c \in T, B(a, b), B(b, c)
        PROVE  B(a, c)
    BY <1>3, <1>6, <1>7, <2>2
  <2> QED BY <1>1, <2>1, <2>2 DEF Closed, B
<1>11. Acyclic(h)
  <2>1. ASSUME NEW t \in T, NEW u \in T, B(u, t), B(t, u)
        PROVE  t = u
    BY <1>3, <1>6, <1>7, <2>1
  <2> QED BY <1>1, <2>1 DEF Acyclic, B
<1>12. Reached(h)
  <2>1. ASSUME NEW t \in T, NEW u \in T, B(u, t), u # t
        PROVE  \E p \in h.parents[t] : B(u, p)
    <3>1. g.parents[t] \subseteq h.parents[t] /\ g.parents[t] \subseteq T
      BY <1>2, <1>3
    <3>2. CASE A(u, t)
      <4> PICK p \in g.parents[t] : A(u, p)
        BY <1>3, <2>1, <3>2
      <4> QED BY <1>7, <3>1
    <3>3. CASE A(child, t) /\ A(u, parent) /\ t = child
      <4>1. parent \in h.parents[t] /\ B(u, parent)
        BY <1>2, <1>6, <1>7, <3>3
      <4> QED BY <4>1
    <3>4. CASE A(child, t) /\ A(u, parent) /\ t # child
      <4> PICK p \in g.parents[t] : A(child, p)
        BY <1>3, <1>6, <3>4
      <4>1. B(u, p)
        BY <1>6, <1>7, <3>1, <3>4
      <4> QED BY <3>1, <4>1
    <3> QED BY <1>7, <2>1, <3>2, <3>3, <3>4
  <2> QED BY <1>1, <1>9, <2>1 DEF Reached, B
<1> QED BY <1>1, <1>8, <1>10, <1>11, <1>12 DEF RelativesFit, h
=============================================================================
