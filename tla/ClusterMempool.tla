---------------------------- MODULE ClusterMempool ----------------------------
(***************************************************************************)
(* ClusterMempool (cluster-mempool/cluster-mempool.ts): the clusters of    *)
(* connected transactions, kept up to date by the diffs of the mempool.    *)
(* Its state is the record cm: the clusters by identifier, the cluster of  *)
(* each transaction, spentBy (which transaction spends an output), the     *)
(* accelerated transactions, and what was written back into the            *)
(* transactions.  The mempool object it shares with api/mempool.ts is the  *)
(* argument pool: the transactions in it now.                              *)
(*                                                                         *)
(* The spanning forest search is SpanningForest; here a linearization      *)
(* starts from one admissible order, and the rest of linearizeCluster is   *)
(* applied to it.                                                          *)
(***************************************************************************)
EXTENDS DepGraph, ChunkOrder

CONSTANTS Inputs,    \* outputs a transaction spends: pairs <<transaction, n>>
          Outputs,   \* numbers of the outputs of a transaction
          Fee,
          Boost      \* feeDelta of an acceleration

EffectiveFee(cm, t) == Fee[t] + (IF t \in cm.accelerated THEN Boost ELSE 0)
LinearizeCluster(g) == FinishChunks(g, ExtractLinearization(g, {{t} : t \in TxsOf(g)}))

NewCluster(g, chunks, dirty) == [graph |-> g, chunks |-> chunks, dirty |-> dirty]
NoClusters(accelerated) ==
  [clusters |-> <<>>, txToCluster |-> <<>>, spentBy |-> <<>>, accelerated |-> accelerated,
   written |-> <<>>]

(* A new identifier.  The code never uses one twice; here a cluster takes the
   smallest one that is free, which is another one than its own. *)
NewId(cm) == CHOOSE i \in 1..(Cardinality(DOMAIN cm.clusters) + 1) :
               i \notin DOMAIN cm.clusters /\ \A j \in 1..(i - 1) : j \in DOMAIN cm.clusters

Without(f, S) == [x \in DOMAIN f \ S |-> f[x]]
Dirty(cm) == SetToSortSeq({id \in DOMAIN cm.clusters : cm.clusters[id].dirty}, <)
Assign(cm, S, id) == [t \in DOMAIN cm.txToCluster \cup S |-> IF t \in S THEN id ELSE cm.txToCluster[t]]

-----------------------------------------------------------------------------
(* writeBackCluster: what the transactions of a cluster are told: cluster,
   chunk, the chunk's feerate and their relatives in the chunk. *)
WriteBack(cm, pool, id) ==
  LET chunks == cm.clusters[id].chunks
      g == cm.clusters[id].graph
      entry(t, i) ==
        LET chunk == ToSet(chunks[i])
        IN [cluster |-> id, chunk |-> i,
            rate |-> <<FeeOf(g, chunk), WeightOf(chunk)>>,
            ancestors |-> (g.ancestors[t] \cap chunk \cap pool) \ {t},
            descendants |-> (g.descendants[t] \cap chunk \cap pool) \ {t}]
      of(t) == CHOOSE i \in DOMAIN chunks : t \in ToSet(chunks[i])
      told == TxsOf(g) \cap pool
  IN [cm EXCEPT !.written = [t \in told |-> entry(t, of(t))] @@ @]

(* relinearizeDirtyClusters: a new identifier, linearization and write back. *)
Relinearize(cm, pool, id) ==
  LET g == cm.clusters[id].graph
      new == NewId(cm)
  IN WriteBack([cm EXCEPT !.clusters = new :> NewCluster(g, LinearizeCluster(g), FALSE) @@ Without(@, {id}),
                          !.txToCluster = Assign(cm, TxsOf(g), new)],
               pool, new)

-----------------------------------------------------------------------------
(* processRemovals: outputs are freed only for transactions that are still
   in the mempool object. *)
Unspend(cm, pool, removed) ==
  [cm EXCEPT !.spentBy = Without(@, UNION {Inputs[t] : t \in removed \cap pool})]
RemoveTx(cm, t) ==
  IF t \in DOMAIN cm.txToCluster
  THEN LET id == cm.txToCluster[t]
       IN [cm EXCEPT !.clusters[id].graph = RemoveTransactions(@, {t}),
                     !.clusters[id].dirty = TRUE,
                     !.txToCluster = Without(@, {t}),
                     !.written = Without(@, {t})]
  ELSE cm

SplitCluster_Whole(cm, id) ==
  IF TxsOf(cm.clusters[id].graph) = {} THEN [cm EXCEPT !.clusters = Without(@, {id})] ELSE cm
(* splitDisconnectedClusters *)
SplitCluster(cm, id) ==
  LET g == cm.clusters[id].graph
      parts == SetToSeq(Components(g))
      rest == [cm EXCEPT !.clusters = Without(@, {id})]
      splitOff(c, S) ==
        LET new == NewId(c)
        IN [c EXCEPT !.clusters = new :> NewCluster(Subgraph(g, S), <<>>, TRUE) @@ @,
                     !.txToCluster = Assign(c, S, new)]
  IN IF parts = <<>> THEN rest
     ELSE IF Len(parts) > 1 THEN FoldLeft(splitOff, rest, parts)
     ELSE cm

Refee_Clean(cm, t) == [cm EXCEPT !.clusters[cm.txToCluster[t]].graph.fee[t] = EffectiveFee(cm, t)]
(* processAccelerationChanges *)
Refee(cm, t) ==
  [cm EXCEPT !.clusters[cm.txToCluster[t]].graph.fee[t] = EffectiveFee(cm, t),
             !.clusters[cm.txToCluster[t]].dirty = TRUE]
Accelerate(cm, pool, accelerated) ==
  LET changed == ((accelerated \ cm.accelerated) \cup (cm.accelerated \ accelerated))
                 \cap pool \cap DOMAIN cm.txToCluster
  IN FoldLeft(Refee, [cm EXCEPT !.accelerated = accelerated], SetToSeq(changed))

(* processAdditions: the transaction joins the clusters of its parents and
   of the transactions that spend it, which become one cluster. *)
ParentsIn(cm, pool, t) == {o[1] : o \in Inputs[t]} \cap pool \cap DOMAIN cm.txToCluster
ChildrenIn(cm, pool, t) ==
  {cm.spentBy[o] : o \in ({t} \X Outputs) \cap DOMAIN cm.spentBy} \cap pool \cap DOMAIN cm.txToCluster

MergeInto(g, other) ==
  LET nodes == FoldSet(LAMBDA t, h : AddTransaction(h, t, other.fee[t]), g, TxsOf(other))
      links == {l \in TxsOf(other) \X TxsOf(other) : l[1] \in other.parents[l[2]]}
  IN FoldSet(LAMBDA l, h : AddDependency(h, l[1], l[2]), nodes, links)

AddTx(cm0, pool, t) ==
  LET cm == [cm0 EXCEPT !.spentBy = [o \in Inputs[t] |-> t] @@ @]
      parents == ParentsIn(cm, pool, t)
      children == ChildrenIn(cm, pool, t)
      related == {cm.txToCluster[u] : u \in parents \cup children}
      primary == IF related = {} THEN NewId(cm) ELSE CHOOSE i \in related : \A j \in related : i <= j
      base == IF related = {} THEN EmptyGraph ELSE cm.clusters[primary].graph
      joined == FoldSet(LAMBDA i, h : MergeInto(h, cm.clusters[i].graph), base, related \ {primary})
      placed == AddTransaction(joined, t, EffectiveFee(cm, t))
      below == FoldSet(LAMBDA p, h : AddDependency(h, p, t), placed, parents)
      whole == FoldSet(LAMBDA c, h : AddDependency(h, t, c), below, children)
  IN [cm EXCEPT !.clusters = primary :> NewCluster(whole, <<>>, TRUE) @@ Without(@, related),
                !.txToCluster = Assign(cm, TxsOf(whole), primary)]

(* applyMempoolChange: pool is the mempool object at the call. *)
ApplyMempoolChange(cm, pool, added, removed, accelerated) ==
  LET freed == Unspend(cm, pool, removed)
      smaller == FoldLeft(RemoveTx, freed, SetToSeq(removed))
      split == FoldLeft(SplitCluster, smaller, Dirty(smaller))
      rated == Accelerate(split, pool, accelerated)
      larger == FoldLeft(LAMBDA c, t : AddTx(c, pool, t), rated, added)
  IN FoldLeft(LAMBDA c, id : Relinearize(c, pool, id), larger, Dirty(larger))

(* The last of the transactions that spends an output. *)
LastSpender(txs, o) ==
  txs[CHOOSE i \in DOMAIN txs : o \in Inputs[txs[i]] /\ \A j \in DOMAIN txs : o \in Inputs[txs[j]] => j <= i]

(* dfsComponent: what has not been visited and is reached from t, upwards to
   all parents, downwards only to the transactions in spentBy. *)
Reach(pool, spentBy, visited, t) ==
  LET parents(u) == {o[1] : o \in Inputs[u]} \cap pool
      children(u) == {spentBy[o] : o \in ({u} \X Outputs) \cap DOMAIN spentBy}
  IN FoldSet(LAMBDA i, S : S \cup (UNION {parents(u) \cup children(u) : u \in S} \ visited),
             {t}, 1..Cardinality(pool))

(* buildFromMempool, the mempool object in the order of its keys: spentBy only
   learns outputs whose transaction is in the mempool object too, and of two
   that spend one only the later, so that the other may be left in a component
   of its own; a dependency between components is dropped. *)
BuildFromMempool(order, accelerated) ==
  LET pool == ToSet(order)
      spent == {o \in UNION {Inputs[t] : t \in pool} : o[1] \in pool}
      spentBy == [o \in spent |-> LastSpender(order, o)]
      none == [NoClusters(accelerated) EXCEPT !.spentBy = spentBy]
      visit(parts, t) ==
        IF t \in UNION parts THEN parts ELSE parts \cup {Reach(pool, spentBy, UNION parts, t)}
      create(c, S) ==
        LET nodes == FoldSet(LAMBDA t, h : AddTransaction(h, t, EffectiveFee(none, t)), EmptyGraph, S)
            links == {l \in S \X S : \E o \in Inputs[l[2]] : o[1] = l[1]}
            g == FoldSet(LAMBDA l, h : AddDependency(h, l[1], l[2]), nodes, links)
            new == NewId(c)
        IN WriteBack([c EXCEPT !.clusters = new :> NewCluster(g, LinearizeCluster(g), FALSE) @@ @,
                               !.txToCluster = Assign(c, S, new)],
                     pool, new)
  IN FoldLeft(create, none, SetToSeq(FoldLeft(visit, {}, order)))

Clustered(cm) == DOMAIN cm.txToCluster
ClusterSets(cm) == {TxsOf(cm.clusters[id].graph) : id \in DOMAIN cm.clusters}
=============================================================================
