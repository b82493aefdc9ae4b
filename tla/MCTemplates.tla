---------------------------- MODULE MCTemplates ----------------------------
EXTENDS Templates

Graph == INSTANCE ChunkOrder

(* Connected clusters of four transactions of weight 1.  The numbers are in
   topological order: that order is the hint, or there is none. *)
Txs == 1..4
MCWeight == [t \in Txs |-> 1]
MCOrder == [t \in Txs |-> t]
MCClusters ==
  {c \in {[parents |-> [t \in Txs |-> {p \in 1..(t - 1) : <<p, t>> \in E}], fee |-> f] :
            E \in SUBSET {d \in Txs \X Txs : d[1] < d[2]}, f \in [Txs -> {1, 4}]} :
     Graph!PartOf(c, Txs, 1) = Txs}
MCHints == [c \in MCClusters |-> {<<>>, [t \in Txs |-> t]}]

(* Chunks: fee, weight with and without the adjustment, sigops, order. *)
Chunk(f, w, r, s, o) == [fee |-> f, weight |-> w, real |-> r, sigops |-> s, order |-> o]
MCMempools ==
  [1..3 -> {<<>>,
            <<Chunk(6, 2, 2, 0, 1)>>,
            <<Chunk(6, 3, 2, 2, 2), Chunk(2, 1, 1, 0, 3)>>,
            <<Chunk(4, 4, 4, 1, 4), Chunk(1, 1, 1, 0, 5)>>,
            <<Chunk(2, 1, 1, 0, 6), Chunk(2, 1, 1, 1, 7), Chunk(0, 2, 2, 0, 8)>>,
            <<Chunk(8, 5, 3, 3, 9)>>}]

Interchangeable == Permutations(Nodes)
=============================================================================
