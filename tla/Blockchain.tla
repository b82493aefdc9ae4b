----------------------------- MODULE Blockchain -----------------------------
(***************************************************************************)
(* The block tree the Monero daemons answer from.  A block stands for its  *)
(* hash (top_block_hash, block_header.hash); what the backend tells apart  *)
(* about it is its height, its predecessors, the transactions it mines and *)
(* the cumulative difficulty by which a daemon prefers it.                 *)
(***************************************************************************)
EXTENDS Integers, Sequences

CONSTANTS
  Blocks,   \* block hashes
  Genesis,  \* the block at height 0
  Chain,    \* Chain[b]: the blocks from Genesis to b, both included
  Work,     \* Work[b]: cumulative difficulty of the chain that ends in b
  Txs,      \* transaction ids
  TxsOf,    \* TxsOf[b]: the transactions block b mines
  None      \* null

ASSUME ChainAssumption ==
  /\ Chain \in [Blocks -> Seq(Blocks)]
  /\ Genesis \in Blocks
  /\ Chain[Genesis] = <<Genesis>>
  /\ \A b \in Blocks :
       /\ Len(Chain[b]) > 0
       /\ Chain[b][1] = Genesis
       /\ Chain[b][Len(Chain[b])] = b
       /\ \A i \in 1..Len(Chain[b]) : Chain[Chain[b][i]] = SubSeq(Chain[b], 1, i)

ASSUME WorkAssumption ==
  /\ Work \in [Blocks -> Nat]
  /\ \A b \in Blocks : \A i \in 1..(Len(Chain[b]) - 1) : Work[Chain[b][i]] < Work[b]

ASSUME TxsAssumption == TxsOf \in [Blocks -> SUBSET Txs]

ASSUME NoneAssumption == None \notin Blocks /\ None \notin Txs

(* block_header.height *)
Height(b) == Len(Chain[b]) - 1

(* get_block { height } on a daemon whose tip is b *)
BlockAt(b, h) == Chain[b][h + 1]

Optional(S) == S \cup {None}
=============================================================================
