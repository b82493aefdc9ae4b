------------------------------ MODULE BlockBuilder ------------------------------
(***************************************************************************)
(* assembleBlocks of cluster-mempool/block-builder.ts: projected blocks    *)
(* from the chunks of the clusters, best paying first.  A chunk is a       *)
(* record with its fee, its adjusted weight, the weight its transactions   *)
(* really have, its sigops and the largest order of its transactions.  The *)
(* heap is the queue that PairingHeap implements: an entry names a cluster *)
(* and one of its chunks, and only the first unplaced chunk of a cluster   *)
(* is in it.                                                               *)
(***************************************************************************)
EXTENDS Integers, Sequences, FiniteSets, SequencesExt

CONSTANTS Mempools,       \* the chunk sequences of the clusters, per cluster id
          BlockCount,     \* n
          Enforce,        \* enforceLimit
          MaxWeight, MaxSigops, Reserved, MaxFailures, MaxWasted

VARIABLES clusters, heap, blocks,
          block,          \* the block being filled: its entries, weight and sigops
          deferred,       \* entries that did not fit
          failed,         \* consecutiveFailed
          state           \* between, filling, finished

vars == <<clusters, heap, blocks, block, deferred, failed, state>>

(* A chunk as the heap sees it: its weight is adjusted upwards for sigops. *)
Chunks == {c \in [fee : Nat, weight : Nat, real : Nat, sigops : Nat, order : Nat] : c.real <= c.weight}

EmptyBlock == [entries |-> <<>>, weight |-> Reserved, sigops |-> 0]

(* buildChunkHeap *)
Init ==
  /\ clusters \in Mempools
  /\ heap = {<<id, 1>> : id \in {c \in DOMAIN clusters : clusters[c] # <<>>}}
  /\ blocks = <<>>
  /\ block = EmptyBlock
  /\ deferred = {}
  /\ failed = 0
  /\ state = "between"

-----------------------------------------------------------------------------
Chunk(e) == clusters[e[1]][e[2]]

(* Weight of the run of chunks of the same feerate that ends with e. *)
EqualFeerate(c, d) == c.fee * d.weight = d.fee * c.weight
PrefixWeight(e) ==
  LET chunks == clusters[e[1]]
      run == {i \in 1..e[2] : \A j \in i..e[2] : EqualFeerate(chunks[j], chunks[e[2]])}
  IN FoldSet(LAMBDA i, sum : sum + chunks[i].weight, 0, run)

(* chunkHeapHigherPriority *)
Beats(d, e) ==
  LET rate == Chunk(d).fee * Chunk(e).weight - Chunk(e).fee * Chunk(d).weight
  IN \/ rate > 0
     \/ rate = 0 /\ PrefixWeight(d) < PrefixWeight(e)
     \/ rate = 0 /\ PrefixWeight(d) = PrefixWeight(e) /\ Chunk(d).order < Chunk(e).order
Best == {e \in heap : \A d \in heap \ {e} : ~Beats(d, e)}

Following_Skips(e) == {<<e[1], i>> : i \in {e[2] + 2} \cap DOMAIN clusters[e[1]]}
Following(e) == {<<e[1], i>> : i \in {e[2] + 1} \cap DOMAIN clusters[e[1]]}

Limited == Enforce \/ Len(blocks) + 1 < BlockCount
Fits_ByWeight(e) == ~Limited \/ block.weight + Chunk(e).weight < MaxWeight
Fits(e) ==
  ~Limited \/ /\ block.weight + Chunk(e).weight < MaxWeight
              /\ block.sigops + Chunk(e).sigops < MaxSigops
Wasteful_AtOnce(n) == Limited /\ n > MaxFailures
Wasteful(n) == Limited /\ n > MaxFailures /\ block.weight + MaxWasted > MaxWeight

-----------------------------------------------------------------------------
OpenBlock ==
  /\ state = "between"
  /\ Len(blocks) < BlockCount
  /\ block' = EmptyBlock
  /\ deferred' = {}
  /\ failed' = 0
  /\ state' = "filling"
  /\ UNCHANGED <<clusters, heap, blocks>>

Place ==
  /\ state = "filling"
  /\ ~Wasteful(failed)
  /\ \E e \in Best :
       /\ Fits(e)
       /\ block' = [entries |-> Append(block.entries, e),
                    weight |-> block.weight + Chunk(e).real,
                    sigops |-> block.sigops + Chunk(e).sigops]
       /\ heap' = (heap \ {e}) \cup Following(e)
  /\ failed' = 0
  /\ UNCHANGED <<clusters, blocks, deferred, state>>

Defer ==
  /\ state = "filling"
  /\ ~Wasteful(failed)
  /\ \E e \in Best :
       /\ ~Fits(e)
       /\ deferred' = deferred \cup {e}
       /\ heap' = heap \ {e}
  /\ failed' = failed + 1
  /\ UNCHANGED <<clusters, blocks, block, state>>

PutBack == heap \cup deferred
(* The heap is empty or the block is full: what did not fit goes back, and an
   empty block ends the projection. *)
CloseBlock ==
  /\ state = "filling"
  /\ heap = {} \/ Wasteful(failed)
  /\ heap' = PutBack
  /\ deferred' = {}
  /\ IF block.entries = <<>>
     THEN state' = "finished" /\ UNCHANGED blocks
     ELSE state' = "between" /\ blocks' = Append(blocks, block)
  /\ UNCHANGED <<clusters, block, failed>>

Finish ==
  /\ state = "between"
  /\ Len(blocks) = BlockCount
  /\ state' = "finished"
  /\ UNCHANGED <<clusters, heap, blocks, block, deferred, failed>>

Next == OpenBlock \/ Place \/ Defer \/ CloseBlock \/ Finish
Spec == Init /\ [][Next]_vars

-----------------------------------------------------------------------------
Placed == UNION {ToSet(blocks[i].entries) : i \in DOMAIN blocks}
AllChunks == UNION {{<<id, i>> : i \in DOMAIN clusters[id]} : id \in DOMAIN clusters}

(* No transaction is projected twice or before one it spends, and the last
   projected block takes all that is left. *)
AncestorsFirst ==
  /\ state = "finished" /\ ~Enforce => Placed = AllChunks
  /\ \A k \in DOMAIN blocks : \A l \in DOMAIN blocks[k].entries :
       LET e == blocks[k].entries[l]
           earlier(d) == \E i \in 1..k : \E j \in DOMAIN blocks[i].entries :
                           blocks[i].entries[j] = d /\ (i = k => j < l)
       IN ~earlier(e) /\ (e[2] > 1 => earlier(<<e[1], e[2] - 1>>))

(* Limits on real weight, kept although the check adds adjusted weights. *)
BlocksWithinLimits ==
  \A i \in DOMAIN blocks :
    Enforce \/ i < BlockCount => blocks[i].weight < MaxWeight /\ blocks[i].sigops < MaxSigops

(* A chunk that could have gone into a limited block, its predecessor being
   there or earlier, is not left for a later one while it fits, unless the
   search of that block was given up with little room left. *)
BlockOf(e) == CHOOSE i \in DOMAIN blocks : e \in ToSet(blocks[i].entries)
NoRoomWasted ==
  \A e \in Placed : \A i \in 1..(BlockOf(e) - 1) :
    \/ e[2] > 1 /\ BlockOf(<<e[1], e[2] - 1>>) > i
    \/ blocks[i].weight + Chunk(e).weight >= MaxWeight
    \/ blocks[i].sigops + Chunk(e).sigops >= MaxSigops
    \/ blocks[i].weight + MaxWasted > MaxWeight
=============================================================================
