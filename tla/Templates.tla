------------------------------ MODULE Templates ------------------------------
(***************************************************************************)
(* Three independent parts of the block templates: the linearization of a  *)
(* cluster, the projected blocks, the pairing heap.  "subject" names the   *)
(* part that moves; the other two stay as they are.                        *)
(***************************************************************************)
EXTENDS Integers, Sequences, FiniteSets, SequencesExt, TLC

CONSTANTS Idle,
          Weight, Order, Clusters, Hints,                        \* SpanningForest
          Mempools, BlockCount, Enforce, MaxWeight, MaxSigops,   \* BlockBuilder
          Reserved, MaxFailures, MaxWasted,
          Nodes, Keys, Nil                                       \* PairingHeap

VARIABLES subject,
          g, hint, phase, toLoad, chunks, active, pending, merged, initDir, lin,
          clusters, heap, blocks, block, deferred, failed, state,
          key, child, next, prev, root, popped

forestVars == <<g, hint, phase, toLoad, chunks, active, pending, merged, initDir, lin>>
blockVars == <<clusters, heap, blocks, block, deferred, failed, state>>
heapVars == <<key, child, next, prev, root, popped>>
vars == <<subject, forestVars, blockVars, heapVars>>

Forest == INSTANCE SpanningForest
Blocks == INSTANCE BlockBuilder
Heap == INSTANCE PairingHeap

(* A block has room for the transaction of the miner and for any chunk: the
   node accepts no cluster that is larger than a block. *)
ASSUME TemplatesAssumption ==
  /\ \A m \in Mempools : \A id \in DOMAIN m :
       /\ m[id] \in Seq(Blocks!Chunks)
       /\ \A i \in DOMAIN m[id] : Reserved + m[id][i].weight < MaxWeight /\ m[id][i].sigops < MaxSigops
  /\ BlockCount \in Nat \ {0} /\ MaxFailures \in Nat /\ MaxWasted \in Nat
  /\ Reserved \in Nat /\ MaxWeight \in Nat /\ MaxSigops \in Nat
  /\ Reserved < MaxWeight /\ 0 < MaxSigops
(* Every transaction of a cluster has a weight, a fee and an order, which is a
   number of 32 bits; no transaction spends, directly or through others, itself:
   of any of them there are some that spend none of the others.  The hints are
   sequences of transactions of the cluster. *)
ASSUME ForestAssumption ==
  \A c \in Clusters :
    /\ IsFiniteSet(DOMAIN c.parents)
    /\ \A t \in DOMAIN c.parents :
         /\ t \notin c.parents[t]
         /\ Weight[t] \in Nat \ {0} /\ c.fee[t] \in Int /\ Order[t] \in Nat
    /\ \A S \in SUBSET (DOMAIN c.parents) : S # {} => \E t \in S : c.parents[t] \cap S = {}
    /\ \A h \in Hints[c] : h \in Seq(DOMAIN c.parents)
(* A node is an object, never null; scores are numbers. *)
ASSUME HeapAssumption == IsFiniteSet(Nodes) /\ Nil \notin Nodes /\ Keys \subseteq Int

-----------------------------------------------------------------------------
ForestIdle ==
  /\ g = Idle /\ hint = Idle /\ phase = Idle /\ toLoad = Idle
  /\ chunks = Idle /\ active = Idle /\ pending = Idle /\ merged = Idle
  /\ initDir = Idle /\ lin = Idle
BlocksIdle ==
  /\ clusters = Idle /\ heap = Idle /\ blocks = Idle /\ block = Idle
  /\ deferred = Idle /\ failed = Idle /\ state = Idle
Init ==
  /\ Heap!Init
  /\ \/ /\ subject = "forest"
        /\ Forest!Init
        /\ BlocksIdle
     \/ /\ subject = "blocks"
        /\ Blocks!Init
        /\ ForestIdle
     \/ /\ subject = "heap"
        /\ ForestIdle
        /\ BlocksIdle
Next ==
  \/ subject = "forest" /\ Forest!Next /\ UNCHANGED <<subject, blockVars, heapVars>>
  \/ subject = "blocks" /\ Blocks!Next /\ UNCHANGED <<subject, forestVars, heapVars>>
  \/ subject = "heap" /\ Heap!Next /\ UNCHANGED <<subject, forestVars, blockVars>>
Spec == Init /\ [][Next]_vars

-----------------------------------------------------------------------------
(* linearizeCluster returns every transaction once, after its parents,
   whenever the search is cut off. *)
LinearizationIsTopological == subject = "forest" => Forest!LinearizationIsTopological
(* A dependency is active exactly when it lies inside a chunk, whatever was
   merged, cut and merged again. *)
ActiveIsInternal == subject = "forest" => Forest!ActiveIsInternal
(* Cutting the result into chunks and ordering them again changes nothing. *)
ChunksReproduce == subject = "forest" => Forest!ChunksReproduce
(* optimizeSFL starts from chunks that pay less than their parent chunks. *)
OptimizesTopological == [][subject = "forest" => Forest!OptimizesTopological]_forestVars
(* Every step of the search brings its end nearer, so it ends without its
   cost budget. *)
SearchAdvances == [][subject = "forest" => Forest!Advances]_forestVars
(* assembleBlocks places every chunk once, after its predecessor. *)
AncestorsFirst == subject = "blocks" => Blocks!AncestorsFirst
(* The blocks before the last one keep the limits of weight and sigops. *)
BlocksWithinLimits == subject = "blocks" => Blocks!BlocksWithinLimits
(* A chunk that fits into a block is not left for a later one. *)
NoRoomWasted == subject = "blocks" => Blocks!NoRoomWasted
(* The pointers of the pairing heap behave as a priority queue of handles. *)
HeapImplementsQueue == Heap!ImplementsQueue
=============================================================================
