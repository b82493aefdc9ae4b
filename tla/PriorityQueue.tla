----------------------------- MODULE PriorityQueue -----------------------------
(***************************************************************************)
(* What utils/pairing-heap.ts promises its callers: a bag of handles, each *)
(* with a priority, from which pop() takes one that no other beats.        *)
(***************************************************************************)
EXTENDS Integers

CONSTANTS Nodes, Keys

VARIABLES queue,     \* the handles in the queue, with their priorities
          popped     \* what pop() has just returned: at most one handle

Put(n, k) ==
  /\ n \notin DOMAIN queue
  /\ queue' = [x \in DOMAIN queue \cup {n} |-> IF x = n THEN k ELSE queue[x]]
  /\ popped' = {}

Take ==
  \E n \in DOMAIN queue :
    /\ \A x \in DOMAIN queue : queue[x] <= queue[n]
    /\ queue' = [x \in DOMAIN queue \ {n} |-> queue[x]]
    /\ popped' = {n}

Move(n, k) ==
  /\ n \in DOMAIN queue
  /\ queue' = [queue EXCEPT ![n] = k]
  /\ popped' = {}

Drop(n) ==
  /\ n \in DOMAIN queue
  /\ queue' = [x \in DOMAIN queue \ {n} |-> queue[x]]
  /\ popped' = {}

QueueInit == queue = <<>> /\ popped = {}
QueueStep == \/ \E n \in Nodes, k \in Keys : Put(n, k) \/ Move(n, k)
             \/ Take
             \/ \E n \in Nodes : Drop(n)
QueueSpec == QueueInit /\ [][QueueStep]_<<queue, popped>>
=============================================================================
