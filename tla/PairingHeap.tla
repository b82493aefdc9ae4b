------------------------------ MODULE PairingHeap ------------------------------
(***************************************************************************)
(* The pairing heap of utils/pairing-heap.ts, with its pointers: a node    *)
(* points to its first child, to its next sibling and to its previous      *)
(* sibling, or to its parent when it is the first child.  Callers keep the *)
(* node that add() returns and move or delete it later                     *)
(* (api/tx-selection-worker.ts, cluster-mempool/block-builder.ts).         *)
(***************************************************************************)
EXTENDS Integers, FiniteSets

CONSTANTS Nodes, Keys, Nil

VARIABLES key,       \* priority of the element of each node
          child, next, prev, root,
          popped     \* what pop() has just returned: at most one node

Lowest == CHOOSE k \in Keys : \A j \in Keys : k <= j

vars == <<key, child, next, prev, root, popped>>
Links == [child |-> child, next |-> next, prev |-> prev]

Init ==
  /\ key = [n \in Nodes |-> Lowest]
  /\ child = [n \in Nodes |-> Nil]
  /\ next = [n \in Nodes |-> Nil]
  /\ prev = [n \in Nodes |-> Nil]
  /\ root = Nil
  /\ popped = {}

-----------------------------------------------------------------------------
(* A tree under construction: links h and its topmost node. *)
Tree(h, top) == [links |-> h, top |-> top]

(* meld: the loser becomes the first child of the winner. *)
Meld(k, h, a, b) ==
  IF a = Nil THEN Tree(h, b)
  ELSE IF b = Nil \/ a = b THEN Tree(h, a)
  ELSE LET parent == IF k[a] > k[b] THEN a ELSE b
           loser == IF parent = a THEN b ELSE a
           first == h.child[parent]
           prevs == [n \in Nodes |-> IF n = loser THEN parent
                                     ELSE IF n = parent THEN Nil
                                     ELSE IF n = first THEN loser ELSE h.prev[n]]
           nexts == [h.next EXCEPT ![loser] = first, ![parent] = Nil]
       IN Tree([child |-> [h.child EXCEPT ![parent] = loser], next |-> nexts, prev |-> prevs], parent)

(* mergePairs, first pass: meld the siblings in pairs and stack the results
   on their prev links.  An odd sibling is stacked as it is. *)
Pairs(k, h, first) ==
  LET pair(s) ==
        LET current == s.rest
            sibling == s.links.next[current]
            melded == Meld(k, s.links, current, sibling)
        IN IF sibling = Nil
           THEN [links |-> [s.links EXCEPT !.prev[current] = s.top], rest |-> Nil, top |-> current]
           ELSE [links |-> [melded.links EXCEPT !.prev[melded.top] = s.top],
                 rest |-> s.links.next[sibling], top |-> melded.top]
      paired[i \in 0..Cardinality(Nodes)] ==
        IF i = 0 THEN [links |-> h, rest |-> first, top |-> Nil]
        ELSE LET s == paired[i - 1] IN IF s.rest = Nil THEN s ELSE pair(s)
  IN paired[Cardinality(Nodes)]

(* Second pass: meld the stack into one tree. *)
Combine(k, h, stack) ==
  LET combined[i \in 0..Cardinality(Nodes)] ==
        IF i = 0 THEN [links |-> h, rest |-> stack, top |-> Nil]
        ELSE LET s == combined[i - 1]
                 melded == Meld(k, s.links, s.top, s.rest)
             IN IF s.rest = Nil THEN s
                ELSE [links |-> melded.links, rest |-> s.links.prev[s.rest], top |-> melded.top]
  IN combined[Cardinality(Nodes)]

MergePairs(k, h, first) ==
  IF first = Nil THEN Tree(h, Nil)
  ELSE LET paired == Pairs(k, h, first)
           combined == Combine(k, paired.links, paired.top)
       IN Tree(combined.links, combined.top)

Unlink_OneSided(h, n) ==
  LET p == h.prev[n]
      s == h.next[n]
  IN IF p = Nil THEN h
     ELSE IF h.child[p] = n THEN [h EXCEPT !.child[p] = s]
     ELSE [h EXCEPT !.next[p] = s]
(* Take n away from its siblings or from its parent. *)
Unlink(h, n) ==
  LET p == h.prev[n]
      s == h.next[n]
      up == IF p = Nil THEN h
            ELSE IF h.child[p] = n THEN [h EXCEPT !.child[p] = s]
            ELSE [h EXCEPT !.next[p] = s]
  IN IF s = Nil THEN up ELSE [up EXCEPT !.prev[s] = p]

Cleared(h, n) == [h EXCEPT !.child[n] = Nil, !.next[n] = Nil, !.prev[n] = Nil]

(* deleteNode *)
Deleted(k, h, top, n) ==
  IF n = top
  THEN LET merged == MergePairs(k, h, h.child[n])
       IN Tree(Cleared(merged.links, n), merged.top)
  ELSE LET orphans == MergePairs(k, Unlink(h, n), h.child[n])
           melded == Meld(k, orphans.links, top, orphans.top)
       IN Tree(Cleared(melded.links, n), melded.top)

-----------------------------------------------------------------------------
(* The nodes that can be reached from the root. *)
Siblings(S) == (UNION {{n, next[n], child[n]} : n \in S}) \ {Nil}
Held ==
  LET reached[i \in 0..Cardinality(Nodes)] ==
        IF i = 0 THEN {root} \ {Nil} ELSE Siblings(reached[i - 1])
  IN reached[Cardinality(Nodes)]

Becomes(tree) ==
  /\ child' = tree.links.child
  /\ next' = tree.links.next
  /\ prev' = tree.links.prev
  /\ root' = tree.top

Add(n, k) ==
  /\ n \notin Held
  /\ key' = [key EXCEPT ![n] = k]
  /\ Becomes(Meld(key', Links, root, n))
  /\ popped' = {}

(* Nobody holds the node that pop() leaves behind: its links are garbage. *)
Pop ==
  /\ root # Nil
  /\ popped' = {root}
  /\ key' = [key EXCEPT ![root] = Lowest]
  /\ LET merged == MergePairs(key, Links, child[root])
     IN Becomes(Tree(Cleared(merged.links, root), merged.top))

DeleteNode(n) ==
  /\ n \in Held
  /\ Becomes(Deleted(key, Links, root, n))
  /\ key' = [key EXCEPT ![n] = Lowest]
  /\ popped' = {}

(* The caller raises the score of the element and then calls
   increasePriority: nothing moves under a parent that is still better. *)
IncreasePriority(n, k) ==
  /\ n \in Held
  /\ k > key[n]
  /\ key' = [key EXCEPT ![n] = k]
  /\ LET settled == n = root \/ /\ prev[n] # Nil
                                /\ child[prev[n]] = n
                                /\ key'[prev[n]] > k
     IN IF settled THEN UNCHANGED <<child, next, prev, root>>
        ELSE Becomes(Meld(key', Unlink(Links, n), root, n))
  /\ popped' = {}

DecreasePriority(n, k) ==
  /\ n \in Held
  /\ k < key[n]
  /\ key' = [key EXCEPT ![n] = k]
  /\ LET without == Deleted(key', Links, root, n)
     IN Becomes(Meld(key', without.links, without.top, n))
  /\ popped' = {}

Next ==
  \/ Pop
  \/ \E n \in Nodes : \/ DeleteNode(n)
                      \/ \E k \in Keys : \/ Add(n, k)
                                         \/ IncreasePriority(n, k)
                                         \/ DecreasePriority(n, k)
Spec == Init /\ [][Next]_vars

-----------------------------------------------------------------------------
PQ == INSTANCE PriorityQueue WITH queue <- [n \in Held |-> key[n]]
ImplementsQueue == PQ!QueueSpec
=============================================================================
