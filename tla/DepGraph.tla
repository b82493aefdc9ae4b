------------------------------- MODULE DepGraph -------------------------------
(***************************************************************************)
(* The dependency graph of a cluster (cluster-mempool/depgraph.ts): the    *)
(* transactions, their parents, and the ancestors and descendants that the *)
(* code keeps up to date beside them (each transaction is its own ancestor *)
(* and descendant).  The fee of a node is its effective fee.               *)
(***************************************************************************)
EXTENDS Integers, FiniteSets, SequencesExt, TLC

EmptyGraph == [parents |-> <<>>, ancestors |-> <<>>, descendants |-> <<>>, fee |-> <<>>]
TxsOf(g) == DOMAIN g.parents

AddTransaction(g, t, fee) ==
  LET with(f, x) == [u \in DOMAIN f \cup {t} |-> IF u = t THEN x ELSE f[u]]
  IN [parents |-> with(g.parents, {}),
      ancestors |-> with(g.ancestors, {t}),
      descendants |-> with(g.descendants, {t}),
      fee |-> with(g.fee, fee)]

AddDependency_Direct(g, parent, child) ==
  IF {parent, child} \subseteq TxsOf(g)
  THEN [g EXCEPT !.parents[child] = @ \cup {parent}, !.ancestors[child] = @ \cup {parent},
                 !.descendants[parent] = @ \cup {child}]
  ELSE g
(* Every descendant of the child gains every ancestor of the parent, unless
   the parent was an ancestor already. *)
AddDependency(g, parent, child) ==
  IF {parent, child} \subseteq TxsOf(g)
  THEN LET linked == [g EXCEPT !.parents[child] = @ \cup {parent}]
           below == g.descendants[child]
           above == g.ancestors[parent]
       IN IF parent \in g.ancestors[child] THEN linked
          ELSE [linked EXCEPT
                 !.ancestors = [t \in TxsOf(g) |-> IF t \in below THEN @[t] \cup above ELSE @[t]],
                 !.descendants = [t \in TxsOf(g) |-> IF t \in above THEN @[t] \cup below ELSE @[t]]]
  ELSE g

(* rederiveAncestorsDescendants: in the order of the old ancestor counts. *)
Rederive(g, order) ==
  LET above == FoldLeft(LAMBDA anc, t : [anc EXCEPT ![t] = @ \cup UNION {anc[p] : p \in g.parents[t]}],
                        [t \in TxsOf(g) |-> {t}], order)
  IN [g EXCEPT !.ancestors = above,
               !.descendants = [t \in TxsOf(g) |-> {u \in TxsOf(g) : t \in above[u]}]]

RemoveTransactions(g, gone) ==
  LET left == TxsOf(g) \ gone
      old(t) == Cardinality(g.ancestors[t] \ gone)
      rest == [parents |-> [t \in left |-> g.parents[t] \ gone],
               ancestors |-> [t \in left |-> g.ancestors[t] \ gone],
               descendants |-> [t \in left |-> g.descendants[t] \ gone],
               fee |-> [t \in left |-> g.fee[t]]]
  IN Rederive(rest, SetToSortSeq(left, LAMBDA t, u : old(t) < old(u)))

(* findConnectedComponents walks over ancestors and descendants. *)
Relatives(g, S) == UNION {g.ancestors[t] \cup g.descendants[t] : t \in S}
ComponentOf(g, t) ==
  FoldSet(LAMBDA i, S : S \cup Relatives(g, S), {t}, 1..Cardinality(TxsOf(g)))
Components(g) == {ComponentOf(g, t) : t \in TxsOf(g)}

(* subgraph: the same nodes again, with the dependencies among them. *)
Subgraph(g, S) ==
  LET nodes == FoldSet(LAMBDA t, h : AddTransaction(h, t, g.fee[t]), EmptyGraph, S)
      links == {l \in S \X S : l[1] \in g.parents[l[2]]}
  IN FoldSet(LAMBDA l, h : AddDependency(h, l[1], l[2]), nodes, links)
=============================================================================
