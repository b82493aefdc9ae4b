------------------------------ MODULE ChunkOrder ------------------------------
(***************************************************************************)
(* The last stages of cluster-mempool/linearize.ts, the deterministic      *)
(* ones: how a set of chunks becomes a linearization (extractLinearization)*)
(* and how a linearization is improved, cut into chunks and put in         *)
(* canonical order (linearizeCluster).  A chunk is the sequence of its     *)
(* transactions; its fee and weight are the sums over them.  A graph g is  *)
(* a record with the parents and the effective fee of every transaction.   *)
(***************************************************************************)
EXTENDS Integers, Sequences, FiniteSets, SequencesExt, Selection

CONSTANTS Weight, Order       \* of each transaction

-----------------------------------------------------------------------------
FeeOf(g, S) == FoldSet(LAMBDA t, sum : sum + g.fee[t], 0, S)
WeightOf(S) == FoldSet(LAMBDA t, sum : sum + Weight[t], 0, S)
MaxOrder(S) == Max({0} \cup {Order[t] : t \in S})

(* Set S pays a strictly higher feerate than set T (cross-multiplied, as in
   the code, so that nothing is divided). *)
HigherFeerate(g, S, T) == FeeOf(g, S) * WeightOf(T) > FeeOf(g, T) * WeightOf(S)

SameFeerate(g, S, T) == FeeOf(g, S) * WeightOf(T) = FeeOf(g, T) * WeightOf(S)

(* Lexicographic comparison of items: by the feerate of their transactions
   txs, then by a key, then by order, a number read from the txid. *)
Sooner(g, txs, key) ==
  {p \in (DOMAIN txs) \X (DOMAIN txs) :
     LET S == txs[p[1]]
         T == txs[p[2]]
     IN \/ HigherFeerate(g, S, T)
        \/ /\ ~HigherFeerate(g, T, S)
           /\ \/ key[p[1]] < key[p[2]]
              \/ key[p[1]] = key[p[2]] /\ MaxOrder(S) < MaxOrder(T)}

(* Take a ready item, the soonest one, until no item is ready: an item is
   ready when all that it needs has been taken. *)
TakeReady(S, needs, sooner) ==
  LET take(taken) ==
        LET rest == S \ ToSet(taken)
            ready == {x \in rest : needs[x] \cap rest = {}}
        IN IF ready = {} THEN taken
           ELSE Append(taken, CHOOSE x \in ready : \A y \in ready \ {x} : <<y, x>> \notin sooner)
      taken[i \in 0..Cardinality(S)] == IF i = 0 THEN <<>> ELSE take(taken[i - 1])
  IN taken[Cardinality(S)]

(* The parts that the dependencies inside S connect. *)
LinkedIn(g, S, A) ==
  A \cup {t \in S : \E u \in A : t \in g.parents[u] \/ u \in g.parents[t]}
PartOf(g, S, t) ==
  LET part[i \in 0..Cardinality(S)] == IF i = 0 THEN {t} ELSE LinkedIn(g, S, part[i - 1])
  IN part[Cardinality(S)]
PartsOf(g, S) == {PartOf(g, S, t) : t \in S}

-----------------------------------------------------------------------------
(* emitChunkTxs: parents first, then by feerate, weight and order. *)
EmitChunk(g, S) ==
  TakeReady(S, [t \in S |-> g.parents[t] \cap S],
            Sooner(g, [t \in S |-> {t}], [t \in S |-> -WeightOf({t})]))

(* extractLinearization: the chunks, a parent chunk before its children. *)
ExtractLinearization(g, chunks) ==
  LET order == TakeReady(chunks,
                 [c \in chunks |-> {d \in chunks \ {c} : \E t \in c : g.parents[t] \cap d # {}}],
                 Sooner(g, [c \in chunks |-> c], [c \in chunks |-> -WeightOf(c)]))
  IN FlattenSeq([i \in DOMAIN order |-> EmitChunk(g, order[i])])

(* sortByFeerateDesc, for a cluster without dependencies. *)
SortByFeerate(g, S) ==
  TakeReady(S, [t \in S |-> {}], Sooner(g, [t \in S |-> {t}], [t \in S |-> 0]))

-----------------------------------------------------------------------------
(* chunkify: each transaction starts a chunk, and the last chunk is merged
   into the one before it while it pays more. *)
Absorb(g, chunks) ==
  LET merge(c) ==
        LET n == Len(c)
        IN IF n >= 2 /\ HigherFeerate(g, ToSet(c[n]), ToSet(c[n - 1]))
           THEN Append(SubSeq(c, 1, n - 2), c[n - 1] \o c[n])
           ELSE c
      merged[i \in 0..Len(chunks)] == IF i = 0 THEN chunks ELSE merge(merged[i - 1])
  IN merged[Len(chunks)]
Chunkify(g, lin) ==
  LET chunks[i \in 0..Len(lin)] == IF i = 0 THEN <<>> ELSE Absorb(g, Append(chunks[i - 1], <<lin[i]>>))
  IN chunks[Len(lin)]

(* postLinearizePass: the new group climbs past groups that pay less and
   merges with the first one that holds a transaction it depends on. *)
Climb(groups, g, related, forward) ==
  LET last == Len(groups)
      pays(A, B) == IF forward THEN HigherFeerate(g, A, B) ELSE HigherFeerate(g, B, A)
      up(gs, pos) ==
        LET cur == gs[pos]
            prev == gs[pos - 1]
        IN IF \E t \in ToSet(cur) : related[t] \cap ToSet(prev) # {}
           THEN <<ReplaceAt(RemoveAt(gs, pos), pos - 1, prev \o cur), TRUE>>
           ELSE IF pays(ToSet(cur), ToSet(prev))
                THEN <<[gs EXCEPT ![pos] = prev, ![pos - 1] = cur], TRUE>>
                ELSE <<gs, FALSE>>
      climbed[i \in 0..(last - 1)] ==
        IF i = 0 THEN <<groups, TRUE>>
        ELSE LET before == climbed[i - 1]
             IN IF before[2] THEN up(before[1], last - i + 1) ELSE before
  IN climbed[last - 1][1]
PostPass(g, lin, forward) ==
  LET related == IF forward THEN g.parents
                 ELSE [t \in DOMAIN g.parents |-> {u \in DOMAIN g.parents : t \in g.parents[u]}]
      input == IF forward THEN lin ELSE Reverse(lin)
      groups[i \in 0..Len(input)] ==
        IF i = 0 THEN <<>> ELSE Climb(Append(groups[i - 1], <<input[i]>>), g, related, forward)
      output == FlattenSeq(groups[Len(input)])
  IN IF forward THEN output ELSE Reverse(output)
PostLinearize(g, lin) == PostPass(g, PostPass(g, lin, TRUE), FALSE)

(* minimizeChunks: a chunk whose transactions are not connected is split
   into its parts, the best paying part first. *)
SplitChunk(g, chunk) ==
  LET at(S) == CHOOSE i \in DOMAIN chunk : chunk[i] \in S /\ \A j \in 1..(i - 1) : chunk[j] \notin S
      parts == PartsOf(g, ToSet(chunk))
      order == TakeReady(parts, [S \in parts |-> {}],
                         Sooner(g, [S \in parts |-> S], [S \in parts |-> at(S)]))
  IN [i \in DOMAIN order |-> Selected(chunk, {k \in DOMAIN chunk : chunk[k] \in order[i]})]
MinimizeChunks(g, chunks) == FlattenSeq([i \in DOMAIN chunks |-> SplitChunk(g, chunks[i])])

CanonicalOrder_ByFeerate(g, chunks) ==
  LET order == TakeReady(DOMAIN chunks, [i \in DOMAIN chunks |-> {}],
                 Sooner(g, [i \in DOMAIN chunks |-> ToSet(chunks[i])],
                        [i \in DOMAIN chunks |-> WeightOf(ToSet(chunks[i]))]))
  IN [i \in DOMAIN order |-> chunks[order[i]]]
(* canonicalizeChunkOrder: like the extraction, but light chunks go first. *)
CanonicalOrder(g, chunks) ==
  LET order == TakeReady(DOMAIN chunks,
                 [i \in DOMAIN chunks |->
                    {j \in (DOMAIN chunks) \ {i} :
                       \E t \in ToSet(chunks[i]) : g.parents[t] \cap ToSet(chunks[j]) # {}}],
                 Sooner(g, [i \in DOMAIN chunks |-> ToSet(chunks[i])],
                        [i \in DOMAIN chunks |-> WeightOf(ToSet(chunks[i]))]))
  IN [i \in DOMAIN order |-> chunks[order[i]]]

FinishChunks_Unsorted(g, lin) ==
  Chunkify(g, FlattenSeq(MinimizeChunks(g, Chunkify(g, PostLinearize(g, lin)))))
(* linearizeCluster, after the spanning forest search. *)
FinishChunks(g, lin) ==
  LET minimized == MinimizeChunks(g, Chunkify(g, PostLinearize(g, lin)))
  IN CanonicalOrder(g, Chunkify(g, FlattenSeq(minimized)))
=============================================================================
