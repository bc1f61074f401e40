---------------------------- MODULE VectorStore ----------------------------
(*****************************************************************************)
(* SharedVectorStore (src/omega/src/vector_store.rs:127-411): a fixed array  *)
(* of shards, each behind a read-write lock, and an atomic counter that      *)
(* deals new vectors out to the shards.  VADD, VSEARCH and FLUSHDB of        *)
(* several worker threads interleave between the locks they take: a step is  *)
(* one critical section, or one access to the counter.                       *)
(*                                                                           *)
(* A vector stands for its key and its Dim floats, here integers; its bits   *)
(* are their signs.  The query is one vector, the same for every search.     *)
(*****************************************************************************)
EXTENDS Integers, Sequences, SequencesExt, FiniteSets

CONSTANTS Worker,
          Clearers,    \* the workers whose clients send FLUSHDB
          Vec,         \* the vectors clients add, all different
          Dim,         \* floats of a vector (1536)
          Floats,      \* Floats[v]: the floats of v
          QueryFloats, \* the floats of the query
          MaxScore,    \* the largest score an i32 holds (i32::MAX / 10^7)
          BlockSize,   \* vectors of a block (128)
          MinPool,     \* candidates of a search, unless there are fewer vectors (1000)
          TopK,        \* the k of VSEARCH
          NumShards,   \* max(number of CPUs, 4)
          MaxSearches, \* bound: searches begun
          MaxClears    \* bound: FLUSHDBs begun

Shard == 0 .. NumShards - 1

ASSUME VectorAssumption ==
    /\ IsFiniteSet(Worker)
    /\ NumShards \in Nat \ {0}
    /\ TopK \in Nat \ {0}
    /\ Dim \in Nat
    /\ Floats \in [Vec -> [1 .. Dim -> Int]]
    /\ QueryFloats \in [1 .. Dim -> Int]
    /\ MaxScore \in Nat
    /\ BlockSize \in Nat \ {0}
    /\ MinPool \in Nat
    /\ Clearers \subseteq Worker
    /\ MaxSearches \in Nat /\ MaxClears \in Nat

VARIABLES
    store,    \* store[s]: the vectors of shard s, in the order of its arrays
    blocks,   \* blocks[s]: the block signatures of shard s
    counter,  \* write_counter
    pc,
    adding,   \* the vectors each worker is adding: at most one
    target,   \* add: the shard the counter gave
    cursor,   \* the next shard of a len, scan, rerank or clear
    total,    \* search: the vectors counted so far by len()
    cand,     \* search: cand[w][s], the indices the Hamming scan kept
    ranked,   \* search: the reranked candidates, with the scores computed
    result,   \* what the last search of each worker returned
    skipped,  \* history: the vectors in blocks the worker's last search did not scan
    added,    \* every vector whose add has begun
    atStart,  \* history: the vectors in the store when the search began
    doomed,   \* history: the vectors in the store when the FLUSHDB began
    gone,     \* history: the vectors that a completed FLUSHDB found
    calm,     \* history: no FLUSHDB has run since the worker's last search began
    searches, clears

vectorVars == <<store, blocks, counter, pc, adding, target, cursor, total, cand, ranked, result,
                skipped, added, atStart, doomed, gone, calm, searches, clears>>

(*****************************************************************************)
(* quantize: a bit for each float that is not negative.  What a search       *)
(* compares is the Hamming distance to the query's bits, and the dot product *)
(* with the query's floats, which `as i32' cuts at the largest integer.      *)
(*****************************************************************************)
Bit == 1 .. Dim

Quantize(floats) == {b \in Bit : floats[b] >= 0}

Query == Quantize(QueryFloats)

Apart(x, y) == Cardinality((x \ y) \cup (y \ x))

Dist == [v \in Vec |-> Apart(Quantize(Floats[v]), Query)]

AtLeast(x, y) == IF x < y THEN y ELSE x
AtMost(x, y)  == IF x < y THEN x ELSE y

DotProduct(x, y) ==
    LET sum[b \in 0 .. Dim] == IF b = 0 THEN 0 ELSE sum[b - 1] + x[b] * y[b]
    IN  sum[Dim]

Score == [v \in Vec |->
            AtLeast(-MaxScore - 1, AtMost(DotProduct(QueryFloats, Floats[v]), MaxScore))]

Candidate == [shard : Shard, idx : Nat, score : Int]
Block == [start : Nat, end : Nat, high : SUBSET Bit, low : SUBSET Bit]

VectorTypeOK ==
    /\ store \in [Shard -> Seq(Vec)]
    /\ blocks \in [Shard -> Seq(Block)]
    /\ counter \in Nat
    /\ pc \in [Worker -> {"idle", "push", "len", "scan", "rerank", "merge", "keys",
                          "clear", "reset", "panicked"}]
    /\ adding \in [Worker -> SUBSET Vec]
    /\ target \in [Worker -> Shard]
    /\ cursor \in [Worker -> 0 .. NumShards]
    /\ total \in [Worker -> Nat]
    /\ cand \in [Worker -> [Shard -> SUBSET Nat]]
    /\ ranked \in [Worker -> SUBSET Candidate]
    /\ result \in [Worker -> SUBSET [vec : Vec, score : Int]]
    /\ skipped \in [Worker -> SUBSET Vec]
    /\ added \subseteq Vec
    /\ atStart \in [Worker -> SUBSET Vec]
    /\ doomed \in [Worker -> SUBSET Vec]
    /\ gone \subseteq Vec
    /\ calm \in [Worker -> BOOLEAN]
    /\ searches \in Nat
    /\ clears \in Nat

VectorInit ==
    /\ store = [s \in Shard |-> <<>>]
    /\ blocks = [s \in Shard |-> <<>>]
    /\ counter = 0
    /\ pc = [w \in Worker |-> "idle"]
    /\ adding = [w \in Worker |-> {}]
    /\ target = [w \in Worker |-> 0]
    /\ cursor = [w \in Worker |-> 0]
    /\ total = [w \in Worker |-> 0]
    /\ cand = [w \in Worker |-> [s \in Shard |-> {}]]
    /\ ranked = [w \in Worker |-> {}]
    /\ result = [w \in Worker |-> {}]
    /\ skipped = [w \in Worker |-> {}]
    /\ added = {}
    /\ atStart = [w \in Worker |-> {}]
    /\ doomed = [w \in Worker |-> {}]
    /\ gone = {}
    /\ calm = [w \in Worker |-> TRUE]
    /\ searches = 0
    /\ clears = 0

Stored == UNION {ToSet(store[s]) : s \in Shard}

Goto(w, l) == pc' = [pc EXCEPT ![w] = l]

\* the step after this shard: l again until the last shard, then m
Advance(w, l, m) ==
    IF cursor[w] + 1 = NumShards
    THEN Goto(w, m) /\ cursor' = [cursor EXCEPT ![w] = 0]
    ELSE Goto(w, l) /\ cursor' = [cursor EXCEPT ![w] = @ + 1]

\* mutant of FetchAdd: the counter is read but not advanced
FetchAddLoad(w) ==
    /\ pc[w] = "idle"
    /\ \E v \in Vec \ added :
          /\ adding' = [adding EXCEPT ![w] = {v}]
          /\ added' = added \cup {v}
    /\ target' = [target EXCEPT ![w] = counter % NumShards]
    /\ Goto(w, "push")
    /\ UNCHANGED <<store, blocks, counter, cursor, total, cand, ranked, result, skipped,
                   atStart, doomed, gone, calm, searches, clears>>

\* mutant of FetchAdd: the shards are numbered from one
FetchAddFromOne(w) ==
    /\ pc[w] = "idle"
    /\ \E v \in Vec \ added :
          /\ adding' = [adding EXCEPT ![w] = {v}]
          /\ added' = added \cup {v}
    /\ target' = [target EXCEPT ![w] = (counter % NumShards) + 1]
    /\ counter' = counter + 1
    /\ Goto(w, "push")
    /\ UNCHANGED <<store, blocks, cursor, total, cand, ranked, result, skipped, atStart,
                   doomed, gone, calm, searches, clears>>

(*****************************************************************************)
(* add: fetch_add picks the shard, the push happens later under its lock.    *)
(*****************************************************************************)
FetchAdd(w) ==
    /\ pc[w] = "idle"
    /\ \E v \in Vec \ added :
          /\ adding' = [adding EXCEPT ![w] = {v}]
          /\ added' = added \cup {v}
    /\ target' = [target EXCEPT ![w] = counter % NumShards]
    /\ counter' = counter + 1
    /\ Goto(w, "push")
    /\ UNCHANGED <<store, blocks, cursor, total, cand, ranked, result, skipped, atStart,
                   doomed, gone, calm, searches, clears>>

(*****************************************************************************)
(* The signature of vs[start + 1 .. end]: the bits that most of the vectors  *)
(* have, and of the others the ones that few have.                           *)
(*****************************************************************************)
Signature(vs, start, end) ==
    LET width == end - start
        Count(b) == Cardinality({i \in start + 1 .. end : b \in Quantize(Floats[vs[i]])})
        high == {b \in Bit : Count(b) >= (width * 7) \div 10}
        low  == {b \in Bit \ high : Count(b) <= (width * 3) \div 10}
    IN  [start |-> start, end |-> end, high |-> high, low |-> low]

\* mutant of RebuildBlocks: a block is signed when it is begun, and never again
RebuildBlocksOnce(bs, vs) ==
    LET n == Len(vs)
        expected == (n + BlockSize - 1) \div BlockSize
    IN  bs \o [i \in 1 .. expected - Len(bs) |->
                 Signature(vs, (Len(bs) + i - 1) * BlockSize,
                               AtMost((Len(bs) + i) * BlockSize, n))]

\* rebuild_blocks: the last block is signed again while it grows.
RebuildBlocks(bs, vs) ==
    LET n == Len(vs)
        expected == (n + BlockSize - 1) \div BlockSize
        last == bs[Len(bs)]
    IN  IF Len(bs) = expected /\ bs # <<>>
        THEN IF last.end # n THEN [bs EXCEPT ![Len(bs)] = Signature(vs, last.start, n)] ELSE bs
        ELSE bs \o [i \in 1 .. expected - Len(bs) |->
                      Signature(vs, (Len(bs) + i - 1) * BlockSize,
                                    AtMost((Len(bs) + i) * BlockSize, n))]

Push(w) ==
    /\ pc[w] = "push"
    /\ \E v \in adding[w] : store' = [store EXCEPT ![target[w]] = Append(@, v)]
    /\ blocks' = [blocks EXCEPT ![target[w]] = RebuildBlocks(@, store'[target[w]])]
    /\ adding' = [adding EXCEPT ![w] = {}]
    /\ Goto(w, "idle")
    /\ UNCHANGED <<counter, target, cursor, total, cand, ranked, result, skipped, added,
                   atStart, doomed, gone, calm, searches, clears>>

(*****************************************************************************)
(* clear: shard by shard, then the counter.                                  *)
(*****************************************************************************)
BeginClear(w) ==
    /\ pc[w] = "idle"
    /\ w \in Clearers
    /\ clears < MaxClears
    /\ clears' = clears + 1
    /\ doomed' = [doomed EXCEPT ![w] = Stored]
    /\ calm' = [u \in Worker |-> FALSE]
    /\ Goto(w, "clear")
    /\ UNCHANGED <<store, blocks, counter, adding, target, cursor, total, cand, ranked,
                   result, skipped, added, atStart, gone, searches>>

\* mutant of ClearShard: the last shard is left out
ClearShardNotLast(w) ==
    /\ pc[w] = "clear"
    /\ store' = IF cursor[w] = NumShards - 1 THEN store
                                             ELSE [store EXCEPT ![cursor[w]] = <<>>]
    /\ blocks' = [blocks EXCEPT ![cursor[w]] = <<>>]
    /\ Advance(w, "clear", "reset")
    /\ UNCHANGED <<counter, adding, target, total, cand, ranked, result, skipped, added,
                   atStart, doomed, gone, calm, searches, clears>>

ClearShard(w) ==
    /\ pc[w] = "clear"
    /\ store' = [store EXCEPT ![cursor[w]] = <<>>]
    /\ blocks' = [blocks EXCEPT ![cursor[w]] = <<>>]
    /\ Advance(w, "clear", "reset")
    /\ UNCHANGED <<counter, adding, target, total, cand, ranked, result, skipped, added,
                   atStart, doomed, gone, calm, searches, clears>>

ResetCounter(w) ==
    /\ pc[w] = "reset"
    /\ counter' = 0
    /\ gone' = gone \cup doomed[w]
    /\ Goto(w, "idle")
    /\ UNCHANGED <<store, blocks, adding, target, cursor, total, cand, ranked, result,
                   skipped, added, atStart, doomed, calm, searches, clears>>

(*****************************************************************************)
(* search_reranked, line 275: len() reads the shards one after the other.    *)
(*****************************************************************************)
BeginSearch(w) ==
    /\ pc[w] = "idle"
    /\ searches < MaxSearches
    /\ searches' = searches + 1
    /\ total' = [total EXCEPT ![w] = 0]
    /\ ranked' = [ranked EXCEPT ![w] = {}]
    /\ result' = [result EXCEPT ![w] = {}]
    /\ atStart' = [atStart EXCEPT ![w] = Stored]
    /\ calm' = [calm EXCEPT ![w] = \A u \in Worker : pc[u] # "clear"]
    /\ Goto(w, "len")
    /\ skipped' = [skipped EXCEPT ![w] = {}]
    /\ UNCHANGED <<store, blocks, counter, adding, target, cursor, cand, added, doomed, gone,
                   clears>>

CountShard(w) ==
    LET n == total[w] + Len(store[cursor[w]])
    IN  /\ pc[w] = "len"
        /\ total' = [total EXCEPT ![w] = n]
        /\ Advance(w, "len", IF n = 0 THEN "idle" ELSE "scan")
        /\ UNCHANGED <<store, blocks, counter, adding, target, cand, ranked, result, skipped,
                       added, atStart, doomed, gone, calm, searches, clears>>

(*****************************************************************************)
(* Lines 280-281: how many candidates the Hamming scan keeps in each shard.  *)
(*****************************************************************************)
Reranked(n)  == AtMost(AtLeast(n \div 500, MinPool), n)

\* mutant of PerShard: fewer than TopK when the shards are many
PerShardNoMax(n) == Reranked(n) \div NumShards

PerShard(n)  == AtLeast(Reranked(n) \div NumShards, TopK)

(*****************************************************************************)
(* Phase 1.  Blocks are scanned in the order of a bound computed from their  *)
(* signatures -- a mismatch with the query counts twice, a mixed bit once,   *)
(* and the mixed bits are taken off again -- until r candidates are at least *)
(* as near as the next bound.  The heap of candidates is ordered by distance *)
(* and then by index, and an equal distance does not replace.                *)
(*****************************************************************************)
MinDist(b) ==
    AtLeast(Apart(Query, b.high) + Apart(Bit \ Query, b.low)
              - Cardinality(Bit \ (b.high \cup b.low)), 0)

\* sort_unstable_by_key: blocks with equal bounds in any order
ScanOrders(bs) ==
    {p \in [1 .. Len(bs) -> 1 .. Len(bs)] :
        \A i, j \in 1 .. Len(bs) :
            i < j => p[i] # p[j] /\ MinDist(bs[p[i]]) <= MinDist(bs[p[j]])}

Nearer(vs, i, j) ==
    \/ Dist[vs[i]] < Dist[vs[j]]
    \/ Dist[vs[i]] = Dist[vs[j]] /\ i < j

\* heap.peek()
Top(vs, heap) == {j \in heap : \A i \in heap \ {j} : Nearer(vs, i, j)}

Offer(vs, heap, r, i) ==
    IF Cardinality(heap) < r THEN heap \cup {i}
    ELSE IF \E j \in Top(vs, heap) : Dist[vs[i]] < Dist[vs[j]]
         THEN (heap \ Top(vs, heap)) \cup {i}
         ELSE heap

Pruned(vs, heap, r, b) ==
    Cardinality(heap) >= r /\ \A i \in heap : Dist[vs[i]] <= MinDist(b)

OfferBlock(vs, heap, r, b) ==
    LET width == b.end - b.start
        offer[n \in 0 .. width] ==
            IF n = 0 THEN heap ELSE Offer(vs, offer[n - 1], r, b.start + n)
    IN  offer[width]

\* mutant of HeapOf: r candidates even when the shard holds fewer vectors
HeapOfR(vs, bs, order, r) == [heap |-> 1 .. r, skipped |-> {}]

\* The candidates, and the blocks that were not scanned; as bounds only grow,
\* once one is pruned so are all behind it.
HeapOf(vs, bs, order, r) ==
    LET scan[k \in 0 .. Len(order)] ==
            LET acc == scan[k - 1]
                b == bs[order[k]]
            IN  IF k = 0 THEN [heap |-> {}, skipped |-> {}]
                ELSE IF Pruned(vs, acc.heap, r, b)
                THEN [heap |-> acc.heap, skipped |-> acc.skipped \cup {order[k]}]
                ELSE [heap |-> OfferBlock(vs, acc.heap, r, b), skipped |-> acc.skipped]
    IN  scan[Len(order)]

VectorsOf(vs, b) == {vs[i] : i \in b.start + 1 .. b.end}

ScanShard(w) ==
    LET s == cursor[w]
    IN  /\ pc[w] = "scan"
        /\ \E order \in ScanOrders(blocks[s]) :
              LET scan == HeapOf(store[s], blocks[s], order, PerShard(total[w]))
              IN  /\ cand' = [cand EXCEPT ![w][s] = scan.heap]
                  /\ skipped' = [skipped EXCEPT ![w] = @ \cup
                         UNION {VectorsOf(store[s], blocks[s][k]) : k \in scan.skipped}]
        /\ Advance(w, "scan", "rerank")
        /\ UNCHANGED <<store, blocks, counter, adding, target, total, ranked, result, added,
                       atStart, doomed, gone, calm, searches, clears>>

(*****************************************************************************)
(* Phase 2: the floats of the candidates are read under the lock taken       *)
(* again, by the indices phase 1 found; an index past the end of the array   *)
(* panics, and the connection's task ends.  A heap keeps the TopK best       *)
(* scores; among equal scores it keeps any.                                  *)
(*****************************************************************************)
IsTop(best, all) ==
    /\ best \subseteq all
    /\ Cardinality(best) = AtMost(TopK, Cardinality(all))
    /\ \A x \in best, y \in all \ best : x.score >= y.score

\* mutant of Scored: every candidate is attributed to the first shard
ScoredInFirst(s, idxs) ==
    {[shard |-> 0, idx |-> i, score |-> Score[store[s][i]]] : i \in idxs}

Scored(s, idxs) ==
    {[shard |-> s, idx |-> i, score |-> Score[store[s][i]]] : i \in idxs}

InRange(s, idxs) == idxs \subseteq 1 .. Len(store[s])

RerankShard(w) ==
    LET s == cursor[w]
    IN  /\ pc[w] = "rerank"
        /\ InRange(s, cand[w][s])
        /\ \E best \in SUBSET Scored(s, cand[w][s]) :
              /\ IsTop(best, Scored(s, cand[w][s]))
              /\ ranked' = [ranked EXCEPT ![w] = @ \cup best]
        /\ Advance(w, "rerank", "merge")
        /\ UNCHANGED <<store, blocks, counter, adding, target, total, cand, result, skipped,
                       added, atStart, doomed, gone, calm, searches, clears>>

RerankPanics(w) ==
    /\ pc[w] = "rerank"
    /\ ~ InRange(cursor[w], cand[w][cursor[w]])
    /\ Goto(w, "panicked")
    /\ UNCHANGED <<store, blocks, counter, adding, target, cursor, total, cand, ranked,
                   result, skipped, added, atStart, doomed, gone, calm, searches, clears>>

(*****************************************************************************)
(* Phase 3: the best of all shards; then the keys are read by index, all     *)
(* shards locked.                                                            *)
(*****************************************************************************)
MergeShards(w) ==
    /\ pc[w] = "merge"
    /\ \E best \in SUBSET ranked[w] :
          IsTop(best, ranked[w]) /\ ranked' = [ranked EXCEPT ![w] = best]
    /\ Goto(w, "keys")
    /\ UNCHANGED <<store, blocks, counter, adding, target, cursor, total, cand, result,
                   skipped, added, atStart, doomed, gone, calm, searches, clears>>

KeysInRange(w) == \A c \in ranked[w] : InRange(c.shard, {c.idx})

ReadKeys(w) ==
    /\ pc[w] = "keys"
    /\ KeysInRange(w)
    /\ result' = [result EXCEPT ![w] =
                     {[vec |-> store[c.shard][c.idx], score |-> c.score] : c \in ranked[w]}]
    /\ Goto(w, "idle")
    /\ UNCHANGED <<store, blocks, counter, adding, target, cursor, total, cand, ranked,
                   skipped, added, atStart, doomed, gone, calm, searches, clears>>

KeysPanic(w) ==
    /\ pc[w] = "keys"
    /\ ~ KeysInRange(w)
    /\ Goto(w, "panicked")
    /\ UNCHANGED <<store, blocks, counter, adding, target, cursor, total, cand, ranked,
                   result, skipped, added, atStart, doomed, gone, calm, searches, clears>>

(*****************************************************************************)
(* The panic ends the task of the connection; the worker serves the others.  *)
(*****************************************************************************)
TaskEnds(w) ==
    /\ pc[w] = "panicked"
    /\ Goto(w, "idle")
    /\ cursor' = [cursor EXCEPT ![w] = 0]
    /\ UNCHANGED <<store, blocks, counter, adding, target, total, cand, ranked, result,
                   skipped, added, atStart, doomed, gone, calm, searches, clears>>

VectorNext ==
    \E w \in Worker :
        \/ FetchAdd(w) \/ Push(w)
        \/ BeginClear(w) \/ ClearShard(w) \/ ResetCounter(w)
        \/ BeginSearch(w) \/ CountShard(w) \/ ScanShard(w)
        \/ RerankShard(w) \/ RerankPanics(w) \/ MergeShards(w)
        \/ ReadKeys(w) \/ KeysPanic(w) \/ TaskEnds(w)

VectorSpec == VectorInit /\ [][VectorNext]_vectorVars
-----------------------------------------------------------------------------
(*****************************************************************************)
(* Unless a FLUSHDB overlaps it, a search never reads past the end of a      *)
(* shard: the indices it keeps while it holds no lock stay valid, whatever   *)
(* is added meanwhile (vector_store.rs:343, 382).                            *)
(*****************************************************************************)
NoPanic == \A w \in Worker : calm[w] => pc[w] # "panicked"

(*****************************************************************************)
(* Unless a FLUSHDB overlaps it, every score VSEARCH returns is the score of *)
(* the key it stands beside, though keys and scores are read under different *)
(* locks (vector_store.rs:339-344, 378-383; main.rs:580).                    *)
(*****************************************************************************)
ScoresBelongToKeys ==
    \A w \in Worker : calm[w] => \A x \in result[w] : x.score = Score[x.vec]

(*****************************************************************************)
(* What a search promises of the vectors stored when it began: unless a      *)
(* FLUSHDB overlaps it, one that is missing from the answer was outdone by   *)
(* TopK answers that score as well, crowded out by TopK vectors of its shard *)
(* that are as near, or in a block the scan left out with TopK vectors of    *)
(* the shard at hand (vector_store.rs:274-388).  Adds between len(), the     *)
(* scan, the rerank and the reading of the keys change nothing of it.        *)
(*****************************************************************************)
Answered(w) == pc[w] = "idle" /\ calm[w]

Outdone(w, v) == Cardinality({x \in result[w] : x.score >= Score[v]}) >= TopK

ShardOf(v) == UNION {ToSet(store[s]) : s \in {t \in Shard : v \in ToSet(store[t])}}

CrowdedOut(v) == Cardinality({u \in ShardOf(v) \ {v} : Dist[u] <= Dist[v]}) >= TopK

PassedOver(w, v) == v \in skipped[w] /\ Cardinality(ShardOf(v) \ skipped[w]) >= TopK

Missing(w) == {v \in atStart[w] : \A x \in result[w] : x.vec # v}

MissingForAReason ==
    \A w \in Worker : Answered(w) =>
        \A v \in Missing(w) : Outdone(w, v) \/ CrowdedOut(v) \/ PassedOver(w, v)

(*****************************************************************************)
(* The blocks cut a shard into pieces of BlockSize, and every signature is   *)
(* that of the vectors now in its block, whatever was added, in whatever     *)
(* order, and cleared before (vector_store.rs:33-61, 180-192, 402-407).      *)
(*****************************************************************************)
BlocksCurrent ==
    \A s \in Shard :
        LET n == Len(store[s])
        IN  /\ Len(blocks[s]) = (n + BlockSize - 1) \div BlockSize
            /\ \A k \in 1 .. Len(blocks[s]) :
                  blocks[s][k] = Signature(store[s], (k - 1) * BlockSize,
                                           AtMost(k * BlockSize, n))

(*****************************************************************************)
(* What src/README.md:65 promises: the vectors with the best scores.         *)
(*****************************************************************************)
NothingBetterMissed ==
    \A w \in Worker : Answered(w) => \A v \in Missing(w) : Outdone(w, v)

(*****************************************************************************)
(* Without FLUSHDB the counter deals evenly: no shard is ahead of another    *)
(* by more than one vector and the adds still under way                      *)
(* (vector_store.rs:178-180).                                                *)
(*****************************************************************************)
ShardsBalanced ==
    clears = 0 =>
        \A s, t \in Shard :
            Len(store[s]) <= Len(store[t]) + 1
                             + Cardinality({w \in Worker : pc[w] = "push" /\ target[w] = t})

(*****************************************************************************)
(* What was stored when a FLUSHDB began is gone when it is over, and does    *)
(* not come back (vector_store.rs:400-410).                                  *)
(*****************************************************************************)
ClearedStaysCleared == gone \cap Stored = {}
=============================================================================
