-------------------------- MODULE VectorStoreProofs --------------------------
(*****************************************************************************)
(* Theorems about VectorStore, for any number of workers, shards and         *)
(* vectors, any block size, pool and TopK: the state keeps its type, the     *)
(* block signatures are current, the counter deals evenly, what FLUSHDB      *)
(* cleared stays cleared, and a search that no FLUSHDB overlaps neither      *)
(* panics nor puts a score beside the wrong key nor misses, without a        *)
(* reason, a vector stored when it began.                                    *)
(*****************************************************************************)
EXTENDS VectorStore, Induction, FiniteSetTheorems

(*****************************************************************************)
(* A cursor is a shard, and it is back at the first one between two passes.  *)
(*****************************************************************************)
CursorsOK ==
    \A w \in Worker :
        /\ cursor[w] \in Shard
        /\ pc[w] \notin {"len", "scan", "rerank", "clear", "panicked"} => cursor[w] = 0

Sound == VectorTypeOK /\ CursorsOK /\ BlocksCurrent

(*****************************************************************************)
(* Until the first FLUSHDB the counter tells how many vectors each shard     *)
(* holds or is about to be given.                                            *)
(*****************************************************************************)
Pending(s) == {w \in Worker : pc[w] = "push" /\ target[w] = s}

Share(c, s) == IF s < c % NumShards THEN c \div NumShards + 1 ELSE c \div NumShards

DealtEvenly ==
    clears = 0 =>
        /\ \A w \in Worker : pc[w] \notin {"clear", "reset"}
        /\ \A s \in Shard :
              Len(store[s]) + Cardinality(Pending(s)) = Share(counter, s)

(*****************************************************************************)
(* A vector is added once: the one a worker still has to push is nowhere     *)
(* yet, neither stored nor among those a FLUSHDB found.  A FLUSHDB leaves    *)
(* none of those it found in the shards its cursor has passed.               *)
(*****************************************************************************)
Held(s) == {store[s][i] : i \in 1 .. Len(store[s])}

AddedOnce ==
    /\ \A s \in Shard : Held(s) \subseteq added
    /\ gone \subseteq added
    /\ \A w \in Worker :
          /\ adding[w] \subseteq added
          /\ doomed[w] \subseteq added
          /\ adding[w] \cap gone = {}
          /\ \A s \in Shard : adding[w] \cap Held(s) = {}
          /\ \A u \in Worker : adding[w] \cap doomed[u] = {}
          /\ \A u \in Worker : u # w => adding[w] \cap adding[u] = {}

DoomedGone ==
    /\ \A s \in Shard : gone \cap Held(s) = {}
    /\ \A w \in Worker, s \in Shard :
          \/ pc[w] = "clear" /\ s < cursor[w]
          \/ pc[w] = "reset"
          => doomed[w] \cap Held(s) = {}

ClearInv == AddedOnce /\ DoomedGone

(*****************************************************************************)
(* While no FLUSHDB runs the shards only grow, so the indices a search has   *)
(* kept stay inside them and the vectors behind the indices stay the same.   *)
(*****************************************************************************)
Points(c) == c.idx \in 1 .. Len(store[c.shard]) /\ c.score = Score[store[c.shard][c.idx]]

CandidatesIn(w) ==
    \A s \in Shard :
        \/ pc[w] = "scan" /\ s < cursor[w]
        \/ pc[w] = "rerank"
        => cand[w][s] \subseteq 1 .. Len(store[s])

CalmSearch(w) ==
    calm[w] => /\ \A u \in Worker : pc[u] # "clear"
               /\ pc[w] # "panicked"
               /\ CandidatesIn(w)
               /\ \A c \in ranked[w] : Points(c)
               /\ \A x \in result[w] : x.score = Score[x.vec]

CalmInv == \A w \in Worker : CalmSearch(w)

(*****************************************************************************)
(* A vector is in one place of one shard.                                    *)
(*****************************************************************************)
OnePlace ==
    \A s, t \in Shard :
        \A i \in 1 .. Len(store[s]), j \in 1 .. Len(store[t]) :
            store[s][i] = store[t][j] => s = t /\ i = j

(*****************************************************************************)
(* What a search that no FLUSHDB overlaps has done with a vector that was    *)
(* stored when it began: counted it, kept it or left it for a reason, ranked *)
(* it or found TopK that score as well, and at last answered it.             *)
(*****************************************************************************)
Reason(w, v) == CrowdedOut(v) \/ PassedOver(w, v)

Entry(s, i) == [shard |-> s, idx |-> i, score |-> Score[store[s][i]]]

Beaten(w, v) == Cardinality({c \in ranked[w] : c.score >= Score[v]}) >= TopK

CountedOn(w) ==
    pc[w] = "len" =>
        \A v \in atStart[w] :
            total[w] > 0 \/ \E s \in Shard : cursor[w] <= s /\ v \in Held(s)

SkippedBehind(w) ==
    /\ pc[w] = "len" => skipped[w] = {}
    /\ pc[w] = "scan" =>
          \A v \in skipped[w] : \E s \in Shard : s < cursor[w] /\ v \in Held(s)

IsScanned(w, s) ==
    (pc[w] = "scan" /\ s < cursor[w]) \/ (pc[w] = "rerank" /\ cursor[w] <= s)

IsRanked(w, s) ==
    (pc[w] = "rerank" /\ s < cursor[w]) \/ pc[w] \in {"merge", "keys"}

ScannedOn(w) ==
    \A s \in Shard : IsScanned(w, s) =>
        \A i \in 1 .. Len(store[s]) : store[s][i] \in atStart[w] =>
            i \in cand[w][s] \/ Reason(w, store[s][i])

RankedOn(w) ==
    \A s \in Shard : IsRanked(w, s) =>
        \A i \in 1 .. Len(store[s]) : store[s][i] \in atStart[w] =>
            \/ Entry(s, i) \in ranked[w]
            \/ Beaten(w, store[s][i])
            \/ Reason(w, store[s][i])

AnsweredOn(w) ==
    pc[w] \in {"idle", "push", "reset"} =>
        \A v \in Missing(w) : Outdone(w, v) \/ Reason(w, v)

FoundSearch(w) ==
    calm[w] => /\ \A v \in atStart[w] : \E s \in Shard : v \in Held(s)
               /\ CountedOn(w) /\ SkippedBehind(w)
               /\ ScannedOn(w) /\ RankedOn(w) /\ AnsweredOn(w)

Finds == \A w \in Worker : IsFiniteSet(ranked[w]) /\ IsFiniteSet(result[w]) /\ FoundSearch(w)
-----------------------------------------------------------------------------
(*****************************************************************************)
(* Lengths in blocks.                                                        *)
(*****************************************************************************)
BlockCount(n) == (n + BlockSize - 1) \div BlockSize

LEMMA TimesOrdered ==
    ASSUME NEW a \in Int, NEW b \in Int, NEW c \in Nat \ {0}, a * c < b * c + c
    PROVE  a <= b
<1>1. SUFFICES ASSUME a >= b + 1 PROVE FALSE
    OBVIOUS
<1>2. PICK d \in Nat : a = (b + 1) + d
    <2>1. a - (b + 1) \in Nat /\ a = (b + 1) + (a - (b + 1))
        BY <1>1
    <2> QED
        BY <2>1
<1>3. a * c = b * c + c + d * c /\ d * c >= 0
    BY <1>2
<1> QED
    BY <1>3

LEMMA BlockCounts ==
    ASSUME NEW n \in Nat
    PROVE  /\ BlockCount(n) \in Nat
           /\ n <= BlockCount(n) * BlockSize
           /\ BlockCount(n) * BlockSize < n + BlockSize
<1> DEFINE m == n + BlockSize - 1
           q == m \div BlockSize
<1>1. BlockSize \in Nat \ {0} /\ m \in Nat
    BY VectorAssumption
<1>2. q \in Nat /\ m % BlockSize \in 0 .. BlockSize - 1 /\ m = BlockSize * q + (m % BlockSize)
    BY <1>1
<1>3. BlockSize * q = q * BlockSize
    BY <1>1, <1>2
<1> QED
    BY <1>1, <1>2, <1>3 DEF BlockCount

LEMMA BlockCountIs ==
    ASSUME NEW n \in Nat, NEW q \in Nat, n <= q * BlockSize, q * BlockSize < n + BlockSize
    PROVE  BlockCount(n) = q
<1> DEFINE p == BlockCount(n)
<1>1. /\ p \in Nat /\ n <= p * BlockSize /\ p * BlockSize < n + BlockSize
      /\ BlockSize \in Nat \ {0}
    BY BlockCounts, VectorAssumption
<1> HIDE DEF p
<1>2. p * BlockSize \in Nat /\ q * BlockSize \in Nat
    BY <1>1
<1>3. p * BlockSize < q * BlockSize + BlockSize /\ q * BlockSize < p * BlockSize + BlockSize
    BY <1>1, <1>2
<1>4. p <= q /\ q <= p
    BY <1>1, <1>3, TimesOrdered
<1> QED
    BY <1>1, <1>4 DEF p

(*****************************************************************************)
(* A block is signed from the vectors it holds alone.                        *)
(*****************************************************************************)
LEMMA SignatureType ==
    ASSUME NEW vs, NEW start \in Nat, NEW end \in Nat
    PROVE  /\ Signature(vs, start, end) \in Block
           /\ Signature(vs, start, end).start = start
           /\ Signature(vs, start, end).end = end
BY DEF Signature, Block

LEMMA SignatureSame ==
    ASSUME NEW us, NEW vs, NEW start \in Nat, NEW end \in Nat,
           \A i \in start + 1 .. end : us[i] = vs[i]
    PROVE  Signature(us, start, end) = Signature(vs, start, end)
<1> DEFINE In(xs, b) == {i \in start + 1 .. end : b \in Quantize(Floats[xs[i]])}
<1>1. ASSUME NEW b PROVE In(us, b) = In(vs, b)
    OBVIOUS
<1> QED
    BY <1>1 DEF Signature

(*****************************************************************************)
(* rebuild_blocks keeps the blocks current when a vector is added at the end.*)
(*****************************************************************************)
Current(bs, vs) ==
    /\ Len(bs) = BlockCount(Len(vs))
    /\ \A k \in 1 .. Len(bs) :
          bs[k] = Signature(vs, (k - 1) * BlockSize, AtMost(k * BlockSize, Len(vs)))

LEMMA BlocksCurrentIs == BlocksCurrent <=> \A s \in Shard : Current(blocks[s], store[s])
BY DEF BlocksCurrent, Current, BlockCount

LEMMA NoBlocksCurrent == Current(<<>>, <<>>)
<1>1. BlockCount(0) = 0
    BY BlockCountIs, VectorAssumption
<1> QED
    BY <1>1 DEF Current

LEMMA BlockEnds ==
    ASSUME NEW n \in Nat, NEW k \in 1 .. BlockCount(n)
    PROVE  /\ (k - 1) * BlockSize \in Nat
           /\ AtMost(k * BlockSize, n) \in Nat
           /\ (k - 1) * BlockSize < AtMost(k * BlockSize, n)
           /\ AtMost(k * BlockSize, n) <= n
           /\ AtMost(k * BlockSize, n) <= k * BlockSize
<1> DEFINE q == BlockCount(n)
<1>1. BlockSize \in Nat \ {0} /\ q \in Nat /\ q * BlockSize < n + BlockSize
    BY BlockCounts, VectorAssumption
<1> HIDE DEF q
<1>2. k \in 1 .. q
    BY DEF q
<1>3. (k - 1) * BlockSize \in Nat /\ k * BlockSize \in Nat
    BY <1>1, <1>2
<1>4. k * BlockSize = (k - 1) * BlockSize + BlockSize
    BY <1>1, <1>2
<1>5. k * BlockSize <= q * BlockSize
    <2>1. PICK d \in Nat : q = k + d
        <3>1. q - k \in Nat /\ q = k + (q - k)
            BY <1>1, <1>2
        <3> QED
            BY <3>1
    <2>2. q * BlockSize = k * BlockSize + d * BlockSize /\ d * BlockSize >= 0
        BY <2>1, <1>1, <1>2
    <2> QED
        BY <2>2, <1>1, <1>3
<1>6. (k - 1) * BlockSize < n
    BY <1>1, <1>3, <1>4, <1>5
<1> QED
    BY <1>1, <1>3, <1>4, <1>6 DEF AtMost

LEMMA CurrentBlocks ==
    ASSUME NEW bs, NEW vs \in Seq(Vec), Current(bs, vs)
    PROVE  \A k \in 1 .. Len(bs) :
              /\ bs[k] \in Block
              /\ bs[k].start <= bs[k].end
              /\ bs[k].end <= Len(vs)
<1> TAKE k \in 1 .. Len(bs)
<1> DEFINE start == (k - 1) * BlockSize
           end == AtMost(k * BlockSize, Len(vs))
<1>1. Len(vs) \in Nat /\ k \in 1 .. BlockCount(Len(vs)) /\ bs[k] = Signature(vs, start, end)
    BY DEF Current
<1>2. start \in Nat /\ end \in Nat /\ start < end /\ end <= Len(vs)
    BY <1>1, BlockEnds
<1> HIDE DEF start, end
<1> QED
    BY <1>1, <1>2, SignatureType

LEMMA RebuildKeepsCurrent ==
    ASSUME NEW bs \in Seq(Block), NEW vs \in Seq(Vec), NEW v \in Vec, Current(bs, vs)
    PROVE  /\ RebuildBlocks(bs, Append(vs, v)) \in Seq(Block)
           /\ Current(RebuildBlocks(bs, Append(vs, v)), Append(vs, v))
<1> DEFINE us == Append(vs, v)
           n == Len(vs)
           q == Len(bs)
           Sig(k) == Signature(us, (k - 1) * BlockSize, AtMost(k * BlockSize, n + 1))
<1>1. /\ us \in Seq(Vec) /\ n \in Nat /\ Len(us) = n + 1
      /\ \A i \in 1 .. n : us[i] = vs[i]
    BY AppendElements
<1>2. /\ q \in Nat /\ q = BlockCount(n) /\ n <= q * BlockSize /\ q * BlockSize < n + BlockSize
      /\ q * BlockSize \in Nat
      /\ BlockSize \in Nat \ {0}
    <2>1. q \in Nat /\ q = BlockCount(n) /\ BlockSize \in Nat \ {0}
        BY VectorAssumption DEF Current
    <2>2. n <= q * BlockSize /\ q * BlockSize < n + BlockSize
        BY <1>1, <2>1, BlockCounts
    <2> QED
        BY <2>1, <2>2
<1>3. \A k \in 1 .. q : bs[k] = Signature(vs, (k - 1) * BlockSize, AtMost(k * BlockSize, n))
    BY DEF Current
<1> HIDE DEF us, n, q
\* a full block, or any block but the one the vector falls into, is signed as before
<1>4. ASSUME NEW k \in 1 .. q, k * BlockSize <= n
      PROVE  bs[k] = Sig(k)
    <2>1. k * BlockSize \in Nat /\ (k - 1) * BlockSize \in Nat
        BY <1>2
    <2>2. AtMost(k * BlockSize, n) = k * BlockSize /\ AtMost(k * BlockSize, n + 1) = k * BlockSize
        BY <1>1, <1>4, <2>1 DEF AtMost
    <2>3. \A i \in (k - 1) * BlockSize + 1 .. k * BlockSize : us[i] = vs[i]
        BY <1>1, <1>4, <2>1
    <2>4. Signature(us, (k - 1) * BlockSize, k * BlockSize)
             = Signature(vs, (k - 1) * BlockSize, k * BlockSize)
        BY <2>1, <2>3, SignatureSame
    <2> QED
        BY <1>3, <2>2, <2>4
<1>5. ASSUME NEW k \in 1 .. q - 1 PROVE k * BlockSize <= n
    <2>1. PICK d \in Nat : q = k + 1 + d
        <3>1. q - (k + 1) \in Nat /\ q = k + 1 + (q - (k + 1))
            BY <1>2
        <3> QED
            BY <3>1
    <2>2. /\ q * BlockSize = k * BlockSize + BlockSize + d * BlockSize
          /\ k * BlockSize \in Nat /\ d * BlockSize \in Nat
        BY <2>1, <1>2
    <2> DEFINE a == k * BlockSize
               e == d * BlockSize
               z == q * BlockSize
    <2>3. /\ z = a + BlockSize + e /\ a \in Nat /\ e \in Nat
          /\ z < n + BlockSize /\ n \in Nat /\ BlockSize \in Nat
        BY <2>2, <1>1, <1>2
    <2> HIDE DEF a, e, z
    <2>4. a <= n
        BY <2>3
    <2> QED
        BY <2>4 DEF a
<1>6. CASE n < q * BlockSize
    <2>1. q # 0
        BY <1>1, <1>2, <1>6
    <2>2. BlockCount(n + 1) = q
        BY <1>1, <1>2, <1>6, BlockCountIs
    <2>3. bs[q].start = (q - 1) * BlockSize /\ bs[q].end = n
        <3>1. AtMost(q * BlockSize, n) = n
            BY <1>1, <1>2, <1>6 DEF AtMost
        <3>2. q \in 1 .. q /\ (q - 1) * BlockSize \in Nat
            BY <1>2, <2>1
        <3>3. bs[q] = Signature(vs, (q - 1) * BlockSize, n)
            BY <1>3, <3>1, <3>2
        <3> QED
            BY <1>1, <3>2, <3>3, SignatureType
    <2>4. RebuildBlocks(bs, us) = [bs EXCEPT ![q] = Signature(us, (q - 1) * BlockSize, n + 1)]
        <3>1. Len(bs) = (Len(us) + BlockSize - 1) \div BlockSize /\ bs # <<>>
            BY <1>1, <2>1, <2>2 DEF BlockCount, q
        <3>2. bs[Len(bs)].start = (q - 1) * BlockSize /\ bs[Len(bs)].end # Len(us)
            BY <1>1, <2>3 DEF q
        <3> QED
            BY <1>1, <3>1, <3>2 DEF RebuildBlocks, q
    <2>5. Signature(us, (q - 1) * BlockSize, n + 1) = Sig(q)
        <3>1. AtMost(q * BlockSize, n + 1) = n + 1
            BY <1>1, <1>2, <1>6 DEF AtMost
        <3> QED
            BY <3>1
    <2>6. Sig(q) \in Block
        <3>1. (q - 1) * BlockSize \in Nat /\ n + 1 \in Nat
            BY <1>1, <1>2, <2>1
        <3> QED
            BY <2>5, <3>1, SignatureType
    <2>7. RebuildBlocks(bs, us) = [bs EXCEPT ![q] = Sig(q)]
        BY <2>4, <2>5
    <2> HIDE DEF Sig
    <2> DEFINE e == Sig(q)
               cs == [bs EXCEPT ![q] = e]
    <2>8. /\ cs \in Seq(Block) /\ Len(cs) = q
          /\ \A k \in 1 .. q : cs[k] = IF k = q THEN e ELSE bs[k]
        <3>1. e \in Block /\ q \in 1 .. Len(bs) /\ Len(bs) = q
            BY <1>2, <2>1, <2>6 DEF q
        <3> HIDE DEF e
        <3> QED
            BY <3>1, ExceptElements
    <2> HIDE DEF cs
    <2>9. ASSUME NEW k \in 1 .. q PROVE cs[k] = Sig(k)
        <3>1. CASE k = q
            BY <2>8, <3>1 DEF e
        <3>2. CASE k # q
            <4>1. k \in 1 .. q - 1
                BY <1>2, <3>2
            <4> QED
                BY <1>4, <1>5, <2>8, <3>2, <4>1
        <3> QED
            BY <3>1, <3>2
    <2>10. Current(cs, us)
        BY <1>1, <2>2, <2>8, <2>9 DEF Current, Sig
    <2> QED
        BY <2>7, <2>8, <2>10 DEF cs, us, e
<1>7. CASE n = q * BlockSize
    <2>1. BlockCount(n + 1) = q + 1
        <3>1. (q + 1) * BlockSize = q * BlockSize + BlockSize
            BY <1>2
        <3>2. n + 1 <= (q + 1) * BlockSize /\ (q + 1) * BlockSize < n + 1 + BlockSize
            BY <1>1, <1>2, <1>7, <3>1, SMTT(30)
        <3> QED
            BY <1>1, <1>2, <3>2, BlockCountIs
    <2> DEFINE more == <<Sig(q + 1)>>
    <2>2. RebuildBlocks(bs, us) = bs \o more
        <3>1. (Len(us) + BlockSize - 1) \div BlockSize = q + 1 /\ Len(bs) = q
            BY <1>1, <2>1 DEF BlockCount, q
        <3>2. RebuildBlocks(bs, us) =
                bs \o [i \in 1 .. (q + 1) - q |->
                         Signature(us, (q + i - 1) * BlockSize,
                                       AtMost((q + i) * BlockSize, n + 1))]
            <4>1. Len(bs) # (Len(us) + BlockSize - 1) \div BlockSize
                BY <1>2, <3>1
            <4>2. RebuildBlocks(bs, us) =
                    bs \o [i \in 1 .. (Len(us) + BlockSize - 1) \div BlockSize - Len(bs) |->
                             Signature(us, (Len(bs) + i - 1) * BlockSize,
                                           AtMost((Len(bs) + i) * BlockSize, Len(us)))]
                BY <4>1 DEF RebuildBlocks
            <4> QED
                BY <1>1, <3>1, <4>2
        <3>3. [i \in 1 .. (q + 1) - q |->
                         Signature(us, (q + i - 1) * BlockSize,
                                       AtMost((q + i) * BlockSize, n + 1))] = more
            <4>1. (q + 1) - q = 1 /\ (q + 1) - 1 = q + 1 - 1
                BY <1>2
            <4> QED
                BY <4>1
        <3> QED
            BY <3>2, <3>3
    <2>3. Sig(q + 1) \in Block
        <3>1. /\ (q + 1) - 1 = q /\ (q + 1) * BlockSize = q * BlockSize + BlockSize
              /\ (q + 1) * BlockSize \in Nat
            BY <1>2
        <3>2. AtMost((q + 1) * BlockSize, n + 1) \in Nat
            BY <1>1, <3>1 DEF AtMost
        <3> QED
            BY <1>2, <3>1, <3>2, SignatureType
    <2> HIDE DEF Sig
    <2>4. more \in Seq(Block) /\ Len(more) = 1 /\ more[1] = Sig(q + 1)
        BY <2>3
    <2> HIDE DEF more
    <2>5. /\ bs \o more \in Seq(Block) /\ Len(bs \o more) = Len(bs) + Len(more)
          /\ \A k \in 1 .. Len(bs) : (bs \o more)[k] = bs[k]
          /\ \A j \in 1 .. Len(more) : (bs \o more)[Len(bs) + j] = more[j]
        <3>1. bs \in Seq(Block) /\ more \in Seq(Block)
            BY <2>4
        <3> QED
            BY <3>1, ConcatElements
    <2> DEFINE cs == bs \o more
    <2>6. /\ cs \in Seq(Block) /\ Len(cs) = q + 1
          /\ \A k \in 1 .. q : cs[k] = bs[k]
          /\ cs[q + 1] = Sig(q + 1)
        BY <2>4, <2>5 DEF q
    <2> HIDE DEF cs
    <2>7. ASSUME NEW k \in 1 .. q + 1 PROVE cs[k] = Sig(k)
        <3>1. CASE k = q + 1
            BY <2>6, <3>1
        <3>2. CASE k # q + 1
            <4>1. k \in 1 .. q /\ (k = q \/ k \in 1 .. q - 1)
                BY <1>2, <3>2
            <4>2. k * BlockSize <= n
                BY <1>1, <1>2, <1>5, <1>7, <4>1
            <4> QED
                BY <1>4, <2>6, <4>1, <4>2
        <3> QED
            BY <3>1, <3>2
    <2>8. Current(cs, us)
        BY <1>1, <2>1, <2>6, <2>7 DEF Current, Sig
    <2> QED
        BY <2>2, <2>6, <2>8 DEF cs, us
<1> QED
    BY <1>1, <1>2, <1>6, <1>7 DEF us
-----------------------------------------------------------------------------
(*****************************************************************************)
(* The scan of a shard: whatever the order of the blocks, the candidates are *)
(* indices of the shard, and the blocks left out are blocks of it.           *)
(*****************************************************************************)
LEMMA OfferIn ==
    ASSUME NEW vs, NEW U, NEW heap \in SUBSET U, NEW r, NEW i \in U
    PROVE  Offer(vs, heap, r, i) \in SUBSET U
BY DEF Offer

OfferSteps(f, vs, heap, r, b) ==
    /\ f[0] = heap
    /\ \A n \in 1 .. b.end - b.start : f[n] = Offer(vs, f[n - 1], r, b.start + n)
    /\ OfferBlock(vs, heap, r, b) = f[b.end - b.start]

LEMMA OfferBlockSteps ==
    ASSUME NEW vs, NEW U, NEW heap \in SUBSET U, NEW r, NEW b \in Block,
           b.start <= b.end, \A i \in b.start + 1 .. b.end : i \in U
    PROVE  \E f \in [0 .. b.end - b.start -> SUBSET U] : OfferSteps(f, vs, heap, r, b)
<1> DEFINE width == b.end - b.start
           Is(g) == g = [n \in 0 .. width |->
                           IF n = 0 THEN heap ELSE Offer(vs, g[n - 1], r, b.start + n)]
           h == CHOOSE g : Is(g)
           step == [x \in (SUBSET U) \X (1 .. width) |-> Offer(vs, x[1], r, b.start + x[2])]
<1>1. /\ width \in Nat /\ b.start \in Nat
      /\ \A n \in 1 .. width : b.start + n \in U
    BY DEF Block
<1>2. step \in StepOn(SUBSET U, 1 .. width)
    BY <1>1, OfferIn DEF StepOn
<1>3. PICK f \in [0 .. width -> SUBSET U] : Recurses(step, heap, width, f)
    <2> HIDE DEF step, width
    <2> QED
        BY <1>1, <1>2, RecursionExists
<1>4. ASSUME NEW n \in 1 .. width PROVE f[n] = Offer(vs, f[n - 1], r, b.start + n)
    <2>1. n - 1 \in 0 .. width
        BY <1>1
    <2>2. <<f[n - 1], n>> \in (SUBSET U) \X (1 .. width)
        BY <2>1, <1>3
    <2> QED
        BY <1>3, <2>2 DEF Recurses
<1> HIDE DEF step
<1>5. f[0] = heap /\ Is(f)
    BY <1>1, <1>3, <1>4 DEF Recurses
<1>6. Is(h)
    BY <1>5
<1>7. OfferBlock(vs, heap, r, b) = h[width]
    BY DEF OfferBlock
<1>8. h = f
    <2> HIDE DEF h, width
    <2>1. DefinedUpTo(width, h) /\ DefinedUpTo(width, f) /\ h[0] = f[0]
        BY <1>1, <1>3, <1>5, <1>6 DEF DefinedUpTo
    <2>2. ASSUME NEW n \in 1 .. width, h[n - 1] = f[n - 1] PROVE h[n] = f[n]
        <3>1. n \in 0 .. width /\ n # 0
            BY <1>1
        <3> QED
            BY <2>2, <3>1, <1>4, <1>6
    <2> QED
        BY <1>1, <2>1, <2>2, RecursionUnique
<1> QED
    BY <1>3, <1>4, <1>5, <1>7, <1>8 DEF OfferSteps

LEMMA OfferBlockIn ==
    ASSUME NEW vs, NEW U, NEW heap \in SUBSET U, NEW r, NEW b \in Block,
           b.start <= b.end, \A i \in b.start + 1 .. b.end : i \in U
    PROVE  OfferBlock(vs, heap, r, b) \in SUBSET U
<1>1. PICK f \in [0 .. b.end - b.start -> SUBSET U] : OfferSteps(f, vs, heap, r, b)
    BY OfferBlockSteps
<1>2. b.end - b.start \in 0 .. b.end - b.start
    BY DEF Block
<1> QED
    BY <1>1, <1>2 DEF OfferSteps

ScanStates(n, m) == [heap : SUBSET (1 .. n), skipped : SUBSET (1 .. m)]

NoneScanned == [heap |-> {}, skipped |-> {}]

ScanBlock(vs, b, r, acc, k) ==
    IF Pruned(vs, acc.heap, r, b)
    THEN [heap |-> acc.heap, skipped |-> acc.skipped \cup {k}]
    ELSE [heap |-> OfferBlock(vs, acc.heap, r, b), skipped |-> acc.skipped]

LEMMA ScanBlockIn ==
    ASSUME NEW vs, NEW n \in Nat, NEW m \in Nat, NEW b \in Block, b.start <= b.end, b.end <= n,
           NEW r, NEW acc \in ScanStates(n, m), NEW k \in 1 .. m
    PROVE  ScanBlock(vs, b, r, acc, k) \in ScanStates(n, m)
<1>1. b.start \in Nat /\ b.end \in Nat /\ \A i \in b.start + 1 .. b.end : i \in 1 .. n
    BY DEF Block
<1>2. acc.heap \in SUBSET (1 .. n) /\ acc.skipped \in SUBSET (1 .. m)
    BY DEF ScanStates
<1>3. OfferBlock(vs, acc.heap, r, b) \in SUBSET (1 .. n)
    BY <1>1, <1>2, OfferBlockIn
<1> QED
    BY <1>2, <1>3 DEF ScanBlock, ScanStates

ScanSteps(f, vs, bs, order, r) ==
    /\ f[0] = NoneScanned
    /\ \A k \in 1 .. Len(bs) : f[k] = ScanBlock(vs, bs[order[k]], r, f[k - 1], order[k])
    /\ HeapOf(vs, bs, order, r) = f[Len(bs)]

LEMMA HeapOfSteps ==
    ASSUME NEW vs, NEW n \in Nat, NEW bs \in Seq(Block),
           NEW order \in [1 .. Len(bs) -> 1 .. Len(bs)], NEW r,
           \A k \in 1 .. Len(bs) : bs[k].start <= bs[k].end /\ bs[k].end <= n
    PROVE  \E f \in [0 .. Len(bs) -> ScanStates(n, Len(bs))] : ScanSteps(f, vs, bs, order, r)
<1> DEFINE m == Len(bs)
           V == ScanStates(n, m)
           Scan(acc, k) == ScanBlock(vs, bs[order[k]], r, acc, order[k])
           Is(g) == g = [k \in 0 .. Len(order) |->
                           IF k = 0 THEN NoneScanned ELSE Scan(g[k - 1], k)]
           h == CHOOSE g : Is(g)
           step == [x \in V \X (1 .. m) |-> Scan(x[1], x[2])]
<1>1. m \in Nat /\ Len(order) = m
    OBVIOUS
<1>2. NoneScanned \in V
    BY DEF NoneScanned, ScanStates
<1>3. ASSUME NEW acc \in V, NEW k \in 1 .. m PROVE Scan(acc, k) \in V
    <2>1. /\ order[k] \in 1 .. m /\ bs[order[k]] \in Block
          /\ bs[order[k]].start <= bs[order[k]].end /\ bs[order[k]].end <= n
        OBVIOUS
    <2> HIDE DEF m
    <2> QED
        BY <1>1, <2>1, ScanBlockIn
<1>4. step \in StepOn(V, 1 .. m)
    <2> HIDE DEF V, Scan
    <2> QED
        BY <1>3 DEF StepOn
<1>5. PICK f \in [0 .. m -> V] : Recurses(step, NoneScanned, m, f)
    <2> HIDE DEF step, m, V
    <2> QED
        BY <1>1, <1>2, <1>4, RecursionExists
<1> HIDE DEF V, Scan
<1>6. ASSUME NEW k \in 1 .. m PROVE f[k] = Scan(f[k - 1], k)
    <2>1. k - 1 \in 0 .. m
        BY <1>1
    <2>2. <<f[k - 1], k>> \in V \X (1 .. m)
        BY <2>1, <1>5
    <2> QED
        BY <1>5, <2>2 DEF Recurses
<1> HIDE DEF step
<1>7. f[0] = NoneScanned /\ Is(f)
    BY <1>1, <1>5, <1>6 DEF Recurses
<1>8. Is(h)
    BY <1>7
<1>9. HeapOf(vs, bs, order, r) = h[m]
    BY <1>1 DEF HeapOf, Scan, ScanBlock, NoneScanned
<1>10. h = f
    <2> HIDE DEF h, m
    <2>1. DefinedUpTo(m, h) /\ DefinedUpTo(m, f) /\ h[0] = f[0]
        BY <1>1, <1>5, <1>7, <1>8 DEF DefinedUpTo
    <2>2. ASSUME NEW k \in 1 .. m, h[k - 1] = f[k - 1] PROVE h[k] = f[k]
        <3>1. k \in 0 .. m /\ k # 0
            BY <1>1
        <3> QED
            BY <2>2, <3>1, <1>1, <1>6, <1>8
    <2> QED
        BY <1>1, <2>1, <2>2, RecursionUnique
<1>11. ScanSteps(f, vs, bs, order, r)
    BY <1>6, <1>7, <1>9, <1>10 DEF Scan, ScanSteps
<1> QED
    BY <1>5, <1>11 DEF V

LEMMA HeapOfIn ==
    ASSUME NEW vs, NEW n \in Nat, NEW bs \in Seq(Block),
           NEW order \in [1 .. Len(bs) -> 1 .. Len(bs)], NEW r,
           \A k \in 1 .. Len(bs) : bs[k].start <= bs[k].end /\ bs[k].end <= n
    PROVE  /\ HeapOf(vs, bs, order, r).heap \in SUBSET (1 .. n)
           /\ HeapOf(vs, bs, order, r).skipped \in SUBSET (1 .. Len(bs))
<1>1. PICK f \in [0 .. Len(bs) -> ScanStates(n, Len(bs))] : ScanSteps(f, vs, bs, order, r)
    BY HeapOfSteps
<1>2. Len(bs) \in 0 .. Len(bs)
    OBVIOUS
<1>3. HeapOf(vs, bs, order, r) \in ScanStates(n, Len(bs))
    BY <1>1, <1>2 DEF ScanSteps
<1> QED
    BY <1>3 DEF ScanStates

(*****************************************************************************)
(* Distances and scores are numbers.                                         *)
(*****************************************************************************)
LEMMA DotProductInt ==
    ASSUME NEW x \in [Bit -> Int], NEW y \in [Bit -> Int]
    PROVE  DotProduct(x, y) \in Int
<1> DEFINE Is(g) == g = [b \in 0 .. Dim |-> IF b = 0 THEN 0 ELSE g[b - 1] + x[b] * y[b]]
           h == CHOOSE g : Is(g)
           step == [p \in Int \X (1 .. Dim) |-> p[1] + x[p[2]] * y[p[2]]]
<1>1. Dim \in Nat
    BY VectorAssumption
<1>2. step \in StepOn(Int, 1 .. Dim)
    BY DEF StepOn, Bit
<1>3. PICK f \in [0 .. Dim -> Int] : Recurses(step, 0, Dim, f)
    <2> DEFINE V == Int
               zero == 0
    <2>1. zero \in V /\ step \in StepOn(V, 1 .. Dim)
        BY <1>2
    <2> HIDE DEF step, V, zero
    <2>2. \E f \in [0 .. Dim -> V] : Recurses(step, zero, Dim, f)
        BY <1>1, <2>1, RecursionExists
    <2> QED
        BY <2>2 DEF V, zero
<1>4. ASSUME NEW b \in 1 .. Dim PROVE f[b] = f[b - 1] + x[b] * y[b]
    <2>1. <<f[b - 1], b>> \in Int \X (1 .. Dim)
        BY <1>1, <1>3
    <2> QED
        BY <1>3, <2>1 DEF Recurses
<1> HIDE DEF step
<1>5. f[0] = 0 /\ Is(f)
    BY <1>1, <1>3, <1>4 DEF Recurses
<1>6. Is(h)
    BY <1>5
<1>7. DotProduct(x, y) = h[Dim]
    BY DEF DotProduct
<1>8. h = f
    <2> HIDE DEF h
    <2>1. DefinedUpTo(Dim, h) /\ DefinedUpTo(Dim, f) /\ h[0] = f[0]
        BY <1>1, <1>3, <1>5, <1>6 DEF DefinedUpTo
    <2>2. ASSUME NEW b \in 1 .. Dim, h[b - 1] = f[b - 1] PROVE h[b] = f[b]
        <3>1. b \in 0 .. Dim /\ b # 0
            BY <1>1
        <3> QED
            BY <2>2, <3>1, <1>4, <1>6
    <2> QED
        BY <1>1, <2>1, <2>2, RecursionUnique
<1>9. Dim \in 0 .. Dim
    BY <1>1
<1> HIDE DEF h
<1> QED
    BY <1>3, <1>7, <1>8, <1>9

LEMMA ScoreInt == Score \in [Vec -> Int]
<1>1. ASSUME NEW v \in Vec PROVE DotProduct(QueryFloats, Floats[v]) \in Int
    BY DotProductInt, VectorAssumption DEF Bit
<1>2. MaxScore \in Nat
    BY VectorAssumption
<1> QED
    BY <1>1, <1>2 DEF Score, AtLeast, AtMost
-----------------------------------------------------------------------------
(*****************************************************************************)
(* The state keeps its type, the cursors their place and the blocks their    *)
(* signatures.                                                               *)
(*****************************************************************************)
LEMMA ShardFacts == 0 \in Shard /\ NumShards \in Nat \ {0} /\ Shard \subseteq 0 .. NumShards
BY VectorAssumption DEF Shard

LEMMA SoundInit == VectorInit => Sound
<1> SUFFICES ASSUME VectorInit PROVE Sound
    OBVIOUS
<1>1. VectorTypeOK /\ CursorsOK
    BY ShardFacts DEF VectorInit, VectorTypeOK, CursorsOK
<1>2. BlocksCurrent
    BY BlocksCurrentIs, NoBlocksCurrent DEF VectorInit
<1> QED
    BY <1>1, <1>2 DEF Sound

LEMMA SoundFetchAdd ==
    ASSUME VectorTypeOK, CursorsOK, NEW w \in Worker, FetchAdd(w)
    PROVE  (VectorTypeOK /\ CursorsOK)' /\ UNCHANGED <<store, blocks>>
<1>1. counter % NumShards \in Shard
    BY ShardFacts DEF VectorTypeOK, Shard
<1> QED
    BY <1>1 DEF VectorTypeOK, CursorsOK, FetchAdd, Goto

LEMMA SoundBeginClear ==
    ASSUME VectorTypeOK, CursorsOK, NEW w \in Worker, BeginClear(w)
    PROVE  (VectorTypeOK /\ CursorsOK)' /\ UNCHANGED <<store, blocks>>
<1>1. Stored \subseteq Vec
    BY DEF VectorTypeOK, Stored, ToSet
<1> QED
    BY <1>1 DEF VectorTypeOK, CursorsOK, BeginClear, Goto

LEMMA SoundResetCounter ==
    ASSUME VectorTypeOK, CursorsOK, NEW w \in Worker, ResetCounter(w)
    PROVE  (VectorTypeOK /\ CursorsOK)' /\ UNCHANGED <<store, blocks>>
BY DEF VectorTypeOK, CursorsOK, ResetCounter, Goto

LEMMA SoundBeginSearch ==
    ASSUME VectorTypeOK, CursorsOK, NEW w \in Worker, BeginSearch(w)
    PROVE  (VectorTypeOK /\ CursorsOK)' /\ UNCHANGED <<store, blocks>>
<1>1. Stored \subseteq Vec
    BY DEF VectorTypeOK, Stored, ToSet
<1> QED
    BY <1>1, SMTT(60) DEF VectorTypeOK, CursorsOK, BeginSearch, Goto

(*****************************************************************************)
(* What a step of a pass over the shards does to its cursor.                 *)
(*****************************************************************************)
Place == {"idle", "push", "len", "scan", "rerank", "merge", "keys",
          "clear", "reset", "panicked"}
PassSteps == {"len", "scan", "rerank", "clear"}

LEMMA AdvanceKeeps ==
    ASSUME pc \in [Worker -> Place],
           cursor \in [Worker -> 0 .. NumShards],
           CursorsOK, NEW w \in Worker, NEW l \in PassSteps,
           NEW m \in {"idle", "scan", "rerank", "merge", "reset"}, Advance(w, l, m)
    PROVE  /\ pc' \in [Worker -> Place]
           /\ cursor' \in [Worker -> 0 .. NumShards]
           /\ CursorsOK'
<1>1. cursor[w] \in 0 .. NumShards - 1 /\ NumShards \in Nat \ {0}
    BY ShardFacts DEF CursorsOK, Shard
<1>2. CASE cursor[w] + 1 = NumShards
    BY <1>1, <1>2, ShardFacts DEF Advance, Goto, CursorsOK, Place
<1>3. CASE cursor[w] + 1 # NumShards
    <2>1. cursor[w] + 1 \in Shard /\ cursor[w] + 1 \in 0 .. NumShards
        BY <1>1, <1>3 DEF Shard
    <2> QED
        BY <1>1, <1>3, <2>1 DEF Advance, Goto, CursorsOK, Place, PassSteps
<1> QED
    BY <1>2, <1>3

LEMMA SoundCountShard ==
    ASSUME VectorTypeOK, CursorsOK, NEW w \in Worker, CountShard(w)
    PROVE  (VectorTypeOK /\ CursorsOK)' /\ UNCHANGED <<store, blocks>>
<1>1. total[w] + Len(store[cursor[w]]) \in Nat
    BY DEF VectorTypeOK, CursorsOK
<1>2. \E m \in {"idle", "scan"} : Advance(w, "len", m)
    BY DEF CountShard
<1>3. CursorsOK' /\ cursor' \in [Worker -> 0 .. NumShards]
      /\ pc' \in [Worker -> Place]
    BY <1>2, AdvanceKeeps DEF VectorTypeOK, Place, PassSteps
<1> QED
    BY <1>1, <1>3 DEF VectorTypeOK, Place, CountShard

LEMMA SoundClearShard ==
    ASSUME VectorTypeOK, CursorsOK, NEW w \in Worker, ClearShard(w)
    PROVE  (VectorTypeOK /\ CursorsOK)'
<1>1. CursorsOK' /\ cursor' \in [Worker -> 0 .. NumShards]
      /\ pc' \in [Worker -> Place]
    <2>1. Advance(w, "clear", "reset")
        BY DEF ClearShard
    <2> QED
        BY <2>1, AdvanceKeeps DEF VectorTypeOK, Place, PassSteps
<1>2. <<>> \in Seq(Vec) /\ <<>> \in Seq(Block)
    OBVIOUS
<1> QED
    BY <1>1, <1>2 DEF VectorTypeOK, Place, ClearShard

LEMMA SoundScanShard ==
    ASSUME VectorTypeOK, CursorsOK, BlocksCurrent, NEW w \in Worker, ScanShard(w)
    PROVE  (VectorTypeOK /\ CursorsOK)' /\ UNCHANGED <<store, blocks>>
<1> DEFINE s == cursor[w]
           n == Len(store[s])
<1>1. /\ s \in Shard /\ store[s] \in Seq(Vec) /\ blocks[s] \in Seq(Block) /\ n \in Nat
      /\ Current(blocks[s], store[s])
    BY BlocksCurrentIs DEF VectorTypeOK, CursorsOK
<1>2. PICK order \in ScanOrders(blocks[s]) :
         LET scan == HeapOf(store[s], blocks[s], order, PerShard(total[w]))
         IN  /\ cand' = [cand EXCEPT ![w][s] = scan.heap]
             /\ skipped' = [skipped EXCEPT ![w] = @ \cup
                    UNION {VectorsOf(store[s], blocks[s][k]) : k \in scan.skipped}]
    BY DEF ScanShard
<1> DEFINE scan == HeapOf(store[s], blocks[s], order, PerShard(total[w]))
           out == UNION {VectorsOf(store[s], blocks[s][k]) : k \in scan.skipped}
<1>3. /\ scan.heap \in SUBSET (1 .. n)
      /\ scan.skipped \in SUBSET (1 .. Len(blocks[s]))
    <2>1. order \in [1 .. Len(blocks[s]) -> 1 .. Len(blocks[s])]
        BY DEF ScanOrders
    <2>2. \A k \in 1 .. Len(blocks[s]) :
             blocks[s][k].start <= blocks[s][k].end /\ blocks[s][k].end <= n
        BY <1>1, CurrentBlocks
    <2> HIDE DEF n
    <2> QED
        BY <1>1, <2>1, <2>2, HeapOfIn
<1>4. out \in SUBSET Vec
    <2>1. ASSUME NEW k \in 1 .. Len(blocks[s]) PROVE VectorsOf(store[s], blocks[s][k]) \subseteq Vec
        <3>1. /\ blocks[s][k] \in Block
              /\ blocks[s][k].end <= n
            BY <1>1, CurrentBlocks
        <3>2. blocks[s][k].start \in Nat /\ blocks[s][k].end \in Nat
            BY <3>1 DEF Block
        <3>3. \A i \in blocks[s][k].start + 1 .. blocks[s][k].end : store[s][i] \in Vec
            BY <1>1, <3>1, <3>2
        <3> QED
            BY <3>3 DEF VectorsOf
    <2> QED
        BY <1>3, <2>1
<1>5. cand' = [cand EXCEPT ![w][s] = scan.heap] /\ skipped' = [skipped EXCEPT ![w] = @ \cup out]
    BY <1>2
<1>6. cand' \in [Worker -> [Shard -> SUBSET Nat]] /\ skipped' \in [Worker -> SUBSET Vec]
    <2>1. scan.heap \in SUBSET Nat
        BY <1>1, <1>3
    <2> HIDE DEF scan, out, s
    <2>2. cand \in [Worker -> [Shard -> SUBSET Nat]] /\ skipped \in [Worker -> SUBSET Vec]
        BY DEF VectorTypeOK
    <2> QED
        BY <1>1, <1>4, <1>5, <2>1, <2>2
<1>7. CursorsOK' /\ cursor' \in [Worker -> 0 .. NumShards]
      /\ pc' \in [Worker -> Place]
    <2>1. Advance(w, "scan", "rerank")
        BY DEF ScanShard
    <2> QED
        BY <2>1, AdvanceKeeps DEF VectorTypeOK, Place, PassSteps
<1> QED
    BY <1>6, <1>7 DEF VectorTypeOK, Place, ScanShard

LEMMA SoundRerankShard ==
    ASSUME VectorTypeOK, CursorsOK, NEW w \in Worker, RerankShard(w)
    PROVE  (VectorTypeOK /\ CursorsOK)' /\ UNCHANGED <<store, blocks>>
<1> DEFINE s == cursor[w]
           idxs == cand[w][s]
<1>1. s \in Shard /\ store[s] \in Seq(Vec) /\ idxs \subseteq 1 .. Len(store[s])
    BY DEF VectorTypeOK, CursorsOK, RerankShard, InRange
<1>2. Scored(s, idxs) \subseteq Candidate
    <2> HIDE DEF s, idxs
    <2>1. ASSUME NEW i \in idxs
          PROVE  [shard |-> s, idx |-> i, score |-> Score[store[s][i]]] \in Candidate
        <3>1. i \in Nat /\ store[s][i] \in Vec
            BY <1>1
        <3>2. Score[store[s][i]] \in Int
            BY <3>1, ScoreInt
        <3> QED
            BY <1>1, <3>1, <3>2 DEF Candidate
    <2> QED
        BY <2>1 DEF Scored
<1>3. PICK best \in SUBSET Scored(s, idxs) : ranked' = [ranked EXCEPT ![w] = @ \cup best]
    BY DEF RerankShard
<1>4. ranked' \in [Worker -> SUBSET Candidate]
    <2> HIDE DEF s, idxs
    <2>1. best \subseteq Candidate /\ ranked \in [Worker -> SUBSET Candidate]
        BY <1>2 DEF VectorTypeOK
    <2> QED
        BY <1>3, <2>1
<1>5. CursorsOK' /\ cursor' \in [Worker -> 0 .. NumShards] /\ pc' \in [Worker -> Place]
    <2>1. Advance(w, "rerank", "merge")
        BY DEF RerankShard
    <2> QED
        BY <2>1, AdvanceKeeps DEF VectorTypeOK, Place, PassSteps
<1> QED
    BY <1>4, <1>5 DEF VectorTypeOK, Place, RerankShard

LEMMA SoundRerankPanics ==
    ASSUME VectorTypeOK, CursorsOK, NEW w \in Worker, RerankPanics(w)
    PROVE  (VectorTypeOK /\ CursorsOK)' /\ UNCHANGED <<store, blocks>>
BY DEF VectorTypeOK, CursorsOK, RerankPanics, Goto

LEMMA SoundMergeShards ==
    ASSUME VectorTypeOK, CursorsOK, NEW w \in Worker, MergeShards(w)
    PROVE  (VectorTypeOK /\ CursorsOK)' /\ UNCHANGED <<store, blocks>>
<1>1. PICK best \in SUBSET ranked[w] : ranked' = [ranked EXCEPT ![w] = best]
    BY DEF MergeShards
<1>2. ranked' \in [Worker -> SUBSET Candidate]
    BY <1>1 DEF VectorTypeOK
<1> QED
    BY <1>2 DEF VectorTypeOK, CursorsOK, MergeShards, Goto

LEMMA SoundReadKeys ==
    ASSUME VectorTypeOK, CursorsOK, NEW w \in Worker, ReadKeys(w)
    PROVE  (VectorTypeOK /\ CursorsOK)' /\ UNCHANGED <<store, blocks>>
<1> DEFINE answer == {[vec |-> store[c.shard][c.idx], score |-> c.score] : c \in ranked[w]}
<1>1. answer \subseteq [vec : Vec, score : Int]
    <2>1. ASSUME NEW c \in ranked[w] PROVE store[c.shard][c.idx] \in Vec /\ c.score \in Int
        <3>1. c \in Candidate
            BY DEF VectorTypeOK
        <3>2. c.shard \in Shard /\ c.score \in Int /\ c.idx \in 1 .. Len(store[c.shard])
            BY <3>1 DEF ReadKeys, KeysInRange, InRange, Candidate
        <3>3. store[c.shard] \in Seq(Vec)
            BY <3>2 DEF VectorTypeOK
        <3> QED
            BY <3>2, <3>3
    <2> QED
        BY <2>1
<1>2. result' = [result EXCEPT ![w] = answer]
    BY DEF ReadKeys
<1> HIDE DEF answer
<1> QED
    BY <1>1, <1>2 DEF VectorTypeOK, CursorsOK, ReadKeys, Goto

LEMMA SoundKeysPanic ==
    ASSUME VectorTypeOK, CursorsOK, NEW w \in Worker, KeysPanic(w)
    PROVE  (VectorTypeOK /\ CursorsOK)' /\ UNCHANGED <<store, blocks>>
BY DEF VectorTypeOK, CursorsOK, KeysPanic, Goto

LEMMA SoundTaskEnds ==
    ASSUME VectorTypeOK, CursorsOK, NEW w \in Worker, TaskEnds(w)
    PROVE  (VectorTypeOK /\ CursorsOK)' /\ UNCHANGED <<store, blocks>>
BY ShardFacts DEF VectorTypeOK, CursorsOK, TaskEnds, Goto

(*****************************************************************************)
(* What Push does: one shard is longer by the vector that was to be added.   *)
(*****************************************************************************)
LEMMA PushIs ==
    ASSUME VectorTypeOK, NEW w \in Worker, Push(w)
    PROVE  \E v \in Vec :
              /\ v \in adding[w]
              /\ target[w] \in Shard /\ store[target[w]] \in Seq(Vec)
              /\ blocks[target[w]] \in Seq(Block)
              /\ store' = [store EXCEPT ![target[w]] = Append(store[target[w]], v)]
              /\ blocks' = [blocks EXCEPT ![target[w]] =
                              RebuildBlocks(blocks[target[w]], Append(store[target[w]], v))]
<1>1. target[w] \in Shard /\ store[target[w]] \in Seq(Vec) /\ blocks[target[w]] \in Seq(Block)
      /\ adding[w] \subseteq Vec
    BY DEF VectorTypeOK
<1>2. PICK v \in adding[w] : store' = [store EXCEPT ![target[w]] = Append(store[target[w]], v)]
    BY DEF Push
<1>3. store'[target[w]] = Append(store[target[w]], v)
    BY <1>1, <1>2 DEF VectorTypeOK
<1>4. blocks' = [blocks EXCEPT ![target[w]] =
                   RebuildBlocks(blocks[target[w]], store'[target[w]])]
    BY DEF Push
<1> QED
    BY <1>1, <1>2, <1>3, <1>4

LEMMA SoundPush ==
    ASSUME Sound, NEW w \in Worker, Push(w)
    PROVE  Sound'
<1>1. VectorTypeOK /\ CursorsOK /\ \A s \in Shard : Current(blocks[s], store[s])
    BY BlocksCurrentIs DEF Sound
<1> DEFINE t == target[w]
<1>2. PICK v \in Vec :
         /\ t \in Shard /\ store[t] \in Seq(Vec) /\ blocks[t] \in Seq(Block)
         /\ store' = [store EXCEPT ![t] = Append(store[t], v)]
         /\ blocks' = [blocks EXCEPT ![t] = RebuildBlocks(blocks[t], Append(store[t], v))]
    BY <1>1, PushIs
<1> DEFINE vs == Append(store[t], v)
           bs == RebuildBlocks(blocks[t], vs)
<1>3. vs \in Seq(Vec) /\ bs \in Seq(Block) /\ Current(bs, vs)
    BY <1>1, <1>2, RebuildKeepsCurrent
<1> HIDE DEF vs, bs
<1>4. store' = [store EXCEPT ![t] = vs] /\ blocks' = [blocks EXCEPT ![t] = bs]
    BY <1>2 DEF vs, bs
<1>5. store \in [Shard -> Seq(Vec)] /\ blocks \in [Shard -> Seq(Block)]
    BY <1>1 DEF VectorTypeOK
<1>6. store' \in [Shard -> Seq(Vec)] /\ blocks' \in [Shard -> Seq(Block)]
    BY <1>2, <1>3, <1>4, <1>5
<1>7. \A s \in Shard : Current(blocks'[s], store'[s])
    BY <1>1, <1>2, <1>3, <1>4, <1>5
<1>8. BlocksCurrent'
    BY <1>7 DEF BlocksCurrent, Current, BlockCount
<1>9. VectorTypeOK'
    BY <1>1, <1>6 DEF VectorTypeOK, Push, Goto
<1>10. CursorsOK'
    BY <1>1 DEF VectorTypeOK, CursorsOK, Push, Goto
<1> QED
    BY <1>8, <1>9, <1>10 DEF Sound

LEMMA BlocksUnchanged ==
    ASSUME BlocksCurrent, UNCHANGED <<store, blocks>> PROVE BlocksCurrent'
BY DEF BlocksCurrent

LEMMA ClearKeepsBlocks ==
    ASSUME Sound, NEW w \in Worker, ClearShard(w) PROVE BlocksCurrent'
<1>1. /\ store \in [Shard -> Seq(Vec)] /\ blocks \in [Shard -> Seq(Block)]
      /\ cursor[w] \in Shard
      /\ \A s \in Shard : Current(blocks[s], store[s])
    BY BlocksCurrentIs DEF Sound, VectorTypeOK, CursorsOK
<1>2. /\ store' = [store EXCEPT ![cursor[w]] = <<>>]
      /\ blocks' = [blocks EXCEPT ![cursor[w]] = <<>>]
    BY DEF ClearShard
<1>3. \A s \in Shard : Current(blocks'[s], store'[s])
    BY <1>1, <1>2, NoBlocksCurrent
<1> QED
    BY <1>3 DEF BlocksCurrent, Current, BlockCount

LEMMA SoundStep == Sound /\ [VectorNext]_vectorVars => Sound'
<1> SUFFICES ASSUME Sound, [VectorNext]_vectorVars PROVE Sound'
    OBVIOUS
<1>1. VectorTypeOK /\ CursorsOK /\ BlocksCurrent
    BY DEF Sound
<1>2. CASE UNCHANGED vectorVars
    BY <1>1, <1>2 DEF vectorVars, Sound, VectorTypeOK, CursorsOK, BlocksCurrent
<1>3. ASSUME NEW w \in Worker, FetchAdd(w) PROVE Sound'
    BY <1>1, <1>3, SoundFetchAdd, BlocksUnchanged DEF Sound
<1>4. ASSUME NEW w \in Worker, Push(w) PROVE Sound'
    BY <1>4, SoundPush
<1>5. ASSUME NEW w \in Worker, BeginClear(w) PROVE Sound'
    BY <1>1, <1>5, SoundBeginClear, BlocksUnchanged DEF Sound
<1>6. ASSUME NEW w \in Worker, ClearShard(w) PROVE Sound'
    BY <1>1, <1>6, SoundClearShard, ClearKeepsBlocks DEF Sound
<1>7. ASSUME NEW w \in Worker, ResetCounter(w) PROVE Sound'
    BY <1>1, <1>7, SoundResetCounter, BlocksUnchanged DEF Sound
<1>8. ASSUME NEW w \in Worker, BeginSearch(w) PROVE Sound'
    BY <1>1, <1>8, SoundBeginSearch, BlocksUnchanged DEF Sound
<1>9. ASSUME NEW w \in Worker, CountShard(w) PROVE Sound'
    BY <1>1, <1>9, SoundCountShard, BlocksUnchanged DEF Sound
<1>10. ASSUME NEW w \in Worker, ScanShard(w) PROVE Sound'
    BY <1>1, <1>10, SoundScanShard, BlocksUnchanged DEF Sound
<1>11. ASSUME NEW w \in Worker, RerankShard(w) PROVE Sound'
    BY <1>1, <1>11, SoundRerankShard, BlocksUnchanged DEF Sound
<1>12. ASSUME NEW w \in Worker, RerankPanics(w) PROVE Sound'
    BY <1>1, <1>12, SoundRerankPanics, BlocksUnchanged DEF Sound
<1>13. ASSUME NEW w \in Worker, MergeShards(w) PROVE Sound'
    BY <1>1, <1>13, SoundMergeShards, BlocksUnchanged DEF Sound
<1>14. ASSUME NEW w \in Worker, ReadKeys(w) PROVE Sound'
    BY <1>1, <1>14, SoundReadKeys, BlocksUnchanged DEF Sound
<1>15. ASSUME NEW w \in Worker, KeysPanic(w) PROVE Sound'
    BY <1>1, <1>15, SoundKeysPanic, BlocksUnchanged DEF Sound
<1>16. ASSUME NEW w \in Worker, TaskEnds(w) PROVE Sound'
    BY <1>1, <1>16, SoundTaskEnds, BlocksUnchanged DEF Sound
<1> QED
    BY <1>2, <1>3, <1>4, <1>5, <1>6, <1>7, <1>8, <1>9, <1>10, <1>11, <1>12, <1>13, <1>14,
       <1>15, <1>16 DEF VectorNext

LEMMA SoundAlways == VectorSpec => []Sound
<1> QED
    BY SoundInit, SoundStep, PTL DEF VectorSpec

(*****************************************************************************)
(* Every variable keeps its type: in particular a search's candidates are    *)
(* indices, its scores are numbers, and no cursor leaves the shards, however *)
(* adds, searches and FLUSHDBs interleave (vector_store.rs:127-411).         *)
(*****************************************************************************)
THEOREM VectorTypeCorrect == VectorSpec => []VectorTypeOK
<1>1. Sound => VectorTypeOK
    BY DEF Sound
<1> QED
    BY <1>1, SoundAlways, PTL

(*****************************************************************************)
(* rebuild_blocks signs only the block a new vector falls into, and that is  *)
(* enough: the signatures are those of the vectors now in the blocks, for    *)
(* any block size (vector_store.rs:33-61).                                   *)
(*****************************************************************************)
THEOREM BlocksCurrentCorrect == VectorSpec => []BlocksCurrent
<1>1. Sound => BlocksCurrent
    BY DEF Sound
<1> QED
    BY <1>1, SoundAlways, PTL
-----------------------------------------------------------------------------
(*****************************************************************************)
(* The steps of a search, and of the end of a task, leave the vectors and    *)
(* the FLUSHDBs alone.                                                       *)
(*****************************************************************************)
SearchStep(w) ==
    \/ BeginSearch(w) \/ CountShard(w) \/ ScanShard(w)
    \/ RerankShard(w) \/ RerankPanics(w) \/ MergeShards(w)
    \/ ReadKeys(w) \/ KeysPanic(w) \/ TaskEnds(w)

SearchPlace == Place \ {"push", "clear", "reset"}

LEMMA SearchStepIs ==
    ASSUME VectorTypeOK, NEW w \in Worker, SearchStep(w)
    PROVE  /\ UNCHANGED <<store, blocks, counter, adding, target, added, doomed, gone, clears>>
           /\ pc[w] \in SearchPlace /\ pc'[w] \in SearchPlace
           /\ \A u \in Worker \ {w} : pc'[u] = pc[u] /\ cursor'[u] = cursor[u]
<1> USE DEF VectorTypeOK, Goto, SearchPlace, Place
<1>1. CASE BeginSearch(w)
    BY <1>1 DEF BeginSearch
<1>2. CASE CountShard(w)
    BY <1>2 DEF CountShard, Advance
<1>3. CASE ScanShard(w)
    BY <1>3 DEF ScanShard, Advance
<1>4. CASE RerankShard(w)
    BY <1>4 DEF RerankShard, Advance
<1>5. CASE RerankPanics(w)
    BY <1>5 DEF RerankPanics
<1>6. CASE MergeShards(w)
    BY <1>6 DEF MergeShards
<1>7. CASE ReadKeys(w)
    BY <1>7 DEF ReadKeys
<1>8. CASE KeysPanic(w)
    BY <1>8 DEF KeysPanic
<1>9. CASE TaskEnds(w)
    BY <1>9 DEF TaskEnds
<1> QED
    BY <1>1, <1>2, <1>3, <1>4, <1>5, <1>6, <1>7, <1>8, <1>9 DEF SearchStep

(*****************************************************************************)
(* The counter deals: the shard it points at is next, and its share alone    *)
(* grows.                                                                    *)
(*****************************************************************************)
LEMMA DivModIs ==
    ASSUME NEW N \in Nat \ {0}, NEW q \in Nat, NEW r \in 0 .. N - 1
    PROVE  (N * q + r) \div N = q /\ (N * q + r) % N = r
<1> DEFINE a == N * q + r
           p == a \div N
           t == a % N
<1>1. N * q \in Nat /\ N * q = q * N /\ a \in Nat
    OBVIOUS
<1>2. p \in Nat /\ t \in 0 .. N - 1 /\ a = N * p + t
    BY <1>1
<1>3. N * p = p * N /\ N * p \in Nat
    BY <1>2
<1>4. q * N + r = p * N + t
    BY <1>1, <1>2, <1>3
<1> HIDE DEF p, t
<1>5. q * N < p * N + N /\ p * N < q * N + N
    BY <1>1, <1>2, <1>3, <1>4
<1>6. q <= p /\ p <= q
    BY <1>2, <1>5, TimesOrdered
<1>7. p = q
    BY <1>2, <1>6
<1>8. t = r
    <2>1. q * N + r = q * N + t /\ q * N \in Nat
        BY <1>1, <1>4, <1>7
    <2> QED
        BY <1>2, <2>1
<1> QED
    BY <1>7, <1>8 DEF p, t

LEMMA NextShare ==
    ASSUME NEW c \in Nat, NEW s \in Shard
    PROVE  /\ Share(c, s) \in Nat
           /\ Share(c + 1, s) = IF s = c % NumShards THEN Share(c, s) + 1 ELSE Share(c, s)
<1> DEFINE N == NumShards
           q == c \div N
           r == c % N
<1>1. N \in Nat \ {0} /\ s \in 0 .. N - 1
    BY VectorAssumption DEF Shard
<1>2. q \in Nat /\ r \in 0 .. N - 1 /\ c = N * q + r
    BY <1>1
<1>3. CASE r = N - 1
    <2>1. c + 1 = N * (q + 1) + 0 /\ q + 1 \in Nat /\ 0 \in 0 .. N - 1
        BY <1>1, <1>2, <1>3
    <2>2. (c + 1) % N = 0 /\ (c + 1) \div N = q + 1
        <3> HIDE DEF N, q, r
        <3> QED
            BY <1>1, <2>1, DivModIs, SMTT(30)
    <2> HIDE DEF q, r
    <2> QED
        BY <1>1, <1>2, <1>3, <2>2 DEF Share, q, r
<1>4. CASE r # N - 1
    <2>1. c + 1 = N * q + (r + 1) /\ r + 1 \in 0 .. N - 1
        BY <1>1, <1>2, <1>4
    <2> DEFINE t == r + 1
    <2>2. (c + 1) % N = t /\ (c + 1) \div N = q
        <3>1. c + 1 = N * q + t /\ t \in 0 .. N - 1 /\ N \in Nat \ {0} /\ q \in Nat
            BY <1>1, <1>2, <2>1
        <3> HIDE DEF N, q, r, t
        <3> QED
            BY <3>1, DivModIs
    <2> HIDE DEF q, r
    <2> QED
        BY <1>1, <1>2, <1>4, <2>2 DEF Share, q, r
<1> QED
    BY <1>3, <1>4

LEMMA PendingFinite ==
    ASSUME NEW s
    PROVE  IsFiniteSet(Pending(s)) /\ Cardinality(Pending(s)) \in Nat
<1>1. Pending(s) \subseteq Worker /\ IsFiniteSet(Worker)
    BY VectorAssumption DEF Pending
<1> QED
    BY <1>1, FS_Subset, FS_CardinalityType

LEMMA DealtInit == VectorInit => DealtEvenly
<1> SUFFICES ASSUME VectorInit PROVE DealtEvenly
    OBVIOUS
<1>1. ASSUME NEW s \in Shard
      PROVE  Len(store[s]) + Cardinality(Pending(s)) = Share(counter, s)
    <2>1. Len(store[s]) = 0
        BY DEF VectorInit
    <2>2. Pending(s) = {}
        BY DEF VectorInit, Pending
    <2>3. Cardinality(Pending(s)) = 0
        BY <2>2, FS_EmptySet
    <2>4. Share(0, s) = 0
        <3>1. NumShards \in Nat \ {0} /\ s \in 0 .. NumShards - 1
            BY VectorAssumption DEF Shard
        <3>2. 0 % NumShards = 0 /\ 0 \div NumShards = 0
            BY <3>1
        <3> QED
            BY <3>1, <3>2 DEF Share
    <2> QED
        BY <2>1, <2>3, <2>4 DEF VectorInit
<1> QED
    BY <1>1 DEF DealtEvenly, VectorInit

LEMMA DealtFetchAdd ==
    ASSUME Sound, DealtEvenly, NEW w \in Worker, FetchAdd(w)
    PROVE  DealtEvenly'
<1> SUFFICES ASSUME clears' = 0 PROVE DealtEvenly'
    BY DEF DealtEvenly
<1>1. /\ clears = 0 /\ store' = store /\ counter \in Nat /\ counter' = counter + 1
      /\ pc \in [Worker -> Place] /\ target \in [Worker -> Shard]
      /\ pc[w] = "idle" /\ pc' = [pc EXCEPT ![w] = "push"]
      /\ target' = [target EXCEPT ![w] = counter % NumShards]
      /\ store \in [Shard -> Seq(Vec)]
    BY DEF FetchAdd, Sound, VectorTypeOK, Goto, Place
<1>2. \A u \in Worker : pc'[u] \notin {"clear", "reset"}
    BY <1>1 DEF DealtEvenly
<1>3. ASSUME NEW s \in Shard
      PROVE  Len(store'[s]) + Cardinality(Pending(s)') = Share(counter', s)
    <2>1. /\ Len(store[s]) + Cardinality(Pending(s)) = Share(counter, s)
          /\ Len(store[s]) \in Nat
        BY <1>1 DEF DealtEvenly
    <2>2. IsFiniteSet(Pending(s)) /\ Cardinality(Pending(s)) \in Nat
        BY PendingFinite
    <2>3. w \notin Pending(s)
        BY <1>1 DEF Pending
    <2>4. CASE s = counter % NumShards
        <3>1. Pending(s)' = Pending(s) \cup {w}
            BY <1>1, <2>4 DEF Pending
        <3>2. Cardinality(Pending(s)') = Cardinality(Pending(s)) + 1
            BY <3>1, <2>2, <2>3, FS_AddElement
        <3> QED
            BY <1>1, <2>1, <2>2, <2>4, <3>2, NextShare
    <2>5. CASE s # counter % NumShards
        <3>1. Pending(s)' = Pending(s)
            BY <1>1, <2>5 DEF Pending
        <3> QED
            BY <1>1, <2>1, <2>5, <3>1, NextShare
    <2> QED
        BY <2>4, <2>5
<1> QED
    BY <1>2, <1>3 DEF DealtEvenly, Share

LEMMA DealtPush ==
    ASSUME Sound, DealtEvenly, NEW w \in Worker, Push(w)
    PROVE  DealtEvenly'
<1> SUFFICES ASSUME clears' = 0 PROVE DealtEvenly'
    BY DEF DealtEvenly
<1> DEFINE t == target[w]
<1>1. /\ clears = 0 /\ counter' = counter /\ target' = target
      /\ pc \in [Worker -> Place] /\ t \in Shard
      /\ pc[w] = "push" /\ pc' = [pc EXCEPT ![w] = "idle"]
      /\ store \in [Shard -> Seq(Vec)]
    BY DEF Push, Sound, VectorTypeOK, Goto, Place
<1>2. PICK v \in Vec : store' = [store EXCEPT ![t] = Append(store[t], v)]
    BY PushIs DEF Sound
<1>3. \A u \in Worker : pc'[u] \notin {"clear", "reset"}
    BY <1>1 DEF DealtEvenly
<1>4. ASSUME NEW s \in Shard
      PROVE  Len(store'[s]) + Cardinality(Pending(s)') = Len(store[s]) + Cardinality(Pending(s))
    <2>1. IsFiniteSet(Pending(s)) /\ Cardinality(Pending(s)) \in Nat /\ Len(store[s]) \in Nat
        BY <1>1, PendingFinite
    <2>2. CASE s = t
        <3>1. w \in Pending(s) /\ Pending(s)' = Pending(s) \ {w}
            BY <1>1, <2>2 DEF Pending
        <3>2. Cardinality(Pending(s)') = Cardinality(Pending(s)) - 1
            BY <3>1, <2>1, FS_RemoveElement
        <3>3. Len(store'[s]) = Len(store[s]) + 1
            <4>1. store'[s] = Append(store[s], v) /\ store[s] \in Seq(Vec)
                BY <1>1, <1>2, <2>2
            <4> QED
                BY <4>1
        <3> QED
            BY <2>1, <3>2, <3>3
    <2>3. CASE s # t
        <3>1. Pending(s)' = Pending(s)
            BY <1>1, <2>3 DEF Pending
        <3>2. store'[s] = store[s]
            BY <1>1, <1>2, <2>3
        <3> QED
            BY <3>1, <3>2
    <2> QED
        BY <2>2, <2>3
<1> QED
    BY <1>1, <1>3, <1>4 DEF DealtEvenly, Share

LEMMA DealtSearchStep ==
    ASSUME Sound, DealtEvenly, NEW w \in Worker, SearchStep(w)
    PROVE  DealtEvenly'
<1>1. /\ UNCHANGED <<store, counter, target, clears>>
      /\ pc[w] \in SearchPlace /\ pc'[w] \in SearchPlace
      /\ \A u \in Worker \ {w} : pc'[u] = pc[u]
    BY SearchStepIs DEF Sound
<1>2. \A s : Pending(s)' = Pending(s)
    BY <1>1 DEF Pending, SearchPlace
<1>3. (\A u \in Worker : pc[u] \notin {"clear", "reset"})
        => \A u \in Worker : pc'[u] \notin {"clear", "reset"}
    BY <1>1 DEF SearchPlace
<1> QED
    BY <1>1, <1>2, <1>3 DEF DealtEvenly, Share

LEMMA DealtStep == Sound /\ DealtEvenly /\ [VectorNext]_vectorVars => DealtEvenly'
<1> SUFFICES ASSUME Sound, DealtEvenly, [VectorNext]_vectorVars PROVE DealtEvenly'
    OBVIOUS
<1>1. CASE UNCHANGED vectorVars
    <2>1. UNCHANGED <<store, counter, target, clears, pc>>
        BY <1>1 DEF vectorVars
    <2>2. \A s : Pending(s)' = Pending(s)
        BY <2>1 DEF Pending
    <2> QED
        BY <2>1, <2>2 DEF DealtEvenly, Share
<1>2. ASSUME NEW w \in Worker, BeginClear(w) PROVE DealtEvenly'
    BY <1>2 DEF BeginClear, DealtEvenly, Sound, VectorTypeOK
<1>3. ASSUME NEW w \in Worker, ClearShard(w) \/ ResetCounter(w) PROVE DealtEvenly'
    BY <1>3 DEF ClearShard, ResetCounter, DealtEvenly
<1> QED
    BY <1>1, <1>2, <1>3, DealtFetchAdd, DealtPush, DealtSearchStep DEF VectorNext, SearchStep

(*****************************************************************************)
(* Without FLUSHDB the atomic counter deals evenly, though each worker       *)
(* pushes some time after it drew its number: no shard is ahead of another   *)
(* by more than one vector and the adds still under way, for any number of   *)
(* workers and shards (vector_store.rs:178-180).                             *)
(*****************************************************************************)
THEOREM ShardsBalancedCorrect == VectorSpec => []ShardsBalanced
<1>1. VectorInit => Sound /\ DealtEvenly
    BY SoundInit, DealtInit
<1>2. (Sound /\ DealtEvenly) /\ [VectorNext]_vectorVars => (Sound /\ DealtEvenly)'
    BY SoundStep, DealtStep
<1>3. Sound /\ DealtEvenly => ShardsBalanced
    <2> SUFFICES ASSUME Sound, DealtEvenly, clears = 0, NEW s \in Shard, NEW t \in Shard
                 PROVE  Len(store[s]) <= Len(store[t]) + 1 + Cardinality(Pending(t))
        BY DEF ShardsBalanced, Pending
    <2>1. /\ Len(store[s]) + Cardinality(Pending(s)) = Share(counter, s)
          /\ Len(store[t]) + Cardinality(Pending(t)) = Share(counter, t)
        BY DEF DealtEvenly
    <2>2. /\ Cardinality(Pending(s)) \in Nat /\ Cardinality(Pending(t)) \in Nat
          /\ Len(store[s]) \in Nat /\ Len(store[t]) \in Nat /\ counter \in Nat
        BY PendingFinite DEF Sound, VectorTypeOK
    <2>3. counter \div NumShards \in Int
        BY <2>2, VectorAssumption
    <2>4. Share(counter, s) <= Share(counter, t) + 1
        BY <2>3 DEF Share
    <2>5. Share(counter, s) \in Int /\ Share(counter, t) \in Int
        BY <2>3 DEF Share
    <2> QED
        BY <2>1, <2>2, <2>4, <2>5
<1> QED
    BY <1>1, <1>2, <1>3, PTL DEF VectorSpec
-----------------------------------------------------------------------------
(*****************************************************************************)
(* FLUSHDB.                                                                  *)
(*****************************************************************************)
LEMMA StoredIs ==
    ASSUME VectorTypeOK
    PROVE  Stored = UNION {Held(s) : s \in Shard}
<1>1. ASSUME NEW s \in Shard PROVE ToSet(store[s]) = Held(s)
    BY DEF VectorTypeOK, ToSet, Held
<1> QED
    BY <1>1 DEF Stored

LEMMA ClearInit == VectorInit => ClearInv
<1> SUFFICES ASSUME VectorInit PROVE ClearInv
    OBVIOUS
<1>1. \A s \in Shard : Held(s) = {}
    BY DEF VectorInit, Held
<1>2. AddedOnce
    BY <1>1 DEF VectorInit, AddedOnce
<1>3. DoomedGone
    BY DEF VectorInit, DoomedGone
<1> QED
    BY <1>2, <1>3 DEF ClearInv

LEMMA ClearFetchAdd ==
    ASSUME Sound, ClearInv, NEW w \in Worker, FetchAdd(w)
    PROVE  ClearInv'
<1>1. /\ UNCHANGED <<store, cursor, doomed, gone>>
      /\ pc[w] = "idle" /\ pc' = [pc EXCEPT ![w] = "push"] /\ pc \in [Worker -> Place]
      /\ adding \in [Worker -> SUBSET Vec]
    BY DEF FetchAdd, Goto, Sound, VectorTypeOK, Place
<1>2. PICK v \in Vec \ added : adding' = [adding EXCEPT ![w] = {v}] /\ added' = added \cup {v}
    BY DEF FetchAdd
<1>3. \A s : Held(s)' = Held(s)
    BY <1>1 DEF Held
<1>4. AddedOnce /\ DoomedGone
    BY DEF ClearInv
<1>5. AddedOnce'
    <2>1. /\ \A s \in Shard : Held(s)' \subseteq added'
          /\ gone' \subseteq added'
        BY <1>1, <1>2, <1>3, <1>4 DEF AddedOnce
    <2>2. ASSUME NEW u \in Worker
          PROVE  /\ adding'[u] \subseteq added' /\ doomed'[u] \subseteq added'
                 /\ adding'[u] \cap gone' = {}
                 /\ \A s \in Shard : adding'[u] \cap Held(s)' = {}
                 /\ \A x \in Worker : adding'[u] \cap doomed'[x] = {}
        <3>1. adding'[u] = IF u = w THEN {v} ELSE adding[u]
            BY <1>1, <1>2
        <3>2. v \notin added /\ \A x \in Worker : doomed[x] \subseteq added
            BY <1>2, <1>4 DEF AddedOnce
        <3> QED
            BY <1>1, <1>2, <1>3, <1>4, <3>1, <3>2 DEF AddedOnce
    <2>3. ASSUME NEW u \in Worker, NEW x \in Worker, x # u
          PROVE  adding'[u] \cap adding'[x] = {}
        <3>1. /\ adding'[u] = IF u = w THEN {v} ELSE adding[u]
              /\ adding'[x] = IF x = w THEN {v} ELSE adding[x]
            BY <1>1, <1>2
        <3>2. v \notin adding[u] /\ v \notin adding[x] /\ adding[u] \cap adding[x] = {}
            BY <1>2, <1>4, <2>3 DEF AddedOnce
        <3> QED
            BY <2>3, <3>1, <3>2
    <2> QED
        BY <2>1, <2>2, <2>3 DEF AddedOnce, Held
<1>6. DoomedGone'
    BY <1>1, <1>3, <1>4 DEF DoomedGone, Held
<1> QED
    BY <1>5, <1>6 DEF ClearInv

LEMMA ClearPush ==
    ASSUME Sound, ClearInv, NEW w \in Worker, Push(w)
    PROVE  ClearInv'
<1> DEFINE t == target[w]
<1>1. /\ UNCHANGED <<added, cursor, doomed, gone>>
      /\ pc[w] = "push" /\ pc' = [pc EXCEPT ![w] = "idle"] /\ pc \in [Worker -> Place]
      /\ adding \in [Worker -> SUBSET Vec] /\ adding' = [adding EXCEPT ![w] = {}]
      /\ store \in [Shard -> Seq(Vec)]
    BY DEF Push, Goto, Sound, VectorTypeOK, Place
<1>2. PICK v \in Vec : /\ v \in adding[w] /\ t \in Shard
                       /\ store' = [store EXCEPT ![t] = Append(store[t], v)]
    BY PushIs DEF Sound
<1>3. ASSUME NEW s \in Shard
      PROVE  Held(s)' = IF s = t THEN Held(s) \cup {v} ELSE Held(s)
    <2>1. CASE s # t
        BY <1>1, <1>2, <2>1 DEF Held
    <2>2. CASE s = t
        <3>1. store[s] \in Seq(Vec) /\ store'[s] = Append(store[s], v)
            BY <1>1, <1>2, <2>2
        <3>2. /\ Len(store'[s]) = Len(store[s]) + 1 /\ Len(store[s]) \in Nat
              /\ \A i \in 1 .. Len(store[s]) : store'[s][i] = store[s][i]
              /\ store'[s][Len(store[s]) + 1] = v
            BY <3>1, AppendElements
        <3>3. Held(s)' = {store'[s][i] : i \in 1 .. Len(store[s]) + 1}
            BY <3>2 DEF Held
        <3>4. {store'[s][i] : i \in 1 .. Len(store[s]) + 1} = Held(s) \cup {v}
            BY <3>2 DEF Held
        <3> QED
            BY <2>2, <3>3, <3>4
    <2> QED
        BY <2>1, <2>2
<1>4. AddedOnce /\ DoomedGone
    BY DEF ClearInv
<1>5. AddedOnce'
    <2>1. v \in added
        BY <1>2, <1>4 DEF AddedOnce
    <2>2. /\ \A s \in Shard : Held(s)' \subseteq added'
          /\ gone' \subseteq added'
        BY <1>1, <1>3, <1>4, <2>1 DEF AddedOnce
    <2>3. ASSUME NEW u \in Worker
          PROVE  /\ adding'[u] \subseteq added' /\ doomed'[u] \subseteq added'
                 /\ adding'[u] \cap gone' = {}
                 /\ \A s \in Shard : adding'[u] \cap Held(s)' = {}
                 /\ \A x \in Worker : adding'[u] \cap doomed'[x] = {}
                 /\ \A x \in Worker : x # u => adding'[u] \cap adding'[x] = {}
        <3>1. \A x \in Worker : adding'[x] = IF x = w THEN {} ELSE adding[x]
            BY <1>1
        <3>2. u # w => v \notin adding[u]
            BY <1>2, <1>4 DEF AddedOnce
        <3> QED
            BY <1>1, <1>3, <1>4, <3>1, <3>2 DEF AddedOnce
    <2> QED
        BY <2>2, <2>3 DEF AddedOnce, Held
<1>6. DoomedGone'
    <2>1. v \notin gone /\ \A u \in Worker : v \notin doomed[u]
        BY <1>2, <1>4 DEF AddedOnce
    <2>2. \A s \in Shard : gone' \cap Held(s)' = {}
        BY <1>1, <1>3, <1>4, <2>1 DEF DoomedGone
    <2>3. ASSUME NEW u \in Worker, NEW s \in Shard,
                 (pc'[u] = "clear" /\ s < cursor'[u]) \/ pc'[u] = "reset"
          PROVE  doomed'[u] \cap Held(s)' = {}
        <3>1. (pc[u] = "clear" /\ s < cursor[u]) \/ pc[u] = "reset"
            BY <1>1, <2>3
        <3>2. doomed[u] \cap Held(s) = {}
            BY <1>4, <3>1 DEF DoomedGone
        <3> QED
            BY <1>1, <1>3, <2>1, <3>2
    <2> QED
        BY <2>2, <2>3 DEF DoomedGone, Held
<1> QED
    BY <1>5, <1>6 DEF ClearInv

LEMMA ClearBegins ==
    ASSUME Sound, ClearInv, NEW w \in Worker, BeginClear(w)
    PROVE  ClearInv'
<1>1. /\ UNCHANGED <<store, added, adding, cursor, gone>>
      /\ pc[w] = "idle" /\ pc' = [pc EXCEPT ![w] = "clear"] /\ pc \in [Worker -> Place]
      /\ doomed' = [doomed EXCEPT ![w] = Stored] /\ doomed \in [Worker -> SUBSET Vec]
      /\ cursor[w] = 0
    BY DEF BeginClear, Goto, Sound, VectorTypeOK, CursorsOK, Place
<1>2. \A s : Held(s)' = Held(s)
    BY <1>1 DEF Held
<1>3. Stored = UNION {Held(s) : s \in Shard}
    BY StoredIs DEF Sound
<1>4. AddedOnce /\ DoomedGone
    BY DEF ClearInv
<1>5. \A x \in Worker : doomed'[x] = IF x = w THEN Stored ELSE doomed[x]
    BY <1>1
<1>6. AddedOnce'
    <2>1. Stored \subseteq added /\ \A u \in Worker : adding[u] \cap Stored = {}
        BY <1>3, <1>4 DEF AddedOnce
    <2>2. ASSUME NEW u \in Worker
          PROVE  doomed'[u] \subseteq added /\ \A x \in Worker : adding[u] \cap doomed'[x] = {}
        BY <1>4, <1>5, <2>1 DEF AddedOnce
    <2> QED
        BY <1>1, <1>2, <1>4, <2>2 DEF AddedOnce, Held
<1>7. DoomedGone'
    <2>1. ASSUME NEW u \in Worker, NEW s \in Shard,
                 (pc'[u] = "clear" /\ s < cursor'[u]) \/ pc'[u] = "reset"
          PROVE  doomed'[u] \cap Held(s)' = {}
        <3>1. CASE u = w
            <4>1. ~ s < cursor'[u] /\ pc'[u] = "clear"
                BY <1>1, <3>1, ShardFacts
            <4> QED
                BY <2>1, <4>1
        <3>2. CASE u # w
            BY <1>1, <1>2, <1>4, <1>5, <2>1, <3>2 DEF DoomedGone
        <3> QED
            BY <3>1, <3>2
    <2> QED
        BY <1>1, <1>2, <1>4, <2>1 DEF DoomedGone, Held
<1> QED
    BY <1>6, <1>7 DEF ClearInv

LEMMA ClearClearShard ==
    ASSUME Sound, ClearInv, NEW w \in Worker, ClearShard(w)
    PROVE  ClearInv'
<1> DEFINE c == cursor[w]
<1>1. /\ UNCHANGED <<added, adding, doomed, gone>>
      /\ c \in 0 .. NumShards - 1 /\ NumShards \in Nat
      /\ pc[w] = "clear" /\ pc \in [Worker -> Place] /\ cursor \in [Worker -> 0 .. NumShards]
      /\ store \in [Shard -> Seq(Vec)] /\ store' = [store EXCEPT ![c] = <<>>]
    BY VectorAssumption DEF ClearShard, Sound, VectorTypeOK, CursorsOK, Place, Shard
<1>2. ASSUME NEW s \in Shard PROVE Held(s)' = IF s = c THEN {} ELSE Held(s)
    <2>1. CASE s = c
        <3>1. store'[s] = <<>>
            BY <1>1, <2>1
        <3>2. Len(store'[s]) = 0
            BY <3>1
        <3> QED
            BY <2>1, <3>2 DEF Held
    <2>2. CASE s # c
        BY <1>1, <2>2 DEF Held
    <2> QED
        BY <2>1, <2>2
<1>3. AddedOnce /\ DoomedGone
    BY DEF ClearInv
<1>4. AddedOnce'
    BY <1>1, <1>2, <1>3 DEF AddedOnce, Held
<1>5. \A u \in Worker \ {w} : pc'[u] = pc[u] /\ cursor'[u] = cursor[u]
    BY <1>1 DEF ClearShard, Advance, Goto
<1>6. \/ c + 1 = NumShards /\ pc'[w] = "reset"
      \/ c + 1 # NumShards /\ pc'[w] = "clear" /\ cursor'[w] = c + 1
    BY <1>1 DEF ClearShard, Advance, Goto
<1>7. DoomedGone'
    <2>1. ASSUME NEW s \in Shard PROVE gone' \cap Held(s)' = {}
        BY <1>1, <1>2, <1>3 DEF DoomedGone
    <2>2. ASSUME NEW u \in Worker, NEW s \in Shard,
                 (pc'[u] = "clear" /\ s < cursor'[u]) \/ pc'[u] = "reset"
          PROVE  doomed'[u] \cap Held(s)' = {}
        <3>1. CASE u # w
            <4>1. doomed[u] \cap Held(s) = {}
                BY <1>3, <1>5, <2>2, <3>1 DEF DoomedGone
            <4> QED
                BY <1>1, <1>2, <4>1
        <3>2. CASE u = w
            <4>1. s <= c /\ s \in Int
                BY <1>1, <1>6, <2>2, <3>2 DEF Shard
            <4>2. CASE s = c
                BY <1>2, <4>2
            <4>3. CASE s # c
                <5>1. s < c
                    BY <1>1, <4>1, <4>3
                <5>2. doomed[w] \cap Held(s) = {}
                    BY <1>1, <1>3, <5>1 DEF DoomedGone
                <5> QED
                    BY <1>1, <1>2, <3>2, <5>2
            <4> QED
                BY <4>2, <4>3
        <3> QED
            BY <3>1, <3>2
    <2> QED
        BY <2>1, <2>2 DEF DoomedGone, Held
<1> QED
    BY <1>4, <1>7 DEF ClearInv

LEMMA ClearResetCounter ==
    ASSUME Sound, ClearInv, NEW w \in Worker, ResetCounter(w)
    PROVE  ClearInv'
<1>1. /\ UNCHANGED <<store, added, adding, cursor, doomed>>
      /\ pc[w] = "reset" /\ pc' = [pc EXCEPT ![w] = "idle"] /\ pc \in [Worker -> Place]
      /\ gone' = gone \cup doomed[w]
    BY DEF ResetCounter, Goto, Sound, VectorTypeOK, Place
<1>2. \A s : Held(s)' = Held(s)
    BY <1>1 DEF Held
<1>3. AddedOnce /\ DoomedGone
    BY DEF ClearInv
<1>4. AddedOnce'
    BY <1>1, <1>2, <1>3 DEF AddedOnce, Held
<1>5. \A s \in Shard : gone' \cap Held(s)' = {}
    BY <1>1, <1>2, <1>3 DEF DoomedGone
<1>6. DoomedGone'
    BY <1>1, <1>2, <1>3, <1>5 DEF DoomedGone, Held
<1> QED
    BY <1>4, <1>6 DEF ClearInv

LEMMA ClearSearchStep ==
    ASSUME Sound, ClearInv, NEW w \in Worker, SearchStep(w)
    PROVE  ClearInv'
<1>1. /\ UNCHANGED <<store, added, adding, doomed, gone>>
      /\ pc'[w] \in SearchPlace
      /\ \A u \in Worker \ {w} : pc'[u] = pc[u] /\ cursor'[u] = cursor[u]
    BY SearchStepIs DEF Sound
<1>2. \A s : Held(s)' = Held(s)
    BY <1>1 DEF Held
<1>3. AddedOnce'
    BY <1>1, <1>2 DEF ClearInv, AddedOnce, Held
<1>4. \A u \in Worker : pc'[u] \in {"clear", "reset"} => pc'[u] = pc[u] /\ cursor'[u] = cursor[u]
    BY <1>1 DEF SearchPlace
<1>5. DoomedGone'
    BY <1>1, <1>2, <1>4 DEF ClearInv, DoomedGone, Held
<1> QED
    BY <1>3, <1>5 DEF ClearInv

LEMMA ClearStep == Sound /\ ClearInv /\ [VectorNext]_vectorVars => ClearInv'
<1> SUFFICES ASSUME Sound, ClearInv, [VectorNext]_vectorVars PROVE ClearInv'
    OBVIOUS
<1>1. CASE UNCHANGED vectorVars
    BY <1>1 DEF vectorVars, ClearInv, AddedOnce, DoomedGone, Held
<1> QED
    BY <1>1, ClearFetchAdd, ClearPush, ClearBegins, ClearClearShard, ClearResetCounter,
       ClearSearchStep DEF VectorNext, SearchStep

(*****************************************************************************)
(* What a FLUSHDB found when it began is gone when it is over and does not   *)
(* come back, though it clears one shard at a time while other workers add   *)
(* and others clear (vector_store.rs:400-410).                               *)
(*****************************************************************************)
THEOREM ClearedStaysClearedCorrect == VectorSpec => []ClearedStaysCleared
<1>1. VectorInit => Sound /\ ClearInv
    BY SoundInit, ClearInit
<1>2. (Sound /\ ClearInv) /\ [VectorNext]_vectorVars => (Sound /\ ClearInv)'
    BY SoundStep, ClearStep
<1>3. Sound /\ ClearInv => ClearedStaysCleared
    <2> SUFFICES ASSUME Sound, ClearInv PROVE gone \cap Stored = {}
        BY DEF ClearedStaysCleared
    <2>1. Stored = UNION {Held(s) : s \in Shard}
        BY StoredIs DEF Sound
    <2> QED
        BY <2>1 DEF ClearInv, DoomedGone
<1> QED
    BY <1>1, <1>2, <1>3, PTL DEF VectorSpec
-----------------------------------------------------------------------------
(*****************************************************************************)
(* A search no FLUSHDB overlaps.                                             *)
(*****************************************************************************)
Grows ==
    \A s \in Shard :
        /\ Len(store[s]) <= Len(store'[s])
        /\ \A i \in 1 .. Len(store[s]) : store'[s][i] = store[s][i]

LEMMA PushGrows ==
    ASSUME VectorTypeOK, NEW w \in Worker, Push(w)
    PROVE  Grows
<1>1. PICK v \in Vec :
         /\ target[w] \in Shard /\ store[target[w]] \in Seq(Vec)
         /\ store' = [store EXCEPT ![target[w]] = Append(store[target[w]], v)]
    BY PushIs
<1>2. store \in [Shard -> Seq(Vec)]
    BY DEF VectorTypeOK
<1> SUFFICES ASSUME NEW s \in Shard
             PROVE  /\ Len(store[s]) <= Len(store'[s])
                    /\ \A i \in 1 .. Len(store[s]) : store'[s][i] = store[s][i]
    BY DEF Grows
<1>3. CASE s = target[w]
    <2>1. store[s] \in Seq(Vec) /\ store'[s] = Append(store[s], v)
        BY <1>1, <1>2, <1>3
    <2> QED
        BY <2>1
<1>4. CASE s # target[w]
    <2>1. store'[s] = store[s] /\ store[s] \in Seq(Vec)
        BY <1>1, <1>2, <1>4
    <2> QED
        BY <2>1
<1> QED
    BY <1>3, <1>4

LEMMA SameGrows ==
    ASSUME VectorTypeOK, UNCHANGED store
    PROVE  Grows
BY DEF VectorTypeOK, Grows

(*****************************************************************************)
(* What a step must do for the search of a worker to stay sound.             *)
(*****************************************************************************)
LEMMA CalmKept ==
    ASSUME Sound, Sound', CalmInv, Grows, NEW w \in Worker,
           calm'[w] => calm[w],
           calm[w] => \A u \in Worker : pc'[u] # "clear",
           calm[w] => pc'[w] # "panicked",
           calm[w] => CandidatesIn(w)',
           calm[w] => \A c \in ranked'[w] : c \in ranked[w] \/ Points(c)',
           calm[w] => \A x \in result'[w] : x \in result[w] \/ x.score = Score[x.vec]
    PROVE  CalmSearch(w)'
<1> SUFFICES ASSUME calm'[w] PROVE CalmSearch(w)'
    BY DEF CalmSearch
<1>1. /\ calm[w]
      /\ \A c \in ranked[w] : Points(c)
      /\ \A x \in result[w] : x.score = Score[x.vec]
    BY DEF CalmInv, CalmSearch
<1>2. ASSUME NEW c \in ranked[w] PROVE Points(c)'
    <2>1. c.shard \in Shard /\ c.idx \in 1 .. Len(store[c.shard])
          /\ c.score = Score[store[c.shard][c.idx]]
        <3>1. c \in Candidate
            BY DEF Sound, VectorTypeOK
        <3> QED
            BY <1>1, <3>1 DEF Points, Candidate
    <2>2. Len(store[c.shard]) \in Nat /\ Len(store'[c.shard]) \in Nat
        <3>1. store \in [Shard -> Seq(Vec)] /\ store' \in [Shard -> Seq(Vec)]
            BY DEF Sound, VectorTypeOK
        <3> QED
            BY <2>1, <3>1
    <2>3. /\ Len(store[c.shard]) <= Len(store'[c.shard])
          /\ store'[c.shard][c.idx] = store[c.shard][c.idx]
        BY <2>1 DEF Grows
    <2> QED
        BY <2>1, <2>2, <2>3 DEF Points
<1>3. \A c \in ranked'[w] : Points(c)'
    BY <1>1, <1>2
<1> QED
    BY <1>1, <1>3 DEF CalmSearch

LEMMA CandidatesKept ==
    ASSUME Sound, Sound', Grows, NEW w \in Worker, CandidatesIn(w),
           pc'[w] = pc[w], cursor'[w] = cursor[w], cand'[w] = cand[w]
    PROVE  CandidatesIn(w)'
<1> SUFFICES ASSUME NEW s \in Shard,
                    (pc'[w] = "scan" /\ s < cursor'[w]) \/ pc'[w] = "rerank"
             PROVE  cand'[w][s] \subseteq 1 .. Len(store'[s])
    BY DEF CandidatesIn
<1>1. cand[w][s] \subseteq 1 .. Len(store[s])
    BY DEF CandidatesIn
<1>2. Len(store[s]) \in Nat /\ Len(store'[s]) \in Nat /\ Len(store[s]) <= Len(store'[s])
    <2>1. store \in [Shard -> Seq(Vec)] /\ store' \in [Shard -> Seq(Vec)]
        BY DEF Sound, VectorTypeOK
    <2> QED
        BY <2>1 DEF Grows
<1> QED
    BY <1>1, <1>2

\* the searches of the other workers
LEMMA CalmOthers ==
    ASSUME Sound, Sound', CalmInv, Grows, NEW w \in Worker, NEW u \in Worker \ {w},
           calm'[u] => calm[u],
           \A x \in Worker \ {w} : pc'[x] = pc[x], pc'[w] = "clear" => pc[w] = "clear",
           cursor'[u] = cursor[u], cand'[u] = cand[u],
           ranked'[u] = ranked[u], result'[u] = result[u]
    PROVE  CalmSearch(u)'
<1>1. calm[u] => /\ \A x \in Worker : pc[x] # "clear"
                 /\ pc[u] # "panicked" /\ CandidatesIn(u)
    BY DEF CalmInv, CalmSearch
<1>2. calm[u] => \A x \in Worker : pc'[x] # "clear"
    BY <1>1
<1>3. pc'[u] = pc[u]
    OBVIOUS
<1>4. calm[u] => CandidatesIn(u)'
    BY <1>1, <1>3, CandidatesKept
<1> QED
    BY <1>1, <1>2, <1>3, <1>4, CalmKept

\* the steps that are not a search's
LEMMA CalmPlainStep ==
    ASSUME Sound, Sound', CalmInv, NEW w \in Worker,
           FetchAdd(w) \/ Push(w) \/ ResetCounter(w)
    PROVE  CalmInv'
<1>1. Grows
    BY PushGrows, SameGrows DEF Sound, FetchAdd, ResetCounter
<1>2. /\ UNCHANGED <<cursor, cand, ranked, result, calm>>
      /\ \A x \in Worker \ {w} : pc'[x] = pc[x]
      /\ pc'[w] \in {"push", "idle"}
    BY DEF FetchAdd, Push, ResetCounter, Goto, Sound, VectorTypeOK
<1>3. ASSUME NEW u \in Worker \ {w} PROVE CalmSearch(u)'
    BY <1>1, <1>2, CalmOthers
<1>4. CalmSearch(w)'
    <2>1. calm[w] => \A x \in Worker : pc'[x] # "clear"
        BY <1>2 DEF CalmInv, CalmSearch
    <2>2. CandidatesIn(w)'
        BY <1>2 DEF CandidatesIn
    <2> QED
        BY <1>1, <1>2, <2>1, <2>2, CalmKept
<1> QED
    BY <1>3, <1>4 DEF CalmInv

LEMMA ClearEndsCalm ==
    ASSUME CalmInv, NEW w \in Worker, BeginClear(w) \/ ClearShard(w)
    PROVE  \A u \in Worker : ~ calm'[u]
<1>1. CASE BeginClear(w)
    BY <1>1 DEF BeginClear
<1>2. CASE ClearShard(w)
    BY <1>2 DEF ClearShard, CalmInv, CalmSearch
<1> QED
    BY <1>1, <1>2

LEMMA CalmClearStep ==
    ASSUME Sound, CalmInv, NEW w \in Worker, BeginClear(w) \/ ClearShard(w)
    PROVE  CalmInv'
BY ClearEndsCalm DEF CalmInv, CalmSearch

\* of a search's own steps, what it does to the other searches
LEMMA OthersUntouched ==
    ASSUME VectorTypeOK, NEW w \in Worker, SearchStep(w), NEW u \in Worker \ {w}
    PROVE  /\ calm'[u] = calm[u] /\ cand'[u] = cand[u] /\ ranked'[u] = ranked[u]
           /\ result'[u] = result[u] /\ total'[u] = total[u] /\ skipped'[u] = skipped[u]
           /\ atStart'[u] = atStart[u]
<1> USE DEF VectorTypeOK
<1>1. CASE BeginSearch(w)
    BY <1>1 DEF BeginSearch
<1>2. CASE CountShard(w)
    BY <1>2 DEF CountShard
<1>3. CASE ScanShard(w)
    BY <1>3 DEF ScanShard
<1>4. CASE RerankShard(w)
    BY <1>4 DEF RerankShard
<1>5. CASE RerankPanics(w)
    BY <1>5 DEF RerankPanics
<1>6. CASE MergeShards(w)
    BY <1>6 DEF MergeShards
<1>7. CASE ReadKeys(w)
    BY <1>7 DEF ReadKeys
<1>8. CASE KeysPanic(w)
    BY <1>8 DEF KeysPanic
<1>9. CASE TaskEnds(w)
    BY <1>9 DEF TaskEnds
<1> QED
    BY <1>1, <1>2, <1>3, <1>4, <1>5, <1>6, <1>7, <1>8, <1>9 DEF SearchStep

LEMMA CalmSearchStepOthers ==
    ASSUME Sound, Sound', CalmInv, NEW w \in Worker, SearchStep(w), NEW u \in Worker \ {w}
    PROVE  CalmSearch(u)'
<1>1. /\ UNCHANGED store
      /\ pc'[w] \in SearchPlace
      /\ \A x \in Worker \ {w} : pc'[x] = pc[x] /\ cursor'[x] = cursor[x]
    BY SearchStepIs DEF Sound
<1>2. Grows
    BY <1>1, SameGrows DEF Sound
<1>3. calm'[u] = calm[u] /\ cand'[u] = cand[u] /\ ranked'[u] = ranked[u] /\ result'[u] = result[u]
    BY OthersUntouched DEF Sound
<1> QED
    BY <1>1, <1>2, <1>3, CalmOthers DEF SearchPlace

LEMMA CalmBeginSearch ==
    ASSUME Sound, NEW w \in Worker, BeginSearch(w)
    PROVE  CalmSearch(w)'
<1>1. /\ calm'[w] => \A u \in Worker : pc[u] # "clear"
      /\ \A u \in Worker : pc'[u] = IF u = w THEN "len" ELSE pc[u]
      /\ ranked'[w] = {} /\ result'[w] = {}
    BY DEF BeginSearch, Goto, Sound, VectorTypeOK
<1>2. CandidatesIn(w)'
    BY <1>1 DEF CandidatesIn
<1> QED
    BY <1>1, <1>2 DEF CalmSearch

LEMMA CalmCountShard ==
    ASSUME Sound, Sound', CalmInv, Grows, NEW w \in Worker, CountShard(w),
           calm[w] => \A u \in Worker : pc'[u] # "clear"
    PROVE  CalmSearch(w)'
<1>1. /\ pc[w] = "len" /\ UNCHANGED <<calm, ranked, result>>
      /\ \/ pc'[w] \in {"idle", "len"}
         \/ pc'[w] = "scan" /\ cursor'[w] = 0
    BY DEF CountShard, Advance, Goto, Sound, VectorTypeOK
<1>2. CandidatesIn(w)'
    <2>1. \A s \in Shard : ~ s < 0
        BY VectorAssumption DEF Shard
    <2> QED
        BY <1>1, <2>1 DEF CandidatesIn
<1> QED
    BY <1>1, <1>2, CalmKept

LEMMA CalmScanShard ==
    ASSUME Sound, Sound', CalmInv, Grows, NEW w \in Worker, ScanShard(w),
           calm[w] => \A u \in Worker : pc'[u] # "clear"
    PROVE  CalmSearch(w)'
<1> DEFINE c == cursor[w]
           n == Len(store[c])
<1>1. /\ pc[w] = "scan" /\ UNCHANGED <<store, blocks, calm, ranked, result>>
      /\ \/ pc'[w] = "scan" /\ cursor'[w] = c + 1 /\ c + 1 # NumShards
         \/ pc'[w] = "rerank" /\ c + 1 = NumShards
    BY DEF ScanShard, Advance, Goto, Sound, VectorTypeOK
<1>2. /\ c \in Shard /\ store[c] \in Seq(Vec) /\ blocks[c] \in Seq(Block) /\ n \in Nat
      /\ Current(blocks[c], store[c])
    BY BlocksCurrentIs DEF Sound, VectorTypeOK, CursorsOK
<1>3. PICK order \in ScanOrders(blocks[c]) :
         cand' = [cand EXCEPT ![w][c] =
                    HeapOf(store[c], blocks[c], order, PerShard(total[w])).heap]
    BY DEF ScanShard
<1> DEFINE heap == HeapOf(store[c], blocks[c], order, PerShard(total[w])).heap
<1>4. heap \subseteq 1 .. n
    <2>1. order \in [1 .. Len(blocks[c]) -> 1 .. Len(blocks[c])]
        BY DEF ScanOrders
    <2>2. \A k \in 1 .. Len(blocks[c]) :
             blocks[c][k].start <= blocks[c][k].end /\ blocks[c][k].end <= n
        BY <1>2, CurrentBlocks
    <2> HIDE DEF n
    <2> QED
        BY <1>2, <2>1, <2>2, HeapOfIn
<1>5. \A s \in Shard : cand'[w][s] = IF s = c THEN heap ELSE cand[w][s]
    <2>1. cand \in [Worker -> [Shard -> SUBSET Nat]]
        BY DEF Sound, VectorTypeOK
    <2> HIDE DEF c, heap
    <2> QED
        BY <1>2, <1>3, <2>1 DEF heap
<1>6. ASSUME calm[w] PROVE CandidatesIn(w)'
    <2> SUFFICES ASSUME NEW s \in Shard,
                        (pc'[w] = "scan" /\ s < cursor'[w]) \/ pc'[w] = "rerank"
                 PROVE  cand'[w][s] \subseteq 1 .. Len(store'[s])
        BY DEF CandidatesIn
    <2>1. CASE s = c
        BY <1>1, <1>4, <1>5, <2>1
    <2>2. CASE s # c
        <3>1. s < c
            BY <1>1, <1>2, <2>2, ShardFacts DEF Shard
        <3>2. cand[w][s] \subseteq 1 .. Len(store[s])
            BY <1>1, <1>6, <3>1 DEF CalmInv, CalmSearch, CandidatesIn
        <3> QED
            BY <1>1, <1>5, <2>2, <3>2
    <2> QED
        BY <2>1, <2>2
<1> QED
    BY <1>1, <1>6, CalmKept

LEMMA CalmRerankShard ==
    ASSUME Sound, Sound', CalmInv, Grows, NEW w \in Worker, RerankShard(w),
           calm[w] => \A u \in Worker : pc'[u] # "clear"
    PROVE  CalmSearch(w)'
<1> DEFINE c == cursor[w]
           idxs == cand[w][c]
<1>1. /\ pc[w] = "rerank" /\ UNCHANGED <<store, cand, calm, result>>
      /\ pc'[w] \in {"rerank", "merge"}
      /\ idxs \subseteq 1 .. Len(store[c])
    BY DEF RerankShard, InRange, Advance, Goto, Sound, VectorTypeOK
<1>2. PICK best \in SUBSET Scored(c, idxs) : ranked'[w] = ranked[w] \cup best
    BY DEF RerankShard, Sound, VectorTypeOK
<1>3. ASSUME NEW x \in ranked'[w] PROVE x \in ranked[w] \/ Points(x)'
    <2>1. CASE x \in best
        <3>1. PICK i \in idxs : x = [shard |-> c, idx |-> i, score |-> Score[store[c][i]]]
            BY <2>1 DEF Scored
        <3>2. x.shard = c /\ x.idx = i /\ x.score = Score[store[c][i]]
            BY <3>1
        <3> QED
            BY <1>1, <3>1, <3>2 DEF Points, Score, DotProduct
    <2> QED
        BY <1>2, <2>1
<1>4. calm[w] => CandidatesIn(w)'
    BY <1>1 DEF CalmInv, CalmSearch, CandidatesIn
<1> QED
    BY <1>1, <1>3, <1>4, CalmKept

LEMMA CalmMergeShards ==
    ASSUME Sound, Sound', CalmInv, Grows, NEW w \in Worker, MergeShards(w),
           calm[w] => \A u \in Worker : pc'[u] # "clear"
    PROVE  CalmSearch(w)'
<1>1. /\ UNCHANGED <<calm, result>> /\ pc'[w] = "keys" /\ ranked'[w] \subseteq ranked[w]
    BY DEF MergeShards, Goto, Sound, VectorTypeOK
<1>2. CandidatesIn(w)'
    BY <1>1 DEF CandidatesIn
<1> QED
    BY <1>1, <1>2, CalmKept

LEMMA CalmReadKeys ==
    ASSUME Sound, Sound', CalmInv, Grows, NEW w \in Worker, ReadKeys(w),
           calm[w] => \A u \in Worker : pc'[u] # "clear"
    PROVE  CalmSearch(w)'
<1>1. /\ UNCHANGED <<calm, ranked>> /\ pc'[w] = "idle"
      /\ result'[w] = {[vec |-> store[c.shard][c.idx], score |-> c.score] : c \in ranked[w]}
    BY DEF ReadKeys, Goto, Sound, VectorTypeOK
<1>2. ASSUME calm[w], NEW x \in result'[w] PROVE x.score = Score[x.vec]
    <2>1. PICK c \in ranked[w] : x = [vec |-> store[c.shard][c.idx], score |-> c.score]
        BY <1>1
    <2>2. c.score = Score[store[c.shard][c.idx]]
        BY <1>2 DEF CalmInv, CalmSearch, Points
    <2> QED
        BY <2>1, <2>2
<1>3. CandidatesIn(w)'
    BY <1>1 DEF CandidatesIn
<1> QED
    BY <1>1, <1>2, <1>3, CalmKept

LEMMA PanicsNotCalm ==
    ASSUME Sound, CalmInv, NEW w \in Worker, RerankPanics(w) \/ KeysPanic(w) \/ TaskEnds(w)
    PROVE  ~ calm'[w]
<1>1. calm' = calm
    BY DEF RerankPanics, KeysPanic, TaskEnds
<1>2. ~ calm[w]
    <2> SUFFICES ASSUME calm[w] PROVE FALSE
        OBVIOUS
    <2>1. /\ pc[w] # "panicked" /\ CandidatesIn(w)
          /\ \A c \in ranked[w] : c.idx \in 1 .. Len(store[c.shard])
        BY DEF CalmInv, CalmSearch, Points
    <2>2. cursor[w] \in Shard
        BY DEF Sound, CursorsOK
    <2> QED
        BY <2>1, <2>2 DEF RerankPanics, KeysPanic, TaskEnds, CandidatesIn, KeysInRange, InRange
<1> QED
    BY <1>1, <1>2

LEMMA CalmPanics ==
    ASSUME Sound, CalmInv, NEW w \in Worker, RerankPanics(w) \/ KeysPanic(w) \/ TaskEnds(w)
    PROVE  CalmSearch(w)'
BY PanicsNotCalm DEF CalmSearch

LEMMA CalmStep == Sound /\ Sound' /\ CalmInv /\ [VectorNext]_vectorVars => CalmInv'
<1> SUFFICES ASSUME Sound, Sound', CalmInv, [VectorNext]_vectorVars PROVE CalmInv'
    OBVIOUS
<1>1. CASE UNCHANGED vectorVars
    <2>1. UNCHANGED <<store, pc, cursor, cand, ranked, result, calm>>
        BY <1>1 DEF vectorVars
    <2> QED
        BY <2>1 DEF CalmInv, CalmSearch, CandidatesIn, Points, Score, DotProduct
<1>2. ASSUME NEW w \in Worker, SearchStep(w) PROVE CalmInv'
    <2>1. UNCHANGED store /\ pc'[w] \in SearchPlace /\ \A x \in Worker \ {w} : pc'[x] = pc[x]
        BY <1>2, SearchStepIs DEF Sound
    <2>2. Grows
        BY <2>1, SameGrows DEF Sound
    <2>3. calm[w] => \A u \in Worker : pc'[u] # "clear"
        BY <2>1 DEF CalmInv, CalmSearch, SearchPlace
    <2>4. CalmSearch(w)'
        BY <1>2, <2>2, <2>3, CalmBeginSearch, CalmCountShard, CalmScanShard, CalmRerankShard,
           CalmMergeShards, CalmReadKeys, CalmPanics DEF SearchStep
    <2> QED
        BY <1>2, <2>4, CalmSearchStepOthers DEF CalmInv
<1> QED
    BY <1>1, <1>2, CalmPlainStep, CalmClearStep DEF VectorNext, SearchStep

LEMMA CalmAlways == VectorSpec => [](Sound /\ CalmInv)
<1>1. VectorInit => Sound /\ CalmInv
    <2>1. VectorInit => CalmInv
        BY DEF VectorInit, CalmInv, CalmSearch, CandidatesIn
    <2> QED
        BY <2>1, SoundInit
<1>2. (Sound /\ CalmInv) /\ [VectorNext]_vectorVars => (Sound /\ CalmInv)'
    BY SoundStep, CalmStep
<1> QED
    BY <1>1, <1>2, PTL DEF VectorSpec

(*****************************************************************************)
(* A search that no FLUSHDB overlaps never reads past the end of a shard,    *)
(* though it holds no lock between the scan, the rerank and the reading of   *)
(* the keys, and others add meanwhile (vector_store.rs:343, 382).            *)
(*****************************************************************************)
THEOREM NoPanicCorrect == VectorSpec => []NoPanic
<1>1. Sound /\ CalmInv => NoPanic
    BY DEF CalmInv, CalmSearch, NoPanic
<1> QED
    BY <1>1, CalmAlways, PTL

(*****************************************************************************)
(* And every score it returns is the score of the key beside it, though keys *)
(* and scores are read under different locks (vector_store.rs:339-383).      *)
(*****************************************************************************)
THEOREM ScoresBelongToKeysCorrect == VectorSpec => []ScoresBelongToKeys
<1>1. Sound /\ CalmInv => ScoresBelongToKeys
    BY DEF CalmInv, CalmSearch, ScoresBelongToKeys
<1> QED
    BY <1>1, CalmAlways, PTL
-----------------------------------------------------------------------------
(*****************************************************************************)
(* What the scan of a shard keeps.  Of the vectors offered, a heap drops     *)
(* only those that r others are as near as.                                  *)
(*****************************************************************************)
LEMMA DistBounded == \A v \in Vec : Dist[v] \in Nat /\ Dist[v] <= Dim
<1> SUFFICES ASSUME NEW v \in Vec PROVE Dist[v] \in Nat /\ Dist[v] <= Dim
    OBVIOUS
<1> DEFINE diff == (Quantize(Floats[v]) \ Query) \cup (Query \ Quantize(Floats[v]))
<1>1. diff \subseteq 1 .. Dim /\ Dim \in Nat
    BY VectorAssumption DEF Quantize, Query, Bit
<1>2. Dist[v] = Cardinality(diff)
    BY DEF Dist, Apart
<1> HIDE DEF diff
<1>3. IsFiniteSet(1 .. Dim) /\ Cardinality(1 .. Dim) = Dim
    BY <1>1, FS_Interval
<1>4. IsFiniteSet(diff) /\ Cardinality(diff) <= Dim
    BY <1>1, <1>3, FS_Subset
<1> QED
    BY <1>2, <1>4, FS_CardinalityType

LEMMA TopIs ==
    ASSUME NEW vs \in Seq(Vec), NEW heap \in SUBSET (1 .. Len(vs)), heap # {}
    PROVE  \E j \in heap : /\ Top(vs, heap) = {j}
                           /\ \A i \in heap : Dist[vs[i]] <= Dist[vs[j]]
<1> DEFINE dists == {Dist[vs[i]] : i \in heap}
<1>1. \A i \in heap : vs[i] \in Vec /\ Dist[vs[i]] \in Nat /\ Dist[vs[i]] <= Dim
    BY DistBounded
<1>2. dists \in SUBSET Nat /\ dists # {} /\ \A d \in dists : d <= Dim
    BY <1>1
<1>3. PICK d \in dists : \A e \in dists : e <= d
    <2> HIDE DEF dists
    <2> QED
        BY <1>2, GreatestOf, VectorAssumption
<1> DEFINE far == {i \in heap : Dist[vs[i]] = d}
<1>4. far \in SUBSET Nat /\ far # {} /\ Len(vs) \in Nat /\ \A i \in far : i <= Len(vs)
    <2>1. Len(vs) \in Nat /\ \A i \in far : i \in Nat /\ i <= Len(vs)
        OBVIOUS
    <2>2. \E i \in heap : Dist[vs[i]] = d
        BY <1>3
    <2> QED
        BY <2>1, <2>2
<1>5. PICK j \in far : \A i \in far : i <= j
    <2> HIDE DEF far
    <2> QED
        BY <1>4, GreatestOf
<1>6. \A i \in heap : Dist[vs[i]] <= Dist[vs[j]]
    BY <1>3, <1>5
<1>7. \A i \in heap \ {j} : Nearer(vs, i, j)
    <2> SUFFICES ASSUME NEW i \in heap \ {j} PROVE Nearer(vs, i, j)
        OBVIOUS
    <2>1. Dist[vs[i]] \in Nat /\ Dist[vs[j]] \in Nat /\ Dist[vs[i]] <= Dist[vs[j]]
        BY <1>1, <1>6
    <2>2. CASE Dist[vs[i]] < Dist[vs[j]]
        BY <2>2 DEF Nearer
    <2>3. CASE Dist[vs[i]] = Dist[vs[j]]
        <3>1. i \in far /\ i <= j /\ i # j
            BY <1>5, <2>3
        <3>2. i < j
            BY <3>1, <1>4
        <3> QED
            BY <2>3, <3>2 DEF Nearer
    <2> QED
        BY <2>1, <2>2, <2>3
<1>8. ASSUME NEW k \in heap, k # j PROVE k \notin Top(vs, heap)
    <2>1. Nearer(vs, k, j)
        BY <1>7, <1>8
    <2>2. Dist[vs[k]] \in Nat /\ Dist[vs[j]] \in Nat /\ k \in Nat /\ j \in Nat
        BY <1>1
    <2>3. ~ Nearer(vs, j, k)
        BY <2>1, <2>2 DEF Nearer
    <2> QED
        BY <1>5, <1>8, <2>3 DEF Top
<1>9. Top(vs, heap) = {j}
    BY <1>7, <1>8 DEF Top
<1> QED
    BY <1>6, <1>9

\* the heap after the vectors D were offered to it
Keeps(vs, D, heap, r) ==
    /\ heap \subseteq D
    /\ \A i \in D \ heap :
          Cardinality(heap) >= r /\ \A j \in heap : Dist[vs[j]] <= Dist[vs[i]]

LEMMA HeapFinite ==
    ASSUME NEW vs \in Seq(Vec), NEW heap \in SUBSET (1 .. Len(vs))
    PROVE  IsFiniteSet(heap) /\ Cardinality(heap) \in Nat
<1>1. Len(vs) \in Int /\ 1 \in Int
    OBVIOUS
<1>2. IsFiniteSet(1 .. Len(vs))
    BY <1>1, FS_Interval
<1> QED
    BY <1>2, FS_Subset, FS_CardinalityType

LEMMA OfferKeeps ==
    ASSUME NEW vs \in Seq(Vec), NEW D \in SUBSET (1 .. Len(vs)), NEW heap,
           NEW r \in Nat \ {0}, Keeps(vs, D, heap, r), NEW i \in 1 .. Len(vs), i \notin D
    PROVE  /\ Keeps(vs, D \cup {i}, Offer(vs, heap, r, i), r)
           /\ Cardinality(heap) <= Cardinality(Offer(vs, heap, r, i))
<1> DEFINE new == Offer(vs, heap, r, i)
<1>1. /\ heap \in SUBSET (1 .. Len(vs)) /\ heap \subseteq D /\ i \notin heap
      /\ \A k \in D \ heap :
            Cardinality(heap) >= r /\ \A j \in heap : Dist[vs[j]] <= Dist[vs[k]]
    BY DEF Keeps
<1>2. IsFiniteSet(heap) /\ Cardinality(heap) \in Nat
    BY <1>1, HeapFinite
<1>3. \A k \in 1 .. Len(vs) : Dist[vs[k]] \in Nat
    BY DistBounded
<1>4. CASE Cardinality(heap) < r
    <2>1. new = heap \cup {i}
        BY <1>4 DEF Offer
    <2>2. Cardinality(heap \cup {i}) = Cardinality(heap) + 1
        BY <1>1, <1>2, FS_AddElement
    <2>3. D = heap
        <3>1. ~ Cardinality(heap) >= r
            BY <1>2, <1>4
        <3> QED
            BY <1>1, <3>1
    <2> HIDE DEF new
    <2>4. Keeps(vs, D \cup {i}, new, r)
        BY <2>1, <2>3 DEF Keeps
    <2> QED
        BY <1>2, <2>1, <2>2, <2>4 DEF new
<1>5. CASE Cardinality(heap) >= r
    <2>1. heap # {}
        BY <1>2, <1>5, FS_EmptySet
    <2>2. PICK j \in heap : /\ Top(vs, heap) = {j}
                            /\ \A k \in heap : Dist[vs[k]] <= Dist[vs[j]]
        BY <1>1, <2>1, TopIs
    <2>3. /\ \A k \in D \cup {i} : Dist[vs[k]] \in Nat
          /\ j \in D
        BY <1>1, <1>3
    <2>4. CASE Dist[vs[i]] < Dist[vs[j]]
        <3>1. new = (heap \ {j}) \cup {i}
            BY <1>2, <1>5, <2>2, <2>4 DEF Offer
        <3>2. /\ IsFiniteSet(heap \ {j}) /\ Cardinality(heap \ {j}) = Cardinality(heap) - 1
              /\ i \notin heap \ {j}
            BY <1>1, <1>2, FS_RemoveElement
        <3>3. Cardinality((heap \ {j}) \cup {i}) = Cardinality(heap)
            <4>1. Cardinality((heap \ {j}) \cup {i}) = Cardinality(heap \ {j}) + 1
                <5> DEFINE rest == heap \ {j}
                <5>1. IsFiniteSet(rest) /\ i \notin rest
                    BY <3>2
                <5> HIDE DEF rest
                <5>2. Cardinality(rest \cup {i}) = Cardinality(rest) + 1
                    BY <5>1, FS_AddElement
                <5> QED
                    BY <5>2 DEF rest
            <4> QED
                BY <1>2, <3>2, <4>1
        <3>4. Cardinality(new) = Cardinality(heap)
            BY <3>1, <3>3
        <3> HIDE DEF new
        <3>5. ASSUME NEW k \in (D \cup {i}) \ new, NEW x \in new
              PROVE  Dist[vs[x]] <= Dist[vs[k]]
            <4>1. Dist[vs[x]] <= Dist[vs[j]] /\ x \in D \cup {i}
                BY <1>1, <2>2, <2>3, <2>4, <3>1
            <4>2. Dist[vs[j]] <= Dist[vs[k]] /\ k \in D
                BY <1>1, <2>2, <2>3, <3>1
            <4> QED
                BY <2>3, <4>1, <4>2
        <3>6. Keeps(vs, D \cup {i}, new, r)
            BY <1>1, <1>5, <3>1, <3>4, <3>5 DEF Keeps
        <3> QED
            BY <1>2, <3>4, <3>6 DEF new
    <2>5. CASE ~ Dist[vs[i]] < Dist[vs[j]]
        <3>1. new = heap
            BY <1>2, <1>5, <2>2, <2>5 DEF Offer
        <3>2. ASSUME NEW x \in heap PROVE Dist[vs[x]] <= Dist[vs[i]]
            <4>1. Dist[vs[x]] <= Dist[vs[j]] /\ x \in D
                BY <1>1, <2>2
            <4> QED
                BY <2>3, <2>5, <4>1
        <3> HIDE DEF new
        <3>3. Keeps(vs, D \cup {i}, new, r)
            BY <1>1, <1>5, <3>1, <3>2 DEF Keeps
        <3> QED
            BY <1>2, <3>1, <3>3 DEF new
    <2> QED
        BY <2>4, <2>5
<1> QED
    BY <1>2, <1>4, <1>5

LEMMA IntervalGrows ==
    ASSUME NEW a \in Nat, NEW n \in Nat
    PROVE  /\ a + 1 .. a + 0 = {}
           /\ a + 1 .. a + (n + 1) = (a + 1 .. a + n) \cup {a + (n + 1)}
           /\ a + (n + 1) \notin a + 1 .. a + n
OBVIOUS

LEMMA OfferBlockKeeps ==
    ASSUME NEW vs \in Seq(Vec), NEW D \in SUBSET (1 .. Len(vs)), NEW heap,
           NEW r \in Nat \ {0}, Keeps(vs, D, heap, r), NEW b \in Block,
           b.start <= b.end, b.end <= Len(vs), D \cap (b.start + 1 .. b.end) = {}
    PROVE  /\ Keeps(vs, D \cup (b.start + 1 .. b.end), OfferBlock(vs, heap, r, b), r)
           /\ Cardinality(heap) <= Cardinality(OfferBlock(vs, heap, r, b))
<1> DEFINE U == 1 .. Len(vs)
           a == b.start
           width == b.end - b.start
           Offered(n) == D \cup (a + 1 .. a + n)
<1>1. /\ a \in Nat /\ b.end \in Nat /\ width \in Nat /\ Len(vs) \in Nat
      /\ b.end = a + width /\ a + width <= Len(vs)
    BY DEF Block
<1>2. heap \in SUBSET U /\ \A i \in b.start + 1 .. b.end : i \in U
    <2>1. heap \in SUBSET U
        BY DEF Keeps
    <2>2. \A i \in b.start + 1 .. b.end : i \in U
        BY <1>1
    <2> QED
        BY <2>1, <2>2
<1>3. PICK f \in [0 .. width -> SUBSET U] : OfferSteps(f, vs, heap, r, b)
    <2> HIDE DEF U
    <2> QED
        BY <1>2, OfferBlockSteps
<1>4. /\ f[0] = heap /\ OfferBlock(vs, heap, r, b) = f[width]
      /\ \A n \in 1 .. width : f[n] = Offer(vs, f[n - 1], r, a + n)
    BY <1>3 DEF OfferSteps
<1>5. /\ D \cap (a + 1 .. a + width) = {}
      /\ b.start + 1 .. b.end = a + 1 .. a + width
    BY <1>1
<1> HIDE DEF a, width
<1> DEFINE S == {n \in 0 .. width : /\ Keeps(vs, Offered(n), f[n], r)
                                    /\ Cardinality(heap) <= Cardinality(f[n])}
<1>6. 0 \in S
    <2>1. Offered(0) = D
        <3>1. a + 1 .. a + 0 = {}
            BY <1>1, IntervalGrows
        <3> QED
            BY <3>1
    <2>2. Cardinality(heap) \in Nat
        <3> HIDE DEF U
        <3>1. heap \in SUBSET (1 .. Len(vs))
            BY <1>2 DEF U
        <3> QED
            BY <3>1, HeapFinite
    <2>3. 0 \in 0 .. width /\ Keeps(vs, D, f[0], r) /\ Cardinality(heap) <= Cardinality(f[0])
        BY <1>1, <1>4, <2>2
    <2> HIDE DEF Offered
    <2> QED
        BY <2>1, <2>3
<1>7. ASSUME NEW n \in 0 .. width - 1, n \in S PROVE n + 1 \in S
    <2> DEFINE i == a + (n + 1)
               E == Offered(n)
    <2>1. /\ n + 1 \in 1 .. width /\ (n + 1) - 1 = n /\ n \in 0 .. width /\ n \in Nat
          /\ n + 1 \in 0 .. width
          /\ i \in a + 1 .. a + width /\ i \in U
          /\ a + 1 .. a + n \subseteq a + 1 .. a + width
          /\ a + 1 .. a + n \subseteq U
        BY <1>1
    <2>2. Offered(n + 1) = E \cup {i} /\ i \notin E /\ E \in SUBSET U
        <3>1. /\ a + 1 .. a + (n + 1) = (a + 1 .. a + n) \cup {i}
              /\ i \notin a + 1 .. a + n
            BY <1>1, <2>1, IntervalGrows
        <3> HIDE DEF i
        <3> QED
            BY <1>5, <2>1, <3>1
    <2>3. f[n + 1] = Offer(vs, f[n], r, i)
        BY <1>4, <2>1
    <2>4. Keeps(vs, E, f[n], r) /\ Cardinality(heap) <= Cardinality(f[n])
        BY <1>7
    <2>5. /\ f[n] \in SUBSET (1 .. Len(vs)) /\ f[n + 1] \in SUBSET (1 .. Len(vs))
          /\ heap \in SUBSET (1 .. Len(vs))
        BY <1>2, <1>3, <2>1
    <2>6. /\ Cardinality(heap) \in Nat
          /\ Cardinality(f[n]) \in Nat
          /\ Cardinality(f[n + 1]) \in Nat
        BY <2>5, HeapFinite
    <2>7. /\ Keeps(vs, E \cup {i}, f[n + 1], r)
          /\ Cardinality(f[n]) <= Cardinality(f[n + 1])
        <3>1. E \in SUBSET (1 .. Len(vs)) /\ i \in 1 .. Len(vs)
            BY <2>1, <2>2
        <3> HIDE DEF E, i
        <3> QED
            BY <2>2, <2>3, <2>4, <3>1, OfferKeeps
    <2>8. Cardinality(heap) <= Cardinality(f[n + 1])
        BY <2>4, <2>6, <2>7
    <2>9. Keeps(vs, Offered(n + 1), f[n + 1], r)
        <3> HIDE DEF E, i, Offered
        <3> QED
            BY <2>2, <2>7
    <2> HIDE DEF Offered
    <2> QED
        BY <2>1, <2>8, <2>9
<1>8. \A n \in 0 .. width : n \in S
    <2> HIDE DEF S
    <2> QED
        BY <1>1, <1>6, <1>7, IntervalInduction
<1>9. width \in S
    <2> HIDE DEF S
    <2>1. width \in 0 .. width
        BY <1>1
    <2> QED
        BY <1>8, <2>1
<1>10. Keeps(vs, Offered(width), f[width], r) /\ Cardinality(heap) <= Cardinality(f[width])
    BY <1>9
<1> QED
    BY <1>4, <1>5, <1>10

(*****************************************************************************)
(* The blocks of a shard share out its indices.                              *)
(*****************************************************************************)
Span(b) == b.start + 1 .. b.end

Spans(bs, K) == UNION {Span(bs[k]) : k \in K}

LEMMA SpanIs ==
    ASSUME NEW bs, NEW vs \in Seq(Vec), Current(bs, vs), NEW k \in 1 .. Len(bs), NEW i
    PROVE  i \in Span(bs[k]) <=> /\ i \in 1 .. Len(vs)
                                 /\ (k - 1) * BlockSize < i
                                 /\ i <= k * BlockSize
<1> DEFINE n == Len(vs)
           start == (k - 1) * BlockSize
           end == AtMost(k * BlockSize, n)
<1>1. n \in Nat /\ k \in 1 .. BlockCount(n) /\ bs[k] = Signature(vs, start, end)
    BY DEF Current
<1>2. start \in Nat /\ end \in Nat
    BY <1>1, BlockEnds
<1>3. Span(bs[k]) = start + 1 .. end
    <2> HIDE DEF start, end
    <2> QED
        BY <1>1, <1>2, SignatureType DEF Span
<1>4. k * BlockSize \in Nat
    <2>1. BlockSize \in Nat /\ BlockCount(n) \in Nat
        BY <1>1, BlockCounts, VectorAssumption
    <2> QED
        BY <1>1, <2>1
<1> HIDE DEF start
<1> DEFINE top == k * BlockSize
<1>5. top \in Nat /\ end = IF top < n THEN top ELSE n
    BY <1>4 DEF AtMost
<1> HIDE DEF top, end, n
<1>6. i \in start + 1 .. end <=> i \in 1 .. n /\ start < i /\ i <= top
    BY <1>1, <1>2, <1>5
<1> QED
    BY <1>3, <1>6 DEF start, top, n

LEMMA SpansApart ==
    ASSUME NEW bs, NEW vs \in Seq(Vec), Current(bs, vs),
           NEW k \in 1 .. Len(bs), NEW l \in 1 .. Len(bs), k # l
    PROVE  Span(bs[k]) \cap Span(bs[l]) = {}
<1> SUFFICES ASSUME NEW i \in Span(bs[k]), i \in Span(bs[l]) PROVE FALSE
    OBVIOUS
<1>1. BlockSize \in Nat \ {0} /\ k \in Nat /\ l \in Nat /\ i \in Nat
    <2>1. i \in 1 .. Len(vs) /\ Len(bs) \in Nat
        <3>1. Len(bs) = BlockCount(Len(vs)) /\ Len(vs) \in Nat
            BY DEF Current
        <3> QED
            BY <3>1, SpanIs, BlockCounts
    <2> QED
        BY <2>1, VectorAssumption
<1>2. /\ (k - 1) * BlockSize < i /\ i <= k * BlockSize
      /\ (l - 1) * BlockSize < i /\ i <= l * BlockSize
    BY SpanIs
<1>3. /\ (k - 1) * BlockSize = k * BlockSize - BlockSize
      /\ (l - 1) * BlockSize = l * BlockSize - BlockSize
      /\ k * BlockSize \in Nat /\ l * BlockSize \in Nat
    BY <1>1
<1>4. k * BlockSize < l * BlockSize + BlockSize /\ l * BlockSize < k * BlockSize + BlockSize
    BY <1>1, <1>2, <1>3
<1>5. k <= l /\ l <= k
    BY <1>1, <1>4, TimesOrdered
<1> QED
    BY <1>1, <1>5

LEMMA SpansCover ==
    ASSUME NEW bs, NEW vs \in Seq(Vec), Current(bs, vs), NEW i \in 1 .. Len(vs)
    PROVE  \E k \in 1 .. Len(bs) : i \in Span(bs[k])
<1> DEFINE q == (i - 1) \div BlockSize
           m == BlockCount(Len(vs))
<1>1. BlockSize \in Nat \ {0} /\ Len(vs) \in Nat /\ i \in Nat /\ i - 1 \in Nat
    BY VectorAssumption
<1>2. Len(bs) = m /\ m \in Nat /\ Len(vs) <= m * BlockSize
    BY <1>1, BlockCounts DEF Current
<1>3. /\ q \in Nat /\ (i - 1) % BlockSize \in 0 .. BlockSize - 1
      /\ i - 1 = BlockSize * q + ((i - 1) % BlockSize)
    BY <1>1
<1> HIDE DEF q, m
<1>4. BlockSize * q = q * BlockSize /\ (q + 1) * BlockSize = q * BlockSize + BlockSize
      /\ q * BlockSize \in Nat /\ m * BlockSize \in Nat
    BY <1>1, <1>2, <1>3
<1>5. q * BlockSize < i /\ i <= (q + 1) * BlockSize
    BY <1>1, <1>3, <1>4
<1>6. (q + 1) * BlockSize < m * BlockSize + BlockSize
    BY <1>1, <1>2, <1>4, <1>5
<1>7. q + 1 <= m
    <2>1. q + 1 \in Int /\ m \in Int
        BY <1>2, <1>3
    <2> QED
        BY <1>1, <1>6, <2>1, TimesOrdered
<1>8. q + 1 \in 1 .. Len(bs) /\ (q + 1) - 1 = q
    BY <1>2, <1>3, <1>7
<1>9. i \in Span(bs[q + 1])
    BY <1>5, <1>8, SpanIs
<1> QED
    BY <1>8, <1>9

\* a scan comes to every block
LEMMA OrderOnto ==
    ASSUME NEW m \in Nat, NEW p \in [1 .. m -> 1 .. m],
           \A k, l \in 1 .. m : k < l => p[k] # p[l]
    PROVE  \A k \in 1 .. m : \E l \in 1 .. m : p[l] = k
<1> DEFINE I == 1 .. m
<1>1. IsFiniteSet(I)
    BY FS_Interval
<1>2. ASSUME NEW k \in I, NEW l \in I, k # l PROVE p[k] # p[l]
    <2>1. k < l \/ l < k
        BY <1>2
    <2> QED
        BY <2>1
<1>3. p \in Injection(I, I)
    BY <1>2 DEF Injection, IsInjective
<1> HIDE DEF I
<1>4. p \in Surjection(I, I)
    BY <1>1, <1>3, FS_Injection
<1> QED
    BY <1>4 DEF Surjection, I

(*****************************************************************************)
(* The candidates of a shard: a vector that is not among them has r          *)
(* candidates as near as it is, or is in a block that was left out when r    *)
(* candidates were at hand.                                                  *)
(*****************************************************************************)
SeenBlocks(order, k) == {order[l] : l \in 1 .. k}

ScanKeeps(vs, bs, order, r, acc, k) ==
    /\ acc.skipped \subseteq SeenBlocks(order, k)
    /\ Keeps(vs, Spans(bs, SeenBlocks(order, k) \ acc.skipped), acc.heap, r)
    /\ acc.skipped # {} => Cardinality(acc.heap) >= r

LEMMA SpansIn ==
    ASSUME NEW bs, NEW vs \in Seq(Vec), Current(bs, vs), NEW K \in SUBSET (1 .. Len(bs))
    PROVE  Spans(bs, K) \in SUBSET (1 .. Len(vs))
<1> SUFFICES ASSUME NEW i \in Spans(bs, K) PROVE i \in 1 .. Len(vs)
    OBVIOUS
<1>1. PICK k \in K : i \in Span(bs[k])
    BY DEF Spans
<1> QED
    BY <1>1, SpanIs

LEMMA ScanBlockKeeps ==
    ASSUME NEW vs \in Seq(Vec), NEW bs \in Seq(Block), Current(bs, vs),
           NEW order \in [1 .. Len(bs) -> 1 .. Len(bs)],
           \A k, l \in 1 .. Len(bs) : k < l => order[k] # order[l],
           NEW r \in Nat \ {0}, NEW acc \in ScanStates(Len(vs), Len(bs)),
           NEW k \in Nat, k + 1 \in 1 .. Len(bs), ScanKeeps(vs, bs, order, r, acc, k)
    PROVE  ScanKeeps(vs, bs, order, r,
                     ScanBlock(vs, bs[order[k + 1]], r, acc, order[k + 1]), k + 1)
<1> DEFINE o == order[k + 1]
           b == bs[o]
           Seen == SeenBlocks(order, k)
           D == Spans(bs, Seen \ acc.skipped)
           next == ScanBlock(vs, b, r, acc, o)
<1>1. /\ o \in 1 .. Len(bs) /\ Len(bs) \in Nat /\ Len(vs) \in Nat
      /\ \A l \in 1 .. k : l \in 1 .. Len(bs) /\ l < k + 1
    OBVIOUS
<1>2. /\ SeenBlocks(order, k + 1) = Seen \cup {o}
      /\ o \notin Seen /\ Seen \subseteq 1 .. Len(bs)
    <2>1. 1 .. k + 1 = (1 .. k) \cup {k + 1}
        OBVIOUS
    <2> QED
        BY <1>1, <2>1 DEF SeenBlocks
<1>3. /\ b \in Block /\ b.start <= b.end /\ b.end <= Len(vs)
      /\ Span(b) = b.start + 1 .. b.end
    BY <1>1, CurrentBlocks DEF Span
<1>4. /\ acc.skipped \subseteq Seen
      /\ Keeps(vs, D, acc.heap, r)
      /\ acc.skipped # {} => Cardinality(acc.heap) >= r
    BY DEF ScanKeeps
<1>5. acc.heap \in SUBSET (1 .. Len(vs))
    BY DEF ScanStates
<1>6. D \in SUBSET (1 .. Len(vs)) /\ D \cap Span(b) = {}
    <2>1. Seen \ acc.skipped \in SUBSET (1 .. Len(bs))
        BY <1>2
    <2>2. D \in SUBSET (1 .. Len(vs))
        <3> DEFINE K == Seen \ acc.skipped
        <3> HIDE DEF K
        <3>1. K \in SUBSET (1 .. Len(bs))
            BY <2>1 DEF K
        <3>2. Spans(bs, K) \in SUBSET (1 .. Len(vs))
            BY <3>1, SpansIn
        <3> QED
            BY <3>2 DEF K
    <2>3. ASSUME NEW l \in Seen PROVE Span(bs[l]) \cap Span(b) = {}
        <3>1. l \in 1 .. Len(bs) /\ l # o
            BY <1>2
        <3> HIDE DEF o
        <3> QED
            BY <1>1, <3>1, SpansApart
    <2> QED
        BY <2>2, <2>3 DEF Spans
<1> HIDE DEF o, b, Seen
<1>7. CASE Pruned(vs, acc.heap, r, b)
    <2>1. next.heap = acc.heap /\ next.skipped = acc.skipped \cup {o}
        BY <1>7 DEF ScanBlock
    <2>2. SeenBlocks(order, k + 1) \ next.skipped = Seen \ acc.skipped
        BY <1>2, <2>1
    <2>3. next.skipped \subseteq SeenBlocks(order, k + 1) /\ Cardinality(next.heap) >= r
        BY <1>2, <1>4, <1>7, <2>1 DEF Pruned
    <2>4. Keeps(vs, Spans(bs, SeenBlocks(order, k + 1) \ next.skipped), next.heap, r)
        BY <1>4, <2>1, <2>2
    <2> HIDE DEF next
    <2>5. ScanKeeps(vs, bs, order, r, next, k + 1)
        BY <2>3, <2>4 DEF ScanKeeps
    <2> QED
        BY <2>5 DEF next, o, b
<1>8. CASE ~ Pruned(vs, acc.heap, r, b)
    <2>1. next.heap = OfferBlock(vs, acc.heap, r, b) /\ next.skipped = acc.skipped
        BY <1>8 DEF ScanBlock
    <2>2. /\ Keeps(vs, D \cup Span(b), next.heap, r)
          /\ Cardinality(acc.heap) <= Cardinality(next.heap)
        <3> DEFINE heap == acc.heap
        <3>1. /\ D \in SUBSET (1 .. Len(vs)) /\ D \cap (b.start + 1 .. b.end) = {}
              /\ Keeps(vs, D, heap, r)
            BY <1>3, <1>4, <1>6
        <3> HIDE DEF D, next, heap
        <3>2. /\ Keeps(vs, D \cup (b.start + 1 .. b.end), OfferBlock(vs, heap, r, b), r)
              /\ Cardinality(heap) <= Cardinality(OfferBlock(vs, heap, r, b))
            BY <1>3, <3>1, OfferBlockKeeps
        <3> QED
            BY <1>3, <2>1, <3>2 DEF heap
    <2>3. Spans(bs, SeenBlocks(order, k + 1) \ next.skipped) = D \cup Span(b)
        <3>1. SeenBlocks(order, k + 1) \ next.skipped = (Seen \ acc.skipped) \cup {o}
            BY <1>2, <1>4, <2>1
        <3>2. Spans(bs, (Seen \ acc.skipped) \cup {o}) = D \cup Span(b)
            BY DEF Spans, b
        <3> QED
            BY <3>1, <3>2
    <2>4. /\ next.skipped \subseteq SeenBlocks(order, k + 1)
          /\ next.skipped # {} => Cardinality(next.heap) >= r
        <3>1. Cardinality(acc.heap) \in Nat /\ Cardinality(next.heap) \in Nat
            <4>1. next.heap \in SUBSET (1 .. Len(vs))
                <5>1. b.start \in Nat /\ b.end \in Nat
                    BY <1>3 DEF Block
                <5>2. Span(b) \subseteq 1 .. Len(vs)
                    BY <1>1, <1>3, <5>1
                <5>3. next.heap \subseteq D \cup Span(b)
                    BY <2>2 DEF Keeps
                <5> HIDE DEF next, D
                <5> QED
                    BY <1>6, <5>2, <5>3
            <4> HIDE DEF next
            <4> QED
                BY <1>5, <4>1, HeapFinite
        <3> QED
            BY <1>2, <1>4, <2>1, <2>2, <3>1
    <2> HIDE DEF next, D
    <2>5. ScanKeeps(vs, bs, order, r, next, k + 1)
        BY <2>2, <2>3, <2>4 DEF ScanKeeps
    <2> QED
        BY <2>5 DEF next, o, b
<1> QED
    BY <1>7, <1>8

LEMMA HeapOfKeeps ==
    ASSUME NEW vs \in Seq(Vec), NEW bs \in Seq(Block), Current(bs, vs),
           NEW order \in ScanOrders(bs), NEW r \in Nat \ {0}
    PROVE  LET scan == HeapOf(vs, bs, order, r)
           IN  /\ scan.heap \in SUBSET (1 .. Len(vs))
               /\ scan.skipped \in SUBSET (1 .. Len(bs))
               /\ scan.heap \cap Spans(bs, scan.skipped) = {}
               /\ \A i \in (1 .. Len(vs)) \ scan.heap :
                     /\ Cardinality(scan.heap) >= r
                     /\ \/ i \in Spans(bs, scan.skipped)
                        \/ \A j \in scan.heap : Dist[vs[j]] <= Dist[vs[i]]
<1> DEFINE m == Len(bs)
           n == Len(vs)
           scan == HeapOf(vs, bs, order, r)
<1>1. /\ m \in Nat /\ n \in Nat
      /\ order \in [1 .. m -> 1 .. m] /\ \A k, l \in 1 .. m : k < l => order[k] # order[l]
      /\ \A k \in 1 .. m : bs[k].start <= bs[k].end /\ bs[k].end <= n
    BY CurrentBlocks DEF ScanOrders
<1>2. PICK f \in [0 .. m -> ScanStates(n, m)] : ScanSteps(f, vs, bs, order, r)
    <2> HIDE DEF n
    <2> QED
        BY <1>1, HeapOfSteps
<1>3. /\ f[0] = NoneScanned /\ scan = f[m]
      /\ \A k \in 1 .. m : f[k] = ScanBlock(vs, bs[order[k]], r, f[k - 1], order[k])
    BY <1>2 DEF ScanSteps
<1> HIDE DEF scan, m, n
<1> DEFINE S == {k \in 0 .. m : ScanKeeps(vs, bs, order, r, f[k], k)}
<1>4. 0 \in S
    <2>1. SeenBlocks(order, 0) = {}
        BY DEF SeenBlocks
    <2>2. Spans(bs, {}) = {} /\ f[0].heap = {} /\ f[0].skipped = {}
        BY <1>3 DEF Spans, NoneScanned
    <2>3. {} \ f[0].skipped = {} /\ Keeps(vs, {}, {}, r)
        BY <2>2 DEF Keeps
    <2>4. ScanKeeps(vs, bs, order, r, f[0], 0)
        BY <2>1, <2>2, <2>3 DEF ScanKeeps
    <2> QED
        BY <1>1, <2>4
<1>5. ASSUME NEW k \in 0 .. m - 1, k \in S PROVE k + 1 \in S
    <2>1. /\ k \in Nat /\ k + 1 \in 1 .. m /\ (k + 1) - 1 = k /\ k + 1 \in 0 .. m
          /\ k \in 0 .. m
        BY <1>1
    <2>2. f[k] \in ScanStates(Len(vs), Len(bs)) /\ ScanKeeps(vs, bs, order, r, f[k], k)
        BY <1>2, <1>5, <2>1 DEF m, n
    <2>3. f[k + 1] = ScanBlock(vs, bs[order[k + 1]], r, f[k], order[k + 1])
        BY <1>3, <2>1
    <2>4. ScanKeeps(vs, bs, order, r, f[k + 1], k + 1)
        <3> DEFINE acc == f[k]
        <3>1. /\ acc \in ScanStates(Len(vs), Len(bs)) /\ ScanKeeps(vs, bs, order, r, acc, k)
              /\ k + 1 \in 1 .. Len(bs)
              /\ order \in [1 .. Len(bs) -> 1 .. Len(bs)]
              /\ \A i, l \in 1 .. Len(bs) : i < l => order[i] # order[l]
            BY <1>1, <2>1, <2>2 DEF m
        <3> HIDE DEF acc
        <3>2. ScanKeeps(vs, bs, order, r,
                        ScanBlock(vs, bs[order[k + 1]], r, acc, order[k + 1]), k + 1)
            BY <2>1, <3>1, ScanBlockKeeps
        <3> QED
            BY <2>3, <3>2 DEF acc
    <2> QED
        BY <2>1, <2>4
<1>6. \A k \in 0 .. m : k \in S
    <2> HIDE DEF S
    <2> QED
        BY <1>1, <1>4, <1>5, IntervalInduction
<1>7. ScanKeeps(vs, bs, order, r, scan, m) /\ scan \in ScanStates(n, m)
    <2>1. m \in 0 .. m
        BY <1>1
    <2> QED
        BY <1>2, <1>3, <1>6, <2>1
<1>8. SeenBlocks(order, m) = 1 .. m
    <2>1. \A k \in 1 .. m : \E l \in 1 .. m : order[l] = k
        BY <1>1, OrderOnto
    <2>2. \A l \in 1 .. m : order[l] \in 1 .. m
        BY <1>1
    <2> QED
        BY <2>1, <2>2 DEF SeenBlocks
<1>9. scan.heap \in SUBSET (1 .. n) /\ scan.skipped \in SUBSET (1 .. m)
    BY <1>7 DEF ScanStates
<1>10. /\ Keeps(vs, Spans(bs, (1 .. m) \ scan.skipped), scan.heap, r)
       /\ scan.skipped # {} => Cardinality(scan.heap) >= r
    BY <1>7, <1>8 DEF ScanKeeps
<1>11. scan.heap \cap Spans(bs, scan.skipped) = {}
    <2> SUFFICES ASSUME NEW i \in scan.heap, i \in Spans(bs, scan.skipped) PROVE FALSE
        OBVIOUS
    <2>1. PICK k \in scan.skipped : i \in Span(bs[k])
        BY DEF Spans
    <2>2. PICK l \in (1 .. m) \ scan.skipped : i \in Span(bs[l])
        BY <1>10 DEF Keeps, Spans
    <2>3. k \in 1 .. Len(bs) /\ l \in 1 .. Len(bs) /\ k # l
        BY <1>9 DEF m
    <2> QED
        BY <2>1, <2>2, <2>3, SpansApart
<1>12. ASSUME NEW i \in (1 .. n) \ scan.heap
       PROVE  /\ Cardinality(scan.heap) >= r
              /\ \/ i \in Spans(bs, scan.skipped)
                 \/ \A j \in scan.heap : Dist[vs[j]] <= Dist[vs[i]]
    <2>1. PICK k \in 1 .. m : i \in Span(bs[k])
        BY SpansCover DEF m, n
    <2>2. CASE k \in scan.skipped
        BY <1>10, <2>1, <2>2 DEF Spans
    <2>3. CASE k \notin scan.skipped
        <3>1. i \in Spans(bs, (1 .. m) \ scan.skipped)
            BY <2>1, <2>3 DEF Spans
        <3> QED
            BY <1>10, <3>1 DEF Keeps
    <2> QED
        BY <2>2, <2>3
<1>13. /\ scan.heap \in SUBSET (1 .. n) /\ scan.skipped \in SUBSET (1 .. m)
       /\ scan.heap \cap Spans(bs, scan.skipped) = {}
       /\ \A i \in (1 .. n) \ scan.heap :
             /\ Cardinality(scan.heap) >= r
             /\ \/ i \in Spans(bs, scan.skipped)
                \/ \A j \in scan.heap : Dist[vs[j]] <= Dist[vs[i]]
    BY <1>9, <1>11, <1>12
<1> QED
    BY <1>13 DEF scan, m, n
-----------------------------------------------------------------------------
(*****************************************************************************)
(* What a search misses.  First, a vector is in one place.                   *)
(*****************************************************************************)
LEMMA ConstantsSame == Dist' = Dist /\ Score' = Score
BY DEF Dist, Apart, Query, Quantize, Bit, Score, DotProduct, AtLeast, AtMost

LEMMA CountThrough ==
    ASSUME NEW S, IsFiniteSet(S), NEW T, IsFiniteSet(T), NEW f \in [S -> T],
           \A x, y \in S : f[x] = f[y] => x = y
    PROVE  Cardinality(S) <= Cardinality(T)
<1>1. f \in Injection(S, T)
    BY DEF Injection, IsInjective
<1> QED
    BY <1>1, FS_Injection

LEMMA ImageFinite ==
    ASSUME NEW S, IsFiniteSet(S), NEW T, NEW f \in [S -> T], \A y \in T : \E x \in S : f[x] = y
    PROVE  IsFiniteSet(T)
<1>1. f \in Surjection(S, T)
    BY DEF Surjection
<1> QED
    BY <1>1, FS_Surjection

LEMMA Enough ==
    ASSUME NEW T, IsFiniteSet(T), NEW S \in SUBSET T, Cardinality(S) >= TopK
    PROVE  Cardinality(T) >= TopK
<1>1. /\ Cardinality(S) \in Nat /\ Cardinality(T) \in Nat
      /\ Cardinality(S) <= Cardinality(T)
    BY FS_Subset, FS_CardinalityType
<1> QED
    BY <1>1, VectorAssumption

LEMMA HeldApart ==
    ASSUME OnePlace, NEW s \in Shard, NEW t \in Shard, NEW v \in Held(s), v \in Held(t)
    PROVE  s = t
BY DEF OnePlace, Held

LEMMA HeldIs ==
    ASSUME VectorTypeOK, NEW s \in Shard
    PROVE  IsFiniteSet(Held(s)) /\ ToSet(store[s]) = Held(s) /\ Held(s) \subseteq Vec
<1> DEFINE I == 1 .. Len(store[s])
           f == [i \in I |-> store[s][i]]
<1>1. store[s] \in Seq(Vec) /\ Len(store[s]) \in Int /\ 1 \in Int
    BY DEF VectorTypeOK
<1>2. IsFiniteSet(I)
    BY <1>1, FS_Interval
<1>3. f \in [I -> Held(s)] /\ \A v \in Held(s) : \E i \in I : f[i] = v
    BY DEF Held
<1>4. IsFiniteSet(Held(s))
    <2> HIDE DEF I, f
    <2> QED
        BY <1>2, <1>3, ImageFinite
<1>5. ToSet(store[s]) = Held(s)
    BY <1>1 DEF ToSet, Held
<1>6. Held(s) \subseteq Vec
    BY <1>1 DEF Held
<1> QED
    BY <1>4, <1>5, <1>6

\* the shard of a vector
ShardsKnown ==
    \A s \in Shard : /\ IsFiniteSet(Held(s)) /\ Held(s) \subseteq Vec
                     /\ \A v \in Held(s) : ShardOf(v) = Held(s)

LEMMA ShardsKnownIs == VectorTypeOK /\ OnePlace => ShardsKnown
<1> SUFFICES ASSUME VectorTypeOK, OnePlace, NEW s \in Shard
             PROVE  /\ IsFiniteSet(Held(s)) /\ Held(s) \subseteq Vec
                    /\ \A v \in Held(s) : ShardOf(v) = Held(s)
    BY DEF ShardsKnown
<1>1. \A t \in Shard : ToSet(store[t]) = Held(t)
    BY HeldIs
<1>2. ASSUME NEW v \in Held(s) PROVE ShardOf(v) = Held(s)
    <2>1. \A t \in Shard : v \in Held(t) => t = s
        BY <1>2, HeldApart
    <2> QED
        BY <1>1, <2>1 DEF ShardOf
<1> QED
    BY <1>2, HeldIs

LEMMA OnePlacePush ==
    ASSUME Sound, ClearInv, OnePlace, NEW w \in Worker, Push(w)
    PROVE  OnePlace'
<1> DEFINE t == target[w]
           n == Len(store[t])
<1>1. PICK v \in Vec : /\ v \in adding[w] /\ t \in Shard
                       /\ store' = [store EXCEPT ![t] = Append(store[t], v)]
    BY PushIs DEF Sound
<1>2. store \in [Shard -> Seq(Vec)]
    BY DEF Sound, VectorTypeOK
<1>3. \A s \in Shard : \A i \in 1 .. Len(store[s]) : store[s][i] # v
    <2>1. \A s \in Shard : v \notin Held(s)
        BY <1>1 DEF ClearInv, AddedOnce
    <2> QED
        BY <2>1 DEF Held
<1>4. /\ n \in Nat /\ Len(store'[t]) = n + 1 /\ store'[t][n + 1] = v
      /\ \A i \in 1 .. n : store'[t][i] = store[t][i]
    <2>1. store[t] \in Seq(Vec) /\ store'[t] = Append(store[t], v)
        BY <1>1, <1>2
    <2> QED
        BY <2>1, AppendElements
<1>5. \A s \in Shard : s # t => store'[s] = store[s]
    BY <1>1, <1>2
<1> HIDE DEF n, t
<1>6. ASSUME NEW s \in Shard, NEW i \in 1 .. Len(store'[s])
      PROVE  \/ i \in 1 .. Len(store[s]) /\ store'[s][i] = store[s][i]
             \/ s = t /\ i = n + 1 /\ store'[s][i] = v
    <2>1. CASE s = t
        <3>1. i \in 1 .. n \/ i = n + 1
            BY <1>4, <2>1
        <3> QED
            BY <1>4, <2>1, <3>1 DEF n
    <2>2. CASE s # t
        BY <1>5, <2>2
    <2> QED
        BY <2>1, <2>2
<1>7. ASSUME NEW s \in Shard, NEW u \in Shard,
             NEW i \in 1 .. Len(store'[s]), NEW j \in 1 .. Len(store'[u]),
             store'[s][i] = store'[u][j]
      PROVE  s = u /\ i = j
    <2>1. CASE i \in 1 .. Len(store[s]) /\ store'[s][i] = store[s][i]
        <3>1. store[s][i] = store'[u][j] /\ store[s][i] # v
            BY <1>3, <1>7, <2>1
        <3>2. j \in 1 .. Len(store[u]) /\ store'[u][j] = store[u][j]
            BY <1>6, <3>1
        <3> QED
            BY <2>1, <3>1, <3>2 DEF OnePlace
    <2>2. CASE s = t /\ i = n + 1 /\ store'[s][i] = v
        BY <1>3, <1>6, <1>7, <2>2
    <2> QED
        BY <1>6, <2>1, <2>2
<1> QED
    BY <1>7 DEF OnePlace

LEMMA OnePlaceClear ==
    ASSUME Sound, OnePlace, NEW w \in Worker, ClearShard(w)
    PROVE  OnePlace'
<1>1. store \in [Shard -> Seq(Vec)]
    BY DEF Sound, VectorTypeOK
<1>2. \A s \in Shard : store'[s] = store[s] \/ store'[s] = <<>>
    BY <1>1 DEF ClearShard
<1>3. \A s \in Shard : 1 .. Len(store'[s]) # {} => store'[s] = store[s]
    BY <1>2
<1> QED
    BY <1>3 DEF OnePlace

(*****************************************************************************)
(* A reason stays one while the shards grow.                                 *)
(*****************************************************************************)
LEMMA HeldGrows ==
    ASSUME Sound, Sound', Grows, NEW s \in Shard
    PROVE  Held(s) \subseteq Held(s)'
<1>1. Len(store[s]) \in Nat /\ Len(store'[s]) \in Nat
    <2>1. store \in [Shard -> Seq(Vec)] /\ store' \in [Shard -> Seq(Vec)]
        BY DEF Sound, VectorTypeOK
    <2> QED
        BY <2>1
<1> QED
    BY <1>1 DEF Grows, Held

LEMMA ReasonKept ==
    ASSUME ShardsKnown, ShardsKnown', NEW w \in Worker, NEW s \in Shard, NEW v \in Held(s),
           Held(s) \subseteq Held(s)', Reason(w, v),
           \A u \in Held(s) : u \in skipped'[w] <=> u \in skipped[w]
    PROVE  Reason(w, v)'
<1>1. /\ ShardOf(v) = Held(s) /\ ShardOf(v)' = Held(s)'
      /\ IsFiniteSet(Held(s)')
    BY DEF ShardsKnown
<1>2. CASE CrowdedOut(v)
    <2> DEFINE S == {u \in Held(s) \ {v} : Dist[u] <= Dist[v]}
               T == {u \in Held(s)' \ {v} : Dist[u] <= Dist[v]}
    <2>1. Cardinality(S) >= TopK
        BY <1>1, <1>2 DEF CrowdedOut
    <2>2. S \subseteq T /\ T \subseteq Held(s)'
        OBVIOUS
    <2>3. IsFiniteSet(T)
        <3> HIDE DEF T
        <3> QED
            BY <1>1, <2>2, FS_Subset
    <2>4. Cardinality(T) >= TopK
        <3> HIDE DEF S, T
        <3> QED
            BY <2>1, <2>2, <2>3, Enough
    <2>5. CrowdedOut(v)'
        BY <1>1, <2>4, ConstantsSame DEF CrowdedOut
    <2> QED
        BY <2>5 DEF Reason
<1>3. CASE PassedOver(w, v)
    <2> DEFINE S == Held(s) \ skipped[w]
               T == Held(s)' \ skipped'[w]
    <2>1. Cardinality(S) >= TopK /\ v \in skipped'[w]
        BY <1>1, <1>3 DEF PassedOver
    <2>2. S \subseteq T /\ T \subseteq Held(s)'
        OBVIOUS
    <2>3. IsFiniteSet(T)
        <3> HIDE DEF T
        <3> QED
            BY <1>1, <2>2, FS_Subset
    <2>4. Cardinality(T) >= TopK
        <3> HIDE DEF S, T
        <3> QED
            BY <2>1, <2>2, <2>3, Enough
    <2>5. PassedOver(w, v)'
        BY <1>1, <2>1, <2>4 DEF PassedOver
    <2> QED
        BY <2>5 DEF Reason
<1> QED
    BY <1>2, <1>3 DEF Reason

(*****************************************************************************)
(* The steps of others, and a worker's own between two searches: nothing     *)
(* that was stored when the search began comes in at a new place.            *)
(*****************************************************************************)
Rests == {"idle", "push", "reset"}

LEMMA FoundKept ==
    ASSUME Sound, Sound', ShardsKnown, ShardsKnown', Grows, NEW w \in Worker, FoundSearch(w),
           calm[w] => \A s \in Shard : \A i \in 1 .. Len(store'[s]) :
                         store'[s][i] \in atStart[w] => i \in 1 .. Len(store[s]),
           pc'[w] = pc[w] \/ (pc[w] \in Rests /\ pc'[w] \in Rests),
           cursor'[w] = cursor[w], total'[w] = total[w], cand'[w] = cand[w],
           ranked'[w] = ranked[w], result'[w] = result[w], skipped'[w] = skipped[w],
           atStart'[w] = atStart[w], calm'[w] = calm[w]
    PROVE  FoundSearch(w)'
<1> SUFFICES ASSUME calm[w] PROVE FoundSearch(w)'
    BY DEF FoundSearch
<1>1. /\ \A v \in atStart[w] : \E s \in Shard : v \in Held(s)
      /\ CountedOn(w) /\ SkippedBehind(w) /\ ScannedOn(w) /\ RankedOn(w) /\ AnsweredOn(w)
    BY DEF FoundSearch
<1>2. \A s \in Shard : Held(s) \subseteq Held(s)'
    BY HeldGrows
<1>3. ASSUME NEW s \in Shard, NEW v \in Held(s), Reason(w, v) PROVE Reason(w, v)'
    BY <1>2, <1>3, ReasonKept
<1>4. \A s \in Shard : \A i \in 1 .. Len(store'[s]) :
         store'[s][i] \in atStart[w] =>
             /\ i \in 1 .. Len(store[s]) /\ store'[s][i] = store[s][i]
             /\ store[s][i] \in Held(s)
    BY DEF Grows, Held
<1>5. \A v \in atStart'[w] : \E s \in Shard : v \in Held(s)'
    BY <1>1, <1>2
<1>6. CountedOn(w)'
    <2> SUFFICES ASSUME pc'[w] = "len", NEW v \in atStart'[w]
                 PROVE  total'[w] > 0 \/ \E s \in Shard : cursor'[w] <= s /\ v \in Held(s)'
        BY DEF CountedOn
    <2>1. pc[w] = "len"
        BY DEF Rests
    <2> QED
        BY <1>1, <1>2, <2>1 DEF CountedOn
<1>7. SkippedBehind(w)'
    <2>1. ASSUME pc'[w] \in {"len", "scan"} PROVE pc[w] = pc'[w]
        BY <2>1 DEF Rests
    <2>2. pc'[w] = "len" => skipped'[w] = {}
        BY <1>1, <2>1 DEF SkippedBehind
    <2>3. ASSUME pc'[w] = "scan", NEW v \in skipped'[w]
          PROVE  \E s \in Shard : s < cursor'[w] /\ v \in Held(s)'
        BY <1>1, <1>2, <2>1, <2>3 DEF SkippedBehind
    <2> QED
        BY <2>2, <2>3 DEF SkippedBehind
<1>8. ScannedOn(w)'
    <2> SUFFICES ASSUME NEW s \in Shard, IsScanned(w, s)', NEW i \in 1 .. Len(store'[s]),
                        store'[s][i] \in atStart'[w]
                 PROVE  i \in cand'[w][s] \/ Reason(w, store[s][i])'
        BY <1>4 DEF ScannedOn
    <2>1. IsScanned(w, s)
        BY DEF IsScanned, Rests
    <2>2. i \in cand[w][s] \/ Reason(w, store[s][i])
        BY <1>1, <1>4, <2>1 DEF ScannedOn
    <2> QED
        BY <1>3, <1>4, <2>2
<1>9. RankedOn(w)'
    <2> SUFFICES ASSUME NEW s \in Shard, IsRanked(w, s)', NEW i \in 1 .. Len(store'[s]),
                        store'[s][i] \in atStart'[w]
                 PROVE  \/ Entry(s, i)' \in ranked'[w]
                        \/ Beaten(w, store[s][i])'
                        \/ Reason(w, store[s][i])'
        BY <1>4 DEF RankedOn
    <2>1. IsRanked(w, s)
        BY DEF IsRanked, Rests
    <2>2. \/ Entry(s, i) \in ranked[w]
          \/ Beaten(w, store[s][i])
          \/ Reason(w, store[s][i])
        BY <1>1, <1>4, <2>1 DEF RankedOn
    <2>3. Entry(s, i)' = Entry(s, i)
        BY <1>4, ConstantsSame DEF Entry
    <2>4. Beaten(w, store[s][i]) => Beaten(w, store[s][i])'
        BY <1>4, ConstantsSame DEF Beaten
    <2> QED
        BY <1>3, <1>4, <2>2, <2>3, <2>4
<1>10. AnsweredOn(w)'
    <2> SUFFICES ASSUME pc'[w] \in Rests, NEW v \in Missing(w)'
                 PROVE  Outdone(w, v)' \/ Reason(w, v)'
        BY DEF AnsweredOn, Rests
    <2>1. pc[w] \in Rests /\ v \in Missing(w)
        BY DEF Missing
    <2>2. Outdone(w, v) \/ Reason(w, v)
        BY <1>1, <2>1 DEF AnsweredOn, Rests
    <2>3. PICK s \in Shard : v \in Held(s)
        BY <1>1, <2>1 DEF Missing
    <2>4. Outdone(w, v) => Outdone(w, v)'
        BY ConstantsSame DEF Outdone
    <2> QED
        BY <1>3, <2>2, <2>3, <2>4
<1> QED
    BY <1>5, <1>6, <1>7, <1>8, <1>9, <1>10 DEF FoundSearch

LEMMA FoundPlainStep ==
    ASSUME Sound, Sound', ClearInv, ShardsKnown, ShardsKnown', NEW w \in Worker,
           FetchAdd(w) \/ Push(w) \/ ResetCounter(w), NEW u \in Worker, FoundSearch(u)
    PROVE  FoundSearch(u)'
<1>1. Grows
    BY PushGrows, SameGrows DEF Sound, FetchAdd, ResetCounter
<1>2. /\ UNCHANGED <<cursor, total, cand, ranked, result, skipped, atStart, calm>>
      /\ \A x \in Worker \ {w} : pc'[x] = pc[x]
      /\ pc[w] \in Rests /\ pc'[w] \in Rests
    <2> USE DEF Goto, Sound, VectorTypeOK, Rests
    <2>1. CASE FetchAdd(w)
        BY <2>1 DEF FetchAdd
    <2>2. CASE Push(w)
        BY <2>2 DEF Push
    <2>3. CASE ResetCounter(w)
        BY <2>3 DEF ResetCounter
    <2> QED
        BY <2>1, <2>2, <2>3
<1>3. ASSUME calm[u], NEW s \in Shard, NEW i \in 1 .. Len(store'[s]), store'[s][i] \in atStart[u]
      PROVE  i \in 1 .. Len(store[s])
    <2>1. CASE UNCHANGED store
        BY <2>1
    <2>2. CASE Push(w)
        <3> DEFINE t == target[w]
        <3>1. PICK v \in Vec : /\ v \in adding[w] /\ t \in Shard
                               /\ store' = [store EXCEPT ![t] = Append(store[t], v)]
            BY <2>2, PushIs DEF Sound
        <3>2. store \in [Shard -> Seq(Vec)]
            BY DEF Sound, VectorTypeOK
        <3>3. v \notin atStart[u]
            BY <1>3, <3>1 DEF FoundSearch, ClearInv, AddedOnce
        <3>4. CASE s = t
            <4>1. store[s] \in Seq(Vec) /\ store'[s] = Append(store[s], v)
                BY <3>1, <3>2, <3>4
            <4>2. Len(store'[s]) = Len(store[s]) + 1 /\ store'[s][Len(store[s]) + 1] = v
                BY <4>1, AppendElements
            <4> QED
                BY <1>3, <3>3, <4>1, <4>2
        <3>5. CASE s # t
            BY <3>1, <3>2, <3>5
        <3> QED
            BY <3>4, <3>5
    <2> QED
        BY <2>1, <2>2 DEF FetchAdd, ResetCounter
<1> QED
    BY <1>1, <1>2, <1>3, FoundKept

LEMMA FoundSearchStepOthers ==
    ASSUME Sound, Sound', ShardsKnown, ShardsKnown', NEW w \in Worker, SearchStep(w),
           NEW u \in Worker \ {w}, FoundSearch(u)
    PROVE  FoundSearch(u)'
<1>1. UNCHANGED store /\ pc'[u] = pc[u] /\ cursor'[u] = cursor[u]
    BY SearchStepIs DEF Sound
<1>2. Grows
    BY <1>1, SameGrows DEF Sound
<1>3. /\ calm'[u] = calm[u] /\ cand'[u] = cand[u] /\ ranked'[u] = ranked[u]
      /\ result'[u] = result[u] /\ total'[u] = total[u] /\ skipped'[u] = skipped[u]
      /\ atStart'[u] = atStart[u]
    BY OthersUntouched DEF Sound
<1> QED
    BY <1>1, <1>2, <1>3, FoundKept

(*****************************************************************************)
(* The steps of the search itself: it takes note of what is stored, and      *)
(* counts it.                                                                *)
(*****************************************************************************)
LEMMA FoundBeginSearch ==
    ASSUME Sound, Sound', NEW w \in Worker, BeginSearch(w)
    PROVE  FoundSearch(w)'
<1>1. /\ UNCHANGED store /\ pc'[w] = "len" /\ cursor'[w] = 0
      /\ atStart'[w] = Stored /\ skipped'[w] = {}
    <2>1. /\ pc \in [Worker -> Place] /\ atStart \in [Worker -> SUBSET Vec]
          /\ skipped \in [Worker -> SUBSET Vec] /\ (pc[w] = "idle" => cursor[w] = 0)
        BY DEF Sound, VectorTypeOK, CursorsOK, Place
    <2>2. /\ pc[w] = "idle" /\ UNCHANGED <<store, cursor>>
          /\ pc' = [pc EXCEPT ![w] = "len"] /\ atStart' = [atStart EXCEPT ![w] = Stored]
          /\ skipped' = [skipped EXCEPT ![w] = {}]
        BY DEF BeginSearch, Goto
    <2> QED
        BY <2>1, <2>2
<1>2. \A s \in Shard : Held(s)' = Held(s) /\ 0 <= s
    BY <1>1, VectorAssumption DEF Held, Shard
<1>3. \A v \in atStart'[w] : \E s \in Shard : v \in Held(s)'
    BY <1>1, <1>2, StoredIs DEF Sound
<1>4. CountedOn(w)'
    BY <1>1, <1>2, <1>3 DEF CountedOn
<1>5. SkippedBehind(w)' /\ ScannedOn(w)' /\ RankedOn(w)' /\ AnsweredOn(w)'
    BY <1>1 DEF SkippedBehind, ScannedOn, IsScanned, RankedOn, IsRanked, AnsweredOn
<1> QED
    BY <1>3, <1>4, <1>5 DEF FoundSearch

LEMMA FoundCountShard ==
    ASSUME Sound, Sound', NEW w \in Worker, CountShard(w), FoundSearch(w)
    PROVE  FoundSearch(w)'
<1> DEFINE c == cursor[w]
           n == total[w] + Len(store[c])
<1>1. /\ UNCHANGED <<store, cand, ranked, result, skipped, atStart, calm>>
      /\ pc[w] = "len" /\ total'[w] = n
      /\ \/ c + 1 # NumShards /\ pc'[w] = "len" /\ cursor'[w] = c + 1
         \/ c + 1 = NumShards /\ n = 0 /\ pc'[w] = "idle"
         \/ c + 1 = NumShards /\ n # 0 /\ pc'[w] = "scan" /\ cursor'[w] = 0
    BY DEF CountShard, Advance, Goto, Sound, VectorTypeOK
<1>2. /\ c \in Shard /\ total[w] \in Nat /\ Len(store[c]) \in Nat /\ NumShards \in Nat \ {0}
      /\ \A s \in Shard : s \in Nat /\ s < NumShards
    <2>1. store \in [Shard -> Seq(Vec)] /\ c \in Shard /\ total[w] \in Nat
        BY DEF Sound, VectorTypeOK, CursorsOK
    <2> QED
        BY <2>1, VectorAssumption DEF Shard
<1> SUFFICES ASSUME calm[w] PROVE FoundSearch(w)'
    BY <1>1 DEF FoundSearch
<1>3. /\ \A v \in atStart[w] : \E s \in Shard : v \in Held(s)
      /\ CountedOn(w) /\ SkippedBehind(w)
    BY DEF FoundSearch
<1>4. \A s \in Shard : Held(s)' = Held(s)
    BY <1>1 DEF Held
<1>5. ASSUME NEW v \in atStart[w]
      PROVE  n > 0 \/ \E s \in Shard : c + 1 <= s /\ v \in Held(s)
    <2>1. CASE total[w] > 0
        BY <1>2, <2>1
    <2>2. CASE \E s \in Shard : c <= s /\ v \in Held(s)
        <3>1. PICK s \in Shard : c <= s /\ v \in Held(s)
            BY <2>2
        <3>2. CASE s = c
            <4>1. Len(store[c]) # 0
                BY <1>2, <3>1, <3>2 DEF Held
            <4> QED
                BY <1>2, <4>1
        <3>3. CASE s # c
            BY <1>2, <3>1, <3>3 DEF Shard
        <3> QED
            BY <3>2, <3>3
    <2> QED
        BY <1>1, <1>3, <2>1, <2>2 DEF CountedOn
<1> HIDE DEF n
<1>6. CountedOn(w)'
    BY <1>1, <1>4, <1>5 DEF CountedOn
<1>7. SkippedBehind(w)' /\ ScannedOn(w)' /\ RankedOn(w)'
    <2>1. skipped'[w] = {} /\ \A s \in Shard : ~ s < 0
        BY <1>1, <1>2, <1>3 DEF SkippedBehind
    <2> QED
        BY <1>1, <2>1 DEF SkippedBehind, ScannedOn, IsScanned, RankedOn, IsRanked
<1>8. AnsweredOn(w)'
    <2> SUFFICES ASSUME pc'[w] = "idle", NEW v \in atStart[w] PROVE FALSE
        BY <1>1 DEF AnsweredOn, Missing
    <2>1. n = 0 /\ c + 1 = NumShards
        BY <1>1
    <2> QED
        BY <1>2, <1>5, <2>1
<1> QED
    BY <1>1, <1>3, <1>4, <1>6, <1>7, <1>8 DEF FoundSearch

(*****************************************************************************)
(* The rerank and the merge: an entry that is left out is beaten by the TopK *)
(* that are kept.                                                            *)
(*****************************************************************************)
LEMMA TopCount ==
    ASSUME NEW all, IsFiniteSet(all), NEW best, IsTop(best, all), NEW e \in all \ best
    PROVE  /\ Cardinality(best) = TopK
           /\ \A x \in best : x.score >= e.score
<1>1. best \in SUBSET all /\ best # all
    BY DEF IsTop
<1>2. /\ IsFiniteSet(best) /\ Cardinality(best) \in Nat /\ Cardinality(all) \in Nat
      /\ Cardinality(best) # Cardinality(all)
    BY <1>1, FS_Subset, FS_CardinalityType
<1>3. Cardinality(best) = AtMost(TopK, Cardinality(all))
    BY DEF IsTop
<1> QED
    BY <1>2, <1>3, VectorAssumption DEF AtMost, IsTop

LEMMA ScoredFinite ==
    ASSUME Sound, NEW s \in Shard, NEW idxs \in SUBSET (1 .. Len(store[s]))
    PROVE  IsFiniteSet(Scored(s, idxs))
<1> DEFINE f == [i \in idxs |-> [shard |-> s, idx |-> i, score |-> Score[store[s][i]]]]
<1>1. IsFiniteSet(idxs)
    <2>1. store[s] \in Seq(Vec)
        BY DEF Sound, VectorTypeOK
    <2> QED
        BY <2>1, HeapFinite
<1>2. f \in [idxs -> Scored(s, idxs)] /\ \A y \in Scored(s, idxs) : \E i \in idxs : f[i] = y
    BY DEF Scored
<1> HIDE DEF f
<1> QED
    BY <1>1, <1>2, ImageFinite

LEMMA RankedFinite ==
    ASSUME Sound, NEW w \in Worker, RerankShard(w), IsFiniteSet(ranked[w])
    PROVE  IsFiniteSet(ranked'[w])
<1> DEFINE c == cursor[w]
           all == Scored(c, cand[w][c])
<1>1. PICK best \in SUBSET all : ranked'[w] = ranked[w] \cup best
    BY DEF RerankShard, Sound, VectorTypeOK
<1>2. c \in Shard /\ cand[w][c] \in SUBSET (1 .. Len(store[c]))
    BY DEF Sound, CursorsOK, RerankShard, InRange
<1>3. IsFiniteSet(all)
    BY <1>2, ScoredFinite
<1>4. IsFiniteSet(best)
    <2> HIDE DEF all
    <2> QED
        BY <1>1, <1>3, FS_Subset
<1> QED
    BY <1>1, <1>4, FS_Union

LEMMA FoundRerankShard ==
    ASSUME Sound, Sound', ShardsKnown, ShardsKnown', NEW w \in Worker, RerankShard(w),
           FoundSearch(w), IsFiniteSet(ranked[w]), IsFiniteSet(ranked'[w])
    PROVE  FoundSearch(w)'
<1> DEFINE c == cursor[w]
           all == Scored(c, cand[w][c])
<1>1. /\ UNCHANGED <<store, cand, result, skipped, atStart, calm>>
      /\ pc[w] = "rerank"
      /\ \/ c + 1 # NumShards /\ pc'[w] = "rerank" /\ cursor'[w] = c + 1
         \/ c + 1 = NumShards /\ pc'[w] = "merge"
    BY DEF RerankShard, Advance, Goto, Sound, VectorTypeOK
<1>2. PICK best \in SUBSET all : IsTop(best, all) /\ ranked'[w] = ranked[w] \cup best
    BY DEF RerankShard, Sound, VectorTypeOK
<1>3. /\ c \in Shard /\ NumShards \in Nat \ {0}
      /\ cand[w][c] \in SUBSET (1 .. Len(store[c]))
      /\ \A s \in Shard : s \in Nat /\ s < NumShards
    BY VectorAssumption DEF Sound, CursorsOK, RerankShard, InRange, Shard
<1>4. IsFiniteSet(all)
    BY <1>3, ScoredFinite
<1> SUFFICES ASSUME calm[w] PROVE FoundSearch(w)'
    BY <1>1 DEF FoundSearch
<1>5. /\ \A v \in atStart[w] : \E s \in Shard : v \in Held(s)
      /\ ScannedOn(w) /\ RankedOn(w)
    BY DEF FoundSearch
<1>6. \A s \in Shard : Held(s)' = Held(s)
    BY <1>1 DEF Held
<1>7. ASSUME NEW s \in Shard, NEW v \in Held(s), Reason(w, v) PROVE Reason(w, v)'
    BY <1>1, <1>6, <1>7, ReasonKept
<1>8. ASSUME NEW s \in Shard, NEW i \in 1 .. Len(store[s]) PROVE Entry(s, i)' = Entry(s, i)
    BY <1>1, ConstantsSame DEF Entry
<1>9. \A s \in Shard : \A i \in 1 .. Len(store[s]) : store[s][i] \in Held(s)
    BY DEF Held
<1>10. CountedOn(w)' /\ SkippedBehind(w)' /\ AnsweredOn(w)'
    BY <1>1 DEF CountedOn, SkippedBehind, AnsweredOn
<1>11. ScannedOn(w)'
    <2> SUFFICES ASSUME NEW s \in Shard, IsScanned(w, s)', NEW i \in 1 .. Len(store[s]),
                        store[s][i] \in atStart[w]
                 PROVE  i \in cand[w][s] \/ Reason(w, store[s][i])'
        BY <1>1 DEF ScannedOn
    <2>1. IsScanned(w, s)
        BY <1>1, <1>3 DEF IsScanned
    <2> QED
        BY <1>1, <1>5, <1>7, <1>9, <2>1 DEF ScannedOn
<1>12. RankedOn(w)'
    <2> SUFFICES ASSUME NEW s \in Shard, IsRanked(w, s)', NEW i \in 1 .. Len(store[s]),
                        store[s][i] \in atStart[w]
                 PROVE  \/ Entry(s, i) \in ranked'[w]
                        \/ Beaten(w, store[s][i])'
                        \/ Reason(w, store[s][i])'
        BY <1>1, <1>8 DEF RankedOn
    <2> DEFINE v == store[s][i]
    <2>1. s <= c
        BY <1>1, <1>3 DEF IsRanked
    <2>2. ASSUME NEW B \in SUBSET ranked'[w], Cardinality(B) >= TopK,
                 \A x \in B : x.score >= Score[v]
          PROVE  Beaten(w, store[s][i])'
        <3> DEFINE T == {x \in ranked'[w] : x.score >= Score[v]}
        <3>1. B \in SUBSET T /\ T \in SUBSET ranked'[w]
            BY <2>2
        <3>2. IsFiniteSet(T)
            <4> HIDE DEF T
            <4> QED
                BY <3>1, FS_Subset
        <3>3. Cardinality(T) >= TopK
            <4> HIDE DEF T
            <4> QED
                BY <2>2, <3>1, <3>2, Enough
        <3> QED
            BY <1>1, <3>3, ConstantsSame DEF Beaten
    <2>3. CASE s = c
        <3>1. IsScanned(w, c)
            BY <1>1, <1>3 DEF IsScanned
        <3>2. i \in cand[w][c] \/ Reason(w, v)
            BY <1>5, <2>3, <3>1 DEF ScannedOn
        <3>3. CASE i \in cand[w][c]
            <4>1. Entry(s, i) \in all
                BY <2>3, <3>3 DEF Entry, Scored
            <4>2. CASE Entry(s, i) \in best
                BY <1>2, <4>2
            <4>3. CASE Entry(s, i) \notin best
                <5> DEFINE e == Entry(s, i)
                <5>1. e.score = Score[v]
                    BY DEF Entry
                <5>2. Cardinality(best) = TopK /\ \A x \in best : x.score >= e.score
                    <6> HIDE DEF all, e
                    <6>1. e \in all \ best
                        BY <4>1, <4>3 DEF e
                    <6> QED
                        BY <1>2, <1>4, <6>1, TopCount
                <5>3. Cardinality(best) >= TopK
                    BY <5>2, VectorAssumption
                <5> HIDE DEF e, v
                <5> QED
                    BY <1>2, <2>2, <5>1, <5>2, <5>3
            <4> QED
                BY <4>2, <4>3
        <3> QED
            BY <1>1, <1>7, <1>9, <3>2, <3>3
    <2>4. CASE s # c
        <3>1. IsRanked(w, s)
            BY <1>1, <1>3, <2>1, <2>4 DEF IsRanked
        <3>2. Entry(s, i) \in ranked[w] \/ Beaten(w, v) \/ Reason(w, v)
            BY <1>5, <3>1 DEF RankedOn
        <3>3. CASE Beaten(w, v)
            <4> DEFINE B == {x \in ranked[w] : x.score >= Score[v]}
            <4>1. /\ B \in SUBSET ranked'[w] /\ Cardinality(B) >= TopK
                  /\ \A x \in B : x.score >= Score[v]
                BY <1>2, <3>3 DEF Beaten
            <4> HIDE DEF B
            <4> QED
                BY <2>2, <4>1
        <3> QED
            BY <1>1, <1>2, <1>7, <1>9, <3>2, <3>3
    <2> QED
        BY <2>3, <2>4
<1> QED
    BY <1>1, <1>5, <1>6, <1>10, <1>11, <1>12 DEF FoundSearch

LEMMA FoundMergeShards ==
    ASSUME Sound, Sound', ShardsKnown, ShardsKnown', NEW w \in Worker, MergeShards(w),
           FoundSearch(w), IsFiniteSet(ranked[w])
    PROVE  FoundSearch(w)' /\ IsFiniteSet(ranked'[w])
<1>1. /\ UNCHANGED <<store, cand, result, skipped, atStart, calm>>
      /\ pc[w] = "merge" /\ pc'[w] = "keys"
    BY DEF MergeShards, Goto, Sound, VectorTypeOK
<1> DEFINE all == ranked[w]
           best == ranked'[w]
<1>2. best \in SUBSET all /\ IsTop(best, all)
    BY DEF MergeShards, Sound, VectorTypeOK
<1>3. IsFiniteSet(best)
    BY <1>2, FS_Subset
<1> SUFFICES ASSUME calm[w] PROVE FoundSearch(w)'
    BY <1>1, <1>3 DEF FoundSearch
<1>4. /\ \A v \in atStart[w] : \E s \in Shard : v \in Held(s)
      /\ RankedOn(w)
    BY DEF FoundSearch
<1>5. \A s \in Shard : Held(s)' = Held(s)
    BY <1>1 DEF Held
<1>6. ASSUME NEW s \in Shard, NEW v \in Held(s), Reason(w, v) PROVE Reason(w, v)'
    BY <1>1, <1>5, <1>6, ReasonKept
<1>7. CountedOn(w)' /\ SkippedBehind(w)' /\ AnsweredOn(w)' /\ ScannedOn(w)'
    BY <1>1 DEF CountedOn, SkippedBehind, AnsweredOn, ScannedOn, IsScanned
<1>8. RankedOn(w)'
    <2> SUFFICES ASSUME NEW s \in Shard, NEW i \in 1 .. Len(store[s]),
                        store[s][i] \in atStart[w]
                 PROVE  \/ Entry(s, i) \in best
                        \/ Beaten(w, store[s][i])'
                        \/ Reason(w, store[s][i])'
        BY <1>1, ConstantsSame DEF RankedOn, Entry
    <2> DEFINE v == store[s][i]
               e == Entry(s, i)
               B == {x \in best : x.score >= Score[v]}
    <2>1. e \in all \/ Beaten(w, v) \/ Reason(w, v)
        BY <1>1, <1>4 DEF RankedOn, IsRanked
    <2>2. /\ Cardinality(B) >= TopK => Beaten(w, store[s][i])'
          /\ e.score = Score[v] /\ v \in Held(s) /\ Score[v] \in Int
        <3>1. Score[v] \in Int
            BY ScoreInt DEF Sound, VectorTypeOK
        <3> QED
            BY <1>1, <3>1, ConstantsSame DEF Beaten, Entry, Held
    <2>3. \A x \in all : x.score \in Int
        BY DEF Sound, VectorTypeOK, Candidate
    <2>4. CASE e \in all \ best
        <3>1. Cardinality(best) = TopK /\ \A x \in best : x.score >= e.score
            <4> HIDE DEF e, all, best
            <4> QED
                BY <1>2, <2>4, TopCount DEF all
        <3>2. B = best /\ Cardinality(best) >= TopK
            BY <2>2, <3>1, VectorAssumption
        <3> QED
            BY <2>2, <3>2
    <2>5. CASE Beaten(w, v)
        <3> DEFINE A == {x \in all : x.score >= Score[v]}
        <3>1. Cardinality(A) >= TopK
            BY <2>5 DEF Beaten
        <3>2. CASE A \subseteq best
            <4>1. B = A
                BY <1>2, <3>2
            <4> QED
                BY <2>2, <3>1, <4>1
        <3>3. CASE ~ A \subseteq best
            <4>1. PICK x \in all \ best : x.score >= Score[v]
                BY <3>3
            <4>2. Cardinality(best) = TopK /\ \A y \in best : y.score >= x.score
                <5> HIDE DEF all, best
                <5> QED
                    BY <1>2, <4>1, TopCount DEF all
            <4>3. \A y \in best : y.score >= Score[v]
                <5> SUFFICES ASSUME NEW y \in best PROVE y.score >= Score[v]
                    OBVIOUS
                <5>1. y.score \in Int /\ x.score \in Int /\ y.score >= x.score
                    BY <1>2, <2>3, <4>1, <4>2
                <5> QED
                    BY <2>2, <4>1, <5>1
            <4>4. B = best /\ Cardinality(best) >= TopK
                BY <4>2, <4>3, VectorAssumption
            <4> QED
                BY <2>2, <4>4
        <3> QED
            BY <3>2, <3>3
    <2>6. CASE Reason(w, v)
        BY <1>1, <1>6, <2>2, <2>6
    <2> QED
        BY <2>1, <2>4, <2>5, <2>6
<1> QED
    BY <1>1, <1>4, <1>5, <1>7, <1>8 DEF FoundSearch

(*****************************************************************************)
(* The keys: the answers are as many as the entries, and say the same.       *)
(*****************************************************************************)
LEMMA FoundReadKeys ==
    ASSUME Sound, Sound', CalmInv, OnePlace, ShardsKnown, ShardsKnown', NEW w \in Worker,
           ReadKeys(w), FoundSearch(w), IsFiniteSet(ranked[w])
    PROVE  FoundSearch(w)' /\ IsFiniteSet(result'[w])
<1> DEFINE Answer(x) == [vec |-> store[x.shard][x.idx], score |-> x.score]
           all == ranked[w]
           f == [x \in all |-> Answer(x)]
<1>1. /\ UNCHANGED <<store, ranked, skipped, atStart, calm>>
      /\ pc[w] = "keys" /\ pc'[w] = "idle"
      /\ result'[w] = {Answer(x) : x \in all}
    BY DEF ReadKeys, Goto, Sound, VectorTypeOK
<1>2. IsFiniteSet(result'[w])
    <2>1. f \in [all -> result'[w]] /\ \A y \in result'[w] : \E x \in all : f[x] = y
        BY <1>1
    <2> HIDE DEF f, all
    <2> QED
        BY <2>1, ImageFinite DEF all
<1> SUFFICES ASSUME calm[w] PROVE FoundSearch(w)'
    BY <1>1, <1>2 DEF FoundSearch
<1>3. /\ \A v \in atStart[w] : \E s \in Shard : v \in Held(s)
      /\ RankedOn(w)
    BY DEF FoundSearch
<1>4. \A s \in Shard : Held(s)' = Held(s)
    BY <1>1 DEF Held
<1>5. ASSUME NEW s \in Shard, NEW v \in Held(s), Reason(w, v) PROVE Reason(w, v)'
    BY <1>1, <1>4, <1>5, ReasonKept
<1>6. CountedOn(w)' /\ SkippedBehind(w)' /\ ScannedOn(w)' /\ RankedOn(w)'
    BY <1>1 DEF CountedOn, SkippedBehind, ScannedOn, IsScanned, RankedOn, IsRanked
<1>7. \A x \in all : /\ x \in Candidate /\ x.shard \in Shard
                     /\ x.idx \in 1 .. Len(store[x.shard])
    BY DEF Sound, VectorTypeOK, CalmInv, CalmSearch, Points, Candidate
<1>8. ASSUME NEW x \in all, NEW y \in all, Answer(x) = Answer(y) PROVE x = y
    <2>1. store[x.shard][x.idx] = store[y.shard][y.idx] /\ x.score = y.score
        BY <1>8
    <2>2. x.shard = y.shard /\ x.idx = y.idx
        BY <1>7, <2>1 DEF OnePlace
    <2> QED
        BY <1>7, <2>1, <2>2 DEF Candidate
<1>9. AnsweredOn(w)'
    <2> SUFFICES ASSUME NEW v \in Missing(w)' PROVE Outdone(w, v)' \/ Reason(w, v)'
        BY DEF AnsweredOn
    <2>1. v \in atStart[w] /\ \A x \in result'[w] : x.vec # v
        BY <1>1 DEF Missing
    <2>2. PICK s \in Shard : v \in Held(s)
        BY <1>3, <2>1
    <2>3. PICK i \in 1 .. Len(store[s]) : v = store[s][i]
        BY <2>2 DEF Held
    <2>4. Entry(s, i) \in all \/ Beaten(w, v) \/ Reason(w, v)
        BY <1>1, <1>3, <2>1, <2>3 DEF RankedOn, IsRanked
    <2>5. Entry(s, i) \notin all
        <3> SUFFICES ASSUME Entry(s, i) \in all PROVE FALSE
            OBVIOUS
        <3>1. Answer(Entry(s, i)).vec = v
            BY <2>3 DEF Entry
        <3> QED
            BY <1>1, <2>1, <3>1
    <2>6. CASE Beaten(w, v)
        <3> DEFINE B == {x \in all : x.score >= Score[v]}
                   T == {x \in result'[w] : x.score >= Score[v]}
                   g == [x \in B |-> Answer(x)]
        <3>1. Cardinality(B) >= TopK
            BY <2>6 DEF Beaten
        <3>2. B \in SUBSET all /\ T \in SUBSET result'[w]
            OBVIOUS
        <3>3. IsFiniteSet(B) /\ IsFiniteSet(T)
            <4> HIDE DEF B, T, all
            <4> QED
                BY <1>2, <3>2, FS_Subset DEF all
        <3>4. g \in [B -> T]
            BY <1>1
        <3>5. \A x, y \in B : g[x] = g[y] => x = y
            BY <1>8
        <3>6. Cardinality(B) <= Cardinality(T)
            <4> HIDE DEF B, T, g
            <4> QED
                BY <3>3, <3>4, <3>5, CountThrough
        <3>7. Cardinality(T) >= TopK
            <4>1. Cardinality(B) \in Nat /\ Cardinality(T) \in Nat
                BY <3>3, FS_CardinalityType
            <4> HIDE DEF B, T
            <4> QED
                BY <3>1, <3>6, <4>1, VectorAssumption
        <3>8. Outdone(w, v)'
            BY <3>7, ConstantsSame DEF Outdone
        <3> QED
            BY <3>8
    <2> QED
        BY <1>5, <2>2, <2>4, <2>5, <2>6
<1> QED
    BY <1>1, <1>3, <1>4, <1>6, <1>9 DEF FoundSearch

(*****************************************************************************)
(* The scan of a shard.                                                      *)
(*****************************************************************************)
LEMMA PerShardIs ==
    ASSUME NEW n \in Nat
    PROVE  PerShard(n) \in Nat \ {0} /\ PerShard(n) >= TopK
<1>1. n \div 500 \in Nat
    OBVIOUS
<1>2. Reranked(n) \in Nat
    BY <1>1, VectorAssumption DEF Reranked, AtLeast, AtMost
<1> DEFINE q == Reranked(n) \div NumShards
<1>3. q \in Nat
    BY <1>2, VectorAssumption, SMTT(30)
<1>4. PerShard(n) = AtLeast(q, TopK)
    BY DEF PerShard
<1> HIDE DEF q
<1> QED
    BY <1>3, <1>4, VectorAssumption DEF AtLeast

LeftOut(vs, bs, K) == UNION {VectorsOf(vs, bs[k]) : k \in K}

LEMMA FoundScanShard ==
    ASSUME Sound, Sound', OnePlace, ShardsKnown, ShardsKnown', NEW w \in Worker,
           ScanShard(w), FoundSearch(w)
    PROVE  FoundSearch(w)'
<1>0. PICK c \in Shard : c = cursor[w]
    BY DEF Sound, CursorsOK
<1> DEFINE vs == store[c]
           bs == blocks[c]
           n == Len(vs)
           r == PerShard(total[w])
<1>1. /\ UNCHANGED <<store, blocks, ranked, result, atStart, calm>>
      /\ pc[w] = "scan"
      /\ \/ pc'[w] = "scan" /\ cursor'[w] = c + 1 /\ c + 1 # NumShards
         \/ pc'[w] = "rerank" /\ cursor'[w] = 0 /\ c + 1 = NumShards
    BY <1>0 DEF ScanShard, Advance, Goto, Sound, VectorTypeOK
<1>2. /\ c \in Shard /\ vs \in Seq(Vec) /\ bs \in Seq(Block) /\ n \in Nat
      /\ Current(bs, vs)
      /\ \A s \in Shard : s \in Nat /\ s < NumShards
      /\ NumShards \in Nat \ {0}
    <2>1. \A s \in Shard : s \in Nat /\ s < NumShards
        BY VectorAssumption DEF Shard
    <2>2. store \in [Shard -> Seq(Vec)] /\ blocks \in [Shard -> Seq(Block)]
        BY DEF Sound, VectorTypeOK
    <2> QED
        BY <2>1, <2>2, BlocksCurrentIs, VectorAssumption DEF Sound
<1>3. PICK order \in ScanOrders(bs) :
         /\ cand' = [cand EXCEPT ![w][c] = HeapOf(vs, bs, order, r).heap]
         /\ skipped' = [skipped EXCEPT ![w] = @ \cup
               LeftOut(vs, bs, HeapOf(vs, bs, order, r).skipped)]
    <2> DEFINE d == cursor[w]
               Found(order) == HeapOf(store[d], blocks[d], order, r)
    <2>1. PICK order \in ScanOrders(blocks[d]) :
             /\ cand' = [cand EXCEPT ![w][d] = Found(order).heap]
             /\ skipped' = [skipped EXCEPT ![w] = @ \cup
                   LeftOut(store[d], blocks[d], Found(order).skipped)]
        BY DEF ScanShard, LeftOut
    <2>2. d = c
        BY <1>0
    <2> HIDE DEF d, r
    <2> QED
        BY <2>1, <2>2
<1>4. r \in Nat \ {0} /\ r >= TopK
    BY PerShardIs DEF Sound, VectorTypeOK
<1> DEFINE scan == HeapOf(vs, bs, order, r)
           heap == scan.heap
           spans == Spans(bs, scan.skipped)
           left == {vs[i] : i \in spans}
           kept == {vs[j] : j \in heap}
<1>5. /\ heap \in SUBSET (1 .. n)
      /\ scan.skipped \in SUBSET (1 .. Len(bs))
      /\ heap \cap spans = {}
      /\ \A i \in (1 .. n) \ heap :
            /\ Cardinality(heap) >= r
            /\ i \in spans \/ \A j \in heap : Dist[vs[j]] <= Dist[vs[i]]
    <2> HIDE DEF vs, bs, r
    <2> QED
        BY <1>2, <1>3, <1>4, HeapOfKeeps
<1>6. spans \in SUBSET (1 .. n)
    <2> HIDE DEF vs, bs, scan
    <2> QED
        BY <1>2, <1>5, SpansIn
<1>7. /\ \A s \in Shard : cand'[w][s] = IF s = c THEN heap ELSE cand[w][s]
      /\ skipped'[w] = skipped[w] \cup left
    <2>1. cand \in [Worker -> [Shard -> SUBSET Nat]] /\ skipped \in [Worker -> SUBSET Vec]
        BY DEF Sound, VectorTypeOK
    <2>2. left = LeftOut(vs, bs, scan.skipped)
        <3> HIDE DEF vs, bs, scan
        <3> QED
            BY DEF LeftOut, VectorsOf, Spans, Span
    <2>3. \A s \in Shard : cand'[w][s] = IF s = c THEN heap ELSE cand[w][s]
        <3> HIDE DEF vs, bs, r
        <3> QED
            BY <1>2, <1>3, <2>1
    <2>4. skipped'[w] = skipped[w] \cup LeftOut(vs, bs, scan.skipped)
        <3> HIDE DEF vs, bs, r
        <3> QED
            BY <1>3, <2>1
    <2> HIDE DEF left, scan, heap
    <2> QED
        BY <2>2, <2>3, <2>4
<1>8. /\ left \subseteq Held(c) /\ kept \subseteq Held(c)
      /\ \A i \in 1 .. n : vs[i] \in Held(c)
      /\ \A i, j \in 1 .. n : vs[i] = vs[j] => i = j
    <2>1. \A i \in 1 .. n : vs[i] \in Held(c)
        BY DEF Held
    <2>2. \A i, j \in 1 .. n : vs[i] = vs[j] => i = j
        BY <1>2 DEF OnePlace
    <2> HIDE DEF n, vs, heap, spans
    <2> QED
        BY <1>5, <1>6, <2>1, <2>2
<1>9. /\ \A s \in Shard : Held(s)' = Held(s)
      /\ \A s \in Shard : \A i \in 1 .. Len(store[s]) : store[s][i] \in Held(s)
    BY <1>1 DEF Held
<1> SUFFICES ASSUME calm[w] PROVE FoundSearch(w)'
    BY <1>1 DEF FoundSearch
<1>10. /\ \A v \in atStart[w] : \E s \in Shard : v \in Held(s)
       /\ SkippedBehind(w) /\ ScannedOn(w)
    BY DEF FoundSearch
<1> HIDE DEF vs, bs, n, r, scan, heap, spans, left, kept
\* what the scan keeps is not among what was left out, here or before
<1>11. skipped[w] \cap Held(c) = {}
    <2> SUFFICES ASSUME NEW v \in skipped[w], v \in Held(c) PROVE FALSE
        OBVIOUS
    <2>1. PICK s \in Shard : s < c /\ v \in Held(s)
        BY <1>0, <1>1, <1>10 DEF SkippedBehind
    <2>2. s = c
        BY <1>2, <2>1, HeldApart
    <2> QED
        BY <1>2, <2>1, <2>2
<1>12. kept \cap skipped'[w] = {}
    <2>1. kept \cap left = {}
        BY <1>5, <1>6, <1>8 DEF kept, left
    <2> QED
        BY <1>7, <1>8, <1>11, <2>1
<1>13. ASSUME NEW i \in (1 .. n) \ heap PROVE Cardinality(kept) >= TopK /\ IsFiniteSet(Held(c))
    <2> DEFINE g == [j \in heap |-> vs[j]]
    <2>1. IsFiniteSet(Held(c))
        BY <1>2 DEF ShardsKnown
    <2>2. IsFiniteSet(heap) /\ Cardinality(heap) \in Nat
        BY <1>2, <1>5, HeapFinite DEF n
    <2>3. IsFiniteSet(kept) /\ Cardinality(kept) \in Nat
        BY <1>8, <2>1, FS_Subset, FS_CardinalityType
    <2>4. g \in [heap -> kept] /\ \A x, y \in heap : g[x] = g[y] => x = y
        BY <1>5, <1>8 DEF kept
    <2>5. Cardinality(heap) <= Cardinality(kept)
        <3> HIDE DEF g
        <3> QED
            BY <2>2, <2>3, <2>4, CountThrough
    <2>6. Cardinality(heap) >= r
        BY <1>5, <1>13
    <2> QED
        BY <1>4, <2>1, <2>2, <2>3, <2>5, <2>6, VectorAssumption
<1>14. ASSUME NEW i \in (1 .. n) \ heap, NEW v, v = vs[i] PROVE Reason(w, v)'
    <2>1. v \in Held(c) /\ Held(c)' = Held(c)
        BY <1>2, <1>8, <1>9, <1>14
    <2>2. ShardOf(v)' = Held(c)
        BY <1>2, <2>1 DEF ShardsKnown
    <2>3. Cardinality(kept) >= TopK /\ IsFiniteSet(Held(c))
        BY <1>13
    <2>4. CASE i \in spans
        <3> DEFINE T == Held(c) \ skipped'[w]
        <3>1. v \in skipped'[w]
            BY <1>7, <1>14, <2>4 DEF left
        <3>2. kept \in SUBSET T /\ T \in SUBSET Held(c)
            BY <1>8, <1>12
        <3>3. Cardinality(T) >= TopK
            <4>1. IsFiniteSet(T)
                <5> HIDE DEF T
                <5> QED
                    BY <2>3, <3>2, FS_Subset
            <4> HIDE DEF T
            <4> QED
                BY <2>3, <3>2, <4>1, Enough
        <3>4. PassedOver(w, v)'
            BY <2>2, <3>1, <3>3 DEF PassedOver
        <3> QED
            BY <3>4 DEF Reason
    <2>5. CASE \A j \in heap : Dist[vs[j]] <= Dist[vs[i]]
        <3> DEFINE T == {u \in Held(c) \ {v} : Dist[u] <= Dist[v]}
        <3>1. v \notin kept
            BY <1>5, <1>8, <1>14 DEF kept
        <3>2. kept \in SUBSET T /\ T \in SUBSET Held(c)
            BY <1>8, <1>14, <2>5, <3>1 DEF kept
        <3>3. Cardinality(T) >= TopK
            <4>1. IsFiniteSet(T)
                <5> HIDE DEF T
                <5> QED
                    BY <2>3, <3>2, FS_Subset
            <4> HIDE DEF T
            <4> QED
                BY <2>3, <3>2, <4>1, Enough
        <3>4. CrowdedOut(v)'
            BY <2>2, <3>3, ConstantsSame DEF CrowdedOut
        <3> QED
            BY <3>4 DEF Reason
    <2> QED
        BY <1>5, <1>14, <2>4, <2>5
\* what was found of the shards before stays so
<1>15. ASSUME NEW s \in Shard, s # c, NEW v \in Held(s), Reason(w, v) PROVE Reason(w, v)'
    <2>1. \A u \in Held(s) : u \notin Held(c)
        BY <1>2, <1>15, HeldApart
    <2>2. \A u \in Held(s) : u \in skipped'[w] <=> u \in skipped[w]
        BY <1>7, <1>8, <2>1
    <2> QED
        BY <1>9, <1>15, <2>2, ReasonKept
<1>16. SkippedBehind(w)'
    <2> SUFFICES ASSUME pc'[w] = "scan", NEW v \in skipped'[w]
                 PROVE  \E s \in Shard : s < cursor'[w] /\ v \in Held(s)'
        BY <1>1 DEF SkippedBehind
    <2>1. cursor'[w] = c + 1
        BY <1>0, <1>1
    <2>2. CASE v \in left
        <3>1. c < c + 1 /\ v \in Held(c)'
            BY <1>2, <1>8, <1>9, <2>2
        <3> QED
            BY <1>2, <2>1, <3>1
    <2>3. CASE v \in skipped[w]
        <3>1. PICK s \in Shard : s < c /\ v \in Held(s)
            BY <1>0, <1>1, <1>10, <2>3 DEF SkippedBehind
        <3>2. s < c + 1 /\ v \in Held(s)'
            BY <1>2, <1>9, <3>1
        <3> QED
            BY <2>1, <3>2
    <2> QED
        BY <1>7, <2>2, <2>3
<1>17. ScannedOn(w)'
    <2> SUFFICES ASSUME NEW s \in Shard, IsScanned(w, s)', NEW i \in 1 .. Len(store[s]),
                        NEW v, v = store[s][i], v \in atStart[w]
                 PROVE  i \in cand'[w][s] \/ Reason(w, v)'
        BY <1>1 DEF ScannedOn
    <2>1. s <= c
        BY <1>0, <1>1, <1>2 DEF IsScanned
    <2>2. CASE s = c
        <3>1. i \in 1 .. n /\ v = vs[i]
            BY <1>0, <2>2 DEF n, vs
        <3> QED
            BY <1>7, <1>14, <2>2, <3>1
    <2>3. CASE s # c
        <3>1. IsScanned(w, s)
            BY <1>0, <1>1, <1>2, <2>1, <2>3 DEF IsScanned
        <3>2. i \in cand[w][s] \/ Reason(w, v)
            BY <1>10, <3>1 DEF ScannedOn
        <3> QED
            BY <1>7, <1>9, <1>15, <2>3, <3>2
    <2> QED
        BY <2>2, <2>3
<1>18. CountedOn(w)' /\ RankedOn(w)' /\ AnsweredOn(w)'
    <2>1. \A s \in Shard : ~ s < 0
        BY <1>2
    <2> QED
        BY <1>1, <2>1 DEF CountedOn, RankedOn, IsRanked, AnsweredOn
<1> QED
    BY <1>1, <1>9, <1>10, <1>16, <1>17, <1>18 DEF FoundSearch

(*****************************************************************************)
(* Together.                                                                 *)
(*****************************************************************************)
LEMMA OnePlaceStep == Sound /\ ClearInv /\ OnePlace /\ [VectorNext]_vectorVars => OnePlace'
<1> SUFFICES ASSUME Sound, ClearInv, OnePlace, [VectorNext]_vectorVars PROVE OnePlace'
    OBVIOUS
<1>1. CASE UNCHANGED store
    BY <1>1 DEF OnePlace
<1>2. ASSUME NEW w \in Worker, SearchStep(w) PROVE UNCHANGED store
    BY <1>2, SearchStepIs DEF Sound
<1> QED
    BY <1>1, <1>2, OnePlacePush, OnePlaceClear
    DEF VectorNext, vectorVars, SearchStep, FetchAdd, BeginClear, ResetCounter

LEMMA PlacesAlways == VectorSpec => [](Sound /\ ClearInv /\ OnePlace)
<1>1. VectorInit => Sound /\ ClearInv /\ OnePlace
    <2>1. VectorInit => OnePlace
        BY DEF VectorInit, OnePlace
    <2> QED
        BY <2>1, SoundInit, ClearInit
<1>2. (Sound /\ ClearInv /\ OnePlace) /\ [VectorNext]_vectorVars
         => (Sound /\ ClearInv /\ OnePlace)'
    BY SoundStep, ClearStep, OnePlaceStep
<1> QED
    BY <1>1, <1>2, PTL DEF VectorSpec

LEMMA FindsInit == VectorInit => Finds
<1> SUFFICES ASSUME VectorInit, NEW w \in Worker
             PROVE  IsFiniteSet(ranked[w]) /\ IsFiniteSet(result[w]) /\ FoundSearch(w)
    BY DEF Finds
<1>1. /\ pc[w] = "idle" /\ atStart[w] = {} /\ ranked[w] = {} /\ result[w] = {}
    BY DEF VectorInit
<1>2. FoundSearch(w)
    BY <1>1 DEF FoundSearch, CountedOn, SkippedBehind, ScannedOn, IsScanned, RankedOn, IsRanked,
                AnsweredOn, Missing
<1> QED
    BY <1>1, <1>2, FS_EmptySet

LEMMA FindsOwnStep ==
    ASSUME Sound, Sound', CalmInv, OnePlace, ShardsKnown, ShardsKnown', NEW w \in Worker,
           SearchStep(w), IsFiniteSet(ranked[w]), IsFiniteSet(result[w]), FoundSearch(w)
    PROVE  IsFiniteSet(ranked'[w]) /\ IsFiniteSet(result'[w]) /\ FoundSearch(w)'
<1> USE DEF Sound, VectorTypeOK
<1>1. CASE BeginSearch(w)
    <2>1. ranked'[w] = {} /\ result'[w] = {}
        BY <1>1 DEF BeginSearch
    <2> QED
        BY <1>1, <2>1, FoundBeginSearch, FS_EmptySet
<1>2. CASE CountShard(w)
    BY <1>2, FoundCountShard DEF CountShard
<1>3. CASE ScanShard(w)
    BY <1>3, FoundScanShard DEF ScanShard
<1>4. CASE RerankShard(w)
    BY <1>4, RankedFinite, FoundRerankShard DEF RerankShard
<1>5. CASE MergeShards(w)
    BY <1>5, FoundMergeShards DEF MergeShards
<1>6. CASE ReadKeys(w)
    BY <1>6, FoundReadKeys DEF ReadKeys
<1>7. CASE RerankPanics(w) \/ KeysPanic(w) \/ TaskEnds(w)
    <2>1. FoundSearch(w)'
        BY <1>7, PanicsNotCalm DEF FoundSearch
    <2> QED
        BY <1>7, <2>1 DEF RerankPanics, KeysPanic, TaskEnds
<1> QED
    BY <1>1, <1>2, <1>3, <1>4, <1>5, <1>6, <1>7 DEF SearchStep

LEMMA FindsStep ==
    ASSUME Sound, Sound', CalmInv, ClearInv, OnePlace, ShardsKnown, ShardsKnown', Finds,
           [VectorNext]_vectorVars
    PROVE  Finds'
<1> SUFFICES ASSUME NEW u \in Worker
             PROVE  IsFiniteSet(ranked'[u]) /\ IsFiniteSet(result'[u]) /\ FoundSearch(u)'
    BY DEF Finds
<1>1. IsFiniteSet(ranked[u]) /\ IsFiniteSet(result[u]) /\ FoundSearch(u)
    BY DEF Finds
<1>2. CASE UNCHANGED vectorVars
    <2>1. UNCHANGED <<store, pc, cursor, total, cand, ranked, result, skipped, atStart, calm>>
        BY <1>2 DEF vectorVars
    <2>2. Grows
        BY <2>1, SameGrows DEF Sound
    <2>3. FoundSearch(u)'
        BY <1>1, <2>1, <2>2, FoundKept
    <2> QED
        BY <1>1, <2>1, <2>3
<1>3. ASSUME NEW w \in Worker, SearchStep(w)
      PROVE  IsFiniteSet(ranked'[u]) /\ IsFiniteSet(result'[u]) /\ FoundSearch(u)'
    <2>1. CASE u = w
        BY <1>1, <1>3, <2>1, FindsOwnStep
    <2>2. CASE u # w
        <3>1. ranked'[u] = ranked[u] /\ result'[u] = result[u]
            BY <1>3, <2>2, OthersUntouched DEF Sound
        <3>2. FoundSearch(u)'
            BY <1>1, <1>3, <2>2, FoundSearchStepOthers
        <3> QED
            BY <1>1, <3>1, <3>2
    <2> QED
        BY <2>1, <2>2
<1>4. ASSUME NEW w \in Worker, FetchAdd(w) \/ Push(w) \/ ResetCounter(w)
      PROVE  IsFiniteSet(ranked'[u]) /\ IsFiniteSet(result'[u]) /\ FoundSearch(u)'
    <2>1. UNCHANGED <<ranked, result>>
        BY <1>4 DEF FetchAdd, Push, ResetCounter
    <2> QED
        BY <1>1, <1>4, <2>1, FoundPlainStep
<1>5. ASSUME NEW w \in Worker, BeginClear(w) \/ ClearShard(w)
      PROVE  IsFiniteSet(ranked'[u]) /\ IsFiniteSet(result'[u]) /\ FoundSearch(u)'
    <2>1. UNCHANGED <<ranked, result>>
        BY <1>5 DEF BeginClear, ClearShard
    <2> QED
        BY <1>1, <1>5, <2>1, ClearEndsCalm DEF FoundSearch
<1> QED
    BY <1>2, <1>3, <1>4, <1>5 DEF VectorNext, SearchStep

(*****************************************************************************)
(* What a search promises of the vectors stored when it began, whatever is   *)
(* added meanwhile: unless a FLUSHDB overlaps it, one that is missing from   *)
(* the answer was outdone by TopK answers, crowded out by TopK vectors of    *)
(* its shard that are as near, or in a block that was passed over            *)
(* (vector_store.rs:274-388).                                                *)
(*****************************************************************************)
THEOREM MissingForAReasonCorrect == VectorSpec => []MissingForAReason
<1> DEFINE Known == Sound /\ CalmInv /\ ClearInv /\ OnePlace /\ ShardsKnown
<1>1. VectorSpec => []Known
    BY CalmAlways, PlacesAlways, ShardsKnownIs, PTL DEF Sound
<1>2. Known /\ Known' /\ Finds /\ [VectorNext]_vectorVars => Finds'
    BY FindsStep
<1>3. Finds => MissingForAReason
    BY DEF Finds, FoundSearch, AnsweredOn, Answered, MissingForAReason, Reason
<1> HIDE DEF Known
<1> QED
    BY <1>1, <1>2, <1>3, FindsInit, PTL DEF VectorSpec
=============================================================================
