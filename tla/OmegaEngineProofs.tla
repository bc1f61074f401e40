------------------------- MODULE OmegaEngineProofs -------------------------
(*****************************************************************************)
(* For every set of tables and names, every slot a caller may pass to set    *)
(* and every bound: no slot is handed out that a cell has, a table lists the *)
(* cells it holds, and it arrives through its four formats as it is.         *)
(*****************************************************************************)
EXTENDS OmegaEngine, Induction, TLAPS

LEMMA Numbers ==
    /\ NoSlot \notin Nat /\ SetSlots \subseteq Nat
    /\ MaxByte \in Nat /\ CellSize \in Nat /\ CellSize >= HeaderSize
    /\ MaxSlots \in Nat /\ MaxListed \in Nat /\ MaxBatch \in Nat
BY EngineAssumption

(*****************************************************************************)
(* SlotsNotShared needs to know that what register_cell and register_batch   *)
(* take lies beyond every slot in the index.                                 *)
(*****************************************************************************)
SlotInv ==
    /\ index \in [Cell -> Nat \cup {NoSlot}]
    /\ next_pool_idx \in Nat
    /\ \A c \in Cell : index[c] # NoSlot => index[c] < next_pool_idx
    /\ SlotsNotShared

LEMMA SlotInit == EngineInit => SlotInv
BY Numbers DEF EngineInit, SlotInv, SlotsNotShared

(*****************************************************************************)
(* The slots of a batch: fresh, within what the batch took, one for each of  *)
(* its cells.                                                                *)
(*****************************************************************************)
LEMMA BatchSlots ==
    ASSUME SlotInv, NEW t \in Table, NEW pairs, NEW count \in Nat,
           NEW c \in Cell, StoreBatch(t, pairs, count)[c] # index[c]
    PROVE  \E i \in 1 .. count :
               /\ StoreBatch(t, pairs, count)[c] = next_pool_idx + i - 1
               /\ c[1] = t /\ pairs[i] = c[2]
<1>1. /\ c[1] = t
      /\ \E i \in 1 .. count : LastOf(pairs, count, c[2], i)
      /\ StoreBatch(t, pairs, count)[c] =
             next_pool_idx + (CHOOSE i \in 1 .. count : LastOf(pairs, count, c[2], i)) - 1
    BY DEF StoreBatch
<1> DEFINE last == CHOOSE i \in 1 .. count : LastOf(pairs, count, c[2], i)
<1>2. last \in 1 .. count /\ LastOf(pairs, count, c[2], last)
    BY <1>1
<1>3. pairs[last] = c[2]
    BY <1>2 DEF LastOf
<1> QED
    BY <1>1, <1>2, <1>3

LEMMA BatchKeepsSlots ==
    ASSUME SlotInv, NEW t \in Table, NEW pairs, NEW count \in Nat,
           next_pool_idx' = next_pool_idx + count,
           index' = StoreBatch(t, pairs, count), given' = given
    PROVE  SlotInv'
<1> USE DEF SlotInv
<1>1. \A c \in Cell : index'[c] # index[c] =>
          \E i \in 1 .. count : /\ index'[c] = next_pool_idx + i - 1
                                /\ c[1] = t /\ pairs[i] = c[2]
    BY BatchSlots
<1>2. index' \in [Cell -> Nat \cup {NoSlot}]
    <2>1. index' = [c \in Cell |-> index'[c]]
        BY DEF StoreBatch
    <2>2. ASSUME NEW c \in Cell PROVE index'[c] \in Nat \cup {NoSlot}
        <3>1. CASE index'[c] = index[c]
            BY <3>1
        <3>2. CASE index'[c] # index[c]
            BY <3>2, <1>1
        <3> QED
            BY <3>1, <3>2
    <2> QED
        BY <2>1, <2>2
<1>3. ASSUME NEW c \in Cell, index'[c] # NoSlot PROVE index'[c] < next_pool_idx'
    <2>1. CASE index'[c] = index[c]
        BY <1>3, <2>1
    <2>2. CASE index'[c] # index[c]
        BY <2>2, <1>1
    <2> QED
        BY <2>1, <2>2
<1>4. ASSUME NEW c \in Cell, NEW d \in Cell,
             c # d, index'[c] # NoSlot, index'[c] = index'[d]
      PROVE  index'[c] \in given'
    <2>1. CASE index'[c] = index[c] /\ index'[d] = index[d]
        BY <1>4, <2>1 DEF SlotsNotShared
    <2>2. CASE index'[c] # index[c] /\ index'[d] = index[d]
        <3>1. PICK i \in 1 .. count : index'[c] = next_pool_idx + i - 1
            BY <1>1, <2>2
        <3>2. index[d] < next_pool_idx /\ index[d] \in Nat
            BY <1>4, <2>2
        <3>3. next_pool_idx \in Nat
            OBVIOUS
        <3>4. next_pool_idx + i - 1 >= next_pool_idx
            BY <3>3
        <3> QED
            <4>1. next_pool_idx + i - 1 < next_pool_idx
                BY <1>4, <2>2, <3>1, <3>2
            <4> HIDE DEF SlotInv
            <4> QED
                BY <4>1, <3>3, <3>4
    <2>3. CASE index'[c] = index[c] /\ index'[d] # index[d]
        <3>1. PICK i \in 1 .. count : index'[d] = next_pool_idx + i - 1
            BY <1>1, <2>3
        <3>2. index[c] < next_pool_idx /\ index[c] \in Nat
            BY <1>4, <2>3
        <3>3. next_pool_idx \in Nat
            OBVIOUS
        <3>4. next_pool_idx + i - 1 >= next_pool_idx
            BY <3>3
        <3> QED
            <4>1. next_pool_idx + i - 1 < next_pool_idx
                BY <1>4, <2>3, <3>1, <3>2
            <4> HIDE DEF SlotInv
            <4> QED
                BY <4>1, <3>3, <3>4
    <2>4. CASE index'[c] # index[c] /\ index'[d] # index[d]
        <3>1. PICK i \in 1 .. count :
                  index'[c] = next_pool_idx + i - 1 /\ c[1] = t /\ pairs[i] = c[2]
            BY <1>1, <2>4
        <3>2. PICK j \in 1 .. count :
                  index'[d] = next_pool_idx + j - 1 /\ d[1] = t /\ pairs[j] = d[2]
            BY <1>1, <2>4
        <3>3. i = j
            <4>1. next_pool_idx + i - 1 = next_pool_idx + j - 1
                BY <1>4, <3>1, <3>2
            <4>2. next_pool_idx \in Nat
                OBVIOUS
            <4> HIDE DEF SlotInv
            <4> QED
                BY <4>1, <4>2
        <3>4. c = d
            <4>1. c[1] = d[1] /\ c[2] = d[2]
                BY <3>1, <3>2, <3>3
            <4>2. c = <<c[1], c[2]>> /\ d = <<d[1], d[2]>>
                BY DEF Cell
            <4> QED
                BY <4>1, <4>2
        <3> QED
            BY <1>4, <3>4
    <2> QED
        BY <2>1, <2>2, <2>3, <2>4
<1>5. next_pool_idx' \in Nat
    OBVIOUS
<1> QED
    BY <1>2, <1>3, <1>4, <1>5 DEF SlotsNotShared

LEMMA SlotStep ==
    ASSUME SlotInv, [EngineNext]_engineVars
    PROVE  SlotInv'
<1> USE DEF SlotInv
<1>1. ASSUME NEW t \in Table, NEW p \in Pair, RegisterCell(t, p)
      PROVE  SlotInv'
    <2>1. /\ <<t, p>> \in Cell /\ given' = given
          /\ next_pool_idx' = next_pool_idx + 1
          /\ index' = [index EXCEPT ![<<t, p>>] = next_pool_idx]
        BY <1>1 DEF RegisterCell, Cell
    <2> QED
        BY <2>1, Numbers DEF SlotsNotShared
<1>2. ASSUME NEW t \in Table, NEW p \in Pair, Remove(t, p)
      PROVE  SlotInv'
    <2>1. /\ <<t, p>> \in Cell /\ UNCHANGED <<given, next_pool_idx>>
          /\ index' = [index EXCEPT ![<<t, p>>] = NoSlot]
        BY <1>2 DEF Remove, Cell
    <2> QED
        BY <2>1 DEF SlotsNotShared
<1>3. ASSUME NEW t \in Table, NEW p \in Pair, NEW slot \in SetSlots, SetCell(t, p, slot)
      PROVE  SlotInv'
    <2>1. /\ <<t, p>> \in Cell /\ slot \in Nat /\ given' = given \cup {slot}
          /\ next_pool_idx' = IF slot >= next_pool_idx THEN slot + 1 ELSE next_pool_idx
          /\ index' = [index EXCEPT ![<<t, p>>] = slot]
        BY <1>3, Numbers DEF SetCell, Cell
    <2> QED
        BY <2>1, Numbers DEF SlotsNotShared
<1>4. ASSUME NEW t \in Table, NEW pairs \in Batches, NEW count \in 0 .. MaxBatch,
             RegisterBatch(t, pairs, count)
      PROVE  SlotInv'
    <2>1. /\ count \in Nat /\ given' = given
          /\ next_pool_idx' = next_pool_idx + count
          /\ index' = StoreBatch(t, pairs, count)
        BY <1>4, Numbers DEF RegisterBatch
    <2> QED
        BY <2>1, BatchKeepsSlots
<1>5. CASE Clear
    BY <1>5, Numbers DEF Clear, SlotsNotShared
<1>6. CASE UNCHANGED engineVars
    BY <1>6 DEF engineVars, SlotsNotShared
<1> QED
    BY <1>1, <1>2, <1>3, <1>4, <1>5, <1>6 DEF EngineNext

(*****************************************************************************)
(* No two cells share a slot that no caller of set asked for, for any        *)
(* sequence of calls, those that panic half way included.                    *)
(*****************************************************************************)
THEOREM EngineSharesNoSlot == EngineSpec => []SlotsNotShared
<1>1. SlotInv => SlotsNotShared
    BY DEF SlotInv
<1>2. SlotInv /\ [EngineNext]_engineVars => SlotInv'
    BY SlotStep
<1> QED
    BY <1>1, <1>2, SlotInit, PTL DEF EngineSpec
-----------------------------------------------------------------------------
(*****************************************************************************)
(* What a list holds: of a list with one more pair, of two lists one behind  *)
(* the other, of a list without a pair.                                      *)
(*****************************************************************************)
Holds(s, q) == \E i \in 1 .. Len(s) : s[i] = q

LEMMA AppendHolds ==
    ASSUME NEW s \in Seq(Pair), NEW e \in Pair
    PROVE  /\ Append(s, e) \in Seq(Pair)
           /\ \A q : Holds(Append(s, e), q) <=> Holds(s, q) \/ q = e
<1>1. /\ Append(s, e) \in Seq(Pair) /\ Len(Append(s, e)) = Len(s) + 1
      /\ \A i \in 1 .. Len(s) : Append(s, e)[i] = s[i]
      /\ Append(s, e)[Len(s) + 1] = e
    BY AppendElements
<1>2. Len(s) \in Nat
    OBVIOUS
<1> DEFINE r == Append(s, e)
<1> HIDE DEF r
<1>3. /\ r \in Seq(Pair) /\ Len(r) = Len(s) + 1
      /\ \A i \in 1 .. Len(s) : r[i] = s[i]
      /\ r[Len(s) + 1] = e
    BY <1>1 DEF r
<1>4. ASSUME NEW q, Holds(r, q) PROVE Holds(s, q) \/ q = e
    <2>1. PICK i \in 1 .. Len(s) + 1 : r[i] = q
        BY <1>3, <1>4 DEF Holds
    <2>2. i \in 1 .. Len(s) \/ i = Len(s) + 1
        BY <1>2
    <2> QED
        BY <1>3, <2>1, <2>2 DEF Holds
<1>5. ASSUME NEW q, Holds(s, q) \/ q = e PROVE Holds(r, q)
    <2>1. \A i \in 1 .. Len(s) : i \in 1 .. Len(s) + 1
        BY <1>2
    <2>2. Len(s) + 1 \in 1 .. Len(s) + 1
        BY <1>2
    <2> QED
        BY <1>3, <1>5, <2>1, <2>2 DEF Holds
<1> QED
    BY <1>1, <1>4, <1>5 DEF r

LEMMA ConcatHolds ==
    ASSUME NEW s \in Seq(Pair), NEW r \in Seq(Pair)
    PROVE  /\ s \o r \in Seq(Pair)
           /\ \A q : Holds(s \o r, q) <=> Holds(s, q) \/ Holds(r, q)
<1>1. /\ s \o r \in Seq(Pair) /\ Len(s \o r) = Len(s) + Len(r)
      /\ \A i \in 1 .. Len(s) : (s \o r)[i] = s[i]
      /\ \A j \in 1 .. Len(r) : (s \o r)[Len(s) + j] = r[j]
    BY ConcatElements
<1>2. Len(s) \in Nat /\ Len(r) \in Nat
    OBVIOUS
<1> DEFINE u == s \o r
<1> HIDE DEF u
<1>3. /\ u \in Seq(Pair) /\ Len(u) = Len(s) + Len(r)
      /\ \A i \in 1 .. Len(s) : u[i] = s[i]
      /\ \A j \in 1 .. Len(r) : u[Len(s) + j] = r[j]
    BY <1>1 DEF u
<1>4. ASSUME NEW q, Holds(u, q) PROVE Holds(s, q) \/ Holds(r, q)
    <2>1. PICK i \in 1 .. Len(s) + Len(r) : u[i] = q
        BY <1>3, <1>4 DEF Holds
    <2>2. CASE i \in 1 .. Len(s)
        BY <1>3, <2>1, <2>2 DEF Holds
    <2>3. CASE i \notin 1 .. Len(s)
        <3>1. i - Len(s) \in 1 .. Len(r) /\ Len(s) + (i - Len(s)) = i
            BY <1>2, <2>3
        <3>2. r[i - Len(s)] = u[i]
            BY <1>3, <3>1
        <3> QED
            BY <2>1, <3>1, <3>2 DEF Holds
    <2> QED
        BY <2>2, <2>3
<1>5. ASSUME NEW q, Holds(s, q) PROVE Holds(u, q)
    <2>1. PICK i \in 1 .. Len(s) : s[i] = q
        BY <1>5 DEF Holds
    <2>2. i \in 1 .. Len(s) + Len(r)
        BY <1>2
    <2> QED
        BY <1>3, <2>1, <2>2 DEF Holds
<1>6. ASSUME NEW q, Holds(r, q) PROVE Holds(u, q)
    <2>1. PICK j \in 1 .. Len(r) : r[j] = q
        BY <1>6 DEF Holds
    <2>2. Len(s) + j \in 1 .. Len(s) + Len(r)
        BY <1>2
    <2> QED
        BY <1>3, <2>1, <2>2 DEF Holds
<1> QED
    BY <1>1, <1>4, <1>5, <1>6 DEF u

LEMMA OnlySteps ==
    ASSUME NEW s \in Seq(Pair), NEW these
    PROVE  \E f \in [0 .. Len(s) -> Seq(Pair)] :
              /\ f[0] = <<>>
              /\ \A n \in 1 .. Len(s) :
                    f[n] = IF s[n] \in these THEN Append(f[n - 1], s[n]) ELSE f[n - 1]
              /\ Only(s, these) = f[Len(s)]
<1> DEFINE N == Len(s)
           V == Seq(Pair)
           Next(r, n) == IF s[n] \in these THEN Append(r, s[n]) ELSE r
           Is(g) == g = [n \in 0 .. N |-> IF n = 0 THEN <<>> ELSE Next(g[n - 1], n)]
           h == CHOOSE g : Is(g)
           step == [x \in V \X (1 .. N) |-> Next(x[1], x[2])]
<1>1. N \in Nat /\ \A n \in 1 .. N : s[n] \in Pair
    OBVIOUS
<1>2. <<>> \in V
    OBVIOUS
<1>3. ASSUME NEW r \in V, NEW n \in 1 .. N PROVE Next(r, n) \in V
    <2>1. s[n] \in Pair
        BY <1>1
    <2>2. Append(r, s[n]) \in Seq(Pair)
        BY <2>1, AppendElements
    <2> QED
        BY <2>2
<1>4. step \in StepOn(V, 1 .. N)
    <2> HIDE DEF V, Next
    <2> QED
        BY <1>3 DEF StepOn
<1>5. PICK f \in [0 .. N -> V] : Recurses(step, <<>>, N, f)
    <2> DEFINE none == <<>>
    <2>1. none \in V
        BY <1>2
    <2> HIDE DEF step, V, N, none
    <2>2. \E f \in [0 .. N -> V] : Recurses(step, none, N, f)
        BY <1>1, <1>4, <2>1, RecursionExists
    <2> QED
        BY <2>2 DEF none
<1> HIDE DEF V, Next
<1>6. ASSUME NEW n \in 1 .. N PROVE f[n] = Next(f[n - 1], n)
    <2>1. n - 1 \in 0 .. N
        BY <1>1
    <2>2. <<f[n - 1], n>> \in V \X (1 .. N)
        BY <2>1, <1>5
    <2> QED
        BY <1>5, <2>2 DEF Recurses
<1> HIDE DEF step
<1>7. f[0] = <<>> /\ Is(f)
    BY <1>1, <1>5, <1>6 DEF Recurses
<1>8. Is(h)
    BY <1>7
<1>9. Only(s, these) = h[N]
    BY DEF Only, Next
<1>10. h = f
    <2> HIDE DEF h, N
    <2>1. DefinedUpTo(N, h) /\ DefinedUpTo(N, f) /\ h[0] = f[0]
        BY <1>1, <1>5, <1>7, <1>8 DEF DefinedUpTo
    <2>2. ASSUME NEW n \in 1 .. N, h[n - 1] = f[n - 1] PROVE h[n] = f[n]
        <3>1. n \in 0 .. N /\ n # 0
            BY <1>1
        <3> QED
            BY <2>2, <3>1, <1>1, <1>6, <1>8
    <2> QED
        BY <1>1, <2>1, <2>2, RecursionUnique
<1> QED
    BY <1>5, <1>6, <1>7, <1>9, <1>10 DEF V, Next

LEMMA OnlyHolds ==
    ASSUME NEW s \in Seq(Pair), NEW these
    PROVE  /\ Only(s, these) \in Seq(Pair)
           /\ \A q : Holds(Only(s, these), q) <=> Holds(s, q) /\ q \in these
<1> DEFINE N == Len(s)
           Next(r, n) == IF s[n] \in these THEN Append(r, s[n]) ELSE r
<1>1. N \in Nat /\ \A n \in 1 .. N : s[n] \in Pair
    OBVIOUS
<1>2. PICK f \in [0 .. N -> Seq(Pair)] :
          /\ f[0] = <<>>
          /\ \A n \in 1 .. N : f[n] = Next(f[n - 1], n)
          /\ Only(s, these) = f[N]
    BY OnlySteps
<1> HIDE DEF Next
<1> DEFINE UpTo(n, q) == q \in these /\ \E i \in 1 .. n : s[i] = q
           S == {n \in 0 .. N : \A q : Holds(f[n], q) <=> UpTo(n, q)}
<1>3. 0 \in S
    <2>1. \A q : ~ Holds(f[0], q)
        BY <1>2 DEF Holds
    <2> QED
        BY <1>1, <2>1
<1>4. ASSUME NEW n \in 0 .. N - 1, n \in S PROVE n + 1 \in S
    <2>1. /\ n + 1 \in 1 .. N /\ n + 1 \in 0 .. N /\ n \in 0 .. N /\ (n + 1) - 1 = n
          /\ \A i : i \in 1 .. n + 1 <=> i \in 1 .. n \/ i = n + 1
        BY <1>1
    <2>2. f[n + 1] = Next(f[n], n + 1)
        BY <1>2, <2>1
    <2>3. f[n] \in Seq(Pair) /\ s[n + 1] \in Pair
        BY <1>1, <1>2, <2>1
    <2>4. \A q : Holds(Append(f[n], s[n + 1]), q) <=> Holds(f[n], q) \/ q = s[n + 1]
        BY <2>3, AppendHolds
    <2>5. \A q : UpTo(n + 1, q) <=> UpTo(n, q) \/ (q \in these /\ q = s[n + 1])
        BY <2>1
    <2>6. \A q : Holds(f[n], q) <=> UpTo(n, q)
        BY <1>4
    <2> HIDE DEF UpTo
    <2>7. ASSUME NEW q PROVE Holds(f[n + 1], q) <=> UpTo(n + 1, q)
        BY <2>2, <2>4, <2>5, <2>6 DEF Next
    <2> QED
        BY <2>1, <2>7
<1>5. \A n \in 0 .. N : n \in S
    <2> HIDE DEF S, N
    <2> QED
        BY <1>1, <1>3, <1>4, IntervalInduction
<1>6. N \in 0 .. N
    BY <1>1
<1>7. \A q : Holds(f[N], q) <=> UpTo(N, q)
    BY <1>5, <1>6
<1> QED
    BY <1>2, <1>6, <1>7 DEF Holds

LEMMA OnlyAll ==
    ASSUME NEW s \in Seq(Pair), NEW these, \A i \in 1 .. Len(s) : s[i] \in these
    PROVE  Only(s, these) = s
<1> DEFINE N == Len(s)
<1>1. N \in Nat /\ \A n \in 1 .. N : s[n] \in Pair
    OBVIOUS
<1>2. PICK f \in [0 .. N -> Seq(Pair)] :
          /\ f[0] = <<>>
          /\ \A n \in 1 .. N : f[n] = IF s[n] \in these THEN Append(f[n - 1], s[n]) ELSE f[n - 1]
          /\ Only(s, these) = f[N]
    BY OnlySteps
<1> DEFINE Same(n) == Len(f[n]) = n /\ \A i \in 1 .. n : f[n][i] = s[i]
           S == {n \in 0 .. N : Same(n)}
<1>3. 0 \in S
    BY <1>1, <1>2
<1>4. ASSUME NEW n \in 0 .. N - 1, n \in S PROVE n + 1 \in S
    <2>1. n + 1 \in 1 .. N /\ n + 1 \in 0 .. N /\ n \in 0 .. N /\ (n + 1) - 1 = n
        BY <1>1
    <2>2. f[n + 1] = Append(f[n], s[n + 1]) /\ f[n] \in Seq(Pair) /\ s[n + 1] \in Pair
        BY <1>1, <1>2, <2>1
    <2>3. /\ Len(Append(f[n], s[n + 1])) = Len(f[n]) + 1
          /\ \A i \in 1 .. Len(f[n]) : Append(f[n], s[n + 1])[i] = f[n][i]
          /\ Append(f[n], s[n + 1])[Len(f[n]) + 1] = s[n + 1]
        BY <2>2, AppendElements
    <2>4. Same(n)
        BY <1>4
    <2>5. Same(n + 1)
        <3>1. \A i \in 1 .. n + 1 : i \in 1 .. n \/ i = n + 1
            OBVIOUS
        <3> QED
            BY <2>2, <2>3, <2>4, <3>1
    <2> HIDE DEF Same
    <2> QED
        BY <2>1, <2>5
<1>5. \A n \in 0 .. N : n \in S
    <2> HIDE DEF S, N
    <2> QED
        BY <1>1, <1>3, <1>4, IntervalInduction
<1>6. N \in 0 .. N /\ f[N] \in Seq(Pair) /\ Same(N)
    BY <1>1, <1>2, <1>5
<1> QED
    BY <1>2, <1>6

(*****************************************************************************)
(* A batch stores the cells of its pairs, as far as there are pairs, and     *)
(* leaves every other cell as it was.                                        *)
(*****************************************************************************)
InBatch(pairs, count, q) == \E i \in 1 .. count : i <= Len(pairs) /\ pairs[i] = q

LEMMA BatchLeaves ==
    ASSUME NEW t \in Table, NEW pairs, NEW count, NEW u \in Table, NEW q \in Pair,
           ~ (u = t /\ InBatch(pairs, count, q))
    PROVE  StoreBatch(t, pairs, count)[<<u, q>>] = index[<<u, q>>]
<1>1. <<u, q>> \in Cell /\ <<u, q>>[1] = u /\ <<u, q>>[2] = q
    BY DEF Cell
<1>2. ~ (u = t /\ \E i \in 1 .. count : LastOf(pairs, count, q, i))
    BY DEF InBatch, LastOf
<1> QED
    BY <1>1, <1>2 DEF StoreBatch

LEMMA BatchSlotGiven ==
    ASSUME next_pool_idx \in Nat, NEW t \in Table, NEW pairs \in Seq(Pair),
           NEW count \in Nat, NEW q \in Pair, InBatch(pairs, count, q)
    PROVE  StoreBatch(t, pairs, count)[<<t, q>>] \in Nat
<1> DEFINE S == {i \in 1 .. count : i <= Len(pairs) /\ pairs[i] = q}
<1>1. S \in SUBSET Nat /\ S # {} /\ \A i \in S : i <= count
    BY DEF InBatch
<1>2. PICK last \in S : \A j \in S : j <= last
    <2> HIDE DEF S
    <2> QED
        BY <1>1, GreatestOf
<1>3. last \in 1 .. count /\ LastOf(pairs, count, q, last)
    <2>1. ASSUME NEW j \in last + 1 .. count, j <= Len(pairs) PROVE pairs[j] # q
        <3>1. j \in 1 .. count /\ ~ j <= last
            BY <1>2
        <3>2. j \notin S
            BY <1>2, <3>1
        <3> QED
            BY <2>1, <3>1, <3>2
    <2> QED
        BY <1>2, <2>1 DEF LastOf
<1>4. <<t, q>> \in Cell /\ <<t, q>>[1] = t /\ <<t, q>>[2] = q
    BY DEF Cell
<1> DEFINE k == CHOOSE i \in 1 .. count : LastOf(pairs, count, q, i)
<1>5. k \in 1 .. count
    BY <1>3
<1>6. StoreBatch(t, pairs, count)[<<t, q>>] = next_pool_idx + k - 1
    BY <1>3, <1>4 DEF StoreBatch
<1> HIDE DEF k
<1> QED
    BY <1>5, <1>6

(*****************************************************************************)
(* TableListsItsCells is kept because each method that stores a cell either  *)
(* lists its pair or is one of those unlisted remembers, and remove and clear*)
(* take every listing of what they take out of the index.                    *)
(*****************************************************************************)
TableInv ==
    /\ table_index \in [Table -> Seq(Pair)]
    /\ given \in SUBSET Nat
    /\ unlisted \in SUBSET Cell
    /\ TableListsItsCells

EngineInv == SlotInv /\ TableInv

LEMMA EngineInvInit == EngineInit => EngineInv
<1> SUFFICES ASSUME EngineInit PROVE TableInv
    BY SlotInit DEF EngineInv
<1>1. table_index \in [Table -> Seq(Pair)] /\ given \in SUBSET Nat /\ unlisted \in SUBSET Cell
    BY DEF EngineInit
<1>2. ASSUME NEW t \in Table, NEW p \in Pair
      PROVE  index[<<t, p>>] = NoSlot /\ ~ Listed(t, p)
    BY DEF EngineInit, Listed, Cell
<1> QED
    BY <1>1, <1>2 DEF TableInv, TableListsItsCells

(*****************************************************************************)
(* One call: what it does to the lists and to the index, pair by pair.       *)
(*****************************************************************************)
LEMMA TableStep ==
    ASSUME EngineInv, [EngineNext]_engineVars
    PROVE  TableInv'
<1>1. /\ table_index \in [Table -> Seq(Pair)]
      /\ given \in SUBSET Nat /\ unlisted \in SUBSET Cell
      /\ index \in [Cell -> Nat \cup {NoSlot}] /\ next_pool_idx \in Nat
      /\ \A t \in Table, p \in Pair : <<t, p>> \in Cell
      /\ NoSlot \notin Nat
    BY Numbers DEF EngineInv, SlotInv, TableInv, Cell
<1>2. \A u \in Table, q \in Pair :
          /\ Holds(table_index[u], q) => index[<<u, q>>] # NoSlot
          /\ index[<<u, q>>] # NoSlot => Holds(table_index[u], q) \/ <<u, q>> \in unlisted
    BY DEF EngineInv, TableInv, TableListsItsCells, Listed, Holds
<1>3. ASSUME table_index' \in [Table -> Seq(Pair)], given' \in SUBSET Nat,
             unlisted' \in SUBSET Cell,
             \A u \in Table, q \in Pair :
                /\ Holds(table_index'[u], q) => index'[<<u, q>>] # NoSlot
                /\ index'[<<u, q>>] # NoSlot =>
                      Holds(table_index'[u], q) \/ <<u, q>> \in unlisted'
      PROVE  TableInv'
    BY <1>3 DEF TableInv, TableListsItsCells, Listed, Holds
<1>4. ASSUME NEW t \in Table, NEW p \in Pair, RegisterCell(t, p)
      PROVE  TableInv'
    <2>1. /\ table_index' = [table_index EXCEPT ![t] = Append(table_index[t], p)]
          /\ index' = [index EXCEPT ![<<t, p>>] = next_pool_idx]
          /\ given' = given /\ unlisted' = unlisted
        BY <1>4 DEF RegisterCell
    <2>2. table_index[t] \in Seq(Pair)
        BY <1>1
    <2>3. /\ Append(table_index[t], p) \in Seq(Pair)
          /\ \A q : Holds(Append(table_index[t], p), q) <=> Holds(table_index[t], q) \/ q = p
        BY <2>2, AppendHolds
    <2> DEFINE r == Append(table_index[t], p)
    <2> HIDE DEF r
    <2>4. table_index' \in [Table -> Seq(Pair)]
        BY <1>1, <2>1, <2>3 DEF r
    <2>5. ASSUME NEW u \in Table, NEW q \in Pair
          PROVE  /\ Holds(table_index'[u], q) <=>
                        Holds(table_index[u], q) \/ (u = t /\ q = p)
                 /\ index'[<<u, q>>] = IF u = t /\ q = p THEN next_pool_idx
                                       ELSE index[<<u, q>>]
        <3>1. table_index'[u] = IF u = t THEN r ELSE table_index[u]
            BY <1>1, <2>1 DEF r
        <3>2. Holds(table_index'[u], q) <=> Holds(table_index[u], q) \/ (u = t /\ q = p)
            BY <2>3, <3>1 DEF r
        <3>3. <<u, q>> = <<t, p>> <=> u = t /\ q = p
            OBVIOUS
        <3> QED
            BY <1>1, <2>1, <3>2, <3>3
    <2> QED
        BY <1>1, <1>2, <1>3, <2>1, <2>4, <2>5
<1>5. ASSUME NEW t \in Table, NEW p \in Pair, Remove(t, p)
      PROVE  TableInv'
    <2>1. /\ table_index' = [table_index EXCEPT ![t] = Only(table_index[t], Pair \ {p})]
          /\ index' = [index EXCEPT ![<<t, p>>] = NoSlot]
          /\ given' = given /\ unlisted' = unlisted
        BY <1>5 DEF Remove
    <2>2. table_index[t] \in Seq(Pair)
        BY <1>1
    <2>3. /\ Only(table_index[t], Pair \ {p}) \in Seq(Pair)
          /\ \A q : Holds(Only(table_index[t], Pair \ {p}), q) <=> Holds(table_index[t], q) /\ q # p
        <3>1. /\ Only(table_index[t], Pair \ {p}) \in Seq(Pair)
              /\ \A q : Holds(Only(table_index[t], Pair \ {p}), q) <=>
                            Holds(table_index[t], q) /\ q \in Pair \ {p}
            BY <2>2, OnlyHolds
        <3>2. \A q : Holds(table_index[t], q) => q \in Pair
            BY <2>2 DEF Holds
        <3> QED
            BY <3>1, <3>2
    <2> DEFINE r == Only(table_index[t], Pair \ {p})
    <2> HIDE DEF r
    <2>4. table_index' \in [Table -> Seq(Pair)]
        BY <1>1, <2>1, <2>3 DEF r
    <2>5. ASSUME NEW u \in Table, NEW q \in Pair
          PROVE  /\ Holds(table_index'[u], q) <=>
                        Holds(table_index[u], q) /\ ~ (u = t /\ q = p)
                 /\ index'[<<u, q>>] = IF u = t /\ q = p THEN NoSlot ELSE index[<<u, q>>]
        <3>1. table_index'[u] = IF u = t THEN r ELSE table_index[u]
            BY <1>1, <2>1 DEF r
        <3>2. Holds(table_index'[u], q) <=> Holds(table_index[u], q) /\ ~ (u = t /\ q = p)
            BY <2>3, <3>1 DEF r
        <3>3. <<u, q>> = <<t, p>> <=> u = t /\ q = p
            OBVIOUS
        <3> QED
            BY <1>1, <2>1, <3>2, <3>3
    <2> QED
        BY <1>1, <1>2, <1>3, <2>1, <2>4, <2>5
<1>6. ASSUME NEW t \in Table, NEW p \in Pair, NEW slot \in SetSlots, SetCell(t, p, slot)
      PROVE  TableInv'
    <2>1. /\ table_index' = table_index
          /\ index' = [index EXCEPT ![<<t, p>>] = slot]
          /\ given' = given \cup {slot} /\ unlisted' = unlisted \cup {<<t, p>>}
          /\ slot \in Nat
        BY <1>6, Numbers DEF SetCell
    <2>2. ASSUME NEW u \in Table, NEW q \in Pair
          PROVE  index'[<<u, q>>] = IF <<u, q>> = <<t, p>> THEN slot ELSE index[<<u, q>>]
        BY <1>1, <2>1
    <2> QED
        BY <1>1, <1>2, <1>3, <2>1, <2>2
<1>7. ASSUME NEW t \in Table, NEW pairs \in Batches, NEW count \in 0 .. MaxBatch,
             RegisterBatch(t, pairs, count)
      PROVE  TableInv'
    <2>1. count \in Nat /\ pairs \in Seq(Pair) /\ Len(pairs) \in Nat
        BY Numbers DEF Batches
    <2>2. index' = StoreBatch(t, pairs, count) /\ given' = given
        BY <1>7 DEF RegisterBatch
    <2>3. ASSUME NEW u \in Table, NEW q \in Pair
          PROVE  IF u = t /\ InBatch(pairs, count, q)
                 THEN index'[<<u, q>>] # NoSlot ELSE index'[<<u, q>>] = index[<<u, q>>]
        <3>1. CASE u = t /\ InBatch(pairs, count, q)
            <4>1. StoreBatch(t, pairs, count)[<<t, q>>] \in Nat
                BY <1>1, <2>1, <3>1, BatchSlotGiven
            <4> QED
                BY <1>1, <2>2, <3>1, <4>1
        <3>2. CASE ~ (u = t /\ InBatch(pairs, count, q))
            <4>1. StoreBatch(t, pairs, count)[<<u, q>>] = index[<<u, q>>]
                BY <3>2, BatchLeaves
            <4> QED
                BY <2>2, <3>2, <4>1
        <3> QED
            BY <3>1, <3>2
    <2>4. CASE /\ count <= Len(pairs)
               /\ table_index' = [table_index EXCEPT
                                    ![t] = table_index[t] \o SubSeq(pairs, 1, count)]
               /\ unlisted' = unlisted
        <3> DEFINE b == SubSeq(pairs, 1, count)
                   r == table_index[t] \o b
        <3>1. b \in Seq(Pair) /\ Len(b) = count /\ \A i \in 1 .. count : b[i] = pairs[i]
            BY <2>1, <2>4
        <3> HIDE DEF b
        <3>2. \A q : Holds(b, q) <=> InBatch(pairs, count, q)
            BY <2>1, <2>4, <3>1 DEF Holds, InBatch
        <3>3. table_index[t] \in Seq(Pair)
            BY <1>1
        <3>4. r \in Seq(Pair) /\ \A q : Holds(r, q) <=> Holds(table_index[t], q) \/ Holds(b, q)
            BY <3>1, <3>3, ConcatHolds
        <3>5. table_index' = [table_index EXCEPT ![t] = r]
            BY <2>4 DEF b
        <3> HIDE DEF r
        <3>6. table_index' \in [Table -> Seq(Pair)]
            BY <1>1, <3>4, <3>5
        <3>7. ASSUME NEW u \in Table, NEW q \in Pair
              PROVE  Holds(table_index'[u], q) <=>
                        Holds(table_index[u], q) \/ (u = t /\ InBatch(pairs, count, q))
            <4>1. table_index'[u] = IF u = t THEN r ELSE table_index[u]
                BY <1>1, <3>5
            <4> QED
                BY <3>2, <3>4, <4>1
        <3> QED
            BY <1>1, <1>2, <1>3, <2>2, <2>3, <2>4, <3>6, <3>7
    <2>5. CASE /\ count > Len(pairs)
               /\ unlisted' = unlisted \cup {<<t, pairs[i]>> : i \in 1 .. Len(pairs)}
               /\ table_index' = table_index
        <3>1. unlisted' \in SUBSET Cell
            BY <1>1, <2>1, <2>5
        <3>2. ASSUME NEW q \in Pair, InBatch(pairs, count, q) PROVE <<t, q>> \in unlisted'
            <4>1. PICK i \in 1 .. Len(pairs) : pairs[i] = q
                BY <2>1, <3>2 DEF InBatch
            <4> QED
                BY <2>5, <4>1
        <3>3. unlisted \subseteq unlisted'
            BY <2>5
        <3> QED
            BY <1>1, <1>2, <1>3, <2>2, <2>3, <2>5, <3>1, <3>2, <3>3
    <2> QED
        BY <1>7, <2>4, <2>5 DEF RegisterBatch
<1>8. CASE Clear
    <2>1. /\ index' = [c \in Cell |-> NoSlot] /\ table_index' = [t \in Table |-> <<>>]
          /\ given' = {} /\ unlisted' = {}
        BY <1>8 DEF Clear
    <2>2. table_index' \in [Table -> Seq(Pair)]
        BY <2>1
    <2>3. ASSUME NEW u \in Table, NEW q \in Pair
          PROVE  ~ Holds(table_index'[u], q) /\ index'[<<u, q>>] = NoSlot
        BY <1>1, <2>1 DEF Holds
    <2> QED
        BY <1>3, <2>1, <2>2, <2>3
<1>9. CASE UNCHANGED engineVars
    <2>1. UNCHANGED <<index, table_index, given, unlisted>>
        BY <1>9 DEF engineVars
    <2> QED
        BY <1>1, <1>2, <1>3, <2>1
<1> QED
    BY <1>4, <1>5, <1>6, <1>7, <1>8, <1>9 DEF EngineNext

LEMMA EngineInvStep == EngineInv /\ [EngineNext]_engineVars => EngineInv'
BY SlotStep, TableStep DEF EngineInv

(*****************************************************************************)
(* The index, the lists and the counter are what the types of the source say,*)
(* and every slot in the index lies below the counter.                       *)
(*****************************************************************************)
THEOREM EngineTypeCorrect == EngineSpec => []EngineTypeOK
<1>1. EngineInv => EngineTypeOK
    <2> SUFFICES ASSUME EngineInv PROVE EngineTypeOK
        OBVIOUS
    <2>1. ASSUME NEW c \in Cell PROVE index[c] \in (0 .. next_pool_idx - 1) \cup {NoSlot}
        BY DEF EngineInv, SlotInv
    <2> QED
        BY <2>1 DEF EngineInv, SlotInv, TableInv, EngineTypeOK
<1> QED
    BY <1>1, EngineInvInit, EngineInvStep, PTL DEF EngineSpec

(*****************************************************************************)
(* For any sequence of calls, those that panic half way included: no table   *)
(* lists a cell that is not in the index, and every cell in the index is     *)
(* listed or was stored by set or by a batch that failed.                    *)
(*****************************************************************************)
THEOREM TableListsCorrect == EngineSpec => []TableListsItsCells
<1>1. EngineInv => TableListsItsCells
    BY DEF EngineInv, TableInv
<1> QED
    BY <1>1, EngineInvInit, EngineInvStep, PTL DEF EngineSpec
-----------------------------------------------------------------------------
(*****************************************************************************)
(* A table on its way out: what each of the four functions makes of what the *)
(* one before wrote.                                                         *)
(*****************************************************************************)
LEMMA NamedParts ==
    ASSUME NEW s \in Seq(Byte), Len(s) <= MaxByte
    PROVE  /\ Named(s) \in Seq(Byte) /\ Len(Named(s)) = Len(s) + 1
           /\ Named(s) = <<Len(s)>> \o s /\ <<Len(s)>> \in Seq(Byte)
<1>1. MaxByte \in Nat /\ Len(s) \in Nat
    BY Numbers
<1>2. LengthByte(s) = Len(s) /\ Len(s) \in Byte
    BY <1>1 DEF LengthByte, Byte
<1>3. <<Len(s)>> \in Seq(Byte) /\ Len(<<Len(s)>>) = 1
    BY <1>2
<1> QED
    BY <1>2, <1>3, ConcatElements DEF Named

(*****************************************************************************)
(* A value comes out of its cell as far as it fits.                          *)
(*****************************************************************************)
LengthsFit == FitsU32(CellSize)

LEMMA SmallerFits ==
    ASSUME NEW m \in Nat, NEW n \in Nat, m <= n, FitsU32(n)
    PROVE  FitsU32(m)
<1>1. \A x, y \in Nat : x <= y => x \div 256 <= y \div 256 /\ x \div 256 \in Nat /\ y \div 256 \in Nat
    OBVIOUS
<1> DEFINE a == m \div 256
           b == n \div 256
<1>2. a <= b /\ a \in Nat /\ b \in Nat
    BY <1>1
<1> HIDE DEF a, b
<1> DEFINE c == a \div 256
           d == b \div 256
<1>3. c <= d /\ c \in Nat /\ d \in Nat
    BY <1>1, <1>2
<1> HIDE DEF c, d
<1>4. c \div 256 <= d \div 256 /\ c \div 256 \in Nat /\ d \div 256 \in Nat
    BY <1>1, <1>3
<1>5. d \div 256 < 256
    BY DEF FitsU32, d, b
<1>6. c \div 256 < 256
    BY <1>4, <1>5
<1> QED
    BY <1>6 DEF FitsU32, c, a

LEMMA CellDecoded ==
    ASSUME LengthsFit, NEW v \in Seq(Byte)
    PROVE  /\ PackCell(v) \in Seq(Nat) /\ Len(PackCell(v)) = CellSize
           /\ Decoded(PackCell(v)) = Kept(v)
           /\ Kept(v) \in Seq(Byte) /\ FitsU32(Len(Kept(v)))
<1> DEFINE n == Fits(v)
           pad == [i \in 1 .. CellSize - HeaderSize - n |-> 0]
           tag == <<1>>
           num == BigEndian(n)
           head == tag \o num
           kept == Kept(v)
           most == head \o kept
           cell == PackCell(v)
<1>1. /\ CellSize \in Nat /\ CellSize >= 5 /\ HeaderSize = 5 /\ Len(v) \in Nat
    BY EngineAssumption DEF HeaderSize
<1>2. n \in Nat /\ n <= Len(v) /\ n <= CellSize - 5
    BY <1>1 DEF Fits
<1>3. FitsU32(n)
    BY <1>1, <1>2, SmallerFits DEF LengthsFit
<1>4. Byte \subseteq Nat /\ 0 .. 255 \subseteq Nat
    BY Numbers DEF Byte
<1>5. num \in Seq(Nat) /\ Len(num) = 4
    BY <1>2, <1>4, FourBytesType
<1>6. kept \in Seq(Byte) /\ Len(kept) = n
    <2>1. \A i \in 1 .. n : v[i] \in Byte
        BY <1>1, <1>2
    <2>2. /\ SubSeq(v, 1, n) \in Seq(Byte)
          /\ Len(SubSeq(v, 1, n)) = IF 1 <= n THEN n - 1 + 1 ELSE 0
        BY <1>2, <2>1, SubSeqProperties
    <2> QED
        BY <1>2, <2>2 DEF Kept
<1>7. pad \in Seq(Nat) /\ Len(pad) = CellSize - 5 - n
    BY <1>1, <1>2
<1>8. tag \in Seq(Nat) /\ Len(tag) = 1
    OBVIOUS
<1>9. kept \in Seq(Nat)
    BY <1>4, <1>6, WiderSeq
<1>10. cell = most \o pad
    BY DEF PackCell, Kept
<1> HIDE DEF n, pad, tag, num, kept, cell
<1>11. head \in Seq(Nat) /\ Len(head) = 5
    <2>1. tag \o num \in Seq(Nat) /\ Len(tag \o num) = Len(tag) + Len(num)
        BY <1>5, <1>8, ConcatElements
    <2> QED
        BY <2>1, <1>5, <1>8
<1> HIDE DEF head
<1>12. most \in Seq(Nat) /\ Len(most) = 5 + n
    <2>1. head \o kept \in Seq(Nat) /\ Len(head \o kept) = Len(head) + Len(kept)
        BY <1>9, <1>11, ConcatElements
    <2> QED
        BY <2>1, <1>6, <1>11
<1> HIDE DEF most
<1>13. cell \in Seq(Nat) /\ Len(cell) = CellSize
    <2>1. most \o pad \in Seq(Nat) /\ Len(most \o pad) = Len(most) + Len(pad)
        BY <1>7, <1>12, ConcatElements
    <2>2. (5 + n) + (CellSize - 5 - n) = CellSize
        BY <1>1, <1>2
    <2> QED
        BY <2>1, <2>2, <1>7, <1>10, <1>12
<1>14. StandsAt(cell, 0, cell)
    BY DEF StandsAt
<1>15. StandsAt(cell, 0, most)
    BY <1>7, <1>10, <1>12, <1>14, StandsApart
<1>16. StandsAt(cell, 0, head) /\ StandsAt(cell, 0 + Len(head), kept)
    BY <1>9, <1>11, <1>15, StandsApart DEF most
<1>17. StandsAt(cell, 0 + Len(tag), num)
    BY <1>5, <1>8, <1>16, StandsApart DEF head
<1>18. FromBigEndian(cell, 2) = n
    <2>1. StandsAt(cell, 1, BigEndian(n))
        BY <1>8, <1>17 DEF num
    <2>2. FromBigEndian(cell, 1 + 1) = n
        BY <1>2, <1>3, <2>1, BigEndianReads
    <2> QED
        BY <2>2
<1>19. SubSeq(cell, 6, 5 + n) = kept
    <2>1. StandsAt(cell, 5, kept)
        BY <1>11, <1>16
    <2>2. 5 + Len(kept) <= Len(cell)
        BY <1>1, <1>2, <1>6, <1>13
    <2>3. SubSeq(cell, 5 + 1, 5 + Len(kept)) = kept
        BY <1>9, <1>13, <2>1, <2>2, StandsCut
    <2> QED
        BY <2>3, <1>6
<1>20. Decoded(cell) = kept
    <2>1. Decoded(cell) = SubSeq(cell, 5 + 1, IF 5 + n < CellSize THEN 5 + n ELSE CellSize)
        BY <1>1, <1>18 DEF Decoded
    <2>2. (IF 5 + n < CellSize THEN 5 + n ELSE CellSize) = 5 + n
        BY <1>1, <1>2
    <2> QED
        BY <2>1, <2>2, <1>19
<1> QED
    BY <1>3, <1>6, <1>13, <1>20 DEF cell, kept

(*****************************************************************************)
(* Cells joined are found where batch_decode_to_blob looks for them.         *)
(*****************************************************************************)
LEMMA CellsFound ==
    ASSUME NEW cells \in Seq(Seq(Nat)), \A i \in 1 .. Len(cells) : Len(cells[i]) = CellSize
    PROVE  /\ Len(Joined(cells)) \div CellSize = Len(cells)
           /\ \A i \in 1 .. Len(cells) : CellAt(Joined(cells), i) = cells[i]
<1> DEFINE N == Len(cells)
           buffer == Joined(cells)
<1>1. /\ CellSize \in Nat /\ CellSize >= 5
      /\ N \in Nat /\ \A i \in 1 .. N : cells[i] \in Seq(Nat)
    BY EngineAssumption DEF HeaderSize
<1>2. PICK at : buffer \in Seq(Nat) /\ PartsAt(cells, buffer, at)
    BY JoinedAt
<1> HIDE DEF buffer
<1> DEFINE S == {n \in 0 .. N : at[n] = n * CellSize}
<1>3. 0 \in S
    BY <1>1, <1>2 DEF PartsAt
<1>4. ASSUME NEW n \in 0 .. N - 1, n \in S PROVE n + 1 \in S
    <2>1. n + 1 \in 1 .. N /\ n + 1 \in 0 .. N /\ (n + 1) - 1 = n /\ n \in Nat
        BY <1>1
    <2>2. at[n + 1] = at[n] + CellSize
        BY <1>2, <2>1 DEF PartsAt
    <2>3. (n + 1) * CellSize = n * CellSize + CellSize
        BY <1>1, <2>1
    <2> QED
        BY <1>4, <2>1, <2>2, <2>3
<1>5. \A n \in 0 .. N : n \in S
    <2> HIDE DEF S, N
    <2> QED
        BY <1>1, <1>3, <1>4, IntervalInduction
<1>6. Len(buffer) = N * CellSize
    <2>1. at[N] = Len(buffer)
        BY <1>2 DEF PartsAt
    <2>2. N \in 0 .. N
        BY <1>1
    <2> HIDE DEF N
    <2>3. at[N] = N * CellSize
        BY <1>5, <2>2
    <2> QED
        BY <2>1, <2>3
<1>7. (N * CellSize) \div CellSize = N
    <2>1. \A x \in Nat, y \in Nat \ {0} : (x * y) \div y = x
        OBVIOUS
    <2> QED
        BY <1>1, <2>1
<1>8. ASSUME NEW i \in 1 .. N PROVE CellAt(buffer, i) = cells[i]
    <2>1. i - 1 \in 0 .. N /\ i \in 0 .. N
        BY <1>1
    <2>2. /\ at[i - 1] = (i - 1) * CellSize /\ at[i] = i * CellSize
          /\ at[i - 1] \in Nat /\ at[i] <= Len(buffer)
          /\ at[i] = at[i - 1] + Len(cells[i]) /\ StandsAt(buffer, at[i - 1], cells[i])
        BY <1>2, <1>5, <2>1 DEF PartsAt
    <2>3. SubSeq(buffer, at[i - 1] + 1, at[i - 1] + Len(cells[i])) = cells[i]
        BY <1>1, <1>2, <2>2, StandsCut
    <2> QED
        BY <2>2, <2>3 DEF CellAt
<1>9. Len(buffer) \div CellSize = N
    BY <1>6, <1>7
<1> HIDE DEF N
<1> QED
    BY <1>8, <1>9 DEF buffer, N

(*****************************************************************************)
(* pack_columnar_data_blobs: after n rounds it stands behind the names and   *)
(* the value of cell n, and holds the cells up to it; after the last cell it *)
(* stands still.                                                             *)
(*****************************************************************************)
Columns == [row : Seq(Byte), col : Seq(Byte), val : Seq(Byte)]

NamesPart(c) == Named(c.row) \o Named(c.col)

ValuePart(c) == LittleEndian(Len(c.val)) \o c.val

NamesOf(cells) == [i \in 1 .. Len(cells) |-> NamesPart(cells[i])]

ValuesOf(cells) == [i \in 1 .. Len(cells) |-> ValuePart(cells[i])]

Writable(c) == Len(c.row) <= MaxByte /\ Len(c.col) <= MaxByte /\ FitsU32(Len(c.val))

LEMMA NamesParts ==
    ASSUME NEW c \in Columns, Writable(c), NEW meta \in Seq(Byte), NEW a \in Nat,
           a + Len(NamesPart(c)) <= Len(meta),
           StandsAt(meta, a, NamesPart(c))
    PROVE  /\ NamesPart(c) \in Seq(Byte)
           /\ Len(NamesPart(c)) = Len(c.row) + Len(c.col) + 2
           /\ meta[a + 1] = Len(c.row)
           /\ SubSeq(meta, (a + 1) + 1, (a + 1) + Len(c.row)) = c.row
           /\ meta[a + 2 + Len(c.row)] = Len(c.col)
           /\ SubSeq(meta, (a + 2 + Len(c.row)) + 1, (a + 2 + Len(c.row)) + Len(c.col)) = c.col
<1> DEFINE r == c.row
           k == c.col
           x == Len(r)
           y == Len(k)
<1>1. r \in Seq(Byte) /\ k \in Seq(Byte) /\ x <= MaxByte /\ y <= MaxByte
    BY DEF Columns, Writable
<1> HIDE DEF r, k
<1>2. /\ Named(r) \in Seq(Byte) /\ Len(Named(r)) = x + 1
      /\ Named(r) = <<x>> \o r /\ <<x>> \in Seq(Byte)
    BY <1>1, NamedParts
<1>3. /\ Named(k) \in Seq(Byte) /\ Len(Named(k)) = y + 1
      /\ Named(k) = <<y>> \o k /\ <<y>> \in Seq(Byte)
    BY <1>1, NamedParts
<1>4. x \in Nat /\ y \in Nat /\ Len(meta) \in Nat /\ Len(<<x>>) = 1 /\ Len(<<y>>) = 1
    BY <1>1
<1>5. /\ Named(r) \o Named(k) \in Seq(Byte)
      /\ Len(Named(r) \o Named(k)) = Len(Named(r)) + Len(Named(k))
    BY <1>2, <1>3, ConcatElements
<1>6. Len(Named(r) \o Named(k)) = x + y + 2 /\ a + (x + y + 2) <= Len(meta)
    <2>1. (x + 1) + (y + 1) = x + y + 2
        BY <1>4
    <2>2. a + Len(Named(r) \o Named(k)) <= Len(meta)
        BY DEF r, k, NamesPart
    <2> QED
        BY <1>2, <1>3, <1>5, <2>1, <2>2
<1>7. StandsAt(meta, a, Named(r)) /\ StandsAt(meta, a + Len(Named(r)), Named(k))
    <2>1. StandsAt(meta, a, Named(r) \o Named(k))
        BY DEF r, k, NamesPart
    <2> QED
        BY <1>2, <1>3, <2>1, StandsApart
<1>8. StandsAt(meta, a, <<x>>) /\ StandsAt(meta, a + Len(<<x>>), r)
    <2>1. StandsAt(meta, a, <<x>> \o r)
        BY <1>2, <1>7
    <2> HIDE DEF x
    <2> QED
        BY <1>1, <1>2, <2>1, StandsApart
<1> DEFINE b == a + (x + 1)
<1>9. b \in Nat
    BY <1>4
<1>10. StandsAt(meta, b, <<y>>) /\ StandsAt(meta, b + Len(<<y>>), k)
    <2>1. StandsAt(meta, b, <<y>> \o k)
        BY <1>2, <1>3, <1>7
    <2> HIDE DEF y, b
    <2> QED
        BY <1>1, <1>3, <1>9, <2>1, StandsApart
<1> HIDE DEF x, y
<1>11. meta[a + 1] = x
    BY <1>4, <1>8 DEF StandsAt
<1>12. SubSeq(meta, (a + 1) + 1, (a + 1) + x) = r
    <2>1. (a + 1) + Len(r) <= Len(meta) /\ a + 1 \in Nat
        BY <1>4, <1>6 DEF x
    <2>2. StandsAt(meta, a + 1, r)
        BY <1>4, <1>8
    <2>3. SubSeq(meta, (a + 1) + 1, (a + 1) + Len(r)) = r
        BY <1>1, <2>1, <2>2, StandsCut
    <2> QED
        BY <2>3 DEF x
<1>13. b + 1 = a + 2 + x
    BY <1>4
<1>14. meta[a + 2 + x] = y
    <2> HIDE DEF b
    <2>1. meta[b + 1] = y
        BY <1>4, <1>9, <1>10 DEF StandsAt
    <2> QED
        BY <1>13, <2>1
<1>15. SubSeq(meta, (a + 2 + x) + 1, (a + 2 + x) + y) = k
    <2>1. (a + 2 + x) + Len(k) <= Len(meta) /\ a + 2 + x \in Nat
        BY <1>4, <1>6 DEF y
    <2> HIDE DEF b
    <2>2. StandsAt(meta, a + 2 + x, k)
        BY <1>4, <1>10, <1>13
    <2>3. SubSeq(meta, (a + 2 + x) + 1, (a + 2 + x) + Len(k)) = k
        BY <1>1, <2>1, <2>2, StandsCut
    <2> QED
        BY <2>3 DEF y
<1> QED
    BY <1>5, <1>6, <1>11, <1>12, <1>14, <1>15 DEF x, y, r, k, NamesPart

LEMMA ValueParts ==
    ASSUME NEW c \in Columns, Writable(c), NEW values \in Seq(Nat), NEW a \in Nat,
           a + Len(ValuePart(c)) <= Len(values),
           StandsAt(values, a, ValuePart(c))
    PROVE  /\ ValuePart(c) \in Seq(Nat)
           /\ Len(ValuePart(c)) = Len(c.val) + 4
           /\ FromLittleEndian(values, a + 1) = Len(c.val)
           /\ SubSeq(values, (a + 4) + 1, (a + 4) + Len(c.val)) = c.val
<1> DEFINE v == c.val
           n == Len(v)
           num == LittleEndian(n)
<1>1. v \in Seq(Byte) /\ FitsU32(n)
    BY DEF Columns, Writable
<1>2. 0 .. 255 \subseteq Nat /\ Byte \subseteq Nat
    BY Numbers DEF Byte
<1> HIDE DEF v
<1>3. n \in Nat /\ Len(values) \in Nat
    BY <1>1
<1>4. v \in Seq(Nat)
    BY <1>1, <1>2, WiderSeq
<1>5. num \in Seq(Nat) /\ Len(num) = 4
    <2>1. num \in Seq(0 .. 255) /\ Len(num) = 4
        BY <1>3, FourBytesType
    <2> HIDE DEF num
    <2> QED
        BY <1>2, <2>1, WiderSeq
<1>6. /\ a + Len(num \o v) <= Len(values)
      /\ StandsAt(values, a, num \o v)
    BY DEF v, ValuePart
<1>7. num \o v \in Seq(Nat) /\ Len(num \o v) = n + 4
    <2> HIDE DEF num
    <2>1. num \o v \in Seq(Nat) /\ Len(num \o v) = Len(num) + Len(v)
        BY <1>4, <1>5, ConcatElements
    <2> QED
        BY <1>3, <1>5, <2>1
<1>8. StandsAt(values, a, num) /\ StandsAt(values, a + Len(num), v)
    <2> HIDE DEF num
    <2> QED
        BY <1>4, <1>5, <1>6, StandsApart
<1>9. FromLittleEndian(values, a + 1) = n
    <2> HIDE DEF n
    <2> QED
        BY <1>1, <1>3, <1>8, LittleEndianReads
<1>10. SubSeq(values, (a + 4) + 1, (a + 4) + Len(v)) = v
    <2> HIDE DEF num, n
    <2>1. (a + 4) + Len(v) <= Len(values) /\ a + 4 \in Nat
        BY <1>3, <1>6, <1>7 DEF n
    <2>2. StandsAt(values, a + 4, v)
        BY <1>5, <1>8
    <2> QED
        BY <1>4, <2>1, <2>2, StandsCut
<1> QED
    BY <1>7, <1>9, <1>10 DEF v, ValuePart

LEMMA PartsTyped ==
    ASSUME NEW c \in Columns, Writable(c)
    PROVE  /\ NamesPart(c) \in Seq(Byte)
           /\ Len(NamesPart(c)) >= 1
           /\ ValuePart(c) \in Seq(Nat)
<1>1. /\ c.row \in Seq(Byte) /\ c.col \in Seq(Byte) /\ c.val \in Seq(Byte)
      /\ Len(c.row) <= MaxByte /\ Len(c.col) <= MaxByte
    BY DEF Columns, Writable
<1>2. /\ Named(c.row) \in Seq(Byte) /\ Len(Named(c.row)) = Len(c.row) + 1
      /\ Named(c.col) \in Seq(Byte) /\ Len(Named(c.col)) = Len(c.col) + 1
    BY <1>1, NamedParts
<1>3. /\ NamesPart(c) \in Seq(Byte)
      /\ Len(NamesPart(c)) = Len(Named(c.row)) + Len(Named(c.col))
    BY <1>2, ConcatElements DEF NamesPart
<1>4. 0 .. 255 \subseteq Nat /\ Byte \subseteq Nat /\ Len(c.val) \in Nat
    BY <1>1, Numbers DEF Byte
<1>5. c.val \in Seq(Nat)
    BY <1>1, <1>4, WiderSeq
<1>6. LittleEndian(Len(c.val)) \in Seq(0 .. 255)
    BY <1>4, FourBytesType
<1>7. LittleEndian(Len(c.val)) \in Seq(Nat)
    <2> DEFINE four == LittleEndian(Len(c.val))
    <2>1. 0 .. 255 \subseteq Nat /\ four \in Seq(0 .. 255)
        BY <1>4, <1>6
    <2> HIDE DEF four
    <2>2. four \in Seq(Nat)
        BY <2>1, WiderSeq
    <2> QED
        BY <2>2 DEF four
<1>8. ValuePart(c) \in Seq(Nat)
    BY <1>5, <1>7, ConcatElements DEF ValuePart
<1>9. Len(c.row) \in Nat /\ Len(c.col) \in Nat
    BY <1>1
<1>10. \A x, y \in Nat : (x + 1) + (y + 1) >= 1
    OBVIOUS
<1>11. Len(NamesPart(c)) >= 1
    BY <1>2, <1>3, <1>9, <1>10
<1> QED
    BY <1>3, <1>8, <1>11

LEMMA WalkStep ==
    ASSUME NEW c \in Columns, Writable(c), NEW meta \in Seq(Byte), NEW values \in Seq(Nat),
           NEW a \in Nat, NEW b \in Nat,
           a + Len(NamesPart(c)) <= Len(meta),
           StandsAt(meta, a, NamesPart(c)),
           b + Len(ValuePart(c)) <= Len(values),
           StandsAt(values, b, ValuePart(c)),
           NEW found
    PROVE  NextCell(meta, values, [m |-> a + 1, v |-> b + 1, cells |-> found]) =
               [m |-> (a + Len(NamesPart(c))) + 1,
                v |-> (b + Len(ValuePart(c))) + 1,
                cells |-> Append(found, c)]
<1> DEFINE walk == [m |-> a + 1, v |-> b + 1, cells |-> found]
           x == Len(c.row)
           y == Len(c.col)
           z == Len(c.val)
           col == walk.m + 1 + meta[walk.m]
           val == walk.v + 4
           length == FromLittleEndian(values, walk.v)
<1>1. x \in Nat /\ y \in Nat /\ z \in Nat /\ Len(meta) \in Nat
    BY DEF Columns
<1>2. /\ Len(NamesPart(c)) = x + y + 2
      /\ meta[a + 1] = x
      /\ SubSeq(meta, (a + 1) + 1, (a + 1) + x) = c.row
      /\ meta[a + 2 + x] = y
      /\ SubSeq(meta, (a + 2 + x) + 1, (a + 2 + x) + y) = c.col
    BY NamesParts
<1>3. /\ Len(ValuePart(c)) = z + 4
      /\ FromLittleEndian(values, b + 1) = z
      /\ SubSeq(values, (b + 4) + 1, (b + 4) + z) = c.val
    BY ValueParts
<1>4. walk.m = a + 1 /\ walk.v = b + 1 /\ walk.cells = found
    OBVIOUS
<1>5. c = [row |-> c.row, col |-> c.col, val |-> c.val]
    BY DEF Columns
<1> HIDE DEF x, y, z, walk
<1>6. col = a + 2 + x /\ val = (b + 4) + 1 /\ length = z
    <2>1. length = z
        BY <1>3, <1>4
    <2>2. val = (b + 4) + 1
        BY <1>4
    <2>3. col = (a + 1) + 1 + x
        BY <1>2, <1>4
    <2> HIDE DEF col
    <2> QED
        BY <1>1, <2>1, <2>2, <2>3
<1> HIDE DEF col, val, length
<1>7. /\ col - 1 = (a + 1) + x /\ walk.m + 1 = (a + 1) + 1
      /\ col + meta[col] = (a + 2 + x) + y /\ col + 1 = (a + 2 + x) + 1
      /\ col + 1 + meta[col] = (a + (x + y + 2)) + 1
      /\ val + length - 1 = (b + 4) + z /\ val + length = (b + (z + 4)) + 1
    BY <1>1, <1>2, <1>4, <1>6
<1>8. ~ (walk.m > Len(meta) \/ col > Len(meta))
    BY <1>1, <1>2, <1>4, <1>6
<1>9. NextCell(meta, values, walk) =
          [m |-> col + 1 + meta[col], v |-> val + length,
           cells |-> Append(found, [row |-> SubSeq(meta, walk.m + 1, col - 1),
                                    col |-> SubSeq(meta, col + 1, col + meta[col]),
                                    val |-> SubSeq(values, val, val + length - 1)])]
    BY <1>4, <1>8 DEF NextCell, col, val, length
<1>10. /\ SubSeq(meta, walk.m + 1, col - 1) = c.row
       /\ SubSeq(meta, col + 1, col + meta[col]) = c.col
       /\ SubSeq(values, val, val + length - 1) = c.val
    BY <1>2, <1>3, <1>6, <1>7
<1>11. /\ col + 1 + meta[col] = (a + Len(NamesPart(c))) + 1
       /\ val + length = (b + Len(ValuePart(c))) + 1
    BY <1>2, <1>3, <1>7
<1> QED
    BY <1>5, <1>9, <1>10, <1>11 DEF walk, z

LEMMA ColumnsUnpacked ==
    ASSUME NEW cells \in Seq(Columns), \A i \in 1 .. Len(cells) : Writable(cells[i])
    PROVE  PackColumnar(Joined(NamesOf(cells)), Joined(ValuesOf(cells))) = cells
<1> DEFINE N == Len(cells)
           names == NamesOf(cells)
           vals == ValuesOf(cells)
           meta == Joined(names)
           values == Joined(vals)
<1>1. N \in Nat /\ \A i \in 1 .. N : cells[i] \in Columns /\ Writable(cells[i])
    OBVIOUS
<1>2. /\ names \in Seq(Seq(Byte)) /\ Len(names) = N
      /\ \A i \in 1 .. N : names[i] = NamesPart(cells[i])
    <2>1. \A i \in 1 .. N : NamesPart(cells[i]) \in Seq(Byte)
        BY <1>1, PartsTyped
    <2> QED
        BY <1>1, <2>1 DEF NamesOf
<1>3. /\ vals \in Seq(Seq(Nat)) /\ Len(vals) = N
      /\ \A i \in 1 .. N : vals[i] = ValuePart(cells[i])
    <2>1. \A i \in 1 .. N : ValuePart(cells[i]) \in Seq(Nat)
        BY <1>1, PartsTyped
    <2> QED
        BY <1>1, <2>1 DEF ValuesOf
<1> HIDE DEF names, vals
<1>4. PICK m : meta \in Seq(Byte) /\ PartsAt(names, meta, m)
    BY <1>2, JoinedAt
<1>5. PICK v : values \in Seq(Nat) /\ PartsAt(vals, values, v)
    BY <1>3, JoinedAt
<1> HIDE DEF meta, values, N
<1> DEFINE W(n) == [m |-> m[n] + 1, v |-> v[n] + 1, cells |-> SubSeq(cells, 1, n)]
<1>6. ASSUME NEW n \in 1 .. N PROVE NextCell(meta, values, W(n - 1)) = W(n)
    <2>1. n - 1 \in 0 .. N /\ cells[n] \in Columns /\ Writable(cells[n])
        BY <1>1
    <2> DEFINE c == cells[n]
               a == m[n - 1]
               b == v[n - 1]
               found == SubSeq(cells, 1, n - 1)
    <2>2. /\ a \in Nat /\ m[n] = a + Len(names[n]) /\ m[n] <= Len(meta)
          /\ StandsAt(meta, a, names[n])
        BY <1>2, <1>4, <2>1 DEF PartsAt
    <2>3. /\ b \in Nat /\ v[n] = b + Len(vals[n]) /\ v[n] <= Len(values)
          /\ StandsAt(values, b, vals[n])
        BY <1>3, <1>5, <2>1 DEF PartsAt
    <2>4. names[n] = NamesPart(c)
          /\ vals[n] = ValuePart(c)
        BY <1>2, <1>3
    <2>5. Append(found, c) = SubSeq(cells, 1, n)
        BY <2>1, PrefixGrows DEF N
    <2> HIDE DEF a, b, c, found
    <2>6. /\ c \in Columns /\ Writable(c)
          /\ a + Len(NamesPart(c)) <= Len(meta)
          /\ StandsAt(meta, a, NamesPart(c))
          /\ b + Len(ValuePart(c)) <= Len(values)
          /\ StandsAt(values, b, ValuePart(c))
          /\ meta \in Seq(Byte) /\ values \in Seq(Nat) /\ a \in Nat /\ b \in Nat
        BY <1>4, <1>5, <2>1, <2>2, <2>3, <2>4 DEF c
    <2> HIDE DEF W
    <2>7. NextCell(meta, values, [m |-> a + 1, v |-> b + 1, cells |-> found]) =
               [m |-> (a + Len(NamesPart(c))) + 1,
                v |-> (b + Len(ValuePart(c))) + 1,
                cells |-> Append(found, c)]
        BY <2>6, WalkStep
    <2>8. W(n) = [m |-> (a + Len(NamesPart(c))) + 1,
                  v |-> (b + Len(ValuePart(c))) + 1,
                  cells |-> Append(found, c)]
        BY <2>2, <2>3, <2>4, <2>5 DEF W
    <2>9. W(n - 1) = [m |-> a + 1, v |-> b + 1, cells |-> found]
        BY DEF a, b, found, W
    <2> QED
        BY <2>7, <2>8, <2>9
<1>7. m[N] = Len(meta) /\ N \in 0 .. N
    BY <1>1, <1>2, <1>4 DEF PartsAt
<1>8. NextCell(meta, values, W(N)) = W(N)
    <2>1. W(N).m = Len(meta) + 1 /\ Len(meta) \in Nat
        BY <1>4, <1>7
    <2> HIDE DEF W
    <2>2. W(N).m > Len(meta)
        BY <2>1
    <2> QED
        BY <2>2 DEF NextCell
<1>9. N <= Len(meta)
    <2> DEFINE S == {n \in 0 .. N : m[n] >= n}
    <2>1. 0 \in S
        BY <1>1, <1>4 DEF PartsAt
    <2>2. ASSUME NEW n \in 0 .. N - 1, n \in S PROVE n + 1 \in S
        <3>1. n + 1 \in 1 .. N /\ n + 1 \in 0 .. N /\ (n + 1) - 1 = n /\ n \in 0 .. N
            BY <1>1
        <3>2. m[n + 1] = m[n] + Len(names[n + 1]) /\ m[n] \in Nat
            BY <1>2, <1>4, <3>1 DEF PartsAt
        <3>3. cells[n + 1] \in Columns /\ Writable(cells[n + 1])
            BY <1>1, <3>1
        <3>4. names[n + 1] \in Seq(Byte) /\ Len(names[n + 1]) >= 1
            BY <1>2, <3>1, <3>3, PartsTyped
        <3>5. Len(names[n + 1]) \in Nat
            BY <3>4
        <3> QED
            BY <2>2, <3>1, <3>2, <3>4, <3>5
    <2>3. \A n \in 0 .. N : n \in S
        <3> HIDE DEF S
        <3> QED
            BY <1>1, <2>1, <2>2, IntervalInduction
    <2> QED
        BY <1>7, <2>3
<1> DEFINE L == Len(meta)
           none == [m |-> 1, v |-> 1, cells |-> <<>>]
           Is(f) == f = [n \in 0 .. L |-> IF n = 0 THEN none
                                          ELSE NextCell(meta, values, f[n - 1])]
           h == CHOOSE f : Is(f)
           g == [n \in 0 .. L |-> W(IF n <= N THEN n ELSE N)]
<1>10. L \in Nat
    BY <1>4
<1>11. W(0) = none
    <2>1. m[0] = 0 /\ v[0] = 0
        BY <1>4, <1>5 DEF PartsAt
    <2>2. SubSeq(cells, 1, 0) = <<>>
        BY SubSeqEmpty
    <2> QED
        BY <2>1, <2>2
<1>12. SubSeq(cells, 1, N) = cells
    BY DEF N
<1>13. W(N).cells = cells
    BY <1>12
<1> HIDE DEF W, none, L
<1>14. g[0] = none /\ \A n \in 1 .. L : g[n] = NextCell(meta, values, g[n - 1])
    <2>1. g[0] = none
        BY <1>1, <1>10, <1>11
    <2>2. ASSUME NEW n \in 1 .. L PROVE g[n] = NextCell(meta, values, g[n - 1])
        <3>1. n \in 0 .. L /\ n - 1 \in 0 .. L
            BY <1>10
        <3>2. /\ g[n] = W(IF n <= N THEN n ELSE N)
              /\ g[n - 1] = W(IF n - 1 <= N THEN n - 1 ELSE N)
            BY <3>1
        <3> HIDE DEF g
        <3>3. CASE n <= N
            <4>1. n \in 1 .. N /\ n - 1 <= N
                BY <1>1, <3>3
            <4> QED
                BY <1>6, <3>2, <3>3, <4>1
        <3>4. CASE ~ (n <= N)
            <4>1. (IF n - 1 <= N THEN n - 1 ELSE N) = N
                BY <1>1, <3>4
            <4> QED
                BY <1>8, <3>2, <3>4, <4>1
        <3> QED
            BY <3>3, <3>4
    <2> QED
        BY <2>1, <2>2
<1>15. Is(g)
    <2>1. ASSUME NEW n \in 0 .. L
          PROVE  g[n] = IF n = 0 THEN none ELSE NextCell(meta, values, g[n - 1])
        <3>1. n = 0 \/ n \in 1 .. L
            BY <1>10
        <3> HIDE DEF g
        <3> QED
            BY <1>14, <3>1
    <2>2. g = [n \in 0 .. L |-> g[n]]
        OBVIOUS
    <2> HIDE DEF g
    <2> QED
        BY <2>1, <2>2
<1>16. Is(h)
    BY <1>15
<1>17. PackColumnar(meta, values) = h[L].cells
    BY DEF PackColumnar, none, L
<1>18. h = g
    <2> HIDE DEF h
    <2>1. DefinedUpTo(L, h) /\ DefinedUpTo(L, g) /\ h[0] = g[0]
        BY <1>10, <1>15, <1>16 DEF DefinedUpTo
    <2>2. ASSUME NEW n \in 1 .. L, h[n - 1] = g[n - 1] PROVE h[n] = g[n]
        <3>1. n \in 0 .. L /\ n # 0
            BY <1>10
        <3> HIDE DEF g
        <3> QED
            BY <2>2, <3>1, <1>14, <1>16
    <2> HIDE DEF g
    <2> QED
        BY <1>10, <2>1, <2>2, RecursionUnique
<1>19. g[L] = W(N)
    <2>1. L \in 0 .. L /\ N <= L
        BY <1>9, <1>10 DEF L
    <2>2. (IF L <= N THEN L ELSE N) = N
        BY <1>1, <1>10, <2>1
    <2> QED
        BY <2>1, <2>2
<1> HIDE DEF h, g
<1> QED
    BY <1>13, <1>17, <1>18, <1>19 DEF meta, values, names, vals

(*****************************************************************************)
(* The engine deals out no slot past the pool.                               *)
(*****************************************************************************)
InPool == next_pool_idx <= MaxSlots

LEMMA PoolInit == EngineInit => InPool
BY Numbers DEF EngineInit, InPool

LEMMA PoolStep ==
    ASSUME EngineInv, InPool, [EngineNext]_engineVars
    PROVE  InPool'
<1>1. next_pool_idx \in Nat /\ MaxSlots \in Nat /\ SetSlots \subseteq Nat /\ MaxBatch \in Nat
    BY Numbers DEF EngineInv, SlotInv
<1>2. ASSUME NEW t \in Table, NEW p \in Pair, NEW slot \in SetSlots, SetCell(t, p, slot)
      PROVE  InPool'
    BY <1>1, <1>2 DEF SetCell, InPool
<1>3. ASSUME NEW t \in Table, NEW pairs \in Batches, NEW count \in 0 .. MaxBatch,
             RegisterBatch(t, pairs, count)
      PROVE  InPool'
    BY <1>1, <1>3 DEF RegisterBatch, InPool
<1>4. ASSUME NEW t \in Table, NEW p \in Pair, RegisterCell(t, p) \/ Remove(t, p)
      PROVE  InPool'
    BY <1>1, <1>4 DEF RegisterCell, Remove, InPool
<1>5. CASE Clear
    BY <1>1, <1>5 DEF Clear, InPool
<1>6. CASE UNCHANGED engineVars
    BY <1>6 DEF engineVars, InPool
<1> QED
    BY <1>2, <1>3, <1>4, <1>5, <1>6 DEF EngineNext

LEMMA PairNames ==
    ASSUME NEW p \in Pair
    PROVE  p.row \in Seq(Byte) /\ p.col \in Seq(Byte)
BY EngineAssumption

LEMMA PoolHolds ==
    ASSUME NEW slot \in 0 .. MaxSlots - 1
    PROVE  PoolValue[slot] \in Seq(Byte)
BY EngineAssumption

LEMMA TableArrives ==
    ASSUME LengthsFit, EngineInv, InPool, NEW t \in Table,
           \A i \in 1 .. Len(table_index[t]) : Short(table_index[t][i])
    PROVE  Export(t) = [i \in 1 .. Len(table_index[t]) |->
                           [row |-> table_index[t][i].row, col |-> table_index[t][i].col,
                            val |-> Kept(PoolValue[index[<<t, table_index[t][i]>>]])]]
<1> DEFINE pairs == table_index[t]
           N == Len(pairs)
           slot(i) == index[<<t, pairs[i]>>]
           V(i) == PoolValue[slot(i)]
           cell(i) == [row |-> pairs[i].row, col |-> pairs[i].col, val |-> Kept(V(i))]
           cells == [i \in 1 .. N |-> cell(i)]
           packed == [i \in 1 .. N |-> PackCell(V(i))]
           blob == Joined(packed)
<1>1. /\ pairs \in Seq(Pair) /\ N \in Nat /\ \A i \in 1 .. N : pairs[i] \in Pair
    BY DEF EngineInv, TableInv
<1>2. ASSUME NEW i \in 1 .. N
      PROVE  slot(i) # NoSlot /\ slot(i) \in 0 .. MaxSlots - 1
    <2>1. pairs[i] \in Pair /\ <<t, pairs[i]>> \in Cell
        BY <1>1 DEF Cell
    <2>2. Listed(t, pairs[i])
        BY DEF Listed
    <2>3. slot(i) # NoSlot
        BY <2>1, <2>2 DEF EngineInv, TableInv, TableListsItsCells
    <2>4. slot(i) \in Nat /\ slot(i) < next_pool_idx /\ next_pool_idx \in Nat
        BY <2>1, <2>3 DEF EngineInv, SlotInv
    <2>5. MaxSlots \in Nat
        BY Numbers
    <2> QED
        BY <2>3, <2>4, <2>5 DEF InPool
<1>3. Found(t) = pairs
    <2> DEFINE these == {p \in Pair : index[<<t, p>>] # NoSlot}
    <2>1. \A i \in 1 .. Len(pairs) : pairs[i] \in these
        BY <1>1, <1>2
    <2> HIDE DEF these, pairs
    <2>2. Only(pairs, these) = pairs
        BY <1>1, <2>1, OnlyAll
    <2> QED
        BY <2>2 DEF Found, these, pairs
<1>4. PoolIndices(t) = [i \in 1 .. N |-> slot(i)]
    BY <1>3 DEF PoolIndices
<1>5. /\ Len(PoolIndices(t)) = N
      /\ \A i \in 1 .. N : PoolIndices(t)[i] = slot(i)
    BY <1>1, <1>4
<1>6. \A i \in 1 .. N : V(i) \in Seq(Byte)
    BY <1>2, PoolHolds
<1>7. \A i \in 1 .. N : /\ PackCell(V(i)) \in Seq(Nat) /\ Len(PackCell(V(i))) = CellSize
                        /\ Decoded(PackCell(V(i))) = Kept(V(i))
                        /\ Kept(V(i)) \in Seq(Byte) /\ FitsU32(Len(Kept(V(i))))
    <2> HIDE DEF V
    <2> QED
        BY <1>6, CellDecoded
<1>8. [i \in 1 .. Len(PoolIndices(t)) |-> PackCell(PoolValue[PoolIndices(t)[i]])] = packed
    BY <1>5
<1> HIDE DEF V, slot
<1>9. \A i \in 1 .. N : cell(i) \in Columns /\ Writable(cell(i))
    <2> SUFFICES ASSUME NEW i \in 1 .. N PROVE cell(i) \in Columns /\ Writable(cell(i))
        OBVIOUS
    <2>1. pairs[i].row \in Seq(Byte) /\ pairs[i].col \in Seq(Byte)
        BY <1>1, PairNames
    <2>2. Len(pairs[i].row) <= MaxByte /\ Len(pairs[i].col) <= MaxByte
        BY DEF Short
    <2>3. Kept(V(i)) \in Seq(Byte) /\ FitsU32(Len(Kept(V(i))))
        BY <1>7
    <2> HIDE DEF pairs, N
    <2> QED
        BY <2>1, <2>2, <2>3 DEF Columns, Writable
<1>10. /\ cells \in Seq(Columns) /\ Len(cells) = N
       /\ \A i \in 1 .. N : cells[i] = cell(i) /\ Writable(cells[i])
    <2> HIDE DEF cell, N
    <2> QED
        BY <1>1, <1>9
<1>11. /\ packed \in Seq(Seq(Nat)) /\ Len(packed) = N
       /\ \A i \in 1 .. N : packed[i] = PackCell(V(i)) /\ Len(packed[i]) = CellSize
    <2> HIDE DEF N
    <2> QED
        BY <1>1, <1>7
<1>12. MetaBlob(t) = Joined(NamesOf(cells))
    <2>1. \A i \in 1 .. N : NamesPart(cells[i]) = Named(pairs[i].row) \o Named(pairs[i].col)
        BY <1>10 DEF NamesPart
    <2> HIDE DEF cells, N
    <2>2. NamesOf(cells) = [i \in 1 .. N |-> Named(pairs[i].row) \o Named(pairs[i].col)]
        BY <1>10, <2>1 DEF NamesOf
    <2> QED
        BY <1>3, <2>2 DEF MetaBlob, N
<1>13. DecodeToBlob(blob) = Joined(ValuesOf(cells))
    <2> HIDE DEF packed
    <2>1. /\ Len(blob) \div CellSize = N
          /\ \A i \in 1 .. N : CellAt(blob, i) = PackCell(V(i))
        <3> HIDE DEF N
        <3>1. \A i \in 1 .. Len(packed) : Len(packed[i]) = CellSize
            BY <1>11
        <3>2. /\ Len(Joined(packed)) \div CellSize = Len(packed)
              /\ \A i \in 1 .. Len(packed) : CellAt(Joined(packed), i) = packed[i]
            BY <1>11, <3>1, CellsFound
        <3> QED
            BY <1>11, <3>2
    <2> HIDE DEF blob
    <2>2. \A i \in 1 .. N : Decoded(CellAt(blob, i)) = Kept(V(i))
        BY <1>7, <2>1
    <2>3. \A i \in 1 .. N :
              ValuePart(cells[i]) =
                  LittleEndian(Len(Decoded(CellAt(blob, i)))) \o Decoded(CellAt(blob, i))
        BY <1>10, <2>2 DEF ValuePart
    <2> HIDE DEF cells, N
    <2>4. ValuesOf(cells) =
              [i \in 1 .. N |->
                  LittleEndian(Len(Decoded(CellAt(blob, i)))) \o Decoded(CellAt(blob, i))]
        BY <1>10, <2>3 DEF ValuesOf
    <2> QED
        BY <2>1, <2>4 DEF DecodeToBlob
<1>14. Export(t) = PackColumnar(MetaBlob(t), DecodeToBlob(blob))
    BY <1>8 DEF Export
<1>15. Export(t) = cells
    <2> HIDE DEF cells, blob, N
    <2>1. PackColumnar(Joined(NamesOf(cells)), Joined(ValuesOf(cells))) = cells
        BY <1>10, ColumnsUnpacked
    <2> QED
        BY <1>12, <1>13, <1>14, <2>1
<1> QED
    BY <1>15 DEF V, slot

(*****************************************************************************)
(* For every pool, table and names, and whatever was registered, set,        *)
(* removed and cleared before: a table arrives at the caller cell by cell,   *)
(* each name and each value in its place, if a cell is below 4 GiB           *)
(* (lib.rs:120-123, 162-166, 211-231).                                       *)
(*****************************************************************************)
THEOREM TablesArriveCorrect ==
    ASSUME LengthsFit
    PROVE  EngineSpec => []TablesArrive
<1>1. EngineInv /\ InPool => TablesArrive
    <2> SUFFICES ASSUME EngineInv, InPool, NEW t \in Table,
                        \A i \in 1 .. Len(table_index[t]) : Short(table_index[t][i])
                 PROVE  Export(t) =
                           [i \in 1 .. Len(table_index[t]) |->
                               [row |-> table_index[t][i].row, col |-> table_index[t][i].col,
                                val |-> Kept(PoolValue[index[<<t, table_index[t][i]>>]])]]
        BY Zenon DEF TablesArrive
    <2> QED
        BY TableArrives
<1>2. EngineInv /\ InPool /\ [EngineNext]_engineVars => (EngineInv /\ InPool)'
    BY EngineInvStep, PoolStep
<1> QED
    BY <1>1, <1>2, EngineInvInit, PoolInit, PTL DEF EngineSpec
=============================================================================
