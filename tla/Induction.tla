------------------------------ MODULE Induction ------------------------------
(*****************************************************************************)
(* Induction and primitive recursion, and what the proofs need to know of    *)
(* sequences.  The library states induction over operators, which the        *)
(* provers at hand cannot instantiate; here the predicate is the set of the  *)
(* numbers it holds for, and the step of a recursion is a function.          *)
(*****************************************************************************)
EXTENDS Bytes, TLAPS, SequenceTheorems, WellFoundedInduction

(*****************************************************************************)
(* A set of numbers that holds 0 and every successor holds them all; and the *)
(* same up to a bound.                                                       *)
(*****************************************************************************)
LEMMA SetInduction ==
    ASSUME NEW S \in SUBSET Nat, 0 \in S, \A n \in S : n + 1 \in S
    PROVE  S = Nat
<1> DEFINE less == OpToRel(<, Nat)
           rest == Nat \ S
<1>1. SUFFICES ASSUME rest # {} PROVE FALSE
    OBVIOUS
<1>2. IsWellFoundedOn(less, Nat)
    BY NatLessThanWellFounded
<1>3. PICK n \in rest : \A m \in rest : <<m, n>> \notin less
    <2> HIDE DEF less, rest
    <2>1. rest \subseteq Nat
        BY DEF rest
    <2> QED
        BY <1>1, <1>2, <2>1, WFMin
<1>4. n \in Nat \ {0} /\ n - 1 \in Nat
    OBVIOUS
<1>5. n - 1 \notin S
    BY <1>4
<1>6. <<n - 1, n>> \in less
    BY <1>4 DEF OpToRel
<1> QED
    BY <1>3, <1>4, <1>5, <1>6

LEMMA IntervalInduction ==
    ASSUME NEW N \in Nat, NEW S, 0 \in S, \A n \in 0 .. N - 1 : n \in S => n + 1 \in S
    PROVE  \A n \in 0 .. N : n \in S
<1> DEFINE upTo == {n \in Nat : n <= N => n \in S}
<1>1. 0 \in upTo
    OBVIOUS
<1>2. \A n \in upTo : n + 1 \in upTo
    OBVIOUS
<1>3. upTo = Nat
    <2> HIDE DEF upTo
    <2>1. upTo \in SUBSET Nat
        BY DEF upTo
    <2> QED
        BY <1>1, <1>2, <2>1, SetInduction
<1> QED
    BY <1>3

(*****************************************************************************)
(* A set of numbers has a least one, and below a bound a greatest one.       *)
(*****************************************************************************)
LEMMA LeastOf ==
    ASSUME NEW S \in SUBSET Nat, S # {}
    PROVE  \E m \in S : \A x \in S : m <= x
<1> DEFINE T == {n \in Nat : \A x \in S : n <= x}
<1>1. SUFFICES ASSUME \A m \in S : \E x \in S : ~ m <= x PROVE FALSE
    OBVIOUS
<1>2. 0 \in T
    OBVIOUS
<1>3. ASSUME NEW n \in T PROVE n + 1 \in T
    <2>1. n \notin S
        BY <1>1
    <2> QED
        BY <2>1
<1>4. T = Nat
    <2> HIDE DEF T
    <2>1. T \in SUBSET Nat
        BY DEF T
    <2> QED
        BY <1>2, <1>3, <2>1, SetInduction
<1>5. PICK x \in S : TRUE
    OBVIOUS
<1>6. x \in Nat
    OBVIOUS
<1>7. x + 1 \in T
    <2>1. x + 1 \in Nat
        BY <1>6
    <2> HIDE DEF T
    <2> QED
        BY <1>4, <2>1
<1>8. x + 1 <= x
    BY <1>7
<1> QED
    BY <1>6, <1>8

LEMMA GreatestOf ==
    ASSUME NEW S \in SUBSET Nat, S # {}, NEW N \in Nat, \A x \in S : x <= N
    PROVE  \E m \in S : \A x \in S : x <= m
<1> DEFINE T == {n \in Nat : \A x \in S : x <= n}
<1>1. T \in SUBSET Nat /\ T # {}
    <2>1. N \in T
        OBVIOUS
    <2> QED
        BY <2>1
<1>2. PICK m \in T : \A n \in T : m <= n
    <2> HIDE DEF T
    <2> QED
        BY <1>1, LeastOf
<1>3. m \in S
    <2> SUFFICES ASSUME m \notin S PROVE FALSE
        OBVIOUS
    <2>1. PICK x \in S : TRUE
        OBVIOUS
    <2>2. m \in Nat /\ x \in Nat /\ x <= m /\ x # m
        BY <2>1
    <2>3. m - 1 \in Nat
        BY <2>2
    <2>4. ASSUME NEW y \in S PROVE y <= m - 1
        <3>1. y \in Nat /\ y <= m /\ y # m
            OBVIOUS
        <3> QED
            BY <2>3, <3>1
    <2>5. m - 1 \in T
        BY <2>3, <2>4
    <2> HIDE DEF T
    <2> QED
        BY <1>2, <2>2, <2>3, <2>5
<1> QED
    BY <1>3

(*****************************************************************************)
(* Two functions that start alike and whose every step depends on the value  *)
(* before it are one.                                                        *)
(*****************************************************************************)
DefinedUpTo(N, f) == f = [n \in 0 .. N |-> f[n]]

LEMMA RecursionUnique ==
    ASSUME NEW N \in Nat, NEW f, NEW g, DefinedUpTo(N, f), DefinedUpTo(N, g),
           f[0] = g[0], \A n \in 1 .. N : f[n - 1] = g[n - 1] => f[n] = g[n]
    PROVE  f = g
<1> DEFINE S == {n \in 0 .. N : f[n] = g[n]}
<1>1. 0 \in S
    OBVIOUS
<1>2. ASSUME NEW n \in 0 .. N - 1, n \in S PROVE n + 1 \in S
    <2>1. n + 1 \in 1 .. N /\ (n + 1) - 1 = n /\ f[n] = g[n]
        BY <1>2
    <2> QED
        BY <2>1
<1>3. \A n \in 0 .. N : n \in S
    <2> HIDE DEF S
    <2> QED
        BY <1>1, <1>2, IntervalInduction
<1>4. \A n \in 0 .. N : f[n] = g[n]
    BY <1>3
<1> QED
    BY <1>4 DEF DefinedUpTo

(*****************************************************************************)
(* A set of sequences that holds the empty one and every sequence longer by  *)
(* one element holds them all.                                               *)
(*****************************************************************************)
LEMMA AllButLast ==
    ASSUME NEW T, NEW s \in Seq(T), NEW n \in Nat, Len(s) = n + 1
    PROVE  \E t \in Seq(T), e \in T : Len(t) = n /\ s = Append(t, e)
<1> DEFINE t == SubSeq(s, 1, n)
           e == s[n + 1]
<1>1. /\ t \in Seq(T) /\ Len(t) = n /\ e \in T
      /\ \A i \in 1 .. n : t[i] = s[i]
    OBVIOUS
<1>2. /\ Append(t, e) \in Seq(T) /\ Len(Append(t, e)) = n + 1
      /\ \A i \in 1 .. n : Append(t, e)[i] = s[i]
      /\ Append(t, e)[n + 1] = s[n + 1]
    <2> HIDE DEF t, e
    <2> QED
        BY <1>1 DEF e
<1> HIDE DEF t, e
<1>3. s = Append(t, e)
    BY <1>2, SeqEqual
<1> QED
    BY <1>1, <1>3

LEMMA SequenceInduction ==
    ASSUME NEW T, NEW S, <<>> \in S, \A s \in Seq(T), e \in T : s \in S => Append(s, e) \in S
    PROVE  \A s \in Seq(T) : s \in S
<1> DEFINE upTo == {n \in Nat : \A s \in Seq(T) : Len(s) = n => s \in S}
<1>1. 0 \in upTo
    <2>1. \A s \in Seq(T) : Len(s) = 0 => s = <<>>
        BY EmptySeq
    <2> QED
        BY <2>1
<1>2. ASSUME NEW n \in upTo PROVE n + 1 \in upTo
    <2>1. ASSUME NEW s \in Seq(T), Len(s) = n + 1 PROVE s \in S
        <3>1. PICK t \in Seq(T), e \in T : Len(t) = n /\ s = Append(t, e)
            BY <2>1, AllButLast
        <3>2. t \in S
            BY <3>1
        <3> QED
            BY <3>1, <3>2
    <2> QED
        BY <2>1
<1>3. upTo = Nat
    <2> HIDE DEF upTo
    <2>1. upTo \in SUBSET Nat
        BY DEF upTo
    <2> QED
        BY <1>1, <1>2, <2>1, SetInduction
<1> QED
    <2> TAKE s \in Seq(T)
    <2>1. Len(s) \in upTo
        BY <1>3
    <2> QED
        BY <2>1
-----------------------------------------------------------------------------
(*****************************************************************************)
(* Sequences, element by element, and compared in two parts.                 *)
(*****************************************************************************)
LEMMA WiderSeq ==
    ASSUME NEW S, NEW T, S \subseteq T, NEW s \in Seq(S)
    PROVE  s \in Seq(T)
OBVIOUS

LEMMA AppendElements ==
    ASSUME NEW S, NEW s \in Seq(S), NEW e \in S
    PROVE  /\ Append(s, e) \in Seq(S) /\ Len(Append(s, e)) = Len(s) + 1
           /\ \A i \in 1 .. Len(s) : Append(s, e)[i] = s[i]
           /\ Append(s, e)[Len(s) + 1] = e
OBVIOUS

LEMMA ExceptElements ==
    ASSUME NEW S, NEW s \in Seq(S), NEW k \in 1 .. Len(s), NEW e \in S
    PROVE  /\ [s EXCEPT ![k] = e] \in Seq(S) /\ Len([s EXCEPT ![k] = e]) = Len(s)
           /\ \A i \in 1 .. Len(s) : [s EXCEPT ![k] = e][i] = IF i = k THEN e ELSE s[i]
OBVIOUS

LEMMA PrefixGrows ==
    ASSUME NEW S, NEW s \in Seq(S), NEW n \in 1 .. Len(s)
    PROVE  Append(SubSeq(s, 1, n - 1), s[n]) = SubSeq(s, 1, n)
<1> DEFINE less == SubSeq(s, 1, n - 1)
           more == SubSeq(s, 1, n)
<1>1. n \in Nat /\ n >= 1 /\ n - 1 \in Nat /\ \A i \in 1 .. n : s[i] \in S
    OBVIOUS
<1>2. less \in Seq(S) /\ Len(less) = n - 1 /\ \A i \in 1 .. n - 1 : less[i] = s[i]
    <2>1. \A i \in 1 .. n - 1 : s[i] \in S
        BY <1>1
    <2>2. /\ SubSeq(s, 1, n - 1) \in Seq(S)
          /\ Len(SubSeq(s, 1, n - 1)) = IF 1 <= n - 1 THEN (n - 1) - 1 + 1 ELSE 0
          /\ \A i \in 1 .. (n - 1) - 1 + 1 : SubSeq(s, 1, n - 1)[i] = s[1 + i - 1]
        BY <1>1, <2>1, SubSeqProperties
    <2> QED
        BY <1>1, <2>2
<1>3. more \in Seq(S) /\ Len(more) = n /\ \A i \in 1 .. n : more[i] = s[i]
    <2>1. /\ SubSeq(s, 1, n) \in Seq(S)
          /\ Len(SubSeq(s, 1, n)) = IF 1 <= n THEN n - 1 + 1 ELSE 0
          /\ \A i \in 1 .. n - 1 + 1 : SubSeq(s, 1, n)[i] = s[1 + i - 1]
        BY <1>1, SubSeqProperties
    <2> QED
        BY <1>1, <2>1
<1> HIDE DEF less, more
<1>4. /\ Append(less, s[n]) \in Seq(S) /\ Len(Append(less, s[n])) = Len(less) + 1
      /\ \A i \in 1 .. Len(less) : Append(less, s[n])[i] = less[i]
      /\ Append(less, s[n])[Len(less) + 1] = s[n]
    BY <1>1, <1>2, AppendElements
<1>5. \A i \in 1 .. n : Append(less, s[n])[i] = more[i]
    <2>1. \A i \in 1 .. n : i \in 1 .. n - 1 \/ i = n
        BY <1>1
    <2> QED
        BY <1>1, <1>2, <1>3, <1>4, <2>1
<1>6. Append(less, s[n]) = more
    BY <1>1, <1>2, <1>3, <1>4, <1>5, SeqEqual
<1> QED
    BY <1>6 DEF less, more

LEMMA ConcatElements ==
    ASSUME NEW S, NEW s \in Seq(S), NEW t \in Seq(S)
    PROVE  /\ s \o t \in Seq(S) /\ Len(s \o t) = Len(s) + Len(t)
           /\ \A i \in 1 .. Len(s) : (s \o t)[i] = s[i]
           /\ \A j \in 1 .. Len(t) : (s \o t)[Len(s) + j] = t[j]
<1>1. /\ s \o t \in Seq(S) /\ Len(s \o t) = Len(s) + Len(t)
      /\ \A i \in 1 .. Len(s) + Len(t) : (s \o t)[i] =
              IF i <= Len(s) THEN s[i] ELSE t[i - Len(s)]
    BY ConcatProperties
<1>2. Len(s) \in Nat /\ Len(t) \in Nat
    OBVIOUS
<1>3. ASSUME NEW i \in 1 .. Len(s) PROVE (s \o t)[i] = s[i]
    <2>1. i \in 1 .. Len(s) + Len(t) /\ i <= Len(s)
        BY <1>2
    <2> QED
        BY <1>1, <2>1
<1>4. ASSUME NEW j \in 1 .. Len(t) PROVE (s \o t)[Len(s) + j] = t[j]
    <2>1. /\ Len(s) + j \in 1 .. Len(s) + Len(t)
          /\ ~ Len(s) + j <= Len(s) /\ (Len(s) + j) - Len(s) = j
        BY <1>2
    <2> QED
        BY <1>1, <2>1
<1> QED
    BY <1>1, <1>3, <1>4

LEMMA SliceGrows ==
    ASSUME NEW S, NEW s \in Seq(S), NEW m \in 1 .. Len(s), NEW n \in m .. Len(s)
    PROVE  SubSeq(s, m, n - 1) \o <<s[n]>> = SubSeq(s, m, n)
<1> DEFINE less == SubSeq(s, m, n - 1)
           more == SubSeq(s, m, n)
           last == <<s[n]>>
<1>1. /\ m \in Nat /\ n \in Nat /\ n >= m /\ n - 1 \in Int
      /\ \A i \in m .. n : s[i] \in S
    OBVIOUS
<1>2. less \in Seq(S) /\ Len(less) = n - m /\ \A i \in 1 .. n - m : less[i] = s[m + i - 1]
    <2>1. \A i \in m .. n - 1 : s[i] \in S
        BY <1>1
    <2>2. /\ SubSeq(s, m, n - 1) \in Seq(S)
          /\ Len(SubSeq(s, m, n - 1)) = IF m <= n - 1 THEN (n - 1) - m + 1 ELSE 0
          /\ \A i \in 1 .. (n - 1) - m + 1 : SubSeq(s, m, n - 1)[i] = s[m + i - 1]
        BY <1>1, <2>1, SubSeqProperties
    <2> QED
        BY <1>1, <2>2
<1>3. /\ more \in Seq(S) /\ Len(more) = (n - m) + 1
      /\ \A i \in 1 .. (n - m) + 1 : more[i] = s[m + i - 1]
    <2>1. /\ SubSeq(s, m, n) \in Seq(S)
          /\ Len(SubSeq(s, m, n)) = IF m <= n THEN n - m + 1 ELSE 0
          /\ \A i \in 1 .. n - m + 1 : SubSeq(s, m, n)[i] = s[m + i - 1]
        BY <1>1, SubSeqProperties
    <2> QED
        BY <1>1, <2>1
<1>4. last \in Seq(S) /\ Len(last) = 1 /\ last[1] = s[n]
    BY <1>1
<1> HIDE DEF less, more, last
<1>5. /\ less \o last \in Seq(S) /\ Len(less \o last) = Len(less) + Len(last)
      /\ \A i \in 1 .. Len(less) : (less \o last)[i] = less[i]
      /\ \A j \in 1 .. Len(last) : (less \o last)[Len(less) + j] = last[j]
    <2>1. less \in Seq(S) /\ last \in Seq(S)
        BY <1>2, <1>4
    <2> QED
        BY <2>1, ConcatElements
<1>6. (less \o last)[(n - m) + 1] = s[n]
    BY <1>2, <1>4, <1>5
<1>7. \A i \in 1 .. (n - m) + 1 : (less \o last)[i] = more[i]
    <2>1. \A i \in 1 .. (n - m) + 1 : i \in 1 .. n - m \/ i = (n - m) + 1
        BY <1>1
    <2>2. m + ((n - m) + 1) - 1 = n /\ (n - m) + 1 \in 1 .. (n - m) + 1
        BY <1>1
    <2> QED
        BY <1>2, <1>3, <1>5, <1>6, <2>1, <2>2
<1>8. less \o last = more
    <2>1. Len(less \o last) = (n - m) + 1
        BY <1>2, <1>4, <1>5
    <2> QED
        BY <1>3, <1>5, <1>7, <2>1, SeqEqual
<1> QED
    BY <1>8 DEF less, more, last

LEMMA AllButFirst ==
    ASSUME NEW S, NEW s \in Seq(S), Len(s) >= 1
    PROVE  <<s[1]>> \o SubSeq(s, 2, Len(s)) = s
<1> DEFINE n == Len(s)
           first == <<s[1]>>
           others == SubSeq(s, 2, n)
<1>1. n \in Nat /\ n >= 1 /\ \A i \in 1 .. n : s[i] \in S
    OBVIOUS
<1> HIDE DEF n
<1>2. first \in Seq(S) /\ Len(first) = 1 /\ first[1] = s[1]
    BY <1>1
<1>3. others \in Seq(S) /\ Len(others) = n - 1 /\ \A i \in 1 .. n - 1 : others[i] = s[i + 1]
    <2>1. \A i \in 2 .. n : s[i] \in S
        BY <1>1
    <2>2. /\ SubSeq(s, 2, n) \in Seq(S)
          /\ Len(SubSeq(s, 2, n)) = IF 2 <= n THEN n - 2 + 1 ELSE 0
          /\ \A i \in 1 .. n - 2 + 1 : SubSeq(s, 2, n)[i] = s[2 + i - 1]
        BY <1>1, <2>1, SubSeqProperties
    <2>3. (IF 2 <= n THEN n - 2 + 1 ELSE 0) = n - 1 /\ n - 2 + 1 = n - 1
          /\ \A i \in 1 .. n - 1 : 2 + i - 1 = i + 1
        BY <1>1
    <2>4. others \in Seq(S) /\ Len(others) = n - 1
        BY <2>2, <2>3
    <2>5. \A i \in 1 .. n - 1 : others[i] = s[i + 1]
        BY <2>2, <2>3
    <2> QED
        BY <2>4, <2>5
<1> HIDE DEF first, others
<1>4. /\ first \o others \in Seq(S) /\ Len(first \o others) = Len(first) + Len(others)
      /\ \A i \in 1 .. Len(first) : (first \o others)[i] = first[i]
      /\ \A j \in 1 .. Len(others) : (first \o others)[Len(first) + j] = others[j]
    <2>1. first \in Seq(S) /\ others \in Seq(S)
        BY <1>2, <1>3
    <2> QED
        BY <2>1, ConcatElements
<1>5. ASSUME NEW i \in 1 .. n PROVE (first \o others)[i] = s[i]
    <2>1. CASE i = 1
        BY <1>2, <1>4, <2>1
    <2>2. CASE i # 1
        <3>1. i - 1 \in 1 .. n - 1 /\ Len(first) + (i - 1) = i /\ (i - 1) + 1 = i
            BY <1>1, <1>2, <2>2
        <3>2. (first \o others)[Len(first) + (i - 1)] = others[i - 1]
            BY <1>3, <1>4, <3>1
        <3> QED
            BY <1>3, <3>1, <3>2
    <2> QED
        BY <2>1, <2>2
<1>6. Len(first \o others) = n
    BY <1>1, <1>2, <1>3, <1>4
<1>7. first \o others = s
    BY <1>4, <1>5, <1>6, SeqEqual DEF n
<1> QED
    BY <1>7 DEF first, others, n

LEMMA AppendToConcat ==
    ASSUME NEW S, NEW s \in Seq(S), NEW t \in Seq(S), NEW x \in S
    PROVE  s \o Append(t, x) = Append(s \o t, x)
<1> DEFINE last == <<x>>
<1>1. last \in Seq(S)
    OBVIOUS
<1>2. s \o t \in Seq(S)
    BY ConcatProperties
<1>3. Append(t, x) = t \o last /\ Append(s \o t, x) = (s \o t) \o last
    BY <1>2, AppendIsConcat
<1> HIDE DEF last
<1>4. (s \o t) \o last = s \o (t \o last)
    BY <1>1, ConcatAssociative, SMTT(30)
<1> QED
    BY <1>3, <1>4

LEMMA EqualInParts ==
    ASSUME NEW S, NEW s \in Seq(S), NEW t \in Seq(S), NEW m \in Nat, NEW n \in Nat,
           Len(s) = m + n, Len(t) = m + n,
           \A i \in 1 .. m : s[i] = t[i], \A j \in 1 .. n : s[m + j] = t[m + j]
    PROVE  s = t
<1>1. ASSUME NEW i \in 1 .. m + n PROVE s[i] = t[i]
    <2>1. CASE i <= m
        <3>1. i \in 1 .. m
            BY <2>1
        <3> QED
            BY <3>1
    <2>2. CASE i > m
        <3>1. i - m \in 1 .. n /\ m + (i - m) = i
            BY <2>2
        <3> QED
            BY <3>1
    <2> QED
        BY <2>1, <2>2
<1> QED
    BY <1>1, SeqEqual

-----------------------------------------------------------------------------
(*****************************************************************************)
(* A step applied to the elements of a sequence, from the left: the form the *)
(* recursive functions of the modules are compared with.  StepsOf is what    *)
(* such a function is: a first value, and a step from each to the next.      *)
(*****************************************************************************)
StepOn(V, T) == [V \X T -> V]

StepsOf(step, first, s, f) ==
    f = [n \in 0 .. Len(s) |-> IF n = 0 THEN first ELSE step[<<f[n - 1], s[n]>>]]

Folded(step, first, s) ==
    LET f[n \in 0 .. Len(s)] == IF n = 0 THEN first ELSE step[<<f[n - 1], s[n]>>]
    IN  f[Len(s)]

LEMMA StepsExtend ==
    ASSUME NEW V, NEW T, NEW step \in StepOn(V, T), NEW first \in V,
           NEW s \in Seq(T), NEW e \in T,
           NEW f \in [0 .. Len(s) -> V], StepsOf(step, first, s, f)
    PROVE  \E g \in [0 .. Len(Append(s, e)) -> V] :
              /\ StepsOf(step, first, Append(s, e), g)
              /\ g[Len(Append(s, e))] = step[<<f[Len(s)], e>>]
<1> DEFINE m == Len(s)
           t == Append(s, e)
           last == step[<<f[m], e>>]
           g == [n \in 0 .. m + 1 |-> IF n = m + 1 THEN last ELSE f[n]]
<1>1. m \in Nat /\ Len(t) = m + 1 /\ t[m + 1] = e /\ \A n \in 1 .. m : t[n] = s[n]
    OBVIOUS
<1>2. last \in V
    BY <1>1 DEF StepOn
<1>3. g \in [0 .. m + 1 -> V] /\ g[m + 1] = last /\ \A n \in 0 .. m : g[n] = f[n]
    <2> HIDE DEF last
    <2> QED
        BY <1>1, <1>2
<1>4. ASSUME NEW n \in 0 .. m + 1
      PROVE  g[n] = IF n = 0 THEN first ELSE step[<<g[n - 1], t[n]>>]
    <2> HIDE DEF g, t
    <2>1. CASE n = 0
        <3>1. f[0] = first /\ 0 \in 0 .. m
            BY <1>1 DEF StepsOf
        <3> QED
            BY <2>1, <3>1, <1>3
    <2>2. CASE n \in 1 .. m
        <3>1. n - 1 \in 0 .. m /\ n \in 0 .. m /\ n # 0
            BY <2>2, <1>1
        <3>2. f[n] = step[<<f[n - 1], s[n]>>]
            BY <3>1 DEF StepsOf
        <3> QED
            BY <3>1, <3>2, <2>2, <1>1, <1>3
    <2>3. CASE n = m + 1
        <3>1. n - 1 = m /\ m \in 0 .. m /\ n # 0
            BY <2>3, <1>1
        <3>2. g[n - 1] = f[m] /\ t[n] = e
            BY <3>1, <2>3, <1>1, <1>3
        <3> QED
            BY <3>1, <3>2, <2>3, <1>3
    <2> QED
        BY <2>1, <2>2, <2>3, <1>1
<1>5. StepsOf(step, first, t, g)
    <2>1. g = [n \in 0 .. m + 1 |-> g[n]]
        BY <1>3
    <2> HIDE DEF g, t
    <2>2. g = [n \in 0 .. m + 1 |-> IF n = 0 THEN first ELSE step[<<g[n - 1], t[n]>>]]
        BY <2>1, <1>3, <1>4
    <2> QED
        BY <2>2, <1>1 DEF StepsOf
<1>6. \E h \in [0 .. Len(t) -> V] : StepsOf(step, first, t, h) /\ h[Len(t)] = last
    <2> HIDE DEF g, t, last
    <2> QED
        BY <1>1, <1>3, <1>5
<1> QED
    BY <1>6

LEMMA StepsExist ==
    ASSUME NEW V, NEW T, NEW step \in StepOn(V, T), NEW first \in V
    PROVE  \A s \in Seq(T) : \E f \in [0 .. Len(s) -> V] : StepsOf(step, first, s, f)
<1> DEFINE S == {s \in Seq(T) : \E f \in [0 .. Len(s) -> V] : StepsOf(step, first, s, f)}
<1>1. <<>> \in S
    <2> DEFINE f == [n \in 0 .. 0 |-> first]
    <2>1. f \in [0 .. Len(<<>>) -> V] /\ StepsOf(step, first, <<>>, f)
        BY DEF StepsOf
    <2> HIDE DEF f
    <2>2. <<>> \in Seq(T)
        OBVIOUS
    <2> QED
        BY <2>1, <2>2
<1>2. ASSUME NEW s \in Seq(T), NEW e \in T, s \in S PROVE Append(s, e) \in S
    <2>1. PICK f \in [0 .. Len(s) -> V] : StepsOf(step, first, s, f)
        BY <1>2
    <2>2. \E g \in [0 .. Len(Append(s, e)) -> V] : StepsOf(step, first, Append(s, e), g)
        BY <2>1, StepsExtend
    <2>3. Append(s, e) \in Seq(T)
        OBVIOUS
    <2> QED
        BY <2>2, <2>3
<1>3. \A s \in Seq(T) : s \in S
    <2> HIDE DEF S
    <2> QED
        BY <1>1, <1>2, SequenceInduction
<1> QED
    BY <1>3

LEMMA StepsUnique ==
    ASSUME NEW T, NEW step, NEW first, NEW s \in Seq(T), NEW f, NEW g,
           StepsOf(step, first, s, f), StepsOf(step, first, s, g)
    PROVE  f = g
<1>1. Len(s) \in Nat
    OBVIOUS
<1>2. DefinedUpTo(Len(s), f) /\ DefinedUpTo(Len(s), g) /\ f[0] = g[0]
    BY <1>1 DEF StepsOf, DefinedUpTo
<1>3. ASSUME NEW n \in 1 .. Len(s), f[n - 1] = g[n - 1] PROVE f[n] = g[n]
    <2>1. n \in 0 .. Len(s) /\ n # 0
        BY <1>1
    <2> QED
        BY <1>3, <2>1 DEF StepsOf
<1> QED
    BY <1>1, <1>2, <1>3, RecursionUnique

(*****************************************************************************)
(* What is folded over is the last value of the only function with those     *)
(* steps.                                                                    *)
(*****************************************************************************)
LEMMA FoldedIs ==
    ASSUME NEW T, NEW step, NEW first, NEW s \in Seq(T), NEW f, StepsOf(step, first, s, f)
    PROVE  Folded(step, first, s) = f[Len(s)]
<1> DEFINE h == CHOOSE g : StepsOf(step, first, s, g)
<1>1. StepsOf(step, first, s, h)
    OBVIOUS
<1>2. Folded(step, first, s) = h[Len(s)]
    BY DEF Folded, StepsOf
<1> HIDE DEF h
<1>3. h = f
    BY <1>1, StepsUnique
<1> QED
    BY <1>2, <1>3

LEMMA FoldedEmpty ==
    ASSUME NEW V, NEW T, NEW step \in StepOn(V, T), NEW first \in V
    PROVE  Folded(step, first, <<>>) = first
<1>1. <<>> \in Seq(T)
    OBVIOUS
<1>2. PICK f \in [0 .. Len(<<>>) -> V] : StepsOf(step, first, <<>>, f)
    BY <1>1, StepsExist
<1>3. f[0] = first
    BY <1>2 DEF StepsOf
<1>4. Folded(step, first, <<>>) = f[Len(<<>>)]
    BY <1>1, <1>2, FoldedIs
<1> QED
    BY <1>3, <1>4

LEMMA FoldedAppend ==
    ASSUME NEW V, NEW T, NEW step \in StepOn(V, T), NEW first \in V,
           NEW s \in Seq(T), NEW e \in T
    PROVE  /\ Folded(step, first, s) \in V
           /\ Folded(step, first, Append(s, e)) = step[<<Folded(step, first, s), e>>]
<1>1. PICK f \in [0 .. Len(s) -> V] : StepsOf(step, first, s, f)
    BY StepsExist
<1>2. Folded(step, first, s) = f[Len(s)] /\ f[Len(s)] \in V
    BY <1>1, FoldedIs
<1>3. PICK g \in [0 .. Len(Append(s, e)) -> V] :
              /\ StepsOf(step, first, Append(s, e), g)
              /\ g[Len(Append(s, e))] = step[<<f[Len(s)], e>>]
    BY <1>1, StepsExtend
<1>4. Append(s, e) \in Seq(T)
    OBVIOUS
<1>5. Folded(step, first, Append(s, e)) = g[Len(Append(s, e))]
    <2> DEFINE t == Append(s, e)
    <2> HIDE DEF t
    <2>1. t \in Seq(T) /\ StepsOf(step, first, t, g)
        BY <1>3, <1>4 DEF t
    <2>2. Folded(step, first, t) = g[Len(t)]
        BY <2>1, FoldedIs
    <2> QED
        BY <2>2 DEF t
<1> QED
    BY <1>2, <1>3, <1>5

(*****************************************************************************)
(* The same for a recursion over the numbers up to a bound.                  *)
(*****************************************************************************)
Recurses(step, first, N, f) ==
    f[0] = first /\ \A n \in 1 .. N : f[n] = step[<<f[n - 1], n>>]

LEMMA RecursionExists ==
    ASSUME NEW V, NEW N \in Nat, NEW step \in StepOn(V, 1 .. N), NEW first \in V
    PROVE  \E f \in [0 .. N -> V] : Recurses(step, first, N, f)
<1> DEFINE s == [n \in 1 .. N |-> n]
<1>1. s \in Seq(1 .. N) /\ Len(s) = N /\ \A n \in 1 .. N : s[n] = n
    OBVIOUS
<1> HIDE DEF s
<1>2. PICK f \in [0 .. Len(s) -> V] : StepsOf(step, first, s, f)
    BY <1>1, StepsExist
<1>3. f[0] = first
    BY <1>1, <1>2 DEF StepsOf
<1>4. ASSUME NEW n \in 1 .. N PROVE f[n] = step[<<f[n - 1], n>>]
    <2>1. n \in 0 .. Len(s) /\ n # 0 /\ s[n] = n
        BY <1>1
    <2> QED
        BY <2>1, <1>2 DEF StepsOf
<1> QED
    BY <1>1, <1>3, <1>4 DEF Recurses
-----------------------------------------------------------------------------
(*****************************************************************************)
(* A part of a buffer, a bytes from its beginning; and where the parts of a  *)
(* buffer are: at[n] bytes lie before part n + 1.                            *)
(*****************************************************************************)
StandsAt(whole, a, part) == \A j \in 1 .. Len(part) : whole[a + j] = part[j]

PartsAt(parts, whole, at) ==
    /\ at \in [0 .. Len(parts) -> Nat]
    /\ at[0] = 0 /\ at[Len(parts)] = Len(whole)
    /\ \A n \in 1 .. Len(parts) :
          /\ at[n] = at[n - 1] + Len(parts[n])
          /\ at[n] <= Len(whole)
          /\ StandsAt(whole, at[n - 1], parts[n])

LEMMA StandsApart ==
    ASSUME NEW S, NEW x \in Seq(S), NEW y \in Seq(S), NEW whole, NEW a \in Nat,
           StandsAt(whole, a, x \o y)
    PROVE  StandsAt(whole, a, x) /\ StandsAt(whole, a + Len(x), y)
<1>1. /\ Len(x \o y) = Len(x) + Len(y) /\ Len(x) \in Nat /\ Len(y) \in Nat
      /\ \A i \in 1 .. Len(x) : (x \o y)[i] = x[i]
      /\ \A j \in 1 .. Len(y) : (x \o y)[Len(x) + j] = y[j]
    BY ConcatElements
<1>2. \A i \in 1 .. Len(x) + Len(y) : whole[a + i] = (x \o y)[i]
    BY <1>1 DEF StandsAt
<1>3. ASSUME NEW i \in 1 .. Len(x) PROVE whole[a + i] = x[i]
    <2>1. i \in 1 .. Len(x) + Len(y)
        BY <1>1
    <2> QED
        BY <2>1, <1>1, <1>2
<1>4. ASSUME NEW j \in 1 .. Len(y) PROVE whole[(a + Len(x)) + j] = y[j]
    <2>1. Len(x) + j \in 1 .. Len(x) + Len(y) /\ a + (Len(x) + j) = (a + Len(x)) + j
        BY <1>1
    <2> QED
        BY <2>1, <1>1, <1>2
<1> QED
    BY <1>3, <1>4 DEF StandsAt

LEMMA StandsAfter ==
    ASSUME NEW S, NEW head \in Seq(S), NEW body \in Seq(S), NEW part \in Seq(S),
           NEW a \in Nat, a + Len(part) <= Len(body), StandsAt(body, a, part)
    PROVE  StandsAt(head \o body, Len(head) + a, part)
<1> DEFINE h == Len(head)
           n == Len(part)
           m == Len(body)
<1>1. \A j \in 1 .. m : (head \o body)[h + j] = body[j]
    BY ConcatElements
<1>2. h \in Nat /\ n \in Nat /\ m \in Nat /\ a + n <= m
    OBVIOUS
<1>3. \A j \in 1 .. n : body[a + j] = part[j]
    BY DEF StandsAt
<1> HIDE DEF h, n, m
<1>4. ASSUME NEW j \in 1 .. n PROVE (head \o body)[(h + a) + j] = part[j]
    <2>1. a + j \in 1 .. m /\ h + (a + j) = (h + a) + j
        BY <1>2
    <2> QED
        BY <1>1, <1>3, <2>1
<1> QED
    BY <1>4 DEF StandsAt, h, n

LEMMA StandsCut ==
    ASSUME NEW S, NEW whole \in Seq(S), NEW part \in Seq(S), NEW a \in Nat,
           a + Len(part) <= Len(whole), StandsAt(whole, a, part)
    PROVE  SubSeq(whole, a + 1, a + Len(part)) = part
<1> DEFINE n == Len(part)
           cut == SubSeq(whole, a + 1, a + n)
<1>1. n \in Nat /\ Len(whole) \in Nat
    OBVIOUS
<1> HIDE DEF n
<1>2. a + 1 \in 1 .. Len(whole) + 1 /\ a + n \in a .. Len(whole)
    BY <1>1 DEF n
<1>3. /\ cut \in Seq(S) /\ Len(cut) = n
      /\ \A i \in 1 .. n : cut[i] = whole[a + i]
    <2>1. \A i \in 1 .. n : (a + 1) + i - 1 = a + i
        BY <1>1
    <2>2. (a + n) - (a + 1) + 1 = n
        BY <1>1
    <2> QED
        BY <1>1, <1>2, <2>1, <2>2, SubSeqProperties
<1>4. \A i \in 1 .. n : cut[i] = part[i]
    BY <1>3 DEF StandsAt, n
<1> HIDE DEF cut
<1>5. cut = part
    <2>1. Len(cut) = Len(part) /\ \A i \in 1 .. Len(cut) : cut[i] = part[i]
        BY <1>3, <1>4 DEF n
    <2> QED
        BY <1>3, <2>1, SeqEqual
<1> QED
    BY <1>5 DEF cut, n

LEMMA JoinedSteps ==
    ASSUME NEW S, NEW parts \in Seq(Seq(S))
    PROVE  \E f \in [0 .. Len(parts) -> Seq(S)] :
              /\ f[0] = <<>>
              /\ \A n \in 1 .. Len(parts) : f[n] = f[n - 1] \o parts[n]
              /\ Joined(parts) = f[Len(parts)]
<1> DEFINE N == Len(parts)
           V == Seq(S)
           Is(g) == g = [n \in 0 .. N |-> IF n = 0 THEN <<>> ELSE g[n - 1] \o parts[n]]
           h == CHOOSE g : Is(g)
           step == [x \in V \X (1 .. N) |-> x[1] \o parts[x[2]]]
           none == <<>>
<1>1. N \in Nat /\ none \in V
    OBVIOUS
<1>2. \A n \in 1 .. N : parts[n] \in Seq(S)
    OBVIOUS
<1>3. ASSUME NEW r \in V, NEW n \in 1 .. N PROVE r \o parts[n] \in V
    BY <1>2, ConcatElements
<1>4. step \in StepOn(V, 1 .. N)
    <2> HIDE DEF V, N
    <2> QED
        BY <1>3 DEF StepOn
<1>5. PICK f \in [0 .. N -> V] : Recurses(step, none, N, f)
    <2> HIDE DEF step, V, N, none
    <2> QED
        BY <1>1, <1>4, RecursionExists
<1> HIDE DEF V
<1>6. ASSUME NEW n \in 1 .. N PROVE f[n] = f[n - 1] \o parts[n]
    <2>1. n - 1 \in 0 .. N
        BY <1>1
    <2>2. <<f[n - 1], n>> \in V \X (1 .. N)
        BY <2>1, <1>5
    <2> QED
        BY <1>5, <2>2 DEF Recurses
<1> HIDE DEF step
<1>7. f[0] = <<>> /\ Is(f)
    <2>1. f[0] = <<>>
        BY <1>5 DEF Recurses
    <2>2. ASSUME NEW n \in 0 .. N
          PROVE  f[n] = IF n = 0 THEN <<>> ELSE f[n - 1] \o parts[n]
        <3>1. n = 0 \/ n \in 1 .. N
            BY <1>1
        <3> HIDE DEF N
        <3> QED
            BY <2>1, <3>1, <1>6
    <2>3. f = [n \in 0 .. N |-> f[n]]
        BY <1>5
    <2> HIDE DEF N
    <2> QED
        BY <2>1, <2>2, <2>3
<1>8. Is(h)
    BY <1>7
<1>9. Joined(parts) = h[N]
    BY DEF Joined
<1>10. h = f
    <2> HIDE DEF h, N
    <2>1. DefinedUpTo(N, h) /\ DefinedUpTo(N, f) /\ h[0] = f[0]
        BY <1>1, <1>5, <1>7, <1>8 DEF DefinedUpTo
    <2>2. ASSUME NEW n \in 1 .. N, h[n - 1] = f[n - 1] PROVE h[n] = f[n]
        <3>1. n \in 0 .. N /\ n # 0
            BY <1>1
        <3> QED
            BY <2>2, <3>1, <1>1, <1>6, <1>8
    <2> QED
        BY <1>1, <2>1, <2>2, RecursionUnique
<1> QED
    BY <1>5, <1>6, <1>7, <1>9, <1>10 DEF V

LEMMA JoinedAt ==
    ASSUME NEW S, NEW parts \in Seq(Seq(S))
    PROVE  Joined(parts) \in Seq(S) /\ \E at : PartsAt(parts, Joined(parts), at)
<1> DEFINE N == Len(parts)
<1>1. N \in Nat /\ \A n \in 1 .. N : parts[n] \in Seq(S)
    OBVIOUS
<1>2. PICK f \in [0 .. N -> Seq(S)] :
          /\ f[0] = <<>>
          /\ \A n \in 1 .. N : f[n] = f[n - 1] \o parts[n]
          /\ Joined(parts) = f[N]
    BY JoinedSteps
<1> DEFINE at == [n \in 0 .. N |-> Len(f[n])]
           Upto(n, i) == /\ at[i] <= at[n]
                         /\ \A j \in 1 .. Len(parts[i]) : f[n][at[i - 1] + j] = parts[i][j]
           P == {n \in 0 .. N : \A i \in 1 .. n : Upto(n, i)}
<1>3. /\ at \in [0 .. N -> Nat] /\ \A n \in 0 .. N : at[n] = Len(f[n])
    BY <1>2
<1>4. ASSUME NEW n \in 1 .. N
      PROVE  /\ n - 1 \in 0 .. N /\ n \in 0 .. N
             /\ at[n - 1] \in Nat /\ Len(parts[n]) \in Nat
             /\ at[n] = at[n - 1] + Len(parts[n])
             /\ \A i \in 1 .. at[n - 1] : f[n][i] = f[n - 1][i]
             /\ \A j \in 1 .. Len(parts[n]) : f[n][at[n - 1] + j] = parts[n][j]
    <2>1. n - 1 \in 0 .. N /\ n \in 0 .. N /\ parts[n] \in Seq(S)
        BY <1>1
    <2>2. f[n - 1] \in Seq(S) /\ f[n] = f[n - 1] \o parts[n]
        BY <2>1, <1>2
    <2>3. /\ Len(f[n - 1] \o parts[n]) = Len(f[n - 1]) + Len(parts[n])
          /\ \A i \in 1 .. Len(f[n - 1]) : (f[n - 1] \o parts[n])[i] = f[n - 1][i]
          /\ \A j \in 1 .. Len(parts[n]) :
                (f[n - 1] \o parts[n])[Len(f[n - 1]) + j] = parts[n][j]
        BY <2>1, <2>2, ConcatElements
    <2>4. Len(f[n - 1]) \in Nat /\ Len(parts[n]) \in Nat
        BY <2>1, <2>2
    <2> HIDE DEF at, N
    <2> QED
        BY <2>1, <2>2, <2>3, <2>4, <1>3
<1> HIDE DEF at
<1>5. 0 \in P
    BY <1>1
<1>6. ASSUME NEW n \in 0 .. N - 1, n \in P PROVE n + 1 \in P
    <2>1. n + 1 \in 1 .. N /\ n + 1 \in 0 .. N /\ (n + 1) - 1 = n
        BY <1>1
    <2>2. /\ at[n] \in Nat /\ Len(parts[n + 1]) \in Nat
          /\ at[n + 1] = at[n] + Len(parts[n + 1])
          /\ \A i \in 1 .. at[n] : f[n + 1][i] = f[n][i]
          /\ \A j \in 1 .. Len(parts[n + 1]) : f[n + 1][at[n] + j] = parts[n + 1][j]
        BY <2>1, <1>4
    <2>3. ASSUME NEW i \in 1 .. n PROVE Upto(n + 1, i)
        <3>1. Upto(n, i)
            BY <1>6
        <3>2. i \in 1 .. N
            BY <1>1
        <3>3. /\ at[i - 1] \in Nat /\ Len(parts[i]) \in Nat
              /\ at[i] = at[i - 1] + Len(parts[i])
            BY <3>2, <1>4
        <3>4. at[i] <= at[n + 1]
            BY <2>2, <3>1, <3>3
        <3>5. ASSUME NEW j \in 1 .. Len(parts[i]) PROVE f[n + 1][at[i - 1] + j] = parts[i][j]
            <4>1. at[i] <= at[n]
                BY <3>1
            <4>2. at[i - 1] + j \in 1 .. at[n]
                <5>1. \A x, y, z \in Nat : x + y <= z => \A k \in 1 .. y : x + k \in 1 .. z
                    OBVIOUS
                <5> HIDE DEF Upto, P
                <5> QED
                    BY <2>2, <3>3, <4>1, <5>1
            <4> QED
                BY <2>2, <3>1, <4>2
        <3> QED
            BY <3>4, <3>5
    <2>4. Upto(n + 1, n + 1)
        BY <2>1, <2>2
    <2>5. \A i \in 1 .. n + 1 : i \in 1 .. n \/ i = n + 1
        OBVIOUS
    <2> HIDE DEF Upto
    <2> QED
        BY <2>1, <2>3, <2>4, <2>5
<1>7. \A n \in 0 .. N : n \in P
    <2> HIDE DEF P, N
    <2> QED
        BY <1>1, <1>5, <1>6, IntervalInduction
<1>8. N \in 0 .. N /\ f[N] \in Seq(S) /\ 0 \in 0 .. N
    BY <1>1, <1>2
<1>9. at[0] = 0 /\ at[N] = Len(Joined(parts))
    BY <1>2, <1>3, <1>8
<1>10. \A n \in 1 .. N : Upto(N, n)
    BY <1>7, <1>8
<1>11. PartsAt(parts, Joined(parts), at)
    <2> HIDE DEF N
    <2> QED
        BY <1>2, <1>3, <1>4, <1>9, <1>10 DEF PartsAt, StandsAt, N
<1> QED
    BY <1>2, <1>8, <1>11

(*****************************************************************************)
(* A number in four bytes reads back, if it fits.                            *)
(*****************************************************************************)
BytesOf(n, b, c, d) ==
    /\ n = 256 * (256 * (256 * d + (c % 256)) + (b % 256)) + (n % 256)
    /\ d % 256 = d
    /\ BigEndian(n) = <<d % 256, c % 256, b % 256, n % 256>>
    /\ LittleEndian(n) = <<n % 256, b % 256, c % 256, d % 256>>

LEMMA FourBytes ==
    ASSUME NEW n \in Nat, FitsU32(n)
    PROVE  \E b, c, d \in Nat : BytesOf(n, b, c, d)
<1> DEFINE b == n \div 256
           c == b \div 256
           d == c \div 256
<1>1. b \in Nat /\ n = 256 * b + (n % 256)
    OBVIOUS
<1>2. BigEndian(n) = <<d % 256, c % 256, b % 256, n % 256>>
    BY DEF BigEndian
<1>3. LittleEndian(n) = <<n % 256, b % 256, c % 256, d % 256>>
    BY DEF LittleEndian
<1>4. d < 256
    BY DEF FitsU32
<1> HIDE DEF b
<1>5. c \in Nat /\ b = 256 * c + (b % 256)
    BY <1>1
<1> HIDE DEF c
<1>6. d \in Nat /\ c = 256 * d + (c % 256)
    BY <1>5
<1> HIDE DEF d
<1>7. d % 256 = d
    BY <1>4, <1>6
<1>8. n = 256 * (256 * (256 * d + (c % 256)) + (b % 256)) + (n % 256)
    BY <1>1, <1>5, <1>6
<1>9. BytesOf(n, b, c, d)
    BY <1>2, <1>3, <1>7, <1>8 DEF BytesOf
<1> QED
    BY <1>1, <1>5, <1>6, <1>9

LEMMA FourBytesType ==
    ASSUME NEW n \in Nat
    PROVE  /\ BigEndian(n) \in Seq(0 .. 255) /\ Len(BigEndian(n)) = 4
           /\ LittleEndian(n) \in Seq(0 .. 255) /\ Len(LittleEndian(n)) = 4
<1>1. \A x \in Nat : x % 256 \in 0 .. 255 /\ x \div 256 \in Nat
    OBVIOUS
<1> QED
    BY <1>1 DEF BigEndian, LittleEndian

LEMMA BigEndianReads ==
    ASSUME NEW n \in Nat, FitsU32(n), NEW buf, NEW a \in Nat, StandsAt(buf, a, BigEndian(n))
    PROVE  FromBigEndian(buf, a + 1) = n
<1>1. PICK b, c, d \in Nat : BytesOf(n, b, c, d)
    BY FourBytes
<1>2. /\ buf[a + 1] = d % 256 /\ buf[a + 2] = c % 256
      /\ buf[a + 3] = b % 256 /\ buf[a + 4] = n % 256
    BY <1>1 DEF StandsAt, BytesOf
<1>3. (a + 1) + 1 = a + 2 /\ (a + 1) + 2 = a + 3 /\ (a + 1) + 3 = a + 4
    OBVIOUS
<1>4. FromBigEndian(buf, a + 1) =
          256 * (256 * (256 * (d % 256) + (c % 256)) + (b % 256)) + (n % 256)
    BY <1>2, <1>3 DEF FromBigEndian
<1> QED
    BY <1>1, <1>4 DEF BytesOf

LEMMA LittleEndianReads ==
    ASSUME NEW n \in Nat, FitsU32(n), NEW buf, NEW a \in Nat, StandsAt(buf, a, LittleEndian(n))
    PROVE  FromLittleEndian(buf, a + 1) = n
<1>1. PICK b, c, d \in Nat : BytesOf(n, b, c, d)
    BY FourBytes
<1>2. /\ buf[a + 1] = n % 256 /\ buf[a + 2] = b % 256
      /\ buf[a + 3] = c % 256 /\ buf[a + 4] = d % 256
    BY <1>1 DEF StandsAt, BytesOf
<1>3. (a + 1) + 1 = a + 2 /\ (a + 1) + 2 = a + 3 /\ (a + 1) + 3 = a + 4
    OBVIOUS
<1>4. FromLittleEndian(buf, a + 1) =
          256 * (256 * (256 * (d % 256) + (c % 256)) + (b % 256)) + (n % 256)
    BY <1>2, <1>3 DEF FromLittleEndian
<1> QED
    BY <1>1, <1>4 DEF BytesOf
=============================================================================
