--------------------------- MODULE FlatHashBytes ---------------------------
(*****************************************************************************)
(* The packed form of a hash (FlatHash, src/omega/src/hash_engine.rs): a     *)
(* count, then for each field two lengths, its name and its value, in one    *)
(* buffer.  HMSET packs its pairs as they come, or merges them into the      *)
(* buffer that is there; HGETALL streams the buffer to the client.  Gateway  *)
(* and Keyspace have a function from fields to values in its place.          *)
(*****************************************************************************)
EXTENDS Gateway, Bytes, FiniteSets

SeqExt == INSTANCE SequencesExt

CONSTANTS Spell,    \* the bytes of each field and value
          MaxPairs  \* bound: pairs of an HMSET

ASSUME FlatHashAssumption ==
    /\ Spell \in [Field \cup Val -> Seq(0 .. 255)]
    /\ \A x, y \in Field : Spell[x] = Spell[y] => x = y
    /\ \A x, y \in Val : Spell[x] = Spell[y] => x = y
    /\ MaxPairs \in Nat

(*****************************************************************************)
(* serialize: pairs is a sequence of pairs of sequences of bytes.            *)
(*****************************************************************************)
Serialize(pairs) ==
    BigEndian(Len(pairs))
        \o Joined([i \in 1 .. Len(pairs) |->
               BigEndian(Len(pairs[i][1])) \o BigEndian(Len(pairs[i][2]))
                   \o pairs[i][1] \o pairs[i][2]])

(*****************************************************************************)
(* The loop of merge and deserialize_into_resp over a buffer: as many pairs  *)
(* as it counts, as long as they lie within it.                              *)
(*****************************************************************************)
NextPair(buf, walk) ==
    LET key == walk.p + 8
        val == key + FromBigEndian(buf, walk.p)
        end == val + FromBigEndian(buf, walk.p + 4)
    IN  IF walk.p + 7 > Len(buf) \/ end - 1 > Len(buf) THEN walk
        ELSE [p |-> end,
              pairs |-> Append(walk.pairs,
                               <<SubSeq(buf, key, val - 1), SubSeq(buf, val, end - 1)>>)]

Parse(buf) ==
    LET walk[n \in 0 .. FromBigEndian(buf, 1)] ==
            IF n = 0 THEN [p |-> 5, pairs |-> <<>>] ELSE NextPair(buf, walk[n - 1])
    IN  IF Len(buf) < 4 THEN <<>> ELSE walk[FromBigEndian(buf, 1)].pairs

\* of several pairs with one key, the last
Final(pairs) ==
    {pairs[i] : i \in {j \in 1 .. Len(pairs) :
                          \A k \in j + 1 .. Len(pairs) : pairs[k][1] # pairs[j][1]}}

\* mutant of MergeBuffers: what is there stays (entry().or_insert)
MergeBuffersKeepingOld(buf, new) ==
    IF Len(buf) < 4 THEN {Serialize(new)}
    ELSE {Serialize(s) : s \in SeqExt!SetToSeqs(Final(new \o Parse(buf)))}

(*****************************************************************************)
(* merge: through a HashMap, whose order is any.                             *)
(*****************************************************************************)
MergeBuffers(buf, new) ==
    IF Len(buf) < 4 THEN {Serialize(new)}
    ELSE {Serialize(s) : s \in SeqExt!SetToSeqs(Final(Parse(buf) \o new))}

(*****************************************************************************)
(* deserialize_into_resp: an array of two entries for each field counted.    *)
(*****************************************************************************)
Announced(buf) == IF Len(buf) < 4 THEN 0 ELSE 2 * FromBigEndian(buf, 1)
-----------------------------------------------------------------------------
\* the pairs of an HMSET as the client sends them, fields repeated or not
PairLists == UNION {[1 .. n -> Field \X Val] : n \in 1 .. MaxPairs}

Spelled(pairs) == [i \in 1 .. Len(pairs) |-> <<Spell[pairs[i][1]], Spell[pairs[i][2]]>>]

\* what a client asks for with them: the last value of each field
Meaning(pairs) ==
    [x \in Field |->
        IF \E i \in 1 .. Len(pairs) : pairs[i][1] = x
        THEN LET last == CHOOSE i \in 1 .. Len(pairs) :
                            /\ pairs[i][1] = x
                            /\ \A j \in i + 1 .. Len(pairs) : pairs[j][1] # x
             IN  pairs[last][2]
        ELSE NoVal]

\* the pairs HGETALL answers, and whether they give a client the hash h
Answers(buf, h) ==
    LET pairs == Parse(buf)
    IN  /\ Announced(buf) = 2 * Len(pairs)
        /\ Final(pairs) = {<<Spell[x], Spell[h[x]]>> : x \in {y \in Field : h[y] # NoVal}}

\* an HMSET whose bytes do not read back, by themselves or under a second one
ReadsWrong(pairs) ==
    LET buf == Serialize(Spelled(pairs))
    IN  ~ /\ Answers(buf, Meaning(pairs))
          /\ \A new \in PairLists : \A both \in MergeBuffers(buf, Spelled(new)) :
                /\ Answers(both, Merge(Meaning(pairs), Meaning(new)))
                /\ Cardinality(Final(Parse(both))) = Len(Parse(both))

Misread == {Meaning(pairs) : pairs \in {p \in PairLists : ReadsWrong(p)}}

(*****************************************************************************)
(* Every hash in memory, however its pairs were sent, reads back from its    *)
(* packed bytes as the fields it has, with as many entries as the reply      *)
(* announces; and so it does after any further HMSET, each field once        *)
(* (hash_engine.rs:7-102).                                                   *)
(*****************************************************************************)
PackedHashesReadBack ==
    \A k \in Key : db[k].kind = "hash" => db[k].fields \notin Misread
=============================================================================
