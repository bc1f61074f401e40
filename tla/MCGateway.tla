----------------------------- MODULE MCGateway -----------------------------
(*****************************************************************************)
(* Small workloads for TLC: two workers, two or three keys.                  *)
(*****************************************************************************)
EXTENDS FlatHashBytes, Cipher, TLC

CONSTANTS w1, w2, a, b, z, v1, v2, f, g, e1, e2

Set(k, v)   == [op |-> "set", pairs |-> <<[key |-> k, val |-> v]>>]
MSet(k, v, l, u) ==
    [op |-> "mset", pairs |-> <<[key |-> k, val |-> v], [key |-> l, val |-> u]>>]
Del(k)      == [op |-> "del", key |-> k]
Get(k)      == [op |-> "get", key |-> k]
MGet(k, l)  == [op |-> "mget", keys |-> <<k, l>>]
HGetAll(k)  == [op |-> "hgetall", key |-> k]
VAdd(k)     == [op |-> "vadd", key |-> k]
HmSet(k, x, v) == [op |-> "hmset", key |-> k, fields |-> [NoFields EXCEPT ![x] = v]]
Flush       == [op |-> "flush"]

(*****************************************************************************)
(* Key a has one writer, which also flushes; key b has two; z is not UTF-8.  *)
(*****************************************************************************)
Workloads ==
    w1 :> {Set(a, v1), MSet(a, v2, z, v1), Del(a), HmSet(a, f, v1), HmSet(a, g, v2), Flush,
           MGet(a, b)}
 @@ w2 :> {Set(b, v1), MSet(b, v2, b, v1), HmSet(b, f, v2), VAdd(b), Get(a), HGetAll(a)}

(*****************************************************************************)
(* Strings only, written and read by both pairs of commands.                 *)
(*****************************************************************************)
MixedReaders  == w1 :> {Set(a, v1), MSet(a, v1, b, v2), MGet(a, b)} @@ w2 :> {Get(a), Get(b)}

Shards == (a :> 0) @@ (b :> 1) @@ (z :> 1)
\* a field without a name, values of one byte and of several
Spelling == (f :> <<>>) @@ (g :> <<102, 1>>) @@ (v1 :> <<7>>) @@ (v2 :> <<0, 0, 0, 1, 255>>)

(*****************************************************************************)
(* A cipher of bits, two to a block.                                         *)
(*****************************************************************************)
BitXor(x, y)  == (x + y) % 2
BitKeys       == e1 :> <<0, 1>> @@ e2 :> <<1, 1>>
FirstBit(row) == IF row[1] = 0 THEN e1 ELSE e2
KeyStreams    == e1 :> <<1, 0, 0, 1, 1>> @@ e2 :> <<0, 1, 1, 0, 1>>

\* what is stored reads back, but not all of it from a GPU that routed blocks apart
ASSUME CipherReadsBack ==
    /\ CascadeReadsBack
    /\ RawReadsBack
    /\ \E input \in Value : ReconstructRaw(ForwardGpu(input), Len(input)) # input
=============================================================================
