------------------------------- MODULE Cipher -------------------------------
(*****************************************************************************)
(* The cipher every string is stored under (McnnModel,                       *)
(* src/omega/src/inference.rs): the value is cut into blocks, a router picks *)
(* an expert by the first of them, and the expert's key is XORed to each;    *)
(* the cascade of SET and GET enciphers with ChaCha20 first.  The router's   *)
(* network and ChaCha20 are parameters: nothing read back may depend on      *)
(* them.                                                                     *)
(*****************************************************************************)
EXTENDS Naturals, Sequences

CONSTANTS Block,      \* bytes of a block, 64 in the code
          MaxLen,     \* bytes of the longest value
          Byte,
          Xor(_, _),
          Expert,
          BitKey,     \* the key of each expert
          Router(_),  \* the expert a block is routed to
          KeyStream   \* ChaCha20 under each expert's key

Row == [1 .. Block -> Byte]

ASSUME CipherAssumption ==
    /\ Block \in Nat \ {0}
    /\ MaxLen \in Nat
    /\ 0 \in Byte
    /\ \A x, y \in Byte : Xor(x, y) \in Byte /\ Xor(Xor(x, y), y) = x
    /\ BitKey \in [Expert -> Row]
    /\ \A row \in Row : Router(row) \in Expert
    /\ KeyStream \in [Expert -> [1 .. MaxLen -> Byte]]

Value == UNION {[1 .. n -> Byte] : n \in 0 .. MaxLen}

(*****************************************************************************)
(* Blocks: how many a value fills, the i-th of them with zeros behind the    *)
(* value's end, and the bytes of a list of blocks up to a length.            *)
(*****************************************************************************)
ChunksCount(n) == (n + Block - 1) \div Block

RowAt(data, i) ==
    [j \in 1 .. Block |->
        IF (i - 1) * Block + j <= Len(data) THEN data[(i - 1) * Block + j] ELSE 0]

Truncated(chunks, n) ==
    LET len == IF n < Len(chunks) * Block THEN n ELSE Len(chunks) * Block
    IN  [k \in 1 .. len |-> chunks[1 + ((k - 1) \div Block)][1 + ((k - 1) % Block)]]

ForwardWithExpert(e, row) == [j \in 1 .. Block |-> Xor(row[j], BitKey[e][j])]

ApplyKeystream(e, data) == [k \in 1 .. Len(data) |-> Xor(data[k], KeyStream[e][k])]

(*****************************************************************************)
(* The expert of a value: chosen by its first block, or by a block of zeros  *)
(* when the value does not fill one (try_into fails for anything shorter).   *)
(*****************************************************************************)
BestIdx(input) ==
    Router(IF Len(input) < Block THEN [j \in 1 .. Block |-> 0] ELSE RowAt(input, 1))

\* an empty value is stored as one block of zeros
Enciphered(input, data) ==
    LET e == BestIdx(input)
        n == IF Len(input) = 0 THEN 1 ELSE ChunksCount(Len(input))
    IN  [best_idx |-> e,
         chunks   |-> [i \in 1 .. n |-> ForwardWithExpert(e, RowAt(data, i))]]

ForwardCascade(input) == Enciphered(input, ApplyKeystream(BestIdx(input), input))

(*****************************************************************************)
(* forward_raw.  On the GPU (forward_gpu_async, for values of 1024 blocks    *)
(* and more) the kernel routes every block by itself and enciphers it with   *)
(* its own expert; only the first one's index is kept.                       *)
(*****************************************************************************)
ForwardRaw(input) == Enciphered(input, input)

ForwardGpu(input) ==
    [best_idx |-> Router(RowAt(input, 1)),
     chunks   |-> [i \in 1 .. ChunksCount(Len(input)) |->
                      ForwardWithExpert(Router(RowAt(input, i)), RowAt(input, i))]]

(*****************************************************************************)
(* What MGET and GET read.  The kernel of reconstruct_gpu_ext gives every    *)
(* block the one index that was kept: it computes the same.                  *)
(*****************************************************************************)
ReconstructRaw(nv, n) ==
    Truncated([i \in 1 .. Len(nv.chunks) |->
                  ForwardWithExpert(nv.best_idx, nv.chunks[i])], n)

ReconstructCascade(nv, n) == ApplyKeystream(nv.best_idx, ReconstructRaw(nv, n))

\* every block of a value is routed to the expert of the first
RoutedAlike(input) ==
    \A i \in 1 .. ChunksCount(Len(input)) : Router(RowAt(input, i)) = Router(RowAt(input, 1))
-----------------------------------------------------------------------------
(*****************************************************************************)
(* SET and GET, MSET and MGET: the value given is the value read, whatever   *)
(* its length (inference.rs:210-367).  On the GPU the second is so only if   *)
(* every block of the value has the first one's expert.                      *)
(*****************************************************************************)
CascadeReadsBack ==
    \A input \in Value : ReconstructCascade(ForwardCascade(input), Len(input)) = input

RawReadsBack ==
    \A input \in Value :
        /\ ReconstructRaw(ForwardRaw(input), Len(input)) = input
        /\ RoutedAlike(input) => ReconstructRaw(ForwardGpu(input), Len(input)) = input
=============================================================================
