------------------------------ MODULE Keyspace ------------------------------
(*****************************************************************************)
(* The data OmegaDrive keeps and the commands it logs: what a key may hold   *)
(* (NeuralValue, src/omega/src/main.rs:88), what the append-only file may    *)
(* contain (PersistenceCommand, persistence_neural.rs:7), and what one       *)
(* logged command does to the data when it is replayed at boot               *)
(* (main.rs:188-239).  There is no state here: the modules of the gateway    *)
(* and of the persistence controller share these definitions.                *)
(*****************************************************************************)
EXTENDS Naturals, Sequences

CONSTANTS Key,    \* keys a client may name
          Val,    \* values of strings and hash fields, none of them empty
          Field,  \* names of hash fields
          NoVal   \* "this field is not in the hash"

ASSUME NoValAssumption == NoVal \notin Val

(*****************************************************************************)
(* A hash is a total function on Field, NoVal where the field is missing.    *)
(*****************************************************************************)
FieldMap == [Field -> Val \cup {NoVal}]

(*****************************************************************************)
(* How the bytes of a string are enciphered in memory: by forward_cascade    *)
(* (ChaCha20, then XOR) or by forward_raw (XOR only).                        *)
(*****************************************************************************)
Encoding == {"cascade", "raw"}

Absent       == [kind |-> "absent"]
Str(v, e)    == [kind |-> "str", val |-> v, enc |-> e]
FlatHash(h)  == [kind |-> "hash", fields |-> h]

NeuralValue == {Absent}
          \cup [kind : {"str"}, val : Val, enc : Encoding]
          \cup [kind : {"hash"}, fields : FieldMap]

(*****************************************************************************)
(* FlatHash::merge: the new fields override the old ones.                    *)
(*****************************************************************************)
Merge(old, new) ==
    [f \in Field |-> IF new[f] = NoVal THEN old[f] ELSE new[f]]

(*****************************************************************************)
(* The hash an HMSET of new stores over x: merged into a hash, replacing     *)
(* anything else, a string included.                                         *)
(*****************************************************************************)
HmSetOver(x, new) == IF x.kind = "hash" THEN Merge(x.fields, new) ELSE new

(*****************************************************************************)
(* What a client means by a value, however it is enciphered.                 *)
(*****************************************************************************)
Content(x) == IF x.kind = "str" THEN [kind |-> "str", val |-> x.val] ELSE x

(*****************************************************************************)
(* The logged commands.                                                      *)
(*****************************************************************************)
SetRec(k, v)    == [op |-> "set", key |-> k, val |-> v]
DelRec(k)       == [op |-> "del", key |-> k]
HmSetRec(k, h)  == [op |-> "hmset", key |-> k, fields |-> h]
VAddRec(k)      == [op |-> "vadd", key |-> k]
FlushRec        == [op |-> "flush"]

PersistenceCommand ==
         [op : {"set"}, key : Key, val : Val]
    \cup [op : {"del", "vadd"}, key : Key]
    \cup [op : {"hmset"}, key : Key, fields : FieldMap]
    \cup {FlushRec}

(*****************************************************************************)
(* One step of the boot-time replay, on the keyspace and on the vector store *)
(* (how many vectors are stored under each key: VADD always appends).        *)
(*****************************************************************************)
ApplyKv(kv, r) ==
    CASE r.op = "set"   -> [kv EXCEPT ![r.key] = Str(r.val, "cascade")]
      [] r.op = "del"   -> [kv EXCEPT ![r.key] = Absent]
      [] r.op = "hmset" -> [kv EXCEPT ![r.key] = FlatHash(HmSetOver(kv[r.key], r.fields))]
      [] r.op = "flush" -> [k \in Key |-> Absent]
      [] r.op = "vadd"  -> kv

ApplyVecs(vecs, r) ==
    CASE r.op = "vadd"  -> [vecs EXCEPT ![r.key] = @ + 1]
      [] r.op = "flush" -> [k \in Key |-> 0]
      [] OTHER          -> vecs

EmptyKv   == [k \in Key |-> Absent]
EmptyVecs == [k \in Key |-> 0]

(*****************************************************************************)
(* What the three reading commands answer for one key: GET always undoes the *)
(* cascade, MGET always undoes the plain XOR, so each garbles what the other *)
(* writer stored.                                                            *)
(*****************************************************************************)
Decipher(x, e) == IF x.enc = e THEN [kind |-> "bulk", val |-> x.val]
                               ELSE [kind |-> "garbled"]

GetReply(x) ==
    CASE x.kind = "absent" -> [kind |-> "null"]
      [] x.kind = "hash"   -> [kind |-> "wrongtype"]
      [] x.kind = "str"    -> Decipher(x, "cascade")

MGetReply(x) ==
    IF x.kind = "str" THEN Decipher(x, "raw") ELSE [kind |-> "null"]

HGetAllReply(x) ==
    CASE x.kind = "absent" -> [kind |-> "empty"]
      [] x.kind = "str"    -> [kind |-> "wrongtype"]
      [] x.kind = "hash"   -> [kind |-> "fields", fields |-> x.fields]
=============================================================================
