------------------------------ MODULE Gateway ------------------------------
(*****************************************************************************)
(* The worker threads of the gateway (src/omega/src/main.rs:262-335) and the *)
(* commands they execute (main.rs:378-599).  A worker is a thread with a     *)
(* single-threaded runtime: it runs one command at a time, but the workers   *)
(* share the keyspace (a DashMap), the vector store, the topics of the       *)
(* accelerator and the sending end of the persistence channel, and take a    *)
(* lock for one access at a time.  A command is therefore several steps.     *)
(*                                                                           *)
(* The channel is std::sync::mpsc: unbounded, first in first out.  Here      *)
(* nothing reads it; PersistenceNeural does, and OmegaDrive composes both.   *)
(*****************************************************************************)
EXTENDS Keyspace

CONSTANTS Worker,      \* worker threads
          Workload,    \* Workload[w]: the commands the clients of w send
          Utf8Key,     \* the keys that are valid UTF-8
          NumShards,   \* shards of the DashMap, cleared one after the other
          ShardOf,     \* ShardOf[k]: the shard that holds key k
          MaxCommands, \* bound: commands begun in a behaviour
          NoCmd        \* "no command is being executed"

(*****************************************************************************)
(* The commands, as parse_command_fast hands them over.  SET is an MSET of   *)
(* one pair but for its cipher.  All keys but those of MSET and MGET passed  *)
(* str::from_utf8 in the parser.                                             *)
(*****************************************************************************)
Pair == [key : Key, val : Val]

Command ==
         [op : {"set"}, pairs : {<<p>> : p \in [key : Utf8Key, val : Val]}]
    \cup [op : {"mset"}, pairs : Seq(Pair) \ {<<>>}]
    \cup [op : {"del", "vadd", "get", "hgetall"}, key : Utf8Key]
    \cup [op : {"mget"}, keys : Seq(Key)]
    \cup [op : {"hmset"}, key : Utf8Key, fields : FieldMap]
    \cup [op : {"flush"}]

ASSUME GatewayAssumption ==
    /\ Utf8Key \subseteq Key
    /\ NumShards \in Nat \ {0}
    /\ ShardOf \in [Key -> 0 .. NumShards - 1]
    /\ MaxCommands \in Nat
    /\ Workload \in [Worker -> SUBSET Command]
    /\ NoCmd \notin Command

VARIABLES
    db,      \* the keyspace
    vecs,    \* how many vectors the vector store holds under each key
    topic,   \* the last payload broadcast on each key's topic
    chan,    \* the persistence channel
    pc,      \* where each worker is in its command
    cmd,     \* the command each worker executes
    rest,    \* SET, MSET: the pairs still to be stored
    merged,  \* HMSET: the hash computed under get_mut, not yet inserted
    shard,   \* FLUSHDB: the next shard to clear
    reply,   \* the replies of the last reading command of each worker
    issued,  \* commands begun, for the bound
    logKv,   \* history: what replaying everything ever sent would give
    lastRec  \* history: the last record each worker sent about each key

gatewayVars == <<db, vecs, topic, chan, pc, cmd, rest, merged, shard, reply, issued,
                 logKv, lastRec>>

Steps == {"idle", "insert", "publish", "sendPair", "remove", "addVector",
          "readHash", "insertHash", "clearShards", "clearVectors", "send", "read"}

NoTopic == [kind |-> "none"]
NoRec   == [op |-> "none"]

GatewayTypeOK ==
    /\ db \in [Key -> NeuralValue]
    /\ vecs \in [Key -> Nat]
    /\ topic \in [Key -> {NoTopic} \cup [kind : {"str"}, val : Val]]
    /\ chan \in Seq(PersistenceCommand)
    /\ pc \in [Worker -> Steps]
    /\ cmd \in [Worker -> Command \cup {NoCmd}]
    /\ rest \in [Worker -> Seq(Pair)]
    /\ merged \in [Worker -> FieldMap]
    /\ shard \in [Worker -> 0 .. NumShards]
    /\ issued \in Nat
    /\ logKv \in [Key -> NeuralValue]
    /\ lastRec \in [Worker -> [Key -> PersistenceCommand \cup {NoRec}]]

NoFields == [f \in Field |-> NoVal]

GatewayInit ==
    /\ db = EmptyKv
    /\ vecs = EmptyVecs
    /\ topic = [k \in Key |-> NoTopic]
    /\ chan = <<>>
    /\ pc = [w \in Worker |-> "idle"]
    /\ cmd = [w \in Worker |-> NoCmd]
    /\ rest = [w \in Worker |-> <<>>]
    /\ merged = [w \in Worker |-> NoFields]
    /\ shard = [w \in Worker |-> 0]
    /\ reply = [w \in Worker |-> <<>>]
    /\ issued = 0
    /\ logKv = EmptyKv
    /\ lastRec = [w \in Worker |-> [k \in Key |-> NoRec]]

Goto(w, l) == pc' = [pc EXCEPT ![w] = l]

(*****************************************************************************)
(* The worker has parsed a command: the first step of its match arm.         *)
(*****************************************************************************)
FirstStep(c) ==
    CASE c.op \in {"set", "mset"}            -> "insert"
      [] c.op = "del"                        -> "remove"
      [] c.op = "vadd"                       -> "addVector"
      [] c.op = "hmset"                      -> "readHash"
      [] c.op = "flush"                      -> "clearShards"
      [] c.op \in {"get", "mget", "hgetall"} -> "read"

Begin(w) ==
    /\ pc[w] = "idle"
    /\ issued < MaxCommands
    /\ \E c \in Workload[w] :
          /\ Goto(w, FirstStep(c))
          /\ cmd' = [cmd EXCEPT ![w] = c]
          /\ rest' = [rest EXCEPT ![w] = IF c.op \in {"set", "mset"} THEN c.pairs ELSE <<>>]
    /\ shard' = [shard EXCEPT ![w] = 0]
    /\ reply' = [reply EXCEPT ![w] = <<>>]
    /\ issued' = issued + 1
    /\ UNCHANGED <<db, vecs, topic, chan, merged, logKv, lastRec>>

(*****************************************************************************)
(* tx.send: the record goes to the end of the channel.                       *)
(*****************************************************************************)
About(r) == IF r.op = "flush" THEN Key ELSE {r.key}

Send(w, r) ==
    /\ chan' = Append(chan, r)
    /\ logKv' = ApplyKv(logKv, r)
    /\ lastRec' = [lastRec EXCEPT ![w] =
                      [k \in Key |-> IF k \in About(r) /\ r.op # "vadd" THEN r ELSE @[k]]]

(*****************************************************************************)
(* SET and MSET: for each pair in turn, insert, broadcast, send.             *)
(*****************************************************************************)
CipherOf(c) == IF c.op = "set" THEN "cascade" ELSE "raw"

InsertPair(w) ==
    /\ pc[w] = "insert"
    /\ LET p == Head(rest[w])
       IN  db' = [db EXCEPT ![p.key] = Str(p.val, CipherOf(cmd[w]))]
    /\ Goto(w, "publish")
    /\ UNCHANGED <<vecs, topic, chan, cmd, rest, merged, shard, reply, issued, logKv, lastRec>>

\* mutant of PublishPair: only SET broadcasts
PublishPairOfSet(w) ==
    /\ pc[w] = "publish"
    /\ LET p == Head(rest[w])
       IN  topic' = IF cmd[w].op = "set" /\ p.key \in Utf8Key
                    THEN [topic EXCEPT ![p.key] = [kind |-> "str", val |-> p.val]]
                    ELSE topic
    /\ Goto(w, "sendPair")
    /\ UNCHANGED <<db, vecs, chan, cmd, rest, merged, shard, reply, issued, logKv, lastRec>>

\* a key that is not UTF-8 is neither broadcast nor persisted (main.rs:476)
PublishPair(w) ==
    /\ pc[w] = "publish"
    /\ LET p == Head(rest[w])
       IN  topic' = IF p.key \in Utf8Key
                    THEN [topic EXCEPT ![p.key] = [kind |-> "str", val |-> p.val]]
                    ELSE topic
    /\ Goto(w, "sendPair")
    /\ UNCHANGED <<db, vecs, chan, cmd, rest, merged, shard, reply, issued, logKv, lastRec>>

SendPair(w) ==
    /\ pc[w] = "sendPair"
    /\ LET p == Head(rest[w])
       IN  IF p.key \in Utf8Key THEN Send(w, SetRec(p.key, p.val))
                                ELSE UNCHANGED <<chan, logKv, lastRec>>
    /\ rest' = [rest EXCEPT ![w] = Tail(@)]
    /\ Goto(w, IF Len(rest[w]) = 1 THEN "idle" ELSE "insert")
    /\ UNCHANGED <<db, vecs, topic, cmd, merged, shard, reply, issued>>

(*****************************************************************************)
(* DEL, VADD: one access, then send.  The record is sent even when DEL found *)
(* nothing.                                                                  *)
(*****************************************************************************)
Remove(w) ==
    /\ pc[w] = "remove"
    /\ db' = [db EXCEPT ![cmd[w].key] = Absent]
    /\ Goto(w, "send")
    /\ UNCHANGED <<vecs, topic, chan, cmd, rest, merged, shard, reply, issued, logKv, lastRec>>

AddVector(w) ==
    /\ pc[w] = "addVector"
    /\ vecs' = [vecs EXCEPT ![cmd[w].key] = @ + 1]
    /\ Goto(w, "send")
    /\ UNCHANGED <<db, topic, chan, cmd, rest, merged, shard, reply, issued, logKv, lastRec>>

\* mutant of ReadHash: the new fields replace the hash
ReadHashNoMerge(w) ==
    /\ pc[w] = "readHash"
    /\ merged' = [merged EXCEPT ![w] = cmd[w].fields]
    /\ Goto(w, "insertHash")
    /\ UNCHANGED <<db, vecs, topic, chan, cmd, rest, shard, reply, issued, logKv, lastRec>>

(*****************************************************************************)
(* HMSET: the new hash is computed under the shard's guard, which is dropped *)
(* before the insert takes it again.                                         *)
(*****************************************************************************)
ReadHash(w) ==
    /\ pc[w] = "readHash"
    /\ merged' = [merged EXCEPT ![w] = HmSetOver(db[cmd[w].key], cmd[w].fields)]
    /\ Goto(w, "insertHash")
    /\ UNCHANGED <<db, vecs, topic, chan, cmd, rest, shard, reply, issued, logKv, lastRec>>

InsertHash(w) ==
    /\ pc[w] = "insertHash"
    /\ db' = [db EXCEPT ![cmd[w].key] = FlatHash(merged[w])]
    /\ Goto(w, "send")
    /\ UNCHANGED <<vecs, topic, chan, cmd, rest, merged, shard, reply, issued, logKv, lastRec>>

\* mutant of ClearShard: one shard too many
ClearShardPastEnd(w) ==
    /\ pc[w] = "clearShards"
    /\ db' = [k \in Key |-> IF ShardOf[k] = shard[w] THEN Absent ELSE db[k]]
    /\ shard' = [shard EXCEPT ![w] = @ + 1]
    /\ Goto(w, IF shard[w] = NumShards THEN "clearVectors" ELSE "clearShards")
    /\ UNCHANGED <<vecs, topic, chan, cmd, rest, merged, reply, issued, logKv, lastRec>>

(*****************************************************************************)
(* FLUSHDB: the keyspace shard by shard, the vector store (whose own shards  *)
(* VectorStore models), then send.                                           *)
(*****************************************************************************)
ClearShard(w) ==
    /\ pc[w] = "clearShards"
    /\ db' = [k \in Key |-> IF ShardOf[k] = shard[w] THEN Absent ELSE db[k]]
    /\ shard' = [shard EXCEPT ![w] = @ + 1]
    /\ Goto(w, IF shard[w] + 1 = NumShards THEN "clearVectors" ELSE "clearShards")
    /\ UNCHANGED <<vecs, topic, chan, cmd, rest, merged, reply, issued, logKv, lastRec>>

ClearVectors(w) ==
    /\ pc[w] = "clearVectors"
    /\ vecs' = EmptyVecs
    /\ Goto(w, "send")
    /\ UNCHANGED <<db, topic, chan, cmd, rest, merged, shard, reply, issued, logKv, lastRec>>

(*****************************************************************************)
(* The record of a DEL, HMSET, VADD or FLUSHDB, sent after it was executed.  *)
(*****************************************************************************)
RecordOf(c) ==
    CASE c.op = "del"   -> DelRec(c.key)
      [] c.op = "hmset" -> HmSetRec(c.key, c.fields)
      [] c.op = "vadd"  -> VAddRec(c.key)
      [] c.op = "flush" -> FlushRec

\* mutant of SendRecord: a DEL is executed but not persisted
SendRecordNotDel(w) ==
    /\ pc[w] = "send"
    /\ IF cmd[w].op = "del" THEN UNCHANGED <<chan, logKv, lastRec>>
                            ELSE Send(w, RecordOf(cmd[w]))
    /\ Goto(w, "idle")
    /\ UNCHANGED <<db, vecs, topic, cmd, rest, merged, shard, reply, issued>>

SendRecord(w) ==
    /\ pc[w] = "send"
    /\ Send(w, RecordOf(cmd[w]))
    /\ Goto(w, "idle")
    /\ UNCHANGED <<db, vecs, topic, cmd, rest, merged, shard, reply, issued>>

(*****************************************************************************)
(* GET, HGETALL and MGET, which reads its keys one at a time.                *)
(*****************************************************************************)
Read(w) ==
    /\ pc[w] = "read"
    /\ LET c == cmd[w]
       IN  \/ /\ c.op = "get"
              /\ reply' = [reply EXCEPT ![w] = <<GetReply(db[c.key])>>]
              /\ Goto(w, "idle")
           \/ /\ c.op = "hgetall"
              /\ reply' = [reply EXCEPT ![w] = <<HGetAllReply(db[c.key])>>]
              /\ Goto(w, "idle")
           \/ /\ c.op = "mget"
              /\ Len(reply[w]) < Len(c.keys)
              /\ reply' = [reply EXCEPT ![w] = Append(@, MGetReply(db[c.keys[Len(@) + 1]]))]
              /\ UNCHANGED pc
           \/ /\ c.op = "mget"
              /\ Len(reply[w]) = Len(c.keys)
              /\ Goto(w, "idle")
              /\ UNCHANGED reply
    /\ UNCHANGED <<db, vecs, topic, chan, cmd, rest, merged, shard, issued, logKv, lastRec>>

Execute(w) ==
    \/ InsertPair(w) \/ PublishPair(w) \/ SendPair(w)
    \/ Remove(w) \/ AddVector(w)
    \/ ReadHash(w) \/ InsertHash(w)
    \/ ClearShard(w) \/ ClearVectors(w)
    \/ SendRecord(w)
    \/ Read(w)

GatewayNext == \E w \in Worker : Begin(w) \/ Execute(w)

GatewaySpec == GatewayInit /\ [][GatewayNext]_gatewayVars
-----------------------------------------------------------------------------
(*****************************************************************************)
(* The keys a command may change, and the keys only one worker's clients     *)
(* change: nothing in the code asks for that, two of the properties need it. *)
(*****************************************************************************)
Touches(c) ==
    CASE c.op \in {"set", "mset"}                    -> {c.pairs[i].key : i \in DOMAIN c.pairs}
      [] c.op \in {"del", "hmset"}                   -> {c.key}
      [] c.op = "flush"                              -> Key
      [] c.op \in {"vadd", "get", "mget", "hgetall"} -> {}

Writes(w, k) == \E c \in Workload[w] : k \in Touches(c)

OneWriter(k) == \A u, w \in Worker : Writes(u, k) /\ Writes(w, k) => u = w

\* no worker is in the middle of a command that changes k
AtRest(k) == \A w \in Worker : pc[w] # "idle" => k \notin Touches(cmd[w])

(*****************************************************************************)
(* Memory and log agree on every key at rest that has one writer: what the   *)
(* persistence thread will have written, replayed, is what the clients see   *)
(* (main.rs:391, 423, 441, 480, 536 against 188-239).                        *)
(*****************************************************************************)
MemoryMatchesLog ==
    \A k \in Utf8Key : OneWriter(k) /\ AtRest(k) => Content(db[k]) = Content(logKv[k])

(*****************************************************************************)
(* The last payload pushed to the subscribers of a key is the string the key *)
(* holds, as soon as the command that stored it is over (main.rs:388, 477).  *)
(*****************************************************************************)
TopicMatchesMemory ==
    \A k \in Utf8Key :
        OneWriter(k) /\ AtRest(k) /\ db[k].kind = "str"
            => topic[k] = [kind |-> "str", val |-> db[k].val]

(*****************************************************************************)
(* Two workers may log their commands on a key in the other order than they  *)
(* executed them, but memory then still holds what the last command of one   *)
(* of them asked for: no command is half undone, none is executed and left   *)
(* unlogged.                                                                 *)
(*****************************************************************************)
AskedFor(r, x) ==
    CASE r.op = "set"             -> Content(x) = [kind |-> "str", val |-> r.val]
      [] r.op \in {"del", "flush"} -> x = Absent
      [] r.op = "hmset"           -> /\ x.kind = "hash"
                                     /\ \A f \in Field : r.fields[f] # NoVal =>
                                                            x.fields[f] = r.fields[f]

MemoryIsSomeLastWrite ==
    \A k \in Utf8Key :
        AtRest(k) =>
            \/ db[k] = Absent /\ \A w \in Worker : lastRec[w][k] = NoRec
            \/ \E w \in Worker : lastRec[w][k] # NoRec /\ AskedFor(lastRec[w][k], db[k])

(*****************************************************************************)
(* A string stored by SET or MSET is readable by GET and by MGET             *)
(* (main.rs:398-416, 499-514).                                               *)
(*****************************************************************************)
StringsAreReadable ==
    \A w \in Worker : \A i \in DOMAIN reply[w] : reply[w][i].kind # "garbled"
=============================================================================
