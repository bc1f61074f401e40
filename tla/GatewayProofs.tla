---------------------------- MODULE GatewayProofs ----------------------------
(*****************************************************************************)
(* For every workload, number of workers and way of sharding the keyspace:   *)
(* the gateway keeps its types; what a key holds at rest is what the last    *)
(* command of some worker asked for, however the commands interleave; on the *)
(* keys that the clients of one worker write, memory, the persistence        *)
(* channel and the topics agree whenever no command is changing the key;     *)
(* what a SET or an MSET enciphers, a GET or an MGET deciphers; and a hash   *)
(* reads back from its packed bytes.                                         *)
(*****************************************************************************)
EXTENDS FlatHashBytes, Cipher, Induction, FiniteSetTheorems

(*****************************************************************************)
(* The inductive invariant.  Control ties the step a worker is in to its     *)
(* command: what the match arm of the command can reach.  Owed(w, k) is the  *)
(* last record about k that w has executed, sent or not yet: between the     *)
(* store and the send memory is ahead of the log, and the record is the one  *)
(* w is about to send.  MemoryAt says of Owed what MemoryIsSomeLastWrite     *)
(* says of what was sent, and says it of keys that are not at rest too.      *)
(*****************************************************************************)
Storing == {"insert", "publish", "sendPair"}

Control(w) ==
    /\ pc[w] # "idle" => cmd[w] \in Command
    /\ pc[w] \in Storing =>
           /\ cmd[w].op \in {"set", "mset"}
           /\ rest[w] # <<>>
           /\ \A i \in 1 .. Len(rest[w]) : rest[w][i].key \in Touches(cmd[w])
    /\ pc[w] = "remove" => cmd[w].op = "del"
    /\ pc[w] = "addVector" => cmd[w].op = "vadd"
    /\ pc[w] \in {"readHash", "insertHash"} => cmd[w].op = "hmset"
    /\ pc[w] = "insertHash" =>
           \A f \in Field : cmd[w].fields[f] # NoVal => merged[w][f] = cmd[w].fields[f]
    /\ pc[w] = "clearShards" => cmd[w].op = "flush" /\ shard[w] < NumShards
    /\ pc[w] = "clearVectors" => cmd[w].op = "flush" /\ shard[w] = NumShards
    /\ pc[w] = "send" =>
           /\ cmd[w].op \in {"del", "vadd", "hmset", "flush"}
           /\ cmd[w].op = "flush" => shard[w] = NumShards

Unsent(w, k) ==
    \/ pc[w] \in {"publish", "sendPair"} /\ Head(rest[w]).key = k
    \/ pc[w] = "send" /\ cmd[w].op \in {"del", "hmset"} /\ cmd[w].key = k
    \/ pc[w] \in {"clearShards", "clearVectors", "send"} /\ cmd[w].op = "flush"
       /\ ShardOf[k] < shard[w]

Due(w) ==
    IF pc[w] \in {"publish", "sendPair"} THEN SetRec(Head(rest[w]).key, Head(rest[w]).val)
                                         ELSE RecordOf(cmd[w])

Owed(w, k) == IF Unsent(w, k) THEN Due(w) ELSE lastRec[w][k]

MemoryAt(k) ==
    \/ db[k] = Absent /\ \A w \in Worker : Owed(w, k) = NoRec
    \/ \E w \in Worker : Owed(w, k) # NoRec /\ AskedFor(Owed(w, k), db[k])

TypeInv == GatewayTypeOK /\ \A w \in Worker : Control(w)

MemoryInv == TypeInv /\ \A k \in Utf8Key : MemoryAt(k)

(*****************************************************************************)
(* The fields of commands and records, and what a replayed record leaves.    *)
(*****************************************************************************)
LEMMA CommandFields ==
    ASSUME NEW c \in Command
    PROVE  /\ c.op \in {"set", "mset", "del", "vadd", "get", "hgetall", "mget", "hmset",
                        "flush"}
           /\ c.op \in {"set", "mset"} => c.pairs \in Seq(Pair) /\ c.pairs # <<>>
           /\ c.op \in {"del", "vadd", "get", "hgetall", "hmset"} => c.key \in Utf8Key
           /\ c.op = "hmset" => c.fields \in FieldMap
  <1>1. CASE c \in [op : {"set"}, pairs : {<<p>> : p \in [key : Utf8Key, val : Val]}]
    <2>1. PICK p \in [key : Utf8Key, val : Val] : c.pairs = <<p>> /\ c.op = "set"
      BY <1>1
    <2>2. p \in Pair
      BY GatewayAssumption DEF Pair
    <2>3. QED
      BY <2>1, <2>2
  <1>2. CASE c \notin [op : {"set"}, pairs : {<<p>> : p \in [key : Utf8Key, val : Val]}]
    BY <1>2 DEF Command
  <1>3. QED
    BY <1>1, <1>2

LEMMA RecordFields ==
    ASSUME NEW r \in PersistenceCommand
    PROVE  /\ r.op \in {"set", "del", "vadd", "hmset", "flush"}
           /\ r.op # "flush" => r.key \in Key
           /\ r.op = "set" => r.val \in Val
           /\ r.op = "hmset" => r.fields \in FieldMap
  BY DEF PersistenceCommand, FlushRec

LEMMA HashOverType ==
    ASSUME NEW x \in NeuralValue, NEW h \in FieldMap
    PROVE  HmSetOver(x, h) \in FieldMap
  BY DEF HmSetOver, Merge, NeuralValue, FieldMap, Absent

LEMMA ApplyType ==
    ASSUME NEW kv \in [Key -> NeuralValue], NEW r \in PersistenceCommand
    PROVE  ApplyKv(kv, r) \in [Key -> NeuralValue]
  <1>1. CASE r.op = "set"
    <2>1. Str(r.val, "cascade") \in NeuralValue
      BY <1>1, RecordFields DEF Str, NeuralValue, Encoding
    <2>2. QED
      BY <1>1, <2>1 DEF ApplyKv
  <1>2. CASE r.op = "del"
    BY <1>2 DEF ApplyKv, NeuralValue
  <1>3. CASE r.op = "hmset"
    <2>1. FlatHash(HmSetOver(kv[r.key], r.fields)) \in NeuralValue
      BY <1>3, RecordFields, HashOverType DEF FlatHash, NeuralValue
    <2>2. QED
      BY <1>3, <2>1 DEF ApplyKv
  <1>4. CASE r.op = "flush"
    BY <1>4 DEF ApplyKv, NeuralValue
  <1>5. CASE r.op = "vadd"
    BY <1>5 DEF ApplyKv
  <1>6. QED
    BY <1>1, <1>2, <1>3, <1>4, <1>5, RecordFields

LEMMA RecordsLogged ==
    /\ \A k \in Key, v \in Val : SetRec(k, v) \in PersistenceCommand
    /\ \A c \in Command : c.op \in {"del", "vadd", "hmset", "flush"} =>
           RecordOf(c) \in PersistenceCommand
  <1>1. \A k \in Key, v \in Val : SetRec(k, v) \in PersistenceCommand
    BY DEF SetRec, PersistenceCommand
  <1>2. ASSUME NEW c \in Command, c.op \in {"del", "vadd", "hmset", "flush"}
        PROVE  RecordOf(c) \in PersistenceCommand
    BY <1>2, CommandFields, GatewayAssumption
       DEF RecordOf, DelRec, VAddRec, HmSetRec, FlushRec, PersistenceCommand
  <1>3. QED
    BY <1>1, <1>2

LEMMA SendType ==
    ASSUME GatewayTypeOK, NEW w \in Worker, NEW r \in PersistenceCommand, Send(w, r)
    PROVE  /\ chan' \in Seq(PersistenceCommand)
           /\ logKv' \in [Key -> NeuralValue]
           /\ lastRec' \in [Worker -> [Key -> PersistenceCommand \cup {NoRec}]]
  <1>1. chan' \in Seq(PersistenceCommand)
    BY DEF Send, GatewayTypeOK
  <1>2. logKv' \in [Key -> NeuralValue]
    BY ApplyType DEF Send, GatewayTypeOK
  <1>3. lastRec' \in [Worker -> [Key -> PersistenceCommand \cup {NoRec}]]
    BY DEF Send, GatewayTypeOK
  <1>4. QED
    BY <1>1, <1>2, <1>3

(*****************************************************************************)
(* A worker's step leaves the other workers where they are.                  *)
(*****************************************************************************)
LEMMA ControlKept ==
    ASSUME NEW u \in Worker, Control(u),
           pc'[u] = pc[u], cmd'[u] = cmd[u], rest'[u] = rest[u],
           merged'[u] = merged[u], shard'[u] = shard[u]
    PROVE  Control(u)'
  BY DEF Control, Touches

(*****************************************************************************)
(* One lemma per group of actions: types and control are preserved.          *)
(*****************************************************************************)
LEMMA BeginType ==
    ASSUME TypeInv, NEW w \in Worker, Begin(w)
    PROVE  TypeInv'
  <1>1. PICK c \in Workload[w] :
            /\ Goto(w, FirstStep(c))
            /\ cmd' = [cmd EXCEPT ![w] = c]
            /\ rest' = [rest EXCEPT ![w] = IF c.op \in {"set", "mset"} THEN c.pairs ELSE <<>>]
    BY DEF Begin
  <1>2. c \in Command
    BY GatewayAssumption
  <1>3. GatewayTypeOK'
    <2>1. FirstStep(c) \in Steps
      BY <1>2, CommandFields DEF FirstStep, Steps
    <2>2. pc' \in [Worker -> Steps]
      BY <1>1, <2>1 DEF Goto, TypeInv, GatewayTypeOK
    <2>3. rest' \in [Worker -> Seq(Pair)]
      BY <1>1, <1>2, CommandFields DEF TypeInv, GatewayTypeOK
    <2>4. shard' \in [Worker -> 0 .. NumShards] /\ issued' \in Nat
      BY GatewayAssumption DEF Begin, TypeInv, GatewayTypeOK
    <2>5. QED
      BY <1>1, <1>2, <2>2, <2>3, <2>4 DEF Begin, TypeInv, GatewayTypeOK
  <1>4. Control(w)'
    <2>1. /\ pc'[w] = FirstStep(c)
          /\ cmd'[w] = c
          /\ rest'[w] = IF c.op \in {"set", "mset"} THEN c.pairs ELSE <<>>
          /\ shard'[w] = 0
      BY <1>1 DEF Begin, Goto, TypeInv, GatewayTypeOK
    <2>2. CASE c.op \in {"set", "mset"}
      BY <1>2, <2>1, <2>2, CommandFields DEF Control, FirstStep, Storing, Touches
    <2>3. CASE c.op \notin {"set", "mset"}
      BY <1>2, <2>1, <2>3, CommandFields, GatewayAssumption DEF Control, FirstStep, Storing
    <2>4. QED
      BY <2>2, <2>3
  <1>5. ASSUME NEW u \in Worker, u # w
        PROVE  Control(u)'
    BY <1>1, <1>5, ControlKept DEF Begin, Goto, TypeInv, GatewayTypeOK
  <1>6. QED
    BY <1>3, <1>4, <1>5 DEF TypeInv

LEMMA StoreType ==
    ASSUME TypeInv, NEW w \in Worker,
           InsertPair(w) \/ PublishPair(w) \/ SendPair(w)
    PROVE  TypeInv'
  <1> DEFINE p == Head(rest[w])
  <1>1. /\ pc[w] \in Storing /\ cmd[w] \in Command
        /\ rest[w] \in Seq(Pair) /\ rest[w] # <<>>
        /\ \A i \in 1 .. Len(rest[w]) : rest[w][i].key \in Touches(cmd[w])
    BY DEF InsertPair, PublishPair, SendPair, TypeInv, GatewayTypeOK, Control, Storing
  <1>2. p \in Pair /\ p.key \in Key /\ p.val \in Val
    <2>1. p \in Pair
      BY <1>1, HeadTailProperties
    <2>2. QED
      BY <2>1 DEF Pair
  <1>3. /\ Tail(rest[w]) \in Seq(Pair)
        /\ Len(rest[w]) # 1 => Tail(rest[w]) # <<>>
        /\ \A i \in 1 .. Len(Tail(rest[w])) : Tail(rest[w])[i].key \in Touches(cmd[w])
    <2>1. /\ Tail(rest[w]) \in Seq(Pair)
          /\ Len(Tail(rest[w])) = Len(rest[w]) - 1
          /\ \A i \in 1 .. Len(Tail(rest[w])) : Tail(rest[w])[i] = rest[w][i + 1]
      BY <1>1, HeadTailProperties
    <2>2. Len(rest[w]) \in Nat
      BY <1>1
    <2>3. \A i \in 1 .. Len(Tail(rest[w])) : i + 1 \in 1 .. Len(rest[w])
      BY <2>1, <2>2
    <2>4. ASSUME Tail(rest[w]) = <<>>
          PROVE  Len(rest[w]) = 1
      <3>1. Len(<<>>) = 0
        BY EmptySeq
      <3>2. Len(Tail(rest[w])) = 0
        BY <2>4, <3>1, Zenon
      <3>3. QED
        BY <2>1, <2>2, <3>2
    <2>5. \A i \in 1 .. Len(Tail(rest[w])) : Tail(rest[w])[i].key \in Touches(cmd[w])
      BY <1>1, <2>1, <2>3
    <2>6. QED
      BY <2>1, <2>4, <2>5, Zenon
  <1>4. CASE InsertPair(w)
    <2>1. Str(p.val, CipherOf(cmd[w])) \in NeuralValue
      BY <1>2 DEF Str, CipherOf, NeuralValue, Encoding
    <2>2. db' \in [Key -> NeuralValue]
      BY <1>4, <2>1 DEF InsertPair, TypeInv, GatewayTypeOK
    <2>3. GatewayTypeOK'
      BY <1>4, <2>2 DEF InsertPair, Goto, Steps, TypeInv, GatewayTypeOK
    <2>4. Control(w)'
      BY <1>4, <1>1, ZenonT(60) DEF InsertPair, Goto, Control, Storing, Touches, TypeInv, GatewayTypeOK
    <2>5. ASSUME NEW u \in Worker, u # w
          PROVE  Control(u)'
      BY <1>4, <2>5, ControlKept DEF InsertPair, Goto, TypeInv, GatewayTypeOK
    <2>6. QED
      BY <2>3, <2>4, <2>5 DEF TypeInv
  <1>5. CASE PublishPair(w)
    <2>1. topic' \in [Key -> {NoTopic} \cup [kind : {"str"}, val : Val]]
      BY <1>5, <1>2 DEF PublishPair, TypeInv, GatewayTypeOK
    <2>2. GatewayTypeOK'
      BY <1>5, <2>1 DEF PublishPair, Goto, Steps, TypeInv, GatewayTypeOK
    <2>3. Control(w)'
      BY <1>5, <1>1, ZenonT(60) DEF PublishPair, Goto, Control, Storing, Touches, TypeInv, GatewayTypeOK
    <2>4. ASSUME NEW u \in Worker, u # w
          PROVE  Control(u)'
      BY <1>5, <2>4, ControlKept DEF PublishPair, Goto, TypeInv, GatewayTypeOK
    <2>5. QED
      BY <2>2, <2>3, <2>4 DEF TypeInv
  <1>6. CASE SendPair(w)
    <2>1. /\ chan' \in Seq(PersistenceCommand)
          /\ logKv' \in [Key -> NeuralValue]
          /\ lastRec' \in [Worker -> [Key -> PersistenceCommand \cup {NoRec}]]
      <3>1. CASE p.key \in Utf8Key
        <4>1. SetRec(p.key, p.val) \in PersistenceCommand /\ Send(w, SetRec(p.key, p.val))
          BY <1>2, <1>6, <3>1, RecordsLogged DEF SendPair
        <4>2. QED
          BY <4>1, SendType DEF TypeInv
      <3>2. CASE p.key \notin Utf8Key
        BY <1>6, <3>2 DEF SendPair, TypeInv, GatewayTypeOK
      <3>3. QED
        BY <3>1, <3>2
    <2>2. GatewayTypeOK'
      BY <1>6, <1>3, <2>1 DEF SendPair, Goto, Steps, TypeInv, GatewayTypeOK
    <2>3. /\ pc'[w] = IF Len(rest[w]) = 1 THEN "idle" ELSE "insert"
          /\ cmd'[w] = cmd[w] /\ rest'[w] = Tail(rest[w])
      BY <1>6 DEF SendPair, Goto, TypeInv, GatewayTypeOK
    <2>4. cmd[w].op \in {"set", "mset"}
      BY <1>1 DEF TypeInv, Control
    <2>5. Control(w)'
      BY <1>1, <1>3, <2>3, <2>4 DEF Control, Storing, Touches
    <2>6. ASSUME NEW u \in Worker, u # w
          PROVE  Control(u)'
      BY <1>6, <2>6, ControlKept DEF SendPair, Goto, TypeInv, GatewayTypeOK
    <2>7. QED
      BY <2>2, <2>5, <2>6 DEF TypeInv
  <1>7. QED
    BY <1>4, <1>5, <1>6

LEMMA ExecuteType ==
    ASSUME TypeInv, NEW w \in Worker,
           Remove(w) \/ AddVector(w) \/ ReadHash(w) \/ InsertHash(w)
    PROVE  TypeInv'
  <1>1. /\ cmd[w] \in Command
        /\ cmd[w].key \in Utf8Key /\ cmd[w].key \in Key
        /\ cmd[w].op \in {"del", "vadd", "hmset"}
    <2>1. cmd[w] \in Command /\ cmd[w].op \in {"del", "vadd", "hmset"}
      BY DEF Remove, AddVector, ReadHash, InsertHash, TypeInv, Control
    <2>2. QED
      BY <2>1, CommandFields, GatewayAssumption
  <1>2. GatewayTypeOK'
    <2>1. CASE Remove(w)
      BY <1>1, <2>1 DEF Remove, Goto, Steps, TypeInv, GatewayTypeOK, NeuralValue
    <2>2. CASE AddVector(w)
      <3>1. vecs' \in [Key -> Nat]
        BY <1>1, <2>2 DEF AddVector, TypeInv, GatewayTypeOK
      <3>2. QED
        BY <2>2, <3>1 DEF AddVector, Goto, Steps, TypeInv, GatewayTypeOK
    <2>3. CASE ReadHash(w)
      <3>1. cmd[w].fields \in FieldMap /\ db[cmd[w].key] \in NeuralValue
        BY <1>1, <2>3, CommandFields DEF ReadHash, TypeInv, Control, GatewayTypeOK
      <3>2. merged' \in [Worker -> FieldMap]
        BY <2>3, <3>1, HashOverType DEF ReadHash, TypeInv, GatewayTypeOK
      <3>3. QED
        BY <2>3, <3>2 DEF ReadHash, Goto, Steps, TypeInv, GatewayTypeOK
    <2>4. CASE InsertHash(w)
      <3>1. FlatHash(merged[w]) \in NeuralValue
        BY DEF FlatHash, NeuralValue, TypeInv, GatewayTypeOK
      <3>2. db' \in [Key -> NeuralValue]
        BY <2>4, <3>1 DEF InsertHash, TypeInv, GatewayTypeOK
      <3>3. QED
        BY <2>4, <3>2 DEF InsertHash, Goto, Steps, TypeInv, GatewayTypeOK
    <2>5. QED
      BY <2>1, <2>2, <2>3, <2>4
  <1>3. Control(w)'
    <2>1. CASE ReadHash(w)
      <3>1. /\ pc'[w] = "insertHash" /\ cmd'[w] = cmd[w] /\ cmd[w].op = "hmset"
            /\ merged'[w] = HmSetOver(db[cmd[w].key], cmd[w].fields)
        BY <2>1 DEF ReadHash, Goto, TypeInv, Control, GatewayTypeOK
      <3>2. \A f \in Field : cmd[w].fields[f] # NoVal => merged'[w][f] = cmd[w].fields[f]
        BY <3>1 DEF HmSetOver, Merge
      <3>3. QED
        BY <1>1, <3>1, <3>2 DEF Control, Storing
    <2>2. CASE Remove(w) \/ AddVector(w) \/ InsertHash(w)
      <3>1. pc'[w] = "send" /\ cmd'[w] = cmd[w]
        BY <2>2 DEF Remove, AddVector, InsertHash, Goto, TypeInv, GatewayTypeOK
      <3>2. QED
        BY <1>1, <3>1 DEF Control, Storing
    <2>3. QED
      BY <2>1, <2>2
  <1>4. ASSUME NEW u \in Worker, u # w
        PROVE  Control(u)'
    BY <1>4, ControlKept
       DEF Remove, AddVector, ReadHash, InsertHash, Goto, TypeInv, GatewayTypeOK
  <1>5. QED
    BY <1>2, <1>3, <1>4 DEF TypeInv

LEMMA FinishType ==
    ASSUME TypeInv, NEW w \in Worker,
           ClearShard(w) \/ ClearVectors(w) \/ SendRecord(w) \/ Read(w)
    PROVE  TypeInv'
  <1>1. cmd[w] \in Command
    BY DEF ClearShard, ClearVectors, SendRecord, Read, TypeInv, Control
  <1>2. CASE ClearShard(w)
    <2>1. /\ shard[w] \in Nat /\ shard[w] < NumShards /\ NumShards \in Nat
          /\ cmd[w].op = "flush"
      BY <1>2, GatewayAssumption DEF ClearShard, TypeInv, Control, GatewayTypeOK
    <2>2. db' \in [Key -> NeuralValue] /\ shard' \in [Worker -> 0 .. NumShards]
      BY <1>2, <2>1 DEF ClearShard, TypeInv, GatewayTypeOK, NeuralValue
    <2>3. GatewayTypeOK'
      BY <1>2, <2>2 DEF ClearShard, Goto, Steps, TypeInv, GatewayTypeOK
    <2>4. /\ pc'[w] = IF shard[w] + 1 = NumShards THEN "clearVectors" ELSE "clearShards"
          /\ cmd'[w] = cmd[w] /\ shard'[w] = shard[w] + 1
      BY <1>2 DEF ClearShard, Goto, TypeInv, GatewayTypeOK
    <2>5. Control(w)'
      BY <1>1, <2>1, <2>4 DEF Control, Storing
    <2>6. ASSUME NEW u \in Worker, u # w
          PROVE  Control(u)'
      BY <1>2, <2>6, ControlKept DEF ClearShard, Goto, TypeInv, GatewayTypeOK
    <2>7. QED
      BY <2>3, <2>5, <2>6 DEF TypeInv
  <1>3. CASE ClearVectors(w)
    <2>1. GatewayTypeOK'
      BY <1>3 DEF ClearVectors, EmptyVecs, Goto, Steps, TypeInv, GatewayTypeOK
    <2>2. Control(w)'
      BY <1>1, <1>3 DEF ClearVectors, Goto, Control, Storing, TypeInv, GatewayTypeOK
    <2>3. ASSUME NEW u \in Worker, u # w
          PROVE  Control(u)'
      BY <1>3, <2>3, ControlKept DEF ClearVectors, Goto, TypeInv, GatewayTypeOK
    <2>4. QED
      BY <2>1, <2>2, <2>3 DEF TypeInv
  <1>4. CASE SendRecord(w)
    <2>1. RecordOf(cmd[w]) \in PersistenceCommand /\ Send(w, RecordOf(cmd[w]))
      BY <1>1, <1>4, RecordsLogged DEF SendRecord, TypeInv, Control
    <2>2. GatewayTypeOK'
      BY <1>4, <2>1, SendType DEF SendRecord, Goto, Steps, TypeInv, GatewayTypeOK
    <2>3. Control(w)'
      BY <1>4 DEF SendRecord, Goto, Control, Storing, TypeInv, GatewayTypeOK
    <2>4. ASSUME NEW u \in Worker, u # w
          PROVE  Control(u)'
      BY <1>4, <2>4, ControlKept DEF SendRecord, Goto, TypeInv, GatewayTypeOK
    <2>5. QED
      BY <2>2, <2>3, <2>4 DEF TypeInv
  <1>5. CASE Read(w)
    <2>1. pc' = [pc EXCEPT ![w] = "idle"] \/ (pc' = pc /\ pc[w] = "read")
      BY <1>5 DEF Read, Goto
    <2>2. GatewayTypeOK'
      BY <1>5, <2>1 DEF Read, Steps, TypeInv, GatewayTypeOK
    <2>3. Control(w)'
      BY <1>5, <1>1, <2>1 DEF Read, Control, Storing, TypeInv, GatewayTypeOK
    <2>4. ASSUME NEW u \in Worker, u # w
          PROVE  Control(u)'
      BY <1>5, <2>1, <2>4, ControlKept DEF Read, TypeInv, GatewayTypeOK
    <2>5. QED
      BY <2>2, <2>3, <2>4 DEF TypeInv
  <1>6. QED
    BY <1>2, <1>3, <1>4, <1>5

LEMMA TypeInit ==
    ASSUME GatewayInit
    PROVE  TypeInv
  <1>1. GatewayTypeOK
    BY GatewayAssumption
       DEF GatewayInit, GatewayTypeOK, EmptyKv, EmptyVecs, NeuralValue, Steps, NoFields, FieldMap
  <1>2. \A w \in Worker : Control(w)
    BY DEF GatewayInit, Control, Storing
  <1>3. QED
    BY <1>1, <1>2 DEF TypeInv

LEMMA TypeStep ==
    ASSUME TypeInv, [GatewayNext]_gatewayVars
    PROVE  TypeInv'
  <1>1. CASE GatewayNext
    BY <1>1, BeginType, StoreType, ExecuteType, FinishType DEF GatewayNext, Execute
  <1>2. CASE UNCHANGED gatewayVars
    <2>1. GatewayTypeOK'
      BY <1>2 DEF gatewayVars, TypeInv, GatewayTypeOK
    <2>2. ASSUME NEW u \in Worker
          PROVE  Control(u)'
      BY <1>2, ControlKept DEF gatewayVars, TypeInv
    <2>3. QED
      BY <2>1, <2>2 DEF TypeInv
  <1>3. QED
    BY <1>1, <1>2

(*****************************************************************************)
(* Every variable keeps its type: in particular a worker stores, broadcasts  *)
(* and logs pairs there are, and FLUSHDB clears no shard past the last       *)
(* (main.rs:378-599).                                                        *)
(*****************************************************************************)
THEOREM GatewayTypeCorrect == GatewaySpec => []GatewayTypeOK
  <1>1. TypeInv => GatewayTypeOK
    BY DEF TypeInv
  <1>2. QED
    BY <1>1, TypeInit, TypeStep, PTL DEF GatewaySpec

(*****************************************************************************)
(* What a step must keep or provide for MemoryAt to hold after it.           *)
(*****************************************************************************)
LEMMA MemoryKept ==
    ASSUME NEW k \in Utf8Key, MemoryAt(k), db'[k] = db[k],
           \A u \in Worker : Owed(u, k)' = Owed(u, k)
    PROVE  MemoryAt(k)'
  BY DEF MemoryAt, AskedFor, Content

LEMMA MemoryStored ==
    ASSUME NEW k \in Utf8Key, NEW w \in Worker, NEW r \in PersistenceCommand,
           Owed(w, k)' = r, AskedFor(r, db'[k])
    PROVE  MemoryAt(k)'
  <1>1. r # NoRec
    BY DEF PersistenceCommand, NoRec, FlushRec
  <1>2. QED
    BY <1>1 DEF MemoryAt, AskedFor, Content

(*****************************************************************************)
(* What a worker owes depends on its own entries alone.                      *)
(*****************************************************************************)
LEMMA OwedKept ==
    ASSUME NEW k \in Utf8Key, NEW u \in Worker,
           pc'[u] = pc[u], cmd'[u] = cmd[u], rest'[u] = rest[u],
           shard'[u] = shard[u], lastRec'[u][k] = lastRec[u][k]
    PROVE  Owed(u, k)' = Owed(u, k)
  BY DEF Owed, Unsent, Due, RecordOf

(*****************************************************************************)
(* The four steps that change the keyspace: on the key they store, memory    *)
(* holds what the worker now owes the log; the other keys are as before.     *)
(*****************************************************************************)
LEMMA InsertPairMemory ==
    ASSUME TypeInv, NEW k \in Utf8Key, MemoryAt(k), NEW w \in Worker, InsertPair(w)
    PROVE  MemoryAt(k)'
  <1> DEFINE p == Head(rest[w])
  <1>1. /\ pc[w] = "insert" /\ pc'[w] = "publish" /\ rest' = rest
        /\ rest[w] \in Seq(Pair) /\ rest[w] # <<>> /\ lastRec' = lastRec
    BY DEF InsertPair, Goto, TypeInv, GatewayTypeOK, Control, Storing
  <1>2. p \in Pair
    BY <1>1, HeadTailProperties
  <1>3. p.key \in Key /\ p.val \in Val
    BY <1>2 DEF Pair
  <1>4. CASE p.key = k
    <2>1. Owed(w, k)' = SetRec(k, p.val)
      BY <1>1, <1>4 DEF Owed, Unsent, Due
    <2>2. db'[k] = Str(p.val, CipherOf(cmd[w]))
      BY <1>3, <1>4 DEF InsertPair, TypeInv, GatewayTypeOK
    <2>3. AskedFor(SetRec(k, p.val), db'[k])
      BY <2>2 DEF AskedFor, SetRec, Content, Str
    <2>4. QED
      BY <1>3, <1>4, <2>1, <2>3, MemoryStored, RecordsLogged
  <1>5. CASE p.key # k
    <2>1. db'[k] = db[k]
      BY <1>5 DEF InsertPair, TypeInv, GatewayTypeOK
    <2>2. Owed(w, k)' = Owed(w, k)
      BY <1>1, <1>5 DEF Owed, Unsent
    <2>3. ASSUME NEW u \in Worker, u # w
          PROVE  Owed(u, k)' = Owed(u, k)
      BY <2>3, OwedKept DEF InsertPair, Goto, TypeInv, GatewayTypeOK
    <2>4. QED
      BY <2>1, <2>2, <2>3, MemoryKept
  <1>6. QED
    BY <1>4, <1>5

LEMMA ExecuteMemory ==
    ASSUME TypeInv, NEW k \in Utf8Key, MemoryAt(k), NEW w \in Worker,
           Remove(w) \/ InsertHash(w)
    PROVE  MemoryAt(k)'
  <1>1. /\ cmd[w] \in Command /\ cmd'[w] = cmd[w] /\ pc'[w] = "send"
        /\ pc[w] \in {"remove", "insertHash"} /\ cmd[w].op \in {"del", "hmset"}
        /\ lastRec' = lastRec
    BY DEF Remove, InsertHash, Goto, TypeInv, GatewayTypeOK, Control
  <1>2. cmd[w].key \in Key /\ k \in Key
    BY <1>1, CommandFields, GatewayAssumption
  <1>3. CASE cmd[w].key = k
    <2>1. Owed(w, k)' = RecordOf(cmd[w])
      BY <1>1, <1>3 DEF Owed, Unsent, Due, RecordOf
    <2>2. AskedFor(RecordOf(cmd[w]), db'[k])
      <3>1. CASE Remove(w)
        <4>1. cmd[w].op = "del" /\ db'[k] = Absent
          BY <1>2, <1>3, <3>1 DEF Remove, TypeInv, GatewayTypeOK, Control
        <4>2. QED
          BY <4>1 DEF RecordOf, DelRec, AskedFor
      <3>2. CASE InsertHash(w)
        <4>1. cmd[w].op = "hmset" /\ db'[k] = FlatHash(merged[w])
          BY <1>2, <1>3, <3>2 DEF InsertHash, TypeInv, GatewayTypeOK, Control
        <4>2. \A f \in Field : cmd[w].fields[f] # NoVal => merged[w][f] = cmd[w].fields[f]
          BY <3>2 DEF InsertHash, TypeInv, Control
        <4>3. QED
          BY <4>1, <4>2 DEF RecordOf, HmSetRec, AskedFor, FlatHash
      <3>3. QED
        BY <3>1, <3>2
    <2>3. PICK r \in PersistenceCommand : r = RecordOf(cmd[w])
      BY <1>1, RecordsLogged
    <2>4. Owed(w, k)' = r /\ AskedFor(r, db'[k])
      BY <2>1, <2>2, <2>3
    <2>5. QED
      BY <2>4, MemoryStored
  <1>4. CASE cmd[w].key # k
    <2>1. db'[k] = db[k]
      BY <1>2, <1>4 DEF Remove, InsertHash, TypeInv, GatewayTypeOK
    <2>2. Owed(w, k)' = Owed(w, k)
      BY <1>1, <1>4 DEF Owed, Unsent
    <2>3. ASSUME NEW u \in Worker, u # w
          PROVE  Owed(u, k)' = Owed(u, k)
      BY <2>3, OwedKept DEF Remove, InsertHash, Goto, TypeInv, GatewayTypeOK
    <2>4. QED
      BY <2>1, <2>2, <2>3, MemoryKept
  <1>5. QED
    BY <1>3, <1>4

LEMMA ClearShardMemory ==
    ASSUME TypeInv, NEW k \in Utf8Key, MemoryAt(k), NEW w \in Worker, ClearShard(w)
    PROVE  MemoryAt(k)'
  <1>1. /\ pc[w] = "clearShards" /\ pc'[w] \in {"clearShards", "clearVectors"}
        /\ cmd'[w] = cmd[w] /\ cmd[w].op = "flush"
        /\ shard[w] \in Nat /\ shard'[w] = shard[w] + 1
        /\ lastRec' = lastRec
    BY DEF ClearShard, Goto, TypeInv, GatewayTypeOK, Control
  <1>2. k \in Key /\ ShardOf[k] \in Nat
    BY GatewayAssumption
  <1>3. CASE ShardOf[k] = shard[w]
    <2>1. Owed(w, k)' = FlushRec
      BY <1>1, <1>2, <1>3 DEF Owed, Unsent, Due, RecordOf
    <2>2. db'[k] = Absent
      BY <1>2, <1>3 DEF ClearShard
    <2>3. AskedFor(FlushRec, db'[k]) /\ FlushRec \in PersistenceCommand
      BY <2>2 DEF AskedFor, FlushRec, PersistenceCommand
    <2>4. QED
      BY <2>1, <2>3, MemoryStored
  <1>4. CASE ShardOf[k] # shard[w]
    <2>1. db'[k] = db[k]
      BY <1>2, <1>4 DEF ClearShard
    <2>2. (ShardOf[k] < shard'[w]) <=> (ShardOf[k] < shard[w])
      BY <1>1, <1>2, <1>4
    <2>3. Owed(w, k)' = Owed(w, k)
      BY <1>1, <2>2 DEF Owed, Unsent, Due, RecordOf
    <2>4. ASSUME NEW u \in Worker, u # w
          PROVE  Owed(u, k)' = Owed(u, k)
      BY <2>4, OwedKept DEF ClearShard, Goto, TypeInv, GatewayTypeOK
    <2>5. QED
      BY <2>1, <2>3, <2>4, MemoryKept
  <1>5. QED
    BY <1>3, <1>4

(*****************************************************************************)
(* Sending moves a record from what is due to what was last sent; what the   *)
(* worker owes the log does not change.                                      *)
(*****************************************************************************)
LEMMA SendMemory ==
    ASSUME TypeInv, NEW k \in Utf8Key, MemoryAt(k), NEW w \in Worker,
           SendPair(w) \/ SendRecord(w)
    PROVE  MemoryAt(k)'
  <1>1. k \in Key /\ db'[k] = db[k]
    BY GatewayAssumption DEF SendPair, SendRecord
  <1>2. ASSUME NEW u \in Worker, u # w
        PROVE  Owed(u, k)' = Owed(u, k)
    <2>1. lastRec'[u][k] = lastRec[u][k]
      BY <1>2 DEF SendPair, SendRecord, Send, TypeInv, GatewayTypeOK
    <2>2. QED
      BY <1>2, <2>1, OwedKept DEF SendPair, SendRecord, Goto, TypeInv, GatewayTypeOK
  <1>3. Owed(w, k)' = Owed(w, k)
    <2>1. CASE SendPair(w)
      <3> DEFINE p == Head(rest[w])
      <3>1. pc[w] = "sendPair" /\ pc'[w] \in {"idle", "insert"}
        BY <2>1 DEF SendPair, Goto, TypeInv, GatewayTypeOK
      <3>2. Owed(w, k)' = lastRec'[w][k]
        BY <3>1 DEF Owed, Unsent
      <3>3. CASE p.key = k
        <4>1. lastRec'[w][k] = SetRec(p.key, p.val)
          BY <1>1, <2>1, <3>3 DEF SendPair, Send, SetRec, About, TypeInv, GatewayTypeOK
        <4>2. QED
          BY <3>1, <3>2, <3>3, <4>1 DEF Owed, Unsent, Due
      <3>4. CASE p.key # k
        <4>1. lastRec'[w][k] = lastRec[w][k]
          BY <1>1, <2>1, <3>4 DEF SendPair, Send, SetRec, About, TypeInv, GatewayTypeOK
        <4>2. QED
          BY <3>1, <3>2, <3>4, <4>1 DEF Owed, Unsent
      <3>5. QED
        BY <3>3, <3>4
    <2>2. CASE SendRecord(w)
      <3>1. /\ pc[w] = "send" /\ pc'[w] = "idle" /\ Send(w, RecordOf(cmd[w]))
            /\ cmd[w].op \in {"del", "vadd", "hmset", "flush"}
            /\ cmd[w].op = "flush" => ShardOf[k] < shard[w]
        BY <1>1, <2>2, GatewayAssumption
           DEF SendRecord, Goto, TypeInv, GatewayTypeOK, Control
      <3>2. Owed(w, k)' = lastRec'[w][k]
        BY <3>1 DEF Owed, Unsent
      <3>3. lastRec'[w][k] = IF k \in About(RecordOf(cmd[w])) /\ RecordOf(cmd[w]).op # "vadd"
                             THEN RecordOf(cmd[w]) ELSE lastRec[w][k]
        BY <1>1, <3>1 DEF Send, TypeInv, GatewayTypeOK
      <3>4. (k \in About(RecordOf(cmd[w])) /\ RecordOf(cmd[w]).op # "vadd") <=> Unsent(w, k)
        BY <1>1, <3>1
           DEF Unsent, About, RecordOf, DelRec, HmSetRec, VAddRec, FlushRec
      <3>5. Due(w) = RecordOf(cmd[w])
        BY <3>1 DEF Due
      <3>6. QED
        BY <3>2, <3>3, <3>4, <3>5 DEF Owed
    <2>3. QED
      BY <2>1, <2>2
  <1>4. QED
    BY <1>1, <1>2, <1>3, MemoryKept

(*****************************************************************************)
(* The other steps neither store nor log.                                    *)
(*****************************************************************************)
LEMMA QuietMemory ==
    ASSUME TypeInv, NEW k \in Utf8Key, MemoryAt(k), NEW w \in Worker,
           Begin(w) \/ PublishPair(w) \/ AddVector(w) \/ ReadHash(w)
               \/ ClearVectors(w) \/ Read(w)
    PROVE  MemoryAt(k)'
  <1>1. db'[k] = db[k] /\ lastRec' = lastRec
    BY DEF Begin, PublishPair, AddVector, ReadHash, ClearVectors, Read
  <1>2. ASSUME NEW u \in Worker, u # w
        PROVE  Owed(u, k)' = Owed(u, k)
    BY <1>2, OwedKept
       DEF Begin, PublishPair, AddVector, ReadHash, ClearVectors, Read, Goto,
           TypeInv, GatewayTypeOK
  <1>3. Owed(w, k)' = Owed(w, k)
    <2>1. CASE Begin(w)
      <3>1. PICK c \in Workload[w] : Goto(w, FirstStep(c))
        BY <2>1 DEF Begin
      <3>2. c \in Command /\ ShardOf[k] \in Nat
        BY GatewayAssumption
      <3>3. /\ pc[w] = "idle" /\ shard'[w] = 0
            /\ pc'[w] = FirstStep(c)
        BY <2>1, <3>1 DEF Begin, Goto, TypeInv, GatewayTypeOK
      <3>4. FirstStep(c) \notin {"publish", "sendPair", "send", "clearVectors"}
        BY <3>2, CommandFields DEF FirstStep
      <3>5. ~ Unsent(w, k) /\ ~ Unsent(w, k)'
        BY <3>2, <3>3, <3>4 DEF Unsent
      <3>6. QED
        BY <1>1, <3>5 DEF Owed
    <2>2. CASE PublishPair(w)
      <3>1. pc[w] = "publish" /\ pc'[w] = "sendPair" /\ rest' = rest
        BY <2>2 DEF PublishPair, Goto, TypeInv, GatewayTypeOK
      <3>2. QED
        BY <1>1, <3>1 DEF Owed, Unsent, Due
    <2>3. CASE AddVector(w) \/ ReadHash(w)
      <3>1. /\ pc[w] \in {"addVector", "readHash"} /\ cmd'[w] = cmd[w]
            /\ pc'[w] = "insertHash" \/ (pc'[w] = "send" /\ cmd[w].op = "vadd")
        BY <2>3 DEF AddVector, ReadHash, Goto, TypeInv, GatewayTypeOK, Control
      <3>2. ~ Unsent(w, k) /\ ~ Unsent(w, k)'
        BY <3>1 DEF Unsent
      <3>3. QED
        BY <1>1, <3>2 DEF Owed
    <2>4. CASE ClearVectors(w)
      <3>1. /\ pc[w] = "clearVectors" /\ pc'[w] = "send" /\ cmd[w].op = "flush"
            /\ cmd'[w] = cmd[w] /\ shard'[w] = shard[w]
        BY <2>4 DEF ClearVectors, Goto, TypeInv, GatewayTypeOK, Control
      <3>2. QED
        BY <1>1, <3>1 DEF Owed, Unsent, Due, RecordOf
    <2>5. CASE Read(w)
      <3>1. pc[w] = "read" /\ pc'[w] \in {"read", "idle"}
        BY <2>5 DEF Read, Goto, TypeInv, GatewayTypeOK
      <3>2. ~ Unsent(w, k) /\ ~ Unsent(w, k)'
        BY <3>1 DEF Unsent
      <3>3. QED
        BY <1>1, <3>2 DEF Owed
    <2>6. QED
      BY <2>1, <2>2, <2>3, <2>4, <2>5
  <1>4. QED
    BY <1>1, <1>2, <1>3, MemoryKept

LEMMA MemoryInit ==
    ASSUME GatewayInit
    PROVE  MemoryInv
  <1>1. ASSUME NEW k \in Utf8Key
        PROVE  MemoryAt(k)
    BY GatewayAssumption DEF GatewayInit, EmptyKv, MemoryAt, Owed, Unsent
  <1>2. QED
    BY <1>1, TypeInit DEF MemoryInv

LEMMA MemoryStep ==
    ASSUME MemoryInv, [GatewayNext]_gatewayVars
    PROVE  MemoryInv'
  <1>1. ASSUME NEW k \in Utf8Key
        PROVE  MemoryAt(k)'
    <2>1. CASE GatewayNext
      <3>1. PICK w \in Worker : Begin(w) \/ Execute(w)
        BY <2>1 DEF GatewayNext
      <3>2. QED
        BY <1>1, <3>1, InsertPairMemory, ExecuteMemory, ClearShardMemory, SendMemory,
           QuietMemory
           DEF MemoryInv, Execute
    <2>2. CASE UNCHANGED gatewayVars
      BY <1>1, <2>2, MemoryKept, OwedKept DEF gatewayVars, MemoryInv
    <2>3. QED
      BY <2>1, <2>2
  <1>2. TypeInv'
    BY TypeStep DEF MemoryInv
  <1>3. QED
    BY <1>1, <1>2 DEF MemoryInv

(*****************************************************************************)
(* A worker owes a record only about keys its command touches, so on a key   *)
(* no command is changing nothing is owed that was not sent.                 *)
(*****************************************************************************)
LEMMA UnsentTouches ==
    ASSUME TypeInv, NEW k \in Utf8Key, NEW w \in Worker, Unsent(w, k)
    PROVE  pc[w] # "idle" /\ k \in Touches(cmd[w])
  <1>1. pc[w] # "idle" /\ k \in Key
    BY GatewayAssumption DEF Unsent
  <1>2. CASE pc[w] \in {"publish", "sendPair"}
    <2>1. Head(rest[w]).key = k /\ rest[w] \in Seq(Pair) /\ rest[w] # <<>>
      BY <1>2 DEF Unsent, TypeInv, GatewayTypeOK, Control, Storing
    <2>2. Head(rest[w]) = rest[w][1] /\ 1 \in 1 .. Len(rest[w])
      BY <2>1, EmptySeq
    <2>3. QED
      BY <1>1, <1>2, <2>1, <2>2 DEF TypeInv, Control, Storing
  <1>3. CASE pc[w] \notin {"publish", "sendPair"}
    BY <1>1, <1>3 DEF Unsent, Touches
  <1>4. QED
    BY <1>2, <1>3

(*****************************************************************************)
(* However the workers write each other's keys, a key at rest holds          *)
(* all of what the last logged command of some worker asked for, or was      *)
(* never written: no interleaving leaves a command half undone, or executed  *)
(* and not logged (main.rs:378-599).                                         *)
(*****************************************************************************)
THEOREM MemoryIsSomeLastWriteCorrect == GatewaySpec => []MemoryIsSomeLastWrite
  <1>1. ASSUME MemoryInv
        PROVE  MemoryIsSomeLastWrite
    <2>1. SUFFICES ASSUME NEW k \in Utf8Key, AtRest(k)
                   PROVE  \/ db[k] = Absent /\ \A w \in Worker : lastRec[w][k] = NoRec
                          \/ \E w \in Worker : /\ lastRec[w][k] # NoRec
                                               /\ AskedFor(lastRec[w][k], db[k])
      BY DEF MemoryIsSomeLastWrite
    <2>2. \A w \in Worker : Owed(w, k) = lastRec[w][k]
      <3>1. ASSUME NEW w \in Worker
            PROVE  ~ Unsent(w, k)
        BY <1>1, <2>1, <3>1, UnsentTouches DEF MemoryInv, AtRest
      <3>2. QED
        BY <3>1 DEF Owed
    <2>3. MemoryAt(k)
      BY <1>1 DEF MemoryInv
    <2>4. QED
      BY <2>2, <2>3 DEF MemoryAt
  <1>2. QED
    BY <1>1, MemoryInit, MemoryStep, PTL DEF GatewaySpec
-----------------------------------------------------------------------------
(*****************************************************************************)
(* What a logged command makes of the value of a key it is about.            *)
(*****************************************************************************)
Effect(x, r) ==
    CASE r.op = "set"            -> Str(r.val, "cascade")
      [] r.op \in {"del", "flush"} -> Absent
      [] r.op = "hmset"          -> FlatHash(HmSetOver(x, r.fields))

(*****************************************************************************)
(* The inductive invariant.  Between the store and the send of a command     *)
(* memory is one command ahead of the log, and that command is the Pending   *)
(* one; the hash an HMSET has computed is still the one to insert, because   *)
(* nobody else writes the key meanwhile; and the topic lags only between the *)
(* store and the broadcast.  A restart forgets the topics: told are the keys *)
(* whose topic it has not.                                                   *)
(*****************************************************************************)
Pending(w, k)    == IF Unsent(w, k) THEN Due(w) ELSE NoRec
Publishing(w, k) == pc[w] = "publish" /\ Head(rest[w]).key = k
Hashing(w, k)    == pc[w] = "insertHash" /\ cmd[w].key = k

LogAt(k, told) ==
    OneWriter(k) =>
        /\ \A w \in Worker : Pending(w, k) # NoRec =>
               Content(db[k]) = Content(Effect(logKv[k], Pending(w, k)))
        /\ (\A w \in Worker : Pending(w, k) = NoRec) =>
               Content(db[k]) = Content(logKv[k])
        /\ \A w \in Worker : Hashing(w, k) => merged[w] = HmSetOver(db[k], cmd[w].fields)
        /\ k \in told /\ db[k].kind = "str" /\ (\A w \in Worker : ~ Publishing(w, k)) =>
               topic[k] = Content(db[k])

Assigned == \A w \in Worker : pc[w] # "idle" => cmd[w] \in Workload[w]

LogInv(told) == TypeInv /\ Assigned /\ \A k \in Utf8Key : LogAt(k, told)

(*****************************************************************************)
(* Replay, one key at a time.                                                *)
(*****************************************************************************)
LEMMA ReplayOfKey ==
    ASSUME NEW kv \in [Key -> NeuralValue], NEW r \in PersistenceCommand, NEW k \in Key
    PROVE  ApplyKv(kv, r)[k] = IF k \in About(r) /\ r.op # "vadd" THEN Effect(kv[k], r)
                                                                 ELSE kv[k]
  <1>1. CASE r.op = "set"
    BY <1>1, RecordFields DEF ApplyKv, About, Effect
  <1>2. CASE r.op = "del"
    BY <1>2, RecordFields DEF ApplyKv, About, Effect
  <1>3. CASE r.op = "hmset"
    BY <1>3, RecordFields DEF ApplyKv, About, Effect
  <1>4. CASE r.op = "flush"
    BY <1>4 DEF ApplyKv, About, Effect
  <1>5. CASE r.op = "vadd"
    BY <1>5 DEF ApplyKv
  <1>6. QED
    BY <1>1, <1>2, <1>3, <1>4, <1>5, RecordFields

(*****************************************************************************)
(* Two values a client cannot tell apart merge with an HMSET to one hash.    *)
(*****************************************************************************)
LEMMA SameContentSameHash ==
    ASSUME NEW x \in NeuralValue, NEW y \in NeuralValue, Content(x) = Content(y),
           NEW h \in FieldMap
    PROVE  HmSetOver(x, h) = HmSetOver(y, h)
  <1>1. CASE x.kind = "str"
    BY <1>1 DEF Content, HmSetOver
  <1>2. CASE x.kind # "str"
    BY <1>2 DEF Content, HmSetOver
  <1>3. QED
    BY <1>1, <1>2

(*****************************************************************************)
(* A record is pending on a key only while its command touches the key.      *)
(*****************************************************************************)
LEMMA PendingTouches ==
    ASSUME TypeInv, NEW k \in Utf8Key, NEW w \in Worker,
           pc[w] # "idle" => k \notin Touches(cmd[w])
    PROVE  Pending(w, k) = NoRec /\ ~ Publishing(w, k) /\ ~ Hashing(w, k)
  <1>1. ~ Unsent(w, k)
    <2>1. SUFFICES ASSUME Unsent(w, k) PROVE FALSE
      OBVIOUS
    <2>2. k \in Touches(cmd[w]) /\ pc[w] # "idle"
      BY <2>1, UnsentTouches
    <2>3. QED
      BY <2>2
  <1>2. ~ Hashing(w, k)
    BY DEF Hashing, TypeInv, Control, Touches
  <1>3. QED
    BY <1>1, <1>2 DEF Pending, Publishing, Unsent

LEMMA Alone ==
    ASSUME TypeInv, Assigned, NEW k \in Utf8Key, OneWriter(k),
           NEW w \in Worker, pc[w] # "idle", k \in Touches(cmd[w]),
           NEW u \in Worker, u # w
    PROVE  Pending(u, k) = NoRec /\ ~ Publishing(u, k) /\ ~ Hashing(u, k)
  BY PendingTouches DEF Assigned, OneWriter, Writes

(*****************************************************************************)
(* The parts of LogAt that belong to one worker depend on its entries alone. *)
(*****************************************************************************)
SameEntries(u) ==
    /\ pc'[u] = pc[u] /\ cmd'[u] = cmd[u] /\ rest'[u] = rest[u]
    /\ merged'[u] = merged[u] /\ shard'[u] = shard[u]

LEMMA PartsKept ==
    ASSUME NEW k \in Utf8Key, NEW u \in Worker, SameEntries(u)
    PROVE  /\ Pending(u, k)' = Pending(u, k)
           /\ Publishing(u, k)' = Publishing(u, k)
           /\ Hashing(u, k)' = Hashing(u, k)
  BY DEF SameEntries, Pending, Publishing, Hashing, Unsent, Due, RecordOf

(*****************************************************************************)
(* A step of w that neither stores, broadcasts nor logs k.                   *)
(*****************************************************************************)
LEMMA LogKept ==
    ASSUME NEW told, NEW k \in Utf8Key, LogAt(k, told), NEW w \in Worker,
           db'[k] = db[k], logKv'[k] = logKv[k], topic'[k] = topic[k],
           \A u \in Worker : u # w => SameEntries(u),
           Pending(w, k)' = Pending(w, k),
           Publishing(w, k)' = Publishing(w, k),
           ~ Hashing(w, k)' \/ (Hashing(w, k) /\ SameEntries(w))
    PROVE  LogAt(k, told)'
  <1>1. \A u \in Worker : Pending(u, k)' = Pending(u, k)
    BY PartsKept
  <1>2. \A u \in Worker : Publishing(u, k)' = Publishing(u, k)
    BY PartsKept
  <1>3. \A u \in Worker : Hashing(u, k)' => Hashing(u, k) /\ SameEntries(u)
    BY PartsKept
  <1>4. SUFFICES ASSUME OneWriter(k)
                 PROVE  /\ \A u \in Worker : Pending(u, k)' # NoRec =>
                               Content(db'[k]) = Content(Effect(logKv'[k], Pending(u, k)'))
                        /\ (\A u \in Worker : Pending(u, k)' = NoRec) =>
                               Content(db'[k]) = Content(logKv'[k])
                        /\ \A u \in Worker : Hashing(u, k)' =>
                               merged'[u] = HmSetOver(db'[k], cmd'[u].fields)
                        /\ k \in told /\ db'[k].kind = "str" /\ (\A u \in Worker : ~ Publishing(u, k)') =>
                               topic'[k] = Content(db'[k])
    BY DEF LogAt, OneWriter, Writes, Content, Effect, HmSetOver, Merge
  <1>5. QED
    BY <1>1, <1>2, <1>3, <1>4 DEF LogAt, SameEntries

(*****************************************************************************)
(* A step of w on a key its command touches: with one writer, the other      *)
(* workers have no part in LogAt, before the step or after.                  *)
(*****************************************************************************)
LEMMA LogOwn ==
    ASSUME TypeInv, Assigned, NEW told, NEW k \in Utf8Key, NEW w \in Worker,
           pc[w] # "idle", k \in Touches(cmd[w]),
           \A u \in Worker : u # w => SameEntries(u),
           OneWriter(k) /\ Pending(w, k)' # NoRec =>
               Content(db'[k]) = Content(Effect(logKv'[k], Pending(w, k)')),
           OneWriter(k) /\ Pending(w, k)' = NoRec =>
               Content(db'[k]) = Content(logKv'[k]),
           Hashing(w, k)' => merged'[w] = HmSetOver(db'[k], cmd'[w].fields),
           OneWriter(k) /\ k \in told /\ db'[k].kind = "str" /\ ~ Publishing(w, k)' =>
               topic'[k] = Content(db'[k])
    PROVE  LogAt(k, told)'
  <1>1. SUFFICES ASSUME OneWriter(k)
                 PROVE  /\ \A u \in Worker : Pending(u, k)' # NoRec =>
                               Content(db'[k]) = Content(Effect(logKv'[k], Pending(u, k)'))
                        /\ (\A u \in Worker : Pending(u, k)' = NoRec) =>
                               Content(db'[k]) = Content(logKv'[k])
                        /\ \A u \in Worker : Hashing(u, k)' =>
                               merged'[u] = HmSetOver(db'[k], cmd'[u].fields)
                        /\ k \in told /\ db'[k].kind = "str" /\ (\A u \in Worker : ~ Publishing(u, k)') =>
                               topic'[k] = Content(db'[k])
    BY DEF LogAt, OneWriter, Writes, Content, Effect, HmSetOver, Merge
  <1>2. \A u \in Worker : u # w => /\ Pending(u, k)' = NoRec
                                   /\ ~ Publishing(u, k)'
                                   /\ ~ Hashing(u, k)'
    BY <1>1, Alone, PartsKept
  <1>3. QED
    BY <1>1, <1>2

(*****************************************************************************)
(* SET and MSET.                                                             *)
(*****************************************************************************)
LEMMA PairOfStep ==
    ASSUME TypeInv, NEW w \in Worker, pc[w] \in Storing
    PROVE  /\ Head(rest[w]) \in Pair
           /\ Head(rest[w]).key \in Key /\ Head(rest[w]).val \in Val
           /\ Head(rest[w]).key \in Touches(cmd[w])
           /\ SetRec(Head(rest[w]).key, Head(rest[w]).val) \in PersistenceCommand
  <1>1. rest[w] \in Seq(Pair) /\ rest[w] # <<>>
    BY DEF TypeInv, GatewayTypeOK, Control
  <1>2. Head(rest[w]) \in Pair
    BY <1>1, HeadTailProperties
  <1>3. Head(rest[w]) = rest[w][1] /\ 1 \in 1 .. Len(rest[w])
    BY <1>1, EmptySeq
  <1>4. Head(rest[w]).key \in Touches(cmd[w])
    BY <1>3 DEF TypeInv, Control
  <1>5. QED
    BY <1>2, <1>4, RecordsLogged DEF Pair

LEMMA InsertPairLog ==
    ASSUME TypeInv, Assigned, NEW told, NEW k \in Utf8Key, LogAt(k, told), NEW w \in Worker, InsertPair(w)
    PROVE  LogAt(k, told)'
  <1> DEFINE p == Head(rest[w])
  <1>1. /\ pc[w] = "insert" /\ pc'[w] = "publish" /\ rest' = rest
        /\ logKv' = logKv /\ topic' = topic
    BY DEF InsertPair, Goto, TypeInv, GatewayTypeOK
  <1>2. p.key \in Key /\ p.val \in Val /\ p.key \in Touches(cmd[w])
    BY <1>1, PairOfStep DEF Storing
  <1>3. \A u \in Worker : u # w => SameEntries(u)
    BY DEF InsertPair, Goto, TypeInv, GatewayTypeOK, SameEntries
  <1>4. ~ Hashing(w, k)'
    BY <1>1 DEF Hashing
  <1>5. CASE p.key = k
    <2>1. Pending(w, k)' = SetRec(k, p.val) /\ Publishing(w, k)'
      BY <1>1, <1>5 DEF Pending, Unsent, Due, Publishing
    <2>2. db'[k] = Str(p.val, CipherOf(cmd[w]))
      BY <1>2, <1>5 DEF InsertPair, TypeInv, GatewayTypeOK
    <2>3. /\ Content(db'[k]) = Content(Effect(logKv'[k], SetRec(k, p.val)))
          /\ SetRec(k, p.val) # NoRec
      BY <2>2 DEF Content, Effect, SetRec, Str, NoRec
    <2>4. QED
      BY <1>1, <1>2, <1>3, <1>4, <1>5, <2>1, <2>3, LogOwn
  <1>6. CASE p.key # k
    <2>1. db'[k] = db[k]
      BY <1>6 DEF InsertPair, TypeInv, GatewayTypeOK
    <2>2. Pending(w, k)' = Pending(w, k) /\ Publishing(w, k)' = Publishing(w, k)
      BY <1>1, <1>6 DEF Pending, Unsent, Publishing
    <2>3. QED
      BY <1>1, <1>3, <1>4, <2>1, <2>2, LogKept
  <1>7. QED
    BY <1>5, <1>6

LEMMA PublishPairLog ==
    ASSUME TypeInv, Assigned, NEW told, NEW k \in Utf8Key, LogAt(k, told), NEW w \in Worker, PublishPair(w)
    PROVE  LogAt(k, told)'
  <1> DEFINE p == Head(rest[w])
  <1>1. /\ pc[w] = "publish" /\ pc'[w] = "sendPair" /\ rest' = rest
        /\ logKv' = logKv /\ db' = db
    BY DEF PublishPair, Goto, TypeInv, GatewayTypeOK
  <1>2. p.key \in Key /\ p.val \in Val /\ p.key \in Touches(cmd[w])
    BY <1>1, PairOfStep DEF Storing
  <1>3. \A u \in Worker : u # w => SameEntries(u)
    BY DEF PublishPair, Goto, TypeInv, GatewayTypeOK, SameEntries
  <1>4. ~ Hashing(w, k)' /\ ~ Publishing(w, k)' /\ Pending(w, k)' = Pending(w, k)
    BY <1>1 DEF Hashing, Publishing, Pending, Unsent, Due
  <1>5. CASE p.key = k
    <2>1. Pending(w, k) = SetRec(k, p.val) /\ SetRec(k, p.val) # NoRec
      BY <1>1, <1>5 DEF Pending, Unsent, Due, SetRec, NoRec
    <2>2. topic'[k] = [kind |-> "str", val |-> p.val]
      BY <1>2, <1>5 DEF PublishPair, TypeInv, GatewayTypeOK
    <2>3. OneWriter(k) => Content(db[k]) = Content(Effect(logKv[k], SetRec(k, p.val)))
      BY <2>1 DEF LogAt
    <2>4. Content(Effect(logKv[k], SetRec(k, p.val))) = [kind |-> "str", val |-> p.val]
      BY DEF Content, Effect, SetRec, Str
    <2>5. QED
      BY <1>1, <1>2, <1>3, <1>4, <1>5, <2>1, <2>2, <2>3, <2>4, LogOwn
  <1>6. CASE p.key # k
    <2>1. topic'[k] = topic[k]
      BY <1>6 DEF PublishPair, TypeInv, GatewayTypeOK
    <2>2. Publishing(w, k)' = Publishing(w, k)
      BY <1>1, <1>6 DEF Publishing
    <2>3. QED
      BY <1>1, <1>3, <1>4, <2>1, <2>2, LogKept
  <1>7. QED
    BY <1>5, <1>6

(*****************************************************************************)
(* A step that sends: what was pending on the key is now in the log.         *)
(*****************************************************************************)
LEMMA LogSent ==
    ASSUME TypeInv, Assigned, NEW told, NEW k \in Utf8Key, LogAt(k, told), NEW w \in Worker,
           pc[w] \in {"sendPair", "send"}, k \in Touches(cmd[w]),
           NEW r \in PersistenceCommand, Send(w, r), Pending(w, k) = r, r # NoRec,
           k \in About(r) /\ r.op # "vadd",
           db' = db, topic' = topic, pc'[w] \in {"idle", "insert"},
           \A u \in Worker : u # w => SameEntries(u)
    PROVE  LogAt(k, told)'
  <1>1. k \in Key /\ logKv \in [Key -> NeuralValue]
    BY GatewayAssumption DEF TypeInv, GatewayTypeOK
  <1>2. logKv'[k] = Effect(logKv[k], r)
    BY <1>1, ReplayOfKey DEF Send
  <1>3. Pending(w, k)' = NoRec /\ ~ Hashing(w, k)' /\ ~ Publishing(w, k)
    BY DEF Pending, Unsent, Hashing, Publishing
  <1>4. ASSUME OneWriter(k)
        PROVE  /\ Content(db[k]) = Content(Effect(logKv[k], r))
               /\ k \in told /\ db[k].kind = "str" => topic[k] = Content(db[k])
    <2>1. \A u \in Worker : ~ Publishing(u, k)
      BY <1>3, <1>4, Alone
    <2>2. QED
      BY <1>4, <2>1 DEF LogAt
  <1>5. QED
    BY <1>2, <1>3, <1>4, LogOwn

LEMMA SendPairLog ==
    ASSUME TypeInv, Assigned, NEW told, NEW k \in Utf8Key, LogAt(k, told), NEW w \in Worker, SendPair(w)
    PROVE  LogAt(k, told)'
  <1> DEFINE p == Head(rest[w])
  <1>1. /\ pc[w] = "sendPair" /\ pc'[w] \in {"idle", "insert"}
        /\ db' = db /\ topic' = topic /\ cmd' = cmd
    BY DEF SendPair, Goto, TypeInv, GatewayTypeOK
  <1>2. /\ p.key \in Key /\ p.val \in Val /\ p.key \in Touches(cmd[w])
        /\ SetRec(p.key, p.val) \in PersistenceCommand
    BY <1>1, PairOfStep DEF Storing
  <1>3. \A u \in Worker : u # w => SameEntries(u)
    BY DEF SendPair, Goto, TypeInv, GatewayTypeOK, SameEntries
  <1>4. CASE p.key = k
    <2>1. Pending(w, k) = SetRec(k, p.val) /\ SetRec(k, p.val) # NoRec
      BY <1>1, <1>4 DEF Pending, Unsent, Due, SetRec, NoRec
    <2>2. /\ Send(w, SetRec(k, p.val))
          /\ k \in About(SetRec(k, p.val)) /\ SetRec(k, p.val).op # "vadd"
      BY <1>4 DEF SendPair, About, SetRec
    <2>3. QED
      BY <1>1, <1>2, <1>3, <1>4, <2>1, <2>2, LogSent
  <1>5. CASE p.key # k
    <2>1. k \in Key /\ logKv \in [Key -> NeuralValue]
      BY GatewayAssumption DEF TypeInv, GatewayTypeOK
    <2>2. k \notin About(SetRec(p.key, p.val))
      BY <1>5 DEF About, SetRec
    <2>3. logKv'[k] = logKv[k]
      BY <1>2, <2>1, <2>2, ReplayOfKey DEF SendPair, Send
    <2>4. /\ ~ Hashing(w, k)' /\ Pending(w, k)' = Pending(w, k)
          /\ Publishing(w, k)' = Publishing(w, k)
      BY <1>1, <1>5 DEF Hashing, Pending, Publishing, Unsent
    <2>5. QED
      BY <1>1, <1>3, <2>3, <2>4, LogKept
  <1>6. QED
    BY <1>4, <1>5

(*****************************************************************************)
(* DEL, HMSET and FLUSHDB.                                                   *)
(*****************************************************************************)
LEMMA RemoveLog ==
    ASSUME TypeInv, Assigned, NEW told, NEW k \in Utf8Key, LogAt(k, told), NEW w \in Worker, Remove(w)
    PROVE  LogAt(k, told)'
  <1>1. /\ pc[w] = "remove" /\ pc'[w] = "send" /\ cmd' = cmd /\ logKv' = logKv
        /\ topic' = topic /\ cmd[w].op = "del" /\ cmd[w] \in Command
    BY DEF Remove, Goto, TypeInv, GatewayTypeOK, Control
  <1>2. cmd[w].key \in Key /\ k \in Key
    BY <1>1, CommandFields, GatewayAssumption
  <1>3. \A u \in Worker : u # w => SameEntries(u)
    BY DEF Remove, Goto, TypeInv, GatewayTypeOK, SameEntries
  <1>4. /\ ~ Hashing(w, k)'
        /\ Publishing(w, k)' = Publishing(w, k)
    BY <1>1 DEF Hashing, Publishing
  <1>5. CASE cmd[w].key = k
    <2>1. Pending(w, k)' = DelRec(k) /\ DelRec(k) # NoRec
      BY <1>1, <1>5 DEF Pending, Unsent, Due, RecordOf, DelRec, NoRec
    <2>2. db'[k] = Absent
      BY <1>2, <1>5 DEF Remove, TypeInv, GatewayTypeOK
    <2>3. Content(db'[k]) = Content(Effect(logKv'[k], DelRec(k)))
      BY <2>2 DEF Effect, DelRec
    <2>4. db'[k].kind # "str" /\ k \in Touches(cmd[w])
      BY <1>1, <1>5, <2>2 DEF Absent, Touches
    <2>5. QED
      BY <1>1, <1>3, <1>4, <2>1, <2>3, <2>4, LogOwn
  <1>6. CASE cmd[w].key # k
    <2>1. db'[k] = db[k]
      BY <1>2, <1>6 DEF Remove, TypeInv, GatewayTypeOK
    <2>2. Pending(w, k)' = Pending(w, k)
      BY <1>1, <1>6 DEF Pending, Unsent
    <2>3. QED
      BY <1>1, <1>3, <1>4, <2>1, <2>2, LogKept
  <1>7. QED
    BY <1>5, <1>6

LEMMA ReadHashLog ==
    ASSUME TypeInv, Assigned, NEW told, NEW k \in Utf8Key, LogAt(k, told), NEW w \in Worker, ReadHash(w)
    PROVE  LogAt(k, told)'
  <1>1. /\ pc[w] = "readHash" /\ pc'[w] = "insertHash" /\ cmd' = cmd /\ logKv' = logKv
        /\ topic' = topic /\ db' = db /\ cmd[w].op = "hmset"
        /\ merged'[w] = HmSetOver(db[cmd[w].key], cmd[w].fields)
    BY DEF ReadHash, Goto, TypeInv, GatewayTypeOK, Control
  <1>2. \A u \in Worker : u # w => SameEntries(u)
    BY DEF ReadHash, Goto, TypeInv, GatewayTypeOK, SameEntries
  <1>3. /\ Pending(w, k) = NoRec /\ Pending(w, k)' = NoRec
        /\ Publishing(w, k)' = Publishing(w, k)
    BY <1>1 DEF Pending, Unsent, Publishing
  <1>4. CASE cmd[w].key = k
    <2>1. k \in Touches(cmd[w])
      BY <1>1, <1>4 DEF Touches
    <2>2. ASSUME OneWriter(k)
          PROVE  /\ Content(db[k]) = Content(logKv[k])
                 /\ k \in told /\ db[k].kind = "str" => topic[k] = Content(db[k])
      <3>1. \A u \in Worker : Pending(u, k) = NoRec /\ ~ Publishing(u, k)
        BY <1>1, <1>3, <2>1, <2>2, Alone DEF Publishing
      <3>2. QED
        BY <2>2, <3>1 DEF LogAt
    <2>3. QED
      BY <1>1, <1>2, <1>3, <1>4, <2>1, <2>2, LogOwn
  <1>5. CASE cmd[w].key # k
    <2>1. ~ Hashing(w, k)'
      BY <1>1, <1>5 DEF Hashing
    <2>2. QED
      BY <1>1, <1>2, <1>3, <2>1, LogKept
  <1>6. QED
    BY <1>4, <1>5

LEMMA InsertHashLog ==
    ASSUME TypeInv, Assigned, NEW told, NEW k \in Utf8Key, LogAt(k, told), NEW w \in Worker, InsertHash(w)
    PROVE  LogAt(k, told)'
  <1>1. /\ pc[w] = "insertHash" /\ pc'[w] = "send" /\ cmd' = cmd /\ logKv' = logKv
        /\ topic' = topic /\ cmd[w].op = "hmset" /\ cmd[w] \in Command
    BY DEF InsertHash, Goto, TypeInv, GatewayTypeOK, Control
  <1>2. /\ cmd[w].key \in Key /\ k \in Key /\ cmd[w].fields \in FieldMap
        /\ db[k] \in NeuralValue /\ logKv[k] \in NeuralValue
    BY <1>1, CommandFields, GatewayAssumption DEF TypeInv, GatewayTypeOK
  <1>3. \A u \in Worker : u # w => SameEntries(u)
    BY DEF InsertHash, Goto, TypeInv, GatewayTypeOK, SameEntries
  <1>4. /\ ~ Hashing(w, k)' /\ ~ Publishing(w, k) /\ Pending(w, k) = NoRec
        /\ Publishing(w, k)' = Publishing(w, k)
    BY <1>1 DEF Hashing, Publishing, Pending, Unsent
  <1>5. CASE cmd[w].key = k
    <2>1. /\ Pending(w, k)' = HmSetRec(k, cmd[w].fields)
          /\ HmSetRec(k, cmd[w].fields) # NoRec /\ k \in Touches(cmd[w])
      BY <1>1, <1>5 DEF Pending, Unsent, Due, RecordOf, HmSetRec, NoRec, Touches
    <2>2. db'[k] = FlatHash(merged[w]) /\ db'[k].kind # "str"
      BY <1>2, <1>5 DEF InsertHash, TypeInv, GatewayTypeOK, FlatHash
    <2>3. ASSUME OneWriter(k)
          PROVE  merged[w] = HmSetOver(logKv[k], cmd[w].fields)
      <3>1. \A u \in Worker : Pending(u, k) = NoRec
        BY <1>1, <1>4, <2>1, <2>3, Alone
      <3>2. Content(db[k]) = Content(logKv[k])
        BY <2>3, <3>1 DEF LogAt
      <3>3. merged[w] = HmSetOver(db[k], cmd[w].fields)
        BY <1>1, <1>5, <2>3 DEF LogAt, Hashing
      <3>4. HmSetOver(db[k], cmd[w].fields) = HmSetOver(logKv[k], cmd[w].fields)
        BY <1>2, <3>2, SameContentSameHash
      <3>5. QED
        BY <3>3, <3>4
    <2>4. Effect(logKv[k], HmSetRec(k, cmd[w].fields))
              = FlatHash(HmSetOver(logKv[k], cmd[w].fields))
      BY DEF Effect, HmSetRec
    <2>5. QED
      BY <1>1, <1>3, <1>4, <2>1, <2>2, <2>3, <2>4, LogOwn
  <1>6. CASE cmd[w].key # k
    <2>1. db'[k] = db[k]
      BY <1>2, <1>6 DEF InsertHash, TypeInv, GatewayTypeOK
    <2>2. Pending(w, k)' = Pending(w, k)
      BY <1>1, <1>6 DEF Pending, Unsent
    <2>3. QED
      BY <1>1, <1>3, <1>4, <2>1, <2>2, LogKept
  <1>7. QED
    BY <1>5, <1>6

LEMMA ClearShardLog ==
    ASSUME TypeInv, Assigned, NEW told, NEW k \in Utf8Key, LogAt(k, told), NEW w \in Worker, ClearShard(w)
    PROVE  LogAt(k, told)'
  <1>1. /\ pc[w] = "clearShards" /\ pc'[w] \in {"clearShards", "clearVectors"}
        /\ cmd' = cmd /\ cmd[w].op = "flush" /\ logKv' = logKv /\ topic' = topic
        /\ shard[w] \in Nat /\ shard'[w] = shard[w] + 1
    BY DEF ClearShard, Goto, TypeInv, GatewayTypeOK, Control
  <1>2. k \in Key /\ ShardOf[k] \in Nat
    BY GatewayAssumption
  <1>3. \A u \in Worker : u # w => SameEntries(u)
    BY DEF ClearShard, Goto, TypeInv, GatewayTypeOK, SameEntries
  <1>4. /\ ~ Hashing(w, k)'
        /\ Publishing(w, k)' = Publishing(w, k)
    BY <1>1 DEF Hashing, Publishing
  <1>5. CASE ShardOf[k] = shard[w]
    <2>1. Pending(w, k)' = FlushRec /\ FlushRec # NoRec /\ k \in Touches(cmd[w])
      BY <1>1, <1>2, <1>5 DEF Pending, Unsent, Due, RecordOf, FlushRec, NoRec, Touches
    <2>2. db'[k] = Absent /\ db'[k].kind # "str"
      BY <1>2, <1>5 DEF ClearShard, Absent
    <2>3. Content(db'[k]) = Content(Effect(logKv'[k], FlushRec))
      BY <2>2 DEF Effect, FlushRec
    <2>4. QED
      BY <1>1, <1>3, <1>4, <2>1, <2>2, <2>3, LogOwn
  <1>6. CASE ShardOf[k] # shard[w]
    <2>1. db'[k] = db[k]
      BY <1>2, <1>6 DEF ClearShard
    <2>2. (ShardOf[k] < shard'[w]) <=> (ShardOf[k] < shard[w])
      BY <1>1, <1>2, <1>6
    <2>3. Pending(w, k)' = Pending(w, k)
      BY <1>1, <2>2 DEF Pending, Unsent, Due, RecordOf
    <2>4. QED
      BY <1>1, <1>3, <1>4, <2>1, <2>3, LogKept
  <1>7. QED
    BY <1>5, <1>6

LEMMA SendRecordLog ==
    ASSUME TypeInv, Assigned, NEW told, NEW k \in Utf8Key, LogAt(k, told), NEW w \in Worker, SendRecord(w)
    PROVE  LogAt(k, told)'
  <1> DEFINE r == RecordOf(cmd[w])
  <1>1. /\ pc[w] = "send" /\ pc'[w] = "idle" /\ db' = db /\ topic' = topic
        /\ Send(w, r) /\ cmd[w] \in Command
        /\ cmd[w].op \in {"del", "vadd", "hmset", "flush"}
        /\ cmd[w].op = "flush" => shard[w] = NumShards
    BY DEF SendRecord, Goto, TypeInv, GatewayTypeOK, Control
  <1>2. /\ k \in Key /\ logKv \in [Key -> NeuralValue] /\ r \in PersistenceCommand
        /\ cmd[w].op = "flush" => ShardOf[k] < shard[w]
    BY <1>1, RecordsLogged, GatewayAssumption DEF TypeInv, GatewayTypeOK
  <1>3. \A u \in Worker : u # w => SameEntries(u)
    BY DEF SendRecord, Goto, TypeInv, GatewayTypeOK, SameEntries
  <1>4. (k \in About(r) /\ r.op # "vadd") <=> Unsent(w, k)
    BY <1>1, <1>2 DEF Unsent, About, RecordOf, DelRec, HmSetRec, VAddRec, FlushRec
  <1>5. CASE Unsent(w, k)
    <2>1. Pending(w, k) = r /\ r # NoRec
      BY <1>1, <1>2, <1>5
         DEF Pending, Due, RecordOf, DelRec, HmSetRec, VAddRec, FlushRec, NoRec
    <2>2. k \in Touches(cmd[w])
      BY <1>5, UnsentTouches
    <2>3. k \in About(r) /\ r.op # "vadd"
      BY <1>4, <1>5
    <2>4. PICK q \in PersistenceCommand : q = r
      BY <1>2
    <2>5. /\ Send(w, q) /\ Pending(w, k) = q /\ q # NoRec
          /\ k \in About(q) /\ q.op # "vadd"
      BY <1>1, <2>1, <2>3, <2>4
    <2>6. QED
      BY <1>1, <1>3, <2>2, <2>5, LogSent
  <1>6. CASE ~ Unsent(w, k)
    <2>1. logKv'[k] = logKv[k]
      BY <1>1, <1>2, <1>4, <1>6, ReplayOfKey DEF Send
    <2>2. /\ ~ Hashing(w, k)' /\ Pending(w, k)' = Pending(w, k)
          /\ Publishing(w, k)' = Publishing(w, k)
      BY <1>1, <1>6 DEF Hashing, Pending, Publishing, Unsent
    <2>3. QED
      BY <1>1, <1>3, <2>1, <2>2, LogKept
  <1>7. QED
    BY <1>5, <1>6

(*****************************************************************************)
(* The other steps neither store, broadcast nor log.                         *)
(*****************************************************************************)
LEMMA QuietLog ==
    ASSUME TypeInv, Assigned, NEW told, NEW k \in Utf8Key, LogAt(k, told), NEW w \in Worker,
           Begin(w) \/ AddVector(w) \/ ClearVectors(w) \/ Read(w)
    PROVE  LogAt(k, told)'
  <1>1. db'[k] = db[k] /\ logKv'[k] = logKv[k] /\ topic'[k] = topic[k]
    BY DEF Begin, AddVector, ClearVectors, Read
  <1>2. \A u \in Worker : u # w => SameEntries(u)
    BY DEF Begin, AddVector, ClearVectors, Read, Goto, TypeInv, GatewayTypeOK, SameEntries
  <1>3. /\ Pending(w, k)' = Pending(w, k)
        /\ Publishing(w, k)' = Publishing(w, k)
        /\ ~ Hashing(w, k)'
    <2>1. CASE Begin(w)
      <3>1. PICK c \in Workload[w] : Goto(w, FirstStep(c))
        BY <2>1 DEF Begin
      <3>2. c \in Command
        BY GatewayAssumption
      <3>3. pc[w] = "idle" /\ shard'[w] = 0 /\ pc'[w] = FirstStep(c) /\ ShardOf[k] \in Nat
        BY <2>1, <3>1, GatewayAssumption DEF Begin, Goto, TypeInv, GatewayTypeOK
      <3>4. FirstStep(c) \notin {"publish", "sendPair", "send", "clearVectors", "insertHash"}
        BY <3>2, CommandFields DEF FirstStep
      <3>5. QED
        BY <3>3, <3>4 DEF Pending, Unsent, Publishing, Hashing
    <2>2. CASE AddVector(w)
      <3>1. /\ pc[w] = "addVector" /\ pc'[w] = "send" /\ cmd'[w] = cmd[w]
            /\ cmd[w].op = "vadd"
        BY <2>2 DEF AddVector, Goto, TypeInv, GatewayTypeOK, Control
      <3>2. QED
        BY <3>1 DEF Pending, Unsent, Publishing, Hashing
    <2>3. CASE ClearVectors(w)
      <3>1. /\ pc[w] = "clearVectors" /\ pc'[w] = "send" /\ cmd[w].op = "flush"
            /\ cmd'[w] = cmd[w] /\ shard'[w] = shard[w]
        BY <2>3 DEF ClearVectors, Goto, TypeInv, GatewayTypeOK, Control
      <3>2. QED
        BY <3>1 DEF Pending, Unsent, Due, RecordOf, Publishing, Hashing
    <2>4. CASE Read(w)
      <3>1. pc[w] = "read" /\ pc'[w] \in {"read", "idle"}
        BY <2>4 DEF Read, Goto, TypeInv, GatewayTypeOK
      <3>2. QED
        BY <3>1 DEF Pending, Unsent, Publishing, Hashing
    <2>5. QED
      BY <2>1, <2>2, <2>3, <2>4
  <1>4. QED
    BY <1>1, <1>2, <1>3, LogKept

LEMMA AssignedStep ==
    ASSUME TypeInv, Assigned, NEW w \in Worker, Begin(w) \/ Execute(w)
    PROVE  Assigned'
  <1>1. CASE Begin(w)
    BY <1>1 DEF Begin, Goto, Assigned, TypeInv, GatewayTypeOK
  <1>2. CASE Execute(w)
    <2>1. cmd' = cmd /\ pc[w] # "idle" /\ \A u \in Worker : u # w => pc'[u] = pc[u]
      BY <1>2 DEF Execute, InsertPair, PublishPair, SendPair, Remove, AddVector, ReadHash,
                  InsertHash, ClearShard, ClearVectors, SendRecord, Read, Goto,
                  TypeInv, GatewayTypeOK
    <2>2. QED
      BY <2>1 DEF Assigned
  <1>3. QED
    BY <1>1, <1>2

LEMMA LogInit ==
    ASSUME NEW told, GatewayInit
    PROVE  LogInv(told)
  <1>1. Assigned
    BY DEF GatewayInit, Assigned
  <1>2. ASSUME NEW k \in Utf8Key
        PROVE  LogAt(k, told)
    <2>1. /\ db[k] = Absent /\ logKv[k] = Absent /\ db[k].kind # "str"
          /\ \A w \in Worker : Pending(w, k) = NoRec /\ ~ Hashing(w, k)
      BY GatewayAssumption DEF GatewayInit, EmptyKv, Absent, Pending, Unsent, Hashing
    <2>2. QED
      BY <2>1 DEF LogAt
  <1>3. QED
    BY <1>1, <1>2, TypeInit DEF LogInv

LEMMA LogStep ==
    ASSUME NEW told, LogInv(told), [GatewayNext]_gatewayVars
    PROVE  LogInv(told)'
  <1>1. TypeInv'
    BY TypeStep DEF LogInv
  <1>2. CASE GatewayNext
    <2>1. PICK w \in Worker : Begin(w) \/ Execute(w)
      BY <1>2 DEF GatewayNext
    <2>2. Assigned'
      BY <2>1, AssignedStep DEF LogInv
    <2>3. ASSUME NEW k \in Utf8Key
          PROVE  LogAt(k, told)'
      BY <2>1, <2>3, InsertPairLog, PublishPairLog, SendPairLog, RemoveLog, ReadHashLog,
         InsertHashLog, ClearShardLog, SendRecordLog, QuietLog
         DEF LogInv, Execute
    <2>4. QED
      BY <1>1, <2>2, <2>3 DEF LogInv
  <1>3. CASE UNCHANGED gatewayVars
    <2>1. Assigned'
      BY <1>3 DEF gatewayVars, LogInv, Assigned
    <2>2. ASSUME NEW k \in Utf8Key, NEW w \in Worker
          PROVE  LogAt(k, told)'
      <3>1. \A u \in Worker : SameEntries(u)
        BY <1>3 DEF gatewayVars, SameEntries
      <3>2. /\ Pending(w, k)' = Pending(w, k)
            /\ Publishing(w, k)' = Publishing(w, k)
            /\ Hashing(w, k)' = Hashing(w, k)
        BY <3>1, PartsKept
      <3>3. db' = db /\ logKv' = logKv /\ topic' = topic
        BY <1>3 DEF gatewayVars
      <3>4. QED
        BY <3>1, <3>2, <3>3, LogKept DEF LogInv
    <2>3. ASSUME NEW k \in Utf8Key, Worker = {}
          PROVE  LogAt(k, told)'
      BY <1>3, <2>3 DEF gatewayVars, LogInv, LogAt
    <2>4. QED
      BY <1>1, <2>1, <2>2, <2>3 DEF LogInv
  <1>4. QED
    BY <1>2, <1>3

LEMMA AtRestNothingPending ==
    ASSUME NEW told, LogInv(told), NEW k \in Utf8Key, AtRest(k), NEW w \in Worker
    PROVE  Pending(w, k) = NoRec /\ ~ Publishing(w, k)
  BY PendingTouches DEF LogInv, AtRest

(*****************************************************************************)
(* On every key that one worker's clients write, memory is what a replay of  *)
(* everything ever sent to the persistence thread gives, as soon as no       *)
(* command is changing the key (main.rs:391, 423, 441, 480, 536).            *)
(*****************************************************************************)
THEOREM MemoryMatchesLogCorrect == GatewaySpec => []MemoryMatchesLog
  <1>1. ASSUME LogInv(Utf8Key)
        PROVE  MemoryMatchesLog
    <2>1. SUFFICES ASSUME NEW k \in Utf8Key, OneWriter(k), AtRest(k)
                   PROVE  Content(db[k]) = Content(logKv[k])
      BY DEF MemoryMatchesLog
    <2>2. \A w \in Worker : Pending(w, k) = NoRec
      BY <1>1, <2>1, AtRestNothingPending
    <2>3. LogAt(k, Utf8Key)
      BY <1>1 DEF LogInv
    <2>4. QED
      BY <2>1, <2>2, <2>3 DEF LogAt
  <1>2. LogInv(Utf8Key) /\ [GatewayNext]_gatewayVars => LogInv(Utf8Key)'
    BY LogStep
  <1>3. GatewayInit => LogInv(Utf8Key)
    BY LogInit
  <1>4. QED
    BY <1>1, <1>2, <1>3, PTL DEF GatewaySpec

(*****************************************************************************)
(* The last payload pushed to the subscribers of such a key is the string it *)
(* holds (main.rs:388, 477).                                                 *)
(*****************************************************************************)
THEOREM TopicMatchesMemoryCorrect == GatewaySpec => []TopicMatchesMemory
  <1>1. ASSUME LogInv(Utf8Key)
        PROVE  TopicMatchesMemory
    <2>1. SUFFICES ASSUME NEW k \in Utf8Key, OneWriter(k), AtRest(k), db[k].kind = "str"
                   PROVE  topic[k] = [kind |-> "str", val |-> db[k].val]
      BY DEF TopicMatchesMemory
    <2>2. \A w \in Worker : ~ Publishing(w, k)
      BY <1>1, <2>1, AtRestNothingPending
    <2>3. LogAt(k, Utf8Key)
      BY <1>1 DEF LogInv
    <2>4. topic[k] = Content(db[k])
      BY <2>1, <2>2, <2>3 DEF LogAt
    <2>5. QED
      BY <2>1, <2>4 DEF Content
  <1>2. LogInv(Utf8Key) /\ [GatewayNext]_gatewayVars => LogInv(Utf8Key)'
    BY LogStep
  <1>3. GatewayInit => LogInv(Utf8Key)
    BY LogInit
  <1>4. QED
    BY <1>1, <1>2, <1>3, PTL DEF GatewaySpec
-----------------------------------------------------------------------------
(*****************************************************************************)
(* The cipher.  For every router, key stream and value: what SET stored GET  *)
(* reads back, and what MSET stored MGET reads back, except from the GPU     *)
(* where blocks are routed apart.                                            *)
(*****************************************************************************)

(*****************************************************************************)
(* A place k lies in one block, at one place of it.                          *)
(*****************************************************************************)
LEMMA PlaceInBlock ==
    ASSUME NEW n \in Nat, NEW k \in 1 .. n
    PROVE  /\ 1 + ((k - 1) \div Block) \in 1 .. ChunksCount(n)
           /\ 1 + ((k - 1) % Block) \in 1 .. Block
           /\ ((k - 1) \div Block) * Block + (1 + ((k - 1) % Block)) = k
           /\ ChunksCount(n) \in Nat
           /\ n <= ChunksCount(n) * Block
  <1> DEFINE q == (k - 1) \div Block
             r == (k - 1) % Block
             c == ChunksCount(n)
             s == (n + Block - 1) % Block
  <1>1. Block \in Nat /\ Block >= 1
    BY CipherAssumption
  <1>2. q \in Nat /\ r \in 0 .. Block - 1 /\ k - 1 = (Block * q) + r
    BY <1>1
  <1>3. c \in Nat /\ s \in 0 .. Block - 1 /\ n + Block - 1 = (Block * c) + s
    BY <1>1 DEF ChunksCount
  <1>4. n <= Block * c
    BY <1>1, <1>3
  <1>5. q + 1 <= c
    <2>1. SUFFICES ASSUME c <= q PROVE FALSE
      BY <1>2, <1>3
    <2>2. Block * c <= Block * q
      BY <2>1, <1>1, <1>2, <1>3
    <2>3. Block * q < n
      BY <1>1, <1>2
    <2>4. Block * q \in Nat /\ Block * c \in Nat
      BY <1>1, <1>2, <1>3
    <2>5. QED
      BY <2>2, <2>3, <2>4, <1>4
  <1>6. Block * c = c * Block /\ Block * q = q * Block
    BY <1>1, <1>2, <1>3
  <1>7. QED
    BY <1>1, <1>2, <1>3, <1>4, <1>5, <1>6

(*****************************************************************************)
(* XOR with a key, and with a key stream, is its own inverse.                *)
(*****************************************************************************)
LEMMA ValueSequence ==
    ASSUME NEW data \in Value
    PROVE  /\ Len(data) \in 0 .. MaxLen
           /\ data \in [1 .. Len(data) -> Byte]
  <1>1. PICK n \in 0 .. MaxLen : data \in [1 .. n -> Byte]
    BY DEF Value
  <1>2. n \in Nat
    BY <1>1, CipherAssumption
  <1>3. data \in Seq(Byte) /\ Len(data) = n
    BY <1>1, <1>2
  <1>4. QED
    BY <1>1, <1>3

LEMMA RowAtType ==
    ASSUME NEW data \in Value, NEW i \in Nat \ {0}
    PROVE  RowAt(data, i) \in Row
  <1> DEFINE at(j) == (i - 1) * Block + j
  <1>1. ASSUME NEW j \in 1 .. Block, at(j) <= Len(data)
        PROVE  data[at(j)] \in Byte
    <2>1. Block \in Nat /\ Block >= 1
      BY CipherAssumption
    <2>2. (i - 1) * Block \in Nat
      BY <2>1
    <2>3. Len(data) \in Nat
      BY ValueSequence, CipherAssumption
    <2> DEFINE before == (i - 1) * Block
    <2> HIDE DEF before
    <2>4. before + j \in 1 .. Len(data)
      BY <1>1, <2>1, <2>2, <2>3 DEF before
    <2>5. QED
      BY <2>4, ValueSequence DEF before
  <1>2. QED
    BY <1>1, CipherAssumption DEF RowAt, Row

LEMMA ExpertTwice ==
    ASSUME NEW e \in Expert, NEW row \in Row
    PROVE  ForwardWithExpert(e, ForwardWithExpert(e, row)) = row
  <1>1. \A j \in 1 .. Block : Xor(Xor(row[j], BitKey[e][j]), BitKey[e][j]) = row[j]
    BY CipherAssumption DEF Row
  <1>2. row = [j \in 1 .. Block |-> row[j]]
    BY DEF Row
  <1>3. QED
    BY <1>1, <1>2 DEF ForwardWithExpert

LEMMA KeystreamTwice ==
    ASSUME NEW e \in Expert, NEW data \in Value
    PROVE  /\ ApplyKeystream(e, data) \in Value
           /\ Len(ApplyKeystream(e, data)) = Len(data)
           /\ ApplyKeystream(e, ApplyKeystream(e, data)) = data
  <1> DEFINE n == Len(data)
             once == ApplyKeystream(e, data)
  <1>1. n \in 0 .. MaxLen /\ n \in Nat /\ data \in [1 .. n -> Byte]
    BY ValueSequence, CipherAssumption
  <1>2. \A k \in 1 .. n : /\ data[k] \in Byte
                          /\ KeyStream[e][k] \in Byte
    <2> HIDE DEF n, once
    <2>1. KeyStream[e] \in [1 .. MaxLen -> Byte]
      BY CipherAssumption
    <2>2. MaxLen \in Nat
      BY CipherAssumption
    <2>3. ASSUME NEW k \in 1 .. n PROVE data[k] \in Byte
      BY <1>1
    <2>4. ASSUME NEW k \in 1 .. n PROVE KeyStream[e][k] \in Byte
      <3>1. k \in 1 .. MaxLen
        BY <1>1, <2>2
      <3>2. QED
        BY <3>1, <2>1
    <2>5. QED
      BY <2>3, <2>4
  <1>3. once \in [1 .. n -> Byte]
    BY <1>2, CipherAssumption DEF ApplyKeystream
  <1>4. once \in Value
    BY <1>1, <1>3 DEF Value
  <1>5. once \in Seq(Byte) /\ Len(once) = n
    BY <1>1, <1>3
  <1>6. \A k \in 1 .. n : Xor(once[k], KeyStream[e][k]) = data[k]
    BY <1>2, CipherAssumption DEF ApplyKeystream
  <1>7. ApplyKeystream(e, once) = [k \in 1 .. n |-> Xor(once[k], KeyStream[e][k])]
    BY <1>5 DEF ApplyKeystream
  <1>8. ApplyKeystream(e, once) = data
    BY <1>1, <1>6, <1>7
  <1>9. QED
    BY <1>4, <1>5, <1>8

(*****************************************************************************)
(* The blocks of a value, joined and cut at its length, are the value.       *)
(*****************************************************************************)
LEMMA BlocksJoin ==
    ASSUME NEW data \in Value,
           NEW m \in Nat, ChunksCount(Len(data)) <= m
    PROVE  Truncated([i \in 1 .. m |-> RowAt(data, i)], Len(data)) = data
  <1> DEFINE n == Len(data)
             chunks == [i \in 1 .. m |-> RowAt(data, i)]
  <1>1. /\ Block \in Nat /\ Block >= 1
        /\ n \in Nat /\ data \in [1 .. n -> Byte]
        /\ Len(chunks) = m
    BY ValueSequence, CipherAssumption
  <1>2. ASSUME NEW k \in 1 .. n
        PROVE  /\ chunks[1 + ((k - 1) \div Block)][1 + ((k - 1) % Block)] = data[k]
               /\ n <= m * Block
    <2> DEFINE q == (k - 1) \div Block
               r == (k - 1) % Block
    <2>1. /\ 1 + q \in 1 .. ChunksCount(n)
          /\ 1 + r \in 1 .. Block
          /\ (q * Block) + (1 + r) = k
          /\ ChunksCount(n) \in Nat
          /\ n <= ChunksCount(n) * Block
      BY <1>1, PlaceInBlock
    <2>2. 1 + q \in 1 .. m /\ (1 + q) - 1 = q
      BY <1>1, <2>1
    <2> HIDE DEF q, r
    <2>3. chunks[1 + q][1 + r] = data[k]
      BY <1>1, <2>1, <2>2 DEF RowAt
    <2>4. ChunksCount(n) * Block <= m * Block
      BY <1>1, <2>1
    <2>5. n <= m * Block
      BY <1>1, <2>1, <2>4
    <2>6. QED
      BY <2>3, <2>5 DEF q, r
  <1>3. (IF n < m * Block THEN n ELSE m * Block) = n
    <2>1. m * Block \in Nat
      BY <1>1
    <2>2. n = 0 \/ n \in 1 .. n
      BY <1>1
    <2>3. n = 0 \/ n <= m * Block
      BY <1>2, <2>2
    <2> DEFINE room == m * Block
    <2> HIDE DEF n, room
    <2>4. n \in Nat /\ room \in Nat /\ (n = 0 \/ n <= room)
      BY <1>1, <2>1, <2>3 DEF n, room
    <2>5. (IF n < room THEN n ELSE room) = n
      BY <2>4
    <2>6. QED
      BY <2>5 DEF n, room
  <1>4. Truncated(chunks, n)
            = [k \in 1 .. n |-> chunks[1 + ((k - 1) \div Block)][1 + ((k - 1) % Block)]]
    BY <1>1, <1>3 DEF Truncated
  <1>5. QED
    BY <1>1, <1>2, <1>4

(*****************************************************************************)
(* So a value enciphered block by block with one expert reads back with it.  *)
(*****************************************************************************)
LEMMA EncipheredReadsBack ==
    ASSUME NEW e \in Expert, NEW data \in Value,
           NEW m \in Nat, ChunksCount(Len(data)) <= m
    PROVE  ReconstructRaw(
               [best_idx |-> e,
                chunks   |-> [i \in 1 .. m |-> ForwardWithExpert(e, RowAt(data, i))]],
               Len(data)) = data
  <1> DEFINE chunks == [i \in 1 .. m |-> ForwardWithExpert(e, RowAt(data, i))]
             nv == [best_idx |-> e, chunks |-> chunks]
  <1>1. Len(chunks) = m
    OBVIOUS
  <1>2. \A i \in 1 .. m : ForwardWithExpert(e, chunks[i]) = RowAt(data, i)
    BY RowAtType, ExpertTwice
  <1>3. [i \in 1 .. Len(nv.chunks) |-> ForwardWithExpert(nv.best_idx, nv.chunks[i])]
            = [i \in 1 .. m |-> RowAt(data, i)]
    BY <1>1, <1>2
  <1>4. QED
    BY <1>3, BlocksJoin DEF ReconstructRaw

LEMMA ExpertChosen ==
    ASSUME NEW input \in Value
    PROVE  /\ BestIdx(input) \in Expert
           /\ (IF Len(input) = 0 THEN 1 ELSE ChunksCount(Len(input))) \in Nat
           /\ ChunksCount(Len(input)) \in Nat
           /\ ChunksCount(Len(input))
                  <= (IF Len(input) = 0 THEN 1 ELSE ChunksCount(Len(input)))
  <1>1. Block \in Nat /\ Block >= 1 /\ Len(input) \in Nat
    BY ValueSequence, CipherAssumption
  <1>2. [j \in 1 .. Block |-> 0] \in Row /\ RowAt(input, 1) \in Row
    BY RowAtType, CipherAssumption DEF Row
  <1>3. BestIdx(input) \in Expert
    BY <1>2, CipherAssumption DEF BestIdx
  <1>4. ChunksCount(Len(input)) \in Nat
    BY <1>1 DEF ChunksCount
  <1>5. Len(input) = 0 => ChunksCount(Len(input)) <= 1
    <2>1. ASSUME Len(input) = 0 PROVE (0 + Block - 1) \div Block <= 1
      BY <1>1
    <2>2. QED
      BY <2>1 DEF ChunksCount
  <1>6. QED
    BY <1>3, <1>4, <1>5

(*****************************************************************************)
(* GET reads back what SET stored (inference.rs:312-367), for every router,  *)
(* key stream, block size and value, the empty one and one whose last block  *)
(* is not full included.                                                     *)
(*****************************************************************************)
THEOREM CascadeRoundTrip == CascadeReadsBack
  <1> SUFFICES ASSUME NEW input \in Value
               PROVE  ReconstructCascade(ForwardCascade(input), Len(input)) = input
    BY DEF CascadeReadsBack
  <1> DEFINE e == BestIdx(input)
             m == IF Len(input) = 0 THEN 1 ELSE ChunksCount(Len(input))
             data == ApplyKeystream(e, input)
             nv == ForwardCascade(input)
  <1>1. /\ e \in Expert
        /\ m \in Nat
        /\ ChunksCount(Len(input)) <= m
    BY ExpertChosen
  <1>2. data \in Value /\ Len(data) = Len(input) /\ ApplyKeystream(e, data) = input
    BY <1>1, KeystreamTwice
  <1>3. nv = [best_idx |-> e,
              chunks   |-> [i \in 1 .. m |-> ForwardWithExpert(e, RowAt(data, i))]]
    BY DEF ForwardCascade, Enciphered
  <1>4. ReconstructRaw(nv, Len(input)) = data
    <2> HIDE DEF e, m, data, nv
    <2>1. QED
      BY <1>1, <1>2, <1>3, EncipheredReadsBack
  <1>5. nv.best_idx = e
    BY <1>3
  <1>6. QED
    BY <1>2, <1>4, <1>5 DEF ReconstructCascade

(*****************************************************************************)
(* MGET reads back what MSET stored (inference.rs:210-310), the GPU's blocks *)
(* included where they were routed alike.                                    *)
(*****************************************************************************)
THEOREM RawRoundTrip == RawReadsBack
  <1> SUFFICES ASSUME NEW input \in Value
               PROVE  /\ ReconstructRaw(ForwardRaw(input), Len(input)) = input
                      /\ RoutedAlike(input) =>
                             ReconstructRaw(ForwardGpu(input), Len(input)) = input
    BY DEF RawReadsBack
  <1>1. ReconstructRaw(ForwardRaw(input), Len(input)) = input
    <2> DEFINE e == BestIdx(input)
               m == IF Len(input) = 0 THEN 1 ELSE ChunksCount(Len(input))
    <2>1. ForwardRaw(input) =
              [best_idx |-> e,
               chunks   |-> [i \in 1 .. m |-> ForwardWithExpert(e, RowAt(input, i))]]
      BY DEF ForwardRaw, Enciphered
    <2>2. e \in Expert /\ m \in Nat /\ ChunksCount(Len(input)) <= m
      BY ExpertChosen
    <2> HIDE DEF e, m
    <2>3. QED
      BY <2>1, <2>2, EncipheredReadsBack
  <1>2. ASSUME RoutedAlike(input)
        PROVE  ReconstructRaw(ForwardGpu(input), Len(input)) = input
    <2> DEFINE e == Router(RowAt(input, 1))
               m == ChunksCount(Len(input))
    <2>1. \A i \in 1 .. m : Router(RowAt(input, i)) = e
      BY <1>2 DEF RoutedAlike
    <2>2. ForwardGpu(input) =
              [best_idx |-> e,
               chunks   |-> [i \in 1 .. m |-> ForwardWithExpert(e, RowAt(input, i))]]
      BY <2>1 DEF ForwardGpu
    <2>3. e \in Expert
      BY RowAtType, CipherAssumption
    <2>4. m \in Nat /\ m <= m
      BY ExpertChosen
    <2> HIDE DEF e, m
    <2>5. QED
      BY <2>2, <2>3, <2>4, EncipheredReadsBack DEF m
  <1>3. QED
    BY <1>1, <1>2
-----------------------------------------------------------------------------
(*****************************************************************************)
(* The packed hash.  A pair is packed as the lengths of its parts and the    *)
(* parts; where it stands in a buffer the loop of merge and                  *)
(* deserialize_into_resp takes it out again and goes on behind it.           *)
(*****************************************************************************)
Bytestring == Seq(0 .. 255)

Entries == Bytestring \X Bytestring

EntryFits(q) == FitsU32(Len(q[1])) /\ FitsU32(Len(q[2]))

Lengths(q) == BigEndian(Len(q[1])) \o BigEndian(Len(q[2]))

Packed(q) == Lengths(q) \o q[1] \o q[2]

LEMMA LengthsParts ==
    ASSUME NEW q \in Entries
    PROVE  /\ q[1] \in Bytestring /\ q[2] \in Bytestring
           /\ Len(q[1]) \in Nat /\ Len(q[2]) \in Nat
           /\ Lengths(q) \in Bytestring /\ Len(Lengths(q)) = 8
           /\ Lengths(q) \o q[1] \in Bytestring
           /\ Len(Lengths(q) \o q[1]) = 8 + Len(q[1])
           /\ Packed(q) \in Bytestring /\ Len(Packed(q)) = 8 + Len(q[1]) + Len(q[2])
  <1> DEFINE x == q[1]
             y == q[2]
             m == Len(x)
             n == Len(y)
  <1>1. x \in Bytestring /\ y \in Bytestring /\ m \in Nat /\ n \in Nat
    BY DEF Entries, Bytestring
  <1>2. /\ BigEndian(m) \in Bytestring /\ Len(BigEndian(m)) = 4
        /\ BigEndian(n) \in Bytestring /\ Len(BigEndian(n)) = 4
    <2> HIDE DEF m, n
    <2>1. QED
      BY <1>1, FourBytesType DEF Bytestring
  <1> DEFINE u == BigEndian(m)
             v == BigEndian(n)
  <1>3. u \o v \in Bytestring /\ Len(u \o v) = 8
    <2>1. /\ u \in Seq(0 .. 255) /\ Len(u) = 4
          /\ v \in Seq(0 .. 255) /\ Len(v) = 4
      BY <1>2 DEF Bytestring
    <2> HIDE DEF u, v
    <2>2. u \o v \in Seq(0 .. 255) /\ Len(u \o v) = Len(u) + Len(v)
      BY <2>1, ConcatElements
    <2>3. QED
      BY <2>1, <2>2 DEF Bytestring
  <1> DEFINE l == u \o v
  <1> HIDE DEF l
  <1>4. l \o x \in Bytestring /\ Len(l \o x) = 8 + m
    <2>1. l \in Bytestring /\ Len(l) = 8
      BY <1>3 DEF l
    <2> HIDE DEF x
    <2>2. l \o x \in Bytestring /\ Len(l \o x) = Len(l) + Len(x)
      BY <1>1, <2>1, ConcatElements DEF Bytestring
    <2>3. QED
      BY <2>1, <2>2
  <1> DEFINE k == l \o x
  <1> HIDE DEF k
  <1>5. k \o y \in Bytestring /\ Len(k \o y) = 8 + m + n
    <2>1. k \in Bytestring /\ Len(k) = 8 + m
      BY <1>4 DEF k
    <2> HIDE DEF y, m
    <2>2. k \o y \in Bytestring /\ Len(k \o y) = Len(k) + Len(y)
      BY <1>1, <2>1, ConcatElements DEF Bytestring
    <2>3. QED
      BY <2>1, <2>2
  <1>6. QED
    BY <1>1, <1>3, <1>4, <1>5 DEF l, k, Lengths, Packed

LEMMA EntryParts ==
    ASSUME NEW q \in Entries, EntryFits(q), NEW buf \in Bytestring, NEW a \in Nat,
           a + Len(Packed(q)) <= Len(buf), StandsAt(buf, a, Packed(q))
    PROVE  /\ FromBigEndian(buf, a + 1) = Len(q[1])
           /\ FromBigEndian(buf, (a + 4) + 1) = Len(q[2])
           /\ SubSeq(buf, (a + 8) + 1, (a + 8) + Len(q[1])) = q[1]
           /\ SubSeq(buf, (a + 8 + Len(q[1])) + 1, (a + 8 + Len(q[1])) + Len(q[2])) = q[2]
  <1> DEFINE x == q[1]
             y == q[2]
             m == Len(x)
             n == Len(y)
             l == Lengths(q)
             k == l \o x
             u == BigEndian(m)
             v == BigEndian(n)
  <1>1. /\ x \in Bytestring /\ y \in Bytestring /\ m \in Nat /\ n \in Nat
        /\ l \in Bytestring /\ Len(l) = 8
        /\ k \in Bytestring /\ Len(k) = 8 + m
        /\ Packed(q) \in Bytestring /\ Len(Packed(q)) = 8 + m + n
    BY LengthsParts
  <1>2. /\ u \in Bytestring /\ Len(u) = 4
        /\ v \in Bytestring /\ Len(v) = 4
    <2> HIDE DEF m, n
    <2>1. QED
      BY <1>1, FourBytesType DEF Bytestring
  <1>3. Packed(q) = k \o y /\ l = u \o v /\ FitsU32(m) /\ FitsU32(n)
    BY DEF Packed, Lengths, EntryFits
  <1> HIDE DEF x, y, k, l, u, v
  <1>4. StandsAt(buf, a, k) /\ StandsAt(buf, a + Len(k), y)
    <2>1. StandsAt(buf, a, k \o y)
      BY <1>3
    <2>2. k \in Seq(0 .. 255) /\ y \in Seq(0 .. 255)
      BY <1>1 DEF Bytestring
    <2>3. QED
      BY <2>1, <2>2, StandsApart
  <1>5. StandsAt(buf, a, l) /\ StandsAt(buf, a + Len(l), x)
    <2>1. StandsAt(buf, a, l \o x)
      BY <1>4 DEF k
    <2>2. QED
      BY <1>1, <2>1, StandsApart DEF Bytestring
  <1>6. StandsAt(buf, a, u) /\ StandsAt(buf, a + Len(u), v)
    <2>1. StandsAt(buf, a, u \o v)
      BY <1>3, <1>5
    <2>2. QED
      BY <1>2, <2>1, StandsApart DEF Bytestring
  <1> HIDE DEF m, n
  <1>7. FromBigEndian(buf, a + 1) = m
    <2>1. StandsAt(buf, a, BigEndian(m))
      BY <1>6 DEF u
    <2>2. QED
      BY <1>1, <1>3, <2>1, BigEndianReads
  <1>8. FromBigEndian(buf, (a + 4) + 1) = n
    <2>1. StandsAt(buf, a + 4, BigEndian(n)) /\ a + 4 \in Nat
      BY <1>2, <1>6 DEF v
    <2>2. QED
      BY <1>1, <1>3, <2>1, BigEndianReads
  <1>9. Len(buf) \in Nat /\ a + (8 + m + n) <= Len(buf)
    BY <1>1 DEF Bytestring
  <1>10. SubSeq(buf, (a + 8) + 1, (a + 8) + m) = x
    <2>1. StandsAt(buf, a + 8, x) /\ a + 8 \in Nat /\ (a + 8) + m <= Len(buf)
      BY <1>1, <1>5, <1>9
    <2>2. SubSeq(buf, (a + 8) + 1, (a + 8) + Len(x)) = x
      BY <1>1, <2>1, StandsCut DEF Bytestring, m
    <2>3. QED
      BY <2>2 DEF m
  <1>11. SubSeq(buf, (a + 8 + m) + 1, (a + 8 + m) + n) = y
    <2>1. /\ a + Len(k) = a + 8 + m
          /\ a + 8 + m \in Nat /\ (a + 8 + m) + n <= Len(buf)
      BY <1>1, <1>9
    <2>2. StandsAt(buf, a + 8 + m, y)
      BY <1>4, <2>1
    <2>3. SubSeq(buf, (a + 8 + m) + 1, (a + 8 + m) + Len(y)) = y
      BY <1>1, <2>1, <2>2, StandsCut DEF Bytestring, n
    <2>4. QED
      BY <2>3 DEF n
  <1>12. QED
    BY <1>7, <1>8, <1>10, <1>11 DEF m, n, x, y

LEMMA EntryStep ==
    ASSUME NEW q \in Entries, EntryFits(q), NEW buf \in Bytestring, NEW a \in Nat,
           a + Len(Packed(q)) <= Len(buf), StandsAt(buf, a, Packed(q)), NEW found
    PROVE  NextPair(buf, [p |-> a + 1, pairs |-> found]) =
               [p |-> (a + Len(Packed(q))) + 1, pairs |-> Append(found, q)]
  <1> DEFINE walk == [p |-> a + 1, pairs |-> found]
             m == Len(q[1])
             n == Len(q[2])
             key == walk.p + 8
             val == key + FromBigEndian(buf, walk.p)
             end == val + FromBigEndian(buf, walk.p + 4)
  <1>1. m \in Nat /\ n \in Nat /\ Len(Packed(q)) = 8 + m + n /\ Len(buf) \in Nat
    <2>1. Len(buf) \in Nat
      BY DEF Bytestring
    <2>2. QED
      BY <2>1, LengthsParts
  <1>2. /\ FromBigEndian(buf, a + 1) = m
        /\ FromBigEndian(buf, (a + 4) + 1) = n
        /\ SubSeq(buf, (a + 8) + 1, (a + 8) + m) = q[1]
        /\ SubSeq(buf, (a + 8 + m) + 1, (a + 8 + m) + n) = q[2]
    BY EntryParts
  <1>3. walk.p = a + 1 /\ walk.pairs = found
    OBVIOUS
  <1>4. q = <<q[1], q[2]>>
    BY DEF Entries
  <1> HIDE DEF walk, m, n
  <1>5. walk.p + 4 = (a + 4) + 1
    BY <1>3
  <1>6. key = (a + 8) + 1 /\ val = (a + 8 + m) + 1 /\ end = (a + (8 + m + n)) + 1
    BY <1>1, <1>2, <1>3, <1>5
  <1>7. NextPair(buf, walk) =
            IF walk.p + 7 > Len(buf) \/ end - 1 > Len(buf) THEN walk
            ELSE [p |-> end,
                  pairs |-> Append(walk.pairs,
                                <<SubSeq(buf, key, val - 1), SubSeq(buf, val, end - 1)>>)]
    BY DEF NextPair
  <1> HIDE DEF key, val, end
  <1>8. val - 1 = (a + 8) + m /\ end - 1 = (a + 8 + m) + n
    BY <1>1, <1>6
  <1>9. ~ (walk.p + 7 > Len(buf) \/ end - 1 > Len(buf))
    BY <1>1, <1>3, <1>8
  <1>10. SubSeq(buf, key, val - 1) = q[1] /\ SubSeq(buf, val, end - 1) = q[2]
    BY <1>2, <1>6, <1>8
  <1>11. QED
    BY <1>1, <1>3, <1>4, <1>6, <1>7, <1>9, <1>10 DEF walk

(*****************************************************************************)
(* A packed list of pairs reads back.                                        *)
(*****************************************************************************)
LEMMA PackedReadsBack ==
    ASSUME NEW pairs \in Seq(Entries), FitsU32(Len(pairs)),
           \A i \in 1 .. Len(pairs) : EntryFits(pairs[i])
    PROVE  /\ Len(Serialize(pairs)) >= 4
           /\ FromBigEndian(Serialize(pairs), 1) = Len(pairs)
           /\ Parse(Serialize(pairs)) = pairs
  <1> DEFINE N == Len(pairs)
             parts == [i \in 1 .. N |-> Packed(pairs[i])]
             head == BigEndian(N)
             body == Joined(parts)
             buf == head \o body
  <1>1. N \in Nat /\ \A i \in 1 .. N : pairs[i] \in Entries /\ EntryFits(pairs[i])
    OBVIOUS
  <1>2. /\ parts \in Seq(Bytestring) /\ Len(parts) = N
        /\ \A i \in 1 .. N : parts[i] = Packed(pairs[i])
    <2>1. \A i \in 1 .. N : Packed(pairs[i]) \in Bytestring
      BY <1>1, LengthsParts
    <2>2. QED
      BY <1>1, <2>1
  <1>3. Serialize(pairs) = buf
    BY DEF Serialize, Packed, Lengths
  <1> HIDE DEF parts, N
  <1>4. PICK at : body \in Bytestring /\ PartsAt(parts, body, at)
    BY <1>2, JoinedAt DEF Bytestring
  <1>5. head \in Bytestring /\ Len(head) = 4
    BY <1>1, FourBytesType DEF Bytestring
  <1> HIDE DEF head, body
  <1>6. /\ buf \in Bytestring /\ Len(buf) = 4 + Len(body) /\ Len(body) \in Nat
        /\ \A i \in 1 .. 4 : buf[i] = head[i]
    <2>1. head \in Seq(0 .. 255) /\ body \in Seq(0 .. 255)
      BY <1>4, <1>5 DEF Bytestring
    <2>2. /\ buf \in Seq(0 .. 255) /\ Len(buf) = Len(head) + Len(body)
          /\ \A i \in 1 .. Len(head) : buf[i] = head[i]
      BY <2>1, ConcatElements
    <2>3. Len(body) \in Nat
      BY <2>1
    <2> QED
      BY <1>5, <2>2, <2>3 DEF Bytestring
  <1>7. FromBigEndian(buf, 1) = N
    <2>1. StandsAt(buf, 0, BigEndian(N))
      BY <1>5, <1>6 DEF StandsAt, head
    <2>2. FitsU32(N) /\ 0 \in Nat
      BY DEF N
    <2> HIDE DEF buf
    <2>3. FromBigEndian(buf, 0 + 1) = N
      BY <1>1, <2>1, <2>2, BigEndianReads
    <2>4. QED
      BY <2>3
  <1> DEFINE W(n) == [p |-> (4 + at[n]) + 1, pairs |-> SubSeq(pairs, 1, n)]
  <1>8. ASSUME NEW n \in 1 .. N PROVE NextPair(buf, W(n - 1)) = W(n)
    <2> DEFINE q == pairs[n]
               a == at[n - 1]
               found == SubSeq(pairs, 1, n - 1)
    <2>1. q \in Entries /\ EntryFits(q) /\ n - 1 \in 0 .. N /\ Packed(q) \in Bytestring
      <3>1. q \in Entries /\ EntryFits(q) /\ n - 1 \in 0 .. N
        BY <1>1
      <3> HIDE DEF q
      <3>2. QED
        BY <3>1, LengthsParts
    <2>2. parts[n] = Packed(q)
      BY <1>2
    <2>3. /\ a \in Nat /\ at[n] = a + Len(Packed(q)) /\ at[n] <= Len(body)
          /\ StandsAt(body, a, Packed(q))
      BY <1>2, <1>4, <2>1, <2>2 DEF PartsAt
    <2>4. StandsAt(head \o body, Len(head) + a, Packed(q))
      <3> HIDE DEF q, a
      <3>1. QED
        BY <1>4, <1>5, <2>1, <2>3, StandsAfter DEF Bytestring
    <2>5. Append(found, q) = SubSeq(pairs, 1, n)
      BY PrefixGrows DEF N
    <2> HIDE DEF q, a, found, buf
    <2>6. /\ StandsAt(buf, 4 + a, Packed(q)) /\ 4 + a \in Nat
          /\ (4 + a) + Len(Packed(q)) <= Len(buf)
          /\ (4 + a) + Len(Packed(q)) = 4 + at[n]
      <3>1. Len(Packed(q)) \in Nat
        BY <2>1 DEF Bytestring
      <3>2. QED
        BY <1>5, <1>6, <2>3, <2>4, <3>1 DEF buf
    <2> HIDE DEF W
    <2>7. NextPair(buf, [p |-> (4 + a) + 1, pairs |-> found]) =
              [p |-> ((4 + a) + Len(Packed(q))) + 1, pairs |-> Append(found, q)]
      <3>1. buf \in Bytestring
        BY <1>6
      <3>2. QED
        BY <2>1, <2>6, <3>1, EntryStep
    <2>8. W(n - 1) = [p |-> (4 + a) + 1, pairs |-> found]
      BY DEF W, a, found
    <2>9. W(n) = [p |-> ((4 + a) + Len(Packed(q))) + 1, pairs |-> Append(found, q)]
      BY <2>5, <2>6 DEF W
    <2>10. QED
      BY <2>7, <2>8, <2>9
  <1> DEFINE none == [p |-> 5, pairs |-> <<>>]
             Is(f) == f = [n \in 0 .. FromBigEndian(buf, 1) |->
                              IF n = 0 THEN none ELSE NextPair(buf, f[n - 1])]
             h == CHOOSE f : Is(f)
             g == [n \in 0 .. N |-> W(n)]
  <1>9. W(0) = none
    <2>1. at[0] = 0
      BY <1>4 DEF PartsAt
    <2>2. SubSeq(pairs, 1, 0) = <<>>
      BY SubSeqEmpty
    <2>3. QED
      BY <2>1, <2>2
  <1>10. W(N).pairs = pairs
    BY DEF N
  <1>11. Parse(buf) = h[N].pairs
    <2>1. ~ Len(buf) < 4
      BY <1>6
    <2> HIDE DEF buf
    <2>2. Parse(buf) = h[FromBigEndian(buf, 1)].pairs
      BY <2>1 DEF Parse
    <2> HIDE DEF h
    <2>3. QED
      BY <1>7, <2>2
  <1> HIDE DEF W, none, buf
  <1>12. g[0] = none /\ \A n \in 1 .. N : g[n] = NextPair(buf, g[n - 1])
    <2>1. g[0] = none
      BY <1>1, <1>9
    <2>2. ASSUME NEW n \in 1 .. N PROVE g[n] = NextPair(buf, g[n - 1])
      <3>1. n \in 0 .. N /\ n - 1 \in 0 .. N
        BY <1>1
      <3>2. g[n] = W(n) /\ g[n - 1] = W(n - 1)
        BY <3>1
      <3> HIDE DEF g
      <3>3. QED
        BY <1>8, <3>2
    <2>3. QED
      BY <2>1, <2>2
  <1>13. Is(g)
    <2>1. ASSUME NEW n \in 0 .. N
          PROVE  g[n] = IF n = 0 THEN none ELSE NextPair(buf, g[n - 1])
      <3>1. n = 0 \/ n \in 1 .. N
        BY <1>1
      <3> HIDE DEF g
      <3>2. QED
        BY <1>12, <3>1
    <2>2. g = [n \in 0 .. N |-> g[n]]
      OBVIOUS
    <2> HIDE DEF g
    <2>3. QED
      BY <1>7, <2>1, <2>2
  <1>14. Is(h)
    BY <1>13
  <1>15. h = g
    <2> HIDE DEF h
    <2>1. /\ h = [n \in 0 .. N |-> IF n = 0 THEN none ELSE NextPair(buf, h[n - 1])]
          /\ g = [n \in 0 .. N |-> IF n = 0 THEN none ELSE NextPair(buf, g[n - 1])]
      <3> HIDE DEF g
      <3>1. QED
        BY <1>7, <1>13, <1>14
    <2> HIDE DEF g
    <2>2. DefinedUpTo(N, h) /\ DefinedUpTo(N, g) /\ h[0] = g[0]
      <3>1. h[0] = none /\ g[0] = none
        BY <1>1, <2>1
      <3>2. /\ h = [n \in 0 .. N |-> h[n]]
            /\ g = [n \in 0 .. N |-> g[n]]
        BY <2>1
      <3>3. QED
        BY <3>1, <3>2 DEF DefinedUpTo
    <2>3. ASSUME NEW n \in 1 .. N, h[n - 1] = g[n - 1] PROVE h[n] = g[n]
      <3>1. n \in 0 .. N /\ n # 0
        BY <1>1
      <3>2. h[n] = NextPair(buf, h[n - 1])
        BY <2>1, <3>1
      <3>3. QED
        BY <2>3, <3>2, <1>12
    <2>4. QED
      BY <1>1, <2>2, <2>3, RecursionUnique
  <1>16. g[N] = W(N)
    BY <1>1
  <1> HIDE DEF h, g
  <1>17. Parse(buf) = pairs
    BY <1>10, <1>11, <1>15, <1>16
  <1>18. QED
    BY <1>3, <1>6, <1>7, <1>17 DEF N

(*****************************************************************************)
(* Of several pairs with one key the last counts: in the bytes, and in what  *)
(* the client asks for.                                                      *)
(*****************************************************************************)
Sent == Seq(Field \X Val)

IsLast(pairs, i) ==
    /\ i \in 1 .. Len(pairs)
    /\ \A k \in i + 1 .. Len(pairs) : pairs[k][1] # pairs[i][1]

LEMMA FinalHolds ==
    ASSUME NEW pairs, NEW q
    PROVE  q \in Final(pairs) <=> \E i : IsLast(pairs, i) /\ q = pairs[i]
  <1>1. QED
    BY DEF Final, IsLast

LEMMA LastUnique ==
    ASSUME NEW T, NEW pairs \in Seq(T), NEW i, IsLast(pairs, i), NEW j, IsLast(pairs, j),
           pairs[i][1] = pairs[j][1]
    PROVE  i = j
  <1>1. Len(pairs) \in Nat /\ i \in 1 .. Len(pairs) /\ j \in 1 .. Len(pairs)
    BY DEF IsLast
  <1>2. ~ i < j
    <2> SUFFICES ASSUME i < j PROVE FALSE
      OBVIOUS
    <2>1. j \in i + 1 .. Len(pairs)
      BY <1>1
    <2>2. QED
      BY <2>1 DEF IsLast
  <1>3. ~ j < i
    <2> SUFFICES ASSUME j < i PROVE FALSE
      OBVIOUS
    <2>1. i \in j + 1 .. Len(pairs)
      BY <1>1
    <2>2. QED
      BY <2>1 DEF IsLast
  <1>4. QED
    BY <1>1, <1>2, <1>3

LEMMA LastExists ==
    ASSUME NEW T, NEW pairs \in Seq(T), NEW i \in 1 .. Len(pairs)
    PROVE  \E j : IsLast(pairs, j) /\ pairs[j][1] = pairs[i][1]
  <1> DEFINE S == {j \in 1 .. Len(pairs) : pairs[j][1] = pairs[i][1]}
  <1>1. Len(pairs) \in Nat
    OBVIOUS
  <1>2. S \in SUBSET Nat /\ S # {} /\ \A j \in S : j <= Len(pairs)
    BY <1>1
  <1>3. PICK j \in S : \A k \in S : k <= j
    <2> HIDE DEF S
    <2>1. QED
      BY <1>1, <1>2, GreatestOf
  <1>4. ASSUME NEW k \in j + 1 .. Len(pairs), pairs[k][1] = pairs[j][1] PROVE FALSE
    <2>1. j \in 1 .. Len(pairs) /\ pairs[j][1] = pairs[i][1]
      BY <1>3
    <2>2. k \in 1 .. Len(pairs) /\ ~ k <= j
      BY <1>1, <2>1
    <2>3. k \in S
      BY <1>4, <2>1, <2>2
    <2>4. QED
      BY <1>3, <2>2, <2>3
  <1>5. QED
    BY <1>3, <1>4 DEF IsLast

LEMMA SentPair ==
    ASSUME NEW pairs \in Sent, NEW i \in 1 .. Len(pairs)
    PROVE  pairs[i][1] \in Field /\ pairs[i][2] \in Val /\ pairs[i][2] # NoVal
  <1>1. pairs[i] \in Field \X Val
    BY DEF Sent
  <1>2. QED
    BY <1>1, NoValAssumption

LEMMA MeaningOf ==
    ASSUME NEW pairs \in Sent, NEW x \in Field
    PROVE  /\ \A i : IsLast(pairs, i) /\ pairs[i][1] = x => Meaning(pairs)[x] = pairs[i][2]
           /\ (\A i \in 1 .. Len(pairs) : pairs[i][1] # x) => Meaning(pairs)[x] = NoVal
  <1> DEFINE last == CHOOSE i \in 1 .. Len(pairs) :
                        /\ pairs[i][1] = x
                        /\ \A j \in i + 1 .. Len(pairs) : pairs[j][1] # x
  <1>1. Meaning(pairs)[x] =
            IF \E i \in 1 .. Len(pairs) : pairs[i][1] = x THEN pairs[last][2] ELSE NoVal
    BY DEF Meaning
  <1>2. ASSUME NEW i, IsLast(pairs, i), pairs[i][1] = x
        PROVE  last = i
    <2>1. /\ i \in 1 .. Len(pairs) /\ pairs[i][1] = x
          /\ \A j \in i + 1 .. Len(pairs) : pairs[j][1] # x
      BY <1>2 DEF IsLast
    <2>2. /\ last \in 1 .. Len(pairs) /\ pairs[last][1] = x
          /\ \A j \in last + 1 .. Len(pairs) : pairs[j][1] # x
      BY <2>1
    <2> HIDE DEF last
    <2>3. IsLast(pairs, last)
      BY <2>2 DEF IsLast
    <2>4. QED
      BY <1>2, <2>2, <2>3, LastUnique DEF Sent
  <1> HIDE DEF last
  <1>3. ASSUME NEW i, IsLast(pairs, i), pairs[i][1] = x
        PROVE  Meaning(pairs)[x] = pairs[i][2]
    <2>1. i \in 1 .. Len(pairs)
      BY <1>3 DEF IsLast
    <2>2. last = i
      BY <1>2, <1>3
    <2>3. QED
      BY <1>1, <1>3, <2>1, <2>2
  <1>4. QED
    BY <1>1, <1>3

LEMMA SpelledEntries ==
    ASSUME NEW pairs \in Sent
    PROVE  /\ Spelled(pairs) \in Seq(Entries) /\ Len(Spelled(pairs)) = Len(pairs)
           /\ \A i \in 1 .. Len(pairs) :
                 Spelled(pairs)[i] = <<Spell[pairs[i][1]], Spell[pairs[i][2]]>>
  <1>1. Len(pairs) \in Nat
    BY DEF Sent
  <1>2. ASSUME NEW i \in 1 .. Len(pairs)
        PROVE  <<Spell[pairs[i][1]], Spell[pairs[i][2]]>> \in Entries
    <2>1. pairs[i][1] \in Field \cup Val /\ pairs[i][2] \in Field \cup Val
      BY SentPair
    <2>2. QED
      BY <2>1, FlatHashAssumption DEF Entries, Bytestring
  <1>3. QED
    BY <1>1, <1>2 DEF Spelled

LEMMA SpelledLast ==
    ASSUME NEW pairs \in Sent, NEW i
    PROVE  IsLast(Spelled(pairs), i) <=> IsLast(pairs, i)
  <1> DEFINE s == Spelled(pairs)
             N == Len(pairs)
  <1>1. N \in Nat /\ Len(s) = N
    BY SpelledEntries DEF Sent
  <1>2. \A j \in 1 .. N : s[j][1] = Spell[pairs[j][1]] /\ pairs[j][1] \in Field
    BY SpelledEntries, SentPair
  <1>3. \A x, y \in Field : Spell[x] = Spell[y] => x = y
    BY FlatHashAssumption
  <1> HIDE DEF s
  <1>4. ASSUME i \in 1 .. N, NEW k \in i + 1 .. N
        PROVE  s[k][1] # s[i][1] <=> pairs[k][1] # pairs[i][1]
    <2>1. k \in 1 .. N
      BY <1>1, <1>4
    <2>2. QED
      BY <1>2, <1>3, <1>4, <2>1
  <1>5. QED
    BY <1>1, <1>4 DEF IsLast, s

LEMMA FinalSpelled ==
    ASSUME NEW pairs \in Sent
    PROVE  Final(Spelled(pairs)) =
               {<<Spell[x], Spell[Meaning(pairs)[x]]>> :
                    x \in {y \in Field : Meaning(pairs)[y] # NoVal}}
  <1> DEFINE s == Spelled(pairs)
             m == Meaning(pairs)
             A == {<<Spell[x], Spell[m[x]]>> : x \in {y \in Field : m[y] # NoVal}}
  <1>1. ASSUME NEW q \in Final(s) PROVE q \in A
    <2>1. PICK i : IsLast(s, i) /\ q = s[i]
      BY FinalHolds
    <2>2. IsLast(pairs, i)
      BY <2>1, SpelledLast
    <2>3. i \in 1 .. Len(pairs)
      BY <2>2 DEF IsLast
    <2>4. pairs[i][1] \in Field /\ pairs[i][2] # NoVal
      BY <2>3, SentPair
    <2>5. m[pairs[i][1]] = pairs[i][2]
      BY <2>2, <2>4, MeaningOf
    <2>6. q = <<Spell[pairs[i][1]], Spell[pairs[i][2]]>>
      BY <2>1, <2>3, SpelledEntries
    <2> HIDE DEF m, s
    <2>7. QED
      BY <2>4, <2>5, <2>6
  <1>2. ASSUME NEW q \in A PROVE q \in Final(s)
    <2> HIDE DEF m
    <2>1. PICK x \in Field : m[x] # NoVal /\ q = <<Spell[x], Spell[m[x]]>>
      OBVIOUS
    <2>2. ~ \A i \in 1 .. Len(pairs) : pairs[i][1] # x
      BY <2>1, MeaningOf DEF m
    <2>3. PICK i \in 1 .. Len(pairs) : pairs[i][1] = x
      BY <2>2
    <2>4. PICK j : IsLast(pairs, j) /\ pairs[j][1] = pairs[i][1]
      BY LastExists DEF Sent
    <2>5. m[x] = pairs[j][2]
      BY <2>3, <2>4, MeaningOf DEF m
    <2>6. IsLast(s, j) /\ j \in 1 .. Len(pairs)
      BY <2>4, SpelledLast DEF IsLast
    <2>7. s[j] = <<Spell[pairs[j][1]], Spell[pairs[j][2]]>>
      BY <2>6, SpelledEntries
    <2> HIDE DEF s
    <2>8. q = s[j]
      BY <2>1, <2>3, <2>4, <2>5, <2>7
    <2>9. QED
      BY <2>6, <2>8, FinalHolds
  <1> HIDE DEF A
  <1>3. Final(s) = A
    BY <1>1, <1>2
  <1>4. QED
    BY <1>3 DEF A

(*****************************************************************************)
(* An HMSET after another asks for the two merged.                           *)
(*****************************************************************************)
LEMMA BothSent ==
    ASSUME NEW p \in Sent, NEW q \in Sent
    PROVE  /\ p \o q \in Sent /\ Len(p \o q) = Len(p) + Len(q)
           /\ Len(p) \in Nat /\ Len(q) \in Nat
           /\ \A i \in 1 .. Len(p) : (p \o q)[i] = p[i]
           /\ \A j \in 1 .. Len(q) : (p \o q)[Len(p) + j] = q[j]
  <1>1. p \in Seq(Field \X Val) /\ q \in Seq(Field \X Val)
    BY DEF Sent
  <1>2. QED
    BY <1>1, ConcatElements DEF Sent

LEMMA BothMean ==
    ASSUME NEW p \in Sent, NEW q \in Sent
    PROVE  Meaning(p \o q) = Merge(Meaning(p), Meaning(q))
  <1> DEFINE b == p \o q
             m == Len(p)
             n == Len(q)
  <1>1. /\ b \in Sent /\ Len(b) = m + n /\ m \in Nat /\ n \in Nat
        /\ \A i \in 1 .. m : b[i] = p[i]
        /\ \A j \in 1 .. n : b[m + j] = q[j]
    BY BothSent
  <1> HIDE DEF b
  <1>2. \A i \in 1 .. m + n : i \in 1 .. m \/ (i - m \in 1 .. n /\ m + (i - m) = i)
    BY <1>1
  <1>3. ASSUME NEW x \in Field
        PROVE  Meaning(b)[x] =
                   IF Meaning(q)[x] = NoVal THEN Meaning(p)[x] ELSE Meaning(q)[x]
    <2>1. CASE \E j \in 1 .. n : q[j][1] = x
      <3>1. PICK i \in 1 .. n : q[i][1] = x
        BY <2>1
      <3>2. PICK j : IsLast(q, j) /\ q[j][1] = q[i][1]
        BY LastExists DEF Sent
      <3>3. j \in 1 .. n /\ \A k \in j + 1 .. n : q[k][1] # q[j][1]
        BY <3>2 DEF IsLast
      <3>4. Meaning(q)[x] = q[j][2] /\ q[j][2] # NoVal
        BY <3>1, <3>2, <3>3, MeaningOf, SentPair
      <3>5. b[m + j] = q[j] /\ m + j \in 1 .. m + n
        BY <1>1, <3>3
      <3>6. ASSUME NEW k \in (m + j) + 1 .. m + n PROVE b[k][1] # b[m + j][1]
        <4>1. k - m \in j + 1 .. n /\ k - m \in 1 .. n /\ m + (k - m) = k
          BY <1>1, <3>3
        <4>2. b[k] = q[k - m]
          BY <1>1, <4>1
        <4>3. QED
          BY <3>3, <3>5, <4>1, <4>2
      <3>7. IsLast(b, m + j)
        BY <1>1, <3>5, <3>6 DEF IsLast
      <3>8. Meaning(b)[x] = b[m + j][2]
        BY <1>1, <3>1, <3>2, <3>5, <3>7, MeaningOf
      <3>9. QED
        BY <3>4, <3>5, <3>8
    <2>2. CASE (\A j \in 1 .. n : q[j][1] # x) /\ \E i \in 1 .. m : p[i][1] = x
      <3>1. PICK i \in 1 .. m : p[i][1] = x
        BY <2>2
      <3>2. PICK j : IsLast(p, j) /\ p[j][1] = p[i][1]
        BY LastExists DEF Sent
      <3>3. j \in 1 .. m /\ \A k \in j + 1 .. m : p[k][1] # p[j][1]
        BY <3>2 DEF IsLast
      <3>4. Meaning(p)[x] = p[j][2]
        BY <3>1, <3>2, MeaningOf
      <3>5. Meaning(q)[x] = NoVal
        BY <2>2, MeaningOf
      <3>6. b[j] = p[j] /\ j \in 1 .. m + n
        BY <1>1, <3>3
      <3>7. ASSUME NEW k \in j + 1 .. m + n PROVE b[k][1] # b[j][1]
        <4>1. k \in 1 .. m + n
          BY <1>1, <3>3
        <4>2. CASE k \in 1 .. m
          <5>1. k \in j + 1 .. m
            BY <1>1, <3>3, <4>2
          <5>2. QED
            BY <1>1, <3>3, <3>6, <4>2, <5>1
        <4>3. CASE k - m \in 1 .. n /\ m + (k - m) = k
          <5>1. b[k] = q[k - m]
            BY <1>1, <4>3
          <5>2. QED
            BY <2>2, <3>1, <3>2, <3>6, <4>3, <5>1
        <4>4. QED
          BY <1>2, <4>1, <4>2, <4>3
      <3>8. IsLast(b, j)
        BY <1>1, <3>6, <3>7 DEF IsLast
      <3>9. Meaning(b)[x] = b[j][2]
        <4>1. b \in Sent /\ b[j][1] = x
          BY <1>1, <3>1, <3>2, <3>6
        <4>2. QED
          BY <3>8, <4>1, MeaningOf
      <3>10. QED
        BY <3>4, <3>5, <3>6, <3>9
    <2>3. CASE (\A j \in 1 .. n : q[j][1] # x) /\ \A i \in 1 .. m : p[i][1] # x
      <3>1. Meaning(q)[x] = NoVal /\ Meaning(p)[x] = NoVal
        BY <2>3, MeaningOf
      <3>2. ASSUME NEW i \in 1 .. m + n PROVE b[i][1] # x
        <4>1. CASE i \in 1 .. m
          BY <1>1, <2>3, <4>1
        <4>2. CASE i - m \in 1 .. n /\ m + (i - m) = i
          <5>1. b[i] = q[i - m]
            BY <1>1, <4>2
          <5>2. QED
            BY <2>3, <4>2, <5>1
        <4>3. QED
          BY <1>2, <4>1, <4>2
      <3>3. Meaning(b)[x] = NoVal
        BY <1>1, <3>2, MeaningOf
      <3>4. QED
        BY <3>1, <3>3
    <2>4. QED
      BY <2>1, <2>2, <2>3
  <1>4. Meaning(b) = [x \in Field |-> Meaning(b)[x]]
    BY DEF Meaning
  <1>5. QED
    BY <1>3, <1>4 DEF Merge, b

LEMMA BothSpelled ==
    ASSUME NEW p \in Sent, NEW q \in Sent
    PROVE  Spelled(p \o q) = Spelled(p) \o Spelled(q)
  <1> DEFINE b == p \o q
             m == Len(p)
             n == Len(q)
             s == Spelled(p)
             t == Spelled(q)
             u == Spelled(b)
  <1>1. /\ b \in Sent /\ Len(b) = m + n /\ m \in Nat /\ n \in Nat
        /\ \A i \in 1 .. m : b[i] = p[i]
        /\ \A j \in 1 .. n : b[m + j] = q[j]
    BY BothSent
  <1> HIDE DEF b
  <1>2. /\ s \in Seq(Entries) /\ Len(s) = m
        /\ \A i \in 1 .. m : s[i] = <<Spell[p[i][1]], Spell[p[i][2]]>>
    BY SpelledEntries
  <1>3. /\ t \in Seq(Entries) /\ Len(t) = n
        /\ \A i \in 1 .. n : t[i] = <<Spell[q[i][1]], Spell[q[i][2]]>>
    BY SpelledEntries
  <1>4. /\ u \in Seq(Entries) /\ Len(u) = m + n
        /\ \A i \in 1 .. m + n : u[i] = <<Spell[b[i][1]], Spell[b[i][2]]>>
    BY <1>1, SpelledEntries
  <1> HIDE DEF s, t, u
  <1>5. /\ s \o t \in Seq(Entries) /\ Len(s \o t) = Len(s) + Len(t)
        /\ \A i \in 1 .. Len(s) : (s \o t)[i] = s[i]
        /\ \A j \in 1 .. Len(t) : (s \o t)[Len(s) + j] = t[j]
    <2>1. s \in Seq(Entries) /\ t \in Seq(Entries)
      BY <1>2, <1>3
    <2>2. QED
      BY <2>1, ConcatElements
  <1>6. ASSUME NEW i \in 1 .. m + n PROVE u[i] = (s \o t)[i]
    <2>1. CASE i \in 1 .. m
      <3>1. b[i] = p[i] /\ (s \o t)[i] = s[i]
        <4>1. b[i] = p[i]
          BY <1>1, <2>1
        <4>2. i \in 1 .. Len(s)
          BY <1>2, <2>1
        <4>3. QED
          BY <1>5, <4>1, <4>2
      <3>2. QED
        BY <1>2, <1>4, <2>1, <3>1
    <2>2. CASE i - m \in 1 .. n /\ m + (i - m) = i
      <3>1. b[i] = q[i - m] /\ (s \o t)[i] = t[i - m]
        <4>1. b[m + (i - m)] = q[i - m]
          BY <1>1, <2>2
        <4>2. i - m \in 1 .. Len(t)
          BY <1>3, <2>2
        <4>3. (s \o t)[Len(s) + (i - m)] = t[i - m]
          BY <1>5, <4>2
        <4>4. QED
          BY <1>2, <2>2, <4>1, <4>3
      <3>2. QED
        BY <1>3, <1>4, <2>2, <3>1
    <2>3. i \in 1 .. m \/ (i - m \in 1 .. n /\ m + (i - m) = i)
      BY <1>1
    <2>4. QED
      BY <2>1, <2>2, <2>3
  <1>7. u = s \o t
    <2>1. Len(u) = Len(s \o t) /\ \A i \in 1 .. Len(u) : u[i] = (s \o t)[i]
      BY <1>2, <1>3, <1>4, <1>5, <1>6
    <2>2. QED
      BY <1>4, <1>5, <2>1, SeqEqual
  <1>8. QED
    BY <1>7 DEF u, s, t, b

(*****************************************************************************)
(* merge writes the entries of a map in any order: each once, and none else. *)
(*****************************************************************************)
LEMMA FinalCounts ==
    ASSUME NEW s \in Seq(Entries)
    PROVE  /\ Final(s) \subseteq Entries
           /\ IsFiniteSet(Final(s))
           /\ Cardinality(Final(s)) \in Nat
           /\ Cardinality(Final(s)) <= Len(s)
           /\ \A q \in Final(s) : \E i \in 1 .. Len(s) : q = s[i]
           /\ \A q, r \in Final(s) : q[1] = r[1] => q = r
  <1> DEFINE S == Final(s)
             n == Len(s)
             D == {i \in 1 .. n : IsLast(s, i)}
             f == [i \in D |-> s[i]]
  <1>1. n \in Nat
    OBVIOUS
  <1>2. S = {s[i] : i \in D}
    BY FinalHolds DEF IsLast
  <1>3. IsFiniteSet(1 .. n) /\ Cardinality(1 .. n) = n
    <2>1. IsFiniteSet(1 .. n) /\ Cardinality(1 .. n) = IF 1 > n THEN 0 ELSE n - 1 + 1
      BY <1>1, FS_Interval
    <2>2. QED
      BY <1>1, <2>1
  <1>4. IsFiniteSet(D) /\ Cardinality(D) <= n
    <2>1. D \in SUBSET (1 .. n)
      OBVIOUS
    <2> HIDE DEF D
    <2>2. QED
      BY <1>3, <2>1, FS_Subset
  <1>5. Cardinality(D) \in Nat
    BY <1>4, FS_CardinalityType
  <1>6. f \in Surjection(D, S)
    <2>1. f \in [D -> S]
      BY <1>2
    <2>2. \A q \in S : \E i \in D : f[i] = q
      BY <1>2
    <2> HIDE DEF S, D, f
    <2>3. QED
      BY <2>1, <2>2 DEF Surjection
  <1> HIDE DEF f
  <1>7. IsFiniteSet(S) /\ Cardinality(S) <= Cardinality(D)
    <2> HIDE DEF S, D
    <2>1. QED
      BY <1>4, <1>6, FS_Surjection
  <1>8. Cardinality(S) \in Nat
    BY <1>7, FS_CardinalityType
  <1>9. Cardinality(S) <= n
    BY <1>1, <1>4, <1>5, <1>7, <1>8
  <1>10. ASSUME NEW q \in S PROVE q \in Entries /\ \E i \in 1 .. n : q = s[i]
    BY <1>2
  <1>11. ASSUME NEW q \in S, NEW r \in S, q[1] = r[1] PROVE q = r
    <2>1. PICK i \in D : q = s[i]
      BY <1>2
    <2>2. PICK j \in D : r = s[j]
      BY <1>2
    <2>3. IsLast(s, i) /\ IsLast(s, j) /\ s[i][1] = s[j][1]
      BY <1>11, <2>1, <2>2
    <2>4. i = j
      BY <2>3, LastUnique
    <2>5. QED
      BY <2>1, <2>2, <2>4
  <1> HIDE DEF S, n
  <1>12. QED
    BY <1>7, <1>8, <1>9, <1>10, <1>11 DEF S, n

LEMMA OrderedOnce ==
    ASSUME NEW t \in Seq(Entries), NEW s \in SeqExt!SetToSeqs(Final(t))
    PROVE  /\ s \in Seq(Entries) /\ Len(s) <= Len(t)
           /\ \A i \in 1 .. Len(s) : s[i] \in Final(t)
           /\ Final(s) = Final(t)
           /\ Cardinality(Final(s)) = Len(s)
  <1> DEFINE S == Final(t)
             c == Cardinality(S)
  <1>1. /\ S \subseteq Entries /\ IsFiniteSet(S) /\ c \in Nat /\ c <= Len(t)
        /\ \A q, r \in S : q[1] = r[1] => q = r
    BY FinalCounts
  <1>2. s \in [1 .. c -> S] /\ \A i, j \in 1 .. c : i # j => s[i] # s[j]
    <2>1. s \in {f \in [1 .. c -> S] : \A i, j \in 1 .. c : i # j => f[i] # f[j]}
      <3>1. SeqExt!Cardinality(S) = c
        BY DEF SeqExt!Cardinality, Cardinality
      <3> HIDE DEF c
      <3>2. QED
        BY Zenon, <3>1 DEF SeqExt!SetToSeqs
    <2> HIDE DEF S, c
    <2>2. QED
      BY <2>1
  <1> HIDE DEF S, c
  <1>3. s \in Seq(Entries) /\ Len(s) = c
    <2>1. s \in [1 .. c -> Entries]
      BY <1>1, <1>2
    <2>2. QED
      BY <1>1, <2>1
  <1>4. IsFiniteSet(1 .. c) /\ Cardinality(1 .. c) = c
    <2>1. IsFiniteSet(1 .. c) /\ Cardinality(1 .. c) = IF 1 > c THEN 0 ELSE c - 1 + 1
      BY <1>1, FS_Interval
    <2>2. QED
      BY <1>1, <2>1
  <1>5. s \in Injection(1 .. c, S)
    BY <1>2 DEF Injection, IsInjective
  <1>6. s \in Surjection(1 .. c, S)
    BY <1>1, <1>4, <1>5, FS_Injection DEF c
  <1>7. \A q \in S : \E i \in 1 .. c : s[i] = q
    BY <1>6 DEF Surjection
  <1>8. ASSUME NEW i \in 1 .. c PROVE IsLast(s, i)
    <2>1. ASSUME NEW k \in i + 1 .. c PROVE s[k][1] # s[i][1]
      <3>1. k \in 1 .. c /\ k # i
        BY <1>1
      <3>2. s[k] \in S /\ s[i] \in S /\ s[k] # s[i]
        BY <1>2, <3>1
      <3>3. QED
        BY <1>1, <3>2
    <2>2. QED
      BY <1>3, <2>1 DEF IsLast
  <1>9. ASSUME NEW q PROVE q \in Final(s) <=> q \in S
    <2>1. ASSUME q \in Final(s) PROVE q \in S
      <3>1. PICK i : IsLast(s, i) /\ q = s[i]
        BY <2>1, FinalHolds
      <3>2. i \in 1 .. c
        BY <1>3, <3>1 DEF IsLast
      <3>3. QED
        BY <1>2, <3>1, <3>2
    <2>2. ASSUME q \in S PROVE q \in Final(s)
      <3>1. PICK i \in 1 .. c : s[i] = q
        BY <1>7, <2>2
      <3>2. QED
        BY <1>8, <3>1, FinalHolds
    <2>3. QED
      BY <2>1, <2>2
  <1>10. Final(s) = S
    BY <1>9
  <1>11. QED
    BY <1>1, <1>2, <1>3, <1>10 DEF S, c

(*****************************************************************************)
(* The bytes of a field or of a value, and the number of fields a hash gets  *)
(* from two HMSETs, are below 4 GiB: a length is a u32.                      *)
(*****************************************************************************)
SpellingsFit ==
    /\ \A x \in Field \cup Val : FitsU32(Len(Spell[x]))
    /\ \A n \in 0 .. 2 * MaxPairs : FitsU32(n)

LEMMA SpelledFit ==
    ASSUME SpellingsFit, NEW pairs \in Sent
    PROVE  \A i \in 1 .. Len(pairs) : EntryFits(Spelled(pairs)[i])
  <1>1. ASSUME NEW i \in 1 .. Len(pairs) PROVE EntryFits(Spelled(pairs)[i])
    <2>1. pairs[i][1] \in Field \cup Val /\ pairs[i][2] \in Field \cup Val
      BY SentPair
    <2>2. Spelled(pairs)[i] = <<Spell[pairs[i][1]], Spell[pairs[i][2]]>>
      BY SpelledEntries
    <2>3. /\ Spelled(pairs)[i][1] = Spell[pairs[i][1]]
          /\ Spelled(pairs)[i][2] = Spell[pairs[i][2]]
      BY <2>2
    <2>4. FitsU32(Len(Spell[pairs[i][1]])) /\ FitsU32(Len(Spell[pairs[i][2]]))
      BY <2>1 DEF SpellingsFit
    <2>5. QED
      BY <2>3, <2>4 DEF EntryFits
  <1>2. QED
    BY <1>1

LEMMA PairListSent ==
    ASSUME NEW pairs \in PairLists
    PROVE  pairs \in Sent /\ Len(pairs) \in 0 .. MaxPairs
  <1>1. PICK n \in 1 .. MaxPairs : pairs \in [1 .. n -> Field \X Val]
    BY DEF PairLists
  <1>2. MaxPairs \in Nat
    BY FlatHashAssumption
  <1>3. n \in Nat /\ n \in 0 .. MaxPairs
    BY <1>2
  <1>4. pairs \in Seq(Field \X Val) /\ Len(pairs) = n
    BY <1>1, <1>3
  <1>5. QED
    BY <1>3, <1>4 DEF Sent

(*****************************************************************************)
(* What an HMSET packs by itself reads back as what it means; and so does    *)
(* what a further one makes of it.                                           *)
(*****************************************************************************)
LEMMA OneReadsBack ==
    ASSUME SpellingsFit, NEW pairs \in PairLists
    PROVE  /\ Answers(Serialize(Spelled(pairs)), Meaning(pairs))
           /\ Parse(Serialize(Spelled(pairs))) = Spelled(pairs)
           /\ ~ Len(Serialize(Spelled(pairs))) < 4
  <1> DEFINE s == Spelled(pairs)
             buf == Serialize(s)
  <1>1. pairs \in Sent /\ Len(pairs) \in 0 .. MaxPairs /\ MaxPairs \in Nat
    BY PairListSent, FlatHashAssumption
  <1>2. s \in Seq(Entries) /\ Len(s) = Len(pairs)
    BY <1>1, SpelledEntries
  <1>3. \A i \in 1 .. Len(s) : EntryFits(s[i])
    BY <1>1, <1>2, SpelledFit
  <1>4. FitsU32(Len(s))
    <2>1. Len(pairs) \in 0 .. 2 * MaxPairs
      BY <1>1
    <2>2. QED
      BY <1>2, <2>1 DEF SpellingsFit
  <1> HIDE DEF s
  <1>5. Len(buf) >= 4 /\ FromBigEndian(buf, 1) = Len(s) /\ Parse(buf) = s
    BY <1>2, <1>3, <1>4, PackedReadsBack
  <1>6. ~ Len(buf) < 4
    <2>1. Len(pairs) \in Nat
      BY <1>1
    <2>2. QED
      BY <1>5
  <1>7. Final(s) = {<<Spell[x], Spell[Meaning(pairs)[x]]>> :
                        x \in {y \in Field : Meaning(pairs)[y] # NoVal}}
    BY <1>1, FinalSpelled DEF s
  <1> HIDE DEF buf
  <1>8. Announced(buf) = 2 * Len(Parse(buf))
    BY <1>5, <1>6 DEF Announced
  <1>9. Answers(buf, Meaning(pairs))
    BY <1>5, <1>7, <1>8 DEF Answers
  <1>10. QED
    BY <1>5, <1>6, <1>9 DEF buf, s

LEMMA TwoReadBack ==
    ASSUME SpellingsFit, NEW pairs \in PairLists, NEW new \in PairLists,
           NEW both \in MergeBuffers(Serialize(Spelled(pairs)), Spelled(new))
    PROVE  /\ Answers(both, Merge(Meaning(pairs), Meaning(new)))
           /\ Cardinality(Final(Parse(both))) = Len(Parse(both))
  <1> DEFINE p == pairs \o new
             t == Spelled(p)
             buf == Serialize(Spelled(pairs))
  <1>1. /\ pairs \in Sent /\ Len(pairs) \in 0 .. MaxPairs
        /\ new \in Sent /\ Len(new) \in 0 .. MaxPairs
        /\ MaxPairs \in Nat
    BY PairListSent, FlatHashAssumption
  <1>2. /\ p \in Sent /\ Len(p) = Len(pairs) + Len(new)
        /\ Meaning(p) = Merge(Meaning(pairs), Meaning(new))
        /\ t = Spelled(pairs) \o Spelled(new)
    BY <1>1, BothSent, BothMean, BothSpelled
  <1>3. ~ Len(buf) < 4 /\ Parse(buf) = Spelled(pairs)
    BY OneReadsBack
  <1> HIDE DEF p, t, buf
  <1>4. MergeBuffers(buf, Spelled(new)) =
            {Serialize(s) : s \in SeqExt!SetToSeqs(Final(t))}
    BY <1>2, <1>3 DEF MergeBuffers
  <1>5. PICK s \in SeqExt!SetToSeqs(Final(t)) : both = Serialize(s)
    BY <1>4 DEF buf
  <1>6. t \in Seq(Entries) /\ Len(t) = Len(p)
    BY <1>2, SpelledEntries DEF t
  <1>7. /\ s \in Seq(Entries) /\ Len(s) <= Len(t)
        /\ \A i \in 1 .. Len(s) : s[i] \in Final(t)
        /\ Final(s) = Final(t)
        /\ Cardinality(Final(s)) = Len(s)
    BY <1>6, OrderedOnce
  <1>8. ASSUME NEW i \in 1 .. Len(s) PROVE EntryFits(s[i])
    <2>1. \A q \in Final(t) : \E j \in 1 .. Len(t) : q = t[j]
      BY <1>6, FinalCounts
    <2>2. PICK j \in 1 .. Len(t) : s[i] = t[j]
      BY <1>7, <2>1
    <2>3. \A k \in 1 .. Len(p) : EntryFits(t[k])
      BY <1>2, SpelledFit DEF t
    <2>4. QED
      BY <1>6, <2>2, <2>3
  <1>9. FitsU32(Len(s))
    <2>1. Len(s) \in Nat
      BY <1>7
    <2>2. Len(s) \in 0 .. 2 * MaxPairs
      BY <1>1, <1>2, <1>6, <1>7, <2>1
    <2>3. QED
      BY <2>2 DEF SpellingsFit
  <1>10. Len(both) >= 4 /\ FromBigEndian(both, 1) = Len(s) /\ Parse(both) = s
    BY <1>5, <1>7, <1>8, <1>9, PackedReadsBack
  <1>11. Final(t) = {<<Spell[x], Spell[Meaning(p)[x]]>> :
                         x \in {y \in Field : Meaning(p)[y] # NoVal}}
    BY <1>2, FinalSpelled DEF t
  <1>12. Announced(both) = 2 * Len(Parse(both))
    <2>1. ASSUME Len(both) < 4 PROVE Len(s) = 0
      BY <1>10, <2>1
    <2>2. QED
      BY <1>10, <2>1 DEF Announced
  <1>13. Answers(both, Meaning(p))
    BY <1>7, <1>10, <1>11, <1>12 DEF Answers
  <1>14. QED
    BY <1>2, <1>7, <1>10, <1>13

(*****************************************************************************)
(* Every hash in memory reads back from its packed bytes as the fields it    *)
(* has, with as many entries as HGETALL announces, and so it does after any  *)
(* further HMSET (hash_engine.rs:7-102): as long as every length and count   *)
(* is a u32.                                                                 *)
(*****************************************************************************)
THEOREM PackedHashesCorrect ==
    ASSUME SpellingsFit
    PROVE  GatewaySpec => []PackedHashesReadBack
  <1>1. ASSUME NEW pairs \in PairLists PROVE ~ ReadsWrong(pairs)
    <2> DEFINE buf == Serialize(Spelled(pairs))
    <2>1. Answers(buf, Meaning(pairs))
      BY OneReadsBack
    <2>2. \A new \in PairLists : \A both \in MergeBuffers(buf, Spelled(new)) :
              /\ Answers(both, Merge(Meaning(pairs), Meaning(new)))
              /\ Cardinality(Final(Parse(both))) = Len(Parse(both))
      BY TwoReadBack
    <2>3. QED
      BY <2>1, <2>2 DEF ReadsWrong
  <1>2. Misread = {}
    BY <1>1 DEF Misread
  <1>3. PackedHashesReadBack
    BY <1>2 DEF PackedHashesReadBack
  <1>4. QED
    BY <1>3, PTL
=============================================================================
