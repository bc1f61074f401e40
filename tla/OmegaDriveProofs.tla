-------------------------- MODULE OmegaDriveProofs --------------------------
(*****************************************************************************)
(* The whole server, for every workload, number of workers, failed write and *)
(* crash: what the theorems about the gateway and about the persistence      *)
(* thread say of either part holds of the two joined by the channel, and     *)
(* together they say that a restart loses nothing that was committed, unless *)
(* the replay misreads a record cut short.                                   *)
(*****************************************************************************)
EXTENDS OmegaDrive, GatewayProofs

\* nothing is said of bytes here
PP == INSTANCE PersistenceNeuralProofs WITH
          Record <- {}, MaxSent <- 0, IntLimit <- 8, Spelling <- {}, FloatText <- <<<<48>>>>

(*****************************************************************************)
(* P and PP are instances of the same definitions: one with the steps of the *)
(* thread, one with what is known of them.                                   *)
(*****************************************************************************)
LEMMA SameCommands == PP!PersistenceCommand = PersistenceCommand
  BY DEF PP!PersistenceCommand, PersistenceCommand, PP!FlushRec, FlushRec,
         PP!FieldMap, FieldMap

LEMMA SameMisreads == P!Misread = PP!Misread
  BY DEF P!Misread, PP!Misread, P!PersistenceCommand, PP!PersistenceCommand,
         P!FlushRec, PP!FlushRec, P!FieldMap, PP!FieldMap

LEMMA SameStates == PP!FileState = [kv : [Key -> NeuralValue], vecs : [Key -> Nat]]
  BY DEF PP!FileState, PP!KvState, PP!VecState, PP!NeuralValue, NeuralValue, PP!Absent, Absent,
         PP!Encoding, Encoding, PP!FieldMap, FieldMap

LEMMA SameApply ==
    ASSUME NEW kv, NEW r
    PROVE  PP!ApplyKv(kv, r) = ApplyKv(kv, r)
  BY DEF PP!ApplyKv, ApplyKv, PP!Str, Str, PP!Absent, Absent, PP!FlatHash, FlatHash,
         PP!HmSetOver, HmSetOver, PP!Merge, Merge

LEMMA SameReplay ==
    ASSUME NEW s
    PROVE  P!Replay(s) = PP!Replay(s)
  BY DEF P!Replay, PP!Replay, P!ReplayEntry, PP!ReplayEntry, P!After, PP!After, P!Empty, PP!Empty,
         P!Apply, PP!Apply, P!ApplyKv, PP!ApplyKv, P!ApplyVecs, PP!ApplyVecs,
         P!EmptyKv, PP!EmptyKv, P!EmptyVecs, PP!EmptyVecs, P!Str, PP!Str,
         P!Absent, PP!Absent, P!FlatHash, PP!FlatHash, P!HmSetOver, PP!HmSetOver,
         P!Merge, PP!Merge

LEMMA SameCrash == P!Crash => PP!Crash
  BY DEF P!Crash, PP!Crash, P!Survivors, PP!Survivors, P!Cut, PP!Cut, P!Torn, PP!Torn

LEMMA SameThread == P!ThreadNext => PP!ThreadNext
  BY DEF P!ThreadNext, PP!ThreadNext, P!OpenFile, PP!OpenFile, P!Drain, PP!Drain,
         P!Drained, PP!Drained, P!Commit, PP!Commit, P!Wait, PP!Wait,
         P!AfterWait, PP!AfterWait, P!WriteAll, PP!WriteAll, P!WriteFails, PP!WriteFails,
         P!Payload, PP!Payload, P!Whole, PP!Whole, P!Cut, PP!Cut, P!Torn, PP!Torn, P!SyncOk, PP!SyncOk,
         P!AfterCommit, PP!AfterCommit, P!SyncFails, PP!SyncFails

LEMMA SameInit == P!PersistenceInit => PP!PersistenceInit
  BY DEF P!PersistenceInit, PP!PersistenceInit

(*****************************************************************************)
(* What PersistenceNeuralProofs proves of the thread, of the thread of the   *)
(* system.                                                                   *)
(*****************************************************************************)
LEMMA ThreadConstants ==
    /\ {} \subseteq PP!PersistenceCommand
    /\ Misreads \subseteq PP!Misread
    /\ 0 \in Nat /\ MaxFaults \in Nat /\ MaxCrashes \in Nat
    /\ Unit \in Nat \ {0} /\ Grain \in Nat \ {0}
    /\ TopDrive \in Nat /\ StartDrive \in 0 .. TopDrive
    /\ Odds \in [0 .. TopDrive -> [Load -> 0 .. Unit]]
    /\ \A l \in Load :
          /\ Odds[0][l] = 0 /\ Odds[StartDrive][l] > 0
          /\ \A d, e \in 0 .. TopDrive : d <= e => Odds[d][l] <= Odds[e][l]
    /\ WriteTimes \subseteq Nat
    /\ NoVal \notin Val
    /\ 8 \in Nat /\ Len(PP!FLUSHDB) < 8
    /\ <<<<48>>>> \in Seq(Seq(0 .. 255)) /\ <<<<48>>>> # <<>> /\ 2 + Len(<<<<48>>>>) < 8
    /\ \A i \in 1 .. Len(<<<<48>>>>) : PP!Float(<<<<48>>>>[i]) /\ Len(<<<<48>>>>[i]) < 8
  <1>1. /\ {} \subseteq PP!PersistenceCommand
        /\ Misreads \subseteq PP!Misread
        /\ 0 \in Nat /\ MaxFaults \in Nat /\ MaxCrashes \in Nat
        /\ Unit \in Nat \ {0} /\ Grain \in Nat \ {0}
        /\ TopDrive \in Nat /\ StartDrive \in 0 .. TopDrive
        /\ Odds \in [0 .. TopDrive -> [Load -> 0 .. Unit]]
        /\ \A l \in Load :
              /\ Odds[0][l] = 0 /\ Odds[StartDrive][l] > 0
              /\ \A d, e \in 0 .. TopDrive : d <= e => Odds[d][l] <= Odds[e][l]
        /\ WriteTimes \subseteq Nat
        /\ NoVal \notin Val
    BY SystemAssumption, NoValAssumption, SameMisreads DEF P!PersistenceAssumption, P!PolicyAssumption
  <1>2. 8 \in Nat /\ Len(PP!FLUSHDB) < 8
    BY DEF PP!FLUSHDB
  <1>3. /\ <<<<48>>>> \in Seq(Seq(0 .. 255)) /\ <<<<48>>>> # <<>> /\ 2 + Len(<<<<48>>>>) < 8
        /\ \A i \in 1 .. Len(<<<<48>>>>) : <<<<48>>>>[i] = <<48>>
    OBVIOUS
  <1>4. PP!Float(<<48>>) /\ Len(<<48>>) < 8
    BY DEF PP!Float, PP!Digit
  <1> QED
    BY <1>1, <1>2, <1>3, <1>4

LEMMA ThreadInit ==
    ASSUME P!PersistenceInit
    PROVE  PP!RecoveryInv /\ PP!LogKv = EmptyKv
  <1>1. PP!PersistenceInit => PP!RecoveryInv
    BY ThreadConstants, PP!RecoveryInit DEF PP!RecoveryInit
  <1>2. PP!PersistenceInit => PP!LogKv = PP!EmptyKv
    BY ThreadConstants, PP!LogEmpty DEF PP!LogEmpty
  <1>3. PP!EmptyKv = EmptyKv
    BY DEF PP!EmptyKv, EmptyKv, PP!Absent, Absent
  <1>4. QED
    BY <1>1, <1>2, <1>3, SameInit

LEMMA ThreadAccepts ==
    ASSUME PP!RecoveryInv, NEW r \in PersistenceCommand, PP!Accept(r)
    PROVE  PP!RecoveryInv' /\ PP!LogKv' = ApplyKv(PP!LogKv, r)
  <1>1. r \in PP!PersistenceCommand
    BY SameCommands
  <1>2. PP!RecoveryInv'
    BY <1>1, ThreadConstants, PP!RecoveryAccept DEF PP!RecoveryAccept
  <1>3. PP!LogKv' = PP!ApplyKv(PP!LogKv, r)
    BY <1>1, ThreadConstants, PP!LogGrows DEF PP!LogGrows
  <1>4. QED
    BY <1>2, <1>3, SameApply

LEMMA ThreadSteps ==
    ASSUME PP!RecoveryInv, P!ThreadNext
    PROVE  PP!RecoveryInv' /\ PP!LogKv' = PP!LogKv
  <1>1. PP!ThreadNext
    BY SameThread
  <1>3. PP!RecoveryInv'
    BY <1>1, ThreadConstants, PP!RecoveryStep DEF PP!RecoveryStep, PP!PersistenceNext
  <1>4. PP!LogKv' = PP!LogKv
    BY <1>1, ThreadConstants, PP!LogLeft DEF PP!LogLeft
  <1>5. QED
    BY <1>3, <1>4

LEMMA ThreadRestarts ==
    ASSUME PP!RecoveryInv, P!Crash
    PROVE  /\ PP!RecoveryInv'
           /\ PP!LogKv' = P!Replay(file').kv
           /\ P!Replay(file').kv \in [Key -> NeuralValue]
           /\ P!Replay(file').vecs \in [Key -> Nat]
  <1>1. PP!Crash
    BY SameCrash
  <1>3. PP!RecoveryInv'
    BY <1>1, ThreadConstants, PP!RecoveryStep DEF PP!RecoveryStep, PP!PersistenceNext
  <1>4. PP!LogKv' = PP!Replay(file').kv /\ PP!Replay(file') \in PP!FileState
    BY <1>1, <1>3, ThreadConstants, PP!LogFound DEF PP!LogFound
  <1>5. P!Replay(file') = PP!Replay(file')
    BY SameReplay
  <1>6. QED
    BY <1>3, <1>4, <1>5, SameStates

LEMMA ThreadRecovers ==
    ASSUME PP!RecoveryInv, ~ P!InCommit, committed = Len(sent), P!CutsRecognised(file)
    PROVE  P!Recovered.kv = PP!LogKv
  <1>1. ~ PP!InCommit /\ PP!CutsRecognised(file)
    BY DEF P!InCommit, PP!InCommit, P!CutsRecognised, PP!CutsRecognised
  <1>2. PP!Recovered.kv = PP!LogKv
    BY <1>1, ThreadConstants, PP!LogRecovered DEF PP!LogRecovered
  <1>3. QED
    BY <1>2, SameReplay DEF P!Recovered, PP!Recovered

LEMMA ThreadIdles ==
    ASSUME PP!RecoveryInv, UNCHANGED PP!persistenceVars
    PROVE  PP!RecoveryInv' /\ PP!LogKv' = PP!LogKv
  <1>2. PP!RecoveryInv'
    BY ThreadConstants, PP!RecoveryStep DEF PP!RecoveryStep
  <1>3. PP!LogKv' = PP!LogKv
    BY DEF PP!persistenceVars, PP!LogKv, PP!AtBoot
  <1>4. QED
    BY <1>2, <1>3
-----------------------------------------------------------------------------
(*****************************************************************************)
(* A step of a worker sends one record, which the log gains, or none.        *)
(*****************************************************************************)
Sends(r) == chan' = Append(chan, r) /\ logKv' = ApplyKv(logKv, r)

LEMMA WorkerSends ==
    ASSUME TypeInv, NEW w \in Worker, Begin(w) \/ Execute(w)
    PROVE  \/ UNCHANGED <<chan, logKv>>
           \/ \E r \in PersistenceCommand : Sends(r)
  <1>1. CASE SendPair(w)
    <2>1. SetRec(Head(rest[w]).key, Head(rest[w]).val) \in PersistenceCommand
      BY <1>1, PairOfStep DEF SendPair, Storing
    <2>2. QED
      BY <1>1, <2>1 DEF SendPair, Send, Sends
  <1>2. CASE SendRecord(w)
    <2>1. RecordOf(cmd[w]) \in PersistenceCommand
      BY <1>2, RecordsLogged DEF SendRecord, TypeInv, Control
    <2>2. QED
      BY <1>2, <2>1 DEF SendRecord, Send, Sends
  <1>3. CASE ~ SendPair(w) /\ ~ SendRecord(w)
    BY <1>3 DEF Execute, Begin, InsertPair, PublishPair, Remove, AddVector, ReadHash,
                InsertHash, ClearShard, ClearVectors, Read
  <1>4. QED
    BY <1>1, <1>2, <1>3

(*****************************************************************************)
(* The inductive invariant: each part's own, and what joins them, that the   *)
(* log the workers wrote is the one the thread keeps.                        *)
(*****************************************************************************)
SystemInv == LogInv({}) /\ PP!RecoveryInv /\ logKv = PP!LogKv

LEMMA SystemInvInit ==
    ASSUME SystemInit
    PROVE  SystemInv
  <1>1. GatewayInit /\ P!PersistenceInit
    BY DEF SystemInit
  <1>2. LogInv({})
    BY <1>1, LogInit
  <1>3. logKv = EmptyKv
    BY <1>1 DEF GatewayInit
  <1>4. QED
    BY <1>1, <1>2, <1>3, ThreadInit DEF SystemInv

LEMMA ThreadTypes ==
    ASSUME PP!RecoveryInv
    PROVE  chan \in Seq(PersistenceCommand) /\ sent \in Seq(PersistenceCommand)
  BY SameCommands DEF PP!RecoveryInv, PP!DurableInv, PP!PersistenceTypeOK

LEMMA SystemWorker ==
    ASSUME SystemInv, NEW w \in Worker, WorkerStep(w)
    PROVE  SystemInv'
  <1>1. /\ TypeInv /\ LogInv({}) /\ PP!RecoveryInv /\ logKv = PP!LogKv
        /\ Begin(w) \/ Execute(w)
    BY DEF SystemInv, LogInv, WorkerStep
  <1>2. LogInv({})'
    BY <1>1, LogStep DEF GatewayNext
  <1>3. chan \in Seq(PersistenceCommand) /\ sent \in Seq(PersistenceCommand)
    BY <1>1, ThreadTypes
  <1>4. CASE UNCHANGED <<chan, logKv>>
    <2>1. SubSeq(chan, Len(chan) + 1, Len(chan)) = <<>> /\ sent \o <<>> = sent
      BY <1>3
    <2>2. chan' = chan /\ sent' = sent
      BY <1>4, <2>1 DEF WorkerStep
    <2>3. UNCHANGED <<batch, npc, drive, prob, file, synced, committed, boot, faults, crashes>>
      BY DEF WorkerStep
    <2>4. UNCHANGED PP!persistenceVars
      BY <2>2, <2>3 DEF PP!persistenceVars
    <2>5. QED
      BY <1>1, <1>2, <1>4, <2>4, ThreadIdles DEF SystemInv
  <1>5. CASE \E r \in PersistenceCommand : Sends(r)
    <2>1. PICK r \in PersistenceCommand : Sends(r)
      BY <1>5
    <2>2. SubSeq(Append(chan, r), Len(chan) + 1, Len(Append(chan, r))) = <<r>>
      <3>1. /\ Append(chan, r) \in Seq(PersistenceCommand) /\ Len(chan) \in Nat
            /\ Len(Append(chan, r)) = Len(chan) + 1
            /\ Append(chan, r)[Len(chan) + 1] = r
        BY <1>3
      <3>2. ASSUME NEW s \in Seq(PersistenceCommand), NEW n \in Nat, Len(s) = n + 1
            PROVE  SubSeq(s, n + 1, n + 1) = <<s[n + 1]>>
        <4>1. n + 1 \in 1 .. Len(s) /\ n + 1 \in n + 1 .. Len(s)
          BY <3>2
        <4>2. SubSeq(s, n + 1, n + 1) = <<s[n + 1]>> \o SubSeq(s, (n + 1) + 1, n + 1)
          BY <4>1, SubSeqRecursiveFirst
        <4>3. SubSeq(s, (n + 1) + 1, n + 1) = <<>>
          BY SubSeqEmpty
        <4>4. <<s[n + 1]>> \in Seq(PersistenceCommand)
          BY <4>1
        <4>5. QED
          BY <4>2, <4>3, <4>4, ConcatEmptySeq
      <3>3. QED
        BY <3>1, <3>2
    <2>3. sent \o <<r>> = Append(sent, r)
      BY <1>3
    <2>4. PP!Accept(r)
      BY <2>1, <2>2, <2>3 DEF Sends, WorkerStep, PP!Accept
    <2>5. PP!RecoveryInv' /\ PP!LogKv' = ApplyKv(PP!LogKv, r)
      BY <1>1, <2>4, ThreadAccepts
    <2>6. QED
      BY <1>1, <1>2, <2>1, <2>5 DEF SystemInv, Sends
  <1>6. UNCHANGED <<chan, logKv>> \/ \E r \in PersistenceCommand : Sends(r)
    BY <1>1, WorkerSends
  <1>7. QED
    BY <1>4, <1>5, <1>6

LEMMA SystemThread ==
    ASSUME SystemInv, ThreadStep
    PROVE  SystemInv'
  <1>1. PP!RecoveryInv' /\ PP!LogKv' = PP!LogKv
    BY ThreadSteps DEF SystemInv, ThreadStep
  <1>2. chan' \in Seq(PersistenceCommand)
    BY <1>1, SameCommands DEF PP!RecoveryInv, PP!DurableInv, PP!PersistenceTypeOK
  <1>3. UNCHANGED workerVars /\ TypeInv /\ Assigned
    BY DEF ThreadStep, SystemInv, LogInv
  <1>4. \A u \in Worker : SameEntries(u)
    BY <1>3 DEF workerVars, SameEntries
  <1>5. TypeInv'
    <2>1. GatewayTypeOK'
      BY <1>2, <1>3 DEF workerVars, TypeInv, GatewayTypeOK
    <2>2. \A u \in Worker : Control(u)'
      BY <1>3, <1>4, ControlKept DEF SameEntries, TypeInv
    <2>3. QED
      BY <2>1, <2>2 DEF TypeInv
  <1>6. Assigned'
    BY <1>3 DEF workerVars, Assigned
  <1>7. ASSUME NEW k \in Utf8Key
        PROVE  LogAt(k, {})'
    <2>1. LogAt(k, {})
      BY DEF SystemInv, LogInv
    <2>2. \A u \in Worker : /\ Pending(u, k)' = Pending(u, k)
                           /\ Hashing(u, k)' = Hashing(u, k)
      BY <1>4, PartsKept
    <2>3. QED
      BY <1>3, <1>4, <2>1, <2>2 DEF LogAt, workerVars, SameEntries, OneWriter
  <1>8. QED
    BY <1>1, <1>3, <1>5, <1>6, <1>7 DEF SystemInv, LogInv, workerVars

LEMMA SystemCrash ==
    ASSUME SystemInv, CrashAndReplay
    PROVE  SystemInv'
  <1>1. /\ PP!RecoveryInv' /\ PP!LogKv' = P!Replay(file').kv
        /\ P!Replay(file').kv \in [Key -> NeuralValue]
        /\ P!Replay(file').vecs \in [Key -> Nat]
    BY ThreadRestarts DEF SystemInv, CrashAndReplay
  <1>2. chan' \in Seq(PersistenceCommand) /\ issued' = issued /\ issued \in Nat
    BY <1>1, SameCommands DEF PP!RecoveryInv, PP!DurableInv, PP!PersistenceTypeOK,
                              CrashAndReplay, SystemInv, LogInv, TypeInv, GatewayTypeOK
  <1>3. /\ db' = P!Replay(file').kv /\ logKv' = db' /\ vecs' = P!Replay(file').vecs
        /\ \A w \in Worker : pc'[w] = "idle"
    BY DEF CrashAndReplay
  <1>4. GatewayTypeOK'
    <2>1. /\ db' \in [Key -> NeuralValue] /\ logKv' \in [Key -> NeuralValue]
          /\ vecs' \in [Key -> Nat] /\ chan' \in Seq(PersistenceCommand) /\ issued' \in Nat
      BY <1>1, <1>2, <1>3
    <2>2. /\ topic' \in [Key -> {NoTopic} \cup [kind : {"str"}, val : Val]]
          /\ pc' \in [Worker -> Steps]
          /\ cmd' \in [Worker -> Command \cup {NoCmd}]
          /\ rest' \in [Worker -> Seq(Pair)]
          /\ merged' \in [Worker -> FieldMap]
          /\ shard' \in [Worker -> 0 .. NumShards]
          /\ lastRec' \in [Worker -> [Key -> PersistenceCommand \cup {NoRec}]]
      BY GatewayAssumption DEF CrashAndReplay, Steps, NoFields, FieldMap
    <2>3. QED
      BY <2>1, <2>2 DEF GatewayTypeOK
  <1>5. TypeInv' /\ Assigned'
    BY <1>3, <1>4 DEF TypeInv, Control, Assigned, Storing
  <1>6. ASSUME NEW k \in Utf8Key
        PROVE  LogAt(k, {})'
    <2>1. \A w \in Worker : Pending(w, k)' = NoRec /\ ~ Hashing(w, k)'
      BY <1>3 DEF Pending, Unsent, Hashing
    <2>2. db'[k] = logKv'[k]
      BY <1>3
    <2>3. QED
      BY <2>1, <2>2 DEF LogAt
  <1>7. QED
    BY <1>1, <1>3, <1>5, <1>6 DEF SystemInv, LogInv

LEMMA SystemStep ==
    ASSUME SystemInv, [SystemNext]_systemVars
    PROVE  SystemInv'
  <1>1. CASE UNCHANGED systemVars
    <2>1. UNCHANGED gatewayVars /\ UNCHANGED PP!persistenceVars
      BY <1>1 DEF systemVars, threadVars, gatewayVars, PP!persistenceVars
    <2>2. LogInv({})'
      BY <2>1, LogStep DEF SystemInv
    <2>3. QED
      BY <2>1, <2>2, ThreadIdles DEF SystemInv, gatewayVars
  <1>2. QED
    BY <1>1, SystemWorker, SystemThread, SystemCrash DEF SystemNext

LEMMA SystemAlways == SystemSpec => []SystemInv
  <1>1. SystemInit => SystemInv
    BY SystemInvInit
  <1>2. SystemInv /\ [SystemNext]_systemVars => SystemInv'
    BY SystemStep
  <1>3. QED
    BY <1>1, <1>2, PTL DEF SystemSpec

(*****************************************************************************)
(* As long as each key has one worker whose clients write it: once the       *)
(* workers are idle and the thread has committed all they sent, a restart    *)
(* brings back what the clients see, after any commands, retries, crashes    *)
(* and earlier restarts, unless the replay misreads a cut record in the file *)
(* (main.rs:178-243, 391, persistence_neural.rs:270-327).                    *)
(*****************************************************************************)
THEOREM RestartCorrect ==
    ASSUME \A k \in Utf8Key : OneWriter(k)
    PROVE  SystemSpec => []RestartKeepsKeyspace
  <1>1. ASSUME SystemInv
        PROVE  RestartKeepsKeyspace
    <2>1. SUFFICES ASSUME \A w \in Worker : pc[w] = "idle",
                          committed = Len(sent), ~ P!InCommit, P!CutsRecognised(file),
                          NEW k \in Utf8Key
                   PROVE  Content(db[k]) = Content(P!Recovered.kv[k])
      BY DEF RestartKeepsKeyspace, Agrees
    <2>2. P!Recovered.kv = logKv
      BY <1>1, <2>1, ThreadRecovers DEF SystemInv
    <2>3. \A w \in Worker : Pending(w, k) = NoRec
      BY <2>1 DEF Pending, Unsent
    <2>4. LogAt(k, {})
      BY <1>1 DEF SystemInv, LogInv
    <2>5. QED
      BY <2>2, <2>3, <2>4 DEF LogAt
  <1>2. QED
    BY <1>1, SystemAlways, PTL

(*****************************************************************************)
(* A restart leaves memory and log in agreement: what GatewayProofs shows of *)
(* the gateway alone, that on a key with one writer memory is what the log   *)
(* asks for, holds of the server across its restarts, for the log as the     *)
(* replays read it.                                                          *)
(*****************************************************************************)
THEOREM SystemMemoryMatchesLog == SystemSpec => []MemoryMatchesLog
  <1>1. ASSUME SystemInv
        PROVE  MemoryMatchesLog
    <2>1. SUFFICES ASSUME NEW k \in Utf8Key, OneWriter(k), AtRest(k)
                   PROVE  Content(db[k]) = Content(logKv[k])
      BY DEF MemoryMatchesLog
    <2>2. \A w \in Worker : Pending(w, k) = NoRec
      BY <1>1, <2>1, AtRestNothingPending DEF SystemInv
    <2>3. LogAt(k, {})
      BY <1>1 DEF SystemInv, LogInv
    <2>4. QED
      BY <2>1, <2>2, <2>3 DEF LogAt
  <1>2. QED
    BY <1>1, SystemAlways, PTL
=============================================================================
