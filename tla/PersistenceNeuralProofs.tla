---------------------- MODULE PersistenceNeuralProofs ----------------------
(*****************************************************************************)
(* For every set of keys, values and records, whatever a replay makes of a   *)
(* record cut short, and for every bound: the persistence thread keeps its   *)
(* types, drops nothing between the channel and the file, has every          *)
(* committed record in the synced part of the file, in order, and implements *)
(* DurableLog; and what a replay recovers of a file in which it misreads no  *)
(* cut record.  At the end, the bytes of the file: what the thread wrote is  *)
(* what the parser reads, whatever it holds, and a record cut short costs at *)
(* most the one behind it, if no argument holds a "*".                       *)
(*****************************************************************************)
EXTENDS LogBytes, Induction, FiniteSetTheorems

LEMMA PayloadType ==
    ASSUME PersistenceTypeOK
    PROVE  /\ Payload \in Seq(Entry)
           /\ Len(Payload) = Len(batch)
           /\ \A i \in 1 .. Len(batch) : Payload[i] = Whole(batch[i])
<1>1. Len(batch) \in Nat /\ \A i \in 1 .. Len(batch) : batch[i] \in PersistenceCommand
    BY DEF PersistenceTypeOK
<1>2. \A i \in 1 .. Len(batch) : Whole(batch[i]) \in Entry
    BY <1>1 DEF Whole, Entry
<1> QED
    BY <1>1, <1>2 DEF Payload

LEMMA CutType ==
    ASSUME NEW r \in PersistenceCommand, NEW e \in Cut(r)
    PROVE  e \in Entry
BY PersistenceAssumption DEF Cut, Entry, Torn

LEMMA SurvivorType ==
    ASSUME PersistenceTypeOK, NEW s \in Survivors
    PROVE  s \in Seq(Entry)
<1>1. CASE \E n \in synced .. Len(file) : s = SubSeq(file, 1, n)
    BY <1>1 DEF PersistenceTypeOK
<1>2. CASE \E n \in synced .. Len(file) - 1 :
              \E e \in Cut(file[n + 1].rec) : s = Append(SubSeq(file, 1, n), e)
    <2>1. PICK n \in synced .. Len(file) - 1 :
              \E e \in Cut(file[n + 1].rec) : s = Append(SubSeq(file, 1, n), e)
        BY <1>2
    <2>2. file[n + 1].rec \in PersistenceCommand
        <3>1. n + 1 \in 1 .. Len(file) /\ file \in Seq(Entry)
            BY DEF PersistenceTypeOK
        <3>2. file[n + 1] \in Entry
            BY <3>1
        <3> QED
            BY <3>2 DEF Entry, Misread
    <2>3. PICK e \in Entry : s = Append(SubSeq(file, 1, n), e)
        BY <2>1, <2>2, CutType
    <2>4. SubSeq(file, 1, n) \in Seq(Entry)
        BY DEF PersistenceTypeOK
    <2> QED
        BY <2>3, <2>4
<1> QED
    BY <1>1, <1>2 DEF Survivors

(*****************************************************************************)
(* Learning keeps the inclination on its scale.                              *)
(*****************************************************************************)
LEMMA QuotientType ==
    ASSUME NEW m \in Nat, NEW n \in Nat \ {0}
    PROVE  m \div n \in Nat
OBVIOUS

LEMMA ProductType ==
    ASSUME NEW m \in Nat, NEW n \in Nat
    PROVE  m * n \in Nat
OBVIOUS

LEMMA AfterWaitType ==
    ASSUME NEW d \in 0 .. TopDrive, NEW pr \in 0 .. Unit, NEW q \in Nat
    PROVE  AfterWait(d, pr, q) \in 0 .. TopDrive
<1>1. pr \in Nat /\ Grain \in Nat \ {0} /\ TopDrive \in Nat
    BY PolicyAssumption
<1>2. pr * q \in Nat
    BY <1>1, ProductType
<1> DEFINE gain == (pr * q) \div Grain
<1>3. gain \in Nat
    BY <1>1, <1>2, QuotientType
<1>4. AfterWait(d, pr, q) = IF d + gain > TopDrive THEN TopDrive ELSE d + gain
    BY DEF AfterWait
<1> HIDE DEF gain
<1> QED
    BY <1>1, <1>3, <1>4

LEMMA AfterCommitType ==
    ASSUME NEW d \in 0 .. TopDrive, NEW pr \in 0 .. Unit, NEW q \in Nat, NEW ms \in Nat
    PROVE  AfterCommit(d, pr, q, ms) \in 0 .. TopDrive
<1>1. Unit - pr \in Nat /\ Grain \in Nat \ {0} /\ TopDrive \in Nat /\ 2 * q + ms \in Nat
    BY PolicyAssumption
<1>2. (Unit - pr) * (2 * q + ms) \in Nat
    BY <1>1, ProductType
<1> DEFINE loss == ((Unit - pr) * (2 * q + ms)) \div Grain
<1>3. loss \in Nat
    BY <1>1, <1>2, QuotientType
<1>4. AfterCommit(d, pr, q, ms) = IF loss > d THEN 0 ELSE d - loss
    BY DEF AfterCommit
<1> HIDE DEF loss
<1> QED
    BY <1>1, <1>3, <1>4

(*****************************************************************************)
(* Type correctness is inductive by itself.                                  *)
(*****************************************************************************)
LEMMA TypeStep ==
    ASSUME PersistenceTypeOK, [PersistenceNext]_persistenceVars
    PROVE  PersistenceTypeOK'
<1> USE DEF PersistenceTypeOK
<1>1. CASE Enqueue
    BY <1>1, PersistenceAssumption DEF Enqueue
<1>2. CASE OpenFile
    BY <1>2 DEF OpenFile
<1>3. CASE Drain
    BY <1>3 DEF Drain
<1>4. CASE Drained
    <2>1. prob' \in 0 .. Unit
        BY <1>4, PolicyAssumption DEF Drained
    <2>2. npc' \in {"poll", "decide"}
        BY <1>4 DEF Drained
    <2> QED
        BY <1>4, <2>1, <2>2 DEF Drained
<1>5. CASE Commit
    BY <1>5 DEF Commit
<1>6. CASE Wait
    <2>1. drive' \in 0 .. TopDrive
        BY <1>6, AfterWaitType DEF Wait
    <2> QED
        BY <1>6, <2>1, PolicyAssumption DEF Wait
<1>7. CASE WriteAll
    <2>1. file' \in Seq(Entry)
        BY <1>7, PayloadType DEF WriteAll
    <2> QED
        BY <1>7, <2>1 DEF WriteAll
<1>8. CASE WriteFails
    <2>1. PICK n \in 0 .. Len(batch) - 1 :
              \E part \in {<<>>} \cup {<<e>> : e \in Cut(batch[n + 1])} :
                  file' = file \o SubSeq(Payload, 1, n) \o part
        BY <1>8 DEF WriteFails
    <2>2. batch[n + 1] \in PersistenceCommand
        BY <2>1
    <2>3. PICK part \in {<<>>} \cup {<<e>> : e \in Cut(batch[n + 1])} :
              file' = file \o SubSeq(Payload, 1, n) \o part
        BY <2>1
    <2>4. part \in Seq(Entry)
        <3>1. CASE part = <<>>
            BY <3>1
        <3>2. ASSUME NEW e \in Cut(batch[n + 1]), part = <<e>>
              PROVE  part \in Seq(Entry)
            BY <3>2, <2>2, CutType
        <3> QED
            BY <3>1, <3>2
    <2>5. SubSeq(Payload, 1, n) \in Seq(Entry)
        BY <2>1, PayloadType
    <2>6. file' \in Seq(Entry)
        BY <2>3, <2>4, <2>5
    <2> QED
        BY <1>8, <2>6 DEF WriteFails
<1>9. CASE SyncOk
    <2>1. drive' \in 0 .. TopDrive
        BY <1>9, AfterCommitType, PolicyAssumption DEF SyncOk
    <2> QED
        BY <1>9, <2>1, PolicyAssumption DEF SyncOk
<1>10. CASE SyncFails
    BY <1>10 DEF SyncFails
<1>11. CASE Crash
    <2>1. file' \in Seq(Entry)
        BY <1>11, SurvivorType DEF Crash
    <2> QED
        BY <1>11, <2>1, PolicyAssumption DEF Crash
<1>12. CASE UNCHANGED persistenceVars
    BY <1>12 DEF persistenceVars
<1> QED
    BY <1>1, <1>2, <1>3, <1>4, <1>5, <1>6, <1>7, <1>8, <1>9, <1>10, <1>11, <1>12
    DEF PersistenceNext, ThreadNext

(*****************************************************************************)
(* The thread's variables always have the types PersistenceTypeOK gives.     *)
(*****************************************************************************)
THEOREM PersistenceTypeCorrect == PersistenceSpec => []PersistenceTypeOK
<1>1. PersistenceInit => PersistenceTypeOK
    BY PolicyAssumption DEF PersistenceInit, PersistenceTypeOK
<1>2. PersistenceTypeOK /\ [PersistenceNext]_persistenceVars => PersistenceTypeOK'
    BY TypeStep
<1> QED
    BY <1>1, <1>2, PTL DEF PersistenceSpec
-----------------------------------------------------------------------------
(*****************************************************************************)
(* NothingDropped, index by index: what was sent is what was committed, then *)
(* the batch, then the channel.                                              *)
(*****************************************************************************)
Accounted ==
    /\ Len(sent) = committed + Len(batch) + Len(chan)
    /\ \A i \in 1 .. Len(batch) : sent[committed + i] = batch[i]
    /\ \A i \in 1 .. Len(chan) : sent[committed + Len(batch) + i] = chan[i]

(*****************************************************************************)
(* After a write the batch is the end of the file, behind everything synced  *)
(* and everything an earlier process wrote.                                  *)
(*****************************************************************************)
BatchWritten ==
    npc = "sync" =>
        /\ boot + Len(batch) <= Len(file)
        /\ synced + Len(batch) <= Len(file)
        /\ \A i \in 1 .. Len(batch) : file[Len(file) - Len(batch) + i] = Whole(batch[i])

(*****************************************************************************)
(* The strengthening of CommittedIsDurable that the steps preserve: it needs *)
(* to know where the batch that the next fsync commits lies, and that the    *)
(* batch is what comes next in the log.                                      *)
(*****************************************************************************)
DurableInv ==
    /\ PersistenceTypeOK
    /\ Accounted
    /\ BatchWritten
    /\ boot <= Len(file)
    /\ synced <= Len(file)
    /\ CommittedIsDurable

LEMMA DurableInit == PersistenceInit => DurableInv
<1> SUFFICES ASSUME PersistenceInit PROVE DurableInv
    OBVIOUS
<1> USE DEF PersistenceInit
<1>1. PersistenceTypeOK
    BY PolicyAssumption DEF PersistenceTypeOK
<1>2. Accounted /\ BatchWritten
    BY DEF Accounted, BatchWritten
<1>3. CommittedIsDurable
    <2> DEFINE p == [i \in 1 .. committed |-> boot + 1]
    <2>1. p \in [1 .. committed -> boot + 1 .. synced] /\ Embeds(p)
        BY DEF Embeds
    <2> QED
        BY <2>1 DEF CommittedIsDurable
<1> QED
    BY <1>1, <1>2, <1>3 DEF DurableInv

(*****************************************************************************)
(* A step that only lengthens the file, keeps what is synced and leaves the  *)
(* log of committed records alone leaves them where they are.                *)
(*****************************************************************************)
LEMMA DurableKept ==
    ASSUME PersistenceTypeOK, PersistenceTypeOK', CommittedIsDurable,
           synced <= Len(file), synced' = synced, boot' = boot, committed' = committed,
           \A i \in 1 .. Len(file) : file'[i] = file[i],
           committed <= Len(sent),
           \A i \in 1 .. Len(sent) : sent'[i] = sent[i]
    PROVE  CommittedIsDurable'
<1>1. PICK p \in [1 .. committed -> boot + 1 .. synced] : Embeds(p)
    BY DEF CommittedIsDurable
<1>2. \A i \in 1 .. committed : p[i] \in 1 .. Len(file) /\ i \in 1 .. Len(sent)
    BY SMTT(30) DEF PersistenceTypeOK
<1>3. Embeds(p)'
    BY <1>1, <1>2 DEF Embeds
<1> QED
    BY <1>1, <1>3 DEF CommittedIsDurable
(*****************************************************************************)
(* The fsync: the batch at the end of the file extends the embedding.        *)
(*****************************************************************************)
LEMMA DurableSyncOk ==
    ASSUME DurableInv, SyncOk, PersistenceTypeOK'
    PROVE  CommittedIsDurable'
<1> USE DEF DurableInv
<1>1. PICK p \in [1 .. committed -> boot + 1 .. synced] : Embeds(p)
    BY DEF CommittedIsDurable
<1> DEFINE first == Len(file) - Len(batch)
           q == [i \in 1 .. committed' |-> IF i <= committed THEN p[i]
                                                             ELSE first + (i - committed)]
<1>2. /\ file' = file /\ sent' = sent /\ boot' = boot
      /\ synced' = Len(file) /\ committed' = committed + Len(batch)
    BY DEF SyncOk
<1>3. /\ npc = "sync"
      /\ committed \in Nat /\ synced \in Nat /\ boot \in Nat
      /\ Len(file) \in Nat /\ Len(batch) \in Nat
    BY DEF SyncOk, PersistenceTypeOK
<1>4. first \in Nat /\ boot <= first /\ synced <= first
    BY <1>3 DEF BatchWritten
<1>5. \A i \in 1 .. committed : p[i] \in boot + 1 .. synced
    OBVIOUS
<1>6. q \in [1 .. committed' -> boot' + 1 .. synced']
    BY <1>2, <1>3, <1>4, <1>5, SMTT(30)
<1>7. \A i \in 1 .. committed' : file[q[i]] = Whole(sent[i])
    <2> TAKE i \in 1 .. committed'
    <2>1. CASE i <= committed
        BY <2>1, <1>1, <1>2, <1>3 DEF Embeds
    <2>2. CASE i > committed
        <3>1. PICK j \in 1 .. Len(batch) : i = committed + j
            BY <2>2, <1>2, <1>3
        <3>2. sent[i] = batch[j]
            BY <3>1 DEF Accounted
        <3>3. file[first + j] = Whole(batch[j])
            BY <1>3 DEF BatchWritten
        <3>4. q[i] = first + j
            BY <2>2, <3>1, <1>3
        <3> QED
            BY <3>2, <3>3, <3>4
    <2> QED
        BY <2>1, <2>2, <1>2, <1>3
<1>8. \A i, j \in 1 .. committed' : i < j => q[i] < q[j]
    BY <1>1, <1>2, <1>3, <1>4, <1>5, SMTT(30) DEF Embeds
<1>9. \E r \in [1 .. committed' -> boot' + 1 .. synced'] :
          /\ \A i \in 1 .. committed' : file'[r[i]] = Whole(sent'[i])
          /\ \A i, j \in 1 .. committed' : i < j => r[i] < r[j]
    <2> HIDE DEF q
    <2> QED
        BY <1>2, <1>6, <1>7, <1>8
<1>10. PICK r \in [1 .. committed' -> boot' + 1 .. synced'] :
          /\ \A i \in 1 .. committed' : file'[r[i]] = Whole(sent'[i])
          /\ \A i, j \in 1 .. committed' : i < j => r[i] < r[j]
    BY <1>9
<1>11. Embeds(r)'
    BY <1>10 DEF Embeds, Whole
<1> QED
    BY <1>10, <1>11 DEF CommittedIsDurable

(*****************************************************************************)
(* A write, whole or cut short, leaves in place what the file holds.         *)
(*****************************************************************************)
LEMMA FileGrows ==
    ASSUME PersistenceTypeOK, WriteAll \/ WriteFails
    PROVE  Len(file) <= Len(file') /\ \A i \in 1 .. Len(file) : file'[i] = file[i]
<1>1. file \in Seq(Entry) /\ Payload \in Seq(Entry)
    BY PayloadType DEF PersistenceTypeOK
<1>2. CASE WriteAll
    BY <1>1, <1>2 DEF WriteAll
<1>3. CASE WriteFails
    <2>1. PICK n \in 0 .. Len(batch) - 1 :
              \E part \in {<<>>} \cup {<<e>> : e \in Cut(batch[n + 1])} :
                  file' = file \o SubSeq(Payload, 1, n) \o part
        BY <1>3 DEF WriteFails
    <2>2. PICK part \in {<<>>} \cup {<<e>> : e \in Cut(batch[n + 1])} :
              file' = file \o SubSeq(Payload, 1, n) \o part
        BY <2>1
    <2>3. \E S : part \in Seq(S)
        <3>1. CASE part = <<>>
            BY <3>1
        <3>2. ASSUME NEW e \in Cut(batch[n + 1]), part = <<e>>
              PROVE  part \in Seq({e})
            BY <3>2
        <3> QED
            BY <3>1, <3>2
    <2>4. SubSeq(Payload, 1, n) \in Seq(Entry)
        BY PayloadType DEF PersistenceTypeOK
    <2> QED
        BY <2>2, <2>3, <2>4, <1>1
<1> QED
    BY <1>2, <1>3

(*****************************************************************************)
(* A crash leaves a prefix of the file, not shorter than the synced part.    *)
(*****************************************************************************)
LEMMA SurvivorKeeps ==
    ASSUME PersistenceTypeOK, NEW s \in Survivors
    PROVE  \E n \in synced .. Len(file) :
               n <= Len(s) /\ \A i \in 1 .. n : s[i] = file[i]
<1>1. file \in Seq(Entry) /\ Len(file) \in Nat /\ synced \in Nat
    BY DEF PersistenceTypeOK
<1>2. PICK n \in synced .. Len(file) :
          \/ s = SubSeq(file, 1, n)
          \/ \E e \in Cut(file[n + 1].rec) : s = Append(SubSeq(file, 1, n), e)
    <2>1. CASE s \in {SubSeq(file, 1, n) : n \in synced .. Len(file)}
        BY <2>1
    <2>2. CASE s \in UNION {{Append(SubSeq(file, 1, n), e) : e \in Cut(file[n + 1].rec)}
                                : n \in synced .. Len(file) - 1}
        <3>1. PICK n \in synced .. Len(file) - 1 :
                  s \in {Append(SubSeq(file, 1, n), e) : e \in Cut(file[n + 1].rec)}
            BY <2>2
        <3>2. n \in synced .. Len(file)
            BY <1>1
        <3>3. \E e \in Cut(file[n + 1].rec) : s = Append(SubSeq(file, 1, n), e)
            BY <3>1
        <3> QED
            BY <3>2, <3>3
    <2> QED
        BY <2>1, <2>2 DEF Survivors
<1>3. /\ SubSeq(file, 1, n) \in Seq(Entry) /\ Len(SubSeq(file, 1, n)) = n
      /\ \A i \in 1 .. n : SubSeq(file, 1, n)[i] = file[i]
    BY <1>1
<1>4. n <= Len(s) /\ \A i \in 1 .. n : s[i] = file[i]
    BY <1>1, <1>2, <1>3
<1> QED
    BY <1>4

(*****************************************************************************)
(* tx.send, whoever sends and whatever: Enqueue without its bounds.          *)
(*****************************************************************************)
Accept(r) ==
    /\ chan' = Append(chan, r)
    /\ sent' = Append(sent, r)
    /\ UNCHANGED <<drive, prob, batch, npc, file, synced, committed, boot, faults, crashes>>

LEMMA DurableAccept ==
    ASSUME DurableInv, NEW r \in PersistenceCommand, Accept(r)
    PROVE  DurableInv'
<1> USE DEF DurableInv
<1>1. UNCHANGED <<batch, npc, file, synced, committed, boot>> /\ PersistenceTypeOK'
    BY DEF Accept, PersistenceTypeOK
<1>2. /\ committed \in Nat /\ synced \in Nat /\ boot \in Nat
      /\ Len(file) \in Nat /\ Len(batch) \in Nat /\ Len(chan) \in Nat /\ Len(sent) \in Nat
      /\ committed <= Len(sent)
    BY DEF PersistenceTypeOK, Accounted
<1>3. /\ Len(sent') = Len(sent) + 1 /\ Len(chan') = Len(chan) + 1
      /\ \A i \in 1 .. Len(sent) : sent'[i] = sent[i]
      /\ \A i \in 1 .. Len(chan) : chan'[i] = chan[i]
      /\ sent'[Len(sent) + 1] = r /\ chan'[Len(chan) + 1] = r
    BY <1>2 DEF Accept, PersistenceTypeOK
<1>4. Accounted'
    <2>1. Len(sent') = committed' + Len(batch') + Len(chan')
        BY <1>1, <1>3, <1>2 DEF Accounted
    <2>2. ASSUME NEW i \in 1 .. Len(batch') PROVE sent'[committed' + i] = batch'[i]
        <3>1. i \in 1 .. Len(batch) /\ committed + i \in 1 .. Len(sent)
            BY <1>1, <1>2 DEF Accounted
        <3> QED
            BY <3>1, <1>1, <1>3 DEF Accounted
    <2>3. ASSUME NEW i \in 1 .. Len(chan')
          PROVE  sent'[committed' + Len(batch') + i] = chan'[i]
        <3>1. CASE i <= Len(chan)
            <4>1. /\ i \in 1 .. Len(chan)
                  /\ committed + Len(batch) + i \in 1 .. Len(sent)
                BY <3>1, <1>2 DEF Accounted
            <4> QED
                BY <4>1, <1>1, <1>3 DEF Accounted
        <3>2. CASE i = Len(chan) + 1
            <4>1. committed + Len(batch) + i = Len(sent) + 1
                BY <3>2, <1>2 DEF Accounted
            <4> QED
                BY <4>1, <3>2, <1>1, <1>3
        <3> QED
            BY <3>1, <3>2, <1>3, <1>2
    <2> QED
        BY <2>1, <2>2, <2>3 DEF Accounted
<1>5. CommittedIsDurable'
    BY <1>1, <1>2, <1>3, DurableKept
<1> QED
    BY <1>1, <1>4, <1>5 DEF BatchWritten

LEMMA DurableStep ==
    ASSUME DurableInv, [PersistenceNext]_persistenceVars
    PROVE  DurableInv'
<1> USE DEF DurableInv
<1>1. PersistenceTypeOK'
    BY TypeStep
<1>2. /\ committed \in Nat /\ synced \in Nat /\ boot \in Nat
      /\ Len(file) \in Nat /\ Len(batch) \in Nat /\ Len(chan) \in Nat /\ Len(sent) \in Nat
      /\ committed <= Len(sent)
    BY DEF PersistenceTypeOK, Accounted
<1>3. ASSUME UNCHANGED <<batch, npc, file, synced, committed, boot>>, Accounted',
             \A i \in 1 .. Len(sent) : sent'[i] = sent[i]
      PROVE  DurableInv'
    <2>1. CommittedIsDurable'
        BY <1>1, <1>2, <1>3, DurableKept
    <2> QED
        BY <1>1, <1>3, <2>1 DEF BatchWritten
<1>4. CASE Enqueue
    <2>1. PICK r \in Record : Accept(r)
        BY <1>4 DEF Enqueue, Accept
    <2>2. r \in PersistenceCommand
        BY PersistenceAssumption
    <2> QED
        BY <2>1, <2>2, DurableAccept
<1>5. CASE OpenFile \/ Drained \/ Commit \/ Wait
    <2>1. /\ UNCHANGED <<chan, batch, file, synced, sent, committed, boot>>
          /\ npc' # "sync"
        BY <1>5 DEF OpenFile, Drained, Commit, Wait
    <2>2. CommittedIsDurable'
        BY <2>1, <1>1, <1>2, DurableKept
    <2> QED
        BY <2>1, <2>2, <1>1 DEF Accounted, BatchWritten
<1>6. CASE Drain
    <2>0. /\ sent' = sent /\ committed' = committed
          /\ Len(batch') = Len(batch) + 1 /\ Len(chan') = Len(chan) - 1
          /\ \A i \in 1 .. Len(batch) : batch'[i] = batch[i]
          /\ batch'[Len(batch) + 1] = chan[1]
          /\ \A i \in 1 .. Len(chan) - 1 : chan'[i] = chan[i + 1]
        BY <1>6, <1>2 DEF Drain, PersistenceTypeOK
    <2>1. Accounted'
        <3>1. Len(sent') = committed' + Len(batch') + Len(chan')
            <4>1. Len(sent) = committed + Len(batch) + Len(chan)
                BY DEF Accounted
            <4>2. Len(sent') = Len(sent) /\ committed' = committed
                BY <2>0
            <4>3. Len(batch') = Len(batch) + 1 /\ Len(chan') = Len(chan) - 1
                BY <2>0
            <4> HIDE DEF DurableInv
            <4> QED
                BY <4>1, <4>2, <4>3, <1>2
        <3>2. ASSUME NEW i \in 1 .. Len(batch') PROVE sent'[committed' + i] = batch'[i]
            <4>1. CASE i <= Len(batch)
                BY <4>1, <2>0, <1>2 DEF Accounted
            <4>2. CASE i = Len(batch) + 1
                <5>1. 1 \in 1 .. Len(chan)
                    BY <2>0, <1>6, <1>2 DEF Drain, PersistenceTypeOK
                <5>2. sent[committed + Len(batch) + 1] = chan[1]
                    BY <5>1 DEF Accounted
                <5>3. committed' + i = committed + Len(batch) + 1
                    BY <4>2, <2>0, <1>2
                <5> QED
                    BY <5>2, <5>3, <4>2, <2>0
            <4> QED
                BY <4>1, <4>2, <2>0, <1>2
        <3>3. ASSUME NEW i \in 1 .. Len(chan')
              PROVE  sent'[committed' + Len(batch') + i] = chan'[i]
            <4>1. i \in 1 .. Len(chan) - 1 /\ i + 1 \in 1 .. Len(chan)
                BY <2>0, <1>2
            <4>2. sent[committed + Len(batch) + (i + 1)] = chan[i + 1]
                BY <4>1 DEF Accounted
            <4>3. committed' + Len(batch') + i = committed + Len(batch) + (i + 1)
                BY <4>1, <2>0, <1>2
            <4> QED
                BY <4>1, <4>2, <4>3, <2>0
        <3> QED
            BY <3>1, <3>2, <3>3 DEF Accounted
    <2>2. CommittedIsDurable'
        BY <1>6, <1>1, <1>2, DurableKept DEF Drain
    <2>3. npc' = "poll" /\ UNCHANGED <<file, synced, boot>>
        BY <1>6 DEF Drain
    <2> QED
        BY <2>1, <2>2, <2>3, <1>1 DEF BatchWritten
<1>7. CASE WriteAll
    <2>1. /\ UNCHANGED <<chan, batch, synced, sent, committed, boot>>
          /\ npc' = "sync"
          /\ file' = file \o Payload
        BY <1>7 DEF WriteAll
    <2>2. /\ Len(file') = Len(file) + Len(batch)
          /\ \A i \in 1 .. Len(file) : file'[i] = file[i]
          /\ \A i \in 1 .. Len(batch) : file'[Len(file) + i] = Whole(batch[i])
        <3>1. /\ Payload \in Seq(Entry) /\ Len(Payload) = Len(batch)
              /\ \A i \in 1 .. Len(batch) : Payload[i] = Whole(batch[i])
            BY <1>2, PayloadType DEF Payload
        <3>2. file \in Seq(Entry)
            BY DEF PersistenceTypeOK
        <3> HIDE DEF DurableInv
        <3>0. /\ Len(file \o Payload) = Len(file) + Len(Payload)
              /\ \A i \in 1 .. Len(file) + Len(Payload) : (file \o Payload)[i] =
                      IF i <= Len(file) THEN file[i] ELSE Payload[i - Len(file)]
            BY <3>1, <3>2, ConcatProperties
        <3>3. Len(file') = Len(file) + Len(batch)
            BY <2>1, <3>0, <3>1
        <3>4. \A i \in 1 .. Len(file) : file'[i] = file[i]
            BY <2>1, <3>0, <3>1, <1>2
        <3>5. ASSUME NEW i \in 1 .. Len(batch)
              PROVE  file'[Len(file) + i] = Whole(batch[i])
            <4>1. /\ Len(file) + i \in 1 .. Len(file) + Len(Payload)
                  /\ Len(file) + i > Len(file) /\ (Len(file) + i) - Len(file) = i
                BY <3>1, <1>2
            <4>2. file'[Len(file) + i] = Payload[i]
                BY <4>1, <2>1, <3>0
            <4> QED
                BY <4>2, <3>1
        <3> QED
            BY <3>3, <3>4, <3>5
    <2>3. CommittedIsDurable'
        BY <2>1, <2>2, <1>1, <1>2, DurableKept
    <2>4. BatchWritten'
        BY <2>1, <2>2, <1>2 DEF BatchWritten
    <2> QED
        BY <2>1, <2>2, <2>3, <2>4, <1>1, <1>2 DEF Accounted
<1>8. CASE WriteFails
    <2>5. Len(file) <= Len(file') /\ \A i \in 1 .. Len(file) : file'[i] = file[i]
        BY <1>8, FileGrows
    <2>6. UNCHANGED <<chan, batch, npc, synced, sent, committed, boot>> /\ npc = "write"
        BY <1>8 DEF WriteFails
    <2>7. CommittedIsDurable'
        BY <2>5, <2>6, <1>1, <1>2, DurableKept
    <2> QED
        BY <2>5, <2>6, <2>7, <1>1, <1>2, SMTT(30) DEF Accounted, BatchWritten, PersistenceTypeOK
<1>9. CASE SyncOk
    <2>1. CommittedIsDurable'
        BY <1>9, <1>1, DurableSyncOk
    <2>2. Accounted'
        BY <1>9, <1>2 DEF SyncOk, Accounted
    <2>3. npc' = "poll" /\ file' = file /\ boot' = boot /\ synced' = Len(file)
        BY <1>9 DEF SyncOk
    <2> QED
        BY <2>1, <2>2, <2>3, <1>1, <1>2 DEF BatchWritten
<1>10. CASE SyncFails
    <2>1. /\ UNCHANGED <<chan, batch, file, synced, sent, committed, boot>>
          /\ npc' = "write"
        BY <1>10 DEF SyncFails
    <2>2. CommittedIsDurable'
        BY <2>1, <1>1, <1>2, DurableKept
    <2> QED
        BY <2>1, <2>2, <1>1 DEF Accounted, BatchWritten
<1>11. CASE Crash
    <2>1. /\ chan' = <<>> /\ batch' = <<>> /\ sent' = <<>> /\ npc' = "open"
          /\ committed' = 0 /\ boot' = Len(file') /\ synced' = synced
        BY <1>11 DEF Crash
    <2>2. Accounted' /\ BatchWritten'
        BY <2>1 DEF Accounted, BatchWritten
    <2>3. CommittedIsDurable'
        <3>1. PICK q \in [1 .. committed' -> boot' + 1 .. synced'] : TRUE
            <4> DEFINE q == [i \in 1 .. 0 |-> 1]
            <4>1. q \in [1 .. committed' -> boot' + 1 .. synced']
                BY <2>1
            <4> QED
                BY <4>1
        <3>2. Embeds(q)'
            BY <2>1 DEF Embeds
        <3> QED
            BY <3>2 DEF CommittedIsDurable
    <2>4. synced' <= Len(file') /\ boot' <= Len(file')
        <3>1. file' \in Survivors
            BY <1>11 DEF Crash
        <3>2. \E n \in synced .. Len(file) : n <= Len(file')
            BY <3>1, SurvivorKeeps
        <3> QED
            BY <3>2, <1>2, <1>1, <2>1 DEF PersistenceTypeOK
    <2> QED
        BY <2>2, <2>3, <2>4, <1>1
<1>12. CASE UNCHANGED persistenceVars
    <2>1. Accounted' /\ \A i \in 1 .. Len(sent) : sent'[i] = sent[i]
        BY <1>12 DEF persistenceVars, Accounted
    <2> QED
        BY <1>3, <1>12, <2>1 DEF persistenceVars
<1> QED
    BY <1>4, <1>5, <1>6, <1>7, <1>8, <1>9, <1>10, <1>11, <1>12
    DEF PersistenceNext, ThreadNext

(*****************************************************************************)
(* Accounted is NothingDropped, element by element.                          *)
(*****************************************************************************)
LEMMA AccountedSuffices ==
    ASSUME PersistenceTypeOK, Accounted
    PROVE  NothingDropped
<1> DEFINE head == SubSeq(sent, 1, committed)
<1>1. /\ committed \in Nat /\ Len(batch) \in Nat /\ Len(chan) \in Nat /\ Len(sent) \in Nat
      /\ sent \in Seq(PersistenceCommand) /\ batch \in Seq(PersistenceCommand) /\ chan \in Seq(PersistenceCommand)
      /\ Len(sent) = committed + Len(batch) + Len(chan)
    BY DEF PersistenceTypeOK, Accounted
<1>2. /\ head \in Seq(PersistenceCommand) /\ Len(head) = committed
      /\ \A i \in 1 .. committed : head[i] = sent[i]
    BY <1>1
<1> HIDE DEF head
<1>3. /\ head \o batch \in Seq(PersistenceCommand) /\ Len(head \o batch) = committed + Len(batch)
      /\ \A i \in 1 .. committed + Len(batch) : (head \o batch)[i] =
              IF i <= committed THEN head[i] ELSE batch[i - committed]
    <2>1. head \in Seq(PersistenceCommand) /\ Len(head) = committed
        BY <1>2
    <2>2. batch \in Seq(PersistenceCommand)
        BY <1>1
    <2> QED
        BY <2>1, <2>2, ConcatProperties
<1> DEFINE both == head \o batch
<1> HIDE DEF both
<1>4. both \in Seq(PersistenceCommand) /\ Len(both) = committed + Len(batch)
    BY <1>3 DEF both
<1>5. /\ both \o chan \in Seq(PersistenceCommand) /\ Len(both \o chan) = Len(sent)
      /\ \A i \in 1 .. Len(both) + Len(chan) : (both \o chan)[i] =
              IF i <= Len(both) THEN both[i] ELSE chan[i - Len(both)]
    BY <1>1, <1>4, ConcatProperties
<1>6. ASSUME NEW i \in 1 .. Len(sent) PROVE (both \o chan)[i] = sent[i]
    <2>0. /\ committed \in Nat /\ Len(batch) \in Nat /\ Len(chan) \in Nat
          /\ i \in Nat /\ 1 <= i /\ i <= committed + Len(batch) + Len(chan)
        BY <1>1
    <2>1. CASE i <= committed
        <3>1. i \in 1 .. committed /\ i <= Len(both)
            BY <2>1, <1>1, <1>4
        <3>2. (both \o chan)[i] = both[i] /\ both[i] = head[i]
            BY <3>1, <1>1, <1>3, <1>4, <1>5 DEF both
        <3> QED
            BY <3>1, <3>2, <1>2
    <2>2. CASE committed < i /\ i <= committed + Len(batch)
        <3>1. PICK j \in 1 .. Len(batch) : i = committed + j
            BY <2>2, <1>1
        <3>2. (both \o chan)[i] = both[i] /\ both[i] = batch[j]
            BY <2>2, <3>1, <1>1, <1>3, <1>4, <1>5 DEF both
        <3>3. sent[committed + j] = batch[j]
            BY DEF Accounted
        <3> QED
            BY <3>1, <3>2, <3>3
    <2>3. CASE committed + Len(batch) < i
        <3>1. PICK j \in 1 .. Len(chan) : i = committed + Len(batch) + j
            <4>1. i - (committed + Len(batch)) \in 1 .. Len(chan)
                BY <2>3, <2>0
            <4>2. i = committed + Len(batch) + (i - (committed + Len(batch)))
                BY <2>0
            <4> QED
                BY <4>1, <4>2
        <3>2. i \in 1 .. Len(both) + Len(chan) /\ ~ i <= Len(both) /\ i - Len(both) = j
            BY <2>3, <3>1, <1>1, <1>4
        <3>3. (both \o chan)[i] = chan[j]
            BY <3>2, <1>5
        <3>4. sent[committed + Len(batch) + j] = chan[j]
            BY DEF Accounted
        <3> QED
            BY <3>1, <3>3, <3>4
    <2>4. \/ i <= committed
          \/ committed < i /\ i <= committed + Len(batch)
          \/ committed + Len(batch) < i
        BY <2>0
    <2> QED
        BY <2>1, <2>2, <2>3, <2>4, Zenon
<1>7. sent = both \o chan
    <2> DEFINE t == both \o chan
    <2>1. t \in Seq(PersistenceCommand) /\ Len(sent) = Len(t)
        BY <1>5
    <2>2. \A i \in 1 .. Len(sent) : sent[i] = t[i]
        BY <1>6
    <2> HIDE DEF t
    <2>3. sent = t
        BY <1>1, <2>1, <2>2, SeqEqual
    <2> QED
        BY <2>3 DEF t
<1> QED
    BY <1>7 DEF NothingDropped, both, head

LEMMA DurableAlways == PersistenceSpec => []DurableInv
<1>1. PersistenceInit => DurableInv
    BY DurableInit
<1>2. DurableInv /\ [PersistenceNext]_persistenceVars => DurableInv'
    BY DurableStep
<1> QED
    BY <1>1, <1>2, PTL DEF PersistenceSpec

(*****************************************************************************)
(* No record is lost, duplicated or reordered between the channel and the    *)
(* commit, whatever writes and fsyncs fail.                                  *)
(*****************************************************************************)
THEOREM PersistenceDropsNothing == PersistenceSpec => []NothingDropped
<1>1. DurableInv => NothingDropped
    BY AccountedSuffices DEF DurableInv
<1> QED
    BY <1>1, DurableAlways, PTL

(*****************************************************************************)
(* What was committed is in the synced part of the file, in the order sent,  *)
(* for any number of failed writes, failed fsyncs and crashes.               *)
(*****************************************************************************)
THEOREM PersistenceIsDurable == PersistenceSpec => []CommittedIsDurable
<1>1. DurableInv => CommittedIsDurable
    BY DEF DurableInv
<1> QED
    BY <1>1, DurableAlways, PTL

(*****************************************************************************)
(* Two sequences that agree up to m have the same prefix of length m.        *)
(*****************************************************************************)
LEMMA SamePrefix ==
    ASSUME NEW S, NEW s \in Seq(S), NEW t \in Seq(S), NEW m \in Nat,
           m <= Len(s), m <= Len(t), \A i \in 1 .. m : s[i] = t[i]
    PROVE  SubSeq(s, 1, m) = SubSeq(t, 1, m)
<1>1. /\ SubSeq(s, 1, m) \in Seq(S) /\ Len(SubSeq(s, 1, m)) = m
      /\ \A i \in 1 .. m : SubSeq(s, 1, m)[i] = s[i]
    OBVIOUS
<1>2. /\ SubSeq(t, 1, m) \in Seq(S) /\ Len(SubSeq(t, 1, m)) = m
      /\ \A i \in 1 .. m : SubSeq(t, 1, m)[i] = t[i]
    OBVIOUS
<1> QED
    BY <1>1, <1>2, SeqEqual

(*****************************************************************************)
(* Every step leaves the synced prefix of the file in place.                 *)
(*****************************************************************************)
LEMMA PrefixStep ==
    ASSUME DurableInv, [PersistenceNext]_persistenceVars
    PROVE  /\ synced <= synced' /\ synced <= Len(file')
           /\ SubSeq(file', 1, synced) = SubSeq(file, 1, synced)
<1>1. /\ PersistenceTypeOK' /\ file \in Seq(Entry) /\ file' \in Seq(Entry)
      /\ synced \in Nat /\ Len(file) \in Nat /\ Len(file') \in Nat /\ synced <= Len(file)
    BY TypeStep, SMTT(30) DEF DurableInv, PersistenceTypeOK
<1>2. ASSUME file' = file, synced' = synced \/ synced' = Len(file)
      PROVE  /\ synced <= synced' /\ synced <= Len(file')
             /\ SubSeq(file', 1, synced) = SubSeq(file, 1, synced)
    BY <1>1, <1>2
<1>3. ASSUME synced' = synced, NEW m \in synced .. Len(file),
             m <= Len(file'), \A i \in 1 .. m : file'[i] = file[i]
      PROVE  /\ synced <= synced' /\ synced <= Len(file')
             /\ SubSeq(file', 1, synced) = SubSeq(file, 1, synced)
    <2>1. /\ synced <= Len(file') /\ synced <= Len(file)
          /\ \A i \in 1 .. synced : file'[i] = file[i]
        BY <1>1, <1>3
    <2> QED
        BY <1>1, <1>3, <2>1, SamePrefix
<1>4. CASE Enqueue \/ OpenFile \/ Drain \/ Drained \/ Commit \/ Wait \/ SyncOk \/ SyncFails
           \/ UNCHANGED persistenceVars
    <2>1. file' = file /\ (synced' = synced \/ synced' = Len(file))
        BY <1>4 DEF Enqueue, OpenFile, Drain, Drained, Commit, Wait, SyncOk, SyncFails,
                    persistenceVars
    <2> QED
        BY <1>2, <2>1
<1>5. CASE WriteAll \/ WriteFails
    <2>1. synced' = synced
        BY <1>5 DEF WriteAll, WriteFails
    <2>2. Len(file) <= Len(file') /\ \A i \in 1 .. Len(file) : file'[i] = file[i]
        BY <1>5, FileGrows DEF DurableInv
    <2> QED
        BY <1>1, <1>3, <2>1, <2>2
<1>6. CASE Crash
    <2>1. synced' = synced /\ file' \in Survivors
        BY <1>6 DEF Crash
    <2>2. PICK n \in synced .. Len(file) :
              n <= Len(file') /\ \A i \in 1 .. n : file'[i] = file[i]
        BY <2>1, SurvivorKeeps DEF DurableInv
    <2> QED
        BY <1>3, <2>1, <2>2
<1> QED
    BY <1>4, <1>5, <1>6 DEF PersistenceNext, ThreadNext

(*****************************************************************************)
(* What an fsync covered stays in the file, whatever fails or crashes.       *)
(*****************************************************************************)
THEOREM PersistenceKeepsPrefix == PersistenceSpec => DurablePrefixKept
<1>1. DurableInv /\ [PersistenceNext]_persistenceVars =>
          [/\ synced <= synced' /\ synced <= Len(file')
           /\ SubSeq(file', 1, synced) = SubSeq(file, 1, synced)]_persistenceVars
    BY PrefixStep
<1> QED
    BY <1>1, DurableAlways, PTL DEF PersistenceSpec, DurablePrefixKept
-----------------------------------------------------------------------------
(*****************************************************************************)
(* The refinement: a successful fsync settles the batch, an accepted command *)
(* is pending, a crash is a restart, and everything else the thread does,    *)
(* failed writes and fsyncs included, is invisible.                          *)
(*****************************************************************************)

(*****************************************************************************)
(* Facts about sequences.                                                    *)
(*****************************************************************************)
LEMMA ConcatAppend ==
    ASSUME NEW S, NEW s \in Seq(S), NEW t \in Seq(S), NEW e \in S
    PROVE  s \o Append(t, e) = Append(s \o t, e)
<1>1. <<e>> \in Seq(S) /\ s \o t \in Seq(S)
    OBVIOUS
<1>2. Append(t, e) = t \o <<e>> /\ Append(s \o t, e) = (s \o t) \o <<e>>
    BY <1>1, AppendIsConcat
<1>3. (s \o t) \o <<e>> = s \o (t \o <<e>>)
    BY <1>1, ConcatAssociative
<1> QED
    BY <1>2, <1>3

LEMMA MoveHead ==
    ASSUME NEW S, NEW s \in Seq(S), NEW t \in Seq(S), t # <<>>
    PROVE  Append(s, Head(t)) \o Tail(t) = s \o t
<1> DEFINE e == Head(t)
           u == Tail(t)
<1>1. e \in S /\ u \in Seq(S) /\ <<e>> \in Seq(S) /\ Len(t) \in Nat /\ 1 \in 1 .. Len(t)
    BY HeadTailProperties, EmptySeq
<1>2. t = <<e>> \o u
    <2>1. SubSeq(t, 1, Len(t)) = <<t[1]>> \o SubSeq(t, 1 + 1, Len(t))
        BY <1>1, SubSeqRecursiveFirst
    <2>2. SubSeq(t, 1, Len(t)) = t /\ Tail(t) = SubSeq(t, 2, Len(t)) /\ Head(t) = t[1]
        BY SubSeqFull, TailIsSubSeq
    <2> QED
        BY <2>1, <2>2
<1>3. Append(s, e) = s \o <<e>>
    BY <1>1, AppendIsConcat
<1> HIDE DEF e, u
<1>4. (s \o <<e>>) \o u = s \o (<<e>> \o u)
    BY <1>1, ConcatAssociative, SMTT(30)
<1> QED
    BY <1>2, <1>3, <1>4 DEF e, u

LEMMA SplitConcat ==
    ASSUME NEW S, NEW s \in Seq(S), NEW t \in Seq(S)
    PROVE  /\ SubSeq(s \o t, 1, Len(s)) = s
           /\ SubSeq(s \o t, Len(s) + 1, Len(s \o t)) = t
<1>1. /\ s \o t \in Seq(S) /\ Len(s) \in Nat /\ Len(t) \in Nat
      /\ Len(s \o t) = Len(s) + Len(t)
      /\ \A i \in 1 .. Len(s) + Len(t) : (s \o t)[i] =
              IF i <= Len(s) THEN s[i] ELSE t[i - Len(s)]
    BY ConcatProperties
<1> DEFINE w == s \o t
<1> HIDE DEF w
<1>2. /\ w \in Seq(S) /\ Len(w) = Len(s) + Len(t)
      /\ \A i \in 1 .. Len(s) : w[i] = s[i]
      /\ \A i \in 1 .. Len(t) : w[Len(s) + i] = t[i]
    <2>1. \A i \in 1 .. Len(t) : Len(s) + i \in 1 .. Len(s) + Len(t)
                                  /\ ~ Len(s) + i <= Len(s) /\ (Len(s) + i) - Len(s) = i
        BY <1>1
    <2>2. \A i \in 1 .. Len(s) : i \in 1 .. Len(s) + Len(t) /\ i <= Len(s)
        BY <1>1
    <2> QED
        BY <1>1, <2>1, <2>2 DEF w
<1> DEFINE head == SubSeq(w, 1, Len(s))
           rest == SubSeq(w, Len(s) + 1, Len(w))
<1>3. /\ head \in Seq(S) /\ Len(head) = Len(s)
      /\ \A i \in 1 .. Len(s) : head[i] = s[i]
    BY <1>1, <1>2
<1>4. /\ rest \in Seq(S) /\ Len(rest) = Len(t)
      /\ \A i \in 1 .. Len(t) : rest[i] = t[i]
    BY <1>1, <1>2
<1> HIDE DEF head, rest
<1>5. head = s
    BY <1>3, SeqEqual
<1>6. rest = t
    BY <1>4, SeqEqual
<1> QED
    BY <1>5, <1>6 DEF head, rest, w
-----------------------------------------------------------------------------
(*****************************************************************************)
(* A commit is never asked for without a record to write, so that an fsync   *)
(* always settles something (persistence_neural.rs:231-235).                 *)
(*****************************************************************************)
BatchAtHand == npc \in {"decide", "write", "sync"} => batch # <<>>

LEMMA BatchAtHandStep ==
    ASSUME BatchAtHand, [PersistenceNext]_persistenceVars
    PROVE  BatchAtHand'
<1>1. CASE Enqueue \/ Commit \/ Wait \/ WriteAll \/ WriteFails \/ SyncFails \/ UNCHANGED persistenceVars
    BY <1>1 DEF BatchAtHand, Enqueue, Commit, Wait, WriteAll, WriteFails, SyncFails,
                persistenceVars
<1>2. CASE OpenFile \/ Drain \/ Drained \/ SyncOk \/ Crash
    BY <1>2 DEF BatchAtHand, OpenFile, Drain, Drained, SyncOk, Crash
<1> QED
    BY <1>1, <1>2 DEF PersistenceNext, ThreadNext

RefinementInv == DurableInv /\ BatchAtHand

(*****************************************************************************)
(* A step after which the log's three parts are what they were.              *)
(*****************************************************************************)
LEMMA Invisible ==
    ASSUME DurableInv, PersistenceTypeOK', UNCHANGED <<sent, committed, synced>>,
           batch' \o chan' = batch \o chan,
           Len(file) <= Len(file'), \A i \in 1 .. Len(file) : file'[i] = file[i]
    PROVE  UNCHANGED Log!logVars
<1>1. /\ file \in Seq(Entry) /\ file' \in Seq(Entry) /\ Len(file) \in Nat /\ Len(file') \in Nat
      /\ synced \in Nat /\ synced <= Len(file)
    BY SMTT(30) DEF DurableInv, PersistenceTypeOK
<1>2. SubSeq(file', 1, synced) = SubSeq(file, 1, synced)
    BY <1>1, SamePrefix
<1> QED
    BY <1>2 DEF Log!logVars

LEMMA EnqueueAccepts ==
    ASSUME DurableInv, Enqueue
    PROVE  Log!Accept
<1>1. PICK r \in Record : chan' = Append(chan, r) /\ sent' = Append(sent, r)
    BY DEF Enqueue
<1>2. /\ r \in PersistenceCommand
      /\ batch \in Seq(PersistenceCommand) /\ chan \in Seq(PersistenceCommand)
      /\ sent \in Seq(PersistenceCommand) /\ committed \in Nat /\ committed <= Len(sent)
    BY PersistenceAssumption DEF DurableInv, PersistenceTypeOK, Accounted
<1>3. UNCHANGED <<batch, committed, file, synced>>
    BY DEF Enqueue
<1>4. batch' \o chan' = Append(batch \o chan, r)
    BY <1>1, <1>2, <1>3, ConcatAppend
<1>5. SubSeq(sent', 1, committed) = SubSeq(sent, 1, committed)
    <2>1. /\ sent' \in Seq(PersistenceCommand) /\ Len(sent') = Len(sent) + 1
          /\ \A i \in 1 .. Len(sent) : sent'[i] = sent[i]
        BY <1>1, <1>2, AppendProperties
    <2>2. committed <= Len(sent') /\ \A i \in 1 .. committed : sent'[i] = sent[i]
        BY <2>1, <1>2
    <2> QED
        BY <1>2, <2>1, <2>2, SamePrefix
<1> QED
    BY <1>2, <1>3, <1>4, <1>5 DEF Log!Accept

LEMMA SyncOkSettles ==
    ASSUME DurableInv, BatchAtHand, SyncOk
    PROVE  \E n \in 1 .. Len(batch \o chan) : Log!Settle(n)
<1> DEFINE n == Len(batch)
           pending == batch \o chan
           kept == SubSeq(file, 1, synced)
<1>1. /\ batch \in Seq(PersistenceCommand) /\ chan \in Seq(PersistenceCommand)
      /\ sent \in Seq(PersistenceCommand) /\ file \in Seq(Entry)
      /\ committed \in Nat /\ synced \in Nat /\ n \in Nat /\ Len(chan) \in Nat
      /\ Len(file) \in Nat /\ Len(sent) \in Nat /\ synced <= Len(file)
      /\ Len(sent) = committed + n + Len(chan)
    BY DEF DurableInv, PersistenceTypeOK, Accounted
<1>2. /\ npc = "sync" /\ batch' = <<>> /\ UNCHANGED <<chan, sent, file>>
      /\ synced' = Len(file) /\ committed' = committed + n
    BY DEF SyncOk
<1>3. n # 0
    BY <1>1, <1>2, EmptySeq DEF BatchAtHand
<1>4. /\ pending \in Seq(PersistenceCommand) /\ Len(pending) = n + Len(chan)
      /\ SubSeq(pending, 1, n) = batch /\ SubSeq(pending, n + 1, Len(pending)) = chan
      /\ \A i \in 1 .. n : pending[i] = batch[i]
    <2>1. Len(pending) = n + Len(chan) /\ \A i \in 1 .. n : pending[i] = batch[i]
        BY <1>1, ConcatProperties
    <2> QED
        BY <1>1, <2>1, SplitConcat
<1>5. batch' \o chan' = chan
    BY <1>1, <1>2, ConcatEmptySeq
<1>6. SubSeq(sent, 1, committed + n) = SubSeq(sent, 1, committed) \o batch
    <2>1. SubSeq(sent, 1, committed) \o SubSeq(sent, committed + 1, committed + n)
              = SubSeq(sent, 1, committed + n)
        <3>1. 1 \in 1 .. Len(sent) + 1 /\ committed \in 1 - 1 .. Len(sent)
              /\ committed + n \in committed .. Len(sent)
            BY <1>1
        <3> QED
            BY <1>1, <3>1, ConcatAdjacentSubSeq
    <2>2. SubSeq(sent, committed + 1, committed + n) = batch
        <3> DEFINE part == SubSeq(sent, committed + 1, committed + n)
        <3>1. part \in Seq(PersistenceCommand) /\ Len(part) = n
              /\ \A i \in 1 .. n : part[i] = sent[committed + i]
            BY <1>1, <1>3
        <3>2. \A i \in 1 .. n : part[i] = batch[i]
            BY <3>1 DEF DurableInv, Accounted
        <3> HIDE DEF part
        <3>3. part = batch
            BY <1>1, <3>1, <3>2, SeqEqual
        <3> QED
            BY <3>3 DEF part
    <2> QED
        BY <2>1, <2>2
<1>7. SubSeq(file', 1, synced') = file /\ Len(kept) = synced
    BY <1>1, <1>2, SubSeqFull
<1>8. /\ synced + n <= Len(file)
      /\ \A i \in 1 .. n : file[Len(file) - n + i] = Whole(batch[i])
    BY <1>2 DEF DurableInv, BatchWritten
<1>9. Log!Settle(n)
    <2>1. SubSeq(sent', 1, committed') = SubSeq(sent, 1, committed) \o SubSeq(pending, 1, n)
        BY <1>2, <1>4, <1>6
    <2>2. batch' \o chan' = SubSeq(pending, n + 1, Len(pending))
        BY <1>4, <1>5
    <2>3. Len(kept) + n <= Len(SubSeq(file', 1, synced'))
        BY <1>7, <1>8
    <2>4. SubSeq(SubSeq(file', 1, synced'), 1, Len(kept)) = kept
        BY <1>7
    <2>5. \A i \in 1 .. n : SubSeq(file', 1, synced')[Len(SubSeq(file', 1, synced')) - n + i]
                                = Whole(pending[i])
        BY <1>4, <1>7, <1>8
    <2> QED
        BY <2>1, <2>2, <2>3, <2>4, <2>5 DEF Log!Settle
<1> QED
    BY <1>1, <1>3, <1>4, <1>9

LEMMA CrashRestarts ==
    ASSUME DurableInv, Crash
    PROVE  Log!Restart
<1>1. /\ chan' = <<>> /\ batch' = <<>> /\ sent' = <<>> /\ committed' = 0 /\ synced' = synced
    BY DEF Crash
<1>2. SubSeq(file', 1, synced) = SubSeq(file, 1, synced)
    BY PrefixStep DEF PersistenceNext
<1>3. <<>> \o <<>> = <<>> /\ SubSeq(<<>>, 1, 0) = <<>>
    <2>1. <<>> \in Seq({})
        BY EmptySeq
    <2> QED
        BY <2>1, ConcatEmptySeq, SubSeqEmpty
<1> QED
    BY <1>1, <1>2, <1>3 DEF Log!Restart

LEMMA RefinementStep ==
    ASSUME RefinementInv, [PersistenceNext]_persistenceVars
    PROVE  [Log!Next]_(Log!logVars)
<1> USE DEF RefinementInv
<1>1. PersistenceTypeOK' /\ Len(file) \in Nat
    BY TypeStep DEF DurableInv, PersistenceTypeOK
<1>2. CASE Enqueue
    BY <1>2, EnqueueAccepts DEF Log!Next
<1>3. CASE SyncOk
    BY <1>3, SyncOkSettles DEF Log!Next
<1>4. CASE Crash
    BY <1>4, CrashRestarts DEF Log!Next
<1>5. CASE Drain
    <2>1. batch' \o chan' = batch \o chan
        BY <1>5, MoveHead DEF Drain, DurableInv, PersistenceTypeOK
    <2> QED
        BY <1>1, <1>5, <2>1, Invisible DEF Drain
<1>6. CASE WriteAll \/ WriteFails
    <2>1. Len(file) <= Len(file') /\ \A i \in 1 .. Len(file) : file'[i] = file[i]
        BY <1>6, FileGrows DEF DurableInv
    <2>2. UNCHANGED <<chan, batch, sent, committed, synced>>
        BY <1>6 DEF WriteAll, WriteFails
    <2> QED
        BY <1>1, <2>1, <2>2, Invisible
<1>7. CASE OpenFile \/ Drained \/ Commit \/ Wait \/ SyncFails \/ UNCHANGED persistenceVars
    <2>1. UNCHANGED <<chan, batch, file, sent, committed, synced>>
        BY <1>7 DEF OpenFile, Drained, Commit, Wait, SyncFails, persistenceVars
    <2> QED
        BY <2>1 DEF Log!logVars
<1> QED
    BY <1>2, <1>3, <1>4, <1>5, <1>6, <1>7 DEF PersistenceNext, ThreadNext

LEMMA RefinementInit == PersistenceInit => Log!Init
<1>1. <<>> \o <<>> = <<>> /\ SubSeq(<<>>, 1, 0) = <<>>
    <2>1. <<>> \in Seq({})
        BY EmptySeq
    <2> QED
        BY <2>1, ConcatEmptySeq, SubSeqEmpty
<1> QED
    BY <1>1 DEF PersistenceInit, Log!Init

(*****************************************************************************)
(* Every behaviour of the thread is one of DurableLog: with failing writes   *)
(* and fsyncs, retries, torn records and crashes, commands are settled in    *)
(* the order they were accepted and what was settled is kept.                *)
(*****************************************************************************)
THEOREM PersistenceRefinesLog == PersistenceSpec => ImplementsDurableLog
<1>1. PersistenceInit => BatchAtHand
    BY DEF PersistenceInit, BatchAtHand
<1>2. BatchAtHand /\ [PersistenceNext]_persistenceVars => BatchAtHand'
    BY BatchAtHandStep
<1>3. RefinementInv /\ [PersistenceNext]_persistenceVars => [Log!Next]_(Log!logVars)
    BY RefinementStep
<1> QED
    BY <1>1, <1>2, <1>3, RefinementInit, DurableAlways, PTL
    DEF PersistenceSpec, RefinementInv, ImplementsDurableLog, Log!Spec
-----------------------------------------------------------------------------
(*****************************************************************************)
(* What a replay finds that passes over every record cut short: a fold over  *)
(* the whole records of the file.  This is what the replay of main.rs makes  *)
(* of a file in which it misreads no cut record (SkimIsReplay), and the      *)
(* invariant below, which speaks of every file, is about it.                 *)
(*****************************************************************************)
KvState   == [Key -> NeuralValue]
VecState  == [Key -> Nat]
FileState == [kv : KvState, vecs : VecState]

SkimEntry(st, e) == IF e.tag = "whole" THEN Apply(st, e.rec) ELSE st
SkimStep == [x \in FileState \X Entry |-> SkimEntry(x[1], x[2])]
Skim(entries) == Folded(SkimStep, Empty, entries)

LEMMA ApplyKvType ==
    ASSUME NEW kv \in KvState, NEW r \in PersistenceCommand
    PROVE  ApplyKv(kv, r) \in KvState
<1>1. CASE r.op = "set"
    <2>1. r.key \in Key /\ Str(r.val, "cascade") \in NeuralValue
        BY <1>1 DEF PersistenceCommand, FlushRec, Str, NeuralValue, Encoding
    <2> QED
        BY <1>1, <2>1 DEF ApplyKv, KvState
<1>2. CASE r.op = "del"
    BY <1>2 DEF ApplyKv, KvState, NeuralValue
<1>3. CASE r.op = "hmset"
    <2>1. r.key \in Key /\ r.fields \in FieldMap
        BY <1>3 DEF PersistenceCommand, FlushRec
    <2>2. HmSetOver(kv[r.key], r.fields) \in FieldMap
        <3>1. CASE kv[r.key].kind = "hash"
            <4>1. kv[r.key].fields \in FieldMap
                BY <2>1, <3>1 DEF KvState, NeuralValue, Absent
            <4> QED
                BY <2>1, <3>1, <4>1 DEF HmSetOver, Merge, FieldMap
        <3> QED
            BY <2>1, <3>1 DEF HmSetOver
    <2>3. FlatHash(HmSetOver(kv[r.key], r.fields)) \in NeuralValue
        BY <2>2 DEF FlatHash, NeuralValue
    <2> QED
        BY <1>3, <2>1, <2>3 DEF ApplyKv, KvState
<1>4. CASE r.op = "flush"
    BY <1>4 DEF ApplyKv, KvState, NeuralValue
<1>5. CASE r.op = "vadd"
    BY <1>5 DEF ApplyKv
<1>6. r.op \in {"set", "del", "hmset", "flush", "vadd"}
    BY DEF PersistenceCommand, FlushRec
<1> QED
    BY <1>1, <1>2, <1>3, <1>4, <1>5, <1>6

LEMMA ApplyVecsType ==
    ASSUME NEW vecs \in VecState, NEW r \in PersistenceCommand
    PROVE  ApplyVecs(vecs, r) \in VecState
<1>1. CASE r.op = "vadd"
    <2>1. r.key \in Key
        BY <1>1 DEF PersistenceCommand, FlushRec
    <2> QED
        BY <1>1, <2>1 DEF ApplyVecs, VecState
<1>2. CASE r.op = "flush"
    BY <1>2 DEF ApplyVecs, VecState
<1>3. CASE r.op \notin {"vadd", "flush"}
    BY <1>3 DEF ApplyVecs
<1> QED
    BY <1>1, <1>2, <1>3

(*****************************************************************************)
(* One record, and one entry of the file.                                    *)
(*****************************************************************************)
LEMMA ApplyType ==
    ASSUME NEW st \in FileState, NEW r \in PersistenceCommand
    PROVE  /\ Apply(st, r) \in FileState
           /\ Apply(st, r).kv = ApplyKv(st.kv, r)
           /\ Apply(st, r).vecs = ApplyVecs(st.vecs, r)
<1>1. ApplyKv(st.kv, r) \in KvState /\ ApplyVecs(st.vecs, r) \in VecState
    BY ApplyKvType, ApplyVecsType DEF FileState
<1> QED
    BY <1>1 DEF Apply, FileState

LEMMA EntryRec ==
    ASSUME NEW e \in Entry
    PROVE  e.rec \in PersistenceCommand /\ e.tag \in {"whole", "torn", "misread"}
BY DEF Entry, Misread

LEMMA SkimEntryType ==
    ASSUME NEW st \in FileState, NEW e \in Entry
    PROVE  SkimEntry(st, e) \in FileState
BY EntryRec, ApplyType DEF SkimEntry

LEMMA EmptyType == Empty \in FileState /\ Empty.kv = EmptyKv /\ Empty.vecs = EmptyVecs
BY DEF Empty, EmptyKv, EmptyVecs, FileState, KvState, VecState, NeuralValue

LEMMA SkimAppend ==
    ASSUME NEW s \in Seq(Entry), NEW e \in Entry
    PROVE  /\ Skim(s) \in FileState
           /\ Skim(Append(s, e)) = SkimEntry(Skim(s), e)
<1>1. SkimStep \in StepOn(FileState, Entry)
    BY SkimEntryType DEF SkimStep, StepOn
<1>2. /\ Folded(SkimStep, Empty, s) \in FileState
      /\ Folded(SkimStep, Empty, Append(s, e)) = SkimStep[<<Folded(SkimStep, Empty, s), e>>]
    BY <1>1, EmptyType, FoldedAppend
<1> QED
    BY <1>2 DEF SkimStep, Skim

LEMMA SkimType ==
    ASSUME NEW s \in Seq(Entry)
    PROVE  Skim(s) \in FileState
<1>1. PICK r \in PersistenceCommand : r = FlushRec
    BY DEF PersistenceCommand
<1>2. Whole(r) \in Entry
    BY DEF Whole, Entry
<1> QED
    BY <1>2, SkimAppend
-----------------------------------------------------------------------------
(*****************************************************************************)
(* What a sequence of records makes of a keyspace and of the vectors.        *)
(*****************************************************************************)
KvStep  == [x \in KvState \X PersistenceCommand |-> ApplyKv(x[1], x[2])]
VecStep == [x \in VecState \X PersistenceCommand |-> ApplyVecs(x[1], x[2])]

KvAfter(kv, recs)     == Folded(KvStep, kv, recs)
VecsAfter(vecs, recs) == Folded(VecStep, vecs, recs)

LEMMA KvAfterAppend ==
    ASSUME NEW kv \in KvState
    PROVE  /\ KvAfter(kv, <<>>) = kv
           /\ \A s \in Seq(PersistenceCommand), r \in PersistenceCommand :
                  /\ KvAfter(kv, s) \in KvState
                  /\ KvAfter(kv, Append(s, r)) = ApplyKv(KvAfter(kv, s), r)
<1>1. KvStep \in StepOn(KvState, PersistenceCommand)
    BY ApplyKvType DEF KvStep, StepOn
<1>2. KvAfter(kv, <<>>) = kv
    BY <1>1, FoldedEmpty DEF KvAfter
<1>3. ASSUME NEW s \in Seq(PersistenceCommand), NEW r \in PersistenceCommand
      PROVE  /\ KvAfter(kv, s) \in KvState
             /\ KvAfter(kv, Append(s, r)) = ApplyKv(KvAfter(kv, s), r)
    <2>1. /\ KvAfter(kv, s) \in KvState
          /\ KvAfter(kv, Append(s, r)) = KvStep[<<KvAfter(kv, s), r>>]
        BY <1>1, FoldedAppend DEF KvAfter
    <2> QED
        BY <2>1 DEF KvStep
<1> QED
    BY <1>2, <1>3

LEMMA VecsAfterAppend ==
    ASSUME NEW vecs \in VecState
    PROVE  /\ VecsAfter(vecs, <<>>) = vecs
           /\ \A s \in Seq(PersistenceCommand), r \in PersistenceCommand :
                  /\ VecsAfter(vecs, s) \in VecState
                  /\ VecsAfter(vecs, Append(s, r)) = ApplyVecs(VecsAfter(vecs, s), r)
<1>1. VecStep \in StepOn(VecState, PersistenceCommand)
    BY ApplyVecsType DEF VecStep, StepOn
<1>2. VecsAfter(vecs, <<>>) = vecs
    BY <1>1, FoldedEmpty DEF VecsAfter
<1>3. ASSUME NEW s \in Seq(PersistenceCommand), NEW r \in PersistenceCommand
      PROVE  /\ VecsAfter(vecs, s) \in VecState
             /\ VecsAfter(vecs, Append(s, r)) = ApplyVecs(VecsAfter(vecs, s), r)
    <2>1. /\ VecsAfter(vecs, s) \in VecState
          /\ VecsAfter(vecs, Append(s, r)) = VecStep[<<VecsAfter(vecs, s), r>>]
        BY <1>1, FoldedAppend DEF VecsAfter
    <2> QED
        BY <2>1 DEF VecStep
<1> QED
    BY <1>2, <1>3

LEMMA KvAfterType ==
    ASSUME NEW kv \in KvState, NEW s \in Seq(PersistenceCommand)
    PROVE  KvAfter(kv, s) \in KvState
<1>1. FlushRec \in PersistenceCommand
    BY DEF PersistenceCommand
<1> QED
    BY <1>1, KvAfterAppend

(*****************************************************************************)
(* One sequence of records behind another.                                   *)
(*****************************************************************************)
LEMMA KvAfterConcat ==
    ASSUME NEW kv \in KvState, NEW p \in Seq(PersistenceCommand)
    PROVE  \A q \in Seq(PersistenceCommand) : KvAfter(kv, p \o q) = KvAfter(KvAfter(kv, p), q)
<1> DEFINE mid == KvAfter(kv, p)
           S == {q \in Seq(PersistenceCommand) : KvAfter(kv, p \o q) = KvAfter(mid, q)}
<1>0. mid \in KvState
    BY KvAfterType
<1> HIDE DEF mid
<1>1. <<>> \in S
    <2>1. p \o <<>> = p /\ <<>> \in Seq(PersistenceCommand)
        OBVIOUS
    <2> QED
        BY <1>0, <2>1, KvAfterAppend DEF mid
<1>2. ASSUME NEW q \in Seq(PersistenceCommand), NEW r \in PersistenceCommand, q \in S
      PROVE  Append(q, r) \in S
    <2>1. p \o Append(q, r) = Append(p \o q, r) /\ p \o q \in Seq(PersistenceCommand)
        BY ConcatAppend
    <2>2. KvAfter(kv, Append(p \o q, r)) = ApplyKv(KvAfter(kv, p \o q), r)
        BY <2>1, KvAfterAppend
    <2>3. KvAfter(mid, Append(q, r)) = ApplyKv(KvAfter(mid, q), r)
        BY <1>0, KvAfterAppend
    <2>4. Append(q, r) \in Seq(PersistenceCommand)
        OBVIOUS
    <2> QED
        BY <1>2, <2>1, <2>2, <2>3, <2>4
<1>3. \A q \in Seq(PersistenceCommand) : q \in S
    <2> HIDE DEF S
    <2> QED
        BY <1>1, <1>2, SequenceInduction
<1> QED
    BY <1>3 DEF mid

LEMMA VecsAfterType ==
    ASSUME NEW vecs \in VecState, NEW s \in Seq(PersistenceCommand)
    PROVE  VecsAfter(vecs, s) \in VecState
<1>1. FlushRec \in PersistenceCommand
    BY DEF PersistenceCommand
<1> QED
    BY <1>1, VecsAfterAppend

LEMMA VecsAfterConcat ==
    ASSUME NEW vecs \in VecState, NEW p \in Seq(PersistenceCommand)
    PROVE  \A q \in Seq(PersistenceCommand) : VecsAfter(vecs, p \o q) = VecsAfter(VecsAfter(vecs, p), q)
<1> DEFINE mid == VecsAfter(vecs, p)
           S == {q \in Seq(PersistenceCommand) : VecsAfter(vecs, p \o q) = VecsAfter(mid, q)}
<1>0. mid \in VecState
    BY VecsAfterType
<1> HIDE DEF mid
<1>1. <<>> \in S
    <2>1. p \o <<>> = p /\ <<>> \in Seq(PersistenceCommand)
        OBVIOUS
    <2> QED
        BY <1>0, <2>1, VecsAfterAppend DEF mid
<1>2. ASSUME NEW q \in Seq(PersistenceCommand), NEW r \in PersistenceCommand, q \in S
      PROVE  Append(q, r) \in S
    <2>1. p \o Append(q, r) = Append(p \o q, r) /\ p \o q \in Seq(PersistenceCommand)
        BY ConcatAppend
    <2>2. VecsAfter(vecs, Append(p \o q, r)) = ApplyVecs(VecsAfter(vecs, p \o q), r)
        BY <2>1, VecsAfterAppend
    <2>3. VecsAfter(mid, Append(q, r)) = ApplyVecs(VecsAfter(mid, q), r)
        BY <1>0, VecsAfterAppend
    <2>4. Append(q, r) \in Seq(PersistenceCommand)
        OBVIOUS
    <2> QED
        BY <1>2, <2>1, <2>2, <2>3, <2>4
<1>3. \A q \in Seq(PersistenceCommand) : q \in S
    <2> HIDE DEF S
    <2> QED
        BY <1>1, <1>2, SequenceInduction
<1> QED
    BY <1>3 DEF mid

(*****************************************************************************)
(* Seen from one key, a sequence of records leaves the value alone, replaces *)
(* it, or merges a hash into it.                                             *)
(*****************************************************************************)
Leaves(p, k)      == \A kv \in KvState : KvAfter(kv, p)[k] = kv[k]
Replaces(p, k, c) == \A kv \in KvState : KvAfter(kv, p)[k] = c
Merges(p, k, h)   == \A kv \in KvState : KvAfter(kv, p)[k] = FlatHash(HmSetOver(kv[k], h))

KnownEffect(p, k) ==
    Leaves(p, k) \/ (\E c : Replaces(p, k, c)) \/ (\E h \in FieldMap : Merges(p, k, h))

LEMMA MergeAgain ==
    ASSUME NEW x \in NeuralValue, NEW h \in FieldMap, NEW g \in FieldMap
    PROVE  /\ Merge(h, g) \in FieldMap
           /\ HmSetOver(FlatHash(HmSetOver(x, h)), g) = HmSetOver(x, Merge(h, g))
           /\ HmSetOver(FlatHash(HmSetOver(x, h)), h) = HmSetOver(x, h)
<1>1. ASSUME NEW u \in FieldMap
      PROVE  FlatHash(u).kind = "hash" /\ FlatHash(u).fields = u
    BY DEF FlatHash
<1>2. Merge(h, g) \in FieldMap /\ Merge(h, h) = h
    BY DEF Merge, FieldMap
<1>3. CASE x.kind = "hash"
    <2>1. x.fields \in FieldMap
        BY <1>3 DEF NeuralValue, Absent
    <2>2. /\ Merge(x.fields, h) \in FieldMap
          /\ Merge(Merge(x.fields, h), g) = Merge(x.fields, Merge(h, g))
          /\ Merge(Merge(x.fields, h), h) = Merge(x.fields, h)
        BY <2>1 DEF Merge, FieldMap
    <2> QED
        BY <1>1, <1>2, <1>3, <2>2 DEF HmSetOver
<1>4. CASE x.kind # "hash"
    BY <1>1, <1>2, <1>4 DEF HmSetOver
<1> QED
    BY <1>3, <1>4

LEMMA OneMoreRecord ==
    ASSUME NEW k \in Key, NEW p \in Seq(PersistenceCommand), NEW r \in PersistenceCommand,
           KnownEffect(p, k)
    PROVE  KnownEffect(Append(p, r), k)
<1> DEFINE t == Append(p, r)
<1>1. \A kv \in KvState : /\ KvAfter(kv, p) \in KvState
                          /\ KvAfter(kv, t) = ApplyKv(KvAfter(kv, p), r)
    BY KvAfterAppend
<1> HIDE DEF t
<1>2. CASE r.op = "vadd" \/ (r.op # "flush" /\ r.key # k)
    <2>1. \A kv \in KvState : ApplyKv(kv, r)[k] = kv[k]
        <3>1. r.op \in {"set", "del", "hmset", "flush", "vadd"}
            BY DEF PersistenceCommand, FlushRec
        <3> QED
            BY <1>2, <3>1 DEF ApplyKv, KvState
    <2>2. \A kv \in KvState : KvAfter(kv, t)[k] = KvAfter(kv, p)[k]
        BY <1>1, <2>1
    <2> QED
        BY <2>2 DEF KnownEffect, Leaves, Replaces, Merges, t
<1>3. CASE r.op \in {"set", "del"} /\ r.key = k
    <2>1. PICK c : \A kv \in KvState : ApplyKv(kv, r)[k] = c
        <3>1. CASE r.op = "set"
            <4>1. \A kv \in KvState : ApplyKv(kv, r)[k] = Str(r.val, "cascade")
                BY <1>3, <3>1 DEF ApplyKv, KvState
            <4> QED
                BY <4>1
        <3>2. CASE r.op = "del"
            <4>1. \A kv \in KvState : ApplyKv(kv, r)[k] = Absent
                BY <1>3, <3>2 DEF ApplyKv, KvState
            <4> QED
                BY <4>1
        <3> QED
            BY <1>3, <3>1, <3>2
    <2>2. Replaces(t, k, c)
        BY <1>1, <2>1 DEF Replaces
    <2> QED
        BY <2>2 DEF KnownEffect, t
<1>4. CASE r.op = "flush"
    <2>1. \A kv \in KvState : ApplyKv(kv, r)[k] = Absent
        BY <1>4 DEF ApplyKv, KvState
    <2>2. Replaces(t, k, Absent)
        BY <1>1, <2>1 DEF Replaces
    <2> QED
        BY <2>2 DEF KnownEffect, t
<1>5. CASE r.op = "hmset" /\ r.key = k
    <2>1. /\ r.fields \in FieldMap
          /\ \A kv \in KvState :
                ApplyKv(kv, r)[k] = FlatHash(HmSetOver(kv[k], r.fields)) /\ kv[k] \in NeuralValue
        BY <1>5 DEF ApplyKv, KvState, PersistenceCommand, FlushRec
    <2>2. CASE Leaves(p, k)
        <3>1. Merges(t, k, r.fields)
            BY <1>1, <2>1, <2>2 DEF Leaves, Merges
        <3> QED
            BY <2>1, <3>1 DEF KnownEffect, t
    <2>3. ASSUME NEW c, Replaces(p, k, c) PROVE KnownEffect(t, k)
        <3>1. Replaces(t, k, FlatHash(HmSetOver(c, r.fields)))
            BY <1>1, <2>1, <2>3 DEF Replaces
        <3> QED
            BY <3>1 DEF KnownEffect
    <2>4. ASSUME NEW h \in FieldMap, Merges(p, k, h) PROVE KnownEffect(t, k)
        <3>1. Merge(h, r.fields) \in FieldMap
            BY <2>1 DEF Merge, FieldMap
        <3>2. ASSUME NEW kv \in KvState
              PROVE  KvAfter(kv, t)[k] = FlatHash(HmSetOver(kv[k], Merge(h, r.fields)))
            <4>1. KvAfter(kv, p)[k] = FlatHash(HmSetOver(kv[k], h))
                BY <2>4 DEF Merges
            <4>2. KvAfter(kv, t)[k] = FlatHash(HmSetOver(KvAfter(kv, p)[k], r.fields))
                BY <1>1, <2>1
            <4> QED
                BY <2>1, <4>1, <4>2, MergeAgain
        <3> QED
            BY <3>1, <3>2 DEF KnownEffect, Merges
    <2> QED
        BY <2>2, <2>3, <2>4 DEF KnownEffect, t
<1>6. r.op \in {"set", "del", "hmset", "flush", "vadd"}
    BY DEF PersistenceCommand, FlushRec
<1> QED
    BY <1>2, <1>3, <1>4, <1>5, <1>6

LEMMA EffectsKnown ==
    ASSUME NEW k \in Key
    PROVE  \A p \in Seq(PersistenceCommand) : KnownEffect(p, k)
<1> DEFINE S == {p \in Seq(PersistenceCommand) : KnownEffect(p, k)}
<1>1. <<>> \in S
    <2>1. Leaves(<<>>, k)
        BY KvAfterAppend DEF Leaves
    <2>2. <<>> \in Seq(PersistenceCommand)
        OBVIOUS
    <2> QED
        BY <2>1, <2>2 DEF KnownEffect
<1>2. ASSUME NEW p \in Seq(PersistenceCommand), NEW r \in PersistenceCommand, p \in S
      PROVE  Append(p, r) \in S
    <2>1. KnownEffect(Append(p, r), k)
        BY <1>2, OneMoreRecord
    <2> QED
        BY <2>1
<1>3. \A p \in Seq(PersistenceCommand) : p \in S
    <2> HIDE DEF S
    <2> QED
        BY <1>1, <1>2, SequenceInduction
<1> QED
    BY <1>3

(*****************************************************************************)
(* A batch written again changes nothing: neither a whole one, nor what a    *)
(* failed write left of it before it was written once more.                  *)
(*****************************************************************************)
LEMMA TwiceIsOnce ==
    ASSUME NEW kv \in KvState, NEW p \in Seq(PersistenceCommand)
    PROVE  KvAfter(KvAfter(kv, p), p) = KvAfter(kv, p)
<1> DEFINE once == KvAfter(kv, p)
           twice == KvAfter(once, p)
<1>1. once \in KvState /\ twice \in KvState
    BY KvAfterType
<1>2. ASSUME NEW k \in Key PROVE twice[k] = once[k]
    <2>1. KnownEffect(p, k)
        BY EffectsKnown
    <2>2. CASE Leaves(p, k)
        BY <1>1, <2>2 DEF Leaves
    <2>3. ASSUME NEW c, Replaces(p, k, c) PROVE twice[k] = once[k]
        BY <1>1, <2>3 DEF Replaces
    <2>4. ASSUME NEW h \in FieldMap, Merges(p, k, h) PROVE twice[k] = once[k]
        <3>1. /\ once[k] = FlatHash(HmSetOver(kv[k], h))
              /\ twice[k] = FlatHash(HmSetOver(once[k], h))
            BY <1>1, <2>4 DEF Merges
        <3>2. kv[k] \in NeuralValue
            BY DEF KvState
        <3> QED
            BY <3>1, <3>2, MergeAgain
    <2> QED
        BY <2>1, <2>2, <2>3, <2>4 DEF KnownEffect
<1> HIDE DEF once, twice
<1>3. twice = once
    BY <1>1, <1>2 DEF KvState
<1> QED
    BY <1>3 DEF once, twice

LEMMA PartThenWhole ==
    ASSUME NEW kv \in KvState, NEW b \in Seq(PersistenceCommand), NEW n \in 0 .. Len(b)
    PROVE  KvAfter(KvAfter(kv, SubSeq(b, 1, n)), b) = KvAfter(kv, b)
<1> DEFINE p == SubSeq(b, 1, n)
           q == SubSeq(b, n + 1, Len(b))
<1>1. p \in Seq(PersistenceCommand) /\ q \in Seq(PersistenceCommand)
    OBVIOUS
<1>2. b = p \o q
    <2>1. 1 \in 1 .. Len(b) + 1 /\ n \in 1 - 1 .. Len(b) /\ Len(b) \in n .. Len(b)
        OBVIOUS
    <2>2. SubSeq(b, 1, Len(b)) = p \o q
        BY <2>1, ConcatAdjacentSubSeq
    <2> QED
        BY <2>2, SubSeqFull
<1> HIDE DEF p, q
<1>3. KvAfter(kv, p) \in KvState
    BY <1>1, KvAfterType
<1>4. KvAfter(KvAfter(kv, p), b) = KvAfter(KvAfter(KvAfter(kv, p), p), q)
    BY <1>1, <1>2, <1>3, KvAfterConcat
<1>5. KvAfter(kv, b) = KvAfter(KvAfter(kv, p), q)
    BY <1>1, <1>2, KvAfterConcat
<1> QED
    BY <1>1, <1>4, <1>5, TwiceIsOnce DEF p
-----------------------------------------------------------------------------
(*****************************************************************************)
(* Seen from one key, a sequence of records sets its vectors back, or adds   *)
(* to them.  Hence more to begin with is more in the end, and a part of a    *)
(* batch, or all of it, in front of the batch takes none away.               *)
(*****************************************************************************)
Resets(p, k)  == \E c \in Nat : \A v \in VecState : VecsAfter(v, p)[k] = c
Adds(p, k)    == \E n \in Nat : \A v \in VecState : VecsAfter(v, p)[k] = v[k] + n

LEMMA OneMoreVector ==
    ASSUME NEW p \in Seq(PersistenceCommand), NEW r \in PersistenceCommand, NEW k \in Key,
           Resets(p, k) \/ Adds(p, k)
    PROVE  Resets(Append(p, r), k) \/ Adds(Append(p, r), k)
<1>1. ASSUME NEW v \in VecState
      PROVE  /\ VecsAfter(v, p) \in VecState /\ v[k] \in Nat
             /\ VecsAfter(v, Append(p, r)) = ApplyVecs(VecsAfter(v, p), r)
    BY VecsAfterAppend DEF VecState
<1>2. CASE r.op = "flush"
    <2>1. ASSUME NEW v \in VecState PROVE VecsAfter(v, Append(p, r))[k] = 0
        BY <1>1, <1>2 DEF ApplyVecs
    <2> QED
        BY <2>1 DEF Resets
<1>3. CASE r.op = "vadd" /\ r.key = k
    <2>1. ASSUME NEW v \in VecState PROVE VecsAfter(v, Append(p, r))[k] = VecsAfter(v, p)[k] + 1
        BY <1>1, <1>3 DEF ApplyVecs, VecState
    <2>2. ASSUME NEW c \in Nat, \A v \in VecState : VecsAfter(v, p)[k] = c
          PROVE  Resets(Append(p, r), k)
        <3>1. c + 1 \in Nat /\ \A v \in VecState : VecsAfter(v, Append(p, r))[k] = c + 1
            BY <2>1, <2>2
        <3> QED
            BY <3>1 DEF Resets
    <2>3. ASSUME NEW n \in Nat, \A v \in VecState : VecsAfter(v, p)[k] = v[k] + n
          PROVE  Adds(Append(p, r), k)
        <3>1. ASSUME NEW v \in VecState PROVE VecsAfter(v, Append(p, r))[k] = v[k] + (n + 1)
            <4> DEFINE have == v[k]
            <4>1. VecsAfter(v, Append(p, r))[k] = (have + n) + 1 /\ have \in Nat
                BY <1>1, <2>1, <2>3
            <4> HIDE DEF have
            <4>2. (have + n) + 1 = have + (n + 1)
                BY <4>1
            <4> QED
                BY <4>1, <4>2 DEF have
        <3>2. n + 1 \in Nat
            OBVIOUS
        <3> QED
            BY <3>1, <3>2 DEF Adds
    <2> QED
        BY <2>2, <2>3 DEF Resets, Adds
<1>4. CASE ~ (r.op = "flush") /\ ~ (r.op = "vadd" /\ r.key = k)
    <2>1. ASSUME NEW v \in VecState PROVE VecsAfter(v, Append(p, r))[k] = VecsAfter(v, p)[k]
        BY <1>1, <1>4 DEF ApplyVecs, VecState
    <2> QED
        BY <2>1 DEF Resets, Adds
<1> QED
    BY <1>2, <1>3, <1>4

LEMMA VecEffects ==
    ASSUME NEW p \in Seq(PersistenceCommand), NEW k \in Key
    PROVE  Resets(p, k) \/ Adds(p, k)
<1> DEFINE S == {q \in Seq(PersistenceCommand) : Resets(q, k) \/ Adds(q, k)}
<1>1. <<>> \in S
    <2>1. ASSUME NEW v \in VecState PROVE VecsAfter(v, <<>>)[k] = v[k] + 0
        BY VecsAfterAppend DEF VecState
    <2>2. <<>> \in Seq(PersistenceCommand) /\ 0 \in Nat
        OBVIOUS
    <2> QED
        BY <2>1, <2>2 DEF Adds
<1>2. ASSUME NEW q \in Seq(PersistenceCommand), NEW r \in PersistenceCommand, q \in S
      PROVE  Append(q, r) \in S
    <2>1. Append(q, r) \in Seq(PersistenceCommand)
        OBVIOUS
    <2> QED
        BY <1>2, <2>1, OneMoreVector
<1>3. \A q \in Seq(PersistenceCommand) : q \in S
    <2> HIDE DEF S
    <2> QED
        BY <1>1, <1>2, SequenceInduction
<1> QED
    BY <1>3

LEMMA AtLeastTransitive ==
    ASSUME NEW u \in VecState, NEW v \in VecState, NEW w \in VecState,
           AtLeast(u, v), AtLeast(v, w)
    PROVE  AtLeast(u, w)
<1> SUFFICES ASSUME NEW k \in Key PROVE u[k] >= w[k]
    BY DEF AtLeast
<1>1. u[k] \in Nat /\ v[k] \in Nat /\ w[k] \in Nat /\ u[k] >= v[k] /\ v[k] >= w[k]
    BY DEF AtLeast, VecState
<1> QED
    BY <1>1

LEMMA VecsMonotone ==
    ASSUME NEW v \in VecState, NEW w \in VecState, AtLeast(v, w),
           NEW b \in Seq(PersistenceCommand)
    PROVE  AtLeast(VecsAfter(v, b), VecsAfter(w, b))
<1> SUFFICES ASSUME NEW k \in Key PROVE VecsAfter(v, b)[k] >= VecsAfter(w, b)[k]
    BY DEF AtLeast
<1>1. v[k] \in Nat /\ w[k] \in Nat /\ v[k] >= w[k]
    BY DEF AtLeast, VecState
<1>2. ASSUME NEW n \in Nat, VecsAfter(v, b)[k] = v[k] + n, VecsAfter(w, b)[k] = w[k] + n
      PROVE  VecsAfter(v, b)[k] >= VecsAfter(w, b)[k]
    BY <1>1, <1>2
<1>3. ASSUME NEW c \in Nat, VecsAfter(v, b)[k] = c, VecsAfter(w, b)[k] = c
      PROVE  VecsAfter(v, b)[k] >= VecsAfter(w, b)[k]
    BY <1>3
<1>4. Resets(b, k) \/ Adds(b, k)
    BY VecEffects
<1> QED
    BY <1>2, <1>3, <1>4 DEF Resets, Adds

LEMMA PartTakesNone ==
    ASSUME NEW v \in VecState, NEW b \in Seq(PersistenceCommand), NEW n \in 0 .. Len(b)
    PROVE  AtLeast(VecsAfter(VecsAfter(v, SubSeq(b, 1, n)), b), VecsAfter(v, b))
<1> DEFINE p == SubSeq(b, 1, n)
           q == SubSeq(b, n + 1, Len(b))
<1>1. p \in Seq(PersistenceCommand) /\ q \in Seq(PersistenceCommand)
    OBVIOUS
<1>2. b = p \o q
    <2>1. 1 \in 1 .. Len(b) + 1 /\ n \in 1 - 1 .. Len(b) /\ Len(b) \in n .. Len(b)
        OBVIOUS
    <2>2. SubSeq(b, 1, Len(b)) = p \o q
        BY <2>1, ConcatAdjacentSubSeq
    <2> QED
        BY <2>2, SubSeqFull
<1> HIDE DEF p, q
<1> DEFINE u == VecsAfter(v, p)
           x == VecsAfter(u, p)
<1>3. u \in VecState /\ x \in VecState
    BY <1>1, VecsAfterType
<1>4. VecsAfter(v, b) = VecsAfter(u, q) /\ VecsAfter(u, b) = VecsAfter(x, q)
    BY <1>1, <1>2, <1>3, VecsAfterConcat
<1> SUFFICES ASSUME NEW k \in Key PROVE VecsAfter(u, b)[k] >= VecsAfter(v, b)[k]
    BY DEF AtLeast, p
<1>5. x[k] \in Nat /\ u[k] \in Nat /\ v[k] \in Nat
    BY <1>3 DEF VecState
<1>6. x[k] >= u[k]
    <2>1. Resets(p, k) \/ Adds(p, k)
        BY <1>1, VecEffects
    <2>2. ASSUME NEW c \in Nat, \A y \in VecState : VecsAfter(y, p)[k] = c PROVE x[k] >= u[k]
        BY <1>3, <1>5, <2>2
    <2>3. ASSUME NEW m \in Nat, \A y \in VecState : VecsAfter(y, p)[k] = y[k] + m
          PROVE  x[k] >= u[k]
        <3>1. x[k] = u[k] + m
            BY <1>3, <2>3
        <3> HIDE DEF x, u
        <3> QED
            BY <1>5, <3>1
    <2> QED
        BY <2>1, <2>2, <2>3 DEF Resets, Adds
<1> HIDE DEF x, u
<1>7. Resets(q, k) \/ Adds(q, k)
    BY <1>1, VecEffects
<1>8. ASSUME NEW c \in Nat, \A y \in VecState : VecsAfter(y, q)[k] = c
      PROVE  VecsAfter(x, q)[k] >= VecsAfter(u, q)[k]
    BY <1>3, <1>8
<1>9. ASSUME NEW m \in Nat, \A y \in VecState : VecsAfter(y, q)[k] = y[k] + m
      PROVE  VecsAfter(x, q)[k] >= VecsAfter(u, q)[k]
    <2>1. VecsAfter(x, q)[k] = x[k] + m /\ VecsAfter(u, q)[k] = u[k] + m
        BY <1>3, <1>9
    <2> QED
        BY <1>5, <1>6, <2>1
<1> QED
    BY <1>4, <1>7, <1>8, <1>9 DEF Resets, Adds
-----------------------------------------------------------------------------
(*****************************************************************************)
(* The replay of a file that ends in whole records, or in one cut short.     *)
(*****************************************************************************)
Written(b) == [i \in 1 .. Len(b) |-> Whole(b[i])]

LEMMA WholeType ==
    ASSUME NEW r \in PersistenceCommand
    PROVE  Whole(r) \in Entry /\ Whole(r).tag = "whole" /\ Whole(r).rec = r
BY DEF Whole, Entry

LEMMA WrittenType ==
    ASSUME NEW b \in Seq(PersistenceCommand)
    PROVE  /\ Written(b) \in Seq(Entry) /\ Len(Written(b)) = Len(b)
           /\ \A i \in 1 .. Len(b) : Written(b)[i] = Whole(b[i])
<1>1. Len(b) \in Nat /\ \A i \in 1 .. Len(b) : Whole(b[i]) \in Entry
    BY WholeType
<1> QED
    BY <1>1 DEF Written

LEMMA WrittenAppend ==
    ASSUME NEW b \in Seq(PersistenceCommand), NEW r \in PersistenceCommand
    PROVE  Written(Append(b, r)) = Append(Written(b), Whole(r))
<1> DEFINE c == Append(b, r)
           w == Append(Written(b), Whole(r))
<1>1. /\ c \in Seq(PersistenceCommand) /\ Len(c) = Len(b) + 1 /\ c[Len(b) + 1] = r
      /\ \A i \in 1 .. Len(b) : c[i] = b[i]
    OBVIOUS
<1>2. /\ w \in Seq(Entry) /\ Len(w) = Len(b) + 1 /\ w[Len(b) + 1] = Whole(r)
      /\ \A i \in 1 .. Len(b) : w[i] = Whole(b[i])
    BY WrittenType, WholeType
<1>3. /\ Written(c) \in Seq(Entry) /\ Len(Written(c)) = Len(b) + 1
      /\ \A i \in 1 .. Len(b) + 1 : Written(c)[i] = Whole(c[i])
    <2> HIDE DEF c
    <2> QED
        BY <1>1, WrittenType
<1> HIDE DEF c, w
<1>4. \A i \in 1 .. Len(w) : Written(c)[i] = w[i]
    BY <1>1, <1>2, <1>3
<1>5. Written(c) = w
    BY <1>2, <1>3, <1>4, SeqEqual
<1> QED
    BY <1>5 DEF c, w

LEMMA SkimWritten ==
    ASSUME NEW s \in Seq(Entry)
    PROVE  \A b \in Seq(PersistenceCommand) :
              /\ Skim(s \o Written(b)).kv = KvAfter(Skim(s).kv, b)
              /\ Skim(s \o Written(b)).vecs = VecsAfter(Skim(s).vecs, b)
<1> DEFINE start == Skim(s)
           Then(b) == Skim(s \o Written(b))
           S == {b \in Seq(PersistenceCommand) : /\ Then(b).kv = KvAfter(start.kv, b)
                                                 /\ Then(b).vecs = VecsAfter(start.vecs, b)}
<1>1. start \in FileState /\ start.kv \in KvState /\ start.vecs \in VecState
    BY SkimType DEF FileState
<1>2. <<>> \in S
    <2>1. Written(<<>>) = <<>>
        BY DEF Written
    <2>2. s \o <<>> = s /\ <<>> \in Seq(PersistenceCommand)
        OBVIOUS
    <2>3. Then(<<>>) = start
        BY <2>1, <2>2
    <2> HIDE DEF start, Then
    <2> QED
        BY <1>1, <2>2, <2>3, KvAfterAppend, VecsAfterAppend
<1>3. ASSUME NEW b \in Seq(PersistenceCommand), NEW r \in PersistenceCommand, b \in S
      PROVE  Append(b, r) \in S
    <2> DEFINE w == Written(b)
               e == Whole(r)
               t == s \o w
    <2>1. /\ w \in Seq(Entry) /\ e \in Entry /\ e.tag = "whole" /\ e.rec = r
          /\ Written(Append(b, r)) = Append(w, e)
        BY WrittenAppend, WrittenType, WholeType
    <2> HIDE DEF w, e
    <2>2. s \o Append(w, e) = Append(t, e) /\ t \in Seq(Entry)
        BY <2>1, ConcatAppend
    <2> HIDE DEF t
    <2>5. Skim(t) \in FileState /\ Skim(Append(t, e)) = SkimEntry(Skim(t), e)
        BY <2>1, <2>2, SkimAppend
    <2>6. SkimEntry(Skim(t), e) = Apply(Skim(t), r)
        BY <2>1 DEF SkimEntry
    <2>3. /\ Then(Append(b, r)).kv = ApplyKv(Then(b).kv, r)
          /\ Then(Append(b, r)).vecs = ApplyVecs(Then(b).vecs, r)
        <3>1. Then(Append(b, r)) = Apply(Skim(t), r) /\ Then(b) = Skim(t)
            BY <2>1, <2>2, <2>5, <2>6 DEF t, w
        <3> HIDE DEF Then
        <3> QED
            BY <2>5, <3>1, ApplyType
    <2>4. Append(b, r) \in Seq(PersistenceCommand)
        OBVIOUS
    <2> HIDE DEF start, Then
    <2> QED
        BY <1>1, <1>3, <2>3, <2>4, KvAfterAppend, VecsAfterAppend
<1>4. \A b \in Seq(PersistenceCommand) : b \in S
    <2> HIDE DEF S
    <2> QED
        BY <1>2, <1>3, SequenceInduction
<1> QED
    BY <1>4

LEMMA SkimCut ==
    ASSUME NEW s \in Seq(Entry), NEW r \in PersistenceCommand, NEW e \in Cut(r)
    PROVE  e \in Entry /\ Skim(Append(s, e)) = Skim(s)
<1>1. e \in Entry
    BY CutType
<1>2. e.tag # "whole"
    BY PersistenceAssumption DEF Cut, Torn, Misread
<1> QED
    BY <1>1, <1>2, SkimAppend DEF SkimEntry

(*****************************************************************************)
(* What After computes, in a replay and in what the log asks for.            *)
(*****************************************************************************)
LEMMA AfterIs ==
    ASSUME NEW start \in FileState, NEW recs \in Seq(PersistenceCommand)
    PROVE  /\ After(start, recs) \in FileState
           /\ After(start, recs).kv = KvAfter(start.kv, recs)
           /\ After(start, recs).vecs = VecsAfter(start.vecs, recs)
<1> DEFINE n == Len(recs)
           Is(g) == g = [i \in 0 .. Len(recs) |->
                            IF i = 0 THEN start ELSE Apply(g[i - 1], recs[i])]
           h == CHOOSE g : Is(g)
           step == [x \in FileState \X PersistenceCommand |-> Apply(x[1], x[2])]
<1>1. step \in StepOn(FileState, PersistenceCommand)
    BY ApplyType DEF StepOn
<1>2. /\ n \in Nat /\ Len(recs) = n
      /\ \A i \in 1 .. n : recs[i] \in PersistenceCommand
    OBVIOUS
<1>3. PICK f \in [0 .. n -> FileState] : StepsOf(step, start, recs, f)
    <2> HIDE DEF step
    <2> QED
        BY <1>1, StepsExist
<1>4. ASSUME NEW i \in 1 .. n PROVE f[i] = Apply(f[i - 1], recs[i])
    <2>1. i - 1 \in 0 .. n /\ i \in 0 .. n /\ i # 0
        BY <1>2
    <2>2. f[i] = step[<<f[i - 1], recs[i]>>]
        <3> HIDE DEF step
        <3> QED
            BY <2>1, <1>3 DEF StepsOf
    <2>3. <<f[i - 1], recs[i]>> \in FileState \X PersistenceCommand
        BY <2>1, <1>2
    <2> QED
        BY <2>2, <2>3
<1>5. f[0] = start
    <2> HIDE DEF step
    <2> QED
        BY <1>2, <1>3 DEF StepsOf
<1>6. Is(f)
    BY <1>2, <1>4, <1>5
<1>7. Is(h)
    BY <1>6
<1>8. After(start, recs) = h[n]
    BY DEF After
<1>9. h = f
    <2> HIDE DEF h
    <2>1. DefinedUpTo(n, h) /\ DefinedUpTo(n, f) /\ h[0] = f[0]
        BY <1>2, <1>5, <1>7 DEF DefinedUpTo
    <2>2. ASSUME NEW i \in 1 .. n, h[i - 1] = f[i - 1] PROVE h[i] = f[i]
        <3>1. i \in 0 .. n /\ i # 0
            BY <1>2
        <3> QED
            BY <2>2, <3>1, <1>4, <1>7
    <2> QED
        BY <1>2, <2>1, <2>2, RecursionUnique
<1> HIDE DEF h, step
<1> DEFINE S == {i \in 0 .. n : /\ f[i].kv = KvAfter(start.kv, SubSeq(recs, 1, i))
                                /\ f[i].vecs = VecsAfter(start.vecs, SubSeq(recs, 1, i))}
<1>10. start.kv \in KvState /\ start.vecs \in VecState
    BY DEF FileState
<1>11. 0 \in S
    <2>1. SubSeq(recs, 1, 0) = <<>> /\ 0 \in 0 .. n
        BY <1>2
    <2> QED
        BY <2>1, <1>5, <1>10, KvAfterAppend, VecsAfterAppend
<1>12. ASSUME NEW i \in 0 .. n - 1, i \in S PROVE i + 1 \in S
    <2> DEFINE p == SubSeq(recs, 1, i)
               r == recs[i + 1]
    <2>1. /\ i + 1 \in 1 .. n /\ (i + 1) - 1 = i /\ i + 1 \in 0 .. n
          /\ p \in Seq(PersistenceCommand) /\ r \in PersistenceCommand
          /\ f[i] \in FileState
        BY <1>2
    <2>2. SubSeq(recs, 1, i + 1) = Append(p, r)
        <3>1. /\ Append(p, r) \in Seq(PersistenceCommand) /\ Len(Append(p, r)) = i + 1
              /\ \A j \in 1 .. i + 1 : Append(p, r)[j] = recs[j]
            BY <1>2
        <3>2. /\ SubSeq(recs, 1, i + 1) \in Seq(PersistenceCommand)
              /\ Len(SubSeq(recs, 1, i + 1)) = i + 1
              /\ \A j \in 1 .. i + 1 : SubSeq(recs, 1, i + 1)[j] = recs[j]
            BY <1>2
        <3> HIDE DEF p, r
        <3> QED
            BY <3>1, <3>2, SeqEqual
    <2>3. f[i + 1] = Apply(f[i], r)
        BY <1>4, <2>1
    <2> HIDE DEF p, r
    <2>4. f[i + 1].kv = ApplyKv(f[i].kv, r) /\ f[i + 1].vecs = ApplyVecs(f[i].vecs, r)
        BY <2>1, <2>3, ApplyType
    <2>5. f[i].kv = KvAfter(start.kv, p) /\ f[i].vecs = VecsAfter(start.vecs, p)
        BY <1>12 DEF p
    <2>6. /\ KvAfter(start.kv, Append(p, r)) = ApplyKv(f[i].kv, r)
          /\ VecsAfter(start.vecs, Append(p, r)) = ApplyVecs(f[i].vecs, r)
        BY <1>10, <2>1, <2>5, KvAfterAppend, VecsAfterAppend
    <2> QED
        BY <2>1, <2>2, <2>4, <2>6
<1>13. \A i \in 0 .. n : i \in S
    <2> HIDE DEF S
    <2> QED
        BY <1>2, <1>11, <1>12, IntervalInduction
<1>14. n \in 0 .. n /\ SubSeq(recs, 1, n) = recs
    BY <1>2, SubSeqFull
<1> QED
    BY <1>3, <1>8, <1>9, <1>13, <1>14
-----------------------------------------------------------------------------
(*****************************************************************************)
(* The replay itself.  It is what any function with its recursion ends in;   *)
(* it finds a keyspace whatever the file holds; and if it misreads no cut    *)
(* record, it finds what Skim says.                                          *)
(*****************************************************************************)
ReplayAt == [st : FileState, skip : Nat]

LEMMA ReplayIs ==
    ASSUME NEW s \in Seq(Entry), NEW f, DefinedUpTo(Len(s), f),
           f[0] = [st |-> Empty, skip |-> 0],
           \A n \in 1 .. Len(s) : f[n] = ReplayEntry(f[n - 1], s[n], Len(s) - n)
    PROVE  Replay(s) = f[Len(s)].st
<1> DEFINE Is(g) == g = [n \in 0 .. Len(s) |->
                            IF n = 0 THEN [st |-> Empty, skip |-> 0]
                            ELSE ReplayEntry(g[n - 1], s[n], Len(s) - n)]
           h == CHOOSE g : Is(g)
<1>1. Len(s) \in Nat
    OBVIOUS
<1>2. Is(f)
    <2>1. f = [n \in 0 .. Len(s) |-> f[n]]
        BY DEF DefinedUpTo
    <2>2. ASSUME NEW n \in 0 .. Len(s)
          PROVE  f[n] = IF n = 0 THEN [st |-> Empty, skip |-> 0]
                        ELSE ReplayEntry(f[n - 1], s[n], Len(s) - n)
        BY <1>1
    <2> QED
        BY <2>1, <2>2
<1>3. Is(h)
    BY <1>2
<1>4. Replay(s) = h[Len(s)].st
    BY DEF Replay
<1>5. h = f
    <2> HIDE DEF h
    <2>1. DefinedUpTo(Len(s), h) /\ h[0] = f[0]
        BY <1>1, <1>3 DEF DefinedUpTo
    <2>2. ASSUME NEW n \in 1 .. Len(s), h[n - 1] = f[n - 1] PROVE h[n] = f[n]
        <3>1. n \in 0 .. Len(s) /\ n # 0
            BY <1>1
        <3>2. h[n] = ReplayEntry(h[n - 1], s[n], Len(s) - n)
            BY <3>1, <1>3
        <3> QED
            BY <2>2, <3>2
    <2> QED
        BY <1>1, <2>1, <2>2, RecursionUnique
<1> QED
    BY <1>4, <1>5

LEMMA ReplayEntryType ==
    ASSUME NEW at \in ReplayAt, NEW e \in Entry, NEW behind \in Nat
    PROVE  ReplayEntry(at, e, behind) \in ReplayAt
<1>1. at.st \in FileState /\ at.skip \in Nat
    BY DEF ReplayAt
<1>2. CASE at.skip > 0
    <2>1. at.skip - 1 \in Nat
        BY <1>1, <1>2
    <2>2. ReplayEntry(at, e, behind) = [at EXCEPT !.skip = @ - 1]
        BY <1>1, <1>2 DEF ReplayEntry
    <2> QED
        BY <1>1, <2>1, <2>2 DEF ReplayAt
<1>3. CASE at.skip = 0 /\ e.tag = "whole"
    <2>1. Apply(at.st, e.rec) \in FileState
        BY <1>1, EntryRec, ApplyType
    <2>2. ReplayEntry(at, e, behind) = [at EXCEPT !.st = Apply(@, e.rec)]
        BY <1>3 DEF ReplayEntry
    <2> QED
        BY <2>1, <2>2 DEF ReplayAt
<1>4. CASE at.skip = 0 /\ e.tag = "torn"
    BY <1>4 DEF ReplayEntry
<1>5. CASE at.skip = 0 /\ e.tag = "misread"
    <2>1. /\ e.alone \in Seq(PersistenceCommand) /\ e.joined \in Seq(PersistenceCommand)
          /\ e.eats \in Nat
        BY <1>5 DEF Entry, Misread
    <2>2. After(at.st, e.alone) \in FileState /\ After(at.st, e.joined) \in FileState
        BY <1>1, <2>1, AfterIs
    <2>3. CASE e.eats <= behind
        <3>1. ReplayEntry(at, e, behind) = [st |-> After(at.st, e.joined), skip |-> e.eats]
            BY <1>5, <2>3 DEF ReplayEntry
        <3> QED
            BY <2>1, <2>2, <3>1 DEF ReplayAt
    <2>4. CASE ~ e.eats <= behind
        <3>1. ReplayEntry(at, e, behind) = [at EXCEPT !.st = After(@, e.alone)]
            BY <1>5, <2>4 DEF ReplayEntry
        <3> QED
            BY <2>2, <3>1 DEF ReplayAt
    <2> QED
        BY <2>3, <2>4
<1> QED
    BY <1>1, <1>2, <1>3, <1>4, <1>5, EntryRec

LEMMA ReplayType ==
    ASSUME NEW s \in Seq(Entry)
    PROVE  Replay(s) \in FileState
<1> DEFINE N == Len(s)
           PairOn == Entry \X Nat
           pairs == [n \in 1 .. N |-> <<s[n], N - n>>]
           step == [x \in ReplayAt \X PairOn |-> ReplayEntry(x[1], x[2][1], x[2][2])]
           first == [st |-> Empty, skip |-> 0]
<1>1. N \in Nat /\ \A n \in 1 .. N : s[n] \in Entry /\ N - n \in Nat
    OBVIOUS
<1>2. pairs \in Seq(PairOn) /\ Len(pairs) = N
    BY <1>1
<1>3. first \in ReplayAt
    BY EmptyType DEF ReplayAt
<1>4. step \in StepOn(ReplayAt, PairOn)
    BY ReplayEntryType DEF StepOn
<1>5. \A n \in 1 .. N : pairs[n] = <<s[n], N - n>> /\ pairs[n] \in PairOn
    BY <1>1
<1>6. PICK f \in [0 .. Len(pairs) -> ReplayAt] : StepsOf(step, first, pairs, f)
    <2> HIDE DEF step, pairs, first, PairOn
    <2> QED
        BY <1>2, <1>3, <1>4, StepsExist
<1>7. f \in [0 .. N -> ReplayAt] /\ f[0] = first
    <2> HIDE DEF step, pairs, first
    <2> QED
        BY <1>1, <1>2, <1>6 DEF StepsOf
<1>8. ASSUME NEW n \in 1 .. N PROVE f[n] = ReplayEntry(f[n - 1], s[n], N - n)
    <2>1. n \in 0 .. N /\ n # 0 /\ n - 1 \in 0 .. N
        BY <1>1
    <2>2. f[n] = step[<<f[n - 1], pairs[n]>>]
        <3> HIDE DEF step, pairs, first
        <3> QED
            BY <1>2, <1>6, <2>1 DEF StepsOf
    <2>3. <<f[n - 1], pairs[n]>> \in ReplayAt \X PairOn
        BY <1>5, <1>7, <2>1
    <2>4. step[<<f[n - 1], pairs[n]>>] = ReplayEntry(f[n - 1], pairs[n][1], pairs[n][2])
        <3> HIDE DEF pairs
        <3> QED
            BY <2>3
    <2> QED
        BY <1>5, <2>2, <2>4
<1>9. DefinedUpTo(N, f)
    BY <1>7 DEF DefinedUpTo
<1>10. Replay(s) = f[N].st
    BY <1>7, <1>8, <1>9, ReplayIs
<1>11. f[N] \in ReplayAt
    BY <1>1, <1>7
<1> QED
    BY <1>10, <1>11 DEF ReplayAt

LEMMA SkimIsReplay ==
    ASSUME NEW s \in Seq(Entry), CutsRecognised(s)
    PROVE  Replay(s) = Skim(s)
<1> DEFINE N == Len(s)
<1>1. SkimStep \in StepOn(FileState, Entry)
    BY SkimEntryType DEF SkimStep, StepOn
<1>2. PICK f \in [0 .. N -> FileState] : StepsOf(SkimStep, Empty, s, f)
    BY <1>1, EmptyType, StepsExist
<1>3. N \in Nat /\ \A n \in 1 .. N : s[n] \in Entry /\ s[n].tag \in {"whole", "torn"}
    BY EntryRec DEF CutsRecognised
<1>4. ASSUME NEW n \in 1 .. N PROVE f[n] = SkimEntry(f[n - 1], s[n])
    <2>1. n - 1 \in 0 .. N /\ n \in 0 .. N /\ n # 0
        BY <1>3
    <2>2. f[n] = SkimStep[<<f[n - 1], s[n]>>]
        BY <2>1, <1>2 DEF StepsOf
    <2>3. <<f[n - 1], s[n]>> \in FileState \X Entry
        BY <2>1, <1>3
    <2> QED
        BY <2>2, <2>3 DEF SkimStep
<1>5. f[0] = Empty
    BY <1>2, <1>3 DEF StepsOf
<1>6. Skim(s) = f[N]
    BY <1>2, FoldedIs DEF Skim
<1> DEFINE g == [n \in 0 .. N |-> [st |-> f[n], skip |-> 0]]
<1>7. DefinedUpTo(N, g) /\ g[0] = [st |-> Empty, skip |-> 0]
    BY <1>3, <1>5 DEF DefinedUpTo
<1>8. ASSUME NEW n \in 1 .. N PROVE g[n] = ReplayEntry(g[n - 1], s[n], N - n)
    <2>1. n - 1 \in 0 .. N /\ n \in 0 .. N
        BY <1>3
    <2>2. g[n] = [st |-> f[n], skip |-> 0] /\ g[n - 1] = [st |-> f[n - 1], skip |-> 0]
        BY <2>1
    <2> HIDE DEF g
    <2>3. CASE s[n].tag = "whole"
        <3>1. ReplayEntry(g[n - 1], s[n], N - n)
                  = [g[n - 1] EXCEPT !.st = Apply(@, s[n].rec)]
            BY <2>2, <2>3 DEF ReplayEntry
        <3>2. f[n] = Apply(f[n - 1], s[n].rec)
            BY <1>4, <2>3 DEF SkimEntry
        <3> QED
            BY <2>2, <3>1, <3>2
    <2>4. CASE s[n].tag = "torn"
        <3>1. ReplayEntry(g[n - 1], s[n], N - n) = g[n - 1]
            BY <2>2, <2>4 DEF ReplayEntry
        <3>2. f[n] = f[n - 1]
            BY <1>4, <2>4 DEF SkimEntry
        <3> QED
            BY <2>2, <3>1, <3>2
    <2> QED
        BY <1>3, <2>3, <2>4
<1>9. g[N].st = f[N]
    BY <1>3
<1>10. Replay(s) = g[N].st
    <2> HIDE DEF g
    <2> QED
        BY <1>7, <1>8, ReplayIs
<1> QED
    BY <1>6, <1>9, <1>10

LEMMA PrefixRecognised ==
    ASSUME NEW s \in Seq(Entry), CutsRecognised(s), NEW n \in 0 .. Len(s)
    PROVE  /\ SubSeq(s, 1, n) \in Seq(Entry) /\ CutsRecognised(SubSeq(s, 1, n))
<1>1. /\ SubSeq(s, 1, n) \in Seq(Entry) /\ Len(SubSeq(s, 1, n)) = n
      /\ \A i \in 1 .. n : SubSeq(s, 1, n)[i] = s[i] /\ i \in 1 .. Len(s)
    OBVIOUS
<1> QED
    BY <1>1 DEF CutsRecognised
-----------------------------------------------------------------------------
(*****************************************************************************)
(* The inductive invariant.  Settled is what the committed records ask for.  *)
(* Between two commits a replay gives just that; while a batch is written,   *)
(* perhaps in parts and more than once, what the file gives becomes Settled  *)
(* with the batch on top once the whole batch is behind it, whatever came    *)
(* before.  Base is how much of the file neither this process's batch nor a  *)
(* crash can disturb.  FreshKv says of every prefix of the file a crash may  *)
(* leave, and of every string and hash field, which part of the batch they   *)
(* are as of.  Of the vectors, FoundVecs is what holds until something       *)
(* fails, and KeptVecs what holds still.                                     *)
(*****************************************************************************)
Base == IF synced < boot THEN boot ELSE synced

SkimBoot == Skim(SubSeq(file, 1, boot))

SettledKv   == KvAfter(SkimBoot.kv, SubSeq(sent, 1, committed))
SettledVecs == VecsAfter(SkimBoot.vecs, SubSeq(sent, 1, committed))

FoundKv ==
    /\ Skim(SubSeq(file, 1, Base)).kv = SettledKv
    /\ ~ InCommit     => Skim(file).kv = SettledKv
    /\ npc = "write" => KvAfter(Skim(file).kv, batch) = KvAfter(SettledKv, batch)
    /\ npc = "sync"  => Skim(file).kv = KvAfter(SettledKv, batch)

FoundVecs ==
    /\ npc # "sync" => Skim(file).vecs = SettledVecs
    /\ npc = "sync" => Skim(file).vecs = VecsAfter(SettledVecs, batch)

KeptVecs ==
    /\ ~ InCommit     => AtLeast(Skim(file).vecs, SettledVecs)
    /\ npc = "write" => AtLeast(VecsAfter(Skim(file).vecs, batch), VecsAfter(SettledVecs, batch))
    /\ npc = "sync"  => AtLeast(Skim(file).vecs, VecsAfter(SettledVecs, batch))

FreshKv ==
    \A n \in Base .. Len(file), k \in Key, x \in Field \cup {"string"} :
        \E m \in 0 .. Len(batch) :
            View(Skim(SubSeq(file, 1, n)).kv, k, x)
                = View(KvAfter(SettledKv, SubSeq(batch, 1, m)), k, x)

RecoveryInv ==
    /\ DurableInv
    /\ file \in Seq(Entry)
    /\ FoundKv
    /\ faults = 0 => FoundVecs
    /\ KeptVecs
    /\ FreshKv

(*****************************************************************************)
(* A file that goes on, behind its first m entries, with the first records   *)
(* of a batch.                                                               *)
(*****************************************************************************)
LEMMA SkimFurther ==
    ASSUME NEW t \in Seq(Entry), NEW m \in 0 .. Len(t),
           NEW b \in Seq(PersistenceCommand), NEW i \in 0 .. Len(b),
           m + i <= Len(t), \A j \in 1 .. i : t[m + j] = Whole(b[j])
    PROVE  /\ Skim(SubSeq(t, 1, m + i)).kv
                  = KvAfter(Skim(SubSeq(t, 1, m)).kv, SubSeq(b, 1, i))
           /\ Skim(SubSeq(t, 1, m + i)).vecs
                  = VecsAfter(Skim(SubSeq(t, 1, m)).vecs, SubSeq(b, 1, i))
<1> DEFINE s == SubSeq(t, 1, m)
           p == SubSeq(b, 1, i)
           u == SubSeq(t, 1, m + i)
<1>1. /\ s \in Seq(Entry) /\ Len(s) = m /\ \A j \in 1 .. m : s[j] = t[j]
      /\ p \in Seq(PersistenceCommand) /\ Len(p) = i /\ \A j \in 1 .. i : p[j] = b[j]
      /\ u \in Seq(Entry) /\ Len(u) = m + i /\ \A j \in 1 .. m + i : u[j] = t[j]
      /\ m \in Nat /\ i \in Nat
    OBVIOUS
<1> HIDE DEF s, p, u
<1>2. /\ Written(p) \in Seq(Entry) /\ Len(Written(p)) = i
      /\ \A j \in 1 .. i : Written(p)[j] = Whole(b[j])
    BY <1>1, WrittenType
<1> DEFINE w == Written(p)
<1> HIDE DEF w
<1>3. /\ s \o w \in Seq(Entry) /\ Len(s \o w) = m + i
      /\ \A j \in 1 .. m : (s \o w)[j] = s[j]
      /\ \A j \in 1 .. i : (s \o w)[m + j] = w[j]
    <2>1. s \in Seq(Entry) /\ w \in Seq(Entry)
        BY <1>1, <1>2 DEF w
    <2>2. /\ s \o w \in Seq(Entry) /\ Len(s \o w) = Len(s) + Len(w)
          /\ \A j \in 1 .. Len(s) : (s \o w)[j] = s[j]
          /\ \A j \in 1 .. Len(w) : (s \o w)[Len(s) + j] = w[j]
        BY <2>1, ConcatElements
    <2> QED
        BY <2>2, <1>1, <1>2 DEF w
<1>4. /\ \A j \in 1 .. m : (s \o w)[j] = u[j]
      /\ \A j \in 1 .. i : (s \o w)[m + j] = u[m + j]
    <2>1. ASSUME NEW j \in 1 .. m PROVE (s \o w)[j] = u[j]
        <3>1. j \in 1 .. m + i
            BY <1>1
        <3> QED
            BY <1>1, <1>3, <3>1
    <2>2. ASSUME NEW j \in 1 .. i PROVE (s \o w)[m + j] = u[m + j]
        <3>1. m + j \in 1 .. m + i
            BY <1>1
        <3>2. u[m + j] = t[m + j]
            BY <1>1, <3>1
        <3>3. (s \o w)[m + j] = w[j] /\ w[j] = Whole(b[j])
            BY <1>2, <1>3 DEF w
        <3> QED
            BY <3>2, <3>3
    <2> QED
        BY <2>1, <2>2
<1>5. s \o w = u
    <2> DEFINE v == s \o w
    <2> HIDE DEF v
    <2>1. /\ v \in Seq(Entry) /\ Len(v) = m + i
          /\ \A j \in 1 .. m : v[j] = u[j]
          /\ \A j \in 1 .. i : v[m + j] = u[m + j]
        BY <1>3, <1>4 DEF v
    <2>2. u \in Seq(Entry) /\ Len(u) = m + i /\ m \in Nat /\ i \in Nat
        BY <1>1
    <2>3. v = u
        BY <2>1, <2>2, EqualInParts
    <2> QED
        BY <2>3 DEF v
<1>6. /\ Skim(s \o w).kv = KvAfter(Skim(s).kv, p)
      /\ Skim(s \o w).vecs = VecsAfter(Skim(s).vecs, p)
    BY <1>1, SkimWritten DEF w
<1> QED
    BY <1>5, <1>6 DEF s, p, u

(*****************************************************************************)
(* What a write leaves: the first n records of the batch behind the file,    *)
(* all of them if it succeeds, and perhaps one entry more that a replay does *)
(* not see.                                                                  *)
(*****************************************************************************)
BatchBehind(n) ==
    /\ Len(file') \in Len(file) + n .. Len(file) + n + 1
    /\ \A i \in 1 .. Len(file) : file'[i] = file[i]
    /\ \A j \in 1 .. n : file'[Len(file) + j] = Whole(batch[j])
    /\ Len(file') = Len(file) + n + 1 =>
           Skim(file') = Skim(SubSeq(file', 1, Len(file) + n))

LEMMA WriteAllEffect ==
    ASSUME PersistenceTypeOK, file \in Seq(Entry), WriteAll
    PROVE  file' \in Seq(Entry) /\ BatchBehind(Len(batch)) /\ Len(file') = Len(file) + Len(batch)
<1>1. batch \in Seq(PersistenceCommand) /\ Len(batch) \in Nat /\ Len(file) \in Nat
    BY DEF PersistenceTypeOK
<1>2. /\ Payload \in Seq(Entry) /\ Len(Payload) = Len(batch)
      /\ \A i \in 1 .. Len(batch) : Payload[i] = Whole(batch[i])
    BY <1>1, WrittenType DEF Written, Payload
<1> DEFINE w == Payload
<1> HIDE DEF w
<1>3. file' = file \o w
    BY DEF WriteAll, w
<1>4. w \in Seq(Entry) /\ Len(w) = Len(batch) /\ \A i \in 1 .. Len(batch) : w[i] = Whole(batch[i])
    BY <1>2 DEF w
<1>5. /\ file' \in Seq(Entry) /\ Len(file') = Len(file) + Len(batch)
      /\ \A i \in 1 .. Len(file) : file'[i] = file[i]
      /\ \A j \in 1 .. Len(batch) : file'[Len(file) + j] = Whole(batch[j])
    <2>1. file \in Seq(Entry) /\ w \in Seq(Entry)
        BY <1>4
    <2>2. /\ file \o w \in Seq(Entry) /\ Len(file \o w) = Len(file) + Len(w)
          /\ \A i \in 1 .. Len(file) : (file \o w)[i] = file[i]
          /\ \A j \in 1 .. Len(w) : (file \o w)[Len(file) + j] = w[j]
        BY <2>1, ConcatElements
    <2> QED
        BY <2>2, <1>3, <1>4
<1> QED
    BY <1>1, <1>5 DEF BatchBehind

LEMMA WriteFailsEffect ==
    ASSUME PersistenceTypeOK, file \in Seq(Entry), WriteFails
    PROVE  file' \in Seq(Entry) /\ \E n \in 0 .. Len(batch) : BatchBehind(n)
<1>1. PICK n \in 0 .. Len(batch) - 1 :
          \E part \in {<<>>} \cup {<<e>> : e \in Cut(batch[n + 1])} :
              file' = file \o SubSeq(Payload, 1, n) \o part
    BY DEF WriteFails
<1>2. PICK part \in {<<>>} \cup {<<e>> : e \in Cut(batch[n + 1])} :
          file' = file \o SubSeq(Payload, 1, n) \o part
    BY <1>1
<1>3. /\ batch \in Seq(PersistenceCommand) /\ Len(batch) \in Nat /\ Len(file) \in Nat
      /\ n \in Nat /\ n \in 0 .. Len(batch) /\ batch[n + 1] \in PersistenceCommand
    BY <1>1 DEF PersistenceTypeOK
<1>4. /\ Payload \in Seq(Entry) /\ Len(Payload) = Len(batch)
      /\ \A i \in 1 .. Len(batch) : Payload[i] = Whole(batch[i])
    BY <1>3, WrittenType DEF Written, Payload
<1> DEFINE w == SubSeq(Payload, 1, n)
           u == file \o w
<1>5. /\ w \in Seq(Entry) /\ Len(w) = n
      /\ \A i \in 1 .. n : w[i] = Whole(batch[i])
    BY <1>3, <1>4
<1>6. file' = u \o part
    BY <1>2
<1> HIDE DEF w
<1>7. /\ u \in Seq(Entry) /\ Len(u) = Len(file) + n
      /\ \A j \in 1 .. Len(file) : u[j] = file[j]
      /\ \A j \in 1 .. n : u[Len(file) + j] = Whole(batch[j])
    <2>1. file \in Seq(Entry) /\ w \in Seq(Entry)
        BY <1>5
    <2>2. /\ file \o w \in Seq(Entry) /\ Len(file \o w) = Len(file) + Len(w)
          /\ \A i \in 1 .. Len(file) : (file \o w)[i] = file[i]
          /\ \A j \in 1 .. Len(w) : (file \o w)[Len(file) + j] = w[j]
        BY <2>1, ConcatElements
    <2> QED
        BY <2>2, <1>5
<1> HIDE DEF u
<1>9. CASE part = <<>>
    <2>1. file' = u
        BY <1>6, <1>7, <1>9
    <2>2. BatchBehind(n)
        BY <1>3, <1>7, <2>1 DEF BatchBehind
    <2> QED
        BY <1>3, <1>7, <2>1, <2>2
<1>10. ASSUME NEW e \in Cut(batch[n + 1]), part = <<e>>
       PROVE  file' \in Seq(Entry) /\ \E i \in 0 .. Len(batch) : BatchBehind(i)
    <2>1. e \in Entry /\ Skim(Append(u, e)) = Skim(u)
        BY <1>3, <1>7, SkimCut
    <2>2. file' = Append(u, e)
        BY <1>6, <1>7, <1>10, <2>1, AppendIsConcat
    <2>3. /\ file' \in Seq(Entry) /\ Len(file') = Len(file) + n + 1
          /\ \A j \in 1 .. Len(file) + n : file'[j] = u[j]
        BY <1>7, <2>1, <2>2, AppendElements
    <2>4. SubSeq(file', 1, Len(file) + n) = u
        <3>1. SubSeq(file', 1, Len(file) + n) = SubSeq(u, 1, Len(file) + n)
            BY <1>3, <1>7, <2>3, SamePrefix
        <3> QED
            BY <1>7, <3>1, SubSeqFull
    <2>5. /\ \A j \in 1 .. Len(file) : file'[j] = file[j]
          /\ \A j \in 1 .. n : file'[Len(file) + j] = Whole(batch[j])
        <3>1. ASSUME NEW j \in 1 .. Len(file) PROVE j \in 1 .. Len(file) + n
            BY <1>3
        <3>2. ASSUME NEW j \in 1 .. n PROVE Len(file) + j \in 1 .. Len(file) + n
            BY <1>3
        <3> QED
            BY <1>7, <2>3, <3>1, <3>2
    <2>6. Skim(file') = Skim(SubSeq(file', 1, Len(file) + n))
        BY <2>1, <2>2, <2>4
    <2>7. Len(file') \in Len(file) + n .. Len(file) + n + 1
        BY <1>3, <2>3
    <2>8. BatchBehind(n)
        BY <2>5, <2>6, <2>7 DEF BatchBehind
    <2> QED
        BY <1>3, <2>3, <2>8
<1> QED
    BY <1>2, <1>9, <1>10

(*****************************************************************************)
(* Seen as one string or one hash field of one key, a sequence of records    *)
(* either leaves what is there or decides what is there.                     *)
(*****************************************************************************)
LEMMA ViewLeftOrDecided ==
    ASSUME NEW p \in Seq(PersistenceCommand), NEW k \in Key, NEW x
    PROVE  \/ \A kv \in KvState : View(KvAfter(kv, p), k, x) = View(kv, k, x)
           \/ \A kv1, kv2 \in KvState : View(KvAfter(kv1, p), k, x) = View(KvAfter(kv2, p), k, x)
<1>1. KnownEffect(p, k)
    BY EffectsKnown
<1>2. CASE Leaves(p, k)
    BY <1>2 DEF Leaves, View
<1>3. ASSUME NEW c, Replaces(p, k, c)
      PROVE  \A kv1, kv2 \in KvState : View(KvAfter(kv1, p), k, x) = View(KvAfter(kv2, p), k, x)
    BY <1>3 DEF Replaces, View
<1>4. ASSUME NEW h \in FieldMap, Merges(p, k, h)
      PROVE  \/ \A kv \in KvState : View(KvAfter(kv, p), k, x) = View(kv, k, x)
             \/ \A kv1, kv2 \in KvState : View(KvAfter(kv1, p), k, x) = View(KvAfter(kv2, p), k, x)
    <2>1. ASSUME NEW kv \in KvState
          PROVE  View(KvAfter(kv, p), k, x) =
                     IF x \notin Field THEN NoVal
                     ELSE IF h[x] # NoVal THEN h[x] ELSE View(kv, k, x)
        <3>1. /\ KvAfter(kv, p)[k].kind = "hash"
              /\ KvAfter(kv, p)[k].fields = HmSetOver(kv[k], h)
            <4>1. KvAfter(kv, p)[k] = FlatHash(HmSetOver(kv[k], h))
                BY <1>4 DEF Merges
            <4> QED
                BY <4>1 DEF FlatHash
        <3>2. ASSUME x \in Field
              PROVE  HmSetOver(kv[k], h)[x] = IF h[x] # NoVal THEN h[x] ELSE View(kv, k, x)
            <4>1. CASE kv[k].kind = "hash"
                BY <3>2, <4>1 DEF HmSetOver, Merge, View
            <4>2. CASE kv[k].kind # "hash"
                BY <3>2, <4>2 DEF HmSetOver, View
            <4> QED
                BY <4>1, <4>2
        <3> QED
            BY <3>1, <3>2 DEF View
    <2>2. CASE x \in Field /\ h[x] = NoVal
        BY <2>1, <2>2
    <2>3. CASE ~ (x \in Field /\ h[x] = NoVal)
        BY <2>1, <2>3
    <2> QED
        BY <2>2, <2>3
<1> QED
    BY <1>1, <1>2, <1>3, <1>4 DEF KnownEffect

LEMMA Counts ==
    ASSUME DurableInv
    PROVE  /\ sent \in Seq(PersistenceCommand) /\ batch \in Seq(PersistenceCommand)
           /\ committed \in Nat /\ Len(batch) \in Nat /\ Len(sent) \in Nat
           /\ committed <= Len(sent) /\ committed + Len(batch) <= Len(sent)
           /\ \A j \in 1 .. Len(batch) : sent[committed + j] = batch[j]
<1>1. /\ Len(batch) \in Nat /\ Len(chan) \in Nat /\ committed \in Nat
      /\ Len(sent) = committed + Len(batch) + Len(chan)
    BY DEF DurableInv, PersistenceTypeOK, Accounted
<1> QED
    BY <1>1 DEF DurableInv, PersistenceTypeOK, Accounted

LEMMA BootType ==
    ASSUME DurableInv, file \in Seq(Entry)
    PROVE  /\ SkimBoot = Skim(SubSeq(file, 1, boot)) /\ SkimBoot \in FileState
           /\ SkimBoot.kv \in KvState /\ SkimBoot.vecs \in VecState
<1>1. SubSeq(file, 1, boot) \in Seq(Entry)
    BY DEF DurableInv, PersistenceTypeOK
<1>2. Skim(SubSeq(file, 1, boot)) \in FileState
    BY <1>1, SkimType
<1> QED
    BY <1>2 DEF SkimBoot, FileState

LEMMA SettledType ==
    ASSUME DurableInv, file \in Seq(Entry)
    PROVE  SettledKv \in KvState /\ SettledVecs \in VecState
<1>1. SubSeq(sent, 1, committed) \in Seq(PersistenceCommand) /\ FlushRec \in PersistenceCommand
    BY DEF DurableInv, PersistenceTypeOK, Accounted, PersistenceCommand
<1> QED
    BY <1>1, BootType, KvAfterType, VecsAfterAppend DEF SettledKv, SettledVecs

(*****************************************************************************)
(* Steps that commit nothing and do not restart leave Settled and Base alone.*)
(*****************************************************************************)
LEMMA SettledKept ==
    ASSUME DurableInv, DurableInv', file \in Seq(Entry), file' \in Seq(Entry),
           Len(file) <= Len(file'), \A i \in 1 .. Len(file) : file'[i] = file[i],
           UNCHANGED <<synced, boot, committed>>,
           \A i \in 1 .. committed : sent'[i] = sent[i]
    PROVE  /\ SettledKv' = SettledKv /\ SettledVecs' = SettledVecs
           /\ Base' = Base /\ Base \in 0 .. Len(file)
           /\ \A n \in 0 .. Len(file) : SubSeq(file', 1, n) = SubSeq(file, 1, n)
<1>1. /\ boot \in Nat /\ synced \in Nat /\ committed \in Nat /\ Len(file) \in Nat /\ Len(file') \in Nat
      /\ boot <= Len(file) /\ synced <= Len(file)
      /\ sent \in Seq(PersistenceCommand) /\ sent' \in Seq(PersistenceCommand)
      /\ committed <= Len(sent) /\ committed <= Len(sent')
    <2>1. /\ Len(batch) \in Nat /\ Len(chan) \in Nat /\ Len(batch') \in Nat /\ Len(chan') \in Nat
          /\ Len(sent) = committed + Len(batch) + Len(chan)
          /\ Len(sent') = committed + Len(batch') + Len(chan')
        BY SMTT(30) DEF DurableInv, PersistenceTypeOK, Accounted
    <2> QED
        BY <2>1, SMTT(30) DEF DurableInv, PersistenceTypeOK
<1>2. ASSUME NEW n \in 0 .. Len(file) PROVE SubSeq(file', 1, n) = SubSeq(file, 1, n)
    <2>1. n <= Len(file) /\ n <= Len(file') /\ \A i \in 1 .. n : file'[i] = file[i]
        BY <1>1
    <2> QED
        BY <1>1, <2>1, SamePrefix
<1>3. SubSeq(sent', 1, committed) = SubSeq(sent, 1, committed)
    BY <1>1, SamePrefix
<1>4. SubSeq(file', 1, boot) = SubSeq(file, 1, boot)
    BY <1>1, <1>2
<1>5. SkimBoot' = SkimBoot
    BY <1>4 DEF SkimBoot
<1>6. SettledKv' = SettledKv /\ SettledVecs' = SettledVecs
    BY <1>3, <1>5 DEF SettledKv, SettledVecs
<1>7. Base' = Base /\ Base \in 0 .. Len(file)
    BY <1>1 DEF Base
<1> QED
    BY <1>2, <1>6, <1>7

LEMMA FileUntouched ==
    ASSUME RecoveryInv, DurableInv', UNCHANGED <<file, synced, boot, committed>>,
           \A i \in 1 .. committed : sent'[i] = sent[i],
           Len(batch) <= Len(batch'), \A i \in 1 .. Len(batch) : batch'[i] = batch[i]
    PROVE  /\ SettledKv' = SettledKv /\ SettledVecs' = SettledVecs /\ Base' = Base
           /\ file' \in Seq(Entry)
           /\ FreshKv'
<1>1. DurableInv /\ file \in Seq(Entry) /\ FreshKv
    BY DEF RecoveryInv
<1>2. /\ SettledKv' = SettledKv /\ SettledVecs' = SettledVecs /\ Base' = Base
    BY <1>1, SettledKept
<1>3. /\ batch \in Seq(PersistenceCommand) /\ batch' \in Seq(PersistenceCommand)
      /\ Len(batch) \in Nat /\ Len(batch') \in Nat
    BY <1>1 DEF DurableInv, PersistenceTypeOK
<1>4. ASSUME NEW m \in 0 .. Len(batch)
      PROVE  m \in 0 .. Len(batch') /\ SubSeq(batch', 1, m) = SubSeq(batch, 1, m)
    <2>1. m \in Nat /\ m <= Len(batch) /\ m <= Len(batch') /\ \A i \in 1 .. m : batch'[i] = batch[i]
        BY <1>3
    <2> QED
        BY <1>3, <2>1, SamePrefix
<1>5. FreshKv'
    <2> SUFFICES ASSUME NEW n \in Base .. Len(file), NEW k \in Key, NEW x \in Field \cup {"string"}
                 PROVE  \E m \in 0 .. Len(batch') :
                            View(Skim(SubSeq(file, 1, n)).kv, k, x)
                                = View(KvAfter(SettledKv, SubSeq(batch', 1, m)), k, x)
        BY <1>2 DEF FreshKv
    <2>1. PICK m \in 0 .. Len(batch) :
              View(Skim(SubSeq(file, 1, n)).kv, k, x)
                  = View(KvAfter(SettledKv, SubSeq(batch, 1, m)), k, x)
        BY <1>1 DEF FreshKv
    <2> QED
        BY <1>4, <2>1
<1> QED
    BY <1>1, <1>2, <1>5

LEMMA RecoveryInit == PersistenceInit => RecoveryInv
<1> SUFFICES ASSUME PersistenceInit PROVE RecoveryInv
    OBVIOUS
<1>1. DurableInv
    BY DurableInit
<1>2. /\ file = <<>> /\ sent = <<>> /\ batch = <<>> /\ npc = "open"
      /\ committed = 0 /\ boot = 0 /\ synced = 0
    BY DEF PersistenceInit
<1>3. file \in Seq(Entry)
    BY <1>2
<1>4. SubSeq(file, 1, 0) = file /\ SubSeq(sent, 1, 0) = <<>> /\ SubSeq(batch, 1, 0) = <<>>
      /\ Len(file) = 0 /\ Len(batch) = 0
    BY <1>2
<1>5. /\ SkimBoot = Skim(file)
      /\ Skim(file).kv \in KvState /\ Skim(file).vecs \in VecState
    BY <1>1, <1>2, <1>3, <1>4, BootType
<1>6. SettledKv = Skim(file).kv /\ SettledVecs = Skim(file).vecs /\ Base = 0
    BY <1>2, <1>4, <1>5, KvAfterAppend, VecsAfterAppend DEF SettledKv, SettledVecs, Base
<1>7. FoundKv /\ FoundVecs
    BY <1>2, <1>4, <1>6 DEF FoundKv, FoundVecs, InCommit
<1>9. KeptVecs
    BY <1>2, <1>5, <1>6 DEF KeptVecs, InCommit, AtLeast, VecState
<1>8. FreshKv
    <2> SUFFICES ASSUME NEW n \in Base .. Len(file), NEW k \in Key, NEW x \in Field \cup {"string"}
                 PROVE  \E m \in 0 .. Len(batch) :
                            View(Skim(SubSeq(file, 1, n)).kv, k, x)
                                = View(KvAfter(SettledKv, SubSeq(batch, 1, m)), k, x)
        BY DEF FreshKv
    <2>1. n = 0 /\ 0 \in 0 .. Len(batch)
        BY <1>4, <1>6
    <2>2. KvAfter(SettledKv, SubSeq(batch, 1, 0)) = Skim(file).kv
        BY <1>4, <1>5, <1>6, KvAfterAppend
    <2> QED
        BY <1>4, <2>1, <2>2
<1> QED
    BY <1>1, <1>3, <1>7, <1>8, <1>9 DEF RecoveryInv

(*****************************************************************************)
(* A crash makes what survives of the file the new beginning.                *)
(*****************************************************************************)
LEMMA SurvivorSkim ==
    ASSUME PersistenceTypeOK, file \in Seq(Entry), NEW s \in Survivors
    PROVE  /\ s \in Seq(Entry)
           /\ \E n \in synced .. Len(file) : Skim(s) = Skim(SubSeq(file, 1, n))
<1>1. file \in Seq(Entry) /\ Len(file) \in Nat /\ synced \in Nat
    BY DEF PersistenceTypeOK
<1>2. CASE s \in {SubSeq(file, 1, n) : n \in synced .. Len(file)}
    <2>1. PICK n \in synced .. Len(file) : s = SubSeq(file, 1, n)
        BY <1>2
    <2> QED
        BY <1>1, <2>1
<1>3. CASE s \in UNION {{Append(SubSeq(file, 1, n), e) : e \in Cut(file[n + 1].rec)}
                            : n \in synced .. Len(file) - 1}
    <2>1. PICK n \in synced .. Len(file) - 1 :
              s \in {Append(SubSeq(file, 1, n), e) : e \in Cut(file[n + 1].rec)}
        BY <1>3
    <2>2. PICK e \in Cut(file[n + 1].rec) : s = Append(SubSeq(file, 1, n), e)
        BY <2>1
    <2>3. n \in synced .. Len(file) /\ SubSeq(file, 1, n) \in Seq(Entry)
          /\ file[n + 1] \in Entry
        BY <1>1
    <2>4. file[n + 1].rec \in PersistenceCommand
        BY <2>3, EntryRec
    <2>5. e \in Entry /\ Skim(s) = Skim(SubSeq(file, 1, n))
        BY <2>2, <2>3, <2>4, SkimCut
    <2>6. s \in Seq(Entry)
        BY <2>2, <2>3, <2>5, AppendElements
    <2> QED
        BY <2>3, <2>5, <2>6
<1> QED
    BY <1>2, <1>3 DEF Survivors

LEMMA RecoveryCrash ==
    ASSUME RecoveryInv, DurableInv', Crash
    PROVE  RecoveryInv'
<1>1. file' \in Seq(Entry)
    BY SurvivorSkim DEF RecoveryInv, DurableInv, Crash
<1>2. /\ sent' = <<>> /\ batch' = <<>> /\ npc' = "open" /\ committed' = 0
      /\ boot' = Len(file') /\ synced' <= Len(file') /\ synced' \in Nat /\ Len(file') \in Nat
    BY DEF Crash, DurableInv, PersistenceTypeOK
<1>3. SubSeq(file', 1, boot') = file' /\ SubSeq(sent', 1, committed') = <<>>
      /\ SubSeq(batch', 1, 0) = <<>> /\ Len(batch') = 0
    BY <1>1, <1>2
<1>4. Skim(file') \in FileState
    BY <1>1, SkimType
<1>5. Skim(file').kv \in KvState /\ Skim(file').vecs \in VecState
    BY <1>4 DEF FileState
<1>6. SkimBoot' = Skim(file')
    BY <1>3 DEF SkimBoot
<1>7. SkimBoot'.kv = Skim(file').kv /\ SkimBoot'.vecs = Skim(file').vecs
    BY <1>4, <1>6 DEF FileState
<1>8. SettledKv' = Skim(file').kv /\ SettledVecs' = Skim(file').vecs
    BY <1>3, <1>5, <1>7, KvAfterAppend, VecsAfterAppend DEF SettledKv, SettledVecs
<1>9. Base' = Len(file')
    BY <1>2 DEF Base
<1>10. FoundKv' /\ FoundVecs'
    BY <1>2, <1>3, <1>8, <1>9 DEF FoundKv, FoundVecs, InCommit
<1>12. KeptVecs'
    BY <1>2, <1>5, <1>8 DEF KeptVecs, InCommit, AtLeast, VecState
<1>11. FreshKv'
    <2> SUFFICES ASSUME NEW n \in Base' .. Len(file'), NEW k \in Key, NEW x \in Field \cup {"string"}
                 PROVE  \E m \in 0 .. Len(batch') :
                            View(Skim(SubSeq(file', 1, n)).kv, k, x)
                                = View(KvAfter(SettledKv', SubSeq(batch', 1, m)), k, x)
        BY DEF FreshKv
    <2>1. n = Len(file') /\ 0 \in 0 .. Len(batch')
        BY <1>2, <1>3, <1>9
    <2>2. KvAfter(SettledKv', SubSeq(batch', 1, 0)) = Skim(file').kv
        BY <1>3, <1>5, <1>8, KvAfterAppend
    <2>3. SubSeq(file', 1, n) = file'
        BY <1>2, <1>3, <2>1
    <2> QED
        BY <2>1, <2>2, <2>3
<1> QED
    BY <1>1, <1>10, <1>11, <1>12 DEF RecoveryInv

(*****************************************************************************)
(* The fsync settles the batch.                                              *)
(*****************************************************************************)
LEMMA SettledGrows ==
    ASSUME DurableInv, file \in Seq(Entry), NEW m \in 0 .. Len(batch)
    PROVE  LET log  == SubSeq(sent, 1, committed + m)
               part == SubSeq(batch, 1, m)
           IN  /\ KvAfter(SkimBoot.kv, log) = KvAfter(SettledKv, part)
               /\ VecsAfter(SkimBoot.vecs, log) = VecsAfter(SettledVecs, part)
<1> DEFINE log == SubSeq(sent, 1, committed + m)
           old == SubSeq(sent, 1, committed)
           part == SubSeq(batch, 1, m)
<1>1. /\ sent \in Seq(PersistenceCommand) /\ batch \in Seq(PersistenceCommand)
      /\ committed \in Nat /\ Len(batch) \in Nat /\ m \in Nat /\ m <= Len(batch)
      /\ committed + m <= Len(sent)
      /\ \A j \in 1 .. Len(batch) : sent[committed + j] = batch[j]
    BY Counts
<1>2. /\ old \in Seq(PersistenceCommand) /\ Len(old) = committed
      /\ \A i \in 1 .. committed : old[i] = sent[i]
      /\ part \in Seq(PersistenceCommand) /\ Len(part) = m
      /\ \A j \in 1 .. m : part[j] = batch[j]
    BY <1>1
<1>3. /\ log \in Seq(PersistenceCommand) /\ Len(log) = committed + m
      /\ \A i \in 1 .. committed : log[i] = sent[i]
      /\ \A j \in 1 .. m : log[committed + j] = sent[committed + j]
    BY <1>1
<1> HIDE DEF log, old, part
<1>4. /\ old \o part \in Seq(PersistenceCommand) /\ Len(old \o part) = Len(old) + Len(part)
      /\ \A i \in 1 .. Len(old) : (old \o part)[i] = old[i]
      /\ \A j \in 1 .. Len(part) : (old \o part)[Len(old) + j] = part[j]
    <2>1. old \in Seq(PersistenceCommand) /\ part \in Seq(PersistenceCommand)
        BY <1>2
    <2> QED
        BY <2>1, ConcatElements
<1>5. log = old \o part
    <2> DEFINE t == old \o part
    <2> HIDE DEF t
    <2>1. /\ t \in Seq(PersistenceCommand) /\ Len(t) = committed + m
          /\ \A i \in 1 .. committed : t[i] = old[i]
          /\ \A j \in 1 .. m : t[committed + j] = part[j]
        BY <1>2, <1>4 DEF t
    <2>2. \A i \in 1 .. committed : log[i] = t[i]
        BY <1>2, <1>3, <2>1
    <2>3. ASSUME NEW j \in 1 .. m PROVE log[committed + j] = t[committed + j]
        <3>1. j \in 1 .. Len(batch)
            BY <1>1
        <3>2. log[committed + j] = sent[committed + j]
            BY <1>3
        <3>3. sent[committed + j] = batch[j]
            BY <1>1, <3>1
        <3>4. t[committed + j] = part[j]
            BY <2>1
        <3>5. part[j] = batch[j]
            BY <1>2
        <3> QED
            BY <3>2, <3>3, <3>4, <3>5
    <2>4. log = t
        BY <1>1, <1>3, <2>1, <2>2, <2>3, EqualInParts
    <2> QED
        BY <2>4 DEF t
<1>6. SkimBoot.kv \in KvState /\ SkimBoot.vecs \in VecState
    BY BootType
<1>7. /\ KvAfter(SkimBoot.kv, log) = KvAfter(SettledKv, part)
      /\ VecsAfter(SkimBoot.vecs, log) = VecsAfter(SettledVecs, part)
    BY <1>2, <1>5, <1>6, KvAfterConcat, VecsAfterConcat DEF SettledKv, SettledVecs, old
<1> QED
    BY <1>7 DEF log, part

LEMMA RecoverySyncOk ==
    ASSUME RecoveryInv, DurableInv', SyncOk
    PROVE  RecoveryInv'
<1>1. DurableInv /\ file \in Seq(Entry) /\ npc = "sync" /\ npc' = "poll"
    BY DEF RecoveryInv, SyncOk
<1>2. /\ file' = file /\ boot' = boot /\ sent' = sent /\ faults' = faults
      /\ committed' = committed + Len(batch) /\ synced' = Len(file) /\ batch' = <<>>
    BY DEF SyncOk
<1>3. SkimBoot' = SkimBoot
    BY <1>2 DEF SkimBoot
<1>4. SettledKv' = KvAfter(SettledKv, batch) /\ SettledVecs' = VecsAfter(SettledVecs, batch)
    <2>1. Len(batch) \in 0 .. Len(batch) /\ SubSeq(batch, 1, Len(batch)) = batch
        BY <1>1, Counts, SubSeqFull
    <2>2. /\ KvAfter(SkimBoot.kv, SubSeq(sent, 1, committed + Len(batch))) = KvAfter(SettledKv, batch)
          /\ VecsAfter(SkimBoot.vecs, SubSeq(sent, 1, committed + Len(batch)))
                 = VecsAfter(SettledVecs, batch)
        BY <1>1, <2>1, SettledGrows
    <2> QED
        BY <1>2, <1>3, <2>2 DEF SettledKv, SettledVecs
<1>5. Base' = Len(file) /\ Len(file) \in Nat /\ SubSeq(file, 1, Len(file)) = file
    BY <1>1, <1>2 DEF DurableInv, Base, PersistenceTypeOK
<1>6. Skim(file).kv = SettledKv'
    BY <1>1, <1>4 DEF RecoveryInv, FoundKv
<1>7. FoundKv'
    BY <1>1, <1>2, <1>5, <1>6 DEF FoundKv, InCommit
<1>8. (faults' = 0 => FoundVecs') /\ KeptVecs'
    BY <1>1, <1>2, <1>4 DEF RecoveryInv, FoundVecs, KeptVecs, InCommit
<1>9. FreshKv'
    <2> SUFFICES ASSUME NEW n \in Base' .. Len(file), NEW k \in Key, NEW x \in Field \cup {"string"}
                 PROVE  \E m \in 0 .. Len(batch') :
                            View(Skim(SubSeq(file, 1, n)).kv, k, x)
                                = View(KvAfter(SettledKv', SubSeq(batch', 1, m)), k, x)
        BY <1>2 DEF FreshKv
    <2>1. n = Len(file) /\ 0 \in 0 .. Len(batch') /\ SubSeq(batch', 1, 0) = <<>>
        BY <1>2, <1>5
    <2>2. Skim(file) \in FileState /\ Skim(file).kv \in KvState
        BY <1>1, SkimType DEF FileState
    <2>3. KvAfter(SettledKv', SubSeq(batch', 1, 0)) = Skim(file).kv
        BY <1>6, <2>1, <2>2, KvAfterAppend
    <2> QED
        BY <1>5, <2>1, <2>3
<1> QED
    BY <1>1, <1>2, <1>7, <1>8, <1>9 DEF RecoveryInv

(*****************************************************************************)
(* A write, whole or cut short, puts the first n records of the batch behind *)
(* the file.                                                                 *)
(*****************************************************************************)
LEMMA WriteSkimmed ==
    ASSUME PersistenceTypeOK, file \in Seq(Entry), file' \in Seq(Entry),
           NEW n \in 0 .. Len(batch), BatchBehind(n)
    PROVE  /\ \A i \in 0 .. n :
                  /\ Skim(SubSeq(file', 1, Len(file) + i)).kv
                         = KvAfter(Skim(file).kv, SubSeq(batch, 1, i))
                  /\ Skim(SubSeq(file', 1, Len(file) + i)).vecs
                         = VecsAfter(Skim(file).vecs, SubSeq(batch, 1, i))
           /\ Skim(file') = Skim(SubSeq(file', 1, Len(file) + n))
<1>1. /\ batch \in Seq(PersistenceCommand) /\ Len(batch) \in Nat /\ Len(file) \in Nat
      /\ Len(file') \in Nat /\ n \in Nat
      /\ Len(file') \in Len(file) + n .. Len(file) + n + 1
      /\ \A i \in 1 .. Len(file) : file'[i] = file[i]
      /\ \A j \in 1 .. n : file'[Len(file) + j] = Whole(batch[j])
    BY DEF PersistenceTypeOK, BatchBehind
<1>2. SubSeq(file', 1, Len(file)) = file
    <2>1. SubSeq(file', 1, Len(file)) = SubSeq(file, 1, Len(file))
        BY <1>1, SamePrefix
    <2> QED
        BY <2>1, SubSeqFull
<1>3. ASSUME NEW i \in 0 .. n
      PROVE  /\ Skim(SubSeq(file', 1, Len(file) + i)).kv
                    = KvAfter(Skim(file).kv, SubSeq(batch, 1, i))
             /\ Skim(SubSeq(file', 1, Len(file) + i)).vecs
                    = VecsAfter(Skim(file).vecs, SubSeq(batch, 1, i))
    <2>1. /\ Len(file) \in 0 .. Len(file') /\ i \in 0 .. Len(batch) /\ Len(file) + i <= Len(file')
          /\ \A j \in 1 .. i : file'[Len(file) + j] = Whole(batch[j])
        BY <1>1
    <2> QED
        <3> DEFINE t == file'
                   m == Len(file)
                   b == batch
        <3>1. /\ t \in Seq(Entry) /\ m \in 0 .. Len(t) /\ b \in Seq(PersistenceCommand)
              /\ i \in 0 .. Len(b) /\ m + i <= Len(t)
              /\ \A j \in 1 .. i : t[m + j] = Whole(b[j])
            BY <1>1, <2>1
        <3> HIDE DEF t, m, b
        <3>2. /\ Skim(SubSeq(t, 1, m + i)).kv
                     = KvAfter(Skim(SubSeq(t, 1, m)).kv, SubSeq(b, 1, i))
              /\ Skim(SubSeq(t, 1, m + i)).vecs
                     = VecsAfter(Skim(SubSeq(t, 1, m)).vecs, SubSeq(b, 1, i))
            BY <3>1, SkimFurther
        <3> QED
            BY <1>2, <3>2 DEF t, m, b
<1>4. Skim(file') = Skim(SubSeq(file', 1, Len(file) + n))
    <2>1. CASE Len(file') = Len(file) + n
        <3>1. SubSeq(file', 1, Len(file')) = file'
            BY SubSeqFull
        <3> QED
            BY <2>1, <3>1
    <2>2. CASE Len(file') = Len(file) + n + 1
        BY <2>2 DEF BatchBehind
    <2> QED
        BY <1>1, <2>1, <2>2
<1> QED
    BY <1>3, <1>4

LEMMA FreshWrite ==
    ASSUME RecoveryInv, DurableInv', file' \in Seq(Entry),
           NEW n \in 0 .. Len(batch), BatchBehind(n),
           UNCHANGED <<batch, sent, synced, boot, committed>>
    PROVE  /\ SettledKv' = SettledKv /\ SettledVecs' = SettledVecs
           /\ Skim(SubSeq(file', 1, Base')).kv = SettledKv'
           /\ FreshKv'
<1>1. DurableInv /\ PersistenceTypeOK /\ file \in Seq(Entry) /\ FreshKv /\ FoundKv
    BY DEF RecoveryInv, DurableInv
<1>2. /\ batch \in Seq(PersistenceCommand) /\ Len(batch) \in Nat /\ Len(file) \in Nat
      /\ Len(file') \in Nat /\ n \in Nat
      /\ Len(file') \in Len(file) + n .. Len(file) + n + 1 /\ Len(file) <= Len(file')
      /\ \A i \in 1 .. Len(file) : file'[i] = file[i]
    BY <1>1 DEF PersistenceTypeOK, BatchBehind
<1>3. /\ SettledKv' = SettledKv /\ SettledVecs' = SettledVecs
      /\ Base' = Base /\ Base \in 0 .. Len(file)
      /\ \A i \in 0 .. Len(file) : SubSeq(file', 1, i) = SubSeq(file, 1, i)
    BY <1>1, <1>2, SettledKept
<1>4. Skim(SubSeq(file', 1, Base')).kv = SettledKv'
    BY <1>1, <1>3 DEF FoundKv
<1>5. SettledKv \in KvState /\ Skim(file) \in FileState /\ Skim(file).kv \in KvState
    BY <1>1, SettledType, SkimType DEF FileState
<1>6. FreshKv'
    <2> SUFFICES ASSUME NEW l \in Base .. Len(file'), NEW k \in Key, NEW x \in Field \cup {"string"}
                 PROVE  \E m \in 0 .. Len(batch) :
                            View(Skim(SubSeq(file', 1, l)).kv, k, x)
                                = View(KvAfter(SettledKv, SubSeq(batch, 1, m)), k, x)
        BY <1>3 DEF FreshKv
    <2>1. CASE l <= Len(file)
        <3>1. l \in Base .. Len(file) /\ l \in 0 .. Len(file)
            BY <1>2, <1>3, <2>1
        <3> QED
            BY <1>1, <1>3, <3>1 DEF FreshKv
    <2>2. CASE l > Len(file)
        <3>1. PICK i \in 0 .. n : Skim(SubSeq(file', 1, l)) = Skim(SubSeq(file', 1, Len(file) + i))
            <4>1. CASE l <= Len(file) + n
                <5>1. l - Len(file) \in 0 .. n /\ Len(file) + (l - Len(file)) = l
                    BY <1>2, <1>3, <2>2, <4>1
                <5> QED
                    BY <5>1
            <4>2. CASE l > Len(file) + n
                <5>1. l = Len(file') /\ n \in 0 .. n
                    BY <1>2, <1>3, <4>2
                <5>2. SubSeq(file', 1, l) = file'
                    BY <5>1, SubSeqFull
                <5>3. Skim(file') = Skim(SubSeq(file', 1, Len(file) + n))
                    BY <1>1, WriteSkimmed
                <5> QED
                    BY <5>1, <5>2, <5>3
            <4> QED
                BY <1>2, <1>3, <4>1, <4>2
        <3> DEFINE p == SubSeq(batch, 1, i)
        <3>2. Skim(SubSeq(file', 1, l)).kv = KvAfter(Skim(file).kv, p)
            BY <1>1, <3>1, WriteSkimmed
        <3>3. p \in Seq(PersistenceCommand) /\ i \in 0 .. Len(batch)
            BY <1>2
        <3>4. PICK m \in 0 .. Len(batch) :
                  View(Skim(file).kv, k, x) = View(KvAfter(SettledKv, SubSeq(batch, 1, m)), k, x)
            <4>1. Len(file) \in Base .. Len(file) /\ SubSeq(file, 1, Len(file)) = file
                BY <1>1, <1>2, <1>3, SubSeqFull
            <4> QED
                BY <1>1, <4>1 DEF FreshKv
        <3>5. \/ View(KvAfter(Skim(file).kv, p), k, x) = View(Skim(file).kv, k, x)
              \/ View(KvAfter(Skim(file).kv, p), k, x) = View(KvAfter(SettledKv, p), k, x)
            <4> HIDE DEF p
            <4> QED
                BY <1>5, <3>3, ViewLeftOrDecided
        <3> QED
            BY <3>2, <3>3, <3>4, <3>5
    <2> QED
        BY <1>2, <1>3, <2>1, <2>2
<1> QED
    BY <1>3, <1>4, <1>6

LEMMA RecoveryWriteAll ==
    ASSUME RecoveryInv, DurableInv', WriteAll
    PROVE  RecoveryInv'
<1>1. DurableInv /\ PersistenceTypeOK /\ file \in Seq(Entry) /\ FoundKv
    BY DEF RecoveryInv, DurableInv
<1>2. /\ UNCHANGED <<batch, sent, synced, boot, committed, faults>>
      /\ npc = "write" /\ npc' = "sync"
    BY DEF WriteAll
<1>3. Len(batch) \in 0 .. Len(batch) /\ SubSeq(batch, 1, Len(batch)) = batch
    BY <1>1, SubSeqFull DEF PersistenceTypeOK
<1>4. file' \in Seq(Entry) /\ BatchBehind(Len(batch))
    BY <1>1, WriteAllEffect
<1>5. /\ SettledKv' = SettledKv /\ SettledVecs' = SettledVecs
      /\ Skim(SubSeq(file', 1, Base')).kv = SettledKv'
      /\ FreshKv'
    BY <1>2, <1>3, <1>4, FreshWrite
<1>6. /\ Skim(file').kv = KvAfter(Skim(file).kv, batch)
      /\ Skim(file').vecs = VecsAfter(Skim(file).vecs, batch)
    <2>1. Len(batch) \in 0 .. Len(batch) /\ Skim(file') = Skim(SubSeq(file', 1, Len(file) + Len(batch)))
        BY <1>1, <1>3, <1>4, WriteSkimmed
    <2>2. /\ Skim(SubSeq(file', 1, Len(file) + Len(batch))).kv
                 = KvAfter(Skim(file).kv, SubSeq(batch, 1, Len(batch)))
          /\ Skim(SubSeq(file', 1, Len(file) + Len(batch))).vecs
                 = VecsAfter(Skim(file).vecs, SubSeq(batch, 1, Len(batch)))
        BY <1>1, <1>3, <1>4, WriteSkimmed
    <2> QED
        BY <1>3, <2>1, <2>2
<1>7. FoundKv'
    BY <1>1, <1>2, <1>5, <1>6 DEF FoundKv, InCommit
<1>8. faults' = 0 => FoundVecs'
    BY <1>2, <1>5, <1>6 DEF RecoveryInv, FoundVecs
<1>9. KeptVecs'
    BY <1>2, <1>5, <1>6 DEF RecoveryInv, KeptVecs, InCommit
<1> QED
    BY <1>4, <1>5, <1>7, <1>8, <1>9 DEF RecoveryInv

LEMMA RecoveryWriteFails ==
    ASSUME RecoveryInv, DurableInv', WriteFails
    PROVE  RecoveryInv'
<1>1. DurableInv /\ PersistenceTypeOK /\ file \in Seq(Entry) /\ FoundKv
    BY DEF RecoveryInv, DurableInv
<1>2. /\ UNCHANGED <<batch, sent, synced, boot, committed>>
      /\ npc = "write" /\ npc' = "write" /\ faults' # 0
    BY <1>1 DEF WriteFails, PersistenceTypeOK
<1>3. PICK n \in 0 .. Len(batch) : file' \in Seq(Entry) /\ BatchBehind(n)
    BY <1>1, WriteFailsEffect
<1>4. /\ SettledKv' = SettledKv /\ SettledVecs' = SettledVecs
      /\ Skim(SubSeq(file', 1, Base')).kv = SettledKv'
      /\ FreshKv'
    BY <1>2, <1>3, FreshWrite
<1>5. n \in 0 .. n /\ batch \in Seq(PersistenceCommand)
    BY <1>1 DEF PersistenceTypeOK
<1>6. /\ Skim(file').kv = KvAfter(Skim(file).kv, SubSeq(batch, 1, n))
      /\ Skim(file').vecs = VecsAfter(Skim(file).vecs, SubSeq(batch, 1, n))
    <2>1. Skim(file') = Skim(SubSeq(file', 1, Len(file) + n))
        BY <1>1, <1>3, WriteSkimmed
    <2>2. /\ Skim(SubSeq(file', 1, Len(file) + n)).kv = KvAfter(Skim(file).kv, SubSeq(batch, 1, n))
          /\ Skim(SubSeq(file', 1, Len(file) + n)).vecs
                 = VecsAfter(Skim(file).vecs, SubSeq(batch, 1, n))
        BY <1>1, <1>3, <1>5, WriteSkimmed
    <2> QED
        BY <2>1, <2>2
<1>7. Skim(file) \in FileState /\ Skim(file).kv \in KvState /\ Skim(file).vecs \in VecState
    BY <1>1, SkimType DEF FileState
<1>8. KvAfter(Skim(file').kv, batch) = KvAfter(Skim(file).kv, batch)
    BY <1>5, <1>6, <1>7, PartThenWhole
<1>9. FoundKv'
    BY <1>1, <1>2, <1>4, <1>8 DEF FoundKv, InCommit
<1>10. KeptVecs'
    <2> DEFINE u == VecsAfter(VecsAfter(Skim(file).vecs, SubSeq(batch, 1, n)), batch)
               v == VecsAfter(Skim(file).vecs, batch)
               w == VecsAfter(SettledVecs, batch)
    <2>1. SettledVecs \in VecState /\ SubSeq(batch, 1, n) \in Seq(PersistenceCommand)
        BY <1>1, <1>5, SettledType
    <2>2. u \in VecState /\ v \in VecState /\ w \in VecState
        BY <1>5, <1>7, <2>1, VecsAfterType
    <2>3. AtLeast(u, v)
        BY <1>5, <1>7, PartTakesNone
    <2>4. AtLeast(v, w)
        BY <1>2 DEF RecoveryInv, KeptVecs
    <2> HIDE DEF u, v, w
    <2>5. AtLeast(u, w)
        BY <2>2, <2>3, <2>4, AtLeastTransitive
    <2> QED
        BY <1>2, <1>4, <1>6, <2>5 DEF KeptVecs, InCommit, u, w
<1> QED
    BY <1>2, <1>3, <1>4, <1>9, <1>10 DEF RecoveryInv

LEMMA RecoveryAccept ==
    ASSUME RecoveryInv, NEW r \in PersistenceCommand, Accept(r)
    PROVE  RecoveryInv'
<1>1. DurableInv /\ DurableInv'
    BY DurableAccept DEF RecoveryInv
<1>2. /\ Len(batch) \in Nat /\ committed \in Nat /\ committed <= Len(sent)
      /\ sent \in Seq(PersistenceCommand)
    BY <1>1, Counts
<1>3. /\ UNCHANGED <<file, synced, boot, committed, faults, npc, batch>>
      /\ \A i \in 1 .. committed : sent'[i] = sent[i]
    BY <1>2 DEF Accept
<1>4. /\ SettledKv' = SettledKv /\ SettledVecs' = SettledVecs /\ Base' = Base
      /\ file' \in Seq(Entry) /\ FreshKv'
    BY <1>1, <1>2, <1>3, FileUntouched
<1>5. FoundKv' /\ (faults' = 0 => FoundVecs') /\ KeptVecs'
    BY <1>3, <1>4 DEF RecoveryInv, FoundKv, FoundVecs, KeptVecs, InCommit
<1> QED
    BY <1>1, <1>4, <1>5 DEF RecoveryInv

LEMMA RecoveryStep ==
    ASSUME RecoveryInv, [PersistenceNext]_persistenceVars
    PROVE  RecoveryInv'
<1>1. DurableInv /\ DurableInv' /\ PersistenceTypeOK
    BY DurableStep DEF RecoveryInv, DurableInv
<1>2. /\ Len(batch) \in Nat /\ committed \in Nat /\ committed <= Len(sent)
      /\ sent \in Seq(PersistenceCommand) /\ batch \in Seq(PersistenceCommand)
    BY <1>1, Counts
<1>3. SettledKv \in KvState
    BY SettledType DEF RecoveryInv
<1>4. ASSUME UNCHANGED <<file, synced, boot, committed, faults, npc>>,
             \A i \in 1 .. committed : sent'[i] = sent[i],
             \/ batch' = batch
             \/ /\ ~ InCommit /\ Len(batch) <= Len(batch')
                /\ \A i \in 1 .. Len(batch) : batch'[i] = batch[i]
      PROVE  RecoveryInv'
    <2>1. /\ SettledKv' = SettledKv /\ SettledVecs' = SettledVecs /\ Base' = Base
          /\ file' \in Seq(Entry) /\ FreshKv'
        BY <1>1, <1>2, <1>4, FileUntouched
    <2>2. FoundKv'
        BY <1>4, <2>1 DEF RecoveryInv, FoundKv, InCommit
    <2>3. (faults' = 0 => FoundVecs') /\ KeptVecs'
        BY <1>4, <2>1 DEF RecoveryInv, FoundVecs, KeptVecs, InCommit
    <2> QED
        BY <1>1, <2>1, <2>2, <2>3 DEF RecoveryInv
<1>5. CASE Enqueue
    <2>1. PICK r \in Record : Accept(r)
        BY <1>5 DEF Enqueue, Accept
    <2> QED
        BY <2>1, PersistenceAssumption, RecoveryAccept
<1>6. CASE Drain
    <2>1. /\ Len(batch) <= Len(batch') /\ \A i \in 1 .. Len(batch) : batch'[i] = batch[i]
        <3>1. Head(chan) \in PersistenceCommand
            BY <1>1, <1>6 DEF Drain, PersistenceTypeOK
        <3> QED
            BY <1>2, <1>6, <3>1 DEF Drain
    <2> QED
        BY <1>4, <1>6, <2>1 DEF Drain, InCommit
<1>7. CASE OpenFile \/ Drained \/ Commit \/ Wait \/ SyncFails
    <2>1. /\ UNCHANGED <<file, synced, boot, committed, sent, batch>>
          /\ npc = "sync" => npc' = "write" /\ faults' # 0
          /\ npc # "sync" => ~ InCommit /\ npc' # "sync" /\ faults' = faults
        BY <1>1, <1>7 DEF OpenFile, Drained, Commit, Wait, SyncFails, InCommit, PersistenceTypeOK
    <2>2. /\ SettledKv' = SettledKv /\ SettledVecs' = SettledVecs /\ Base' = Base
          /\ file' \in Seq(Entry) /\ FreshKv'
        BY <1>1, <1>2, <2>1, FileUntouched
    <2>3. FoundKv'
        <3>1. CASE npc = "sync"
            <4>1. KvAfter(Skim(file).kv, batch) = KvAfter(SettledKv, batch)
                BY <1>2, <1>3, <3>1, TwiceIsOnce DEF RecoveryInv, FoundKv
            <4> QED
                BY <2>1, <2>2, <3>1, <4>1 DEF RecoveryInv, FoundKv, InCommit
        <3>2. CASE npc # "sync"
            BY <2>1, <2>2, <3>2 DEF RecoveryInv, FoundKv, InCommit
        <3> QED
            BY <3>1, <3>2
    <2>4. faults' = 0 => FoundVecs'
        BY <2>1, <2>2 DEF RecoveryInv, FoundVecs
    <2>5. KeptVecs'
        <3> DEFINE F == Skim(file).vecs
                   v == VecsAfter(F, batch)
                   w == VecsAfter(SettledVecs, batch)
                   x == VecsAfter(w, batch)
        <3>1. F \in VecState /\ SettledVecs \in VecState
            BY <1>1, SkimType, SettledType DEF RecoveryInv, FileState
        <3>2. v \in VecState /\ w \in VecState /\ x \in VecState
            BY <1>2, <3>1, VecsAfterType
        <3>3. CASE npc = "sync"
            <4>1. AtLeast(F, w)
                BY <3>3 DEF RecoveryInv, KeptVecs
            <4>2. AtLeast(v, x)
                <5> HIDE DEF F, w
                <5> QED
                    BY <1>2, <3>1, <3>2, <4>1, VecsMonotone
            <4>3. AtLeast(x, w)
                <5>1. Len(batch) \in 0 .. Len(batch) /\ SubSeq(batch, 1, Len(batch)) = batch
                    BY <1>2, SubSeqFull
                <5>2. AtLeast(VecsAfter(VecsAfter(SettledVecs, SubSeq(batch, 1, Len(batch))), batch),
                              VecsAfter(SettledVecs, batch))
                    BY <1>2, <3>1, <5>1, PartTakesNone
                <5> QED
                    BY <5>1, <5>2
            <4>4. AtLeast(v, w)
                <5> HIDE DEF v, w, x
                <5> QED
                    BY <3>2, <4>2, <4>3, AtLeastTransitive
            <4> QED
                BY <2>1, <2>2, <3>3, <4>4 DEF KeptVecs, InCommit
        <3>4. CASE npc # "sync"
            <4>1. AtLeast(F, SettledVecs)
                BY <2>1, <3>4 DEF RecoveryInv, KeptVecs
            <4>2. AtLeast(v, w)
                <5> HIDE DEF F
                <5> QED
                    BY <1>2, <3>1, <4>1, VecsMonotone
            <4> QED
                BY <2>1, <2>2, <3>4, <4>1, <4>2 DEF KeptVecs, InCommit
        <3> QED
            BY <3>3, <3>4
    <2> QED
        BY <1>1, <2>2, <2>3, <2>4, <2>5 DEF RecoveryInv
<1>8. CASE UNCHANGED persistenceVars
    BY <1>4, <1>8 DEF persistenceVars
<1> QED
    BY <1>1, <1>5, <1>6, <1>7, <1>8, RecoveryWriteAll, RecoveryWriteFails, RecoverySyncOk,
       RecoveryCrash
    DEF PersistenceNext, ThreadNext

LEMMA RecoveryAlways == PersistenceSpec => []RecoveryInv
<1>1. PersistenceInit => RecoveryInv
    BY RecoveryInit
<1>2. RecoveryInv /\ [PersistenceNext]_persistenceVars => RecoveryInv'
    BY RecoveryStep
<1> QED
    BY <1>1, <1>2, PTL DEF PersistenceSpec
-----------------------------------------------------------------------------
(*****************************************************************************)
(* Settled is what Asked says, and what comes behind it in the log are the   *)
(* records of the batch.                                                     *)
(*****************************************************************************)
LEMMA BootFound ==
    ASSUME DurableInv, file \in Seq(Entry)
    PROVE  AtBoot \in FileState /\ (CutsRecognised(file) => AtBoot = SkimBoot)
<1>1. boot \in 0 .. Len(file)
    BY DEF DurableInv, PersistenceTypeOK
<1>2. SubSeq(file, 1, boot) \in Seq(Entry)
    BY <1>1
<1>3. CASE CutsRecognised(file)
    <2>1. CutsRecognised(SubSeq(file, 1, boot))
        BY <1>1, <1>3, PrefixRecognised
    <2> QED
        BY <1>2, <2>1, ReplayType, SkimIsReplay DEF AtBoot, SkimBoot
<1> QED
    BY <1>2, <1>3, ReplayType DEF AtBoot

LEMMA AskedIs ==
    ASSUME DurableInv, file \in Seq(Entry), CutsRecognised(file), NEW n \in 0 .. Len(sent)
    PROVE  /\ Asked(n).kv = KvAfter(SkimBoot.kv, SubSeq(sent, 1, n))
           /\ Asked(n).vecs = VecsAfter(SkimBoot.vecs, SubSeq(sent, 1, n))
<1>1. SubSeq(sent, 1, n) \in Seq(PersistenceCommand)
    BY Counts
<1>2. AtBoot = SkimBoot /\ AtBoot \in FileState
    BY BootFound
<1> QED
    BY <1>1, <1>2, AfterIs DEF Asked

LEMMA AskedSettled ==
    ASSUME DurableInv, file \in Seq(Entry), CutsRecognised(file)
    PROVE  Asked(committed).kv = SettledKv /\ Asked(committed).vecs = SettledVecs
<1>1. committed \in 0 .. Len(sent)
    BY Counts
<1> QED
    BY <1>1, AskedIs DEF SettledKv, SettledVecs

(*****************************************************************************)
(* Whatever writes and fsyncs fail and whatever crashes: between two commits *)
(* a replay of the file, if it misreads no cut record in it, gives exactly   *)
(* the keyspace the committed records ask for, for every number of keys,     *)
(* records, failures and crashes.                                            *)
(*****************************************************************************)
THEOREM RecoveryMatchesKeyspace == PersistenceSpec => []KeyspaceMatchesCommitted
<1>1. ASSUME RecoveryInv, Settled PROVE Recovered.kv = Asked(committed).kv
    <2>1. /\ DurableInv /\ file \in Seq(Entry) /\ CutsRecognised(file)
          /\ Skim(file).kv = SettledKv
        BY <1>1 DEF RecoveryInv, FoundKv, Settled
    <2> QED
        BY <2>1, SkimIsReplay, AskedSettled DEF Recovered
<1>2. RecoveryInv => KeyspaceMatchesCommitted
    BY <1>1 DEF KeyspaceMatchesCommitted
<1> QED
    BY <1>2, RecoveryAlways, PTL

(*****************************************************************************)
(* Of such a file a replay gives each key at least the vectors the committed *)
(* records add, and no others as long as no write and no fsync has failed.   *)
(*****************************************************************************)
THEOREM RecoveryMatchesVectors == PersistenceSpec => []VectorsKept
<1>1. ASSUME RecoveryInv, Settled
      PROVE  /\ AtLeast(Recovered.vecs, Asked(committed).vecs)
             /\ faults = 0 => Recovered.vecs = Asked(committed).vecs
    <2>1. /\ DurableInv /\ file \in Seq(Entry) /\ CutsRecognised(file)
          /\ AtLeast(Skim(file).vecs, SettledVecs)
          /\ faults = 0 => Skim(file).vecs = SettledVecs
        BY <1>1 DEF RecoveryInv, FoundVecs, KeptVecs, Settled, InCommit
    <2>2. Recovered = Skim(file) /\ Asked(committed).vecs = SettledVecs
        BY <2>1, SkimIsReplay, AskedSettled DEF Recovered
    <2> QED
        BY <2>1, <2>2
<1>2. RecoveryInv => VectorsKept
    BY <1>1 DEF VectorsKept
<1> QED
    BY <1>2, RecoveryAlways, PTL

(*****************************************************************************)
(* What a death leaves: its whole records are those of a prefix of the file, *)
(* and of what the process found at its start nothing is gone, so that the   *)
(* replays at that start misread no cut record either.                       *)
(*****************************************************************************)
LEMMA SurvivorStarts ==
    ASSUME PersistenceTypeOK, boot <= synced, synced <= Len(file), NEW s \in Survivors
    PROVE  boot \in 0 .. Len(s) /\ SubSeq(s, 1, boot) = SubSeq(file, 1, boot)
<1>1. /\ file \in Seq(Entry) /\ Len(file) \in Nat /\ synced \in Nat /\ boot \in Nat
    BY DEF PersistenceTypeOK
<1>2. s \in Seq(Entry)
    BY SurvivorType
<1>3. boot <= Len(s) /\ \A i \in 1 .. boot : s[i] = file[i]
    <2>1. CASE \E n \in synced .. Len(file) : s = SubSeq(file, 1, n)
        BY <1>1, <2>1
    <2>2. CASE \E n \in synced .. Len(file) - 1 :
                  \E e \in Cut(file[n + 1].rec) : s = Append(SubSeq(file, 1, n), e)
        <3>1. PICK n \in synced .. Len(file) - 1 :
                  \E e \in Cut(file[n + 1].rec) : s = Append(SubSeq(file, 1, n), e)
            BY <2>2
        <3>2. PICK e \in Cut(file[n + 1].rec) : s = Append(SubSeq(file, 1, n), e)
            BY <3>1
        <3>3. file[n + 1].rec \in PersistenceCommand
            BY <1>1, EntryRec
        <3>4. e \in Entry
            BY <3>3, CutType
        <3>5. /\ SubSeq(file, 1, n) \in Seq(Entry) /\ Len(SubSeq(file, 1, n)) = n
              /\ \A i \in 1 .. n : SubSeq(file, 1, n)[i] = file[i]
            BY <1>1
        <3> QED
            BY <1>1, <3>2, <3>4, <3>5, AppendElements
    <2> QED
        BY <2>1, <2>2 DEF Survivors
<1>4. SubSeq(s, 1, boot) = SubSeq(file, 1, boot)
    BY <1>1, <1>2, <1>3, SamePrefix
<1> QED
    BY <1>1, <1>2, <1>3, <1>4

LEMMA DeathIs ==
    ASSUME RecoveryInv, NEW s \in Deaths
    PROVE  /\ \E n \in Base .. Len(file) : Replay(s) = Skim(SubSeq(file, 1, n))
           /\ AtBoot = SkimBoot
<1>1. /\ PersistenceTypeOK /\ file \in Seq(Entry) /\ Len(file) \in Nat
      /\ boot \in Nat /\ synced \in Nat /\ boot <= Len(file) /\ synced <= Len(file)
    BY DEF RecoveryInv, DurableInv, PersistenceTypeOK
<1>2. CASE boot <= synced
    <2>1. s \in Survivors /\ Base = synced /\ CutsRecognised(s)
        BY <1>1, <1>2 DEF Deaths, Base
    <2>2. s \in Seq(Entry) /\ \E n \in synced .. Len(file) : Skim(s) = Skim(SubSeq(file, 1, n))
        BY <1>1, <2>1, SurvivorSkim
    <2>3. Replay(s) = Skim(s)
        BY <2>1, <2>2, SkimIsReplay
    <2>4. boot \in 0 .. Len(s) /\ SubSeq(s, 1, boot) = SubSeq(file, 1, boot)
        BY <1>1, <1>2, <2>1, SurvivorStarts
    <2>5. SubSeq(s, 1, boot) \in Seq(Entry) /\ CutsRecognised(SubSeq(s, 1, boot))
        BY <2>1, <2>2, <2>4, PrefixRecognised
    <2>6. AtBoot = SkimBoot
        BY <2>4, <2>5, SkimIsReplay DEF AtBoot, SkimBoot
    <2> QED
        BY <2>1, <2>2, <2>3, <2>6
<1>3. CASE ~ boot <= synced
    <2>1. /\ s = file /\ CutsRecognised(file)
          /\ Len(file) \in Base .. Len(file) /\ SubSeq(file, 1, Len(file)) = file
        BY <1>1, <1>3, SubSeqFull DEF Deaths, Base
    <2>2. Replay(s) = Skim(file) /\ AtBoot = SkimBoot
        BY <1>1, <2>1, SkimIsReplay, BootFound DEF RecoveryInv
    <2> QED
        BY <2>1, <2>2
<1> QED
    BY <1>2, <1>3

LEMMA AskedBatch ==
    ASSUME DurableInv, file \in Seq(Entry), AtBoot = SkimBoot, NEW m \in 0 .. Len(batch)
    PROVE  KvAfter(SettledKv, SubSeq(batch, 1, m)) \in AskedSinceCommit
<1>1. /\ committed + m \in 0 .. Len(sent) /\ committed + m \in committed .. Len(sent)
      /\ SubSeq(sent, 1, committed + m) \in Seq(PersistenceCommand)
    BY Counts
<1>2. AtBoot \in FileState
    BY BootFound
<1>3. Asked(committed + m).kv = KvAfter(AtBoot.kv, SubSeq(sent, 1, committed + m))
    BY <1>1, <1>2, AfterIs DEF Asked
<1>4. KvAfter(SkimBoot.kv, SubSeq(sent, 1, committed + m)) = KvAfter(SettledKv, SubSeq(batch, 1, m))
    BY SettledGrows
<1> QED
    BY <1>1, <1>3, <1>4 DEF AskedSinceCommit

(*****************************************************************************)
(* Whenever the process or the machine dies and the replay misreads no cut   *)
(* record in what is left, no string and no hash field comes back older than *)
(* the last commit left it, nor as it never was.                             *)
(*****************************************************************************)
THEOREM RecoveryFreshCorrect == PersistenceSpec => []RecoveryIsFresh
<1>1. ASSUME RecoveryInv PROVE RecoveryIsFresh
    <2> SUFFICES ASSUME NEW s \in Deaths, NEW k \in Key, NEW x \in Field \cup {"string"}
                 PROVE  \E kv \in AskedSinceCommit : View(Replay(s).kv, k, x) = View(kv, k, x)
        BY DEF RecoveryIsFresh
    <2>1. PICK n \in Base .. Len(file) : Replay(s) = Skim(SubSeq(file, 1, n))
        BY <1>1, DeathIs
    <2>2. PICK m \in 0 .. Len(batch) :
              View(Skim(SubSeq(file, 1, n)).kv, k, x)
                  = View(KvAfter(SettledKv, SubSeq(batch, 1, m)), k, x)
        BY <1>1 DEF RecoveryInv, FreshKv
    <2>3. KvAfter(SettledKv, SubSeq(batch, 1, m)) \in AskedSinceCommit
        BY <1>1, DeathIs, AskedBatch DEF RecoveryInv
    <2> QED
        BY <2>1, <2>2, <2>3
<1> QED
    BY <1>1, RecoveryAlways, PTL

(*****************************************************************************)
(* As long as the batch was not written a second time, and if the replay     *)
(* misreads no cut record, all keys come back as of the same moment of the   *)
(* log.                                                                      *)
(*****************************************************************************)
THEOREM RecoveryPrefixCorrect == PersistenceSpec => []RecoveryIsAPrefix
<1>1. ASSUME RecoveryInv PROVE RecoveryIsAPrefix
    <2> SUFFICES ASSUME WrittenOnce, NEW s \in Deaths
                 PROVE  Replay(s).kv \in AskedSinceCommit
        BY DEF RecoveryIsAPrefix
    <2> DEFINE copy == SubSeq(file, Base + 1, Len(file))
    <2>1. /\ DurableInv /\ PersistenceTypeOK /\ file \in Seq(Entry) /\ Len(file) \in Nat
          /\ batch \in Seq(PersistenceCommand) /\ Len(batch) \in Nat
          /\ Base \in Nat /\ Base <= Len(file)
        BY <1>1 DEF RecoveryInv, DurableInv, PersistenceTypeOK, Base
    <2>2. PICK n \in Base .. Len(file) : Replay(s) = Skim(SubSeq(file, 1, n))
        BY <1>1, DeathIs
    <2>3. /\ Len(Payload) = Len(batch)
          /\ \A j \in 1 .. Len(batch) : Payload[j] = Whole(batch[j])
          /\ Payload \in Seq(Entry)
        BY <2>1, PayloadType
    <2>4. /\ Len(copy) = Len(file) - Base /\ copy \in Seq(Entry)
          /\ \A j \in 1 .. Len(file) - Base : copy[j] = file[Base + j]
        BY <2>1
    <2>5. /\ Len(copy) <= Len(batch)
          /\ SubSeq(copy, 1, Len(copy)) = SubSeq(Payload, 1, Len(copy))
        BY <2>3 DEF WrittenOnce, Base, IsPrefix
    <2> HIDE DEF copy
    <2>6. ASSUME NEW j \in 1 .. Len(file) - Base PROVE file[Base + j] = Whole(batch[j])
        <3>1. j \in 1 .. Len(copy) /\ Len(copy) \in Nat /\ j \in 1 .. Len(batch)
            BY <2>1, <2>4, <2>5
        <3>2. SubSeq(copy, 1, Len(copy))[j] = copy[j]
            BY <2>4, <3>1
        <3>3. SubSeq(Payload, 1, Len(copy))[j] = Payload[j]
            BY <2>3, <2>5, <3>1
        <3> QED
            BY <2>3, <2>4, <2>5, <3>1, <3>2, <3>3
    <2> DEFINE i == n - Base
    <2>7. /\ Base \in 0 .. Len(file) /\ i \in 0 .. Len(batch) /\ Base + i = n /\ Base + i <= Len(file)
          /\ \A j \in 1 .. i : file[Base + j] = Whole(batch[j])
        BY <2>1, <2>4, <2>5, <2>6
    <2> HIDE DEF i
    <2>8. Skim(SubSeq(file, 1, Base + i)).kv
              = KvAfter(Skim(SubSeq(file, 1, Base)).kv, SubSeq(batch, 1, i))
        BY <2>1, <2>7, SkimFurther
    <2>9. KvAfter(SettledKv, SubSeq(batch, 1, i)) \in AskedSinceCommit
        BY <1>1, <2>1, <2>7, DeathIs, AskedBatch
    <2> QED
        BY <1>1, <2>2, <2>7, <2>8, <2>9 DEF RecoveryInv, FoundKv
<1> QED
    BY <1>1, RecoveryAlways, PTL
-----------------------------------------------------------------------------
(*****************************************************************************)
(* The keyspace that everything sent since the last start, and everything    *)
(* found then, asks for: what the module that composes this one with its     *)
(* clients compares with their memory.                                       *)
(*****************************************************************************)
LogKv == KvAfter(AtBoot.kv, sent)

LEMMA LogEmpty == PersistenceInit => LogKv = EmptyKv
<1> SUFFICES ASSUME PersistenceInit PROVE LogKv = EmptyKv
    OBVIOUS
<1>1. file = <<>> /\ sent = <<>> /\ boot = 0
    BY DEF PersistenceInit
<1>2. AtBoot = Replay(<<>>)
    <2>1. SubSeq(file, 1, boot) = <<>>
        BY <1>1
    <2> QED
        BY <2>1 DEF AtBoot
<1>3. <<>> \in Seq(Entry) /\ CutsRecognised(<<>>)
    BY DEF CutsRecognised
<1>4. Skim(<<>>) = Empty
    <2>1. SkimStep \in StepOn(FileState, Entry)
        BY SkimEntryType DEF SkimStep, StepOn
    <2> QED
        BY <2>1, EmptyType, FoldedEmpty DEF Skim
<1>5. AtBoot.kv = EmptyKv /\ EmptyKv \in KvState
    BY <1>2, <1>3, <1>4, SkimIsReplay, EmptyType DEF FileState
<1> QED
    BY <1>1, <1>5, KvAfterAppend DEF LogKv

LEMMA LogGrows ==
    ASSUME RecoveryInv, NEW r \in PersistenceCommand, Accept(r)
    PROVE  LogKv' = ApplyKv(LogKv, r)
<1>1. AtBoot' = AtBoot
    BY DEF Accept, AtBoot
<1>2. sent \in Seq(PersistenceCommand) /\ AtBoot.kv \in KvState
    BY BootFound DEF RecoveryInv, DurableInv, PersistenceTypeOK, FileState
<1>3. KvAfter(AtBoot.kv, Append(sent, r)) = ApplyKv(KvAfter(AtBoot.kv, sent), r)
    BY <1>2, KvAfterAppend
<1> QED
    BY <1>1, <1>3 DEF Accept, LogKv

LEMMA LogLeft ==
    ASSUME RecoveryInv, ThreadNext
    PROVE  LogKv' = LogKv
<1>1. /\ sent' = sent /\ boot' = boot
      /\ file' = file \/ WriteAll \/ WriteFails
    BY DEF ThreadNext, OpenFile, Drain, Drained, Commit, Wait, WriteAll, WriteFails, SyncOk, SyncFails
<1>2. PersistenceTypeOK /\ DurableInv /\ file \in Seq(Entry)
    BY DEF RecoveryInv, DurableInv
<1>3. Len(file) <= Len(file') /\ \A i \in 1 .. Len(file) : file'[i] = file[i]
    <2>1. CASE file' = file
        BY <2>1, <1>2
    <2>2. CASE WriteAll \/ WriteFails
        BY <1>2, <2>2, FileGrows
    <2> QED
        BY <1>1, <2>1, <2>2
<1>4. boot \in Nat /\ boot <= Len(file) /\ Len(file) \in Nat
    BY <1>2 DEF DurableInv, PersistenceTypeOK
<1>5. file' \in Seq(Entry)
    BY <1>2, TypeStep DEF PersistenceNext, PersistenceTypeOK
<1>6. SubSeq(file', 1, boot) = SubSeq(file, 1, boot)
    <2>1. file \in Seq(Entry) /\ Len(file') \in Nat
        BY <1>2, <1>5
    <2>2. boot <= Len(file') /\ \A i \in 1 .. boot : file'[i] = file[i]
        BY <1>3, <1>4, <2>1
    <2> QED
        BY <1>4, <1>5, <2>1, <2>2, SamePrefix
<1> QED
    BY <1>1, <1>6 DEF LogKv, AtBoot

LEMMA LogFound ==
    ASSUME RecoveryInv', Crash
    PROVE  LogKv' = Replay(file').kv /\ Replay(file') \in FileState
<1>1. sent' = <<>> /\ boot' = Len(file')
    BY DEF Crash
<1>2. file' \in Seq(Entry)
    BY DEF RecoveryInv
<1>3. SubSeq(file', 1, boot') = file'
    BY <1>1, <1>2
<1>4. Replay(file') \in FileState
    BY <1>2, ReplayType
<1>5. AtBoot'.kv = Replay(file').kv /\ Replay(file').kv \in KvState
    BY <1>3, <1>4 DEF AtBoot, FileState
<1> QED
    BY <1>1, <1>4, <1>5, KvAfterAppend DEF LogKv

LEMMA LogRecovered ==
    ASSUME RecoveryInv, ~ InCommit, committed = Len(sent), CutsRecognised(file)
    PROVE  Recovered.kv = LogKv
<1>1. sent \in Seq(PersistenceCommand)
    BY DEF RecoveryInv, DurableInv, PersistenceTypeOK
<1>2. SubSeq(sent, 1, committed) = sent
    BY <1>1
<1>3. /\ DurableInv /\ file \in Seq(Entry) /\ Skim(file).kv = SettledKv
    BY DEF RecoveryInv, FoundKv
<1>4. Recovered = Skim(file) /\ AtBoot = SkimBoot
    BY <1>3, SkimIsReplay, BootFound DEF Recovered
<1> QED
    BY <1>2, <1>3, <1>4 DEF SettledKv, LogKv

-----------------------------------------------------------------------------
(*****************************************************************************)
(* The bytes of the log.  A length is written in decimal and read back:      *)
(* value[k] is what the first k digits of n stand for.                       *)
(*****************************************************************************)
Octet == 0 .. 255

DigitsOf(text, n, width, value) ==
    /\ text \in Seq(Octet) /\ Len(text) = width
    /\ width \in Nat /\ width >= 1
    /\ value \in [0 .. width -> Nat] /\ value[0] = 0 /\ value[width] = n
    /\ \A k \in 1 .. width : /\ text[k] \in Digit
                             /\ value[k] = 10 * value[k - 1] + (text[k] - 48)
                             /\ value[k] <= n

LEMMA DecimalDigits ==
    ASSUME NEW n \in Nat
    PROVE  \E width, value : DigitsOf(Decimal(n), n, width, value)
<1> DEFINE N == n + 1
           Is(f) == f = [k \in 0 .. N |-> IF k = 0 THEN n ELSE f[k - 1] \div 10]
           rest == CHOOSE f : Is(f)
           step == [x \in Nat \X (1 .. N) |-> x[1] \div 10]
<1>1. N \in Nat /\ N >= 1
    OBVIOUS
<1>2. \A x \in Nat : x \div 10 \in Nat
    OBVIOUS
<1>3. \E f : Is(f)
    <2>1. step \in StepOn(Nat, 1 .. N)
        BY <1>2 DEF StepOn
    <2>2. PICK f \in [0 .. N -> Nat] : Recurses(step, n, N, f)
        <3> HIDE DEF step, N
        <3> QED
            BY <1>1, <2>1, RecursionExists
    <2>3. f[0] = n /\ \A k \in 1 .. N : f[k] = f[k - 1] \div 10
        <3>1. \A k \in 1 .. N : f[k] = step[<<f[k - 1], k>>]
            BY <2>2 DEF Recurses
        <3>2. ASSUME NEW k \in 1 .. N PROVE f[k] = f[k - 1] \div 10
            <4>1. f[k - 1] \in Nat
                BY <1>1, <2>2
            <4>2. step[<<f[k - 1], k>>] = f[k - 1] \div 10
                BY <4>1
            <4> HIDE DEF step
            <4> QED
                BY <3>1, <4>2
        <3> QED
            BY <2>2, <3>2 DEF Recurses
    <2>4. Is(f)
        <3>1. ASSUME NEW k \in 0 .. N PROVE f[k] = IF k = 0 THEN n ELSE f[k - 1] \div 10
            <4>1. k = 0 \/ k \in 1 .. N
                BY <1>1
            <4> QED
                BY <2>3, <4>1
        <3>2. f = [k \in 0 .. N |-> f[k]]
            BY <2>2
        <3> QED
            BY <3>1, <3>2
    <2> QED
        BY <2>4
<1>4. Is(rest)
    BY <1>3
<1> HIDE DEF rest
<1>5. rest[0] = n /\ \A k \in 1 .. N : rest[k] = rest[k - 1] \div 10
    <2>1. 0 \in 0 .. N
        BY <1>1
    <2>2. ASSUME NEW k \in 1 .. N PROVE rest[k] = rest[k - 1] \div 10
        <3>1. k \in 0 .. N /\ k # 0
            BY <1>1
        <3> QED
            BY <1>4, <3>1
    <2> QED
        BY <1>4, <2>1, <2>2
<1>6. \A k \in 0 .. N : rest[k] \in Nat /\ (rest[k] <= n - k \/ rest[k] = 0) /\ rest[k] <= n
    <2> DEFINE S == {k \in 0 .. N : /\ rest[k] \in Nat /\ rest[k] <= n
                                    /\ rest[k] <= n - k \/ rest[k] = 0}
    <2>1. 0 \in S
        BY <1>1, <1>5
    <2>2. ASSUME NEW k \in 0 .. N - 1, k \in S PROVE k + 1 \in S
        <3>1. k + 1 \in 1 .. N /\ k + 1 \in 0 .. N /\ (k + 1) - 1 = k
            BY <1>1
        <3>2. rest[k + 1] = rest[k] \div 10
            BY <1>5, <3>1
        <3>3. rest[k] \in Nat /\ rest[k] <= n /\ (rest[k] <= n - k \/ rest[k] = 0)
            BY <2>2
        <3>4. \A x \in Nat : x \div 10 \in Nat /\ x \div 10 <= x /\ (x \div 10 < x \/ x = 0)
            OBVIOUS
        <3>5. rest[k + 1] \in Nat /\ rest[k + 1] <= rest[k]
              /\ (rest[k + 1] < rest[k] \/ rest[k] = 0)
            BY <3>2, <3>3, <3>4
        <3> QED
            BY <3>1, <3>3, <3>5
    <2>3. \A k \in 0 .. N : k \in S
        <3> HIDE DEF S, N
        <3> QED
            BY <1>1, <2>1, <2>2, IntervalInduction
    <2> QED
        BY <2>3
<1> DEFINE Width(k) == k \in 1 .. N /\ rest[k] = 0 /\ \A j \in 1 .. k - 1 : rest[j] # 0
           width == CHOOSE k \in 1 .. N : rest[k] = 0 /\ \A j \in 1 .. k - 1 : rest[j] # 0
<1>7. Width(width)
    <2> DEFINE S == {k \in 1 .. N : rest[k] = 0}
    <2>1. N \in S
        BY <1>1, <1>6
    <2>2. PICK k \in S : \A j \in S : k <= j
        <3>1. S \in SUBSET Nat /\ S # {}
            BY <2>1
        <3> HIDE DEF S
        <3> QED
            BY <3>1, LeastOf
    <2>3. ASSUME NEW j \in 1 .. k - 1 PROVE rest[j] # 0
        <3>1. j \in 1 .. N /\ ~ k <= j
            BY <1>1, <2>2
        <3> QED
            BY <2>2, <3>1
    <2>4. \E i \in 1 .. N : rest[i] = 0 /\ \A j \in 1 .. i - 1 : rest[j] # 0
        BY <2>2, <2>3
    <2> QED
        BY <2>4
<1> DEFINE text == [i \in 1 .. width |-> 48 + (rest[width - i] % 10)]
           value == [k \in 0 .. width |-> rest[width - k]]
<1>8. Decimal(n) = text
    BY DEF Decimal, rest
<1> HIDE DEF width
<1>9. width \in Nat /\ width >= 1 /\ width <= N /\ rest[width] = 0
    BY <1>1, <1>7
<1>10. ASSUME NEW k \in 1 .. width
       PROVE  /\ rest[width - k] \in Nat
              /\ rest[width - k] <= n
              /\ rest[width - (k - 1)] = rest[width - k] \div 10
    <2>1. width - k \in 0 .. N /\ width - (k - 1) \in 1 .. N
          /\ (width - (k - 1)) - 1 = width - k
        BY <1>1, <1>9
    <2> HIDE DEF N
    <2>2. rest[width - k] \in Nat /\ rest[width - k] <= n
        BY <1>6, <2>1
    <2>3. rest[width - (k - 1)] = rest[(width - (k - 1)) - 1] \div 10
        BY <1>5, <2>1
    <2> QED
        BY <2>1, <2>2, <2>3
<1>11. ASSUME NEW k \in 0 .. width PROVE rest[width - k] \in Nat
    <2>1. width - k \in 0 .. N
        BY <1>1, <1>9
    <2> HIDE DEF N
    <2> QED
        BY <1>6, <2>1
<1>12. value \in [0 .. width -> Nat] /\ value[0] = 0 /\ value[width] = n
    <2>1. width - 0 = width /\ width - width = 0 /\ 0 \in 0 .. width /\ width \in 0 .. width
        BY <1>9
    <2> QED
        BY <1>5, <1>9, <1>11, <2>1
<1>13. \A x \in Nat : /\ 48 + (x % 10) \in Octet /\ 48 + (x % 10) \in Digit
                      /\ x = 10 * (x \div 10) + ((48 + (x % 10)) - 48)
    BY DEF Octet, Digit
<1>14. text \in Seq(Octet) /\ Len(text) = width
    <2>1. \A k \in 1 .. width : 48 + (rest[width - k] % 10) \in Octet
        BY <1>10, <1>13
    <2> QED
        BY <1>9, <2>1
<1>15. ASSUME NEW k \in 1 .. width
       PROVE  /\ text[k] \in Digit
              /\ value[k] = 10 * value[k - 1] + (text[k] - 48)
              /\ value[k] <= n
    <2>1. text[k] = 48 + (rest[width - k] % 10)
        OBVIOUS
    <2>2. k \in 0 .. width /\ k - 1 \in 0 .. width
        BY <1>9
    <2>3. value[k] = rest[width - k] /\ value[k - 1] = rest[width - (k - 1)]
        BY <2>2
    <2> HIDE DEF text, value
    <2>4. rest[width - k] = 10 * (rest[width - k] \div 10) + ((48 + (rest[width - k] % 10)) - 48)
          /\ 48 + (rest[width - k] % 10) \in Digit
        BY <1>10, <1>13
    <2> QED
        BY <1>10, <2>1, <2>3, <2>4
<1> HIDE DEF text, value, N
<1>16. DigitsOf(text, n, width, value)
    BY <1>9, <1>12, <1>14, <1>15 DEF DigitsOf
<1> QED
    BY <1>8, <1>16

\* a number ends where the digits do
LEMMA DigitsEnd ==
    ASSUME NEW buf \in Seq(Octet), NEW p \in Nat, NEW end \in p .. Len(buf) + 1,
           ~ DigitAt(buf, end), \A i \in p .. end - 1 : DigitAt(buf, i)
    PROVE  ParseInt(buf, p).next = end
<1> DEFINE Ends(q) == ~ DigitAt(buf, q) /\ \A i \in p .. q - 1 : DigitAt(buf, i)
           next == CHOOSE q \in p .. Len(buf) + 1 : Ends(q)
<1>1. Len(buf) \in Nat /\ end \in Nat /\ p \in Nat
    OBVIOUS
<1>2. Ends(end)
    OBVIOUS
<1>3. ParseInt(buf, p).next = next
    BY DEF ParseInt
<1>4. next \in p .. Len(buf) + 1 /\ Ends(next)
    <2> HIDE DEF Ends
    <2> QED
        BY <1>2
<1> HIDE DEF next
<1>5. ~ next < end
    <2> SUFFICES ASSUME next < end PROVE FALSE
        OBVIOUS
    <2>1. next \in p .. end - 1
        BY <1>1, <1>4
    <2> QED
        BY <1>4, <2>1
<1>6. ~ end < next
    <2> SUFFICES ASSUME end < next PROVE FALSE
        OBVIOUS
    <2>1. end \in p .. next - 1
        BY <1>1, <1>4
    <2> QED
        BY <1>4, <2>1
<1> QED
    BY <1>1, <1>3, <1>4, <1>5, <1>6

LEMMA IntReads ==
    ASSUME NEW n \in Nat, n < IntLimit, NEW buf \in Seq(Octet), NEW a \in Nat,
           StandsAt(buf, a, Decimal(n)), a + Len(Decimal(n)) < Len(buf),
           buf[a + Len(Decimal(n)) + 1] \notin Digit
    PROVE  /\ Decimal(n) \in Seq(Octet) /\ Len(Decimal(n)) \in Nat /\ Len(Decimal(n)) >= 1
           /\ ParseInt(buf, a + 1) = [val |-> n, next |-> a + Len(Decimal(n)) + 1]
<1> DEFINE text == Decimal(n)
           w == Len(text)
           p == a + 1
           end == a + w + 1
<1>1. PICK width, value : DigitsOf(text, n, width, value)
    BY DecimalDigits
<1>2. /\ w \in Nat /\ w >= 1 /\ text \in Seq(Octet)
      /\ value \in [0 .. w -> Nat] /\ value[0] = 0 /\ value[w] = n
      /\ \A k \in 1 .. w : /\ text[k] \in Digit
                           /\ value[k] = 10 * value[k - 1] + (text[k] - 48)
                           /\ value[k] <= n
    BY <1>1 DEF DigitsOf
<1>3. Len(buf) \in Nat /\ a + w < Len(buf) /\ buf[end] \notin Digit
    OBVIOUS
<1>4. \A k \in 1 .. w : buf[a + k] = text[k]
    BY DEF StandsAt
<1> HIDE DEF text, w
<1>5. ~ DigitAt(buf, end) /\ \A i \in p .. end - 1 : DigitAt(buf, i)
    <2>1. ASSUME NEW i \in p .. end - 1 PROVE DigitAt(buf, i)
        <3>1. i - a \in 1 .. w /\ a + (i - a) = i /\ i <= Len(buf)
            BY <1>2, <1>3
        <3>2. buf[i] = text[i - a] /\ text[i - a] \in Digit
            BY <1>2, <1>4, <3>1
        <3> QED
            BY <3>1, <3>2 DEF DigitAt
    <2> QED
        BY <1>3, <2>1 DEF DigitAt
<1> DEFINE next == CHOOSE q \in p .. Len(buf) + 1 :
                       ~ DigitAt(buf, q) /\ \A i \in p .. q - 1 : DigitAt(buf, i)
<1>6. next = end
    <2>1. end \in p .. Len(buf) + 1 /\ p \in Nat
        BY <1>2, <1>3
    <2>2. ParseInt(buf, p).next = next
        BY DEF ParseInt
    <2> HIDE DEF p, end, next
    <2>3. ParseInt(buf, p).next = end
        BY <1>5, <2>1, DigitsEnd
    <2> QED
        BY <2>2, <2>3
<1> HIDE DEF next
<1>7. next - p = w
    BY <1>2, <1>6
<1> DEFINE Is(f) == f = [k \in 0 .. next - p |->
                          IF k = 0 THEN 0
                          ELSE (10 * f[k - 1] + (buf[p + k - 1] - 48)) % IntLimit]
           val == CHOOSE f : Is(f)
<1>8. ParseInt(buf, p) = [val |-> val[next - p], next |-> next]
    BY DEF ParseInt, next
<1>9. \A k \in 1 .. w : value[k] = (10 * value[k - 1] + (buf[p + k - 1] - 48)) % IntLimit
    <2> TAKE k \in 1 .. w
    <2>1. p + k - 1 = a + k
        BY <1>2
    <2>2. buf[p + k - 1] = text[k]
        BY <1>4, <2>1
    <2>3. value[k] \in Nat /\ value[k] < IntLimit
        <3>1. value \in [0 .. w -> Nat] /\ value[k] <= n /\ w \in Nat
            BY <1>2
        <3> HIDE DEF w
        <3>2. value[k] \in Nat
            BY <3>1
        <3>3. \A x, y, z \in Nat : x <= y /\ y < z => x < z
            OBVIOUS
        <3> QED
            BY <3>1, <3>2, <3>3, RespAssumption
    <2>4. \A x, y \in Nat : x < y => x % y = x
        OBVIOUS
    <2>5. value[k] % IntLimit = value[k]
        BY <2>3, <2>4, RespAssumption
    <2> QED
        BY <1>2, <2>2, <2>5
<1>10. Is(value)
    <2>1. ASSUME NEW k \in 0 .. w
          PROVE  value[k] = IF k = 0 THEN 0
                            ELSE (10 * value[k - 1] + (buf[p + k - 1] - 48)) % IntLimit
        <3>1. k = 0 \/ k \in 1 .. w
            BY <1>2
        <3> HIDE DEF p
        <3> QED
            BY <1>2, <1>9, <3>1
    <2>2. value = [k \in 0 .. w |-> value[k]]
        BY <1>2
    <2> HIDE DEF p
    <2> QED
        BY <1>7, <2>1, <2>2
<1>11. Is(val)
    BY <1>10
<1> HIDE DEF val
<1>12. val[w] = n
    <2>1. /\ val = [k \in 0 .. w |->
                       IF k = 0 THEN 0
                       ELSE (10 * val[k - 1] + (buf[p + k - 1] - 48)) % IntLimit]
        <3> HIDE DEF p
        <3> QED
            BY <1>7, <1>11
    <2>2. DefinedUpTo(w, val) /\ DefinedUpTo(w, value) /\ val[0] = value[0]
        <3>1. val[0] = 0
            BY <1>2, <2>1
        <3>2. val = [k \in 0 .. w |-> val[k]]
            BY <2>1
        <3>3. value = [k \in 0 .. w |-> value[k]]
            BY <1>2
        <3> QED
            BY <1>2, <3>1, <3>2, <3>3 DEF DefinedUpTo
    <2>3. ASSUME NEW k \in 1 .. w, val[k - 1] = value[k - 1] PROVE val[k] = value[k]
        <3>1. k \in 0 .. w /\ k # 0
            BY <1>2
        <3> HIDE DEF p
        <3>2. val[k] = (10 * val[k - 1] + (buf[p + k - 1] - 48)) % IntLimit
            BY <2>1, <3>1
        <3> QED
            BY <1>9, <2>3, <3>2
    <2>4. val = value
        BY <1>2, <2>2, <2>3, RecursionUnique
    <2> QED
        BY <1>2, <2>4
<1> HIDE DEF p
<1>13. ParseInt(buf, p) = [val |-> n, next |-> end]
    BY <1>6, <1>7, <1>8, <1>12
<1> QED
    BY <1>2, <1>13 DEF p, w, text

(*****************************************************************************)
(* An argument behind its length is read back, wherever it stands.           *)
(*****************************************************************************)
LineEnd == <<CR, LF>>

Bulk(arg) == Header(arg) \o arg \o LineEnd

Argument == {arg \in Seq(Octet) : Len(arg) < IntLimit}

LEMMA SmallBytes ==
    /\ <<DOLLAR>> \in Seq(Octet) /\ Len(<<DOLLAR>>) = 1 /\ <<DOLLAR>>[1] = DOLLAR
    /\ <<STAR>> \in Seq(Octet) /\ Len(<<STAR>>) = 1 /\ <<STAR>>[1] = STAR
    /\ LineEnd \in Seq(Octet) /\ Len(LineEnd) = 2
    /\ LineEnd[1] = CR /\ LineEnd[2] = LF
    /\ CR \notin Digit /\ LF \notin Digit /\ STAR \notin Digit /\ DOLLAR \notin Digit
BY DEF LineEnd, CR, LF, STAR, DOLLAR, Octet, Digit

\* a sign, a number in decimal and a line end: how a header begins
Numbered(sign, n) == <<sign>> \o Decimal(n) \o LineEnd

LEMMA DecimalType ==
    ASSUME NEW n \in Nat
    PROVE  /\ Decimal(n) \in Seq(Octet) /\ Len(Decimal(n)) \in Nat /\ Len(Decimal(n)) >= 1
           /\ \A k \in 1 .. Len(Decimal(n)) : Decimal(n)[k] \in Digit
<1>1. PICK width, value : DigitsOf(Decimal(n), n, width, value)
    BY DecimalDigits
<1> QED
    BY <1>1 DEF DigitsOf

LEMMA NumberedType ==
    ASSUME NEW n \in Nat, NEW sign \in Octet
    PROVE  /\ Numbered(sign, n) \in Seq(Octet)
           /\ Len(Numbered(sign, n)) = Len(Decimal(n)) + 3
           /\ <<sign>> \o Decimal(n) \in Seq(Octet)
           /\ Len(<<sign>> \o Decimal(n)) = Len(Decimal(n)) + 1
           /\ Len(Decimal(n)) \in Nat
<1> DEFINE d == Decimal(n)
           first == <<sign>>
           x == first \o d
<1>1. d \in Seq(Octet) /\ Len(d) \in Nat
    BY DecimalType
<1>2. first \in Seq(Octet) /\ Len(first) = 1 /\ LineEnd \in Seq(Octet) /\ Len(LineEnd) = 2
    BY SmallBytes
<1>3. Numbered(sign, n) = x \o LineEnd
    BY DEF Numbered
<1> HIDE DEF d, first
<1>4. x \in Seq(Octet) /\ Len(x) = Len(first) + Len(d)
    BY <1>1, <1>2, ConcatElements
<1> HIDE DEF x
<1>5. x \o LineEnd \in Seq(Octet) /\ Len(x \o LineEnd) = Len(x) + Len(LineEnd)
    BY <1>2, <1>4, ConcatElements
<1>6. Len(x) = Len(d) + 1 /\ Len(x \o LineEnd) = Len(d) + 3
    BY <1>1, <1>2, <1>4, <1>5
<1> QED
    BY <1>1, <1>3, <1>4, <1>5, <1>6 DEF d, first, x

LEMMA NumberedReads ==
    ASSUME NEW n \in Nat, n < IntLimit, NEW sign \in Octet, NEW buf \in Seq(Octet),
           NEW a \in Nat, a + Len(Numbered(sign, n)) <= Len(buf),
           StandsAt(buf, a, Numbered(sign, n))
    PROVE  /\ buf[a + 1] = sign
           /\ ParseInt(buf, a + 2) = [val |-> n, next |-> (a + 2) + Len(Decimal(n))]
           /\ Len(Decimal(n)) \in Nat /\ Len(Decimal(n)) >= 1
           /\ Len(Numbered(sign, n)) = Len(Decimal(n)) + 3
           /\ EndsLine(buf, (a + 2) + Len(Decimal(n)))
<1> DEFINE d == Decimal(n)
           first == <<sign>>
           x == first \o d
           w == Len(d)
<1>1. /\ d \in Seq(Octet) /\ w \in Nat /\ w >= 1
      /\ x \in Seq(Octet) /\ Len(x) = w + 1
      /\ Len(Numbered(sign, n)) = w + 3
    BY DecimalType, NumberedType
<1>2. /\ first \in Seq(Octet) /\ Len(first) = 1 /\ first[1] = sign
      /\ LineEnd \in Seq(Octet) /\ Len(LineEnd) = 2
      /\ LineEnd[1] = CR /\ LineEnd[2] = LF /\ CR \notin Digit
    BY SmallBytes
<1>3. StandsAt(buf, a, x \o LineEnd)
    BY DEF Numbered
<1> HIDE DEF d, first, w
<1>4. StandsAt(buf, a, x) /\ StandsAt(buf, a + Len(x), LineEnd)
    <2> HIDE DEF x
    <2> QED
        BY <1>1, <1>2, <1>3, StandsApart
<1>5. StandsAt(buf, a, first) /\ StandsAt(buf, a + Len(first), d)
    BY <1>1, <1>2, <1>4, StandsApart
<1> HIDE DEF x
<1>6. buf[a + 1] = sign
    BY <1>2, <1>5 DEF StandsAt
<1>7. StandsAt(buf, a + 1, d) /\ a + 1 \in Nat
    BY <1>2, <1>5
<1>8. Len(buf) \in Nat /\ a + (w + 3) <= Len(buf)
    BY <1>1
<1>9. buf[(a + (w + 1)) + 1] = CR /\ buf[(a + (w + 1)) + 2] = LF
    BY <1>1, <1>2, <1>4 DEF StandsAt
<1>10. /\ (a + (w + 1)) + 1 = (a + 2) + w /\ (a + (w + 1)) + 2 = ((a + 2) + w) + 1
       /\ (a + 1) + w + 1 = (a + 2) + w /\ (a + 1) + 1 = a + 2
       /\ (a + 1) + w < Len(buf) /\ ((a + 2) + w) + 1 <= Len(buf)
    BY <1>1, <1>8
<1>11. EndsLine(buf, (a + 2) + w)
    BY <1>9, <1>10 DEF EndsLine
<1>12. ParseInt(buf, a + 2) = [val |-> n, next |-> (a + 2) + w]
    <2>1. /\ StandsAt(buf, a + 1, Decimal(n)) /\ (a + 1) + Len(Decimal(n)) < Len(buf)
          /\ buf[(a + 1) + Len(Decimal(n)) + 1] \notin Digit
        BY <1>2, <1>7, <1>9, <1>10 DEF d, w
    <2>2. ParseInt(buf, (a + 1) + 1) = [val |-> n, next |-> (a + 1) + Len(Decimal(n)) + 1]
        BY <1>7, <2>1, IntReads
    <2> QED
        BY <1>10, <2>2 DEF d, w
<1> QED
    BY <1>1, <1>6, <1>11, <1>12 DEF d, w

LEMMA BulkType ==
    ASSUME NEW arg \in Argument
    PROVE  /\ Header(arg) = Numbered(DOLLAR, Len(arg)) /\ DOLLAR \in Octet
           /\ Header(arg) \in Seq(Octet) /\ Len(Header(arg)) = Len(Decimal(Len(arg))) + 3
           /\ Header(arg) \o arg \in Seq(Octet)
           /\ Len(Header(arg) \o arg) = Len(Header(arg)) + Len(arg)
           /\ Bulk(arg) \in Seq(Octet)
           /\ Len(Bulk(arg)) = Len(Header(arg)) + Len(arg) + 2
           /\ arg \in Seq(Octet) /\ Len(arg) \in Nat /\ Len(Decimal(Len(arg))) \in Nat
<1> DEFINE h == Header(arg)
           x == h \o arg
<1>1. arg \in Seq(Octet) /\ Len(arg) \in Nat
    BY DEF Argument
<1>2. h = Numbered(DOLLAR, Len(arg)) /\ DOLLAR \in Octet
    BY DEF Header, Numbered, LineEnd, DOLLAR, Octet
<1>3. /\ h \in Seq(Octet) /\ Len(h) = Len(Decimal(Len(arg))) + 3
      /\ Len(Decimal(Len(arg))) \in Nat
    BY <1>1, <1>2, NumberedType
<1>4. LineEnd \in Seq(Octet) /\ Len(LineEnd) = 2
    BY SmallBytes
<1>5. Bulk(arg) = x \o LineEnd
    BY DEF Bulk
<1> HIDE DEF h
<1>6. x \in Seq(Octet) /\ Len(x) = Len(h) + Len(arg)
    BY <1>1, <1>3, ConcatElements
<1> HIDE DEF x
<1>7. x \o LineEnd \in Seq(Octet) /\ Len(x \o LineEnd) = Len(x) + Len(LineEnd)
    BY <1>4, <1>6, ConcatElements
<1>8. Len(x \o LineEnd) = Len(h) + Len(arg) + 2
    BY <1>1, <1>3, <1>4, <1>6, <1>7
<1> QED
    BY <1>1, <1>2, <1>3, <1>5, <1>6, <1>7, <1>8 DEF x, h

Read(args, next) == [ok |-> TRUE, args |-> args, next |-> next]

LEMMA BulkReads ==
    ASSUME NEW arg \in Argument, NEW buf \in Seq(Octet), NEW a \in Nat,
           a + Len(Bulk(arg)) <= Len(buf), StandsAt(buf, a, Bulk(arg))
    PROVE  ParseBulk(buf, a + 1) = Read(<<arg>>, (a + Len(Bulk(arg))) + 1)
<1> DEFINE h == Header(arg)
           x == h \o arg
           n == Len(arg)
           w == Len(Decimal(n))
           b == a + (w + 3)
<1>1. /\ h = Numbered(DOLLAR, n) /\ DOLLAR \in Octet
      /\ h \in Seq(Octet) /\ Len(h) = w + 3
      /\ x \in Seq(Octet) /\ Len(x) = Len(h) + n
      /\ Len(Bulk(arg)) = Len(h) + n + 2
      /\ arg \in Seq(Octet) /\ n \in Nat /\ w \in Nat /\ n < IntLimit
    BY BulkType DEF Argument
<1>2. LineEnd \in Seq(Octet) /\ Len(LineEnd) = 2 /\ LineEnd[1] = CR /\ LineEnd[2] = LF
    BY SmallBytes
<1>3. StandsAt(buf, a, x \o LineEnd)
    BY DEF Bulk
<1> HIDE DEF h, n, w
<1>4. StandsAt(buf, a, x) /\ StandsAt(buf, a + Len(x), LineEnd)
    <2> HIDE DEF x
    <2> QED
        BY <1>1, <1>2, <1>3, StandsApart
<1>5. StandsAt(buf, a, h) /\ StandsAt(buf, a + Len(h), arg)
    BY <1>1, <1>4, StandsApart
<1> HIDE DEF x
<1>6. Len(buf) \in Nat /\ a + (w + 3 + n + 2) <= Len(buf)
    BY <1>1
<1>7. /\ buf[a + 1] = DOLLAR
      /\ ParseInt(buf, a + 2) = [val |-> n, next |-> (a + 2) + w]
      /\ w >= 1
      /\ EndsLine(buf, (a + 2) + w)
    <2>1. a + Len(Numbered(DOLLAR, n)) <= Len(buf) /\ StandsAt(buf, a, Numbered(DOLLAR, n))
        BY <1>1, <1>5, <1>6
    <2> QED
        BY <1>1, <2>1, NumberedReads DEF w
<1>8. SubSeq(buf, b + 1, b + n) = arg
    <2>1. StandsAt(buf, b, arg) /\ b \in Nat /\ b + n <= Len(buf)
        BY <1>1, <1>5, <1>6
    <2> HIDE DEF b
    <2> QED
        BY <1>1, <2>1, StandsCut DEF n
<1>9. EndsLine(buf, b + n + 1)
    <2>1. a + Len(x) = b + n /\ (b + n + 1) + 1 <= Len(buf) /\ (b + n) + 2 = (b + n + 1) + 1
        BY <1>1, <1>6
    <2>2. buf[(b + n) + 1] = CR /\ buf[(b + n) + 2] = LF
        BY <1>2, <1>4, <2>1 DEF StandsAt
    <2> QED
        BY <2>1, <2>2 DEF EndsLine
<1> DEFINE p == a + 1
           length == ParseInt(buf, p + 1)
           from == length.next + 2
           end == from + length.val
<1>10. length = [val |-> n, next |-> (a + 2) + w]
    BY <1>7
<1>11. ParseBulk(buf, p) =
           IF /\ p <= Len(buf) /\ buf[p] = DOLLAR
              /\ length.next > p + 1 /\ EndsLine(buf, length.next)
              /\ end - 1 <= Len(buf) /\ EndsLine(buf, end)
           THEN [ok |-> TRUE, args |-> <<SubSeq(buf, from, end - 1)>>, next |-> end + 2]
           ELSE Failed
    BY DEF ParseBulk
<1> HIDE DEF length
<1>12. /\ length.next = (a + 2) + w /\ length.val = n
       /\ from = b + 1 /\ end = b + n + 1 /\ end - 1 = b + n
       /\ end + 2 = (a + (w + 3 + n + 2)) + 1
    BY <1>1, <1>10
<1> HIDE DEF from, end
<1>13. /\ p <= Len(buf) /\ buf[p] = DOLLAR
       /\ length.next > p + 1 /\ EndsLine(buf, length.next)
       /\ end - 1 <= Len(buf) /\ EndsLine(buf, end)
    BY <1>1, <1>6, <1>7, <1>9, <1>12
<1>14. ParseBulk(buf, p) =
           [ok |-> TRUE, args |-> <<SubSeq(buf, from, end - 1)>>, next |-> end + 2]
    BY <1>11, <1>13
<1>15. SubSeq(buf, from, end - 1) = arg
    BY <1>8, <1>12
<1>16. end + 2 = (a + Len(Bulk(arg))) + 1
    BY <1>1, <1>12
<1> HIDE DEF b
<1> QED
    BY <1>14, <1>15, <1>16 DEF Read, p

(*****************************************************************************)
(* The arguments of a command, one after the other: at[i] is where argument  *)
(* i ends, counted from b bytes into the buffer.                             *)
(*****************************************************************************)
BulksAt(buf, b, c, at) ==
    /\ at \in [0 .. Len(c) -> Nat]
    /\ \A i \in 1 .. Len(c) : /\ at[i] = at[i - 1] + Len(Bulk(c[i]))
                              /\ b + at[i] <= Len(buf)
                              /\ StandsAt(buf, b + at[i - 1], Bulk(c[i]))

(*****************************************************************************)
(* The loop over the arguments, one argument more at a time.                 *)
(*****************************************************************************)
OneMore(buf, found) ==
    LET one == ParseBulk(buf, found.next)
    IN  IF found.ok /\ one.ok
        THEN [ok |-> TRUE, args |-> found.args \o one.args, next |-> one.next]
        ELSE Failed

LEMMA BulksLoop ==
    ASSUME NEW buf, NEW p, NEW M \in Nat, NEW g, DefinedUpTo(M, g),
           g[0] = Read(<<>>, p), \A k \in 1 .. M : g[k] = OneMore(buf, g[k - 1])
    PROVE  ParseBulks(buf, p, M) = g[M]
<1> DEFINE Next(k, found) ==
               IF k = 0 THEN [ok |-> TRUE, args |-> <<>>, next |-> p]
               ELSE LET one == ParseBulk(buf, found.next)
                    IN  IF found.ok /\ one.ok
                        THEN [ok |-> TRUE, args |-> found.args \o one.args, next |-> one.next]
                        ELSE Failed
           Is(f) == f = [k \in 0 .. M |-> Next(k, f[k - 1])]
           h == CHOOSE f : Is(f)
<1>1. ParseBulks(buf, p, M) = h[M]
    BY DEF ParseBulks
<1>2. /\ \A found : Next(0, found) = Read(<<>>, p)
      /\ \A k \in 1 .. M : \A found : Next(k, found) = OneMore(buf, found)
    <2>1. \A found : Next(0, found) = Read(<<>>, p)
        BY DEF Read
    <2>2. ASSUME NEW k \in 1 .. M, NEW found PROVE Next(k, found) = OneMore(buf, found)
        <3>1. k # 0
            OBVIOUS
        <3> QED
            BY <3>1 DEF OneMore
    <2> QED
        BY <2>1, <2>2
<1> HIDE DEF Next
<1>3. \A k \in 0 .. M : g[k] = Next(k, g[k - 1])
    <2> TAKE k \in 0 .. M
    <2>1. CASE k = 0
        BY <1>2, <2>1
    <2>2. CASE k \in 1 .. M
        BY <1>2, <2>2
    <2> QED
        BY <2>1, <2>2
<1>4. Is(g)
    BY <1>3 DEF DefinedUpTo
<1>5. Is(h)
    BY <1>4
<1> HIDE DEF h
<1>6. h = g
    <2>1. h[0] = g[0]
        <3>1. 0 \in 0 .. M
            OBVIOUS
        <3> QED
            BY <1>2, <1>5, <3>1
    <2>2. DefinedUpTo(M, h)
        <3>1. h = [k \in 0 .. M |-> h[k]]
            BY <1>5
        <3> QED
            BY <3>1 DEF DefinedUpTo
    <2>3. ASSUME NEW k \in 1 .. M, h[k - 1] = g[k - 1] PROVE h[k] = g[k]
        <3>1. k \in 0 .. M
            OBVIOUS
        <3>2. h[k] = Next(k, h[k - 1])
            BY <1>5, <3>1
        <3> QED
            BY <1>3, <2>3, <3>1, <3>2
    <2> QED
        BY <2>1, <2>2, <2>3, RecursionUnique
<1> QED
    BY <1>1, <1>6

LEMMA OneMoreReads ==
    ASSUME NEW buf, NEW less, NEW p, NEW arg, NEW q, ParseBulk(buf, p) = Read(<<arg>>, q)
    PROVE  OneMore(buf, Read(less, p)) = Read(less \o <<arg>>, q)
<1> DEFINE found == Read(less, p)
           one == ParseBulk(buf, p)
<1>1. found.ok /\ found.next = p /\ found.args = less
    BY DEF Read
<1>2. one.ok /\ one.args = <<arg>> /\ one.next = q
    BY DEF Read
<1> HIDE DEF found
<1>3. OneMore(buf, found) = [ok |-> TRUE, args |-> found.args \o one.args, next |-> one.next]
    BY <1>1, <1>2 DEF OneMore
<1> HIDE DEF one
<1>4. OneMore(buf, found) = Read(less \o <<arg>>, q)
    BY <1>1, <1>2, <1>3 DEF Read
<1> QED
    BY <1>4 DEF found

\* an argument that stands where the loop has come to is read
LEMMA NextBulkRead ==
    ASSUME NEW c \in Seq(Argument), NEW buf \in Seq(Octet), NEW b \in Nat,
           NEW at, at \in [0 .. Len(c) -> Nat], NEW k \in 1 .. Len(c) - 1,
           at[k + 1] = at[k] + Len(Bulk(c[k + 1])), b + at[k + 1] <= Len(buf),
           StandsAt(buf, b + at[k], Bulk(c[k + 1]))
    PROVE  OneMore(buf, Read(SubSeq(c, 2, k), (b + at[k]) + 1)) =
               Read(SubSeq(c, 2, k + 1), (b + at[k + 1]) + 1)
<1> DEFINE N == Len(c)
           i == k + 1
           a == b + at[k]
           less == SubSeq(c, 2, k)
<1>1. N \in Nat /\ k \in 1 .. N - 1 /\ \A j \in 1 .. N : c[j] \in Argument
    OBVIOUS
<1>2. \A j \in 0 .. N : at[j] \in Nat
    OBVIOUS
<1> HIDE DEF N
<1>3. i \in 1 .. N /\ i - 1 = k /\ k \in 0 .. N /\ i \in 2 .. N /\ 2 \in 1 .. N
    BY <1>1
<1>4. /\ at[i] = at[k] + Len(Bulk(c[i])) /\ b + at[i] <= Len(buf)
      /\ StandsAt(buf, a, Bulk(c[i])) /\ c[i] \in Argument /\ at[k] \in Nat
    BY <1>1, <1>2, <1>3
<1>5. SubSeq(c, 2, i - 1) \o <<c[i]>> = SubSeq(c, 2, i)
    <2> HIDE DEF i
    <2> QED
        BY <1>3, SliceGrows DEF N
<1>6. less \o <<c[i]>> = SubSeq(c, 2, i)
    BY <1>3, <1>5
<1>7. Len(Bulk(c[i])) \in Nat
    BY <1>4, BulkType
<1> HIDE DEF i, less
<1>8. a \in Nat /\ a + Len(Bulk(c[i])) = b + at[i]
    <2> DEFINE x == Len(Bulk(c[i]))
               y == at[k]
    <2>1. x \in Nat /\ y \in Nat /\ at[i] = y + x
        BY <1>4, <1>7
    <2> HIDE DEF x, y
    <2>2. b + y \in Nat /\ (b + y) + x = b + (y + x)
        BY <2>1
    <2> QED
        BY <2>1, <2>2 DEF x, y
<1> HIDE DEF a
<1>9. ParseBulk(buf, a + 1) = Read(<<c[i]>>, (b + at[i]) + 1)
    <2>1. ParseBulk(buf, a + 1) = Read(<<c[i]>>, (a + Len(Bulk(c[i]))) + 1)
        BY <1>4, <1>8, BulkReads
    <2> QED
        BY <1>8, <2>1
<1>10. OneMore(buf, Read(less, a + 1)) = Read(less \o <<c[i]>>, (b + at[i]) + 1)
    BY <1>9, OneMoreReads
<1>11. OneMore(buf, Read(less, a + 1)) = Read(SubSeq(c, 2, i), (b + at[i]) + 1)
    BY <1>6, <1>10
<1> QED
    BY <1>11 DEF less, a, i

LEMMA BulksRead ==
    ASSUME NEW c \in Seq(Argument), Len(c) >= 1, NEW buf \in Seq(Octet), NEW b \in Nat,
           NEW at, BulksAt(buf, b, c, at)
    PROVE  ParseBulks(buf, (b + at[1]) + 1, Len(c) - 1) =
               Read(SubSeq(c, 2, Len(c)), (b + at[Len(c)]) + 1)
<1> DEFINE N == Len(c)
           M == N - 1
           W(k) == Read(SubSeq(c, 2, k), (b + at[k]) + 1)
           g == [k \in 0 .. M |-> W(k + 1)]
<1>1. M \in Nat /\ M + 1 = N /\ N \in 1 .. N
    OBVIOUS
<1>2. \A k \in 1 .. M : OneMore(buf, W(k)) = W(k + 1)
    <2> HIDE DEF g
    <2> TAKE k \in 1 .. M
    <2>1. at \in [0 .. Len(c) -> Nat] /\ k \in 1 .. Len(c) - 1
        BY DEF BulksAt
    <2>2. k + 1 \in 1 .. Len(c) /\ (k + 1) - 1 = k
        BY <1>1
    <2>3. /\ at[k + 1] = at[k] + Len(Bulk(c[k + 1])) /\ b + at[k + 1] <= Len(buf)
          /\ StandsAt(buf, b + at[k], Bulk(c[k + 1]))
        BY <2>2 DEF BulksAt
    <2>4. OneMore(buf, Read(SubSeq(c, 2, k), (b + at[k]) + 1)) =
              Read(SubSeq(c, 2, k + 1), (b + at[k + 1]) + 1)
        BY <2>1, <2>3, NextBulkRead
    <2> QED
        BY <2>4
<1>3. W(1) = Read(<<>>, (b + at[1]) + 1)
    <2>1. SubSeq(c, 2, 1) = <<>>
        BY SubSeqEmpty
    <2> QED
        BY <2>1
<1> HIDE DEF M, N, W
<1>4. g[0] = W(1) /\ g[M] = W(N)
    BY <1>1
<1>5. ASSUME NEW k \in 1 .. M PROVE g[k] = OneMore(buf, g[k - 1])
    <2>1. k \in 0 .. M /\ k - 1 \in 0 .. M /\ (k - 1) + 1 = k
        BY <1>1
    <2>2. g[k] = W(k + 1) /\ g[k - 1] = W(k)
        BY <2>1
    <2> HIDE DEF g
    <2> QED
        BY <1>2, <2>2
<1>6. DefinedUpTo(M, g)
    BY DEF DefinedUpTo
<1> HIDE DEF g
<1>7. ParseBulks(buf, (b + at[1]) + 1, M) = W(N)
    BY <1>1, <1>3, <1>4, <1>5, <1>6, BulksLoop
<1> QED
    BY <1>7 DEF M, N, W

(*****************************************************************************)
(* A command is read back, wherever it stands.                               *)
(*****************************************************************************)
LEMMA StandsWithin ==
    ASSUME NEW S, NEW middle \in Seq(S), NEW part \in Seq(S), NEW whole, NEW a \in Nat,
           NEW b \in Nat, b + Len(part) <= Len(middle),
           StandsAt(whole, a, middle), StandsAt(middle, b, part)
    PROVE  StandsAt(whole, a + b, part)
<1>1. ASSUME NEW j \in 1 .. Len(part) PROVE whole[(a + b) + j] = part[j]
    <2>1. b + j \in 1 .. Len(middle) /\ a + (b + j) = (a + b) + j
        OBVIOUS
    <2>2. whole[a + (b + j)] = middle[b + j] /\ middle[b + j] = part[j]
        BY <2>1 DEF StandsAt
    <2> QED
        BY <2>1, <2>2
<1> QED
    BY <1>1 DEF StandsAt

Bulks(c) == [i \in 1 .. Len(c) |-> Bulk(c[i])]

LEMMA CommandStands ==
    ASSUME NEW c \in Seq(Argument), NEW buf \in Seq(Octet), NEW a \in Nat,
           a + Len(ToResp(c)) <= Len(buf), StandsAt(buf, a, ToResp(c))
    PROVE  /\ StandsAt(buf, a, Numbered(STAR, Len(c)))
           /\ \E at : /\ BulksAt(buf, a + Len(Numbered(STAR, Len(c))), c, at)
                      /\ at[0] = 0
                      /\ Len(ToResp(c)) = Len(Numbered(STAR, Len(c))) + at[Len(c)]
<1> DEFINE N == Len(c)
           head == Numbered(STAR, N)
           parts == Bulks(c)
           body == Joined(parts)
<1>1. N \in Nat /\ (\A i \in 1 .. N : c[i] \in Argument) /\ STAR \in Octet
    BY DEF STAR, Octet
<1>2. ToResp(c) = head \o body
    BY DEF ToResp, Numbered, LineEnd, Bulks, Bulk
<1>3. parts \in Seq(Seq(Octet)) /\ Len(parts) = N /\ \A i \in 1 .. N : parts[i] = Bulk(c[i])
    <2>1. \A i \in 1 .. N : Bulk(c[i]) \in Seq(Octet)
        BY <1>1, BulkType
    <2> QED
        BY <1>1, <2>1 DEF Bulks
<1> HIDE DEF parts, N
<1>4. head \in Seq(Octet) /\ Len(head) \in Nat
    <2>1. Numbered(STAR, N) \in Seq(Octet)
        BY <1>1, NumberedType
    <2> HIDE DEF head
    <2>2. head \in Seq(Octet)
        BY <2>1 DEF head
    <2> QED
        BY <2>2
<1>5. body \in Seq(Octet) /\ \E at : PartsAt(parts, body, at)
    BY <1>3, JoinedAt
<1> HIDE DEF head, body
<1>6. PICK at : PartsAt(parts, body, at)
    BY <1>5
<1>7. /\ at \in [0 .. N -> Nat] /\ at[0] = 0 /\ at[N] = Len(body)
      /\ \A i \in 1 .. N : /\ at[i] = at[i - 1] + Len(Bulk(c[i]))
                           /\ at[i] <= Len(body)
                           /\ StandsAt(body, at[i - 1], Bulk(c[i]))
    BY <1>3, <1>6 DEF PartsAt
<1>8. StandsAt(buf, a, head) /\ StandsAt(buf, a + Len(head), body)
    BY <1>2, <1>4, <1>5, StandsApart
<1>9. Len(ToResp(c)) = Len(head) + Len(body)
    BY <1>2, <1>4, <1>5, ConcatElements
<1> DEFINE b == a + Len(head)
<1>10. b \in Nat /\ Len(buf) \in Nat /\ b + Len(body) <= Len(buf) /\ Len(body) \in Nat
    BY <1>4, <1>5, <1>9
<1>11. ASSUME NEW i \in 1 .. N
       PROVE  b + at[i] <= Len(buf) /\ StandsAt(buf, b + at[i - 1], Bulk(c[i]))
    <2>1. /\ i - 1 \in 0 .. N /\ at[i - 1] \in Nat /\ i \in 0 .. N /\ at[i] \in Nat
          /\ Bulk(c[i]) \in Seq(Octet)
        <3>1. i - 1 \in 0 .. N /\ i \in 0 .. N
            BY <1>1
        <3>2. Bulk(c[i]) \in Seq(Octet)
            BY <1>1, BulkType
        <3> QED
            BY <1>7, <3>1, <3>2
    <2>2. /\ at[i - 1] + Len(Bulk(c[i])) <= Len(body)
          /\ StandsAt(body, at[i - 1], Bulk(c[i])) /\ at[i] <= Len(body)
        BY <1>7
    <2>3. b + at[i] <= Len(buf)
        BY <1>10, <2>1, <2>2
    <2> HIDE DEF b
    <2>4. StandsAt(buf, b, body)
        BY <1>8 DEF b
    <2>5. StandsAt(buf, b + at[i - 1], Bulk(c[i]))
        BY <1>5, <1>10, <2>1, <2>2, <2>4, StandsWithin
    <2> QED
        BY <2>3, <2>5
<1>12. BulksAt(buf, b, c, at)
    <2> HIDE DEF b
    <2> QED
        BY <1>7, <1>11 DEF BulksAt, N
<1> QED
    BY <1>7, <1>8, <1>9, <1>12 DEF head, N

(*****************************************************************************)
(* What the log holds: a name it knows, as many arguments as are read again, *)
(* none too long for its length to be read.                                  *)
(*****************************************************************************)
Loggable(c) ==
    /\ c \in Seq(Argument) /\ Len(c) >= 1 /\ Len(c) < IntLimit
    /\ c[1] \in Logged /\ Utf8(c[1])
    /\ Len(c) >= Least(c[1]) /\ Reads(c[1], Len(c)) = Len(c) - 1
    /\ Readable(c[1], SubSeq(c, 2, Len(c)))

LEMMA CommandReads ==
    ASSUME NEW c, Loggable(c), NEW buf \in Seq(Octet), NEW a \in Nat,
           a + Len(ToResp(c)) <= Len(buf), StandsAt(buf, a, ToResp(c))
    PROVE  ParseCommand(buf, a + 1) = Read(c, (a + Len(ToResp(c))) + 1)
<1> DEFINE N == Len(c)
           w == Len(Decimal(N))
           p == a + 1
           b == a + (w + 3)
           others == SubSeq(c, 2, N)
<1>1. /\ c \in Seq(Argument) /\ N \in Nat /\ N >= 1 /\ N < IntLimit /\ STAR \in Octet
      /\ Utf8(c[1]) /\ N >= Least(c[1]) /\ Reads(c[1], N) = N - 1
      /\ Readable(c[1], others) /\ c[1] \in Argument
    BY DEF Loggable, STAR, Octet
<1>2. /\ StandsAt(buf, a, Numbered(STAR, N))
      /\ \E at : /\ BulksAt(buf, a + Len(Numbered(STAR, N)), c, at)
                 /\ at[0] = 0
                 /\ Len(ToResp(c)) = Len(Numbered(STAR, N)) + at[N]
    BY <1>1, CommandStands
<1>3. Len(Numbered(STAR, N)) = w + 3 /\ w \in Nat
    BY <1>1, NumberedType
<1>4. PICK at : BulksAt(buf, b, c, at) /\ at[0] = 0 /\ Len(ToResp(c)) = (w + 3) + at[N]
    BY <1>2, <1>3
<1> HIDE DEF N, w
<1>5. /\ at[1] \in Nat /\ at[N] \in Nat /\ at[1] = Len(Bulk(c[1]))
      /\ b + at[1] <= Len(buf) /\ StandsAt(buf, b, Bulk(c[1]))
    <2>1. 1 \in 1 .. N /\ 1 - 1 = 0 /\ 1 \in 0 .. N /\ N \in 0 .. N
        BY <1>1
    <2>2. /\ at \in [0 .. N -> Nat]
          /\ \A i \in 1 .. N : /\ at[i] = at[i - 1] + Len(Bulk(c[i]))
                               /\ b + at[i] <= Len(buf)
                               /\ StandsAt(buf, b + at[i - 1], Bulk(c[i]))
        BY <1>4 DEF BulksAt, N
    <2>3. at[1] \in Nat /\ at[N] \in Nat
        BY <2>1, <2>2
    <2>4. /\ at[1] = at[0] + Len(Bulk(c[1])) /\ b + at[1] <= Len(buf)
          /\ StandsAt(buf, b + at[0], Bulk(c[1]))
        BY <2>1, <2>2
    <2>5. b + at[0] = b /\ at[0] + Len(Bulk(c[1])) = Len(Bulk(c[1]))
        <3>1. Len(Bulk(c[1])) \in Nat /\ b \in Nat
            BY <1>1, <1>3, BulkType
        <3> HIDE DEF b
        <3> QED
            BY <1>4, <3>1
    <2> QED
        BY <2>3, <2>4, <2>5
<1>6. b \in Nat /\ Len(buf) \in Nat
    BY <1>3
<1> DEFINE count == ParseInt(buf, p + 1)
           name == ParseBulk(buf, count.next + 2)
           args == ParseBulks(buf, name.next, Reads(name.args[1], count.val))
<1>7. /\ buf[p] = STAR /\ count = [val |-> N, next |-> (a + 2) + w]
      /\ w >= 1 /\ EndsLine(buf, (a + 2) + w)
    <2>1. a + Len(Numbered(STAR, N)) <= Len(buf)
        BY <1>1, <1>3, <1>4, <1>5, <1>6
    <2>2. /\ buf[a + 1] = STAR
          /\ ParseInt(buf, a + 2) = [val |-> N, next |-> (a + 2) + Len(Decimal(N))]
          /\ Len(Decimal(N)) >= 1 /\ EndsLine(buf, (a + 2) + Len(Decimal(N)))
        BY <1>1, <1>2, <2>1, NumberedReads
    <2>3. p + 1 = a + 2
        OBVIOUS
    <2> QED
        BY <2>2, <2>3 DEF w
<1>8. ParseCommand(buf, p) =
          IF /\ p <= Len(buf) /\ buf[p] = STAR
             /\ count.next > p + 1 /\ EndsLine(buf, count.next) /\ count.val > 0
             /\ name.ok /\ Utf8(name.args[1])
             /\ count.val >= Least(name.args[1])
             /\ args.ok /\ Readable(name.args[1], args.args)
          THEN [ok |-> TRUE, args |-> name.args \o args.args, next |-> args.next]
          ELSE Failed
    BY DEF ParseCommand
<1> HIDE DEF args
<1>9. count.val = N /\ count.next = (a + 2) + w /\ count.next + 2 = b + 1
    BY <1>3, <1>7
<1>10. name = Read(<<c[1]>>, (b + at[1]) + 1)
    <2>1. ParseBulk(buf, b + 1) = Read(<<c[1]>>, (b + Len(Bulk(c[1]))) + 1)
        <3> HIDE DEF b
        <3> QED
            BY <1>1, <1>5, <1>6, BulkReads
    <2> HIDE DEF count, b
    <2> QED
        BY <1>5, <1>9, <2>1
<1>11. name.ok /\ name.args = <<c[1]>> /\ name.args[1] = c[1] /\ name.next = (b + at[1]) + 1
    BY <1>10 DEF Read
<1>12. args = Read(others, (b + at[N]) + 1)
    <2>1. args = ParseBulks(buf, (b + at[1]) + 1, N - 1)
        <3> HIDE DEF count, name, b
        <3> QED
            BY <1>1, <1>9, <1>11 DEF args
    <2>2. ParseBulks(buf, (b + at[1]) + 1, Len(c) - 1) =
              Read(SubSeq(c, 2, Len(c)), (b + at[Len(c)]) + 1)
        <3> HIDE DEF b
        <3> QED
            BY <1>1, <1>4, <1>6, BulksRead DEF N
    <2> QED
        BY <2>1, <2>2 DEF N
<1>13. args.ok /\ args.args = others /\ args.next = (b + at[N]) + 1
    BY <1>12 DEF Read
<1> HIDE DEF count, name
<1>14. p <= Len(buf) /\ count.next > p + 1 /\ count.val > 0
    BY <1>1, <1>3, <1>5, <1>6, <1>7, <1>9
<1>15. ParseCommand(buf, p) =
           [ok |-> TRUE, args |-> name.args \o args.args, next |-> args.next]
    <2> HIDE DEF p, others
    <2> QED
        BY <1>1, <1>7, <1>8, <1>9, <1>11, <1>13, <1>14
<1>16. name.args \o args.args = c
    <2>1. <<c[1]>> \o SubSeq(c, 2, Len(c)) = c
        BY <1>1, AllButFirst DEF N
    <2> QED
        BY <1>11, <1>13, <2>1 DEF N
<1>17. args.next = (a + Len(ToResp(c))) + 1
    <2>1. \A x \in Nat : (b + x) + 1 = (a + ((w + 3) + x)) + 1
        BY <1>3
    <2> HIDE DEF b
    <2>2. (b + at[N]) + 1 = (a + ((w + 3) + at[N])) + 1
        BY <1>5, <2>1
    <2> QED
        BY <1>4, <1>13, <2>2
<1> QED
    BY <1>15, <1>16, <1>17 DEF Read

LEMMA CommandType ==
    ASSUME NEW c \in Seq(Argument)
    PROVE  ToResp(c) \in Seq(Octet) /\ Len(ToResp(c)) \in Nat /\ Len(ToResp(c)) >= 4
<1> DEFINE N == Len(c)
           head == Numbered(STAR, N)
           parts == Bulks(c)
           body == Joined(parts)
<1>1. N \in Nat /\ (\A i \in 1 .. N : c[i] \in Argument) /\ STAR \in Octet
    BY DEF STAR, Octet
<1>2. ToResp(c) = head \o body
    BY DEF ToResp, Numbered, LineEnd, Bulks, Bulk
<1>3. parts \in Seq(Seq(Octet))
    <2>1. \A i \in 1 .. N : Bulk(c[i]) \in Seq(Octet)
        BY <1>1, BulkType
    <2> QED
        BY <1>1, <2>1 DEF Bulks
<1> HIDE DEF parts, N
<1>4. Numbered(STAR, N) \in Seq(Octet) /\ Len(Numbered(STAR, N)) >= 4
    <2>1. Numbered(STAR, N) \in Seq(Octet) /\ Len(Numbered(STAR, N)) = Len(Decimal(N)) + 3
        BY <1>1, NumberedType
    <2>2. Len(Decimal(N)) \in Nat /\ Len(Decimal(N)) >= 1
        BY <1>1, DecimalType
    <2> QED
        BY <2>1, <2>2
<1>5. body \in Seq(Octet)
    BY <1>3, JoinedAt
<1> HIDE DEF head, body
<1>6. head \in Seq(Octet) /\ Len(head) >= 4
    BY <1>4 DEF head
<1>7. head \o body \in Seq(Octet) /\ Len(head \o body) = Len(head) + Len(body)
    BY <1>5, <1>6, ConcatElements
<1>8. Len(head) \in Nat /\ Len(body) \in Nat
    BY <1>5, <1>6
<1> QED
    BY <1>2, <1>6, <1>7, <1>8

(*****************************************************************************)
(* The replay takes the command that stands where it is, and goes on behind  *)
(* it; past the end it stays.                                                *)
(*****************************************************************************)
Walk(p, read) == [p |-> p, read |-> read]

LEMMA NextReads ==
    ASSUME NEW c, Loggable(c), NEW data \in Seq(Octet), NEW a \in Nat, NEW read,
           a + Len(ToResp(c)) <= Len(data), StandsAt(data, a, ToResp(c))
    PROVE  NextCommand(data, Walk(a + 1, read)) =
               Walk((a + Len(ToResp(c))) + 1, Append(read, c))
<1> DEFINE walk == Walk(a + 1, read)
           found == ParseCommand(data, walk.p)
           n == Len(ToResp(c))
<1>1. walk.p = a + 1 /\ walk.read = read
    BY DEF Walk
<1>2. c \in Seq(Argument) /\ c[1] \in Logged
    BY DEF Loggable
<1>3. n \in Nat /\ n >= 4 /\ Len(data) \in Nat
    BY <1>2, CommandType
<1>4. ~ a + 1 > Len(data)
    BY <1>3
<1> HIDE DEF walk
<1>5. found = Read(c, (a + n) + 1)
    BY <1>1, CommandReads
<1>6. NextCommand(data, walk) =
          IF walk.p > Len(data) THEN walk
          ELSE IF ~ found.ok THEN [walk EXCEPT !.p = @ + 1]
          ELSE [p |-> found.next,
                read |-> IF found.args[1] \in Logged THEN Append(walk.read, found.args)
                                                      ELSE walk.read]
    BY DEF NextCommand, Taken
<1> HIDE DEF found, n
<1>7. found.ok /\ found.args = c /\ found.next = (a + n) + 1
    BY <1>5 DEF Read
<1>8. NextCommand(data, walk) = [p |-> found.next, read |-> Append(walk.read, found.args)]
    BY <1>1, <1>2, <1>4, <1>6, <1>7
<1> QED
    BY <1>1, <1>7, <1>8 DEF Walk, walk, n

LEMMA NextStays ==
    ASSUME NEW data \in Seq(Octet), NEW read
    PROVE  NextCommand(data, Walk(Len(data) + 1, read)) = Walk(Len(data) + 1, read)
<1>1. Walk(Len(data) + 1, read).p = Len(data) + 1
    BY DEF Walk
<1>2. Len(data) + 1 > Len(data)
    OBVIOUS
<1> QED
    BY <1>1, <1>2 DEF NextCommand

(*****************************************************************************)
(* The scan of the replay: Reached says that it comes to p with the commands *)
(* read.  Every turn moves it by a byte at least, so that it gets as far as  *)
(* the end.                                                                  *)
(*****************************************************************************)
Reached(data, p, read) ==
    \E k \in 0 .. p - 1 : \E g :
        /\ g[0] = Walk(1, <<>>) /\ g[k] = Walk(p, read)
        /\ \A n \in 1 .. k : g[n] = NextCommand(data, g[n - 1])

LEMMA ReachedFirst ==
    ASSUME NEW data
    PROVE  Reached(data, 1, <<>>)
<1> DEFINE g == [n \in 0 .. 0 |-> Walk(1, <<>>)]
<1>1. g[0] = Walk(1, <<>>) /\ 0 \in 0 .. 1 - 1 /\ 1 .. 0 = {}
    OBVIOUS
<1> HIDE DEF g
<1> QED
    BY <1>1 DEF Reached

LEMMA ReachedNext ==
    ASSUME NEW data, NEW p \in Nat, NEW q \in Nat, p < q, NEW read, NEW more,
           Reached(data, p, read), NextCommand(data, Walk(p, read)) = Walk(q, more)
    PROVE  Reached(data, q, more)
<1>1. PICK k \in 0 .. p - 1 : \E g :
          /\ g[0] = Walk(1, <<>>) /\ g[k] = Walk(p, read)
          /\ \A n \in 1 .. k : g[n] = NextCommand(data, g[n - 1])
    BY DEF Reached
<1>2. PICK g : /\ g[0] = Walk(1, <<>>) /\ g[k] = Walk(p, read)
               /\ \A n \in 1 .. k : g[n] = NextCommand(data, g[n - 1])
    BY <1>1
<1> DEFINE h == [n \in 0 .. k + 1 |-> IF n <= k THEN g[n] ELSE Walk(q, more)]
<1>3. k \in Nat /\ k + 1 \in 0 .. q - 1
    OBVIOUS
<1>4. h[0] = Walk(1, <<>>) /\ h[k + 1] = Walk(q, more)
    BY <1>2, <1>3
<1>5. ASSUME NEW n \in 1 .. k + 1 PROVE h[n] = NextCommand(data, h[n - 1])
    <2>1. n \in 0 .. k + 1 /\ n - 1 \in 0 .. k + 1 /\ n - 1 <= k
        BY <1>3
    <2>2. h[n] = (IF n <= k THEN g[n] ELSE Walk(q, more)) /\ h[n - 1] = g[n - 1]
        BY <2>1
    <2> HIDE DEF h
    <2>3. CASE n <= k
        BY <1>2, <2>2, <2>3
    <2>4. CASE ~ n <= k
        <3>1. n - 1 = k
            BY <1>3, <2>4
        <3> QED
            BY <1>2, <2>2, <2>4, <3>1
    <2> QED
        BY <2>3, <2>4
<1> HIDE DEF h
<1> QED
    BY <1>3, <1>4, <1>5 DEF Reached

LEMMA ReachedEnd ==
    ASSUME NEW data \in Seq(Octet), NEW read, Reached(data, Len(data) + 1, read)
    PROVE  Replayed(data) = read
<1> DEFINE N == Len(data)
           last == Walk(N + 1, read)
           Next(n, walk) == IF n = 0 THEN [p |-> 1, read |-> <<>>] ELSE NextCommand(data, walk)
           Is(f) == f = [n \in 0 .. N |-> Next(n, f[n - 1])]
           h == CHOOSE f : Is(f)
<1>1. Replayed(data) = h[N].read
    BY DEF Replayed
<1>2. N \in Nat /\ (N + 1) - 1 = N
    OBVIOUS
<1>3. NextCommand(data, last) = last
    BY NextStays
<1>4. last.read = read
    BY DEF Walk
<1> HIDE DEF N, last
<1>5. PICK k \in 0 .. N : \E g :
          /\ g[0] = Walk(1, <<>>) /\ g[k] = last
          /\ \A n \in 1 .. k : g[n] = NextCommand(data, g[n - 1])
    BY <1>2 DEF Reached, N, last
<1>6. PICK g : /\ g[0] = Walk(1, <<>>) /\ g[k] = last
               /\ \A n \in 1 .. k : g[n] = NextCommand(data, g[n - 1])
    BY <1>5
<1> DEFINE f == [n \in 0 .. N |-> IF n <= k THEN g[n] ELSE last]
<1>7. f[0] = Walk(1, <<>>) /\ f[N] = last /\ DefinedUpTo(N, f)
    <2>1. 0 \in 0 .. N /\ N \in 0 .. N /\ 0 <= k /\ (N <= k => N = k)
        BY <1>2
    <2>2. f[0] = g[0] /\ f[N] = IF N <= k THEN g[N] ELSE last
        BY <2>1
    <2> QED
        BY <1>6, <2>1, <2>2 DEF DefinedUpTo
<1>8. ASSUME NEW n \in 1 .. N PROVE f[n] = NextCommand(data, f[n - 1])
    <2>1. n \in 0 .. N /\ n - 1 \in 0 .. N
        BY <1>2
    <2>2. /\ f[n] = IF n <= k THEN g[n] ELSE last
          /\ f[n - 1] = IF n - 1 <= k THEN g[n - 1] ELSE last
        BY <2>1
    <2> HIDE DEF f
    <2>3. CASE n <= k
        <3>1. n - 1 <= k /\ n \in 1 .. k
            BY <1>2, <2>3
        <3> QED
            BY <1>6, <2>2, <2>3, <3>1
    <2>4. CASE ~ n <= k
        <3>1. f[n - 1] = last
            <4>1. n - 1 <= k => n - 1 = k
                BY <1>2, <2>4
            <4> QED
                BY <1>6, <2>2, <4>1
        <3> QED
            BY <1>3, <2>2, <2>4, <3>1
    <2> QED
        BY <2>3, <2>4
<1> HIDE DEF f
<1>9. \A n \in 0 .. N : f[n] = Next(n, f[n - 1])
    <2> TAKE n \in 0 .. N
    <2>1. CASE n = 0
        BY <1>7, <2>1 DEF Walk
    <2>2. CASE n \in 1 .. N
        <3>1. n # 0
            BY <2>2
        <3> QED
            BY <1>8, <2>2, <3>1
    <2> QED
        BY <1>2, <2>1, <2>2
<1> HIDE DEF Next
<1>10. Is(f)
    BY <1>7, <1>9 DEF DefinedUpTo
<1>11. Is(h)
    BY <1>10
<1> HIDE DEF h
<1>12. h = f
    <2>1. \A walk, other : Next(0, walk) = Next(0, other)
        BY DEF Next
    <2>2. h[0] = f[0]
        <3>1. 0 \in 0 .. N
            BY <1>2
        <3> QED
            BY <1>9, <1>11, <2>1, <3>1
    <2>3. DefinedUpTo(N, h)
        <3>1. h = [n \in 0 .. N |-> h[n]]
            BY <1>11
        <3> QED
            BY <3>1 DEF DefinedUpTo
    <2>4. ASSUME NEW n \in 1 .. N, h[n - 1] = f[n - 1] PROVE h[n] = f[n]
        <3>1. n \in 0 .. N
            OBVIOUS
        <3>2. h[n] = Next(n, h[n - 1])
            BY <1>11, <3>1
        <3> QED
            BY <1>9, <2>4, <3>1, <3>2
    <2> QED
        BY <1>2, <1>7, <2>2, <2>3, <2>4, RecursionUnique
<1> QED
    BY <1>1, <1>4, <1>7, <1>12

\* it takes the command that stands where it is
LEMMA ReachedCommand ==
    ASSUME NEW c, Loggable(c), NEW data \in Seq(Octet), NEW a \in Nat, NEW read,
           a + Len(ToResp(c)) <= Len(data), StandsAt(data, a, ToResp(c)),
           Reached(data, a + 1, read)
    PROVE  Reached(data, (a + Len(ToResp(c))) + 1, Append(read, c))
<1> DEFINE n == Len(ToResp(c))
<1>1. c \in Seq(Argument)
    BY DEF Loggable
<1>2. n \in Nat /\ n >= 4
    BY <1>1, CommandType
<1>3. NextCommand(data, Walk(a + 1, read)) = Walk((a + n) + 1, Append(read, c))
    BY NextReads
<1> HIDE DEF n
<1>4. a + 1 \in Nat /\ (a + n) + 1 \in Nat /\ a + 1 < (a + n) + 1
    BY <1>2
<1>5. Reached(data, (a + n) + 1, Append(read, c))
    BY <1>3, <1>4, ReachedNext
<1> QED
    BY <1>5 DEF n

\* and passes over the bytes at which no command is read
LEMMA ReachedPast ==
    ASSUME NEW data \in Seq(Octet), NEW a \in Nat, NEW b \in Nat, a <= b, b <= Len(data),
           NEW read, Reached(data, a + 1, read),
           \A p \in a + 1 .. b : ~ ParseCommand(data, p).ok
    PROVE  Reached(data, b + 1, read)
<1> DEFINE T == {j \in 0 .. b - a : Reached(data, (a + j) + 1, read)}
<1>1. b - a \in Nat /\ Len(data) \in Nat
    OBVIOUS
<1>2. 0 \in T
    <2>1. a + 0 = a /\ 0 \in 0 .. b - a
        BY <1>1
    <2> QED
        BY <2>1
<1>3. \A j \in 0 .. (b - a) - 1 : j \in T => j + 1 \in T
    <2> SUFFICES ASSUME NEW j \in 0 .. (b - a) - 1, j \in T PROVE j + 1 \in T
        OBVIOUS
    <2> DEFINE p == (a + j) + 1
    <2>1. /\ p \in a + 1 .. b /\ p \in Nat /\ p + 1 \in Nat /\ p < p + 1
          /\ (a + (j + 1)) + 1 = p + 1 /\ j + 1 \in 0 .. b - a /\ ~ p > Len(data)
        BY <1>1
    <2>2. Reached(data, p, read)
        OBVIOUS
    <2> HIDE DEF p
    <2>3. NextCommand(data, Walk(p, read)) = Walk(p + 1, read)
        <3> DEFINE walk == Walk(p, read)
                   found == ParseCommand(data, walk.p)
        <3>1. walk.p = p /\ walk.read = read /\ walk = [p |-> p, read |-> read]
            BY DEF Walk
        <3>2. NextCommand(data, walk) =
                  IF walk.p > Len(data) THEN walk
                  ELSE IF ~ found.ok THEN [walk EXCEPT !.p = @ + 1]
                  ELSE [p |-> found.next,
                        read |-> IF found.args[1] \in Logged THEN Append(walk.read, found.args)
                                                              ELSE walk.read]
            BY DEF NextCommand, Taken
        <3>3. ~ found.ok
            BY <2>1, <3>1
        <3> HIDE DEF walk, found
        <3>4. NextCommand(data, walk) = [walk EXCEPT !.p = @ + 1]
            BY <2>1, <3>1, <3>2, <3>3
        <3>5. [walk EXCEPT !.p = @ + 1] = Walk(p + 1, read)
            BY <3>1 DEF Walk
        <3> QED
            BY <3>4, <3>5 DEF walk
    <2>4. Reached(data, p + 1, read)
        BY <2>1, <2>2, <2>3, ReachedNext
    <2> QED
        BY <2>1, <2>4
<1>4. \A j \in 0 .. b - a : j \in T
    <2> HIDE DEF T
    <2> QED
        BY <1>1, <1>2, <1>3, IntervalInduction
<1>5. b - a \in T /\ a + (b - a) = b
    <2>1. b - a \in 0 .. b - a /\ a + (b - a) = b
        BY <1>1
    <2> HIDE DEF T
    <2> QED
        BY <1>4, <2>1
<1> QED
    BY <1>5

(*****************************************************************************)
(* A file of commands is read back, all of it.                               *)
(*****************************************************************************)
LEMMA FileReadsBack ==
    ASSUME NEW cs \in Seq(Seq(Argument)), \A i \in 1 .. Len(cs) : Loggable(cs[i])
    PROVE  Replayed(Joined([i \in 1 .. Len(cs) |-> ToResp(cs[i])])) = cs
<1> DEFINE K == Len(cs)
           parts == [i \in 1 .. Len(cs) |-> ToResp(cs[i])]
           data == Joined(parts)
           N == Len(data)
<1>1. K \in Nat /\ \A i \in 1 .. K : cs[i] \in Seq(Argument)
    OBVIOUS
<1>2. ASSUME NEW i \in 1 .. K
      PROVE  ToResp(cs[i]) \in Seq(Octet) /\ Len(ToResp(cs[i])) \in Nat /\ Len(ToResp(cs[i])) >= 4
    BY <1>1, CommandType
<1>3. parts \in Seq(Seq(Octet)) /\ Len(parts) = K /\ \A i \in 1 .. K : parts[i] = ToResp(cs[i])
    BY <1>1, <1>2
<1> HIDE DEF parts
<1>4. data \in Seq(Octet) /\ \E at : PartsAt(parts, data, at)
    BY <1>3, JoinedAt
<1> HIDE DEF data
<1>5. PICK at : PartsAt(parts, data, at)
    BY <1>4
<1> HIDE DEF K
<1>6. /\ at \in [0 .. K -> Nat] /\ at[0] = 0 /\ at[K] = N /\ N \in Nat
      /\ \A i \in 1 .. K : /\ at[i] = at[i - 1] + Len(ToResp(cs[i]))
                           /\ at[i] <= N
                           /\ StandsAt(data, at[i - 1], ToResp(cs[i]))
    BY <1>3, <1>4, <1>5 DEF PartsAt
<1> HIDE DEF N
<1> DEFINE T == {n \in 0 .. K : Reached(data, at[n] + 1, SubSeq(cs, 1, n))}
<1>7. 0 \in T
    <2>1. at[0] + 1 = 1 /\ SubSeq(cs, 1, 0) = <<>> /\ 0 \in 0 .. K
        BY <1>1, <1>6
    <2>2. Reached(data, 1, <<>>)
        BY ReachedFirst
    <2>3. Reached(data, at[0] + 1, SubSeq(cs, 1, 0))
        BY <2>1, <2>2
    <2> QED
        BY <2>1, <2>3
<1>8. \A n \in 0 .. K - 1 : n \in T => n + 1 \in T
    <2> SUFFICES ASSUME NEW n \in 0 .. K - 1, n \in T PROVE n + 1 \in T
        OBVIOUS
    <2> DEFINE k == n + 1
               a == at[n]
               read == SubSeq(cs, 1, n)
    <2>1. k \in 1 .. K /\ k \in 0 .. K /\ k - 1 = n /\ n \in 0 .. K
        BY <1>1
    <2>2. Reached(data, a + 1, read)
        OBVIOUS
    <2> HIDE DEF k, T
    <2>3. /\ a \in Nat /\ at[k] = a + Len(ToResp(cs[k])) /\ at[k] <= Len(data)
          /\ StandsAt(data, a, ToResp(cs[k])) /\ Loggable(cs[k])
        BY <1>6, <2>1 DEF K, N
    <2>4. Append(SubSeq(cs, 1, k - 1), cs[k]) = SubSeq(cs, 1, k)
        BY <2>1, PrefixGrows DEF K
    <2>5. Append(read, cs[k]) = SubSeq(cs, 1, k)
        BY <2>1, <2>4
    <2> HIDE DEF a, read
    <2>6. Reached(data, (a + Len(ToResp(cs[k]))) + 1, Append(read, cs[k]))
        BY <1>4, <2>2, <2>3, ReachedCommand
    <2>7. Reached(data, at[k] + 1, SubSeq(cs, 1, k))
        BY <2>3, <2>5, <2>6
    <2> QED
        BY <2>1, <2>7 DEF T, k
<1>9. Reached(data, N + 1, cs)
    <2>1. \A n \in 0 .. K : n \in T
        <3> HIDE DEF T
        <3> QED
            BY <1>1, <1>7, <1>8, IntervalInduction
    <2>2. K \in T
        BY <1>1, <2>1
    <2>3. SubSeq(cs, 1, K) = cs
        BY DEF K
    <2> QED
        BY <1>6, <2>2, <2>3
<1>10. Replayed(data) = cs
    BY <1>4, <1>9, ReachedEnd DEF N
<1> QED
    BY <1>10 DEF data, parts

LEMMA PairReadsBack ==
    ASSUME NEW c, Loggable(c), NEW d, Loggable(d)
    PROVE  ReadsBack(c, d)
<1> DEFINE cs == <<c, d>>
           x == ToResp(c)
           y == ToResp(d)
           none == <<>>
           parts == [i \in 1 .. Len(cs) |-> ToResp(cs[i])]
<1>1. c \in Seq(Argument) /\ d \in Seq(Argument)
    BY DEF Loggable
<1>2. cs \in Seq(Seq(Argument)) /\ Len(cs) = 2 /\ cs[1] = c /\ cs[2] = d
    BY <1>1
<1>3. \A i \in 1 .. Len(cs) : Loggable(cs[i])
    BY <1>2
<1>4. x \in Seq(Octet) /\ y \in Seq(Octet) /\ none \in Seq(Octet)
    BY <1>1, CommandType
<1> HIDE DEF cs
<1>5. parts \in Seq(Seq(Octet)) /\ Len(parts) = 2 /\ parts[1] = x /\ parts[2] = y
    BY <1>2, <1>4
<1>6. Replayed(Joined(parts)) = cs
    BY <1>2, <1>3, FileReadsBack
<1> HIDE DEF parts, x, y
<1>7. Joined(parts) = x \o y
    <2>1. PICK f \in [0 .. Len(parts) -> Seq(Octet)] :
              /\ f[0] = <<>>
              /\ \A n \in 1 .. Len(parts) : f[n] = f[n - 1] \o parts[n]
              /\ Joined(parts) = f[Len(parts)]
        BY <1>5, JoinedSteps
    <2>2. 1 \in 1 .. Len(parts) /\ 2 \in 1 .. Len(parts) /\ 1 - 1 = 0 /\ 2 - 1 = 1
        BY <1>5
    <2>3. f[1] = none \o x /\ f[2] = f[1] \o y /\ Joined(parts) = f[2]
        BY <1>5, <2>1, <2>2
    <2>4. none \o x = x
        BY <1>4
    <2> QED
        BY <2>3, <2>4
<1> QED
    BY <1>6, <1>7 DEF ReadsBack, cs, x, y

(*****************************************************************************)
(* Every record is written as such a command.                                *)
(*****************************************************************************)
LEMMA OthersElements ==
    ASSUME NEW S, NEW c \in Seq(S), Len(c) >= 1
    PROVE  /\ SubSeq(c, 2, Len(c)) \in Seq(S) /\ Len(SubSeq(c, 2, Len(c))) = Len(c) - 1
           /\ \A i \in 1 .. Len(c) - 1 : SubSeq(c, 2, Len(c))[i] = c[i + 1]
<1> DEFINE n == Len(c)
<1>1. n \in Nat /\ n >= 1 /\ \A i \in 1 .. n : c[i] \in S
    OBVIOUS
<1> HIDE DEF n
<1>2. \A i \in 2 .. n : c[i] \in S
    BY <1>1
<1>3. /\ SubSeq(c, 2, n) \in Seq(S)
      /\ Len(SubSeq(c, 2, n)) = IF 2 <= n THEN n - 2 + 1 ELSE 0
      /\ \A i \in 1 .. n - 2 + 1 : SubSeq(c, 2, n)[i] = c[2 + i - 1]
    BY <1>1, <1>2, SubSeqProperties
<1>4. /\ (IF 2 <= n THEN n - 2 + 1 ELSE 0) = n - 1
      /\ n - 2 + 1 = n - 1
      /\ \A i \in 1 .. n - 1 : 2 + i - 1 = i + 1
    BY <1>1
<1>5. Len(SubSeq(c, 2, n)) = n - 1
    BY <1>3, <1>4
<1>6. ASSUME NEW i \in 1 .. n - 1 PROVE SubSeq(c, 2, n)[i] = c[i + 1]
    <2>1. i \in 1 .. n - 2 + 1
        BY <1>4
    <2> QED
        BY <1>3, <1>4, <2>1
<1> QED
    BY <1>3, <1>5, <1>6 DEF n

\* the names are five, and each is text
LEMMA Names ==
    /\ Logged = {SET, DEL, HMSET, VADD, FLUSHDB}
    /\ \A name \in Logged : name \in Argument /\ Utf8(name)
    /\ SET # DEL /\ SET # HMSET /\ SET # VADD /\ SET # FLUSHDB
    /\ DEL # HMSET /\ DEL # VADD /\ DEL # FLUSHDB
    /\ HMSET # VADD /\ HMSET # FLUSHDB /\ VADD # FLUSHDB
    /\ IntLimit \in Nat /\ IntLimit > 7
<1>1. IntLimit \in Nat /\ IntLimit > 7
    BY RespAssumption DEF FLUSHDB
<1>2. /\ Utf8(SET) /\ SET \in Argument
    BY <1>1 DEF SET, Utf8, Argument, Octet
<1>3. /\ Utf8(DEL) /\ DEL \in Argument
    BY <1>1 DEF DEL, Utf8, Argument, Octet
<1>4. /\ Utf8(HMSET) /\ HMSET \in Argument
    BY <1>1 DEF HMSET, Utf8, Argument, Octet
<1>5. /\ Utf8(VADD) /\ VADD \in Argument
    BY <1>1 DEF VADD, Utf8, Argument, Octet
<1>6. /\ Utf8(FLUSHDB) /\ FLUSHDB \in Argument
    BY <1>1 DEF FLUSHDB, Utf8, Argument, Octet
<1>7. /\ Len(SET) = 3 /\ Len(DEL) = 3 /\ Len(HMSET) = 5 /\ Len(VADD) = 4 /\ Len(FLUSHDB) = 7
      /\ SET[1] = 83 /\ DEL[1] = 68
    BY DEF SET, DEL, HMSET, VADD, FLUSHDB
<1>8. /\ SET # DEL /\ SET # HMSET /\ SET # VADD /\ SET # FLUSHDB
      /\ DEL # HMSET /\ DEL # VADD /\ DEL # FLUSHDB
      /\ HMSET # VADD /\ HMSET # FLUSHDB /\ VADD # FLUSHDB
    BY <1>7
<1> QED
    BY <1>1, <1>2, <1>3, <1>4, <1>5, <1>6, <1>8 DEF Logged

LEMMA Demands ==
    ASSUME NEW n
    PROVE  /\ Least(SET) = 3 /\ Least(VADD) = 3 /\ Least(HMSET) = 4 /\ Least(DEL) = 2
           /\ Least(FLUSHDB) = 1
           /\ Reads(SET, n) = 2 /\ Reads(DEL, n) = 1 /\ Reads(FLUSHDB, n) = 0
           /\ Reads(HMSET, n) = 1 + 2 * ((n - 2) \div 2)
           /\ Reads(VADD, n) = 1 + (n - 2)
<1> HIDE DEF SET, DEL, HMSET, VADD, FLUSHDB
<1>1. Least(SET) = 3 /\ Least(VADD) = 3 /\ Least(HMSET) = 4 /\ Least(DEL) = 2
      /\ Least(FLUSHDB) = 1
    BY Names DEF Least
<1>2. Reads(SET, n) = 2 /\ Reads(DEL, n) = 1 /\ Reads(FLUSHDB, n) = 0
    BY Names DEF Reads
<1>3. Reads(HMSET, n) = 1 + 2 * ((n - 2) \div 2)
    BY Names DEF Reads
<1>4. Reads(VADD, n) = 1 + (n - 2)
    BY Names DEF Reads
<1> QED
    BY <1>1, <1>2, <1>3, <1>4

LEMMA LoggableIf ==
    ASSUME NEW c \in Seq(Argument), Len(c) >= 1, Len(c) < IntLimit, c[1] \in Logged,
           Len(c) >= Least(c[1]), Reads(c[1], Len(c)) = Len(c) - 1,
           Len(c) >= 2 => Utf8(c[2]),
           c[1] = HMSET => \A i \in 3 .. Len(c) : (i - 1) % 2 = 0 => Utf8(c[i]),
           c[1] = VADD => \A i \in 3 .. Len(c) : Float(c[i])
    PROVE  Loggable(c)
<1> DEFINE others == SubSeq(c, 2, Len(c))
<1>1. /\ others \in Seq(Argument) /\ Len(others) = Len(c) - 1
      /\ \A i \in 1 .. Len(c) - 1 : others[i] = c[i + 1]
    BY OthersElements
<1> HIDE DEF others
<1>2. Len(c) \in Nat /\ Len(c) - 1 \in Nat
    OBVIOUS
<1>3. others # <<>> => Utf8(others[1])
    <2> SUFFICES ASSUME others # <<>> PROVE Utf8(others[1])
        OBVIOUS
    <2>1. Len(others) # 0
        BY <1>1
    <2>2. 1 \in 1 .. Len(c) - 1 /\ 1 + 1 = 2 /\ Len(c) >= 2
        BY <1>1, <1>2, <2>1
    <2>3. others[1] = c[2]
        BY <1>1, <2>2
    <2> QED
        BY <2>2, <2>3
<1>4. ASSUME NEW i \in 2 .. Len(others)
      PROVE  i + 1 \in 3 .. Len(c) /\ (i + 1) - 1 = i /\ others[i] = c[i + 1]
    <2>1. i \in 1 .. Len(c) - 1
        BY <1>1, <1>2
    <2>2. i + 1 \in 3 .. Len(c) /\ (i + 1) - 1 = i
        BY <1>1, <1>2
    <2> QED
        BY <1>1, <2>1, <2>2
<1>5. c[1] = HMSET => \A i \in 2 .. Len(others) : i % 2 = 0 => Utf8(others[i])
    BY <1>4
<1>6. c[1] = VADD => \A i \in 2 .. Len(others) : Float(others[i])
    BY <1>4
<1>7. Readable(c[1], others)
    BY <1>3, <1>5, <1>6 DEF Readable
<1>8. Utf8(c[1])
    BY Names
<1> QED
    BY <1>7, <1>8 DEF Loggable, others

LEMMA SpelledType ==
    ASSUME NEW s \in Spelling
    PROVE  /\ \A x \in Key \cup Field \cup Val : s[x] \in Argument
           /\ \A x \in Key \cup Field : Utf8(s[x])
<1>1. /\ s \in [Key \cup Field \cup Val -> Seq(Octet)]
      /\ \A x \in Key \cup Field \cup Val : Len(s[x]) < IntLimit
      /\ \A x \in Key \cup Field : Utf8(s[x])
    BY LogBytesAssumption DEF Octet
<1> QED
    BY <1>1 DEF Argument

LEMMA SetLoggable ==
    ASSUME NEW k \in Argument, Utf8(k), NEW v \in Argument
    PROVE  Loggable(<<SET, k, v>>)
<1> DEFINE c == <<SET, k, v>>
<1>1. SET \in Argument /\ SET \in Logged
    BY Names
<1>2. c \in Seq(Argument) /\ Len(c) = 3 /\ c[1] = SET /\ c[2] = k
    BY <1>1
<1> HIDE DEF c
<1>3. Least(SET) = 3 /\ Reads(SET, Len(c)) = 2
    BY Demands
<1>4. Len(c) >= 1 /\ Len(c) < IntLimit /\ Len(c) >= 3 /\ 2 = Len(c) - 1 /\ SET # HMSET /\ SET # VADD
    BY <1>2, Names
<1>5. Loggable(c)
    BY <1>1, <1>2, <1>3, <1>4, LoggableIf
<1> QED
    BY <1>5 DEF c

LEMMA DelLoggable ==
    ASSUME NEW s \in Spelling, NEW k \in Key
    PROVE  Loggable(<<DEL, s[k]>>)
<1> DEFINE c == <<DEL, s[k]>>
<1>1. DEL \in Argument /\ s[k] \in Argument /\ Utf8(s[k]) /\ DEL \in Logged
    BY Names, SpelledType
<1>2. c \in Seq(Argument) /\ Len(c) = 2 /\ c[1] = DEL /\ c[2] = s[k]
    BY <1>1
<1> HIDE DEF c
<1>3. Least(DEL) = 2 /\ Reads(DEL, Len(c)) = 1
    BY Demands
<1>4. Len(c) >= 1 /\ Len(c) < IntLimit /\ Len(c) >= 2 /\ 1 = Len(c) - 1 /\ DEL # HMSET /\ DEL # VADD
    BY <1>2, Names
<1>5. Loggable(c)
    BY <1>1, <1>2, <1>3, <1>4, LoggableIf
<1> QED
    BY <1>5 DEF c

LEMMA FlushLoggable == Loggable(<<FLUSHDB>>)
<1> DEFINE c == <<FLUSHDB>>
<1>1. FLUSHDB \in Argument /\ FLUSHDB \in Logged
    BY Names
<1>2. c \in Seq(Argument) /\ Len(c) = 1 /\ c[1] = FLUSHDB
    BY <1>1
<1> HIDE DEF c
<1>3. Least(FLUSHDB) = 1 /\ Reads(FLUSHDB, Len(c)) = 0
    BY Demands
<1>4. Len(c) >= 1 /\ Len(c) < IntLimit /\ ~ Len(c) >= 2 /\ 0 = Len(c) - 1
      /\ FLUSHDB # HMSET /\ FLUSHDB # VADD
    BY <1>2, Names
<1>5. Loggable(c)
    BY <1>1, <1>2, <1>3, <1>4, LoggableIf
<1> QED
    BY <1>5 DEF c

LEMMA VAddLoggable ==
    ASSUME NEW s \in Spelling, NEW k \in Key
    PROVE  Loggable(<<VADD, s[k]>> \o FloatText)
<1> DEFINE head == <<VADD, s[k]>>
           c == head \o FloatText
           m == Len(FloatText)
<1>1. VADD \in Argument /\ s[k] \in Argument /\ Utf8(s[k]) /\ VADD \in Logged
    BY Names, SpelledType
<1>2. head \in Seq(Argument) /\ Len(head) = 2 /\ head[1] = VADD /\ head[2] = s[k]
    BY <1>1
<1>3. /\ FloatText \in Seq(Argument) /\ m \in Nat /\ m >= 1 /\ 2 + m < IntLimit
      /\ \A i \in 1 .. m : Float(FloatText[i])
    <2>1. /\ FloatText \in Seq(Seq(Octet)) /\ FloatText # <<>> /\ 2 + m < IntLimit
          /\ \A i \in 1 .. m : Float(FloatText[i]) /\ Len(FloatText[i]) < IntLimit
        BY LogBytesAssumption DEF Octet
    <2>2. m \in Nat /\ m >= 1
        BY <2>1
    <2>3. \A i \in 1 .. m : FloatText[i] \in Argument
        BY <2>1 DEF Argument
    <2>4. FloatText \in Seq(Argument)
        BY <2>1, <2>3
    <2> QED
        BY <2>1, <2>2, <2>4
<1> HIDE DEF head, m
<1>4. /\ c \in Seq(Argument) /\ Len(c) = Len(head) + Len(FloatText)
      /\ \A i \in 1 .. Len(head) : c[i] = head[i]
      /\ \A j \in 1 .. Len(FloatText) : c[Len(head) + j] = FloatText[j]
    <2>1. head \in Seq(Argument) /\ FloatText \in Seq(Argument)
        BY <1>2, <1>3
    <2> QED
        BY <2>1, ConcatElements
<1> HIDE DEF c
<1>5. Len(c) = 2 + m /\ c[1] = VADD /\ c[2] = s[k]
    BY <1>2, <1>4 DEF m
<1>6. \A i \in 3 .. Len(c) : Float(c[i])
    <2> TAKE i \in 3 .. Len(c)
    <2>1. i - 2 \in 1 .. m /\ 2 + (i - 2) = i
        BY <1>3, <1>5
    <2>2. c[2 + (i - 2)] = FloatText[i - 2]
        BY <1>2, <1>4, <2>1 DEF m
    <2> QED
        BY <1>3, <2>1, <2>2
<1>7. Least(VADD) = 3 /\ Reads(VADD, Len(c)) = 1 + (Len(c) - 2)
    BY Demands
<1>8. Len(c) >= 1 /\ Len(c) < IntLimit /\ Len(c) >= 3 /\ 1 + (Len(c) - 2) = Len(c) - 1
      /\ VADD # HMSET
    BY <1>3, <1>5, Names
<1>9. Loggable(c)
    BY <1>1, <1>4, <1>5, <1>6, <1>7, <1>8, LoggableIf
<1> QED
    BY <1>9 DEF c, head

(*****************************************************************************)
(* The fields of an HMSET, in some order, each before its value.             *)
(*****************************************************************************)
PairsOf(s, h, set) == [i \in 1 .. Len(set) |-> <<s[set[i]], s[h[set[i]]]>>]

LEMMA PairsJoined ==
    ASSUME NEW s \in Spelling, NEW h \in FieldMap, NEW set \in Seq(Named(h))
    PROVE  /\ Joined(PairsOf(s, h, set)) \in Seq(Argument)
           /\ Len(Joined(PairsOf(s, h, set))) = 2 * Len(set)
           /\ \A j \in 1 .. 2 * Len(set) : j % 2 = 1 => Utf8(Joined(PairsOf(s, h, set))[j])
<1> DEFINE n == Len(set)
           parts == PairsOf(s, h, set)
           body == Joined(parts)
<1>1. n \in Nat /\ \A i \in 1 .. n : set[i] \in Field /\ h[set[i]] \in Val
    BY DEF Named, FieldMap
<1>2. \A i \in 1 .. n : s[set[i]] \in Argument /\ s[h[set[i]]] \in Argument /\ Utf8(s[set[i]])
    <2> TAKE i \in 1 .. n
    <2>1. set[i] \in Key \cup Field /\ set[i] \in Key \cup Field \cup Val
          /\ h[set[i]] \in Key \cup Field \cup Val
        BY <1>1
    <2> QED
        BY <2>1, SpelledType
<1>3. /\ parts \in Seq(Seq(Argument)) /\ Len(parts) = n
      /\ \A i \in 1 .. n : Len(parts[i]) = 2 /\ parts[i][1] = s[set[i]]
    BY <1>1, <1>2 DEF PairsOf
<1> HIDE DEF parts, n
<1>4. body \in Seq(Argument) /\ \E at : PartsAt(parts, body, at)
    BY <1>3, JoinedAt
<1>5. PICK at : PartsAt(parts, body, at)
    BY <1>4
<1> HIDE DEF body
<1>6. /\ at \in [0 .. n -> Nat] /\ at[0] = 0 /\ at[n] = Len(body)
      /\ \A i \in 1 .. n : /\ at[i] = at[i - 1] + 2
                           /\ StandsAt(body, at[i - 1], parts[i])
    BY <1>3, <1>5 DEF PartsAt
<1>7. \A i \in 0 .. n : at[i] = 2 * i
    <2> DEFINE T == {i \in 0 .. n : at[i] = 2 * i}
    <2>1. 0 \in T
        BY <1>1, <1>6
    <2>2. \A i \in 0 .. n - 1 : i \in T => i + 1 \in T
        <3> SUFFICES ASSUME NEW i \in 0 .. n - 1, i \in T PROVE i + 1 \in T
            OBVIOUS
        <3>1. i + 1 \in 1 .. n /\ i + 1 \in 0 .. n /\ (i + 1) - 1 = i
              /\ 2 * i + 2 = 2 * (i + 1)
            BY <1>1
        <3>2. at[i + 1] = at[i] + 2 /\ at[i] = 2 * i
            BY <1>6, <3>1
        <3> QED
            BY <3>1, <3>2
    <2>3. \A i \in 0 .. n : i \in T
        <3> HIDE DEF T
        <3> QED
            BY <1>1, <2>1, <2>2, IntervalInduction
    <2> QED
        BY <2>3
<1>8. Len(body) = 2 * n
    BY <1>1, <1>6, <1>7
<1>9. ASSUME NEW j \in 1 .. 2 * n, j % 2 = 1 PROVE Utf8(body[j])
    <2>1. PICK i \in 1 .. n : j = 2 * (i - 1) + 1
        <3> DEFINE q == j \div 2
        <3>1. q \in Nat /\ j = 2 * q + 1
            BY <1>1, <1>9
        <3> HIDE DEF q
        <3>2. q + 1 \in 1 .. n /\ j = 2 * ((q + 1) - 1) + 1
            BY <1>1, <3>1
        <3> QED
            BY <3>2
    <2>2. i - 1 \in 0 .. n /\ i \in 1 .. n
        BY <1>1
    <2>3. at[i - 1] = 2 * (i - 1) /\ StandsAt(body, at[i - 1], parts[i])
        BY <1>6, <1>7, <2>2
    <2>4. body[at[i - 1] + 1] = parts[i][1]
        BY <1>3, <2>2, <2>3 DEF StandsAt
    <2> QED
        BY <1>2, <1>3, <2>1, <2>2, <2>3, <2>4
<1> QED
    BY <1>4, <1>8, <1>9 DEF body, parts, n

LEMMA NamedInOrder ==
    ASSUME NEW S, IsFiniteSet(S), S # {}
    PROVE  /\ SetToSeq(S) \in Seq(S) /\ Len(SetToSeq(S)) = Cardinality(S)
           /\ Cardinality(S) \in Nat /\ Cardinality(S) >= 1
<1> DEFINE n == Cardinality(S)
           set == SetToSeq(S)
<1>1. n \in Nat /\ \E f : ExistsBijection(1 .. n, S)
    BY FS_CardinalityType
<1>2. n # 0
    BY FS_EmptySet
<1>3. PICK f \in Bijection(1 .. n, S) : TRUE
    BY <1>1 DEF ExistsBijection
<1>4. f \in [1 .. n -> S] /\ IsInjective(f)
    BY <1>3 DEF Bijection, Injection, IsInjective
<1>5. set \in [1 .. n -> S]
    BY <1>4 DEF SetToSeq
<1> HIDE DEF set, n
<1>6. set \in Seq(S) /\ Len(set) = n
    BY <1>1, <1>5
<1> QED
    BY <1>1, <1>2, <1>6 DEF set, n

LEMMA HmSetLoggable ==
    ASSUME NEW s \in Spelling, NEW k \in Key, NEW h \in FieldMap,
           IsFiniteSet(Named(h)), Named(h) # {}, 2 + 2 * Cardinality(Named(h)) < IntLimit
    PROVE  Loggable(<<HMSET, s[k]>> \o Joined(PairsOf(s, h, SetToSeq(Named(h)))))
<1> DEFINE head == <<HMSET, s[k]>>
           set == SetToSeq(Named(h))
           body == Joined(PairsOf(s, h, set))
           c == head \o body
           m == Len(set)
<1>1. HMSET \in Argument /\ s[k] \in Argument /\ Utf8(s[k]) /\ HMSET \in Logged
    BY Names, SpelledType
<1>2. head \in Seq(Argument) /\ Len(head) = 2 /\ head[1] = HMSET /\ head[2] = s[k]
    BY <1>1
<1>3. set \in Seq(Named(h)) /\ m \in Nat /\ m >= 1 /\ 2 + 2 * m < IntLimit
    BY NamedInOrder
<1> HIDE DEF set
<1>4. /\ body \in Seq(Argument) /\ Len(body) = 2 * m
      /\ \A j \in 1 .. 2 * m : j % 2 = 1 => Utf8(body[j])
    BY <1>3, PairsJoined
<1> HIDE DEF head, m, body
<1>5. /\ c \in Seq(Argument) /\ Len(c) = Len(head) + Len(body)
      /\ \A i \in 1 .. Len(head) : c[i] = head[i]
      /\ \A j \in 1 .. Len(body) : c[Len(head) + j] = body[j]
    <2>1. head \in Seq(Argument) /\ body \in Seq(Argument)
        BY <1>2, <1>4
    <2> QED
        BY <2>1, ConcatElements
<1> HIDE DEF c
<1>6. Len(c) = 2 + 2 * m /\ c[1] = HMSET /\ c[2] = s[k]
    BY <1>2, <1>4, <1>5
<1>7. \A i \in 3 .. Len(c) : (i - 1) % 2 = 0 => Utf8(c[i])
    <2> SUFFICES ASSUME NEW i \in 3 .. Len(c), (i - 1) % 2 = 0 PROVE Utf8(c[i])
        OBVIOUS
    <2>1. i - 2 \in 1 .. 2 * m /\ 2 + (i - 2) = i /\ (i - 2) % 2 = 1
        BY <1>3, <1>6
    <2>2. c[2 + (i - 2)] = body[i - 2]
        BY <1>2, <1>4, <1>5, <2>1
    <2> QED
        BY <1>4, <2>1, <2>2
<1>8. Least(HMSET) = 4 /\ Reads(HMSET, Len(c)) = 1 + 2 * ((Len(c) - 2) \div 2)
    BY Demands
<1>9. Len(c) >= 1 /\ Len(c) < IntLimit /\ Len(c) >= 4 /\ HMSET # VADD
      /\ 1 + 2 * ((Len(c) - 2) \div 2) = Len(c) - 1
    BY <1>3, <1>6, Names
<1>10. Loggable(c)
    BY <1>1, <1>5, <1>6, <1>7, <1>8, <1>9, LoggableIf
<1> QED
    BY <1>10 DEF c, head, body, set

LEMMA RecordLoggable ==
    ASSUME NEW s \in Spelling, NEW r \in Record
    PROVE  Loggable(Args(s, r))
<1>1. r \in PersistenceCommand
    BY PersistenceAssumption
<1>2. CASE r \in [op : {"set"}, key : Key, val : Val]
    <2>1. r.op = "set" /\ r.key \in Key /\ r.val \in Val
        BY <1>2
    <2>2. Args(s, r) = <<SET, s[r.key], s[r.val]>>
        BY <2>1 DEF Args
    <2>3. s[r.key] \in Argument /\ s[r.val] \in Argument /\ Utf8(s[r.key])
        BY <2>1, SpelledType
    <2> QED
        BY <2>2, <2>3, SetLoggable
<1>3. CASE r \in [op : {"del", "vadd"}, key : Key]
    <2>1. r.op \in {"del", "vadd"} /\ r.key \in Key
        BY <1>3
    <2>2. CASE r.op = "del"
        <3>1. Args(s, r) = <<DEL, s[r.key]>>
            BY <2>2 DEF Args
        <3> QED
            BY <2>1, <3>1, DelLoggable
    <2>3. CASE r.op = "vadd"
        <3>1. Args(s, r) = <<VADD, s[r.key]>> \o FloatText
            BY <2>3 DEF Args
        <3> QED
            BY <2>1, <3>1, VAddLoggable
    <2> QED
        BY <2>1, <2>2, <2>3
<1>4. CASE r \in [op : {"hmset"}, key : Key, fields : FieldMap]
    <2>1. r.op = "hmset" /\ r.key \in Key /\ r.fields \in FieldMap
        BY <1>4
    <2>2. Args(s, r) = <<HMSET, s[r.key]>>
                           \o Joined(PairsOf(s, r.fields, SetToSeq(Named(r.fields))))
        BY <2>1 DEF Args, PairsOf
    <2>3. /\ IsFiniteSet(Named(r.fields)) /\ Named(r.fields) # {}
          /\ 2 + 2 * Cardinality(Named(r.fields)) < IntLimit
        BY <2>1, LogBytesAssumption
    <2> QED
        BY <2>1, <2>2, <2>3, HmSetLoggable
<1>5. CASE r = FlushRec
    <2>1. r.op = "flush"
        BY <1>5 DEF FlushRec
    <2>2. Args(s, r) = <<FLUSHDB>>
        BY <2>1 DEF Args
    <2> QED
        BY <2>2, FlushLoggable
<1> QED
    BY <1>1, <1>2, <1>3, <1>4, <1>5 DEF PersistenceCommand

-----------------------------------------------------------------------------
(*****************************************************************************)
(* A command cut short.  Behind it the buffer ends, or another command       *)
(* begins: neither is what the one cut goes on with.                         *)
(*****************************************************************************)
Stops(buf, m) == m < Len(buf) => buf[m + 1] = STAR

BeginsAt(buf, a, part, t) == \A j \in 1 .. t : buf[a + j] = part[j]

\* what a number and its line end are made of
LEMMA NumberedParts ==
    ASSUME NEW n \in Nat, NEW sign \in Octet
    PROVE  /\ Numbered(sign, n)[1] = sign
           /\ \A j \in 2 .. Len(Decimal(n)) + 1 : Numbered(sign, n)[j] \in Digit
           /\ Numbered(sign, n)[Len(Decimal(n)) + 2] = CR
           /\ Numbered(sign, n)[Len(Decimal(n)) + 3] = LF
<1> DEFINE d == Decimal(n)
           w == Len(d)
           first == <<sign>>
           x == first \o d
<1>1. d \in Seq(Octet) /\ w \in Nat /\ \A k \in 1 .. w : d[k] \in Digit
    BY DecimalType
<1>2. /\ first \in Seq(Octet) /\ Len(first) = 1 /\ first[1] = sign
      /\ LineEnd \in Seq(Octet) /\ Len(LineEnd) = 2 /\ LineEnd[1] = CR /\ LineEnd[2] = LF
    BY SmallBytes
<1>3. Numbered(sign, n) = x \o LineEnd
    BY DEF Numbered
<1> HIDE DEF d, first
<1>4. /\ x \in Seq(Octet) /\ Len(x) = Len(first) + Len(d)
      /\ \A i \in 1 .. Len(first) : x[i] = first[i]
      /\ \A j \in 1 .. Len(d) : x[Len(first) + j] = d[j]
    <2>1. first \in Seq(Octet) /\ d \in Seq(Octet)
        BY <1>1, <1>2
    <2> QED
        BY <2>1, ConcatElements
<1> HIDE DEF x
<1>5. /\ \A i \in 1 .. Len(x) : (x \o LineEnd)[i] = x[i]
      /\ \A j \in 1 .. Len(LineEnd) : (x \o LineEnd)[Len(x) + j] = LineEnd[j]
    <2>1. x \in Seq(Octet) /\ LineEnd \in Seq(Octet)
        BY <1>2, <1>4
    <2> QED
        BY <2>1, ConcatElements
<1>6. Len(x) = w + 1 /\ x[1] = sign /\ \A j \in 1 .. w : x[1 + j] = d[j]
    BY <1>1, <1>2, <1>4
<1> HIDE DEF w
<1>7. ASSUME NEW j \in 2 .. w + 1 PROVE (x \o LineEnd)[j] \in Digit
    <2>1. j \in 1 .. Len(x) /\ j - 1 \in 1 .. w /\ 1 + (j - 1) = j
        BY <1>1, <1>6
    <2>2. (x \o LineEnd)[j] = x[j] /\ x[1 + (j - 1)] = d[j - 1]
        BY <1>5, <1>6, <2>1
    <2> QED
        BY <1>1, <2>1, <2>2 DEF w
<1>8. (x \o LineEnd)[1] = sign
    <2>1. 1 \in 1 .. Len(x)
        BY <1>1, <1>6
    <2> QED
        BY <1>5, <1>6, <2>1
<1>9. (x \o LineEnd)[w + 2] = CR /\ (x \o LineEnd)[w + 3] = LF
    <2>1. Len(x) + 1 = w + 2 /\ Len(x) + 2 = w + 3
        BY <1>1, <1>6
    <2>2. (x \o LineEnd)[Len(x) + 1] = CR /\ (x \o LineEnd)[Len(x) + 2] = LF
        <3> DEFINE y == x \o LineEnd
        <3>1. 1 \in 1 .. Len(LineEnd) /\ 2 \in 1 .. Len(LineEnd)
            BY <1>2
        <3>2. \A j \in 1 .. Len(LineEnd) : y[Len(x) + j] = LineEnd[j]
            BY <1>5
        <3> HIDE DEF y
        <3> QED
            BY <1>2, <3>1, <3>2 DEF y
    <2> QED
        BY <2>1, <2>2
<1> QED
    BY <1>3, <1>7, <1>8, <1>9 DEF w, d

\* a number cut short has no line end behind it
LEMMA NumberedCut ==
    ASSUME NEW n \in Nat, NEW sign \in Octet, NEW buf \in Seq(Octet), NEW a \in Nat,
           NEW t \in Nat, t >= 1, t < Len(Numbered(sign, n)), a + t <= Len(buf),
           BeginsAt(buf, a, Numbered(sign, n), t), Stops(buf, a + t)
    PROVE  ~ EndsLine(buf, ParseInt(buf, a + 2).next)
<1> DEFINE w == Len(Decimal(n))
           line == Numbered(sign, n)
           p == a + 2
           digits == IF t <= w + 1 THEN t - 1 ELSE w
           end == p + digits
<1>1. w \in Nat /\ w >= 1 /\ Len(line) = w + 3
    BY DecimalType, NumberedType
<1>2. /\ \A j \in 2 .. w + 1 : line[j] \in Digit
      /\ line[w + 2] = CR
    BY NumberedParts
<1>3. CR \notin Digit /\ STAR \notin Digit /\ STAR # CR /\ STAR # LF
    BY SmallBytes DEF STAR, CR, LF
<1>4. \A j \in 1 .. t : buf[a + j] = line[j]
    BY DEF BeginsAt
<1>5. t < w + 3 /\ Len(buf) \in Nat /\ a + t <= Len(buf)
    BY <1>1
<1> HIDE DEF w, line
<1>6. digits \in 0 .. w /\ digits + 1 <= t /\ p \in Nat /\ end \in p .. Len(buf) + 1
    BY <1>1, <1>5
<1>7. ASSUME NEW i \in p .. end - 1 PROVE DigitAt(buf, i)
    <2>1. i - a \in 2 .. w + 1 /\ i - a \in 1 .. t /\ a + (i - a) = i /\ i <= Len(buf)
        BY <1>1, <1>5, <1>6
    <2>2. buf[a + (i - a)] = line[i - a] /\ line[i - a] \in Digit
        BY <1>2, <1>4, <2>1
    <2> QED
        BY <2>1, <2>2 DEF DigitAt
<1>8. CASE t <= w + 1
    <2>1. end = (a + t) + 1
        BY <1>5, <1>8
    <2> HIDE DEF end
    <2>2. end <= Len(buf) => buf[end] = STAR
        <3>1. end <= Len(buf) => a + t < Len(buf)
            BY <1>5, <2>1
        <3> QED
            BY <2>1, <3>1 DEF Stops
    <2>3. ~ DigitAt(buf, end)
        BY <1>3, <2>2 DEF DigitAt
    <2>4. ParseInt(buf, p).next = end
        BY <1>6, <1>7, <2>3, DigitsEnd
    <2>5. end + 1 <= Len(buf) => end <= Len(buf)
        BY <1>5, <1>6
    <2>6. ~ EndsLine(buf, end)
        BY <1>3, <2>2, <2>5 DEF EndsLine
    <2> QED
        BY <2>4, <2>6
<1>9. CASE ~ t <= w + 1
    <2>1. t = w + 2 /\ end = a + (w + 2) /\ end + 1 = (a + t) + 1 /\ w + 2 \in 1 .. t
        BY <1>1, <1>5, <1>9
    <2>2. buf[end] = CR
        BY <1>2, <1>4, <2>1
    <2>3. end + 1 <= Len(buf) => buf[end + 1] = STAR
        BY <1>5, <2>1 DEF Stops
    <2>4. ~ DigitAt(buf, end)
        BY <1>3, <2>2 DEF DigitAt
    <2> HIDE DEF end
    <2>5. ParseInt(buf, p).next = end
        BY <1>6, <1>7, <2>4, DigitsEnd
    <2>6. ~ EndsLine(buf, end)
        BY <1>3, <2>3 DEF EndsLine
    <2> QED
        BY <2>5, <2>6
<1> QED
    BY <1>8, <1>9

\* an argument cut short is not read, unless what follows ends it
LEMMA BulkCut ==
    ASSUME NEW arg \in Argument, NEW buf \in Seq(Octet), NEW a \in Nat,
           NEW t \in Nat, t < Len(Bulk(arg)), a + t <= Len(buf),
           BeginsAt(buf, a, Bulk(arg), t), Stops(buf, a + t),
           Len(Header(arg)) <= t /\ t < Len(Header(arg)) + Len(arg) =>
               ~ EndsLine(buf, (a + Len(Header(arg)) + Len(arg)) + 1)
    PROVE  ~ ParseBulk(buf, a + 1).ok
<1> DEFINE h == Header(arg)
           x == h \o arg
           n == Len(arg)
           w == Len(Decimal(n))
           p == a + 1
           length == ParseInt(buf, p + 1)
           from == length.next + 2
           end == from + length.val
<1>1. /\ h = Numbered(DOLLAR, n) /\ DOLLAR \in Octet
      /\ h \in Seq(Octet) /\ Len(h) = w + 3
      /\ x \in Seq(Octet) /\ Len(x) = Len(h) + n
      /\ Len(Bulk(arg)) = w + 3 + n + 2
      /\ arg \in Seq(Octet) /\ n \in Nat /\ w \in Nat /\ n < IntLimit
    BY BulkType DEF Argument
<1>2. t < w + 3 + n + 2 /\ Len(buf) \in Nat /\ a + t <= Len(buf)
    BY <1>1
<1>3. \A j \in 1 .. w + 3 : Bulk(arg)[j] = h[j]
    <2>1. Bulk(arg) = x \o LineEnd /\ LineEnd \in Seq(Octet)
        BY SmallBytes DEF Bulk
    <2> HIDE DEF h, n, w
    <2>2. \A i \in 1 .. Len(h) : x[i] = h[i]
        BY <1>1, ConcatElements
    <2> HIDE DEF x
    <2>3. x \in Seq(Octet) /\ LineEnd \in Seq(Octet)
        BY <1>1, <2>1
    <2>4. \A i \in 1 .. Len(x) : (x \o LineEnd)[i] = x[i]
        BY <2>3, ConcatElements
    <2>5. \A j \in 1 .. w + 3 : j \in 1 .. Len(h) /\ j \in 1 .. Len(x)
        BY <1>1
    <2> QED
        BY <2>1, <2>2, <2>4, <2>5
<1>4. ~ ParseBulk(buf, p).ok <=>
          ~ (/\ p <= Len(buf) /\ buf[p] = DOLLAR
             /\ length.next > p + 1 /\ EndsLine(buf, length.next)
             /\ end - 1 <= Len(buf) /\ EndsLine(buf, end))
    <2> HIDE DEF p
    <2> QED
        BY DEF ParseBulk, Failed
<1>5. Len(h) <= t /\ t < Len(h) + n => ~ EndsLine(buf, (a + Len(h) + n) + 1)
    OBVIOUS
<1>6. p + 1 = a + 2 /\ p = a + 1
    OBVIOUS
<1> HIDE DEF h, n, w, length, p
<1>7. CASE t = 0
    <2>1. p <= Len(buf) => buf[p] = STAR
        BY <1>2, <1>6, <1>7 DEF Stops
    <2>2. STAR # DOLLAR
        BY DEF STAR, DOLLAR
    <2> QED
        BY <1>4, <1>6, <2>1, <2>2
<1>8. CASE 1 <= t /\ t < w + 3
    <2> DEFINE line == Numbered(DOLLAR, n)
    <2>1. t < Len(line) /\ t >= 1
        BY <1>1, <1>8
    <2>2. BeginsAt(buf, a, line, t)
        <3>1. \A j \in 1 .. t : j \in 1 .. w + 3
            BY <1>1, <1>8
        <3> QED
            BY <1>1, <1>3, <3>1 DEF BeginsAt
    <2> HIDE DEF line
    <2>3. ~ EndsLine(buf, ParseInt(buf, a + 2).next)
        <3>1. n \in Nat /\ DOLLAR \in Octet
            BY <1>1
        <3> QED
            BY <1>2, <2>1, <2>2, <3>1, NumberedCut DEF line
    <2> QED
        BY <1>4, <1>6, <2>3 DEF length
<1>9. CASE ~ t < w + 3
    <2>1. StandsAt(buf, a, h)
        <3>1. \A j \in 1 .. Len(h) : j \in 1 .. t /\ j \in 1 .. w + 3
            BY <1>1, <1>9
        <3> QED
            BY <1>3, <3>1 DEF BeginsAt, StandsAt
    <2>2. ParseInt(buf, a + 2) = [val |-> n, next |-> (a + 2) + w]
        <3>1. a + Len(Numbered(DOLLAR, n)) <= Len(buf) /\ StandsAt(buf, a, Numbered(DOLLAR, n))
            BY <1>1, <1>2, <1>9, <2>1
        <3> QED
            BY <1>1, <3>1, NumberedReads DEF w
    <2>3. length.next = (a + 2) + w /\ length.val = n
        BY <1>6, <2>2 DEF length
    <2>4. end = (a + (w + 3) + n) + 1
        BY <1>1, <2>3
    <2> HIDE DEF end
    <2>5. ~ EndsLine(buf, end)
        <3>1. CASE t < (w + 3) + n
            BY <1>1, <1>5, <1>9, <2>4, <3>1
        <3>2. CASE t = (w + 3) + n
            <4>1. end = (a + t) + 1
                BY <1>1, <2>4, <3>2
            <4>2. end + 1 <= Len(buf) => a + t < Len(buf)
                BY <1>2, <4>1
            <4>3. STAR # CR
                BY DEF STAR, CR
            <4> QED
                BY <4>1, <4>2, <4>3 DEF EndsLine, Stops
        <3>3. CASE t = (w + 3) + n + 1
            <4>1. end + 1 = (a + t) + 1
                BY <1>1, <2>4, <3>3
            <4>2. end + 1 <= Len(buf) => a + t < Len(buf)
                BY <1>2, <4>1
            <4>3. STAR # LF
                BY DEF STAR, LF
            <4> QED
                BY <4>1, <4>2, <4>3 DEF EndsLine, Stops
        <3> QED
            BY <1>1, <1>2, <3>1, <3>2, <3>3
    <2> QED
        BY <1>4, <1>6, <2>5
<1> QED
    BY <1>1, <1>6, <1>7, <1>8, <1>9

\* and an argument that is not read ends the loop
LEMMA BulksCut ==
    ASSUME NEW c \in Seq(Argument), NEW buf \in Seq(Octet), NEW b \in Nat,
           NEW m \in 1 .. Len(c) - 1, NEW at, at \in [0 .. Len(c) -> Nat],
           \A i \in 1 .. m : /\ at[i] = at[i - 1] + Len(Bulk(c[i]))
                             /\ b + at[i] <= Len(buf)
                             /\ StandsAt(buf, b + at[i - 1], Bulk(c[i])),
           ~ ParseBulk(buf, (b + at[m]) + 1).ok
    PROVE  ~ ParseBulks(buf, (b + at[1]) + 1, Len(c) - 1).ok
<1> DEFINE M == Len(c) - 1
           W(k) == Read(SubSeq(c, 2, k), (b + at[k]) + 1)
           g == [k \in 0 .. M |-> IF k < m THEN W(k + 1) ELSE Failed]
<1>1. M \in Nat /\ m \in 1 .. M /\ m \in 1 .. Len(c)
    OBVIOUS
<1>2. \A k \in 1 .. m - 1 : OneMore(buf, W(k)) = W(k + 1)
    <2> HIDE DEF g
    <2> TAKE k \in 1 .. m - 1
    <2>1. k \in 1 .. Len(c) - 1 /\ k + 1 \in 1 .. m /\ (k + 1) - 1 = k
        BY <1>1
    <2>2. /\ at[k + 1] = at[k] + Len(Bulk(c[k + 1])) /\ b + at[k + 1] <= Len(buf)
          /\ StandsAt(buf, b + at[k], Bulk(c[k + 1]))
        BY <2>1
    <2>3. OneMore(buf, Read(SubSeq(c, 2, k), (b + at[k]) + 1)) =
              Read(SubSeq(c, 2, k + 1), (b + at[k + 1]) + 1)
        BY <2>1, <2>2, NextBulkRead
    <2> QED
        BY <2>3
<1>3. OneMore(buf, W(m)) = Failed
    BY DEF OneMore, Read
<1>4. OneMore(buf, Failed) = Failed
    BY DEF OneMore, Failed
<1>5. W(1) = Read(<<>>, (b + at[1]) + 1)
    <2>1. SubSeq(c, 2, 1) = <<>>
        BY SubSeqEmpty
    <2> QED
        BY <2>1
<1> HIDE DEF M, W
<1>6. g[0] = W(1) /\ g[M] = Failed
    BY <1>1
<1>7. ASSUME NEW k \in 1 .. M PROVE g[k] = OneMore(buf, g[k - 1])
    <2>1. k \in 0 .. M /\ k - 1 \in 0 .. M /\ (k - 1) + 1 = k
        BY <1>1
    <2>2. /\ g[k] = IF k < m THEN W(k + 1) ELSE Failed
          /\ g[k - 1] = IF k - 1 < m THEN W(k) ELSE Failed
        BY <2>1
    <2> HIDE DEF g
    <2>3. CASE k < m
        <3>1. k \in 1 .. m - 1 /\ k - 1 < m
            BY <1>1, <2>3
        <3> QED
            BY <1>2, <2>2, <2>3, <3>1
    <2>4. CASE k = m
        <3>1. k - 1 < m /\ ~ k < m
            BY <1>1, <2>4
        <3> QED
            BY <1>3, <2>2, <2>4, <3>1
    <2>5. CASE k > m
        <3>1. ~ k - 1 < m /\ ~ k < m
            BY <1>1, <2>5
        <3> QED
            BY <1>4, <2>2, <3>1
    <2> QED
        BY <1>1, <2>3, <2>4, <2>5
<1>8. DefinedUpTo(M, g)
    BY DEF DefinedUpTo
<1> HIDE DEF g
<1>9. ParseBulks(buf, (b + at[1]) + 1, M) = Failed
    BY <1>1, <1>5, <1>6, <1>7, <1>8, BulksLoop
<1> QED
    BY <1>9 DEF M, Failed

\* behind its number of arguments, a command is read as far as they are
LEMMA CountReads ==
    ASSUME NEW n \in Nat, n >= 1, n < IntLimit, NEW buf \in Seq(Octet), NEW a \in Nat,
           a + Len(Numbered(STAR, n)) <= Len(buf), StandsAt(buf, a, Numbered(STAR, n)),
           NEW q, q = (a + Len(Numbered(STAR, n))) + 1,
           \/ ~ ParseBulk(buf, q).ok
           \/ ~ ParseBulks(buf, ParseBulk(buf, q).next, Reads(ParseBulk(buf, q).args[1], n)).ok
    PROVE  ~ ParseCommand(buf, a + 1).ok
<1> DEFINE w == Len(Decimal(n))
           p == a + 1
           count == ParseInt(buf, p + 1)
           name == ParseBulk(buf, count.next + 2)
           args == ParseBulks(buf, name.next, Reads(name.args[1], count.val))
<1>1. STAR \in Octet
    BY DEF STAR, Octet
<1>2. /\ ParseInt(buf, a + 2) = [val |-> n, next |-> (a + 2) + w]
      /\ w \in Nat /\ Len(Numbered(STAR, n)) = w + 3
    BY <1>1, NumberedReads
<1>3. ParseCommand(buf, p) =
          IF /\ p <= Len(buf) /\ buf[p] = STAR
             /\ count.next > p + 1 /\ EndsLine(buf, count.next) /\ count.val > 0
             /\ name.ok /\ Utf8(name.args[1])
             /\ count.val >= Least(name.args[1])
             /\ args.ok /\ Readable(name.args[1], args.args)
          THEN [ok |-> TRUE, args |-> name.args \o args.args, next |-> args.next]
          ELSE Failed
    BY DEF ParseCommand
<1>4. p + 1 = a + 2
    OBVIOUS
<1> HIDE DEF w
<1>5. count.val = n /\ count.next + 2 = q
    <2>1. count = [val |-> n, next |-> (a + 2) + w]
        BY <1>2, <1>4
    <2>2. ((a + 2) + w) + 2 = (a + (w + 3)) + 1
        BY <1>2
    <2> HIDE DEF count
    <2> QED
        BY <1>2, <2>1, <2>2
<1>6. ~ name.ok \/ ~ args.ok
    <2> HIDE DEF count
    <2> QED
        BY <1>5
<1> HIDE DEF name, args, count
<1>7. ParseCommand(buf, p) = Failed
    BY <1>3, <1>6
<1> QED
    BY <1>7 DEF Failed

\* where the data of an argument ends
LEMMA DataEnds ==
    ASSUME NEW c \in Seq(Argument), NEW b \in Nat, NEW i \in 1 .. Len(c),
           NEW at, at \in [0 .. Len(c) -> Nat],
           \A k \in 1 .. Len(c) : at[k] = at[k - 1] + Len(Bulk(c[k])),
           Len(ToResp(c)) = b + at[Len(c)]
    PROVE  DataEnd(c, i) = (b + at[i]) - 2
<1> DEFINE N == Len(c)
           parts == [j \in 1 .. N - i |-> Header(c[i + j]) \o c[i + j] \o <<CR, LF>>]
<1>1. N \in Nat /\ i \in 1 .. N /\ N - i \in Nat /\ \A k \in 1 .. N : c[k] \in Argument
    OBVIOUS
<1>2. \A k \in 1 .. N : at[k] = at[k - 1] + Len(Bulk(c[k]))
    OBVIOUS
<1>3. DataEnd(c, i) = Len(ToResp(c)) - 2 - Len(Joined(parts))
    BY DEF DataEnd
<1>4. Len(ToResp(c)) = b + at[N] /\ at \in [0 .. N -> Nat]
    OBVIOUS
<1> HIDE DEF N
<1>5. /\ parts \in Seq(Seq(Octet)) /\ Len(parts) = N - i
      /\ \A j \in 1 .. N - i : parts[j] = Bulk(c[i + j])
    <2>1. ASSUME NEW j \in 1 .. N - i
          PROVE  /\ Header(c[i + j]) \o c[i + j] \o <<CR, LF>> = Bulk(c[i + j])
                 /\ Bulk(c[i + j]) \in Seq(Octet)
        <3>1. i + j \in 1 .. N
            BY <1>1
        <3>2. c[i + j] \in Argument
            BY <1>1, <3>1
        <3>3. Bulk(c[i + j]) \in Seq(Octet)
            BY <3>2, BulkType
        <3> QED
            BY <3>3 DEF Bulk, LineEnd
    <2> DEFINE M == N - i
    <2>2. parts = [j \in 1 .. M |-> Bulk(c[i + j])]
        BY <2>1
    <2>3. M \in Nat /\ \A j \in 1 .. M : Bulk(c[i + j]) \in Seq(Octet)
        BY <1>1, <2>1
    <2> HIDE DEF M, parts
    <2>4. /\ parts \in Seq(Seq(Octet)) /\ Len(parts) = M
          /\ \A j \in 1 .. M : parts[j] = Bulk(c[i + j])
        BY <2>2, <2>3
    <2> QED
        BY <2>4 DEF M
<1> HIDE DEF parts
<1>6. PICK f : PartsAt(parts, Joined(parts), f)
    BY <1>5, JoinedAt
<1>7. /\ f \in [0 .. N - i -> Nat] /\ f[0] = 0 /\ f[N - i] = Len(Joined(parts))
      /\ \A j \in 1 .. N - i : f[j] = f[j - 1] + Len(parts[j])
    BY <1>5, <1>6 DEF PartsAt
<1> DEFINE T == {j \in 0 .. N - i : at[i + j] = at[i] + f[j]}
<1>8. 0 \in T
    <2>1. i + 0 = i /\ i \in 0 .. N /\ at[i] \in Nat
        BY <1>1, <1>4
    <2> QED
        BY <1>1, <1>7, <2>1
<1>9. \A j \in 0 .. (N - i) - 1 : j \in T => j + 1 \in T
    <2> SUFFICES ASSUME NEW j \in 0 .. (N - i) - 1, j \in T PROVE j + 1 \in T
        OBVIOUS
    <2> DEFINE k == j + 1
               x == Len(Bulk(c[i + k]))
    <2>1. /\ k \in 1 .. N - i /\ k \in 0 .. N - i /\ k - 1 = j /\ j \in 0 .. N - i
          /\ i + k \in 1 .. N /\ (i + k) - 1 = i + j /\ i \in 0 .. N
        BY <1>1
    <2>2. x \in Nat
        BY <1>1, <2>1, BulkType
    <2>3. at[i + j] = at[i] + f[j]
        OBVIOUS
    <2> HIDE DEF k
    <2>4. at[i + k] = at[i + j] + x
        BY <1>2, <2>1
    <2>5. f[k] = f[j] + x
        BY <1>5, <1>7, <2>1
    <2>6. at[i] \in Nat /\ f[j] \in Nat
        BY <1>4, <1>7, <2>1
    <2> HIDE DEF x
    <2>7. at[i + k] = at[i] + f[k]
        BY <2>2, <2>3, <2>4, <2>5, <2>6
    <2>8. k \in T
        BY <2>1, <2>7
    <2> QED
        BY <2>8 DEF k
<1>10. \A j \in 0 .. N - i : j \in T
    <2> HIDE DEF T
    <2> QED
        BY <1>1, <1>8, <1>9, IntervalInduction
<1>11. at[N] = at[i] + f[N - i]
    <2>1. N - i \in 0 .. N - i /\ i + (N - i) = N
        BY <1>1
    <2>2. N - i \in T
        BY <1>10, <2>1
    <2> QED
        BY <2>1, <2>2
<1>12. at[i] \in Nat /\ f[N - i] \in Nat
    <2>1. N - i \in 0 .. N - i /\ i \in 0 .. N
        BY <1>1
    <2> QED
        BY <1>4, <1>7, <2>1
<1> HIDE DEF T
<1> DEFINE x == at[i]
           y == f[N - i]
           end == at[N]
<1>13. x \in Nat /\ y \in Nat /\ end = x + y
    BY <1>11, <1>12
<1>14. DataEnd(c, i) = (b + end) - 2 - y
    <2>1. Len(Joined(parts)) = y
        BY <1>7
    <2>2. Len(ToResp(c)) = b + end
        BY <1>4
    <2> HIDE DEF y, end
    <2> QED
        BY <1>3, <2>1, <2>2
<1> HIDE DEF x, y, end
<1>15. (b + end) - 2 - y = (b + x) - 2
    BY <1>13
<1>16. DataEnd(c, i) = (b + x) - 2
    BY <1>14, <1>15
<1> QED
    BY <1>16 DEF x

LEMMA CommandLaid ==
    ASSUME NEW c \in Seq(Argument)
    PROVE  \E at : /\ BulksAt(ToResp(c), Len(Numbered(STAR, Len(c))), c, at) /\ at[0] = 0
                   /\ Len(ToResp(c)) = Len(Numbered(STAR, Len(c))) + at[Len(c)]
                   /\ StandsAt(ToResp(c), 0, Numbered(STAR, Len(c)))
                   /\ Len(Numbered(STAR, Len(c))) \in Nat
                   /\ \A i \in 1 .. Len(c) :
                         DataEnd(c, i) = (Len(Numbered(STAR, Len(c))) + at[i]) - 2
<1> DEFINE N == Len(c)
           text == ToResp(c)
           line == Numbered(STAR, N)
           b == Len(line)
<1>1. N \in Nat /\ STAR \in Octet
    BY DEF STAR, Octet
<1>2. text \in Seq(Octet) /\ Len(text) \in Nat
    BY CommandType
<1>3. /\ StandsAt(text, 0, line)
      /\ \E at : BulksAt(text, 0 + b, c, at) /\ at[0] = 0 /\ Len(text) = b + at[N]
    <2>1. 0 + Len(text) <= Len(text) /\ StandsAt(text, 0, text)
        BY <1>2 DEF StandsAt
    <2> QED
        BY <1>2, <2>1, CommandStands
<1>4. b \in Nat /\ 0 + b = b
    <2>1. b = Len(Decimal(N)) + 3 /\ Len(Decimal(N)) \in Nat
        BY <1>1, NumberedType
    <2> QED
        BY <2>1
<1>5. PICK at : BulksAt(text, b, c, at) /\ at[0] = 0 /\ Len(text) = b + at[N]
    BY <1>3, <1>4
<1>6. at \in [0 .. N -> Nat] /\ \A i \in 1 .. N : at[i] = at[i - 1] + Len(Bulk(c[i]))
    BY <1>5 DEF BulksAt
<1>7. \A i \in 1 .. N : DataEnd(c, i) = (b + at[i]) - 2
    BY <1>4, <1>5, <1>6, DataEnds
<1> QED
    BY <1>3, <1>4, <1>5, <1>7

LEMMA DataEndType ==
    ASSUME NEW c \in Seq(Argument)
    PROVE  /\ \A i \in 1 .. Len(c) : DataEnd(c, i) \in Int
           /\ Len(c) >= 1 => DataEnd(c, Len(c)) = Len(ToResp(c)) - 2
<1> DEFINE N == Len(c)
           b == Len(Numbered(STAR, N))
<1>1. PICK at : /\ BulksAt(ToResp(c), b, c, at) /\ b \in Nat
                /\ Len(ToResp(c)) = b + at[N]
                /\ \A i \in 1 .. N : DataEnd(c, i) = (b + at[i]) - 2
    BY CommandLaid
<1>2. N \in Nat
    OBVIOUS
<1> HIDE DEF b
<1>3. \A i \in 0 .. N : at[i] \in Nat
    BY <1>1 DEF BulksAt
<1> HIDE DEF N
<1>4. ASSUME NEW i \in 1 .. N PROVE DataEnd(c, i) \in Int
    <2>1. i \in 0 .. N
        OBVIOUS
    <2>2. at[i] \in Nat
        BY <1>3, <2>1
    <2> QED
        BY <1>1, <2>2
<1>5. N >= 1 => DataEnd(c, N) = Len(ToResp(c)) - 2
    BY <1>1, <1>2
<1> QED
    BY <1>4, <1>5 DEF N

\* a command cut short is not read, unless what follows ends an argument
LEMMA CutFails ==
    ASSUME NEW c, Loggable(c), NEW n \in 1 .. Len(ToResp(c)) - 1, NEW buf \in Seq(Octet),
           n <= Len(buf), BeginsAt(buf, 0, ToResp(c), n), Stops(buf, n),
           \A i \in 1 .. Len(c) :
               ~ /\ DataEnd(c, i) - Len(c[i]) <= n /\ n < DataEnd(c, i)
                 /\ EndsLine(buf, DataEnd(c, i) + 1)
    PROVE  ~ ParseCommand(buf, 1).ok
<1> DEFINE N == Len(c)
           text == ToResp(c)
           line == Numbered(STAR, N)
           b == Len(line)
<1>1. /\ c \in Seq(Argument) /\ N \in Nat /\ N >= 1 /\ N < IntLimit /\ STAR \in Octet
      /\ Reads(c[1], N) = N - 1 /\ \A i \in 1 .. N : c[i] \in Argument
    BY DEF Loggable, STAR, Octet
<1>2. text \in Seq(Octet) /\ Len(text) \in Nat
    BY <1>1, CommandType
<1>3. PICK at : /\ BulksAt(text, b, c, at) /\ at[0] = 0
                /\ Len(text) = b + at[N]
                /\ StandsAt(text, 0, line) /\ b \in Nat
                /\ \A i \in 1 .. N : DataEnd(c, i) = (b + at[i]) - 2
    BY <1>1, CommandLaid
<1>6. /\ at \in [0 .. N -> Nat]
      /\ \A i \in 1 .. N : /\ at[i] = at[i - 1] + Len(Bulk(c[i]))
                           /\ StandsAt(text, b + at[i - 1], Bulk(c[i]))
    BY <1>3 DEF BulksAt
<1>7. /\ \A j \in 1 .. n : buf[j] = text[j]
      /\ n \in Nat /\ n >= 1 /\ n < Len(text) /\ n <= Len(buf) /\ Len(buf) \in Nat
    <2>1. ASSUME NEW j \in 1 .. n PROVE buf[j] = text[j]
        <3>1. 0 + j = j
            OBVIOUS
        <3> QED
            BY <3>1 DEF BeginsAt
    <2> QED
        BY <1>2, <2>1
<1>8. \A k \in 0 .. N : at[k] \in Nat
    BY <1>6
<1> HIDE DEF N, text, b
<1>9. CASE n < b
    <2>1. BeginsAt(buf, 0, line, n)
        <3>1. ASSUME NEW j \in 1 .. n PROVE buf[0 + j] = line[j]
            <4>1. j \in 1 .. b /\ 0 + j = j
                BY <1>3, <1>7, <1>9
            <4>2. text[0 + j] = line[j]
                BY <1>3, <4>1 DEF StandsAt, b
            <4> QED
                BY <1>7, <4>1, <4>2
        <3> QED
            BY <3>1 DEF BeginsAt
    <2>2. 0 \in Nat /\ n < Len(line) /\ 0 + n <= Len(buf) /\ Stops(buf, 0 + n)
        BY <1>7, <1>9 DEF b
    <2> HIDE DEF line
    <2>3. ~ EndsLine(buf, ParseInt(buf, 0 + 2).next)
        <3>1. n \in Nat /\ N \in Nat /\ STAR \in Octet /\ n >= 1
            BY <1>1, <1>7
        <3> QED
            BY <2>1, <2>2, <3>1, NumberedCut DEF line
    <2> QED
        BY <2>3 DEF ParseCommand, Failed
<1>10. CASE ~ n < b
    <2> DEFINE T == {i \in 1 .. N : n < b + at[i]}
    <2>1. PICK i \in T : \A k \in T : i <= k
        <3>1. N \in T
            BY <1>1, <1>3, <1>7
        <3>2. T \in SUBSET Nat /\ T # {}
            BY <3>1
        <3> HIDE DEF T
        <3> QED
            BY <3>2, LeastOf
    <2>2. i \in 1 .. N /\ n < b + at[i]
        OBVIOUS
    <2>3. \A k \in 1 .. i - 1 : b + at[k] <= n
        <3> TAKE k \in 1 .. i - 1
        <3>1. k \in 1 .. N /\ ~ i <= k /\ k \in 0 .. N
            BY <1>1, <2>2
        <3>3. at[k] \in Nat
            BY <1>8, <3>1
        <3>2. k \notin T
            BY <2>1, <3>1
        <3> QED
            BY <1>3, <1>7, <3>1, <3>2, <3>3
    <2> HIDE DEF T
    <2> DEFINE a == b + at[i - 1]
               t == n - a
               arg == c[i]
    <2>4. i - 1 \in 0 .. N /\ at[i - 1] \in Nat /\ a \in Nat /\ at[i] \in Nat
        <3>1. i - 1 \in 0 .. N /\ i \in 0 .. N
            BY <1>1, <2>2
        <3>2. at[i - 1] \in Nat /\ at[i] \in Nat
            BY <1>8, <3>1
        <3> QED
            BY <1>3, <3>1, <3>2
    <2>5. a <= n
        <3>1. CASE i = 1
            BY <1>3, <1>7, <1>10, <3>1
        <3>2. CASE i # 1
            <4>1. i - 1 \in 1 .. i - 1
                BY <2>2, <3>2
            <4> QED
                BY <2>3, <4>1
        <3> QED
            BY <3>1, <3>2
    <2>6. /\ arg \in Argument /\ at[i] = at[i - 1] + Len(Bulk(arg))
          /\ StandsAt(text, a, Bulk(arg))
        BY <1>1, <1>6, <2>2
    <2>7. /\ Len(Bulk(arg)) \in Nat /\ Len(Header(arg)) \in Nat /\ Len(arg) \in Nat
          /\ Len(Bulk(arg)) = Len(Header(arg)) + Len(arg) + 2
        <3>1. Len(Decimal(Len(arg))) \in Nat /\ Len(arg) \in Nat
              /\ Len(Header(arg)) = Len(Decimal(Len(arg))) + 3
              /\ Len(Bulk(arg)) = Len(Header(arg)) + Len(arg) + 2
            <4> HIDE DEF arg
            <4> QED
                BY <2>6, BulkType
        <3> HIDE DEF arg
        <3> QED
            BY <3>1
    <2> HIDE DEF a, arg
    <2>8. t \in Nat /\ a + t = n /\ t < Len(Bulk(arg)) /\ a + Len(Bulk(arg)) = b + at[i]
        <3>1. b + at[i] = a + Len(Bulk(arg))
            BY <1>3, <2>4, <2>6, <2>7 DEF a
        <3> QED
            BY <1>7, <2>2, <2>4, <2>5, <2>7, <3>1
    <2> HIDE DEF t
    <2>9. BeginsAt(buf, a, Bulk(arg), t)
        <3>1. ASSUME NEW j \in 1 .. t PROVE buf[a + j] = Bulk(arg)[j]
            <4>1. j \in 1 .. Len(Bulk(arg)) /\ a + j \in 1 .. n
                BY <1>7, <2>4, <2>7, <2>8
            <4>2. text[a + j] = Bulk(arg)[j]
                BY <2>6, <4>1 DEF StandsAt
            <4> QED
                BY <1>7, <4>1, <4>2
        <3> QED
            BY <3>1 DEF BeginsAt
    <2>10. Len(Header(arg)) <= t /\ t < Len(Header(arg)) + Len(arg) =>
               ~ EndsLine(buf, (a + Len(Header(arg)) + Len(arg)) + 1)
        <3>1. DataEnd(c, i) = a + Len(Header(arg)) + Len(arg)
            BY <1>3, <2>2, <2>4, <2>7, <2>8
        <3>2. DataEnd(c, i) - Len(arg) = a + Len(Header(arg))
            BY <2>4, <2>7, <3>1
        <3>3. ~ /\ DataEnd(c, i) - Len(c[i]) <= n /\ n < DataEnd(c, i)
                /\ EndsLine(buf, DataEnd(c, i) + 1)
            BY <2>2 DEF N
        <3>4. /\ Len(Header(arg)) <= t => a + Len(Header(arg)) <= n
              /\ t < Len(Header(arg)) + Len(arg) => n < a + Len(Header(arg)) + Len(arg)
            BY <2>4, <2>7, <2>8
        <3> QED
            BY <3>1, <3>2, <3>3, <3>4 DEF arg
    <2>11. ~ ParseBulk(buf, a + 1).ok
        <3>1. a + t <= Len(buf) /\ Stops(buf, a + t)
            BY <1>7, <2>8
        <3> QED
            BY <2>4, <2>6, <2>8, <2>9, <2>10, <3>1, BulkCut
    <2>12. ASSUME NEW k \in 1 .. i - 1
           PROVE  /\ at[k] = at[k - 1] + Len(Bulk(c[k]))
                  /\ b + at[k] <= Len(buf)
                  /\ StandsAt(buf, b + at[k - 1], Bulk(c[k]))
        <3>1. /\ k \in 1 .. N /\ k - 1 \in 0 .. N /\ at[k - 1] \in Nat /\ at[k] \in Nat
              /\ c[k] \in Argument
            <4>1. k \in 1 .. N /\ k - 1 \in 0 .. N /\ k \in 0 .. N
                BY <1>1, <2>2
            <4> QED
                BY <1>8, <1>1, <4>1
        <3>2. /\ at[k] = at[k - 1] + Len(Bulk(c[k])) /\ b + at[k] <= n
              /\ StandsAt(text, b + at[k - 1], Bulk(c[k]))
            BY <1>6, <2>3, <3>1
        <3>3. Len(Bulk(c[k])) \in Nat
            BY <3>1, BulkType
        <3>4. ASSUME NEW j \in 1 .. Len(Bulk(c[k]))
              PROVE  buf[(b + at[k - 1]) + j] = Bulk(c[k])[j]
            <4>1. (b + at[k - 1]) + j \in 1 .. n
                <5> DEFINE x == at[k - 1]
                           y == Len(Bulk(c[k]))
                <5>1. /\ b \in Nat /\ x \in Nat /\ y \in Nat /\ n \in Nat
                      /\ b + (x + y) <= n /\ j \in 1 .. y
                    BY <1>3, <1>7, <3>1, <3>2, <3>3
                <5> HIDE DEF x, y
                <5>2. (b + x) + j \in 1 .. n
                    BY <5>1
                <5> QED
                    BY <5>2 DEF x
            <4>2. text[(b + at[k - 1]) + j] = Bulk(c[k])[j]
                BY <3>2 DEF StandsAt
            <4> QED
                BY <1>7, <4>1, <4>2
        <3>5. b + at[k] <= Len(buf)
            BY <1>3, <1>7, <3>1, <3>2
        <3> QED
            BY <3>2, <3>4, <3>5 DEF StandsAt
    <2> DEFINE q == b + 1
    <2>13. \/ ~ ParseBulk(buf, q).ok
           \/ ~ ParseBulks(buf, ParseBulk(buf, q).next, Reads(ParseBulk(buf, q).args[1], N)).ok
        <3>1. CASE i = 1
            <4>1. a = b
                BY <1>3, <3>1 DEF a
            <4> QED
                BY <2>11, <4>1
        <3>2. CASE i # 1
            <4>1. 1 \in 1 .. i - 1 /\ 1 - 1 = 0 /\ i - 1 \in 1 .. N - 1 /\ 1 \in 1 .. N
                BY <1>1, <2>2, <3>2
            <4>2. /\ at[1] = at[0] + Len(Bulk(c[1])) /\ b + at[1] <= Len(buf)
                  /\ StandsAt(buf, b + at[0], Bulk(c[1])) /\ c[1] \in Argument
                BY <1>1, <2>12, <4>1
            <4>3. Len(Bulk(c[1])) \in Nat
                BY <4>2, BulkType
            <4>4. at[1] = Len(Bulk(c[1])) /\ b + at[0] = b
                BY <1>3, <4>2, <4>3
            <4>5. ParseBulk(buf, q) = Read(<<c[1]>>, (b + at[1]) + 1)
                <5>1. b + Len(Bulk(c[1])) <= Len(buf) /\ StandsAt(buf, b, Bulk(c[1]))
                    BY <4>2, <4>4
                <5>2. ParseBulk(buf, b + 1) = Read(<<c[1]>>, (b + Len(Bulk(c[1]))) + 1)
                    BY <1>3, <4>2, <5>1, BulkReads
                <5> QED
                    BY <4>4, <5>2
            <4>6. ~ ParseBulks(buf, (b + at[1]) + 1, N - 1).ok
                <5> DEFINE m == i - 1
                <5>1. ~ ParseBulk(buf, (b + at[m]) + 1).ok
                    BY <2>11 DEF a
                <5>2. m \in 1 .. Len(c) - 1 /\ at \in [0 .. Len(c) -> Nat]
                    BY <1>6, <4>1 DEF N
                <5>3. \A k \in 1 .. m : /\ at[k] = at[k - 1] + Len(Bulk(c[k]))
                                        /\ b + at[k] <= Len(buf)
                                        /\ StandsAt(buf, b + at[k - 1], Bulk(c[k]))
                    BY <2>12
                <5> HIDE DEF m
                <5> QED
                    BY <1>1, <1>3, <5>1, <5>2, <5>3, BulksCut DEF N
            <4>7. /\ ParseBulk(buf, q).next = (b + at[1]) + 1
                  /\ ParseBulk(buf, q).args[1] = c[1]
                BY <4>5 DEF Read
            <4> HIDE DEF q
            <4> QED
                BY <1>1, <4>6, <4>7
        <3> QED
            BY <3>1, <3>2
    <2>14. /\ 0 \in Nat /\ 0 + b <= Len(buf) /\ StandsAt(buf, 0, line)
           /\ q = (0 + b) + 1
        <3>1. ASSUME NEW j \in 1 .. b PROVE buf[0 + j] = line[j]
            <4>1. j \in 1 .. n /\ 0 + j = j
                BY <1>3, <1>7, <1>10
            <4>2. text[0 + j] = line[j]
                BY <1>3 DEF StandsAt, b
            <4> QED
                BY <1>7, <4>1, <4>2
        <3>2. b <= Len(buf)
            BY <1>3, <1>7, <1>10
        <3> QED
            BY <1>3, <3>1, <3>2 DEF StandsAt, b
    <2> HIDE DEF q
    <2>15. ~ ParseCommand(buf, 0 + 1).ok
        BY <1>1, <2>13, <2>14, CountReads DEF b
    <2> QED
        BY <2>15
<1> QED
    BY <1>9, <1>10

LEMMA NoCommand ==
    ASSUME NEW buf, NEW p, buf[p] # STAR
    PROVE  ~ ParseCommand(buf, p).ok
BY DEF ParseCommand, Failed

(*****************************************************************************)
(* A command whose arguments hold no "*" has one "*", its first byte.        *)
(*****************************************************************************)
Starless == Octet \ {STAR}

LEMMA Appended ==
    ASSUME NEW x \in Seq(Octet), Len(x) >= 1, \A j \in 2 .. Len(x) : x[j] # STAR,
           NEW y \in Seq(Starless)
    PROVE  /\ x \o y \in Seq(Octet) /\ Len(x \o y) >= 1
           /\ \A j \in 2 .. Len(x \o y) : (x \o y)[j] # STAR
<1> DEFINE m == Len(x)
           n == Len(y)
           z == x \o y
<1>1. y \in Seq(Octet) /\ \A j \in 1 .. n : y[j] # STAR
    BY DEF Starless
<1>2. /\ z \in Seq(Octet) /\ Len(z) = m + n
      /\ \A i \in 1 .. m : z[i] = x[i]
      /\ \A j \in 1 .. n : z[m + j] = y[j]
    BY <1>1, ConcatElements
<1>3. m \in Nat /\ n \in Nat /\ m >= 1
    OBVIOUS
<1>4. \A j \in 2 .. m : x[j] # STAR
    OBVIOUS
<1> HIDE DEF m, n, z
<1>5. ASSUME NEW j \in 2 .. m + n PROVE z[j] # STAR
    <2>1. CASE j <= m
        BY <1>2, <1>3, <1>4, <2>1
    <2>2. CASE ~ j <= m
        <3>1. j - m \in 1 .. n /\ m + (j - m) = j
            BY <1>3, <2>2
        <3>2. z[m + (j - m)] = y[j - m] /\ y[j - m] # STAR
            BY <1>1, <1>2, <3>1
        <3> QED
            BY <3>1, <3>2
    <2> QED
        BY <2>1, <2>2
<1>6. Len(z) >= 1
    BY <1>2, <1>3
<1> QED
    BY <1>2, <1>5, <1>6 DEF z

LEMMA StarlessParts ==
    /\ LineEnd \in Seq(Starless) /\ <<DOLLAR>> \in Seq(Starless)
    /\ \A n \in Nat : Decimal(n) \in Seq(Starless)
<1>1. LineEnd \in Seq(Starless) /\ <<DOLLAR>> \in Seq(Starless)
    <2>1. CR \in Starless /\ LF \in Starless /\ DOLLAR \in Starless
        BY DEF CR, LF, DOLLAR, STAR, Starless, Octet
    <2> QED
        BY <2>1 DEF LineEnd
<1>2. ASSUME NEW n \in Nat PROVE Decimal(n) \in Seq(Starless)
    <2> DEFINE d == Decimal(n)
    <2>1. d \in Seq(Octet) /\ \A k \in 1 .. Len(d) : d[k] \in Digit
        BY DecimalType
    <2> HIDE DEF d
    <2>2. \A x \in Digit : x \in Starless
        BY DEF Digit, STAR, Starless, Octet
    <2>3. d \in Seq(Starless)
        BY <2>1, <2>2
    <2> QED
        BY <2>3 DEF d
<1> QED
    BY <1>1, <1>2

LEMMA StarlessBulk ==
    ASSUME NEW arg \in Argument, \A j \in 1 .. Len(arg) : arg[j] # STAR
    PROVE  Bulk(arg) \in Seq(Starless)
<1> DEFINE d == Decimal(Len(arg))
           first == <<DOLLAR>>
           x == first \o d
           h == x \o LineEnd
           y == h \o arg
<1>1. arg \in Seq(Octet) /\ Len(arg) \in Nat
    BY DEF Argument
<1>2. /\ arg \in Seq(Starless) /\ d \in Seq(Starless)
      /\ first \in Seq(Starless) /\ LineEnd \in Seq(Starless)
    <2>1. arg \in Seq(Starless)
        BY <1>1 DEF Starless
    <2> QED
        BY <1>1, <2>1, StarlessParts
<1>3. Bulk(arg) = y \o LineEnd
    BY DEF Bulk, Header, LineEnd
<1> HIDE DEF d, first
<1>4. x \in Seq(Starless)
    BY <1>2, ConcatElements
<1> HIDE DEF x
<1>5. h \in Seq(Starless)
    BY <1>2, <1>4, ConcatElements
<1> HIDE DEF h
<1>6. y \in Seq(Starless)
    BY <1>2, <1>5, ConcatElements
<1> HIDE DEF y
<1>7. y \o LineEnd \in Seq(Starless)
    BY <1>2, <1>6, ConcatElements
<1> QED
    BY <1>3, <1>7

LEMMA StarFirst ==
    ASSUME NEW c \in Seq(Argument), Plain(c)
    PROVE  /\ ToResp(c)[1] = STAR
           /\ \A j \in 2 .. Len(ToResp(c)) : ToResp(c)[j] # STAR
<1> DEFINE N == Len(c)
           d == Decimal(N)
           first == <<STAR>>
           x == first \o d
           line == x \o LineEnd
           parts == Bulks(c)
           body == Joined(parts)
<1>1. N \in Nat /\ \A i \in 1 .. N : c[i] \in Argument
    OBVIOUS
<1>2. ToResp(c) = line \o body
    BY DEF ToResp, LineEnd, Bulks, Bulk
<1>3. line = Numbered(STAR, N)
    BY DEF Numbered
<1>4. parts \in Seq(Seq(Starless))
    <2>1. ASSUME NEW i \in 1 .. N PROVE Bulk(c[i]) \in Seq(Starless)
        <3>1. c[i] \in Argument /\ \A j \in 1 .. Len(c[i]) : c[i][j] # STAR
            BY <1>1 DEF Plain
        <3> QED
            BY <3>1, StarlessBulk
    <2> QED
        BY <1>1, <2>1 DEF Bulks
<1>5. d \in Seq(Starless) /\ LineEnd \in Seq(Starless) /\ STAR \in Octet
    <2>1. STAR \in Octet
        BY DEF STAR, Octet
    <2> QED
        BY <1>1, <2>1, StarlessParts
<1> HIDE DEF parts, N, d
<1>6. body \in Seq(Starless)
    BY <1>4, JoinedAt
<1> HIDE DEF body
<1>7. /\ x \in Seq(Octet) /\ Len(x) >= 1
      /\ \A j \in 2 .. Len(x) : x[j] # STAR
    <2>1. first \in Seq(Octet) /\ Len(first) >= 1 /\ \A j \in 2 .. Len(first) : first[j] # STAR
        BY <1>5
    <2> HIDE DEF first
    <2> QED
        BY <1>5, <2>1, Appended
<1> HIDE DEF x
<1>8. /\ line \in Seq(Octet) /\ Len(line) >= 1
      /\ \A j \in 2 .. Len(line) : line[j] # STAR
    BY <1>5, <1>7, Appended
<1>9. line[1] = STAR
    BY <1>1, <1>3, <1>5, NumberedParts
<1> HIDE DEF line
<1>10. \A j \in 2 .. Len(line \o body) : (line \o body)[j] # STAR
    BY <1>6, <1>8, Appended
<1>11. (line \o body)[1] = STAR
    <2>1. body \in Seq(Octet)
        BY <1>6 DEF Starless
    <2>2. \A i \in 1 .. Len(line) : (line \o body)[i] = line[i]
        BY <1>8, <2>1, ConcatElements
    <2>3. 1 \in 1 .. Len(line)
        BY <1>8
    <2> QED
        BY <1>9, <2>2, <2>3
<1> QED
    BY <1>2, <1>10, <1>11

(*****************************************************************************)
(* The replay passes over a command cut short, and finds what stands         *)
(* behind it.                                                                *)
(*****************************************************************************)
LEMMA HeadPassed ==
    ASSUME NEW c, Loggable(c), Plain(c), NEW n \in 1 .. Len(ToResp(c)) - 1,
           NEW buf \in Seq(Octet),
           n <= Len(buf), BeginsAt(buf, 0, ToResp(c), n), Stops(buf, n),
           \A i \in 1 .. Len(c) :
               ~ /\ DataEnd(c, i) - Len(c[i]) <= n /\ n < DataEnd(c, i)
                 /\ EndsLine(buf, DataEnd(c, i) + 1)
    PROVE  Reached(buf, n + 1, <<>>)
<1>1. ~ ParseCommand(buf, 1).ok
    BY CutFails
<1>2. c \in Seq(Argument)
    BY DEF Loggable
<1>3. \A j \in 2 .. Len(ToResp(c)) : ToResp(c)[j] # STAR
    BY <1>2, StarFirst
<1>4. Len(ToResp(c)) \in Nat
    BY <1>2, CommandType
<1>5. ASSUME NEW p \in 0 + 1 .. n PROVE ~ ParseCommand(buf, p).ok
    <2>1. CASE p = 1
        BY <1>1, <2>1
    <2>2. CASE p # 1
        <3>1. p \in 1 .. n /\ p \in 2 .. Len(ToResp(c)) /\ 0 + p = p
            BY <1>4, <2>2
        <3>2. buf[p] = ToResp(c)[p]
            BY <3>1 DEF BeginsAt
        <3> QED
            BY <1>3, <3>1, <3>2, NoCommand
    <2> QED
        BY <2>1, <2>2
<1>6. Reached(buf, 0 + 1, <<>>)
    BY ReachedFirst
<1>7. 0 \in Nat /\ n \in Nat /\ 0 <= n
    BY <1>4
<1> QED
    BY <1>5, <1>6, <1>7, ReachedPast

LEMMA ThreeStand ==
    ASSUME NEW S, NEW x \in Seq(S), NEW y \in Seq(S), NEW z \in Seq(S),
           NEW whole, whole = (x \o y) \o z
    PROVE  /\ whole \in Seq(S) /\ Len(whole) = Len(x) + Len(y) + Len(z)
           /\ StandsAt(whole, 0, x) /\ StandsAt(whole, Len(x), y)
           /\ StandsAt(whole, Len(x) + Len(y), z)
<1> DEFINE xy == x \o y
<1>1. xy \in Seq(S) /\ Len(xy) = Len(x) + Len(y)
    BY ConcatElements
<1>2. whole = xy \o z /\ Len(x) \in Nat /\ Len(y) \in Nat /\ Len(z) \in Nat
    OBVIOUS
<1>3. StandsAt(xy, 0, x \o y)
    BY DEF StandsAt
<1> HIDE DEF xy
<1>4. whole \in Seq(S) /\ Len(whole) = Len(xy) + Len(z)
    BY <1>1, <1>2, ConcatElements
<1>5. StandsAt(whole, 0, xy \o z)
    BY <1>2 DEF StandsAt
<1>6. StandsAt(whole, 0, xy) /\ StandsAt(whole, 0 + Len(xy), z)
    BY <1>1, <1>5, StandsApart
<1>7. StandsAt(whole, 0, x) /\ StandsAt(whole, 0 + Len(x), y)
    <2>1. StandsAt(whole, 0, x \o y)
        BY <1>6 DEF xy
    <2> QED
        BY <2>1, StandsApart
<1>8. 0 + Len(x) = Len(x) /\ 0 + Len(xy) = Len(x) + Len(y)
    BY <1>1, <1>2
<1>9. StandsAt(whole, Len(x), y) /\ StandsAt(whole, Len(x) + Len(y), z)
    BY <1>6, <1>7, <1>8
<1> QED
    BY <1>1, <1>2, <1>4, <1>7, <1>9

\* the other way round
LEMMA StandsTogether ==
    ASSUME NEW S, NEW x \in Seq(S), NEW y \in Seq(S), NEW whole, NEW a \in Nat,
           StandsAt(whole, a, x), StandsAt(whole, a + Len(x), y)
    PROVE  StandsAt(whole, a, x \o y)
<1> DEFINE m == Len(x)
           n == Len(y)
           z == x \o y
<1>1. /\ z \in Seq(S) /\ Len(z) = m + n
      /\ \A i \in 1 .. m : z[i] = x[i]
      /\ \A j \in 1 .. n : z[m + j] = y[j]
    BY ConcatElements
<1>2. /\ \A i \in 1 .. m : whole[a + i] = x[i]
      /\ \A j \in 1 .. n : whole[(a + m) + j] = y[j]
    BY DEF StandsAt
<1>3. m \in Nat /\ n \in Nat
    OBVIOUS
<1> HIDE DEF m, n, z
<1>4. ASSUME NEW i \in 1 .. m + n PROVE whole[a + i] = z[i]
    <2>1. CASE i <= m
        <3>1. i \in 1 .. m
            BY <1>3, <2>1
        <3> QED
            BY <1>1, <1>2, <3>1
    <2>2. CASE ~ i <= m
        <3>1. i - m \in 1 .. n /\ m + (i - m) = i /\ (a + m) + (i - m) = a + i
            BY <1>3, <2>2
        <3>2. z[m + (i - m)] = y[i - m] /\ whole[(a + m) + (i - m)] = y[i - m]
            BY <1>1, <1>2, <3>1
        <3> QED
            BY <3>1, <3>2
    <2> QED
        BY <2>1, <2>2
<1> QED
    BY <1>1, <1>4 DEF StandsAt, z

\* a line end in what follows the head, seen from the whole
LEMMA EndsBehind ==
    ASSUME NEW rest \in Seq(Octet), NEW data \in Seq(Octet), NEW n \in Nat, NEW m \in Nat,
           Len(data) = n + Len(rest), StandsAt(data, n, rest), NEW q \in Nat, q = n + m, m >= 1
    PROVE  EndsLine(data, q) <=> EndsLine(rest, m)
<1>1. Len(rest) \in Nat /\ (q + 1 <= Len(data) <=> m + 1 <= Len(rest))
    OBVIOUS
<1>2. CASE m + 1 <= Len(rest)
    <2>1. m \in 1 .. Len(rest) /\ m + 1 \in 1 .. Len(rest) /\ n + (m + 1) = q + 1
        BY <1>1, <1>2
    <2>2. data[n + m] = rest[m] /\ data[n + (m + 1)] = rest[m + 1]
        BY <2>1 DEF StandsAt
    <2> QED
        BY <1>1, <1>2, <2>1, <2>2 DEF EndsLine
<1>3. CASE ~ m + 1 <= Len(rest)
    BY <1>1, <1>3 DEF EndsLine
<1> QED
    BY <1>2, <1>3

LEMMA HeadOf ==
    ASSUME NEW text \in Seq(Octet), NEW n \in 1 .. Len(text) - 1
    PROVE  /\ SubSeq(text, 1, n) \in Seq(Octet) /\ Len(SubSeq(text, 1, n)) = n
           /\ BeginsAt(SubSeq(text, 1, n), 0, text, n)
<1> DEFINE head == SubSeq(text, 1, n)
<1>1. n \in Nat /\ n <= Len(text) /\ Len(text) \in Nat
    OBVIOUS
<1>2. /\ head \in Seq(Octet) /\ Len(head) = n
      /\ \A j \in 1 .. n : head[j] = text[j]
    <2>1. \A i \in 1 .. n : text[i] \in Octet
        BY <1>1
    <2>2. 1 \in Int /\ n \in Int /\ 1 <= n /\ (n - 1) + 1 = n /\ n - 1 + 1 = n
        BY <1>1
    <2>3. /\ SubSeq(text, 1, n) \in Seq(Octet)
          /\ Len(SubSeq(text, 1, n)) = IF 1 <= n THEN n - 1 + 1 ELSE 0
          /\ \A i \in 1 .. n - 1 + 1 : SubSeq(text, 1, n)[i] = text[1 + i - 1]
        BY <1>1, <2>1, SubSeqProperties
    <2>4. \A i \in 1 .. n : 1 + i - 1 = i
        OBVIOUS
    <2> QED
        BY <2>2, <2>3, <2>4
<1> HIDE DEF head
<1>3. ASSUME NEW j \in 1 .. n PROVE head[0 + j] = text[j]
    <2>1. 0 + j = j
        OBVIOUS
    <2> QED
        BY <1>2, <2>1
<1> QED
    BY <1>2, <1>3 DEF head, BeginsAt

LEMMA CutAlone ==
    ASSUME NEW c, Loggable(c), Plain(c), NEW n \in 1 .. Len(ToResp(c)) - 1
    PROVE  Replayed(SubSeq(ToResp(c), 1, n)) = <<>>
<1> DEFINE text == ToResp(c)
           head == SubSeq(text, 1, n)
<1>1. c \in Seq(Argument)
    BY DEF Loggable
<1>2. text \in Seq(Octet) /\ Len(text) \in Nat
    BY <1>1, CommandType
<1>3. /\ head \in Seq(Octet) /\ Len(head) = n /\ BeginsAt(head, 0, text, n)
    <2> HIDE DEF text
    <2> QED
        BY <1>2, HeadOf DEF text
<1>4. n \in Nat /\ n <= Len(head) /\ Stops(head, n)
    <2>1. n \in Nat
        BY <1>2
    <2> HIDE DEF head
    <2> QED
        BY <1>3, <2>1 DEF Stops
<1> HIDE DEF head
<1>5. ASSUME NEW i \in 1 .. Len(c)
      PROVE  ~ (n < DataEnd(c, i) /\ EndsLine(head, DataEnd(c, i) + 1))
    <2> DEFINE end == DataEnd(c, i)
    <2>1. end \in Int
        BY <1>1, DataEndType
    <2> HIDE DEF end
    <2>2. n < end => ~ (end + 1) + 1 <= Len(head)
        BY <1>3, <1>4, <2>1
    <2>3. ~ (n < end /\ EndsLine(head, end + 1))
        BY <2>2 DEF EndsLine
    <2> QED
        BY <2>3 DEF end
<1>6. Reached(head, n + 1, <<>>)
    BY <1>3, <1>4, <1>5, HeadPassed
<1> QED
    BY <1>3, <1>6, ReachedEnd DEF head

LEMMA TwoAppended ==
    ASSUME NEW T, NEW d \in T, NEW e \in T
    PROVE  Append(Append(<<>>, d), e) = <<d, e>>
<1> DEFINE one == <<d>>
           two == <<d, e>>
<1>1. Append(<<>>, d) = one
    OBVIOUS
<1>2. one \in Seq(T) /\ Len(one) = 1 /\ one[1] = d
    OBVIOUS
<1>3. two \in Seq(T) /\ Len(two) = 2 /\ two[1] = d /\ two[2] = e
    OBVIOUS
<1> HIDE DEF one, two
<1>4. /\ Append(one, e) \in Seq(T) /\ Len(Append(one, e)) = Len(one) + 1
      /\ \A i \in 1 .. Len(one) : Append(one, e)[i] = one[i]
      /\ Append(one, e)[Len(one) + 1] = e
    BY <1>2, AppendElements
<1>5. ASSUME NEW i \in 1 .. 2 PROVE Append(one, e)[i] = two[i]
    <2>1. (i = 1 /\ i \in 1 .. 1) \/ (i = 1 + 1 /\ i = 2)
        OBVIOUS
    <2> QED
        BY <1>2, <1>3, <1>4, <2>1
<1>6. Append(one, e) = two
    BY <1>2, <1>3, <1>4, <1>5, SeqEqual
<1> QED
    BY <1>1, <1>6 DEF two

\* what a command cut short stands before
LEMMA BehindHead ==
    ASSUME NEW c \in Seq(Argument), NEW d \in Seq(Argument), NEW e \in Seq(Argument), Plain(d),
           NEW n \in 1 .. Len(ToResp(c)) - 1, NEW head, head = SubSeq(ToResp(c), 1, n),
           NEW data, data = (head \o ToResp(d)) \o ToResp(e)
    PROVE  /\ data \in Seq(Octet) /\ Len(data) = n + Len(ToResp(d)) + Len(ToResp(e))
           /\ BeginsAt(data, 0, ToResp(c), n) /\ Stops(data, n)
           /\ StandsAt(data, 0, head) /\ StandsAt(data, n, ToResp(d))
           /\ StandsAt(data, n + Len(ToResp(d)), ToResp(e))
<1> DEFINE text == ToResp(c)
           D == ToResp(d)
           E == ToResp(e)
<1>1. /\ text \in Seq(Octet) /\ Len(text) \in Nat
      /\ D \in Seq(Octet) /\ Len(D) \in Nat /\ Len(D) >= 4
      /\ E \in Seq(Octet) /\ Len(E) \in Nat
    BY CommandType
<1>2. D[1] = STAR
    BY StarFirst
<1>3. data = (head \o D) \o E /\ n \in Nat /\ head = SubSeq(text, 1, n)
    BY <1>1
<1>4. n \in 1 .. Len(text) - 1
    OBVIOUS
<1> HIDE DEF text, D, E
<1>5. head \in Seq(Octet) /\ Len(head) = n /\ BeginsAt(head, 0, text, n)
    BY <1>1, <1>3, <1>4, HeadOf
<1>6. /\ data \in Seq(Octet) /\ Len(data) = Len(head) + Len(D) + Len(E)
      /\ StandsAt(data, 0, head) /\ StandsAt(data, Len(head), D)
      /\ StandsAt(data, Len(head) + Len(D), E)
    BY <1>1, <1>3, <1>5, ThreeStand
<1>7. BeginsAt(data, 0, text, n)
    BY <1>5, <1>6 DEF BeginsAt, StandsAt
<1>8. Stops(data, n)
    <2>1. 1 \in 1 .. Len(D)
        BY <1>1
    <2>2. data[n + 1] = STAR
        BY <1>2, <1>5, <1>6, <2>1 DEF StandsAt
    <2> QED
        BY <2>2 DEF Stops
<1> QED
    BY <1>5, <1>6, <1>7, <1>8 DEF text, D, E

LEMMA CutSkipped ==
    ASSUME NEW c, Loggable(c), Plain(c), NEW d, Loggable(d), Plain(d), NEW e, Loggable(e),
           NEW n \in 1 .. Len(ToResp(c)) - 1
    PROVE  Skips(c, n, d, e)
<1> DEFINE text == ToResp(c)
           head == SubSeq(text, 1, n)
           D == ToResp(d)
           E == ToResp(e)
           data == head \o D \o E
           rest == D \o E
<1> SUFFICES ASSUME \A i \in 1 .. Len(c) : ~ Completes(c, i, n, rest)
             PROVE  Replayed(data) = <<d, e>>
    BY DEF Skips
<1>1. c \in Seq(Argument) /\ d \in Seq(Argument) /\ e \in Seq(Argument)
    BY DEF Loggable
<1>2. /\ text \in Seq(Octet) /\ Len(text) \in Nat
      /\ D \in Seq(Octet) /\ Len(D) \in Nat /\ Len(D) >= 4
      /\ E \in Seq(Octet) /\ Len(E) \in Nat
    BY <1>1, CommandType
<1>3. /\ data \in Seq(Octet) /\ Len(data) = n + Len(D) + Len(E)
      /\ BeginsAt(data, 0, text, n) /\ Stops(data, n)
      /\ StandsAt(data, n, D) /\ StandsAt(data, n + Len(D), E)
    <2> HIDE DEF data, text, D, E
    <2>1. head = SubSeq(ToResp(c), 1, n) /\ data = (head \o ToResp(d)) \o ToResp(e)
        BY DEF data, text, D, E
    <2> HIDE DEF head
    <2>2. data \in Seq(Octet)
        BY <1>1, <2>1, BehindHead
    <2>3. Len(data) = n + Len(ToResp(d)) + Len(ToResp(e))
        BY <1>1, <2>1, BehindHead
    <2>4. /\ BeginsAt(data, 0, ToResp(c), n) /\ Stops(data, n)
          /\ StandsAt(data, n, ToResp(d)) /\ StandsAt(data, n + Len(ToResp(d)), ToResp(e))
        BY <1>1, <2>1, BehindHead
    <2> QED
        BY <2>2, <2>3, <2>4 DEF text, D, E
<1>4. n \in Nat /\ n <= Len(data)
    BY <1>2, <1>3
<1> HIDE DEF text, D, E, data
<1>5. rest \in Seq(Octet) /\ Len(rest) = Len(D) + Len(E)
    BY <1>2, ConcatElements
<1>6. StandsAt(data, n, rest)
    BY <1>2, <1>3, <1>4, StandsTogether
<1> HIDE DEF rest
<1>7. ASSUME NEW i \in 1 .. Len(c)
      PROVE  ~ /\ DataEnd(c, i) - Len(c[i]) <= n /\ n < DataEnd(c, i)
               /\ EndsLine(data, DataEnd(c, i) + 1)
    <2> DEFINE end == DataEnd(c, i)
               from == end - Len(c[i])
               m == (end - n) + 1
    <2>1. end \in Int
        BY <1>1, DataEndType
    <2>2. ~ (from <= n /\ n < end /\ EndsLine(rest, m))
        BY DEF Completes
    <2> HIDE DEF end, from
    <2>3. ASSUME n < end PROVE EndsLine(data, end + 1) <=> EndsLine(rest, m)
        <3>1. m \in Nat /\ m >= 1 /\ end + 1 \in Nat /\ end + 1 = n + m
            BY <1>4, <2>1, <2>3
        <3>2. Len(data) = n + Len(rest)
            BY <1>2, <1>3, <1>4, <1>5
        <3> HIDE DEF m
        <3> QED
            BY <1>3, <1>4, <1>5, <1>6, <3>1, <3>2, EndsBehind
    <2>4. ~ (from <= n /\ n < end /\ EndsLine(data, end + 1))
        BY <2>2, <2>3
    <2> QED
        BY <2>4 DEF end, from
<1>8. Reached(data, n + 1, <<>>)
    BY <1>3, <1>4, <1>7, HeadPassed DEF text
<1>9. Reached(data, (n + Len(D)) + 1, Append(<<>>, d))
    <2>1. n + Len(D) <= Len(data)
        BY <1>2, <1>3, <1>4
    <2> QED
        BY <1>3, <1>4, <1>8, <2>1, ReachedCommand DEF D
<1>10. Reached(data, ((n + Len(D)) + Len(E)) + 1, Append(Append(<<>>, d), e))
    <2> DEFINE a == n + Len(D)
    <2>1. a \in Nat /\ a + Len(E) <= Len(data)
        BY <1>2, <1>3, <1>4
    <2> HIDE DEF a
    <2>2. StandsAt(data, a, E) /\ Reached(data, a + 1, Append(<<>>, d))
        BY <1>3, <1>9 DEF a
    <2>3. Reached(data, (a + Len(E)) + 1, Append(Append(<<>>, d), e))
        BY <1>3, <2>1, <2>2, ReachedCommand DEF E
    <2> QED
        BY <2>3 DEF a
<1>11. ((n + Len(D)) + Len(E)) + 1 = Len(data) + 1
    BY <1>2, <1>3, <1>4
<1>12. Append(Append(<<>>, d), e) = <<d, e>>
    BY <1>1, TwoAppended
<1> QED
    BY <1>3, <1>10, <1>11, <1>12, ReachedEnd DEF data

(*****************************************************************************)
(* What a SET is written as: what stands before its value depends on the     *)
(* length of the value only.                                                 *)
(*****************************************************************************)
LEMMA Associative ==
    ASSUME NEW x \in Seq(Octet), NEW y \in Seq(Octet), NEW z \in Seq(Octet)
    PROVE  x \o (y \o z) = (x \o y) \o z
BY ConcatAssociative

LEMMA JoinedThree ==
    ASSUME NEW x \in Seq(Octet), NEW y \in Seq(Octet), NEW z \in Seq(Octet)
    PROVE  Joined(<<x, y, z>>) = (x \o y) \o z
<1> DEFINE parts == <<x, y, z>>
<1>1. /\ parts \in Seq(Seq(Octet)) /\ Len(parts) = 3
      /\ parts[1] = x /\ parts[2] = y /\ parts[3] = z
    OBVIOUS
<1> HIDE DEF parts
<1>2. PICK f : /\ f[0] = <<>>
               /\ \A n \in 1 .. Len(parts) : f[n] = f[n - 1] \o parts[n]
               /\ Joined(parts) = f[Len(parts)]
    BY <1>1, JoinedSteps
<1>3. f[1] = f[0] \o parts[1] /\ f[2] = f[1] \o parts[2] /\ f[3] = f[2] \o parts[3]
    <2>1. 1 \in 1 .. 3 /\ 1 - 1 = 0 /\ 2 \in 1 .. 3 /\ 2 - 1 = 1 /\ 3 \in 1 .. 3 /\ 3 - 1 = 2
        OBVIOUS
    <2>2. \A n \in 1 .. 3 : f[n] = f[n - 1] \o parts[n]
        BY <1>1, <1>2
    <2>3. f[1] = f[1 - 1] \o parts[1] /\ f[2] = f[2 - 1] \o parts[2] /\ f[3] = f[3 - 1] \o parts[3]
        BY <2>1, <2>2
    <2> QED
        BY <2>1, <2>3
<1>4. <<>> \o x = x
    BY ConcatSimplifications
<1>5. Joined(parts) = (x \o y) \o z
    BY <1>1, <1>2, <1>3, <1>4
<1> QED
    BY <1>5 DEF parts

SetHead(k, n) == ((Numbered(STAR, 3) \o Bulk(SET)) \o Bulk(k)) \o Numbered(DOLLAR, n)

LEMMA SetText ==
    ASSUME NEW k \in Argument, NEW v \in Argument
    PROVE  /\ SetHead(k, Len(v)) \in Seq(Octet)
           /\ ToResp(<<SET, k, v>>) = (SetHead(k, Len(v)) \o v) \o LineEnd
<1> DEFINE c == <<SET, k, v>>
           line == Numbered(STAR, 3)
           x == Bulk(SET)
           y == Bulk(k)
           h == Numbered(DOLLAR, Len(v))
           z == (h \o v) \o LineEnd
           lx == line \o x
           p == lx \o y
           hv == h \o v
           ph == p \o h
<1>1. SET \in Argument /\ STAR \in Octet /\ DOLLAR \in Octet /\ Len(v) \in Nat /\ 3 \in Nat
      /\ v \in Seq(Octet) /\ LineEnd \in Seq(Octet)
    BY Names, SmallBytes DEF STAR, DOLLAR, Octet, Argument
<1>2. /\ Len(c) = 3 /\ c[1] = SET /\ c[2] = k /\ c[3] = v
    OBVIOUS
<1>3. Bulk(v) = z
    BY DEF Bulk, Header, Numbered, LineEnd
<1> HIDE DEF c
<1>4. ToResp(c) = line \o Joined(Bulks(c))
    <2>1. ToResp(c) = Numbered(STAR, Len(c)) \o Joined(Bulks(c))
        BY DEF ToResp, Numbered, LineEnd, Bulks, Bulk
    <2> QED
        BY <1>2, <2>1
<1>5. Bulks(c) = <<x, y, z>>
    <2> HIDE DEF x, y, z
    <2>1. Bulks(c) = [i \in 1 .. 3 |-> Bulk(c[i])]
        BY <1>2 DEF Bulks
    <2>2. Bulk(c[1]) = x /\ Bulk(c[2]) = y /\ Bulk(c[3]) = z
        BY <1>2, <1>3 DEF x, y
    <2>3. [i \in 1 .. 3 |-> Bulk(c[i])] = <<x, y, z>>
        BY <2>2
    <2> QED
        BY <2>1, <2>3
<1>6. line \in Seq(Octet) /\ x \in Seq(Octet) /\ y \in Seq(Octet) /\ h \in Seq(Octet)
    BY <1>1, NumberedType, BulkType
<1>7. SetHead(k, Len(v)) = ph
    BY DEF SetHead
<1> HIDE DEF line, x, y, h
<1>8. lx \in Seq(Octet) /\ hv \in Seq(Octet)
    BY <1>1, <1>6, ConcatElements
<1>9. p \in Seq(Octet)
    <2> HIDE DEF lx
    <2> QED
        BY <1>6, <1>8, ConcatElements
<1>10. z \in Seq(Octet)
    <2> HIDE DEF hv
    <2>1. hv \o LineEnd \in Seq(Octet)
        BY <1>1, <1>8, ConcatElements
    <2> QED
        BY <2>1 DEF hv
<1>11. ph \in Seq(Octet)
    <2> HIDE DEF p
    <2> QED
        BY <1>6, <1>9, ConcatElements
<1>12. ToResp(c) = line \o ((x \o y) \o z)
    <2> HIDE DEF z
    <2>1. x \in Seq(Octet) /\ y \in Seq(Octet) /\ z \in Seq(Octet)
        BY <1>6, <1>10
    <2>2. Joined(<<x, y, z>>) = (x \o y) \o z
        BY <2>1, JoinedThree, Zenon
    <2> QED
        BY <1>4, <1>5, <2>2
<1>13. line \o ((x \o y) \o z) = p \o z
    <2> DEFINE xy == x \o y
    <2>1. xy \in Seq(Octet)
        BY <1>6, ConcatElements
    <2>2. line \o xy = p
        BY <1>6, Associative, Zenon
    <2> HIDE DEF z, xy, p
    <2>3. line \in Seq(Octet) /\ z \in Seq(Octet)
        BY <1>6, <1>10
    <2>4. line \o (xy \o z) = (line \o xy) \o z
        BY <2>1, <2>3, Associative, Zenon
    <2> QED
        BY <2>2, <2>4 DEF xy
<1>14. p \o z = (ph \o v) \o LineEnd
    <2> HIDE DEF p
    <2>1. p \o hv = ph \o v
        BY <1>1, <1>6, <1>9, Associative, Zenon
    <2> HIDE DEF ph, hv
    <2>2. p \o (hv \o LineEnd) = (p \o hv) \o LineEnd
        BY <1>1, <1>8, <1>9, Associative, Zenon
    <2> QED
        BY <2>1, <2>2 DEF hv
<1> QED
    BY <1>7, <1>11, <1>12, <1>13, <1>14 DEF c

(*****************************************************************************)
(* The value of a SET, cut short, goes on in what follows, if that has a     *)
(* line end where the value should have had one: the replay reads a SET      *)
(* with that value, and goes on behind it.                                   *)
(*****************************************************************************)
LEMMA SliceElements ==
    ASSUME NEW S, NEW s \in Seq(S), NEW a \in Nat, NEW b \in Nat, a <= b, b <= Len(s)
    PROVE  /\ SubSeq(s, a + 1, b) \in Seq(S) /\ Len(SubSeq(s, a + 1, b)) = b - a
           /\ \A j \in 1 .. b - a : SubSeq(s, a + 1, b)[j] = s[a + j]
<1>1. /\ a + 1 \in Int /\ b \in Int /\ Len(s) \in Nat
      /\ \A i \in a + 1 .. b : i \in 1 .. Len(s)
    OBVIOUS
<1>2. \A i \in a + 1 .. b : s[i] \in S
    BY <1>1
<1> DEFINE slice == SubSeq(s, a + 1, b)
<1>3. /\ slice \in Seq(S)
      /\ Len(slice) = IF a + 1 <= b THEN b - (a + 1) + 1 ELSE 0
      /\ \A i \in 1 .. b - (a + 1) + 1 : slice[i] = s[a + 1 + i - 1]
    BY <1>1, <1>2, SubSeqProperties
<1> HIDE DEF slice
<1>4. /\ b - (a + 1) + 1 = b - a /\ (~ a + 1 <= b => b - a = 0)
      /\ \A i \in 1 .. b - a : a + 1 + i - 1 = a + i
    OBVIOUS
<1>5. Len(slice) = b - a
    BY <1>3, <1>4
<1>6. \A j \in 1 .. b - a : slice[j] = s[a + j]
    BY <1>3, <1>4
<1> QED
    BY <1>3, <1>5, <1>6 DEF slice

LEMMA LineEndStands ==
    ASSUME NEW data, NEW end \in Nat, data[end + 1] = CR, data[end + 2] = LF
    PROVE  StandsAt(data, end, LineEnd)
<1>1. Len(LineEnd) = 2 /\ LineEnd[1] = CR /\ LineEnd[2] = LF
    BY SmallBytes
<1>2. ASSUME NEW j \in 1 .. 2 PROVE data[end + j] = LineEnd[j]
    <2>1. j = 1 \/ j = 2
        OBVIOUS
    <2> QED
        BY <1>1, <2>1
<1> QED
    BY <1>1, <1>2 DEF StandsAt

\* the end of a head and the beginning of what follows it
LEMMA SlicesStand ==
    ASSUME NEW head \in Seq(Octet), NEW D \in Seq(Octet), NEW data,
           StandsAt(data, 0, head), StandsAt(data, Len(head), D),
           NEW p \in Nat, p <= Len(head), NEW m \in Nat, m <= Len(D)
    PROVE  /\ SubSeq(head, p + 1, Len(head)) \o SubSeq(D, 1, m) \in Seq(Octet)
           /\ Len(SubSeq(head, p + 1, Len(head)) \o SubSeq(D, 1, m)) = (Len(head) - p) + m
           /\ StandsAt(data, p, SubSeq(head, p + 1, Len(head)) \o SubSeq(D, 1, m))
<1> DEFINE n == Len(head)
           x == SubSeq(head, p + 1, n)
           y == SubSeq(D, 0 + 1, m)
           z == x \o y
<1>1. n \in Nat /\ p <= n /\ n - p \in Nat /\ p + (n - p) = n /\ m - 0 = m /\ 0 + 1 = 1
    OBVIOUS
<1>2. /\ x \in Seq(Octet) /\ Len(x) = n - p
      /\ \A j \in 1 .. n - p : x[j] = head[p + j]
    <2>1. n <= Len(head)
        BY <1>1
    <2> HIDE DEF n
    <2>2. p <= n /\ n \in Nat
        BY <1>1
    <2>3. SubSeq(head, p + 1, n) \in Seq(Octet) /\ Len(SubSeq(head, p + 1, n)) = n - p
        BY <2>1, <2>2, SliceElements
    <2>4. \A j \in 1 .. n - p : SubSeq(head, p + 1, n)[j] = head[p + j]
        BY <2>1, <2>2, SliceElements
    <2> QED
        BY <2>3, <2>4
<1>3. /\ y \in Seq(Octet) /\ Len(y) = m
      /\ \A j \in 1 .. m : y[j] = D[0 + j]
    <2>1. 0 \in Nat /\ 0 <= m
        OBVIOUS
    <2>2. /\ SubSeq(D, 0 + 1, m) \in Seq(Octet) /\ Len(SubSeq(D, 0 + 1, m)) = m - 0
          /\ \A j \in 1 .. m - 0 : SubSeq(D, 0 + 1, m)[j] = D[0 + j]
        BY <2>1, SliceElements
    <2> QED
        BY <1>1, <2>2
<1>4. SubSeq(head, p + 1, Len(head)) \o SubSeq(D, 1, m) = z
    BY <1>1
<1> HIDE DEF x, y
<1>5. z \in Seq(Octet) /\ Len(z) = (n - p) + m
    <2>1. z \in Seq(Octet) /\ Len(z) = Len(x) + Len(y)
        BY <1>2, <1>3, ConcatElements
    <2> QED
        BY <1>2, <1>3, <2>1
<1>6. StandsAt(data, p, x)
    <2>1. ASSUME NEW j \in 1 .. n - p PROVE data[p + j] = x[j]
        <3>1. p + j \in 1 .. n /\ 0 + (p + j) = p + j
            BY <1>1
        <3>2. data[0 + (p + j)] = head[p + j]
            BY <3>1 DEF StandsAt
        <3> QED
            BY <1>2, <3>1, <3>2
    <2> QED
        BY <1>2, <2>1 DEF StandsAt
<1>7. StandsAt(data, p + Len(x), y)
    <2>1. ASSUME NEW j \in 1 .. m PROVE data[n + j] = y[j]
        <3>1. j \in 1 .. Len(D) /\ 0 + j = j
            OBVIOUS
        <3>2. data[n + j] = D[j]
            BY <3>1 DEF StandsAt
        <3> QED
            BY <1>3, <3>1, <3>2
    <2> QED
        BY <1>1, <1>2, <1>3, <2>1 DEF StandsAt
<1>8. StandsAt(data, p, z)
    BY <1>2, <1>3, <1>6, <1>7, StandsTogether
<1> HIDE DEF z
<1> QED
    BY <1>4, <1>5, <1>8

LEMMA ValueGoesOn ==
    ASSUME NEW pre \in Seq(Octet), NEW v \in Seq(Octet), NEW more \in Seq(Octet),
           Len(more) = Len(v), NEW data, StandsAt(data, Len(pre), more),
           NEW head \in Seq(Octet), StandsAt(data, 0, head), Len(pre) <= Len(head),
           BeginsAt(head, 0, (pre \o v) \o LineEnd, Len(head)),
           NEW D \in Seq(Octet), StandsAt(data, Len(head), D),
           NEW m \in Nat, Len(head) + m = Len(pre) + Len(v), EndsLine(D, m + 1)
    PROVE  StandsAt(data, 0, (pre \o more) \o LineEnd)
<1> DEFINE P == Len(pre)
           L == Len(v)
           n == Len(head)
           text == (pre \o v) \o LineEnd
           w == pre \o more
<1>1. P \in Nat /\ L \in Nat /\ n \in Nat /\ P <= n /\ n + m = P + L /\ P + L \in Nat
    OBVIOUS
<1>2. m + 2 <= Len(D) /\ D[m + 1] = CR /\ D[m + 2] = LF /\ Len(D) \in Nat
    BY DEF EndsLine
<1>3. LineEnd \in Seq(Octet)
    BY SmallBytes
<1>4. StandsAt(text, 0, pre)
    <2> HIDE DEF text
    <2>1. text = (pre \o v) \o LineEnd
        BY DEF text
    <2> QED
        BY <1>3, <2>1, ThreeStand
<1>5. BeginsAt(head, 0, text, n) /\ Len(more) = L
    OBVIOUS
<1> HIDE DEF P, L, n, text
<1>6. StandsAt(data, 0, pre)
    <2>1. ASSUME NEW j \in 1 .. P PROVE data[0 + j] = pre[j]
        <3>1. j \in 1 .. n
            BY <1>1
        <3>2. data[0 + j] = head[j]
            BY <3>1 DEF StandsAt, n
        <3>3. head[0 + j] = text[j]
            BY <1>5, <3>1 DEF BeginsAt
        <3>4. text[0 + j] = pre[j]
            BY <1>4 DEF StandsAt, P
        <3>5. 0 + j = j
            BY <3>1
        <3> QED
            BY <3>2, <3>3, <3>4, <3>5
    <2> QED
        BY <2>1 DEF StandsAt, P
<1>7. StandsAt(data, P + L, LineEnd)
    <2>1. m + 1 \in 1 .. Len(D) /\ m + 2 \in 1 .. Len(D)
        BY <1>2
    <2>2. data[n + (m + 1)] = D[m + 1] /\ data[n + (m + 2)] = D[m + 2]
        BY <2>1 DEF StandsAt, n
    <2>3. n + (m + 1) = (P + L) + 1 /\ n + (m + 2) = (P + L) + 2
        BY <1>1
    <2> DEFINE end == P + L
    <2>4. end \in Nat /\ data[end + 1] = CR /\ data[end + 2] = LF
        BY <1>1, <1>2, <2>2, <2>3
    <2> HIDE DEF end
    <2>5. StandsAt(data, end, LineEnd)
        BY <2>4, LineEndStands
    <2> QED
        BY <2>5 DEF end
<1>8. w \in Seq(Octet) /\ Len(w) = P + L
    <2>1. w \in Seq(Octet) /\ Len(w) = Len(pre) + Len(more)
        BY ConcatElements
    <2> QED
        BY <1>5, <2>1 DEF P
<1>9. StandsAt(data, 0, w)
    <2>1. 0 + Len(pre) = P /\ 0 \in Nat
        BY <1>1 DEF P
    <2> QED
        BY <1>6, <2>1, StandsTogether
<1> HIDE DEF w
<1>10. StandsAt(data, 0, w \o LineEnd)
    <2>1. 0 + Len(w) = P + L /\ 0 \in Nat
        BY <1>1, <1>8
    <2> QED
        BY <1>3, <1>7, <1>8, <1>9, <2>1, StandsTogether
<1> QED
    BY <1>10 DEF w

LEMMA SetIs ==
    ASSUME NEW c, Loggable(c), c[1] = SET
    PROVE  /\ c \in Seq(Argument) /\ Len(c) = 3 /\ Utf8(c[2])
           /\ c[2] \in Argument /\ c[3] \in Argument
           /\ c = <<SET, c[2], c[3]>>
           /\ \A v : [c EXCEPT ![3] = v] = <<SET, c[2], v>>
<1>1. /\ c \in Seq(Argument) /\ Len(c) >= 1
      /\ Reads(SET, Len(c)) = Len(c) - 1 /\ Readable(SET, SubSeq(c, 2, Len(c)))
    BY DEF Loggable
<1>2. Len(c) = 3
    <2> DEFINE n == Len(c)
    <2>1. n \in Nat /\ Reads(SET, n) = n - 1
        BY <1>1
    <2> HIDE DEF n
    <2>2. Reads(SET, n) = 2
        BY Demands
    <2>3. 2 = n - 1
        BY <2>1, <2>2
    <2>4. n = 3
        BY <2>1, <2>3
    <2> QED
        BY <2>4 DEF n
<1>3. c[2] \in Argument /\ c[3] \in Argument
    <2>1. 2 \in 1 .. Len(c) /\ 3 \in 1 .. Len(c)
        BY <1>2
    <2> QED
        BY <1>1, <2>1
<1>4. Utf8(c[2])
    <2> DEFINE others == SubSeq(c, 2, Len(c))
    <2>1. /\ others \in Seq(Argument) /\ Len(others) = Len(c) - 1
          /\ \A i \in 1 .. Len(c) - 1 : others[i] = c[i + 1]
        BY <1>1, OthersElements
    <2>2. Readable(SET, others)
        BY <1>1
    <2> HIDE DEF others
    <2>3. Len(others) = 2 /\ 1 \in 1 .. Len(c) - 1 /\ 1 + 1 = 2
        BY <1>2, <2>1
    <2>4. others[1] = c[2] /\ others # <<>>
        BY <2>1, <2>3
    <2> QED
        BY <2>2, <2>4 DEF Readable
<1>5. c = <<SET, c[2], c[3]>>
    <2> DEFINE d == <<SET, c[2], c[3]>>
    <2>1. SET \in Argument
        BY Names
    <2>2. /\ d \in Seq(Argument) /\ Len(d) = 3
          /\ d[1] = SET /\ d[2] = c[2] /\ d[3] = c[3]
        BY <1>3, <2>1
    <2> HIDE DEF d
    <2>3. ASSUME NEW i \in 1 .. 3 PROVE c[i] = d[i]
        <3>1. i = 1 \/ i = 2 \/ i = 3
            BY <2>3
        <3> QED
            BY <2>2, <3>1
    <2>4. c = d
        BY <1>1, <1>2, <2>2, <2>3, SeqEqual
    <2> QED
        BY <2>4 DEF d
<1>6. ASSUME NEW v PROVE [c EXCEPT ![3] = v] = <<SET, c[2], v>>
    <2> DEFINE x == c[2]
               y == c[3]
    <2>1. c = <<SET, x, y>>
        BY <1>5
    <2> HIDE DEF x, y
    <2>2. [<<SET, x, y>> EXCEPT ![3] = v] = <<SET, x, v>>
        OBVIOUS
    <2> QED
        BY <2>1, <2>2 DEF x
<1> QED
    BY <1>1, <1>2, <1>3, <1>4, <1>5, <1>6

\* behind the first byte of a command none begins, up to its end
LEMMA PlainPassed ==
    ASSUME NEW d \in Seq(Argument), Plain(d), NEW data \in Seq(Octet), NEW n \in Nat,
           n + Len(ToResp(d)) <= Len(data), StandsAt(data, n, ToResp(d)),
           NEW m \in 1 .. Len(ToResp(d)), NEW read, Reached(data, (n + m) + 1, read)
    PROVE  Reached(data, (n + Len(ToResp(d))) + 1, read)
<1> DEFINE D == ToResp(d)
           a == n + m
           b == n + Len(D)
<1>1. Len(D) \in Nat
    BY CommandType
<1>2. \A j \in 2 .. Len(D) : D[j] # STAR
    BY StarFirst
<1>3. m \in 1 .. Len(D) /\ b <= Len(data)
    OBVIOUS
<1>4. StandsAt(data, n, D)
    OBVIOUS
<1> HIDE DEF D
<1>5. a \in Nat /\ b \in Nat /\ a <= b
    BY <1>1, <1>3
<1>6. ASSUME NEW p \in a + 1 .. b PROVE ~ ParseCommand(data, p).ok
    <2>1. p - n \in 2 .. Len(D) /\ p - n \in 1 .. Len(D) /\ n + (p - n) = p
        BY <1>1, <1>3
    <2>2. data[p] # STAR
        BY <1>2, <1>4, <2>1 DEF StandsAt
    <2> QED
        BY <2>2, NoCommand
<1>7. Reached(data, a + 1, read)
    OBVIOUS
<1> HIDE DEF a, b
<1>8. Reached(data, b + 1, read)
    BY <1>3, <1>5, <1>6, <1>7, ReachedPast
<1> QED
    BY <1>8 DEF b, D

LEMMA ValueEats ==
    ASSUME NEW c, Loggable(c), NEW d, Loggable(d), Plain(d), NEW e, Loggable(e),
           NEW n \in 1 .. Len(ToResp(c)) - 1
    PROVE  ValueEatsNext(c, n, d, e)
<1> DEFINE text == ToResp(c)
           end == DataEnd(c, 3)
           head == SubSeq(text, 1, n)
           D == ToResp(d)
           E == ToResp(e)
           data == head \o D \o E
           more == SubSeq(head, end - Len(c[3]) + 1, n) \o SubSeq(D, 1, end - n)
           k == c[2]
           v == c[3]
           fed == <<SET, k, more>>
<1> SUFFICES ASSUME c[1] = SET, Completes(c, 3, n, D)
             PROVE  Replayed(data) = <<fed, e>>
    <2>1. c[1] = SET => [c EXCEPT ![3] = more] = fed
        BY SetIs
    <2> QED
        BY <2>1 DEF ValueEatsNext
<1>1. /\ c \in Seq(Argument) /\ d \in Seq(Argument) /\ e \in Seq(Argument)
      /\ Len(c) = 3 /\ Utf8(k) /\ k \in Argument /\ v \in Argument /\ c = <<SET, k, v>>
    BY SetIs DEF Loggable
<1>2. /\ text \in Seq(Octet) /\ Len(text) \in Nat
      /\ D \in Seq(Octet) /\ Len(D) \in Nat /\ Len(D) >= 4
      /\ E \in Seq(Octet) /\ Len(E) \in Nat
    BY <1>1, CommandType
<1>3. end = Len(text) - 2
    <2>1. Len(c) >= 1 => DataEnd(c, Len(c)) = Len(ToResp(c)) - 2
        BY <1>1, DataEndType
    <2> QED
        BY <1>1, <2>1
<1> DEFINE pre == SetHead(k, Len(v))
           P == Len(pre)
           L == Len(v)
           m == end - n
<1>4. pre \in Seq(Octet) /\ text = (pre \o v) \o LineEnd
    BY <1>1, SetText
<1>5. v \in Seq(Octet) /\ L \in Nat /\ L < IntLimit /\ P \in Nat
    BY <1>1, <1>4 DEF Argument
<1>6. Len(text) = P + L + 2
    <2> DEFINE w == pre \o v
    <2>1. w \in Seq(Octet) /\ Len(w) = P + L
        BY <1>4, <1>5, ConcatElements
    <2>2. LineEnd \in Seq(Octet) /\ Len(LineEnd) = 2
        BY SmallBytes
    <2> HIDE DEF w
    <2>3. Len(w \o LineEnd) = Len(w) + Len(LineEnd)
        BY <2>1, <2>2, ConcatElements
    <2> QED
        BY <1>4, <2>1, <2>2, <2>3 DEF w
<1>7. end - Len(c[3]) <= n /\ n < end /\ EndsLine(D, end - n + 1)
    BY DEF Completes
<1>8. /\ n \in Nat /\ m \in Nat /\ m >= 1 /\ P <= n /\ n + m = P + L /\ end - Len(c[3]) = P
      /\ end - n = m
    <2> HIDE DEF end, P, L, text
    <2>1. end = P + L
        BY <1>3, <1>5, <1>6
    <2>2. n \in Nat /\ n >= 1
        BY <1>2
    <2>3. end - L <= n /\ n < end
        BY <1>7 DEF L
    <2>4. m \in Nat /\ m >= 1 /\ P <= n /\ n + m = P + L /\ end - L = P
        BY <1>5, <2>1, <2>2, <2>3
    <2> QED
        BY <2>2, <2>4 DEF L
<1>9. EndsLine(D, m + 1)
    BY <1>7
<1> HIDE DEF P, L, m, end, fed
<1>10. m + 2 <= Len(D)
    <2>1. (m + 1) + 1 <= Len(D)
        BY <1>9 DEF EndsLine
    <2> QED
        BY <1>2, <1>8, <2>1
<1>11. /\ head \in Seq(Octet) /\ Len(head) = n /\ BeginsAt(head, 0, text, n)
    <2>1. n \in 1 .. Len(text) - 1
        OBVIOUS
    <2> HIDE DEF text
    <2> QED
        BY <1>2, <2>1, HeadOf
<1>12. /\ data \in Seq(Octet) /\ Len(data) = n + Len(D) + Len(E)
       /\ StandsAt(data, 0, head) /\ StandsAt(data, n, D) /\ StandsAt(data, n + Len(D), E)
    <2> HIDE DEF data, text, D, E
    <2>1. head = SubSeq(ToResp(c), 1, n) /\ data = (head \o ToResp(d)) \o ToResp(e)
        BY DEF data, text, D, E
    <2> HIDE DEF head
    <2>2. data \in Seq(Octet)
        BY <1>1, <2>1, BehindHead
    <2>3. Len(data) = n + Len(ToResp(d)) + Len(ToResp(e))
        BY <1>1, <2>1, BehindHead
    <2>4. /\ StandsAt(data, 0, head)
          /\ StandsAt(data, n, ToResp(d)) /\ StandsAt(data, n + Len(ToResp(d)), ToResp(e))
        BY <1>1, <2>1, BehindHead
    <2> QED
        BY <2>2, <2>3, <2>4 DEF D, E
<1>13. more = SubSeq(head, P + 1, Len(head)) \o SubSeq(D, 1, m)
    BY <1>8, <1>11
<1> HIDE DEF text, head, D, E, data, more, pre, v
<1>14. /\ more \in Seq(Octet) /\ Len(more) = L
       /\ StandsAt(data, 0, (pre \o more) \o LineEnd)
    <2>1. /\ head \in Seq(Octet) /\ D \in Seq(Octet) /\ m \in Nat /\ m <= Len(D)
          /\ StandsAt(data, 0, head) /\ StandsAt(data, Len(head), D) /\ EndsLine(D, m + 1)
          /\ P \in Nat /\ P <= Len(head)
        BY <1>2, <1>5, <1>8, <1>9, <1>10, <1>11, <1>12
    <2>2. /\ SubSeq(head, P + 1, Len(head)) \o SubSeq(D, 1, m) \in Seq(Octet)
          /\ Len(SubSeq(head, P + 1, Len(head)) \o SubSeq(D, 1, m)) = (Len(head) - P) + m
          /\ StandsAt(data, P, SubSeq(head, P + 1, Len(head)) \o SubSeq(D, 1, m))
        BY <2>1, SlicesStand, Zenon
    <2>3. more \in Seq(Octet) /\ Len(more) = (n - P) + m /\ StandsAt(data, P, more)
        BY <1>11, <1>13, <2>2
    <2>4. Len(more) = L
        BY <1>5, <1>8, <2>3
    <2>5. /\ pre \in Seq(Octet) /\ v \in Seq(Octet) /\ Len(pre) <= Len(head)
          /\ StandsAt(data, Len(pre), more) /\ Len(more) = Len(v)
          /\ BeginsAt(head, 0, (pre \o v) \o LineEnd, Len(head))
          /\ Len(head) + m = Len(pre) + Len(v)
        BY <1>4, <1>5, <1>8, <1>11, <2>1, <2>3, <2>4 DEF P, L
    <2>6. StandsAt(data, 0, (pre \o more) \o LineEnd)
        BY <2>1, <2>3, <2>5, ValueGoesOn, Zenon
    <2> QED
        BY <2>3, <2>4, <2>6
<1>15. more \in Argument
    BY <1>5, <1>14 DEF Argument
<1>16. Loggable(fed)
    <2>1. Loggable(<<SET, k, more>>)
        BY <1>1, <1>15, SetLoggable
    <2> QED
        BY <2>1 DEF fed
<1>17. ToResp(fed) = (pre \o more) \o LineEnd
    <2>1. ToResp(<<SET, k, more>>) = (SetHead(k, Len(more)) \o more) \o LineEnd
        BY <1>1, <1>15, SetText
    <2>2. SetHead(k, Len(more)) = pre
        BY <1>14 DEF pre, L
    <2> QED
        BY <2>1, <2>2 DEF fed
<1>18. Len(ToResp(fed)) = n + (m + 2)
    <2> DEFINE w == pre \o more
    <2>1. w \in Seq(Octet) /\ Len(w) = Len(pre) + Len(more)
        BY <1>4, <1>14, ConcatElements
    <2>2. LineEnd \in Seq(Octet) /\ Len(LineEnd) = 2
        BY SmallBytes
    <2> HIDE DEF w
    <2>3. Len(w \o LineEnd) = Len(w) + Len(LineEnd)
        BY <2>1, <2>2, ConcatElements
    <2>4. Len(ToResp(fed)) = (P + L) + 2
        BY <1>14, <1>17, <2>1, <2>2, <2>3 DEF w, P
    <2> QED
        BY <1>5, <1>8, <2>4
<1>19. Reached(data, (n + (m + 2)) + 1, Append(<<>>, fed))
    <2>1. 0 + Len(ToResp(fed)) = n + (m + 2) /\ 0 \in Nat
        BY <1>8, <1>18
    <2>2. 0 + Len(ToResp(fed)) <= Len(data)
        BY <1>2, <1>8, <1>10, <1>12, <1>18
    <2>3. StandsAt(data, 0, ToResp(fed))
        BY <1>14, <1>17
    <2>4. Reached(data, 0 + 1, <<>>)
        BY ReachedFirst
    <2>5. Reached(data, (0 + Len(ToResp(fed))) + 1, Append(<<>>, fed))
        BY <1>12, <1>16, <2>1, <2>2, <2>3, <2>4, ReachedCommand
    <2> QED
        BY <2>1, <2>5
<1>20. Reached(data, (n + Len(D)) + 1, Append(<<>>, fed))
    <2>1. m + 2 \in 1 .. Len(D) /\ n + Len(D) <= Len(data)
        BY <1>2, <1>8, <1>10, <1>12
    <2> QED
        BY <1>1, <1>8, <1>12, <1>19, <2>1, PlainPassed DEF D
<1>21. Reached(data, ((n + Len(D)) + Len(E)) + 1, Append(Append(<<>>, fed), e))
    <2> DEFINE a == n + Len(D)
    <2>1. a \in Nat /\ a + Len(E) <= Len(data)
        BY <1>2, <1>8, <1>12
    <2> HIDE DEF a
    <2>2. StandsAt(data, a, E) /\ Reached(data, a + 1, Append(<<>>, fed))
        BY <1>12, <1>20 DEF a
    <2>3. Reached(data, (a + Len(E)) + 1, Append(Append(<<>>, fed), e))
        BY <1>12, <2>1, <2>2, ReachedCommand DEF E
    <2> QED
        BY <2>3 DEF a
<1>22. ((n + Len(D)) + Len(E)) + 1 = Len(data) + 1
    BY <1>2, <1>8, <1>12
<1>23. Append(Append(<<>>, fed), e) = <<fed, e>>
    <2>1. fed \in Seq(Argument)
        BY <1>16 DEF Loggable
    <2> QED
        BY <1>1, <2>1, TwoAppended
<1> QED
    BY <1>12, <1>21, <1>22, <1>23, ReachedEnd

-----------------------------------------------------------------------------
(*****************************************************************************)
(* What is queued, batched and written is what the gateway sent.             *)
(*****************************************************************************)
Line == {e \in Entry : e.rec \in Record}

OnlyRecords == chan \in Seq(Record) /\ batch \in Seq(Record) /\ file \in Seq(Line)

LEMMA PayloadLines ==
    ASSUME OnlyRecords
    PROVE  Payload \in Seq(Line) /\ Len(Payload) = Len(batch)
<1>1. Len(batch) \in Nat /\ \A i \in 1 .. Len(batch) : batch[i] \in Record
    BY DEF OnlyRecords
<1>2. \A i \in 1 .. Len(batch) : Whole(batch[i]) \in Line
    BY <1>1, PersistenceAssumption, WholeType DEF Line
<1> QED
    BY <1>1, <1>2 DEF Payload

LEMMA CutLines ==
    ASSUME NEW r \in Record, NEW e \in Cut(r)
    PROVE  e \in Line
<1>1. e.rec = r
    BY DEF Cut, Torn
<1>2. e \in Entry
    BY PersistenceAssumption, CutType
<1> QED
    BY <1>1, <1>2 DEF Line

LEMMA SurvivorLines ==
    ASSUME OnlyRecords, synced \in Nat, NEW s \in Survivors
    PROVE  s \in Seq(Line)
<1>1. CASE \E n \in synced .. Len(file) : s = SubSeq(file, 1, n)
    BY <1>1 DEF OnlyRecords
<1>2. CASE \E n \in synced .. Len(file) - 1 :
              \E e \in Cut(file[n + 1].rec) : s = Append(SubSeq(file, 1, n), e)
    <2>1. PICK n \in synced .. Len(file) - 1 :
              \E e \in Cut(file[n + 1].rec) : s = Append(SubSeq(file, 1, n), e)
        BY <1>2
    <2>2. file[n + 1].rec \in Record
        <3>1. n + 1 \in 1 .. Len(file) /\ file \in Seq(Line)
            BY DEF OnlyRecords
        <3>2. file[n + 1] \in Line
            BY <3>1
        <3> QED
            BY <3>2 DEF Line
    <2>3. PICK e \in Line : s = Append(SubSeq(file, 1, n), e)
        BY <2>1, <2>2, CutLines
    <2>4. SubSeq(file, 1, n) \in Seq(Line)
        BY DEF OnlyRecords
    <2> QED
        BY <2>3, <2>4
<1> QED
    BY <1>1, <1>2 DEF Survivors

LEMMA OnlyRecordsStep ==
    ASSUME OnlyRecords, synced \in Nat, [PersistenceNext]_persistenceVars
    PROVE  OnlyRecords'
<1>1. CASE Enqueue
    BY <1>1 DEF Enqueue, OnlyRecords
<1>2. CASE Drain
    BY <1>2 DEF Drain, OnlyRecords
<1>3. CASE WriteAll
    <2>1. file' \in Seq(Line)
        BY <1>3, PayloadLines DEF WriteAll, OnlyRecords
    <2> QED
        BY <1>3, <2>1 DEF WriteAll, OnlyRecords
<1>4. CASE WriteFails
    <2>1. PICK n \in 0 .. Len(batch) - 1 :
              \E part \in {<<>>} \cup {<<e>> : e \in Cut(batch[n + 1])} :
                  file' = file \o SubSeq(Payload, 1, n) \o part
        BY <1>4 DEF WriteFails
    <2>2. batch[n + 1] \in Record
        BY <2>1 DEF OnlyRecords
    <2>3. PICK part \in {<<>>} \cup {<<e>> : e \in Cut(batch[n + 1])} :
              file' = file \o SubSeq(Payload, 1, n) \o part
        BY <2>1
    <2>4. part \in Seq(Line)
        <3>1. CASE part = <<>>
            BY <3>1
        <3>2. ASSUME NEW e \in Cut(batch[n + 1]), part = <<e>>
              PROVE  part \in Seq(Line)
            BY <3>2, <2>2, CutLines
        <3> QED
            BY <3>1, <3>2
    <2>5. SubSeq(Payload, 1, n) \in Seq(Line)
        <3>1. n \in 0 .. Len(Payload)
            BY <2>1, PayloadLines DEF OnlyRecords
        <3> QED
            BY <3>1, PayloadLines
    <2>6. file' \in Seq(Line)
        BY <2>3, <2>4, <2>5 DEF OnlyRecords
    <2> QED
        BY <1>4, <2>6 DEF WriteFails, OnlyRecords
<1>5. CASE SyncOk
    BY <1>5 DEF SyncOk, OnlyRecords
<1>6. CASE Crash
    <2>1. file' \in Seq(Line)
        BY <1>6, SurvivorLines DEF Crash
    <2> QED
        BY <1>6, <2>1 DEF Crash, OnlyRecords
<1>7. CASE OpenFile \/ Drained \/ Commit \/ Wait \/ SyncFails \/ UNCHANGED persistenceVars
    BY <1>7 DEF OpenFile, Drained, Commit, Wait, SyncFails, persistenceVars, OnlyRecords
<1> QED
    BY <1>1, <1>2, <1>3, <1>4, <1>5, <1>6, <1>7 DEF PersistenceNext, ThreadNext

(*****************************************************************************)
(* What the thread wrote the replay reads, record by record, whatever bytes  *)
(* the values hold: every length in front of an argument is read as it was   *)
(* written, and so no byte of a value is taken for the beginning of a        *)
(* command (persistence_neural.rs:16-73, resp.rs:158-184, main.rs:188-239).  *)
(*****************************************************************************)
THEOREM WholeRecordsCorrect == PersistenceSpec => []WholeRecordsReadBack
<1>1. PersistenceInit => OnlyRecords
    BY DEF PersistenceInit, OnlyRecords
<1>2. OnlyRecords /\ PersistenceTypeOK /\ [PersistenceNext]_persistenceVars => OnlyRecords'
    BY OnlyRecordsStep DEF PersistenceTypeOK
<1>3. OnlyRecords => WholeRecordsReadBack
    <2> SUFFICES ASSUME OnlyRecords, NEW i \in 1 .. Len(file) - 1
                 PROVE  Neighbours[file[i].rec][file[i + 1].rec]
        BY DEF WholeRecordsReadBack
    <2>1. file[i] \in Line /\ file[i + 1] \in Line
        <3>1. i \in 1 .. Len(file) /\ i + 1 \in 1 .. Len(file) /\ file \in Seq(Line)
            BY DEF OnlyRecords
        <3> QED
            BY <3>1
    <2> DEFINE r == file[i].rec
               q == file[i + 1].rec
    <2>2. r \in Record /\ q \in Record
        BY <2>1 DEF Line
    <2> HIDE DEF r, q
    <2>3. \A s \in Spelling : ReadsBack(Args(s, r), Args(s, q))
        BY <2>2, RecordLoggable, PairReadsBack
    <2>4. Neighbours[r][q] = \A s \in Spelling : ReadsBack(Args(s, r), Args(s, q))
        BY <2>2 DEF Neighbours
    <2>5. Neighbours[r][q]
        BY <2>3, <2>4
    <2> QED
        BY <2>5 DEF r, q
<1> QED
    BY <1>1, <1>2, <1>3, PersistenceTypeCorrect, PTL DEF PersistenceSpec

(*****************************************************************************)
(* As long as nothing was cut, the replay of the whole file is the log the   *)
(* thread wrote, command by command (main.rs:188-239): what                  *)
(* PersistenceNeural's Replay takes for granted of it.                       *)
(*****************************************************************************)
FileReplays ==
    (\A i \in 1 .. Len(file) : file[i].tag = "whole") =>
        \A s \in Spelling :
            Replayed(Joined([i \in 1 .. Len(file) |-> ToResp(Args(s, file[i].rec))]))
                = [i \in 1 .. Len(file) |-> Args(s, file[i].rec)]

THEOREM WholeFileCorrect == PersistenceSpec => []FileReplays
<1>1. PersistenceInit => OnlyRecords
    BY DEF PersistenceInit, OnlyRecords
<1>2. OnlyRecords /\ PersistenceTypeOK /\ [PersistenceNext]_persistenceVars => OnlyRecords'
    BY OnlyRecordsStep DEF PersistenceTypeOK
<1>3. OnlyRecords => FileReplays
    <2> DEFINE commands(s) == [i \in 1 .. Len(file) |-> Args(s, file[i].rec)]
               texts(s) == [i \in 1 .. Len(file) |-> ToResp(Args(s, file[i].rec))]
    <2> SUFFICES ASSUME OnlyRecords, NEW s \in Spelling
                 PROVE  Replayed(Joined(texts(s))) = commands(s)
        BY DEF FileReplays
    <2>1. Len(file) \in Nat /\ \A i \in 1 .. Len(file) : file[i].rec \in Record
        <3>1. file \in Seq(Line)
            BY DEF OnlyRecords
        <3>2. \A i \in 1 .. Len(file) : file[i] \in Line
            BY <3>1
        <3> QED
            BY <3>1, <3>2 DEF Line
    <2> DEFINE cs == commands(s)
               parts == [i \in 1 .. Len(cs) |-> ToResp(cs[i])]
    <2>2. \A i \in 1 .. Len(file) : /\ Loggable(Args(s, file[i].rec))
                                    /\ Args(s, file[i].rec) \in Seq(Argument)
        BY <2>1, RecordLoggable DEF Loggable
    <2>3. /\ cs \in Seq(Seq(Argument)) /\ Len(cs) = Len(file)
          /\ \A i \in 1 .. Len(file) : cs[i] = Args(s, file[i].rec)
        BY <2>1, <2>2
    <2> HIDE DEF cs
    <2>4. texts(s) = parts
        BY <2>3
    <2>5. Replayed(Joined(parts)) = cs
        BY <2>2, <2>3, FileReadsBack
    <2> QED
        BY <2>4, <2>5 DEF cs
<1> QED
    BY <1>1, <1>2, <1>3, PersistenceTypeCorrect, PTL DEF PersistenceSpec

(*****************************************************************************)
(* Of a record that was cut short before others, where no argument of them   *)
(* holds a "*", the replay finds nothing, and it finds what the thread wrote *)
(* behind it, because no byte but the first of each record begins a command; *)
(* unless the cut lies inside an argument and what follows has a line end    *)
(* where the argument should have had one.  In the value of a SET, such a    *)
(* cut gives it bytes of the next record, which is lost, but none behind it  *)
(* (resp.rs:167-171, main.rs:232-235).                                       *)
(*****************************************************************************)
THEOREM CutRecordsCorrect == PersistenceSpec => []PlainCutsAreSkipped
<1>1. PersistenceInit => OnlyRecords
    BY DEF PersistenceInit, OnlyRecords
<1>2. OnlyRecords /\ PersistenceTypeOK /\ [PersistenceNext]_persistenceVars => OnlyRecords'
    BY OnlyRecordsStep DEF PersistenceTypeOK
<1>3. OnlyRecords => PlainCutsAreSkipped
    <2> SUFFICES ASSUME OnlyRecords, NEW i \in 1 .. Len(file) - 1
                 PROVE  CutBefore[file[i].rec][file[i + 1].rec]
        BY DEF PlainCutsAreSkipped
    <2>1. file[i] \in Line /\ file[i + 1] \in Line
        <3>1. i \in 1 .. Len(file) /\ i + 1 \in 1 .. Len(file) /\ file \in Seq(Line)
            BY DEF OnlyRecords
        <3> QED
            BY <3>1
    <2> DEFINE r == file[i].rec
               q == file[i + 1].rec
    <2>2. r \in Record /\ q \in Record
        BY <2>1 DEF Line
    <2> HIDE DEF r, q
    <2>3. ASSUME NEW s \in Spelling, NEW p \in Record,
                 \A x \in {r, q, p} : Plain(Args(s, x))
          PROVE  TornOrEats(Args(s, r), Args(s, q), Args(s, p))
        <3> DEFINE c == Args(s, r)
                   d == Args(s, q)
                   e == Args(s, p)
        <3>1. Loggable(c) /\ Loggable(d) /\ Loggable(e)
            BY <2>2, RecordLoggable
        <3>2. Plain(c) /\ Plain(d)
            BY <2>3
        <3> HIDE DEF c, d, e
        <3>3. ASSUME NEW n \in 1 .. Len(ToResp(c)) - 1
              PROVE  /\ Replayed(SubSeq(ToResp(c), 1, n)) = <<>>
                     /\ Skips(c, n, d, e) /\ ValueEatsNext(c, n, d, e)
            BY <3>1, <3>2, CutAlone, CutSkipped, ValueEats
        <3> QED
            BY <3>3 DEF TornOrEats, c, d, e
    <2>4. CutBefore[r][q] = \A s \in Spelling, p \in Record :
              (\A x \in {r, q, p} : Plain(Args(s, x))) =>
                  TornOrEats(Args(s, r), Args(s, q), Args(s, p))
        BY <2>2 DEF CutBefore
    <2>5. CutBefore[r][q]
        BY <2>3, <2>4
    <2> QED
        BY <2>5 DEF r, q
<1> QED
    BY <1>1, <1>2, <1>3, PersistenceTypeCorrect, PTL DEF PersistenceSpec
=============================================================================
