------------------------ MODULE PersistenceNeural ------------------------
(*****************************************************************************)
(* The persistence thread (run_persistence_worker,                           *)
(* src/omega/src/persistence_neural.rs:195-338) and the append-only file it  *)
(* writes.  The thread drains the channel into a batch, asks a small neural  *)
(* network whether to commit or to wait, and to commit writes the whole      *)
(* batch and fsyncs; when either fails it writes the WHOLE batch again.      *)
(*                                                                           *)
(* Of the network only its output is kept, and how learning moves it (see    *)
(* Odds).  The file is a sequence of entries, each a whole record or the     *)
(* head of one that a failed write or a crash cut short, with what a replay  *)
(* makes of it (see Cut).  The clients of the channel are the action         *)
(* Enqueue; Gateway takes its place in OmegaDrive.                           *)
(*****************************************************************************)
EXTENDS Keyspace, SequencesExt

CONSTANTS Record,     \* the records the gateway may send
          Misreads,   \* cut records that a replay misreads: see Cut
          Load,       \* what the network may see of the queue and of the clock
          Unit, Odds, \* its answer: see Odds below
          TopDrive, StartDrive,
          Grain,      \* the smallest correction that is not rounded away
          WriteTimes, \* how long a write and its fsync may take
          MaxSent,    \* bound: records sent between two starts
          MaxFaults,  \* bound: failed writes and fsyncs
          MaxCrashes  \* bound: crashes

(*****************************************************************************)
(* An entry of the file: a record, or a record cut short.  A replay either   *)
(* finds nothing in a cut record, and behind it what was written there       *)
(* ("torn"), or it misreads it: see Cut.                                     *)
(*****************************************************************************)
Whole(r) == [tag |-> "whole", rec |-> r]
Torn(r)  == [tag |-> "torn", rec |-> r]

Misread == [tag : {"misread"}, rec : PersistenceCommand,
            alone : Seq(PersistenceCommand), joined : Seq(PersistenceCommand), eats : Nat]

Entry == [tag : {"whole", "torn"}, rec : PersistenceCommand] \cup Misread

ASSUME PersistenceAssumption ==
    /\ Record \subseteq PersistenceCommand
    /\ Misreads \subseteq Misread
    /\ MaxSent \in Nat /\ MaxFaults \in Nat /\ MaxCrashes \in Nat

(*****************************************************************************)
(* The network (NeuralPersistenceAgent) draws a number and commits if it is  *)
(* below a sigmoid of its weights, here `drive`, and of the state it is      *)
(* shown: queue lengths, times of earlier writes, all of them at least 0.    *)
(* Odds[drive][load] is that sigmoid in parts of Unit, 0 where it is below   *)
(* every number it can draw.  Each step of learning moves the sum under the  *)
(* sigmoid the same way for every such state, so that a larger drive never   *)
(* has smaller odds; b2 alone can bring it below any bound for all of them.  *)
(*****************************************************************************)
ASSUME PolicyAssumption ==
    /\ Unit \in Nat \ {0} /\ Grain \in Nat \ {0}
    /\ TopDrive \in Nat /\ StartDrive \in 0 .. TopDrive
    /\ Odds \in [0 .. TopDrive -> [Load -> 0 .. Unit]]
    /\ \A l \in Load :
          /\ Odds[0][l] = 0 /\ Odds[StartDrive][l] > 0
          /\ \A d, e \in 0 .. TopDrive : d <= e => Odds[d][l] <= Odds[e][l]
    /\ WriteTimes \subseteq Nat

VARIABLES
    chan,      \* the channel
    batch,     \* batch_buffer
    npc,       \* where the thread is in its loop
    drive,     \* the network's inclination to commit
    prob,      \* its odds in this turn of the loop, 0 between two turns
    file,      \* the append-only file, as the operating system holds it
    synced,    \* how many entries of it the last fsync covered
    sent,      \* history: every record sent since the last start
    committed, \* history: how many of them were cleared from the batch
    boot,      \* history: the length of the file at the last start
    faults, crashes

persistenceVars ==
    <<chan, batch, npc, drive, prob, file, synced, sent, committed, boot, faults, crashes>>

(*****************************************************************************)
(* What a write that is cut short may leave of a record.  The replay looks   *)
(* for a command at every "*" (main.rs:188-238).  At the "*" of the record   *)
(* itself it finds none, unless the records behind it supply the line end    *)
(* of the argument that was cut: then these `eats` records are taken for     *)
(* part of it and lost (LogBytes says where the cut must lie).  And if the   *)
(* part that is left of a key or a value holds commands, it executes them.   *)
(* Hence a misread: `joined` is what is executed at its place, and until     *)
(* the records it eats are there, `alone`.                                   *)
(*****************************************************************************)
Cut(r) == {Torn(r)} \cup {e \in Misreads : e.rec = r}

PersistenceTypeOK ==
    /\ chan \in Seq(PersistenceCommand)
    /\ batch \in Seq(PersistenceCommand)
    /\ npc \in {"open", "poll", "decide", "write", "sync"}
    /\ drive \in 0 .. TopDrive
    /\ prob \in 0 .. Unit
    /\ file \in Seq(Entry)
    /\ synced \in Nat
    /\ sent \in Seq(PersistenceCommand)
    /\ committed \in Nat
    /\ boot \in Nat
    /\ faults \in Nat
    /\ crashes \in Nat

PersistenceInit ==
    /\ chan = <<>>
    /\ batch = <<>>
    /\ npc = "open"
    /\ drive = StartDrive
    /\ prob = 0
    /\ file = <<>>
    /\ synced = 0
    /\ sent = <<>>
    /\ committed = 0
    /\ boot = 0
    /\ faults = 0
    /\ crashes = 0

(*****************************************************************************)
(* tx.send of a worker thread.                                               *)
(*****************************************************************************)
Enqueue ==
    /\ Len(sent) < MaxSent
    /\ \E r \in Record : chan' = Append(chan, r) /\ sent' = Append(sent, r)
    /\ UNCHANGED <<drive, prob, batch, npc, file, synced, committed, boot, faults, crashes>>

\* mutant of OpenFile: the file is created anew instead of opened for appending
OpenFileTruncating ==
    /\ npc = "open"
    /\ npc' = "poll"
    /\ file' = <<>>
    /\ UNCHANGED <<drive, prob, chan, batch, synced, sent, committed, boot, faults, crashes>>

(*****************************************************************************)
(* The file is opened for appending, once a second until it succeeds.        *)
(*****************************************************************************)
OpenFile ==
    /\ npc = "open"
    /\ npc' = "poll"
    /\ UNCHANGED <<drive, prob, chan, batch, file, synced, sent, committed, boot, faults, crashes>>

\* mutant of Drain: what arrived last is written first
DrainReversed ==
    /\ npc = "poll"
    /\ chan # <<>>
    /\ batch' = <<Head(chan)>> \o batch
    /\ chan' = Tail(chan)
    /\ UNCHANGED <<drive, prob, npc, file, synced, sent, committed, boot, faults, crashes>>

(*****************************************************************************)
(* try_recv until the channel is empty; with nothing to write, sleep.        *)
(*****************************************************************************)
Drain ==
    /\ npc = "poll"
    /\ chan # <<>>
    /\ batch' = Append(batch, Head(chan))
    /\ chan' = Tail(chan)
    /\ UNCHANGED <<drive, prob, npc, file, synced, sent, committed, boot, faults, crashes>>

\* mutant of Drained: a single record waits for a second one
DrainedWhenTwo ==
    /\ npc = "poll"
    /\ chan = <<>>
    /\ \/ Len(batch) < 2 /\ UNCHANGED <<npc, prob>>
       \/ Len(batch) >= 2 /\ npc' = "decide" /\ \E l \in Load : prob' = Odds[drive][l]
    /\ UNCHANGED <<drive, chan, batch, file, synced, sent, committed, boot, faults, crashes>>

(*****************************************************************************)
(* With something to write, the network is shown the queue and the clock.    *)
(*****************************************************************************)
Drained ==
    /\ npc = "poll"
    /\ chan = <<>>
    /\ \/ batch = <<>> /\ UNCHANGED <<npc, prob>>
       \/ batch # <<>> /\ npc' = "decide" /\ \E l \in Load : prob' = Odds[drive][l]
    /\ UNCHANGED <<drive, chan, batch, file, synced, sent, committed, boot, faults, crashes>>

(*****************************************************************************)
(* select_action.  A wait is followed by update_weights with a reward of     *)
(* -0.05 per record that waits: the factor (0 - prob) makes it a gain, in    *)
(* proportion to the odds of this turn, and f32 rounds it.                   *)
(*****************************************************************************)
Commit ==
    /\ npc = "decide"
    /\ prob > 0
    /\ npc' = "write"
    /\ UNCHANGED <<drive, prob, chan, batch, file, synced, sent, committed, boot, faults, crashes>>

AfterWait(d, p, q) ==
    LET gain == (p * q) \div Grain
    IN  IF d + gain > TopDrive THEN TopDrive ELSE d + gain

Wait ==
    /\ npc = "decide"
    /\ npc' = "poll"
    /\ drive' = AfterWait(drive, prob, Len(batch))
    /\ prob' = 0
    /\ UNCHANGED <<chan, batch, file, synced, sent, committed, boot, faults, crashes>>

(*****************************************************************************)
(* write_all of the payload: all of it, or an error after a part of it.      *)
(*****************************************************************************)
Payload == [i \in 1 .. Len(batch) |-> Whole(batch[i])]

\* mutant of WriteAll: the payload is written by write_all and again by a flush
WriteAllTwice ==
    /\ npc = "write"
    /\ file' = file \o Payload \o Payload
    /\ npc' = "sync"
    /\ UNCHANGED <<drive, prob, chan, batch, synced, sent, committed, boot, faults, crashes>>

\* mutant of WriteAll: the commands are written without being serialized
WriteAllRaw ==
    /\ npc = "write"
    /\ file' = file \o batch
    /\ npc' = "sync"
    /\ UNCHANGED <<drive, prob, chan, batch, synced, sent, committed, boot, faults, crashes>>

WriteAll ==
    /\ npc = "write"
    /\ file' = file \o Payload
    /\ npc' = "sync"
    /\ UNCHANGED <<drive, prob, chan, batch, synced, sent, committed, boot, faults, crashes>>

WriteFails ==
    /\ npc = "write"
    /\ faults < MaxFaults
    /\ faults' = faults + 1
    /\ \E n \in 0 .. Len(batch) - 1 :
          \E part \in {<<>>} \cup {<<e>> : e \in Cut(batch[n + 1])} :
              file' = file \o SubSeq(Payload, 1, n) \o part
    /\ UNCHANGED <<drive, prob, chan, batch, npc, synced, sent, committed, boot, crashes>>

(*****************************************************************************)
(* sync_all: on success the network learns, with a reward of -0.1 per record *)
(* and -0.05 per millisecond that makes it less inclined to commit again,    *)
(* and the batch is cleared; on an error the payload is written once more.   *)
(*****************************************************************************)
AfterCommit(d, p, q, ms) ==
    LET loss == ((Unit - p) * (2 * q + ms)) \div Grain
    IN  IF loss > d THEN 0 ELSE d - loss

SyncOk ==
    /\ npc = "sync"
    /\ synced' = Len(file)
    /\ committed' = committed + Len(batch)
    /\ batch' = <<>>
    /\ npc' = "poll"
    /\ \E ms \in WriteTimes : drive' = AfterCommit(drive, prob, Len(batch), ms)
    /\ prob' = 0
    /\ UNCHANGED <<chan, file, sent, boot, faults, crashes>>

\* mutant of SyncFails: the error is logged and the batch dropped
SyncFailsDropping ==
    /\ npc = "sync"
    /\ faults < MaxFaults
    /\ faults' = faults + 1
    /\ npc' = "poll"
    /\ batch' = <<>>
    /\ UNCHANGED <<drive, prob, chan, file, synced, sent, committed, boot, crashes>>

\* mutant of SyncFails: the result of sync_all is ignored
SyncFailsIgnored ==
    /\ npc = "sync"
    /\ faults < MaxFaults
    /\ faults' = faults + 1
    /\ npc' = "poll"
    /\ committed' = committed + Len(batch)
    /\ batch' = <<>>
    /\ UNCHANGED <<drive, prob, chan, file, synced, sent, boot, crashes>>

SyncFails ==
    /\ npc = "sync"
    /\ faults < MaxFaults
    /\ faults' = faults + 1
    /\ npc' = "write"
    /\ UNCHANGED <<drive, prob, chan, batch, file, synced, sent, committed, boot, crashes>>

(*****************************************************************************)
(* The process dies, or the machine: of what no fsync covered, the file      *)
(* keeps a prefix, perhaps with a last record cut short.  The process starts *)
(* again and replays the file.                                               *)
(*****************************************************************************)
Survivors ==
    {SubSeq(file, 1, n) : n \in synced .. Len(file)}
    \cup UNION {{Append(SubSeq(file, 1, n), e) : e \in Cut(file[n + 1].rec)}
                  : n \in synced .. Len(file) - 1}

Crash ==
    /\ crashes < MaxCrashes
    /\ crashes' = crashes + 1
    /\ file' \in Survivors
    /\ chan' = <<>>
    /\ batch' = <<>>
    /\ npc' = "open"
    /\ drive' = StartDrive
    /\ prob' = 0
    /\ sent' = <<>>
    /\ committed' = 0
    /\ boot' = Len(file')
    /\ UNCHANGED <<synced, faults>>

ThreadNext ==
    \/ OpenFile \/ Drain \/ Drained \/ Commit \/ Wait
    \/ WriteAll \/ WriteFails \/ SyncOk \/ SyncFails

PersistenceNext == Enqueue \/ ThreadNext \/ Crash

PersistenceSpec == PersistenceInit /\ [][PersistenceNext]_persistenceVars
-----------------------------------------------------------------------------
(*****************************************************************************)
(* The boot-time replay (main.rs:188-239): entry by entry, `skip` of them    *)
(* being passed over because one before them ate them.                       *)
(*****************************************************************************)
Empty == [kv |-> EmptyKv, vecs |-> EmptyVecs]

Apply(st, r) == [st EXCEPT !.kv = ApplyKv(@, r), !.vecs = ApplyVecs(@, r)]

After(start, recs) ==
    LET st[i \in 0 .. Len(recs)] == IF i = 0 THEN start ELSE Apply(st[i - 1], recs[i])
    IN  st[Len(recs)]

\* at entry e, with `behind` entries behind it
ReplayEntry(at, e, behind) ==
    CASE at.skip > 0 -> [at EXCEPT !.skip = @ - 1]
      [] at.skip = 0 /\ e.tag = "whole" -> [at EXCEPT !.st = Apply(@, e.rec)]
      [] at.skip = 0 /\ e.tag = "torn"  -> at
      [] at.skip = 0 /\ e.tag = "misread" ->
            IF e.eats <= behind THEN [st |-> After(at.st, e.joined), skip |-> e.eats]
                                ELSE [at EXCEPT !.st = After(@, e.alone)]

Replay(entries) ==
    LET at[n \in 0 .. Len(entries)] ==
            IF n = 0 THEN [st |-> Empty, skip |-> 0]
                     ELSE ReplayEntry(at[n - 1], entries[n], Len(entries) - n)
    IN  at[Len(entries)].st

(*****************************************************************************)
(* Of a file in which no cut record is misread, a replay makes what was      *)
(* written.  What the properties below say of a replay they say of such      *)
(* files: behind a misread, commands that nobody sent have been executed, or *)
(* records that were committed have been lost.                               *)
(*****************************************************************************)
CutsRecognised(entries) == \A i \in 1 .. Len(entries) : entries[i].tag # "misread"

(*****************************************************************************)
(* What the log asks for: the state found at the last start, then the first  *)
(* n records sent since.                                                     *)
(*****************************************************************************)
AtBoot    == Replay(SubSeq(file, 1, boot))
Recovered == Replay(file)
Asked(n)  == After(AtBoot, SubSeq(sent, 1, n))

AskedSinceCommit == {Asked(n).kv : n \in committed .. Len(sent)}

(*****************************************************************************)
(* Between the channel and the file nothing is lost, duplicated or           *)
(* reordered: every record sent is committed, in the batch or in the channel *)
(* (persistence_neural.rs:225-227, 327).                                     *)
(*****************************************************************************)
NothingDropped == sent = SubSeq(sent, 1, committed) \o batch \o chan

(*****************************************************************************)
(* Every committed record is in the part of the file an fsync covered, and   *)
(* in the order it was sent, whatever failed writes left in between          *)
(* (persistence_neural.rs:270-327).                                          *)
(*****************************************************************************)
Embeds(p) ==
    /\ \A i \in 1 .. committed : file[p[i]] = Whole(sent[i])
    /\ \A i, j \in 1 .. committed : i < j => p[i] < p[j]

CommittedIsDurable ==
    \E p \in [1 .. committed -> boot + 1 .. synced] : Embeds(p)

(*****************************************************************************)
(* Whenever the thread is not in the middle of a commit, a replay of the     *)
(* file, unless it misreads a cut record in it, gives exactly the keyspace   *)
(* the committed records ask for: writing a batch again behind what is left  *)
(* of a first attempt changes nothing (persistence_neural.rs:281-305).       *)
(*****************************************************************************)
InCommit == npc \in {"write", "sync"}

Settled == ~ InCommit /\ CutsRecognised(file)

KeyspaceMatchesCommitted == Settled => Recovered.kv = Asked(committed).kv

(*****************************************************************************)
(* A second copy of a record does change the vectors (main.rs:208-210): a    *)
(* replay gives each key at least the vectors that the committed records     *)
(* add, through all retries and crashes, and no others until a write or an   *)
(* fsync has failed.  Again, unless it misreads a cut record.                *)
(*****************************************************************************)
AtLeast(found, asked) == \A k \in Key : found[k] >= asked[k]

VectorsKept ==
    Settled => LET asked == Asked(committed).vecs
               IN  /\ AtLeast(Recovered.vecs, asked)
                   /\ faults = 0 => Recovered.vecs = asked

(*****************************************************************************)
(* Whenever the process or the machine dies, no string and no hash field     *)
(* comes back older than the last commit left it, and none that was never    *)
(* asked for: each is what some prefix of the log, not shorter than the      *)
(* committed one, gives it, unless the replay misreads a cut record in what  *)
(* is left of the file.  (A crash in a retry may give two keys different     *)
(* prefixes.)  The machine may also take what an earlier process wrote but   *)
(* never synced, and this one replayed: hence boot <= synced.                *)
(*****************************************************************************)
View(kv, k, x) ==
    IF x \in Field THEN IF kv[k].kind = "hash" THEN kv[k].fields[x] ELSE NoVal
                   ELSE IF kv[k].kind = "str"  THEN kv[k].val ELSE NoVal

Deaths ==
    {s \in IF boot <= synced THEN Survivors ELSE {file} : CutsRecognised(s)}

RecoveryIsFresh ==
    LET asked == AskedSinceCommit
    IN  \A s \in Deaths :
            LET found == Replay(s).kv
            IN  \A k \in Key, x \in Field \cup {"string"} :
                    \E kv \in asked : View(found, k, x) = View(kv, k, x)

(*****************************************************************************)
(* As long as the batch has not been written a second time, the recovered    *)
(* keyspace is one the log passed through: after a crash all keys come back  *)
(* as of the same moment (persistence_neural.rs:281, main.rs:188-239),       *)
(* unless the replay misreads a cut record.  A crash in a retry may undo the *)
(* batch for some keys and not for others.                                   *)
(*****************************************************************************)
WrittenOnce ==
    LET batchCopy == SubSeq(file, (IF synced < boot THEN boot ELSE synced) + 1, Len(file))
    IN  IsPrefix(batchCopy, Payload)

RecoveryIsAPrefix ==
    LET asked == AskedSinceCommit
    IN  WrittenOnce => \A s \in Deaths : Replay(s).kv \in asked

(*****************************************************************************)
(* What an fsync covered is never rewritten (the file is opened for          *)
(* appending only), crashes included.                                        *)
(*****************************************************************************)
DurablePrefixKept ==
    [][/\ synced <= synced' /\ synced <= Len(file')
       /\ SubSeq(file', 1, synced) = SubSeq(file, 1, synced)]_persistenceVars

(*****************************************************************************)
(* The thread, its file and its retries implement DurableLog: what is        *)
(* pending is in the batch or the channel, what is settled was committed,    *)
(* and the medium keeps what an fsync covered                                *)
(* (persistence_neural.rs:195-338).                                          *)
(*****************************************************************************)
Log == INSTANCE DurableLog WITH
    Accepted <- PersistenceCommand, Mark <- Whole,
    pending <- batch \o chan,
    settled <- SubSeq(sent, 1, committed),
    kept    <- SubSeq(file, 1, synced)

ImplementsDurableLog == Log!Spec

\* the network cannot draw a commit in this turn
Starved == npc = "decide" => prob = 0
=============================================================================
