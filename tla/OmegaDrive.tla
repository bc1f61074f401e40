----------------------------- MODULE OmegaDrive -----------------------------
(*****************************************************************************)
(* The server started with --hdd (src/omega/src/main.rs:100-339): the worker *)
(* threads of Gateway and the thread of PersistenceNeural, joined by the     *)
(* channel, and what a crash and the boot-time replay do to both.            *)
(*****************************************************************************)
EXTENDS Gateway

CONSTANTS Misreads, MaxFaults, MaxCrashes,
          Load, Unit, Odds, TopDrive, StartDrive, Grain, WriteTimes

VARIABLES batch, npc, drive, prob, file, synced, sent, committed, boot, faults, crashes

\* the gateway enqueues, so the thread's own clients and their bound are not used
P == INSTANCE PersistenceNeural WITH Record <- {}, MaxSent <- 0

\* what the thread asks of its constants
ASSUME SystemAssumption == P!PersistenceAssumption /\ P!PolicyAssumption

threadVars ==
    <<batch, npc, drive, prob, file, synced, sent, committed, boot, faults, crashes>>

workerVars == <<db, vecs, topic, pc, cmd, rest, merged, shard, reply, issued, logKv, lastRec>>

systemVars == <<gatewayVars, threadVars>>

SystemInit == GatewayInit /\ P!PersistenceInit

(*****************************************************************************)
(* A worker takes a step; what it sends is what the channel gained.          *)
(*****************************************************************************)
WorkerStep(w) ==
    /\ Begin(w) \/ Execute(w)
    /\ sent' = sent \o SubSeq(chan', Len(chan) + 1, Len(chan'))
    /\ UNCHANGED <<batch, npc, drive, prob, file, synced, committed, boot, faults, crashes>>

ThreadStep == P!ThreadNext /\ UNCHANGED workerVars

(*****************************************************************************)
(* Everything in memory is lost, the commands under way included; main       *)
(* replays the file before any worker starts (main.rs:178-243, 262).         *)
(*****************************************************************************)
CrashAndReplay ==
    /\ P!Crash
    /\ db' = P!Replay(file').kv
    /\ vecs' = P!Replay(file').vecs
    /\ topic' = [k \in Key |-> NoTopic]
    /\ pc' = [w \in Worker |-> "idle"]
    /\ cmd' = [w \in Worker |-> NoCmd]
    /\ rest' = [w \in Worker |-> <<>>]
    /\ merged' = [w \in Worker |-> NoFields]
    /\ shard' = [w \in Worker |-> 0]
    /\ reply' = [w \in Worker |-> <<>>]
    /\ logKv' = db'
    /\ lastRec' = [w \in Worker |-> [k \in Key |-> NoRec]]
    /\ UNCHANGED issued

SystemNext == (\E w \in Worker : WorkerStep(w)) \/ ThreadStep \/ CrashAndReplay

SystemSpec == SystemInit /\ [][SystemNext]_systemVars

(*****************************************************************************)
(* Every thread that can run runs.  The thread commits in the end when again *)
(* and again its network can: it draws from a generator that passes through  *)
(* every number (persistence_neural.rs:111), while waiting never lowers the  *)
(* odds.  Nobody has to send a command.                                      *)
(*****************************************************************************)
SystemFairness ==
    /\ \A w \in Worker : WF_systemVars(Execute(w) /\ WorkerStep(w))
    /\ WF_systemVars(P!OpenFile /\ ThreadStep)
    /\ WF_systemVars((P!Drain \/ P!Drained) /\ ThreadStep)
    /\ SF_systemVars(P!Commit /\ ThreadStep)
    /\ WF_systemVars(P!WriteAll /\ ThreadStep)
    /\ WF_systemVars(P!SyncOk /\ ThreadStep)

SystemLiveSpec == SystemSpec /\ SystemFairness
-----------------------------------------------------------------------------
Agrees == \A k \in Utf8Key : Content(db[k]) = Content(P!Recovered.kv[k])

(*****************************************************************************)
(* Once the workers are idle and the thread has committed all they sent,     *)
(* restarting the server would bring back what the clients see: after any    *)
(* retries, crashes and restarts (main.rs:178-243, 391,                      *)
(* persistence_neural.rs:270-327), unless the file holds a cut record that a *)
(* replay misreads.                                                          *)
(*****************************************************************************)
RestartKeepsKeyspace ==
    (/\ \A w \in Worker : pc[w] = "idle"
     /\ committed = Len(sent)
     /\ ~ P!InCommit
     /\ P!CutsRecognised(file)) => Agrees

(*****************************************************************************)
(* And that point is reached, and kept, when the commands end, unless the    *)
(* file holds a cut record that a replay misreads, or the network is asked   *)
(* again and again and has unlearned to commit: the records then wait for a  *)
(* restart.                                                                  *)
(*****************************************************************************)
DurableUnlessStarved ==
    \/ <>[](P!CutsRecognised(file) => Agrees)
    \/ <>[](P!Starved /\ chan \o batch # <<>>) /\ []<>(npc = "decide")

(*****************************************************************************)
(* What persistence_neural.rs:330 promises, that a growing backlog makes the *)
(* thread commit: the backlog gets written.                                  *)
(*****************************************************************************)
BacklogIsCommitted == <>[]Agrees
=============================================================================
