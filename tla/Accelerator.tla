---------------------------- MODULE Accelerator ----------------------------
(*****************************************************************************)
(* The WebSocket publish/subscribe server (src/omega/src/accelerator.rs).    *)
(* A topic is a tokio broadcast channel: a ring that overwrites its oldest   *)
(* message and tells a slow receiver that it lagged.  Each connection has a  *)
(* task that reads subscriptions, one forwarder task per topic subscribed,   *)
(* a bounded pipe they all send into, and a pusher task that empties the     *)
(* pipe into the socket.  Publish is broadcast_update, called by the worker  *)
(* threads of Gateway.                                                       *)
(*                                                                           *)
(* A payload is its number among those of its topic; 0 is the                *)
(* acknowledgement of a subscription, which the same pipe carries.           *)
(*****************************************************************************)
EXTENDS Naturals, Sequences

CONSTANTS Client,   \* WebSocket connections
          Topic,    \* keys
          RingSize, \* messages a topic keeps (broadcast::channel(10000))
          PipeSize, \* capacity of a connection's pipe (mpsc::channel(1024))
          MaxMsgs   \* bound: messages published on a topic

ASSUME AcceleratorAssumption ==
    /\ RingSize \in Nat \ {0}
    /\ PipeSize \in Nat \ {0}
    /\ MaxMsgs \in Nat

VARIABLES
    registered, \* the topics in TOPIC_REGISTRY
    published,  \* published[t]: messages sent on t since it was registered
    socket,     \* socket[c]: whether the client is still there
    reader,     \* reader[c]: the task that reads subscriptions
    acking,     \* the topic whose acknowledgement the reader is sending
    subs,       \* active_subs
    fwd,        \* fwd[c][t]: the forwarder of the subscription
    pos,        \* pos[c][t]: the last message its receiver took
    start,      \* history: published[t] when the subscription was made
    missed,     \* history: messages the receiver was told it lagged behind
    pipe,       \* pipe[c]: client_tx and client_rx
    pusher,     \* pusher[c]: the task that writes to the socket
    delivered   \* delivered[c]: what the client received

acceleratorVars == <<registered, published, socket, reader, acking, subs, fwd, pos, start,
                     missed, pipe, pusher, delivered>>

Message == [topic : Topic, n : Nat]

AcceleratorTypeOK ==
    /\ registered \subseteq Topic
    /\ published \in [Topic -> Nat]
    /\ socket \in [Client -> {"open", "closed"}]
    /\ reader \in [Client -> {"reading", "acking", "ended"}]
    /\ acking \in [Client -> SUBSET Topic]
    /\ subs \in [Client -> SUBSET Topic]
    /\ fwd \in [Client -> [Topic -> {"none", "receiving", "sending", "ended"}]]
    /\ pos \in [Client -> [Topic -> Nat]]
    /\ start \in [Client -> [Topic -> Nat]]
    /\ missed \in [Client -> [Topic -> SUBSET Nat]]
    /\ pipe \in [Client -> Seq(Message)]
    /\ pusher \in [Client -> {"running", "ended"}]
    /\ delivered \in [Client -> Seq(Message)]

AcceleratorInit ==
    /\ registered = {}
    /\ published = [t \in Topic |-> 0]
    /\ socket = [c \in Client |-> "open"]
    /\ reader = [c \in Client |-> "reading"]
    /\ acking = [c \in Client |-> {}]
    /\ subs = [c \in Client |-> {}]
    /\ fwd = [c \in Client |-> [t \in Topic |-> "none"]]
    /\ pos = [c \in Client |-> [t \in Topic |-> 0]]
    /\ start = [c \in Client |-> [t \in Topic |-> 0]]
    /\ missed = [c \in Client |-> [t \in Topic |-> {}]]
    /\ pipe = [c \in Client |-> <<>>]
    /\ pusher = [c \in Client |-> "running"]
    /\ delivered = [c \in Client |-> <<>>]

(*****************************************************************************)
(* broadcast_update never waits: with nobody registered the payload is       *)
(* dropped, with slow receivers the ring moves on.                           *)
(*****************************************************************************)
Publish(t) ==
    /\ t \in registered
    /\ published[t] < MaxMsgs
    /\ published' = [published EXCEPT ![t] = @ + 1]
    /\ UNCHANGED <<registered, socket, reader, acking, subs, fwd, pos, start, missed, pipe,
                   pusher, delivered>>

\* mutant of Subscribe: the receiver starts at the last message
SubscribeAtLast(c, t) ==
    /\ reader[c] = "reading"
    /\ socket[c] = "open"
    /\ t \notin subs[c]
    /\ subs' = [subs EXCEPT ![c] = @ \cup {t}]
    /\ registered' = registered \cup {t}
    /\ pos' = [pos EXCEPT ![c][t] = published[t] - 1]
    /\ start' = [start EXCEPT ![c][t] = published[t]]
    /\ fwd' = [fwd EXCEPT ![c][t] = "receiving"]
    /\ reader' = [reader EXCEPT ![c] = "acking"]
    /\ acking' = [acking EXCEPT ![c] = {t}]
    /\ UNCHANGED <<published, socket, missed, pipe, pusher, delivered>>

(*****************************************************************************)
(* A subscription: the topic is registered if it was not, a receiver starts  *)
(* at its end and the forwarder is spawned; the acknowledgement goes through *)
(* the pipe afterwards, and waits for room in it.  A second subscription to  *)
(* the same topic is ignored.                                                *)
(*****************************************************************************)
Subscribe(c, t) ==
    /\ reader[c] = "reading"
    /\ socket[c] = "open"
    /\ t \notin subs[c]
    /\ subs' = [subs EXCEPT ![c] = @ \cup {t}]
    /\ registered' = registered \cup {t}
    /\ pos' = [pos EXCEPT ![c][t] = published[t]]
    /\ start' = [start EXCEPT ![c][t] = published[t]]
    /\ fwd' = [fwd EXCEPT ![c][t] = "receiving"]
    /\ reader' = [reader EXCEPT ![c] = "acking"]
    /\ acking' = [acking EXCEPT ![c] = {t}]
    /\ UNCHANGED <<published, socket, missed, pipe, pusher, delivered>>

\* send on the pipe fails at once when the pusher dropped the receiver
Accepts(c) == pusher[c] = "running" /\ Len(pipe[c]) < PipeSize

\* mutant of Ack: try_send, which drops the acknowledgement when the pipe is full
AckTry(c) ==
    /\ reader[c] = "acking"
    /\ \E t \in acking[c] :
          pipe' = IF Accepts(c) THEN [pipe EXCEPT ![c] = Append(@, [topic |-> t, n |-> 0])]
                                ELSE pipe
    /\ reader' = [reader EXCEPT ![c] = "reading"]
    /\ acking' = [acking EXCEPT ![c] = {}]
    /\ UNCHANGED <<registered, published, socket, subs, fwd, pos, start, missed, pusher,
                   delivered>>

Ack(c) ==
    /\ reader[c] = "acking"
    /\ \/ /\ Accepts(c)
          /\ \E t \in acking[c] : pipe' = [pipe EXCEPT ![c] = Append(@, [topic |-> t, n |-> 0])]
       \/ /\ pusher[c] = "ended"
          /\ UNCHANGED pipe
    /\ reader' = [reader EXCEPT ![c] = "reading"]
    /\ acking' = [acking EXCEPT ![c] = {}]
    /\ UNCHANGED <<registered, published, socket, subs, fwd, pos, start, missed, pusher,
                   delivered>>

(*****************************************************************************)
(* The forwarder: rx.recv gives the next message, or says how many the ring  *)
(* has overwritten and goes on with the oldest it still holds.               *)
(*****************************************************************************)
Lagged(c, t) == published[t] - pos[c][t] > RingSize

Receive(c, t) ==
    /\ fwd[c][t] = "receiving"
    /\ pos[c][t] < published[t]
    /\ ~ Lagged(c, t)
    /\ pos' = [pos EXCEPT ![c][t] = @ + 1]
    /\ fwd' = [fwd EXCEPT ![c][t] = "sending"]
    /\ UNCHANGED <<registered, published, socket, reader, acking, subs, start, missed, pipe,
                   pusher, delivered>>

\* mutant of Lag: the receiver goes on with the newest message
LagToNewest(c, t) ==
    LET oldest == published[t] - RingSize
    IN  /\ fwd[c][t] = "receiving"
        /\ Lagged(c, t)
        /\ pos' = [pos EXCEPT ![c][t] = published[t] - 1]
        /\ missed' = [missed EXCEPT ![c][t] = @ \cup (pos[c][t] + 1 .. oldest)]
        /\ UNCHANGED <<registered, published, socket, reader, acking, subs, fwd, start, pipe,
                       pusher, delivered>>

\* mutant of Lag: the error ends the forwarder, as any other error does
LagEnds(c, t) ==
    LET oldest == published[t] - RingSize
    IN  /\ fwd[c][t] = "receiving"
        /\ Lagged(c, t)
        /\ fwd' = [fwd EXCEPT ![c][t] = "ended"]
        /\ missed' = [missed EXCEPT ![c][t] = @ \cup (pos[c][t] + 1 .. oldest)]
        /\ UNCHANGED <<registered, published, socket, reader, acking, subs, pos, start, pipe,
                       pusher, delivered>>

Lag(c, t) ==
    LET oldest == published[t] - RingSize
    IN  /\ fwd[c][t] = "receiving"
        /\ Lagged(c, t)
        /\ pos' = [pos EXCEPT ![c][t] = oldest]
        /\ missed' = [missed EXCEPT ![c][t] = @ \cup (pos[c][t] + 1 .. oldest)]
        /\ UNCHANGED <<registered, published, socket, reader, acking, subs, fwd, start, pipe,
                       pusher, delivered>>

\* mutant of Forward: try_send, which drops the message when the pipe is full
ForwardTry(c, t) ==
    /\ fwd[c][t] = "sending"
    /\ \/ /\ pusher[c] = "running"
          /\ pipe' = IF Accepts(c)
                     THEN [pipe EXCEPT ![c] = Append(@, [topic |-> t, n |-> pos[c][t]])]
                     ELSE pipe
          /\ fwd' = [fwd EXCEPT ![c][t] = "receiving"]
       \/ /\ pusher[c] = "ended"
          /\ fwd' = [fwd EXCEPT ![c][t] = "ended"]
          /\ UNCHANGED pipe
    /\ UNCHANGED <<registered, published, socket, reader, acking, subs, pos, start, missed,
                   pusher, delivered>>

Forward(c, t) ==
    /\ fwd[c][t] = "sending"
    /\ \/ /\ Accepts(c)
          /\ pipe' = [pipe EXCEPT ![c] = Append(@, [topic |-> t, n |-> pos[c][t]])]
          /\ fwd' = [fwd EXCEPT ![c][t] = "receiving"]
       \/ /\ pusher[c] = "ended"
          /\ fwd' = [fwd EXCEPT ![c][t] = "ended"]
          /\ UNCHANGED pipe
    /\ UNCHANGED <<registered, published, socket, reader, acking, subs, pos, start, missed,
                   pusher, delivered>>

(*****************************************************************************)
(* The pusher ends when a send to the socket fails, or when every sender of  *)
(* the pipe is gone: the reader and all forwarders.                          *)
(*****************************************************************************)
Push(c) ==
    /\ pusher[c] = "running"
    /\ pipe[c] # <<>>
    /\ pipe' = [pipe EXCEPT ![c] = IF socket[c] = "open" THEN Tail(@) ELSE <<>>]
    /\ delivered' = [delivered EXCEPT ![c] =
                        IF socket[c] = "open" THEN Append(@, Head(pipe[c])) ELSE @]
    /\ pusher' = [pusher EXCEPT ![c] = IF socket[c] = "open" THEN @ ELSE "ended"]
    /\ UNCHANGED <<registered, published, socket, reader, acking, subs, fwd, pos, start,
                   missed>>

PusherEnds(c) ==
    /\ pusher[c] = "running"
    /\ pipe[c] = <<>>
    /\ reader[c] = "ended"
    /\ \A t \in Topic : fwd[c][t] \in {"none", "ended"}
    /\ pusher' = [pusher EXCEPT ![c] = "ended"]
    /\ UNCHANGED <<registered, published, socket, reader, acking, subs, fwd, pos, start,
                   missed, pipe, delivered>>

(*****************************************************************************)
(* The client goes away; the reader's loop then ends.                        *)
(*****************************************************************************)
Disconnect(c) ==
    /\ socket[c] = "open"
    /\ socket' = [socket EXCEPT ![c] = "closed"]
    /\ UNCHANGED <<registered, published, reader, acking, subs, fwd, pos, start, missed,
                   pipe, pusher, delivered>>

ReaderEnds(c) ==
    /\ reader[c] = "reading"
    /\ socket[c] = "closed"
    /\ reader' = [reader EXCEPT ![c] = "ended"]
    /\ UNCHANGED <<registered, published, socket, acking, subs, fwd, pos, start, missed,
                   pipe, pusher, delivered>>

Tasks(c) ==
    \/ Ack(c) \/ Push(c) \/ PusherEnds(c) \/ ReaderEnds(c)
    \/ \E t \in Topic : Receive(c, t) \/ Lag(c, t) \/ Forward(c, t)

AcceleratorNext ==
    \/ \E t \in Topic : Publish(t)
    \/ \E c \in Client : Disconnect(c) \/ Tasks(c) \/ \E t \in Topic : Subscribe(c, t)

AcceleratorSpec == AcceleratorInit /\ [][AcceleratorNext]_acceleratorVars

(*****************************************************************************)
(* The runtime runs every task that is ready; tokio's channels wake their    *)
(* waiting senders in order, hence the strong fairness of those that wait    *)
(* for room.  The weak fairness of Push asks of a client that it reads its   *)
(* socket or closes it; of publishers nothing is asked.                      *)
(*****************************************************************************)
AcceleratorFairness ==
    \A c \in Client :
        /\ WF_acceleratorVars(Push(c)) /\ WF_acceleratorVars(PusherEnds(c))
        /\ WF_acceleratorVars(ReaderEnds(c))
        /\ SF_acceleratorVars(Ack(c))
        /\ \A t \in Topic : /\ WF_acceleratorVars(Receive(c, t) \/ Lag(c, t))
                            /\ SF_acceleratorVars(Forward(c, t))

AcceleratorLiveSpec == AcceleratorSpec /\ AcceleratorFairness
-----------------------------------------------------------------------------
(*****************************************************************************)
(* A client receives the messages of a topic in order and without repeats,   *)
(* and every one since it subscribed before the next, but those the ring     *)
(* overwrote and it was told it missed (accelerator.rs:95-113).              *)
(*****************************************************************************)
IsUpdate(m, t) == m.topic = t /\ m.n > 0

Gapless(messages, t, first, lost) ==
    \A i \in 1 .. Len(messages) :
        IsUpdate(messages[i], t) =>
            /\ first < messages[i].n
            /\ \A j \in 1 .. i - 1 : IsUpdate(messages[j], t) => messages[j].n < messages[i].n
            /\ \A n \in first + 1 .. messages[i].n - 1 :
                  n \in lost \/ \E j \in 1 .. i - 1 : messages[j] = [topic |-> t, n |-> n]

NoSilentGap ==
    \A c \in Client, t \in Topic : Gapless(delivered[c], t, start[c][t], missed[c][t])

(*****************************************************************************)
(* Every message published on a topic after a client subscribed reaches it,  *)
(* or is one it lagged behind, or the client has gone, however the topics    *)
(* compete for the pipe (accelerator.rs:63-73, 95-113).                      *)
(*****************************************************************************)
Reached(c, t, n) ==
    \/ n \in missed[c][t]
    \/ \E i \in 1 .. Len(delivered[c]) : delivered[c][i] = [topic |-> t, n |-> n]

EveryMessageArrives ==
    \A c \in Client, t \in Topic, n \in 1 .. MaxMsgs :
        (t \in subs[c] /\ start[c][t] < n /\ n <= published[t])
            ~> (Reached(c, t, n) \/ socket[c] = "closed")

(*****************************************************************************)
(* Every subscription is acknowledged, however many updates its own and      *)
(* other forwarders put before the acknowledgement, or the client has gone   *)
(* (accelerator.rs:95, 115-117).                                             *)
(*****************************************************************************)
EverySubscriptionAcknowledged ==
    \A c \in Client, t \in Topic :
        t \in subs[c] ~> (socket[c] = "closed"
                          \/ \E i \in 1 .. Len(delivered[c]) :
                                 delivered[c][i] = [topic |-> t, n |-> 0])

(*****************************************************************************)
(* When a client goes, the tasks of its connection end (accelerator.rs:68).  *)
(*****************************************************************************)
TasksEnd ==
    \A c \in Client :
        socket[c] = "closed" ~> (pusher[c] = "ended"
                                 /\ \A t \in Topic : fwd[c][t] \in {"none", "ended"})

(*****************************************************************************)
(* A forwarder ends only after the client has gone: a full pipe or a lag     *)
(* never cuts a subscription (accelerator.rs:103-107).                       *)
(*****************************************************************************)
NoSubscriptionCut ==
    \A c \in Client, t \in Topic :
        t \in subs[c] /\ fwd[c][t] \in {"none", "ended"} => socket[c] = "closed"
=============================================================================
