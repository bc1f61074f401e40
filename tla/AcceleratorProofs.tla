-------------------------- MODULE AcceleratorProofs --------------------------
(*****************************************************************************)
(* For every number of connections and topics, every size of ring and pipe:  *)
(* the accelerator keeps its types, and a subscription is not cut while its  *)
(* client is there.                                                          *)
(*****************************************************************************)
EXTENDS Accelerator, Induction, TLAPS, SequenceTheorems

(*****************************************************************************)
(* The inductive invariant: no task of a connection ends before the client   *)
(* has gone.  A forwarder ends because the pusher has, the pusher because a  *)
(* write to the socket failed or the reader has, and the reader because the  *)
(* socket is closed.                                                         *)
(*****************************************************************************)
TasksOf(c) ==
    /\ reader[c] = "ended" => socket[c] = "closed"
    /\ pusher[c] = "ended" => socket[c] = "closed"
    /\ \A t \in Topic : fwd[c][t] = "ended" => socket[c] = "closed"
    /\ \A t \in subs[c] : fwd[c][t] # "none"

AcceleratorInv == AcceleratorTypeOK /\ \A c \in Client : TasksOf(c)

(*****************************************************************************)
(* Types.                                                                    *)
(*****************************************************************************)
LEMMA PublishType ==
    ASSUME AcceleratorTypeOK, NEW t \in Topic, Publish(t)
    PROVE  AcceleratorTypeOK'
  <1>1. published' \in [Topic -> Nat]
    BY DEF Publish, AcceleratorTypeOK
  <1>2. QED
    BY <1>1 DEF Publish, AcceleratorTypeOK

LEMMA SubscribeType ==
    ASSUME AcceleratorTypeOK, NEW c \in Client, NEW t \in Topic, Subscribe(c, t)
    PROVE  AcceleratorTypeOK'
  <1>1. /\ registered' \subseteq Topic
        /\ subs' \in [Client -> SUBSET Topic]
        /\ acking' \in [Client -> SUBSET Topic]
        /\ reader' \in [Client -> {"reading", "acking", "ended"}]
    BY DEF Subscribe, AcceleratorTypeOK
  <1>2. /\ pos' \in [Client -> [Topic -> Nat]]
        /\ start' \in [Client -> [Topic -> Nat]]
        /\ fwd' \in [Client -> [Topic -> {"none", "receiving", "sending", "ended"}]]
    BY DEF Subscribe, AcceleratorTypeOK
  <1>3. QED
    BY <1>1, <1>2 DEF Subscribe, AcceleratorTypeOK

LEMMA AckType ==
    ASSUME AcceleratorTypeOK, NEW c \in Client, Ack(c)
    PROVE  AcceleratorTypeOK'
  <1>1. pipe' \in [Client -> Seq(Message)]
    <2>1. \A t \in acking[c] : [topic |-> t, n |-> 0] \in Message
      BY DEF AcceleratorTypeOK, Message
    <2>2. \A m \in Message : Append(pipe[c], m) \in Seq(Message)
      <3>1. pipe[c] \in Seq(Message)
        BY DEF AcceleratorTypeOK
      <3>2. QED
        BY <3>1
    <2>3. \A t \in acking[c] : Append(pipe[c], [topic |-> t, n |-> 0]) \in Seq(Message)
      BY <2>1, <2>2
    <2>4. CASE pipe' = pipe
      BY <2>4 DEF AcceleratorTypeOK
    <2>5. CASE pipe' # pipe
      <3>1. PICK t \in acking[c] :
                pipe' = [pipe EXCEPT ![c] = Append(@, [topic |-> t, n |-> 0])]
        BY <2>5 DEF Ack
      <3>2. PICK q \in Seq(Message) : q = Append(pipe[c], [topic |-> t, n |-> 0])
        BY <2>3
      <3>3. pipe' = [pipe EXCEPT ![c] = q]
        BY <3>1, <3>2
      <3>4. QED
        BY <3>3 DEF AcceleratorTypeOK
    <2>6. QED
      BY <2>4, <2>5
  <1>2. /\ reader' \in [Client -> {"reading", "acking", "ended"}]
        /\ acking' \in [Client -> SUBSET Topic]
    BY DEF Ack, AcceleratorTypeOK
  <1>3. QED
    BY <1>1, <1>2 DEF Ack, AcceleratorTypeOK

LEMMA ForwarderType ==
    ASSUME AcceleratorTypeOK, NEW c \in Client, NEW t \in Topic,
           Receive(c, t) \/ Lag(c, t) \/ Forward(c, t)
    PROVE  AcceleratorTypeOK'
  <1>1. pos[c][t] \in Nat /\ published[t] \in Nat /\ RingSize \in Nat
    BY AcceleratorAssumption DEF AcceleratorTypeOK
  <1>2. CASE Receive(c, t)
    <2>1. /\ pos' \in [Client -> [Topic -> Nat]]
          /\ fwd' \in [Client -> [Topic -> {"none", "receiving", "sending", "ended"}]]
      BY <1>1, <1>2 DEF Receive, AcceleratorTypeOK
    <2>2. QED
      BY <1>2, <2>1 DEF Receive, AcceleratorTypeOK
  <1>3. CASE Lag(c, t)
    <2> DEFINE oldest == published[t] - RingSize
    <2>1. oldest \in Nat /\ pos[c][t] + 1 .. oldest \subseteq Nat
      BY <1>1, <1>3 DEF Lag, Lagged
    <2>2. pos' \in [Client -> [Topic -> Nat]]
      BY <1>3, <2>1 DEF Lag, AcceleratorTypeOK
    <2>3. missed' \in [Client -> [Topic -> SUBSET Nat]]
      <3>1. missed[c][t] \cup (pos[c][t] + 1 .. oldest) \in SUBSET Nat
        BY <2>1 DEF AcceleratorTypeOK
      <3>2. QED
        BY <1>3, <3>1 DEF Lag, AcceleratorTypeOK
    <2>4. QED
      BY <1>3, <2>2, <2>3 DEF Lag, AcceleratorTypeOK
  <1>4. CASE Forward(c, t)
    <2>1. [topic |-> t, n |-> pos[c][t]] \in Message
      BY <1>1 DEF Message
    <2>2. pipe[c] \in Seq(Message)
      BY DEF AcceleratorTypeOK
    <2>3. Append(pipe[c], [topic |-> t, n |-> pos[c][t]]) \in Seq(Message)
      BY <2>1, <2>2
    <2>4. pipe' \in [Client -> Seq(Message)]
      BY <1>4, <2>3 DEF Forward, AcceleratorTypeOK
    <2>5. PICK x \in {"receiving", "ended"} : fwd' = [fwd EXCEPT ![c][t] = x]
      BY <1>4 DEF Forward
    <2>6. fwd' \in [Client -> [Topic -> {"none", "receiving", "sending", "ended"}]]
      BY <2>5 DEF AcceleratorTypeOK
    <2>7. QED
      BY <1>4, <2>4, <2>6 DEF Forward, AcceleratorTypeOK
  <1>5. QED
    BY <1>2, <1>3, <1>4

LEMMA PusherType ==
    ASSUME AcceleratorTypeOK, NEW c \in Client, Push(c) \/ PusherEnds(c)
    PROVE  AcceleratorTypeOK'
  <1>1. CASE Push(c)
    <2>1. /\ Head(pipe[c]) \in Message /\ Tail(pipe[c]) \in Seq(Message)
          /\ <<>> \in Seq(Message)
      BY <1>1, HeadTailProperties DEF Push, AcceleratorTypeOK
    <2>2. Append(delivered[c], Head(pipe[c])) \in Seq(Message)
      BY <2>1 DEF AcceleratorTypeOK
    <2>3. /\ pipe' \in [Client -> Seq(Message)]
          /\ delivered' \in [Client -> Seq(Message)]
          /\ pusher' \in [Client -> {"running", "ended"}]
      BY <1>1, <2>1, <2>2 DEF Push, AcceleratorTypeOK
    <2>4. QED
      BY <1>1, <2>3 DEF Push, AcceleratorTypeOK
  <1>2. CASE PusherEnds(c)
    BY <1>2 DEF PusherEnds, AcceleratorTypeOK
  <1>3. QED
    BY <1>1, <1>2

LEMMA AcceleratorInitInv ==
    ASSUME AcceleratorInit
    PROVE  AcceleratorInv
  <1>1. AcceleratorTypeOK
    BY DEF AcceleratorInit, AcceleratorTypeOK
  <1>2. \A c \in Client : TasksOf(c)
    BY DEF AcceleratorInit, TasksOf
  <1>3. QED
    BY <1>1, <1>2 DEF AcceleratorInv

LEMMA AcceleratorStepInv ==
    ASSUME AcceleratorInv, [AcceleratorNext]_acceleratorVars
    PROVE  AcceleratorInv'
  <1>1. CASE \E t \in Topic : Publish(t)
    <2>1. PICK t \in Topic : Publish(t)
      BY <1>1
    <2>2. AcceleratorTypeOK'
      BY <2>1, PublishType DEF AcceleratorInv
    <2>3. \A c \in Client : TasksOf(c)'
      BY <2>1 DEF Publish, AcceleratorInv, TasksOf
    <2>4. QED
      BY <2>2, <2>3 DEF AcceleratorInv
  <1>2. ASSUME NEW c \in Client, Disconnect(c)
        PROVE  AcceleratorInv'
    <2>1. AcceleratorTypeOK'
      BY <1>2 DEF Disconnect, AcceleratorInv, AcceleratorTypeOK
    <2>2. \A d \in Client : TasksOf(d)'
      BY <1>2 DEF Disconnect, AcceleratorInv, AcceleratorTypeOK, TasksOf
    <2>3. QED
      BY <2>1, <2>2 DEF AcceleratorInv
  <1>3. ASSUME NEW c \in Client, NEW t \in Topic, Subscribe(c, t)
        PROVE  AcceleratorInv'
    <2>1. AcceleratorTypeOK'
      BY <1>3, SubscribeType DEF AcceleratorInv
    <2>2. \A d \in Client : TasksOf(d)'
      BY <1>3 DEF Subscribe, AcceleratorInv, AcceleratorTypeOK, TasksOf
    <2>3. QED
      BY <2>1, <2>2 DEF AcceleratorInv
  <1>4. ASSUME NEW c \in Client, Ack(c) \/ ReaderEnds(c)
        PROVE  AcceleratorInv'
    <2>1. AcceleratorTypeOK'
      BY <1>4, AckType DEF ReaderEnds, AcceleratorInv, AcceleratorTypeOK
    <2>2. \A d \in Client : TasksOf(d)'
      BY <1>4 DEF Ack, ReaderEnds, AcceleratorInv, AcceleratorTypeOK, TasksOf
    <2>3. QED
      BY <2>1, <2>2 DEF AcceleratorInv
  <1>5. ASSUME NEW c \in Client, Push(c) \/ PusherEnds(c)
        PROVE  AcceleratorInv'
    <2>1. AcceleratorTypeOK'
      BY <1>5, PusherType DEF AcceleratorInv
    <2>2. pusher'[c] = "ended" => socket[c] = "closed"
      BY <1>5 DEF Push, PusherEnds, AcceleratorInv, AcceleratorTypeOK, TasksOf
    <2>3. \A d \in Client : TasksOf(d)'
      BY <1>5, <2>2 DEF Push, PusherEnds, AcceleratorInv, AcceleratorTypeOK, TasksOf
    <2>4. QED
      BY <2>1, <2>3 DEF AcceleratorInv
  <1>6. ASSUME NEW c \in Client, NEW t \in Topic,
               Receive(c, t) \/ Lag(c, t) \/ Forward(c, t)
        PROVE  AcceleratorInv'
    <2>1. AcceleratorTypeOK'
      BY <1>6, ForwarderType DEF AcceleratorInv
    <2>2. fwd'[c][t] # "none" /\ (fwd'[c][t] = "ended" => socket[c] = "closed")
      BY <1>6 DEF Receive, Lag, Forward, AcceleratorInv, AcceleratorTypeOK, TasksOf
    <2>3. \A d \in Client, u \in Topic : d # c \/ u # t => fwd'[d][u] = fwd[d][u]
      BY <1>6 DEF Receive, Lag, Forward, AcceleratorInv, AcceleratorTypeOK
    <2>4. reader' = reader /\ pusher' = pusher /\ socket' = socket /\ subs' = subs
      BY <1>6 DEF Receive, Lag, Forward
    <2>5. \A d \in Client : subs[d] \subseteq Topic
      BY DEF AcceleratorInv, AcceleratorTypeOK
    <2>6. \A d \in Client : TasksOf(d)'
      BY <2>2, <2>3, <2>4, <2>5 DEF AcceleratorInv, TasksOf
    <2>7. QED
      BY <2>1, <2>6 DEF AcceleratorInv
  <1>7. CASE UNCHANGED acceleratorVars
    BY <1>7 DEF acceleratorVars, AcceleratorInv, AcceleratorTypeOK, TasksOf
  <1>8. QED
    BY <1>1, <1>2, <1>3, <1>4, <1>5, <1>6, <1>7 DEF AcceleratorNext, Tasks

(*****************************************************************************)
(* Every variable keeps its type; a receiver that lagged goes on at a place  *)
(* the topic has (accelerator.rs:95-113).                                    *)
(*****************************************************************************)
THEOREM AcceleratorTypeCorrect == AcceleratorSpec => []AcceleratorTypeOK
  <1>1. AcceleratorInv => AcceleratorTypeOK
    BY DEF AcceleratorInv
  <1>2. QED
    BY <1>1, AcceleratorInitInv, AcceleratorStepInv, PTL DEF AcceleratorSpec

(*****************************************************************************)
(* Neither a lag nor a full pipe ends the forwarder of a subscription whose  *)
(* client is there (accelerator.rs:103-107).                                 *)
(*****************************************************************************)
THEOREM NoSubscriptionCutCorrect == AcceleratorSpec => []NoSubscriptionCut
  <1>1. ASSUME AcceleratorInv
        PROVE  NoSubscriptionCut
    BY <1>1 DEF AcceleratorInv, AcceleratorTypeOK, TasksOf, NoSubscriptionCut
  <1>2. QED
    BY <1>1, AcceleratorInitInv, AcceleratorStepInv, PTL DEF AcceleratorSpec

(*****************************************************************************)
(* What a client has received and what waits for it in the pipe make one     *)
(* stream of messages, which a forwarder continues.  Subscription(...) says  *)
(* of the messages s of a stream how they stand to one forwarder: where its  *)
(* receiver started (first), which message it took last (at), which it was   *)
(* told it missed (lost), what it is doing, whether the pusher runs and      *)
(* whether the topic was subscribed to at all.                               *)
(*****************************************************************************)
Stream(c) == delivered[c] \o pipe[c]

Covered(s, t, lost, n) == n \in lost \/ \E j \in 1 .. Len(s) : s[j] = [topic |-> t, n |-> n]

Subscription(s, t, first, at, lost, doing, run, subscribed) ==
    /\ Gapless(s, t, first, lost)
    /\ first <= at
    /\ doing = "sending" => first < at
    /\ \A i \in 1 .. Len(s) : IsUpdate(s[i], t) =>
            s[i].n <= at /\ (doing = "sending" => s[i].n < at)
    /\ run = "running" /\ doing \in {"receiving", "sending"} =>
            \A n \in first + 1 .. at :
                (doing = "sending" /\ n = at) \/ Covered(s, t, lost, n)
    /\ ~ subscribed => doing = "none" /\ \A i \in 1 .. Len(s) : ~ IsUpdate(s[i], t)

SubscriptionOf(c, t) ==
    Subscription(Stream(c), t, start[c][t], pos[c][t], missed[c][t], fwd[c][t],
                 pusher[c], t \in subs[c])

GapInv == \A c \in Client, t \in Topic : SubscriptionOf(c, t)

(*****************************************************************************)
(* A stream that grows by a message of another topic or by an                *)
(* acknowledgement.                                                          *)
(*****************************************************************************)
LEMMA OtherMessage ==
    ASSUME NEW s \in Seq(Message), NEW e \in Message, NEW t, ~ IsUpdate(e, t),
           NEW first, NEW at, NEW lost, NEW doing, NEW run, NEW subscribed,
           Subscription(s, t, first, at, lost, doing, run, subscribed)
    PROVE  Subscription(Append(s, e), t, first, at, lost, doing, run, subscribed)
<1> DEFINE r == Append(s, e)
<1>1. /\ Len(s) \in Nat /\ Len(r) = Len(s) + 1 /\ r[Len(s) + 1] = e
      /\ \A i \in 1 .. Len(s) : r[i] = s[i]
    BY AppendElements
<1> HIDE DEF r
<1>2. \A i \in 1 .. Len(r) : i \in 1 .. Len(s) \/ i = Len(s) + 1
    BY <1>1
<1>3. \A i \in 1 .. Len(r) : IsUpdate(r[i], t) => i \in 1 .. Len(s)
    BY <1>1, <1>2
<1>4. \A i \in 1 .. Len(s) : i \in 1 .. Len(r) /\ \A j \in 1 .. i - 1 : j \in 1 .. Len(s)
    BY <1>1
<1>5. Gapless(r, t, first, lost)
    <2> SUFFICES ASSUME NEW i \in 1 .. Len(r), IsUpdate(r[i], t)
                 PROVE  /\ first < r[i].n
                        /\ \A j \in 1 .. i - 1 : IsUpdate(r[j], t) => r[j].n < r[i].n
                        /\ \A n \in first + 1 .. r[i].n - 1 :
                              n \in lost \/ \E j \in 1 .. i - 1 : r[j] = [topic |-> t, n |-> n]
        BY DEF Gapless
    <2>1. i \in 1 .. Len(s) /\ r[i] = s[i] /\ \A j \in 1 .. i - 1 : r[j] = s[j]
        BY <1>1, <1>3, <1>4
    <2>2. /\ first < s[i].n
          /\ \A j \in 1 .. i - 1 : IsUpdate(s[j], t) => s[j].n < s[i].n
          /\ \A n \in first + 1 .. s[i].n - 1 :
                n \in lost \/ \E j \in 1 .. i - 1 : s[j] = [topic |-> t, n |-> n]
        BY <2>1 DEF Subscription, Gapless
    <2> QED
        BY <2>1, <2>2
<1>6. \A n : Covered(s, t, lost, n) => Covered(r, t, lost, n)
    BY <1>1, <1>4 DEF Covered
<1> QED
    BY <1>1, <1>3, <1>5, <1>6 DEF Subscription, r

(*****************************************************************************)
(* A stream that grows by the message its forwarder took.                    *)
(*****************************************************************************)
LEMMA OwnMessage ==
    ASSUME NEW s \in Seq(Message), NEW t \in Topic, NEW first \in Nat, NEW at \in Nat,
           NEW lost, NEW subscribed,
           Subscription(s, t, first, at, lost, "sending", "running", subscribed)
    PROVE  Subscription(Append(s, [topic |-> t, n |-> at]), t, first, at, lost,
                        "receiving", "running", subscribed)
<1> DEFINE e == [topic |-> t, n |-> at]
           r == Append(s, e)
<1>1. /\ e \in Message /\ e.n = at /\ e.topic = t
    BY DEF Message
<1>2. /\ Len(s) \in Nat /\ Len(r) = Len(s) + 1 /\ r[Len(s) + 1] = e
      /\ \A i \in 1 .. Len(s) : r[i] = s[i]
    BY <1>1, AppendElements
<1> HIDE DEF r
<1>3. \A i \in 1 .. Len(r) : i \in 1 .. Len(s) \/ i = Len(s) + 1
    BY <1>2
<1>4. \A i \in 1 .. Len(s) : i \in 1 .. Len(r) /\ \A j \in 1 .. i - 1 : j \in 1 .. Len(s)
    BY <1>2
<1>5. first < at /\ subscribed
    BY DEF Subscription
<1>6. \A i \in 1 .. Len(s) : IsUpdate(s[i], t) => s[i].n < at
    BY DEF Subscription
<1>7. \A n \in first + 1 .. at : n = at \/ Covered(s, t, lost, n)
    BY DEF Subscription
<1>8. Gapless(r, t, first, lost)
    <2> SUFFICES ASSUME NEW i \in 1 .. Len(r), IsUpdate(r[i], t)
                 PROVE  /\ first < r[i].n
                        /\ \A j \in 1 .. i - 1 : IsUpdate(r[j], t) => r[j].n < r[i].n
                        /\ \A n \in first + 1 .. r[i].n - 1 :
                              n \in lost \/ \E j \in 1 .. i - 1 : r[j] = [topic |-> t, n |-> n]
        BY DEF Gapless
    <2>1. CASE i \in 1 .. Len(s)
        <3>1. r[i] = s[i] /\ \A j \in 1 .. i - 1 : r[j] = s[j]
            BY <1>2, <1>4, <2>1
        <3>2. /\ first < s[i].n
              /\ \A j \in 1 .. i - 1 : IsUpdate(s[j], t) => s[j].n < s[i].n
              /\ \A n \in first + 1 .. s[i].n - 1 :
                    n \in lost \/ \E j \in 1 .. i - 1 : s[j] = [topic |-> t, n |-> n]
            BY <2>1, <3>1 DEF Subscription, Gapless
        <3> QED
            BY <3>1, <3>2
    <2>2. CASE i = Len(s) + 1
        <3>1. r[i] = e /\ r[i].n = at /\ \A j : j \in 1 .. i - 1 <=> j \in 1 .. Len(s)
            BY <1>1, <1>2, <2>2
        <3>2. \A j \in 1 .. i - 1 : r[j] = s[j]
            BY <1>2, <3>1
        <3>3. \A j \in 1 .. i - 1 : IsUpdate(r[j], t) => r[j].n < at
            BY <1>6, <3>1, <3>2
        <3>4. ASSUME NEW n \in first + 1 .. at - 1
              PROVE  n \in lost \/ \E j \in 1 .. i - 1 : r[j] = [topic |-> t, n |-> n]
            <4>1. n \in first + 1 .. at /\ n # at
                OBVIOUS
            <4>2. Covered(s, t, lost, n)
                BY <1>7, <4>1
            <4> QED
                BY <3>1, <3>2, <4>2 DEF Covered
        <3> QED
            BY <1>5, <3>1, <3>3, <3>4
    <2> QED
        BY <1>3, <2>1, <2>2
<1>9. \A i \in 1 .. Len(r) : IsUpdate(r[i], t) => r[i].n <= at
    <2> SUFFICES ASSUME NEW i \in 1 .. Len(r), IsUpdate(r[i], t) PROVE r[i].n <= at
        OBVIOUS
    <2>1. CASE i \in 1 .. Len(s)
        BY <1>2, <2>1 DEF Subscription
    <2>2. CASE i = Len(s) + 1
        BY <1>1, <1>2, <2>2
    <2> QED
        BY <1>3, <2>1, <2>2
<1>10. \A n \in first + 1 .. at : Covered(r, t, lost, n)
    <2> SUFFICES ASSUME NEW n \in first + 1 .. at PROVE Covered(r, t, lost, n)
        OBVIOUS
    <2>1. CASE n = at
        <3>1. Len(s) + 1 \in 1 .. Len(r)
            BY <1>2
        <3> QED
            BY <1>2, <2>1, <3>1 DEF Covered
    <2>2. CASE Covered(s, t, lost, n)
        BY <1>2, <1>4, <2>2 DEF Covered
    <2> QED
        BY <1>7, <2>1, <2>2
<1> QED
    BY <1>5, <1>8, <1>9, <1>10 DEF Subscription, r

(*****************************************************************************)
(* A stream cut back to what was received, when the pusher has ended.        *)
(*****************************************************************************)
LEMMA PartGapless ==
    ASSUME NEW s \in Seq(Message), NEW q \in Seq(Message), NEW t, NEW first, NEW lost,
           Gapless(s \o q, t, first, lost)
    PROVE  Gapless(s, t, first, lost)
<1> DEFINE r == s \o q
<1>1. /\ Len(s) \in Nat /\ Len(q) \in Nat /\ Len(r) = Len(s) + Len(q)
      /\ \A i \in 1 .. Len(s) : r[i] = s[i]
    BY ConcatElements
<1>2. Gapless(r, t, first, lost)
    OBVIOUS
<1> HIDE DEF r
<1>3. ASSUME NEW i \in 1 .. Len(s), IsUpdate(s[i], t)
      PROVE  /\ first < s[i].n
             /\ \A j \in 1 .. i - 1 : IsUpdate(s[j], t) => s[j].n < s[i].n
             /\ \A n \in first + 1 .. s[i].n - 1 :
                   n \in lost \/ \E j \in 1 .. i - 1 : s[j] = [topic |-> t, n |-> n]
    <2>1. i \in 1 .. Len(r) /\ r[i] = s[i] /\ \A j \in 1 .. i - 1 : r[j] = s[j]
        BY <1>1
    <2>2. /\ first < r[i].n
          /\ \A j \in 1 .. i - 1 : IsUpdate(r[j], t) => r[j].n < r[i].n
          /\ \A n \in first + 1 .. r[i].n - 1 :
                n \in lost \/ \E j \in 1 .. i - 1 : r[j] = [topic |-> t, n |-> n]
        BY <1>2, <1>3, <2>1 DEF Gapless
    <2> QED
        BY <2>1, <2>2
<1> QED
    BY <1>3 DEF Gapless

LEMMA CutBack ==
    ASSUME NEW s \in Seq(Message), NEW q \in Seq(Message), NEW t,
           NEW first, NEW at, NEW lost, NEW doing, NEW run, NEW subscribed,
           Subscription(s \o q, t, first, at, lost, doing, run, subscribed)
    PROVE  Subscription(s, t, first, at, lost, doing, "ended", subscribed)
<1>1. Gapless(s, t, first, lost)
    BY PartGapless DEF Subscription
<1> DEFINE r == s \o q
<1>2. /\ Len(s) \in Nat /\ Len(q) \in Nat /\ Len(r) = Len(s) + Len(q)
      /\ \A i \in 1 .. Len(s) : r[i] = s[i]
    BY ConcatElements
<1>3. Subscription(r, t, first, at, lost, doing, run, subscribed)
    OBVIOUS
<1> HIDE DEF r
<1>4. \A i \in 1 .. Len(s) : i \in 1 .. Len(r) /\ r[i] = s[i]
    BY <1>2
<1> QED
    BY <1>1, <1>3, <1>4 DEF Subscription

LEMMA MoreLost ==
    ASSUME NEW s, NEW t, NEW first, NEW lost, NEW more, lost \subseteq more,
           Gapless(s, t, first, lost)
    PROVE  Gapless(s, t, first, more)
BY DEF Gapless

LEMMA NoUpdates ==
    ASSUME NEW s, NEW t, NEW first \in Nat, NEW lost, NEW run,
           \A i \in 1 .. Len(s) : ~ IsUpdate(s[i], t)
    PROVE  Subscription(s, t, first, first, lost, "receiving", run, TRUE)
<1>1. \A n : n \notin first + 1 .. first
    OBVIOUS
<1> QED
    BY <1>1 DEF Subscription, Gapless

LEMMA StreamType ==
    ASSUME AcceleratorTypeOK, NEW c \in Client
    PROVE  Stream(c) \in Seq(Message)
<1>1. delivered[c] \in Seq(Message) /\ pipe[c] \in Seq(Message)
    BY DEF AcceleratorTypeOK
<1> QED
    BY <1>1, ConcatElements DEF Stream

(*****************************************************************************)
(* One step, subscription by subscription.                                   *)
(*****************************************************************************)
LEMMA Untouched ==
    ASSUME GapInv, NEW c \in Client, NEW t \in Topic,
           delivered'[c] = delivered[c], pipe'[c] = pipe[c],
           start'[c][t] = start[c][t], pos'[c][t] = pos[c][t],
           missed'[c][t] = missed[c][t], fwd'[c][t] = fwd[c][t],
           pusher'[c] = pusher[c], t \in subs'[c] <=> t \in subs[c]
    PROVE  SubscriptionOf(c, t)'
<1>1. SubscriptionOf(c, t)
    BY DEF GapInv
<1>2. (t \in subs'[c]) = (t \in subs[c])
    OBVIOUS
<1> QED
    BY <1>1, <1>2 DEF SubscriptionOf, Stream

LEMMA PipeGrows ==
    ASSUME AcceleratorTypeOK, NEW c \in Client, NEW e \in Message,
           pipe' = [pipe EXCEPT ![c] = Append(@, e)], delivered' = delivered
    PROVE  Stream(c)' = Append(Stream(c), e)
<1>1. delivered[c] \in Seq(Message) /\ pipe[c] \in Seq(Message)
    BY DEF AcceleratorTypeOK
<1>2. delivered[c] \o Append(pipe[c], e) = Append(delivered[c] \o pipe[c], e)
    <2> DEFINE s == delivered[c]
               q == pipe[c]
    <2>1. s \in Seq(Message) /\ q \in Seq(Message)
        BY <1>1
    <2> HIDE DEF s, q
    <2>2. s \o Append(q, e) = Append(s \o q, e)
        BY <2>1, AppendToConcat
    <2> QED
        BY <2>2 DEF s, q
<1>3. pipe'[c] = Append(pipe[c], e) /\ delivered'[c] = delivered[c]
    BY DEF AcceleratorTypeOK
<1> QED
    BY <1>2, <1>3 DEF Stream

\* The head of the pipe moves to what was received.
LEMMA MoveHead ==
    ASSUME NEW s \in Seq(Message), NEW q \in Seq(Message), q # <<>>
    PROVE  Append(s, Head(q)) \o Tail(q) = s \o q
<1> DEFINE h == Head(q)
           r == Tail(q)
           one == <<h>>
<1>1. h \in Message /\ r \in Seq(Message) /\ one \in Seq(Message) /\ q = one \o r
    BY HeadTailProperties, EmptySeq
<1>2. Append(s, h) = s \o one
    BY <1>1, AppendIsConcat
<1> HIDE DEF h, r, one
<1>3. (s \o one) \o r = s \o (one \o r)
    BY <1>1, ConcatAssociative, SMTT(30)
<1> QED
    BY <1>1, <1>2, <1>3 DEF h, r

LEMMA SubscribeGap ==
    ASSUME AcceleratorTypeOK, GapInv, NEW c \in Client, NEW t \in Topic, Subscribe(c, t)
    PROVE  GapInv'
<1>1. ASSUME NEW d \in Client, NEW u \in Topic, d # c \/ u # t PROVE SubscriptionOf(d, u)'
    <2>1. /\ delivered'[d] = delivered[d] /\ pipe'[d] = pipe[d]
          /\ missed'[d][u] = missed[d][u] /\ pusher'[d] = pusher[d]
          /\ start'[d][u] = start[d][u] /\ pos'[d][u] = pos[d][u]
          /\ fwd'[d][u] = fwd[d][u] /\ (u \in subs'[d] <=> u \in subs[d])
        BY <1>1 DEF Subscribe, AcceleratorTypeOK
    <2> QED
        BY <2>1, Untouched
<1>2. SubscriptionOf(c, t)'
    <2> DEFINE s == Stream(c)
               first == published[t]
               lost == missed[c][t]
               run == pusher[c]
    <2>1. Stream(c)' = s /\ missed'[c][t] = lost /\ pusher'[c] = run
        BY DEF Subscribe, Stream
    <2>2. /\ start'[c][t] = first /\ pos'[c][t] = first /\ fwd'[c][t] = "receiving"
          /\ t \in subs'[c] /\ first \in Nat
        BY DEF Subscribe, AcceleratorTypeOK
    <2>3. \A i \in 1 .. Len(s) : ~ IsUpdate(s[i], t)
        BY DEF Subscribe, GapInv, SubscriptionOf, Subscription
    <2> HIDE DEF s, first, lost, run
    <2>4. Subscription(s, t, first, first, lost, "receiving", run, TRUE)
        BY <2>2, <2>3, NoUpdates
    <2>5. (t \in subs'[c]) = TRUE
        BY <2>2
    <2> QED
        BY <2>1, <2>2, <2>4, <2>5 DEF SubscriptionOf
<1> QED
    BY <1>1, <1>2 DEF GapInv

LEMMA AckGap ==
    ASSUME AcceleratorTypeOK, GapInv, NEW c \in Client, Ack(c)
    PROVE  GapInv'
<1>1. /\ UNCHANGED <<start, pos, missed, fwd, pusher, subs, delivered>>
    BY DEF Ack
<1>2. CASE UNCHANGED pipe
    BY <1>1, <1>2, Untouched DEF GapInv
<1>3. ASSUME NEW t \in acking[c],
             pipe' = [pipe EXCEPT ![c] = Append(@, [topic |-> t, n |-> 0])]
      PROVE  GapInv'
    <2> DEFINE e == [topic |-> t, n |-> 0]
    <2>1. e \in Message /\ \A u \in Topic : ~ IsUpdate(e, u)
        BY DEF Message, IsUpdate, AcceleratorTypeOK
    <2>2. pipe' = [pipe EXCEPT ![c] = Append(@, e)]
        BY <1>3
    <2> HIDE DEF e
    <2>3. Stream(c)' = Append(Stream(c), e)
        BY <1>1, <2>1, <2>2, PipeGrows
    <2>4. Stream(c) \in Seq(Message)
        BY StreamType
    <2>5. ASSUME NEW u \in Topic PROVE SubscriptionOf(c, u)'
        <3> DEFINE s == Stream(c)
                   first == start[c][u]
                   at == pos[c][u]
                   lost == missed[c][u]
                   doing == fwd[c][u]
                   run == pusher[c]
                   sub == u \in subs[c]
        <3>1. Subscription(s, u, first, at, lost, doing, run, sub)
            BY DEF GapInv, SubscriptionOf
        <3>2. s \in Seq(Message)
            BY <2>4
        <3>3. /\ first = start'[c][u] /\ at = pos'[c][u] /\ lost = missed'[c][u]
              /\ doing = fwd'[c][u] /\ run = pusher'[c] /\ sub = (u \in subs'[c])
              /\ Stream(c)' = Append(s, e)
            BY <1>1, <2>3
        <3> HIDE DEF s, first, at, lost, doing, run, sub
        <3>4. Subscription(Append(s, e), u, first, at, lost, doing, run, sub)
            BY <2>1, <3>1, <3>2, OtherMessage
        <3> QED
            BY <3>3, <3>4 DEF SubscriptionOf
    <2>6. ASSUME NEW d \in Client, NEW u \in Topic, d # c PROVE SubscriptionOf(d, u)'
        <3>1. pipe'[d] = pipe[d]
            BY <1>3, <2>6 DEF AcceleratorTypeOK
        <3> QED
            BY <1>1, <3>1, Untouched
    <2> QED
        BY <2>5, <2>6 DEF GapInv
<1> QED
    BY <1>2, <1>3 DEF Ack

LEMMA ReceiveGap ==
    ASSUME AcceleratorTypeOK, GapInv, NEW c \in Client, NEW t \in Topic,
           Receive(c, t) \/ Lag(c, t)
    PROVE  GapInv'
<1>1. UNCHANGED <<start, pusher, subs, delivered, pipe>>
    BY DEF Receive, Lag
<1>2. ASSUME NEW d \in Client, NEW u \in Topic, d # c \/ u # t PROVE SubscriptionOf(d, u)'
    <2>1. /\ missed'[d][u] = missed[d][u] /\ pos'[d][u] = pos[d][u] /\ fwd'[d][u] = fwd[d][u]
        BY <1>2 DEF Receive, Lag, AcceleratorTypeOK
    <2> QED
        BY <1>1, <2>1, Untouched
<1> DEFINE s == Stream(c)
           first == start[c][t]
           at == pos[c][t]
           lost == missed[c][t]
           run == pusher[c]
           sub == t \in subs[c]
<1>3. Subscription(s, t, first, at, lost, "receiving", run, sub)
    <2>1. fwd[c][t] = "receiving"
        BY DEF Receive, Lag
    <2> QED
        BY <2>1 DEF GapInv, SubscriptionOf
<1>4. first \in Nat /\ at \in Nat /\ s \in Seq(Message)
    BY StreamType DEF AcceleratorTypeOK
<1>5. /\ Stream(c)' = s /\ start'[c][t] = first /\ pusher'[c] = run
      /\ (t \in subs'[c]) = sub
    BY <1>1 DEF Stream
<1>6. CASE Receive(c, t)
    <2>1. pos'[c][t] = at + 1 /\ fwd'[c][t] = "sending" /\ missed'[c][t] = lost
        BY <1>6 DEF Receive, AcceleratorTypeOK
    <2> HIDE DEF s, first, at, lost, run, sub
    <2>2. \A i \in 1 .. Len(s) : IsUpdate(s[i], t) => s[i].n \in Nat
        <3>1. \A i \in 1 .. Len(s) : s[i] \in Message
            BY <1>4
        <3> QED
            BY <3>1 DEF Message
    <2>3. Subscription(s, t, first, at + 1, lost, "sending", run, sub)
        <3>1. first <= at /\ sub /\ Gapless(s, t, first, lost)
            BY <1>3 DEF Subscription
        <3>2. \A i \in 1 .. Len(s) : IsUpdate(s[i], t) => s[i].n <= at + 1 /\ s[i].n < at + 1
            BY <1>3, <1>4, <2>2 DEF Subscription
        <3>3. run = "running" => \A n \in first + 1 .. at + 1 : n = at + 1 \/ Covered(s, t, lost, n)
            <4>1. \A n \in first + 1 .. at + 1 : n = at + 1 \/ n \in first + 1 .. at
                BY <1>4
            <4> QED
                BY <1>3, <4>1 DEF Subscription
        <3> QED
            BY <1>4, <3>1, <3>2, <3>3 DEF Subscription
    <2> QED
        BY <1>2, <1>5, <2>1, <2>3 DEF GapInv, SubscriptionOf
<1>7. CASE Lag(c, t)
    <2> DEFINE oldest == published[t] - RingSize
               more == lost \cup (at + 1 .. oldest)
    <2>1. oldest \in Nat /\ at < oldest
        BY <1>7, AcceleratorAssumption DEF Lag, Lagged, AcceleratorTypeOK
    <2>2. pos'[c][t] = oldest /\ fwd'[c][t] = "receiving" /\ missed'[c][t] = more
        BY <1>7 DEF Lag, AcceleratorTypeOK
    <2> HIDE DEF s, first, at, lost, run, sub, oldest
    <2>3. \A i \in 1 .. Len(s) : IsUpdate(s[i], t) => s[i].n \in Nat
        <3>1. \A i \in 1 .. Len(s) : s[i] \in Message
            BY <1>4
        <3> QED
            BY <3>1 DEF Message
    <2>4. Subscription(s, t, first, oldest, more, "receiving", run, sub)
        <3>1. first <= at /\ sub /\ Gapless(s, t, first, lost)
            BY <1>3 DEF Subscription
        <3>2. Gapless(s, t, first, more)
            BY <3>1, MoreLost
        <3>3. \A i \in 1 .. Len(s) : IsUpdate(s[i], t) => s[i].n <= oldest
            BY <1>3, <1>4, <2>1, <2>3 DEF Subscription
        <3>4. run = "running" => \A n \in first + 1 .. oldest : Covered(s, t, more, n)
            <4>1. \A n \in first + 1 .. oldest : n \in first + 1 .. at \/ n \in at + 1 .. oldest
                BY <1>4, <2>1
            <4>2. run = "running" => \A n \in first + 1 .. at : Covered(s, t, lost, n)
                BY <1>3 DEF Subscription
            <4>3. \A n : Covered(s, t, lost, n) \/ n \in at + 1 .. oldest => Covered(s, t, more, n)
                BY DEF Covered
            <4> HIDE DEF more
            <4> QED
                BY <4>1, <4>2, <4>3
        <3>5. first <= oldest
            BY <1>4, <2>1, <3>1
        <3> HIDE DEF more
        <3> QED
            BY <3>1, <3>2, <3>3, <3>4, <3>5 DEF Subscription
    <2> HIDE DEF more
    <2> QED
        BY <1>2, <1>5, <2>2, <2>4 DEF GapInv, SubscriptionOf
<1> QED
    BY <1>6, <1>7

LEMMA ForwardGap ==
    ASSUME AcceleratorTypeOK, GapInv, NEW c \in Client, NEW t \in Topic, Forward(c, t)
    PROVE  GapInv'
<1>1. UNCHANGED <<start, pos, missed, pusher, subs, delivered>>
    BY DEF Forward
<1>2. \A d \in Client, u \in Topic : d # c \/ u # t => fwd'[d][u] = fwd[d][u]
    BY DEF Forward, AcceleratorTypeOK
<1>3. \A d \in Client : d # c => pipe'[d] = pipe[d]
    BY DEF Forward, AcceleratorTypeOK
<1>4. ASSUME NEW d \in Client, NEW u \in Topic, d # c PROVE SubscriptionOf(d, u)'
    BY <1>1, <1>2, <1>3, <1>4, Untouched
<1> DEFINE s == Stream(c)
           first == start[c][t]
           at == pos[c][t]
           lost == missed[c][t]
           run == pusher[c]
           sub == t \in subs[c]
           e == [topic |-> t, n |-> at]
<1>5. /\ Subscription(s, t, first, at, lost, "sending", run, sub)
      /\ first \in Nat /\ at \in Nat /\ s \in Seq(Message) /\ e \in Message
    <2>1. fwd[c][t] = "sending"
        BY DEF Forward
    <2>2. s \in Seq(Message) /\ first \in Nat /\ at \in Nat /\ e \in Message
        BY StreamType DEF AcceleratorTypeOK, Message
    <2> QED
        BY <2>1, <2>2 DEF GapInv, SubscriptionOf
<1>6. /\ start'[c][t] = first /\ pos'[c][t] = at /\ missed'[c][t] = lost
      /\ pusher'[c] = run /\ (t \in subs'[c]) = sub
    BY <1>1
<1>7. CASE /\ Accepts(c)
           /\ pipe' = [pipe EXCEPT ![c] = Append(@, [topic |-> t, n |-> pos[c][t]])]
           /\ fwd' = [fwd EXCEPT ![c][t] = "receiving"]
    <2>1. Stream(c)' = Append(s, e)
        BY <1>1, <1>5, <1>7, PipeGrows
    <2>2. run = "running" /\ fwd'[c][t] = "receiving"
        BY <1>7 DEF Accepts, AcceleratorTypeOK
    <2>3. ASSUME NEW u \in Topic, u # t PROVE SubscriptionOf(c, u)'
        <3> DEFINE firstU == start[c][u]
                   atU == pos[c][u]
                   lostU == missed[c][u]
                   doingU == fwd[c][u]
                   subU == u \in subs[c]
        <3>1. Subscription(s, u, firstU, atU, lostU, doingU, run, subU)
            BY DEF GapInv, SubscriptionOf
        <3>2. ~ IsUpdate(e, u)
            BY <2>3 DEF IsUpdate
        <3>3. /\ firstU = start'[c][u] /\ atU = pos'[c][u] /\ lostU = missed'[c][u]
              /\ doingU = fwd'[c][u] /\ subU = (u \in subs'[c])
            BY <1>1, <1>2, <2>3
        <3> HIDE DEF s, e, run, firstU, atU, lostU, doingU, subU
        <3>4. Subscription(Append(s, e), u, firstU, atU, lostU, doingU, run, subU)
            BY <1>5, <3>1, <3>2, OtherMessage
        <3> QED
            BY <1>6, <2>1, <3>3, <3>4 DEF SubscriptionOf
    <2>4. SubscriptionOf(c, t)'
        <3> HIDE DEF s, first, at, lost, run, sub
        <3>1. Subscription(s, t, first, at, lost, "sending", "running", sub)
            BY <1>5, <2>2
        <3>2. Subscription(Append(s, [topic |-> t, n |-> at]), t, first, at, lost,
                           "receiving", "running", sub)
            BY <1>5, <3>1, OwnMessage
        <3>3. Subscription(Append(s, e), t, first, at, lost, "receiving", run, sub)
            BY <2>2, <3>2
        <3> HIDE DEF e
        <3> QED
            BY <1>6, <2>1, <2>2, <3>3 DEF SubscriptionOf
    <2> QED
        BY <1>4, <2>3, <2>4 DEF GapInv
<1>8. CASE /\ pusher[c] = "ended"
           /\ fwd' = [fwd EXCEPT ![c][t] = "ended"]
           /\ UNCHANGED pipe
    <2>1. ASSUME NEW u \in Topic, u # t PROVE SubscriptionOf(c, u)'
        BY <1>1, <1>2, <1>8, <2>1, Untouched
    <2>2. Stream(c)' = s /\ fwd'[c][t] = "ended" /\ run = "ended"
        BY <1>1, <1>8 DEF Stream, AcceleratorTypeOK
    <2> HIDE DEF s, first, at, lost, run, sub
    <2>3. Subscription(s, t, first, at, lost, "ended", run, sub)
        BY <1>5, <2>2 DEF Subscription
    <2> QED
        BY <1>4, <1>6, <2>1, <2>2, <2>3 DEF GapInv, SubscriptionOf
<1> QED
    BY <1>7, <1>8 DEF Forward

LEMMA PushGap ==
    ASSUME AcceleratorTypeOK, GapInv, NEW c \in Client, Push(c)
    PROVE  GapInv'
<1>1. UNCHANGED <<start, pos, missed, fwd, subs>>
    BY DEF Push
<1>2. ASSUME NEW d \in Client, NEW u \in Topic, d # c PROVE SubscriptionOf(d, u)'
    <2>1. delivered'[d] = delivered[d] /\ pipe'[d] = pipe[d] /\ pusher'[d] = pusher[d]
        BY <1>2 DEF Push, AcceleratorTypeOK
    <2> QED
        BY <1>1, <2>1, Untouched
<1>3. delivered[c] \in Seq(Message) /\ pipe[c] \in Seq(Message) /\ pipe[c] # <<>>
    BY DEF Push, AcceleratorTypeOK
<1>4. ASSUME NEW u \in Topic PROVE SubscriptionOf(c, u)'
    <2> DEFINE s == delivered[c]
               q == pipe[c]
               first == start[c][u]
               at == pos[c][u]
               lost == missed[c][u]
               doing == fwd[c][u]
               run == pusher[c]
               sub == u \in subs[c]
    <2>1. Subscription(s \o q, u, first, at, lost, doing, run, sub)
        BY DEF GapInv, SubscriptionOf, Stream
    <2>2. /\ start'[c][u] = first /\ pos'[c][u] = at /\ missed'[c][u] = lost
          /\ fwd'[c][u] = doing /\ (u \in subs'[c]) = sub
        BY <1>1
    <2>3. CASE socket[c] = "open"
        <3>1. delivered'[c] = Append(s, Head(q)) /\ pipe'[c] = Tail(q) /\ pusher'[c] = run
            BY <2>3 DEF Push, AcceleratorTypeOK
        <3>2. s \in Seq(Message) /\ q \in Seq(Message) /\ q # <<>>
            BY <1>3
        <3> HIDE DEF s, q, first, at, lost, doing, run, sub
        <3>3. Append(s, Head(q)) \o Tail(q) = s \o q
            BY <3>2, MoveHead
        <3> QED
            BY <2>1, <2>2, <3>1, <3>3 DEF SubscriptionOf, Stream
    <2>4. CASE socket[c] # "open"
        <3>1. delivered'[c] = s /\ pipe'[c] = <<>> /\ pusher'[c] = "ended"
            BY <2>4 DEF Push, AcceleratorTypeOK
        <3>2. s \in Seq(Message) /\ q \in Seq(Message)
            BY <1>3
        <3> HIDE DEF s, q, first, at, lost, doing, run, sub
        <3>3. s \o <<>> = s
            BY <3>2, ConcatEmptySeq
        <3>4. Subscription(s, u, first, at, lost, doing, "ended", sub)
            BY <2>1, <3>2, CutBack
        <3> QED
            BY <2>2, <3>1, <3>3, <3>4 DEF SubscriptionOf, Stream
    <2> QED
        BY <2>3, <2>4
<1> QED
    BY <1>2, <1>4 DEF GapInv

LEMMA PusherEndsGap ==
    ASSUME AcceleratorTypeOK, GapInv, NEW c \in Client, PusherEnds(c)
    PROVE  GapInv'
<1>1. UNCHANGED <<start, pos, missed, fwd, subs, delivered, pipe>>
    BY DEF PusherEnds
<1>2. ASSUME NEW d \in Client, NEW u \in Topic, d # c PROVE SubscriptionOf(d, u)'
    <2>1. pusher'[d] = pusher[d]
        BY <1>2 DEF PusherEnds, AcceleratorTypeOK
    <2> QED
        BY <1>1, <2>1, Untouched
<1>3. ASSUME NEW u \in Topic PROVE SubscriptionOf(c, u)'
    <2> DEFINE s == Stream(c)
               first == start[c][u]
               at == pos[c][u]
               lost == missed[c][u]
               doing == fwd[c][u]
               run == pusher[c]
               sub == u \in subs[c]
    <2>1. Subscription(s, u, first, at, lost, doing, run, sub)
        BY DEF GapInv, SubscriptionOf
    <2>2. /\ start'[c][u] = first /\ pos'[c][u] = at /\ missed'[c][u] = lost
          /\ fwd'[c][u] = doing /\ (u \in subs'[c]) = sub /\ Stream(c)' = s
        BY <1>1 DEF Stream
    <2>3. pusher'[c] = "ended"
        BY DEF PusherEnds, AcceleratorTypeOK
    <2> HIDE DEF s, first, at, lost, doing, run, sub
    <2>4. Subscription(s, u, first, at, lost, doing, "ended", sub)
        BY <2>1 DEF Subscription
    <2> QED
        BY <2>2, <2>3, <2>4 DEF SubscriptionOf
<1> QED
    BY <1>2, <1>3 DEF GapInv

LEMMA GapStep ==
    ASSUME AcceleratorTypeOK, GapInv, [AcceleratorNext]_acceleratorVars
    PROVE  GapInv'
<1>1. ASSUME UNCHANGED <<delivered, pipe, start, pos, missed, fwd, pusher, subs>>
      PROVE  GapInv'
    BY <1>1, Untouched DEF GapInv
<1>2. ASSUME NEW t \in Topic, Publish(t) PROVE GapInv'
    BY <1>1, <1>2 DEF Publish
<1>3. ASSUME NEW c \in Client, Disconnect(c) \/ ReaderEnds(c) PROVE GapInv'
    BY <1>1, <1>3 DEF Disconnect, ReaderEnds
<1>4. CASE UNCHANGED acceleratorVars
    BY <1>1, <1>4 DEF acceleratorVars
<1> QED
    BY <1>2, <1>3, <1>4, SubscribeGap, AckGap, ReceiveGap, ForwardGap, PushGap, PusherEndsGap
    DEF AcceleratorNext, Tasks

LEMMA GapInit == AcceleratorInit => GapInv
<1> SUFFICES ASSUME AcceleratorInit, NEW c \in Client, NEW t \in Topic
             PROVE  SubscriptionOf(c, t)
    BY DEF GapInv
<1>1. /\ delivered[c] = <<>> /\ pipe[c] = <<>> /\ start[c][t] = 0 /\ pos[c][t] = 0
      /\ fwd[c][t] = "none" /\ t \notin subs[c]
    BY DEF AcceleratorInit
<1>2. Stream(c) = <<>> /\ \A i \in 1 .. Len(Stream(c)) : FALSE
    BY <1>1 DEF Stream
<1> QED
    BY <1>1, <1>2 DEF SubscriptionOf, Subscription, Gapless

(*****************************************************************************)
(* However slow a client is and whatever else shares its pipe, it receives   *)
(* the messages of a topic in order, once, and misses none since it          *)
(* subscribed that it was not told of (accelerator.rs:95-113).               *)
(*****************************************************************************)
THEOREM NoSilentGapCorrect == AcceleratorSpec => []NoSilentGap
<1>1. AcceleratorInv /\ GapInv /\ [AcceleratorNext]_acceleratorVars => GapInv'
    BY GapStep DEF AcceleratorInv
<1>2. ASSUME AcceleratorInv, GapInv PROVE NoSilentGap
    <2> SUFFICES ASSUME NEW c \in Client, NEW t \in Topic
                 PROVE  Gapless(delivered[c], t, start[c][t], missed[c][t])
        BY DEF NoSilentGap
    <2>1. Gapless(delivered[c] \o pipe[c], t, start[c][t], missed[c][t])
        BY <1>2 DEF GapInv, SubscriptionOf, Subscription, Stream
    <2>2. delivered[c] \in Seq(Message) /\ pipe[c] \in Seq(Message)
        BY <1>2 DEF AcceleratorInv, AcceleratorTypeOK
    <2> QED
        BY <2>1, <2>2, PartGapless
<1>3. AcceleratorInv /\ GapInv => NoSilentGap
    BY <1>2
<1>4. AcceleratorInit => AcceleratorInv
    BY AcceleratorInitInv
<1>5. AcceleratorInv /\ [AcceleratorNext]_acceleratorVars => AcceleratorInv'
    BY AcceleratorStepInv
<1> QED
    BY <1>1, <1>3, <1>4, <1>5, GapInit, PTL DEF AcceleratorSpec
=============================================================================
