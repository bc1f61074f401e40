----------------------------- MODULE Connection -----------------------------
(*****************************************************************************)
(* One client connection (handle_connection, src/omega/src/main.rs:341-378   *)
(* and 593-610): the read buffer, the command parser, the limiter of the     *)
(* lite tier and the write buffer.  What a command does to the keyspace is   *)
(* Gateway's subject; here executing one is appending it to `executed'.      *)
(*                                                                           *)
(* The byte stream is a sequence of lines.  A line that is in the buffer in  *)
(* part only is one that is not there: the parser answers None in both cases *)
(* (resp.rs:158-174), and so does the search for the end of a skipped line.  *)
(* Time is counted in the steps in which the limiter earns one unit, and a   *)
(* command costs Cost units, which is one token (main.rs:368-374).           *)
(*****************************************************************************)
EXTENDS Naturals, Sequences

CONSTANTS Request,     \* what a client may send, line by line
          Lite,        \* is_lite
          Burst,       \* units a full bucket holds (2000.0 tokens)
          Cost,        \* units of one token
          FlushLimit,  \* replies write_buffer holds before it is written (524288 bytes)
          MaxRequests, \* bound: requests of the client
          MaxTime      \* bound: time that passes while the limiter does not sleep

\* What the task makes of a line it stands at, be it the header of a request or
\* an argument that the command before it did not read (those of an unknown
\* command, the members of ZADD, the odd one of MSET), and how many lines a
\* command that begins there reads.
\*   "inline" it does not begin with '*'
\*   "whole"  parse_command_fast reads the command and its arguments
\*   "batch"  MSET and MGET: parse_command_fast reads the header only
\*   "bad"    parse_command_fast never reads it: too few arguments, no UTF-8, ...
Kind == {"inline", "whole", "batch", "bad"}

Place == [kind : Kind, reads : Nat \ {0}]

\* A request is the places of its lines, in the stream it is sent in: the client
\* sends all that its command reads, but what an unread argument begins may run
\* on into the requests behind it.
ASSUME ConnectionAssumption ==
    /\ Request \subseteq Seq(Place)
    /\ \A r \in Request : /\ r # <<>>
                          /\ r[1].reads <= Len(r)
                          /\ r[1].kind = "inline" => r[1].reads = 1
    /\ Lite \in BOOLEAN
    /\ Cost \in Nat \ {0}
    /\ Burst \in Nat
    /\ Burst >= Cost
    /\ FlushLimit \in Nat
    /\ MaxRequests \in Nat
    /\ MaxTime \in Nat

VARIABLES
    stream,     \* the requests sent, in order
    open,       \* the client is there
    wire,       \* lines sent and not yet read from the socket
    buf,        \* read_buffer
    pos,        \* pos: the lines of buf that are done with
    pc,         \* where the task is
    executed,   \* the lines at which the commands executed begin
    wbuf,       \* write_buffer: the commands whose replies it holds
    replies,    \* replies written to the socket
    now,        \* Instant::now()
    tokens,     \* tokens
    lastRefill, \* last_refill
    wake        \* when the limiter's sleep is over

inputVars == <<stream, open, wire>>
bufferVars == <<buf, pos>>
replyVars == <<executed, wbuf, replies>>
limiterVars == <<tokens, lastRefill, wake>>
connectionVars == <<stream, open, wire, buf, pos, pc, executed, wbuf, replies, now,
                    tokens, lastRefill, wake>>

Line == [req : Nat \ {0}, at : Nat \ {0}]

ConnectionTypeOK ==
    /\ stream \in Seq(Request) /\ open \in BOOLEAN
    /\ wire \in Seq(Line) /\ buf \in Seq(Line)
    /\ pos \in 0..Len(buf)
    /\ pc \in {"read", "loop", "sleep", "execute", "flush", "drain", "ended"}
    /\ executed \in Seq(Line) /\ wbuf \in Seq(Line) /\ replies \in Seq(Line)
    /\ now \in Nat
    /\ tokens \in 0..Burst
    /\ lastRefill \in 0..now
    /\ wake \in Nat

ConnectionInit ==
    /\ stream = <<>> /\ open = TRUE /\ wire = <<>>
    /\ buf = <<>> /\ pos = 0 /\ pc = "read"
    /\ executed = <<>> /\ wbuf = <<>> /\ replies = <<>>
    /\ now = 0 /\ tokens = Burst /\ lastRefill = 0 /\ wake = 0

-----------------------------------------------------------------------------
(* The client and the clock.                                                 *)

\* A client may send several requests without waiting for a reply.
Send(r) ==
    /\ open /\ Len(stream) < MaxRequests
    /\ stream' = Append(stream, r)
    /\ wire' = wire \o [j \in 1..Len(r) |-> [req |-> Len(stream'), at |-> j]]
    /\ UNCHANGED <<open, bufferVars, pc, replyVars, now, limiterVars>>

\* It may go in the middle of a request; some of what it sent still arrives.
HangUp ==
    /\ open
    /\ open' = FALSE
    /\ \E n \in 0..Len(wire) : wire' = SubSeq(wire, 1, n)
    /\ UNCHANGED <<stream, bufferVars, pc, replyVars, now, limiterVars>>

Asleep == pc = "sleep" /\ now < wake

Tick ==
    /\ now < MaxTime \/ Asleep
    /\ now' = now + 1
    /\ UNCHANGED <<inputVars, bufferVars, pc, replyVars, limiterVars>>

-----------------------------------------------------------------------------
(* The task.                                                                 *)

\* read_buf takes what has arrived, at whatever line it is cut.
Read ==
    /\ pc = "read" /\ wire # <<>>
    /\ \E n \in 1..Len(wire) :
         /\ buf' = buf \o SubSeq(wire, 1, n)
         /\ wire' = SubSeq(wire, n + 1, Len(wire))
    /\ pos' = 0
    /\ pc' = "loop"
    /\ UNCHANGED <<stream, open, replyVars, now, limiterVars>>

\* read_buf answers 0.
EndOfInput ==
    /\ pc = "read" /\ wire = <<>> /\ ~open
    /\ pc' = "ended"
    /\ UNCHANGED <<inputVars, bufferVars, replyVars, now, limiterVars>>

Current == buf[pos + 1]
Command == stream[Current.req][Current.at]

\* Whichever line it is, one that begins with '*' is taken for a header.
IsHeader == Command.kind # "inline"
Available(n) == pos + n <= Len(buf)

\* parse_command_fast: whether it answers a command.
Parses ==
    /\ IsHeader
    /\ Command.kind # "bad"
    /\ Available(IF Command.kind = "batch" THEN 1 ELSE Command.reads)

\* mutant of Refilled: a bucket that overflows
RefilledUncapped == tokens + (now - lastRefill)

\* `tokens + elapsed * 200000.0', at most a full bucket.
Refilled ==
    LET earned == tokens + (now - lastRefill) IN IF earned < Burst THEN earned ELSE Burst

\* The limiter takes a token for every header it parses, the ones it parses
\* again because their batch was not complete included.
Charge ==
    /\ pc = "loop" /\ pos < Len(buf) /\ Parses
    /\ \/ /\ ~Lite
          /\ pc' = "execute"
          /\ UNCHANGED limiterVars
       \/ /\ Lite /\ Refilled >= Cost
          /\ tokens' = Refilled - Cost
          /\ lastRefill' = now
          /\ pc' = "execute"
          /\ UNCHANGED wake
       \/ /\ Lite /\ Refilled < Cost
          /\ tokens' = Refilled
          /\ lastRefill' = now
          /\ wake' = now + (Cost - Refilled)
          /\ pc' = "sleep"
    /\ UNCHANGED <<inputVars, bufferVars, replyVars, now>>

\* mutant of Sleep: the future of tokio::time::sleep is not awaited
SleepNotAwaited ==
    /\ pc = "sleep"
    /\ tokens' = 0
    /\ wake' = 0
    /\ pc' = "execute"
    /\ UNCHANGED <<inputVars, bufferVars, replyVars, now, lastRefill>>

\* The sleep is over; last_refill is still the time before it.
Sleep ==
    /\ pc = "sleep" /\ now >= wake
    /\ tokens' = 0
    /\ wake' = 0
    /\ pc' = "execute"
    /\ UNCHANGED <<inputVars, bufferVars, replyVars, now, lastRefill>>

\* mutant of Execute: `pos = current_pos' also when the batch is not complete
ExecuteConsumingHeader ==
    /\ pc = "execute"
    /\ IF Available(Command.reads)
         THEN /\ executed' = Append(executed, Current)
              /\ wbuf' = Append(wbuf, Current)
              /\ pos' = pos + Command.reads
              /\ pc' = "flush"
         ELSE /\ pc' = "drain" /\ pos' = pos + 1
              /\ UNCHANGED <<executed, wbuf>>
    /\ UNCHANGED <<inputVars, buf, replies, now, limiterVars>>

\* A batch whose arguments are not all there leaves the loop without advancing;
\* its header will be parsed again.
Execute ==
    /\ pc = "execute"
    /\ IF Available(Command.reads)
         THEN /\ executed' = Append(executed, Current)
              /\ wbuf' = Append(wbuf, Current)
              /\ pos' = pos + Command.reads
              /\ pc' = "flush"
         ELSE /\ pc' = "drain"
              /\ UNCHANGED <<executed, wbuf, pos>>
    /\ UNCHANGED <<inputVars, buf, replies, now, limiterVars>>

\* A line that does not begin with '*' is passed over.
Skip ==
    /\ pc = "loop" /\ pos < Len(buf) /\ ~IsHeader
    /\ pos' = pos + 1
    /\ pc' = "flush"
    /\ UNCHANGED <<inputVars, buf, replyVars, now, limiterVars>>

\* A line that begins with '*' and does not parse, or the end of the buffer.
\* The first stays where it is, and the task stays there with it for ever if no
\* lines that are still to come make it parse.
Break ==
    /\ pc = "loop"
    /\ pos < Len(buf) => IsHeader /\ ~Parses
    /\ pc' = "drain"
    /\ UNCHANGED <<inputVars, bufferVars, replyVars, now, limiterVars>>

\* write_all and clear: an error, once the client is gone, ends the task.
Write ==
    \/ /\ replies' = replies \o wbuf
       /\ wbuf' = <<>>
       /\ UNCHANGED executed
    \/ ~open /\ UNCHANGED replyVars

Flush ==
    /\ pc = "flush"
    /\ IF Len(wbuf) > FlushLimit
         THEN Write /\ pc' = IF wbuf' = <<>> THEN "loop" ELSE "ended"
         ELSE UNCHANGED replyVars /\ pc' = "loop"
    /\ UNCHANGED <<inputVars, bufferVars, now, limiterVars>>

\* mutant of Drain: replies are written only once there are enough of them
DrainWhenFull ==
    /\ pc = "drain"
    /\ buf' = SubSeq(buf, pos + 1, Len(buf))
    /\ pos' = 0
    /\ IF Len(wbuf) > FlushLimit
         THEN Write /\ pc' = IF wbuf' = <<>> THEN "read" ELSE "ended"
         ELSE UNCHANGED replyVars /\ pc' = "read"
    /\ UNCHANGED <<inputVars, now, limiterVars>>

\* mutant of Drain: read_buffer.clear() for advance(pos)
DrainClearing ==
    /\ pc = "drain"
    /\ buf' = <<>>
    /\ pos' = 0
    /\ IF wbuf # <<>>
         THEN Write /\ pc' = IF wbuf' = <<>> THEN "read" ELSE "ended"
         ELSE UNCHANGED replyVars /\ pc' = "read"
    /\ UNCHANGED <<inputVars, now, limiterVars>>

\* read_buffer.advance(pos), then the rest of the replies.
Drain ==
    /\ pc = "drain"
    /\ buf' = SubSeq(buf, pos + 1, Len(buf))
    /\ pos' = 0
    /\ IF wbuf # <<>>
         THEN Write /\ pc' = IF wbuf' = <<>> THEN "read" ELSE "ended"
         ELSE UNCHANGED replyVars /\ pc' = "read"
    /\ UNCHANGED <<inputVars, now, limiterVars>>

TaskStep ==
    \/ Read \/ EndOfInput \/ Charge \/ Sleep \/ Execute
    \/ Skip \/ Break \/ Flush \/ Drain

ConnectionNext == (\E r \in Request : Send(r)) \/ HangUp \/ Tick \/ TaskStep

ConnectionSpec == ConnectionInit /\ [][ConnectionNext]_connectionVars

\* The runtime polls the task, and time passes.
ConnectionLiveSpec ==
    ConnectionSpec /\ WF_connectionVars(TaskStep) /\ WF_connectionVars(Tick)

-----------------------------------------------------------------------------
(* Properties.                                                               *)

Header(i) == [req |-> i, at |-> 1]

Before(p, q) == p.req < q.req \/ (p.req = q.req /\ p.at < q.at)

\* The lines of a request that its command does not read.
Unread(r) == r[1].reads + 1..Len(r)

\* Up to p a line that a command did not read begins with '*': what the task
\* makes of the stream from there on is not what the client meant.
StrayBy(p) ==
    \E i \in 1..Len(stream) : \E j \in Unread(stream[i]) :
        stream[i][j].kind # "inline" /\ ~Before(p, [req |-> i, at |-> j])

\* The requests that get an answer: all with a header, up to one that never
\* parses or an unread line that begins with '*'.
Answerable ==
    {i \in 1..Len(stream) : /\ stream[i][1].kind # "inline"
                            /\ \A j \in 1..i : stream[j][1].kind # "bad"
                            /\ ~StrayBy(Header(i))}

\* However reads cut the stream and however often a header is parsed again, no
\* line is executed twice and the task never goes back.  Until an argument that
\* its command does not read begins with '*', the commands executed are the
\* requests sent, in order, and none is passed over; such an argument may itself
\* be executed as a command nobody sent (main.rs:361-607).
ExecutedInOrder ==
    \A k \in 1..Len(executed) :
        /\ StrayBy(executed[k]) \/ \E i \in Answerable : executed[k] = Header(i)
        /\ \A j \in 1..k - 1 : Before(executed[j], executed[k])
        /\ \A i \in Answerable :
              Before(Header(i), executed[k]) => \E j \in 1..k - 1 : executed[j] = Header(i)

\* Every command executed has one reply, in order, written or in the write
\* buffer, and the task never waits for input while it owes one (main.rs:605,
\* 608): a client that waits for its reply before it goes on cannot hang.
EachAnsweredOnce ==
    /\ replies \o wbuf = executed
    /\ pc = "read" => wbuf = <<>>

\* What the limiter of the lite tier guarantees (main.rs:364-376).  It is twice
\* the rate of its bucket, because the time it sleeps is earned again: the next
\* command finds last_refill at the time before the sleep.
RateBound == Lite => Cost * Len(executed) <= Burst + 2 * now

\* A request is answered, unless the client goes, or a request up to it never
\* parses, or an argument before it that its command does not read begins with
\* '*': behind KEYS * the task waits for ever for the rest of a command.
EveryRequestAnswered ==
    \A i \in 1..MaxRequests :
        i \in Answerable
            ~> (~open \/ \E j \in 1..Len(replies) : replies[j] = Header(i))

=============================================================================
