-------------------------- MODULE ConnectionProofs --------------------------
(*****************************************************************************)
(* For every set of requests, every bucket and every bound: a connection     *)
(* keeps its types, executes the requests in the order they were sent until  *)
(* an argument nobody reads looks like a command, answers each command once  *)
(* and in order and never waits while it owes an answer, and the lite tier   *)
(* executes no more than its limiter allows.                                 *)
(*****************************************************************************)
EXTENDS Connection, Induction, TLAPS, SequenceTheorems

(*****************************************************************************)
(* Types.  That a command is at hand when one is charged or executed, and    *)
(* that every line is one of a request sent, is what makes them inductive.   *)
(*****************************************************************************)
Among(requests, line) ==
    line.req \in 1 .. Len(requests) /\ line.at \in 1 .. Len(requests[line.req])

Known(lines) == \A i \in 1 .. Len(lines) : Among(stream, lines[i])

TypeInv ==
    /\ ConnectionTypeOK
    /\ Known(wire)
    /\ Known(buf)
    /\ pc \in {"sleep", "execute"} => pos < Len(buf)

\* What a client sends has a first line, and all that its command reads.
LEMMA RequestIs ==
    ASSUME NEW r \in Request
    PROVE  /\ Len(r) \in Nat \ {0}
           /\ \A j \in 1 .. Len(r) : r[j] \in Place
           /\ r[1] \in Place /\ r[1].reads \in Nat \ {0} /\ r[1].reads <= Len(r)
           /\ r[1].kind = "inline" => r[1].reads = 1
<1>1. r \in Seq(Place) /\ r # <<>>
    BY ConnectionAssumption
<1>2. Len(r) \in Nat \ {0} /\ \A j \in 1 .. Len(r) : r[j] \in Place
    BY <1>1
<1>3. r[1] \in Place
    BY <1>2
<1> QED
    BY <1>2, <1>3, ConnectionAssumption DEF Place

\* The current line is one that was sent.
LEMMA CurrentType ==
    ASSUME TypeInv, pos < Len(buf)
    PROVE  /\ Current \in Line
           /\ Current.req \in 1 .. Len(stream)
           /\ stream[Current.req] \in Request
           /\ Current.at \in 1 .. Len(stream[Current.req])
           /\ Command \in Place
           /\ Command.reads \in Nat \ {0}
<1>1. pos + 1 \in 1 .. Len(buf)
    BY DEF TypeInv, ConnectionTypeOK
<1>2. Current \in Line
    BY <1>1 DEF TypeInv, ConnectionTypeOK, Current
<1>3. Current.req \in 1 .. Len(stream) /\ Current.at \in 1 .. Len(stream[Current.req])
    BY <1>1 DEF TypeInv, Known, Among, Current
<1>4. stream[Current.req] \in Request
    BY <1>3 DEF TypeInv, ConnectionTypeOK
<1>5. Command \in Place
    BY <1>3, <1>4, RequestIs DEF Command
<1>6. Command.reads \in Nat \ {0}
    BY <1>5 DEF Place
<1> QED
    BY <1>2, <1>3, <1>4, <1>5, <1>6

\* What is left of a sequence of lines, or what is taken of it, is lines still.
LEMMA PartType ==
    ASSUME NEW lines \in Seq(Line), NEW a \in 1 .. Len(lines) + 1, NEW b \in 0 .. Len(lines),
           Known(lines)
    PROVE  /\ SubSeq(lines, a, b) \in Seq(Line)
           /\ Known(SubSeq(lines, a, b))
<1>1. \A i \in a .. b : lines[i] \in Line
    OBVIOUS
<1>2. /\ SubSeq(lines, a, b) \in Seq(Line)
      /\ Len(SubSeq(lines, a, b)) = IF a <= b THEN b - a + 1 ELSE 0
      /\ \A i \in 1 .. b - a + 1 : SubSeq(lines, a, b)[i] = lines[a + i - 1]
    BY <1>1, SubSeqProperties
<1>3. ASSUME NEW i \in 1 .. Len(SubSeq(lines, a, b))
      PROVE  Among(stream, SubSeq(lines, a, b)[i])
    <2>1. /\ i \in 1 .. b - a + 1
          /\ a + i - 1 \in 1 .. Len(lines)
        BY <1>2, <1>3
    <2> QED
        BY <2>1, <1>2 DEF Known
<1> QED
    BY <1>2, <1>3 DEF Known

LEMMA JoinType ==
    ASSUME NEW s \in Seq(Line), NEW t \in Seq(Line), Known(s), Known(t)
    PROVE  s \o t \in Seq(Line) /\ Known(s \o t)
<1>1. /\ s \o t \in Seq(Line)
      /\ Len(s \o t) = Len(s) + Len(t)
      /\ \A i \in 1 .. Len(s) + Len(t) :
             (s \o t)[i] = IF i <= Len(s) THEN s[i] ELSE t[i - Len(s)]
    BY ConcatProperties
<1>2. ASSUME NEW i \in 1 .. Len(s \o t)
      PROVE  Among(stream, (s \o t)[i])
    <2>1. CASE i <= Len(s)
        BY <1>1, <1>2, <2>1 DEF Known
    <2>2. CASE i > Len(s)
        <3>1. i - Len(s) \in 1 .. Len(t)
            BY <1>1, <1>2, <2>2
        <3> QED
            BY <1>1, <1>2, <2>2, <3>1 DEF Known
    <2> QED
        BY <2>1, <2>2, <1>1
<1> QED
    BY <1>1, <1>2 DEF Known

LEMMA RefilledType ==
    ASSUME ConnectionTypeOK
    PROVE  Refilled \in 0 .. Burst /\ Refilled <= tokens + (now - lastRefill)
<1>1. now - lastRefill \in Nat /\ tokens \in Nat /\ Burst \in Nat /\ tokens <= Burst
    BY ConnectionAssumption DEF ConnectionTypeOK
<1> QED
    BY <1>1 DEF Refilled

LEMMA TypeInit == ConnectionInit => TypeInv
BY ConnectionAssumption DEF ConnectionInit, TypeInv, ConnectionTypeOK, Known

LEMMA WriteType ==
    ASSUME ConnectionTypeOK, Write
    PROVE  executed' \in Seq(Line) /\ wbuf' \in Seq(Line) /\ replies' \in Seq(Line)
<1>1. replies \in Seq(Line) /\ wbuf \in Seq(Line) /\ executed \in Seq(Line)
    BY DEF ConnectionTypeOK
<1>2. replies \o wbuf \in Seq(Line)
    BY <1>1, ConcatProperties
<1>3. CASE replies' = replies \o wbuf /\ wbuf' = <<>> /\ UNCHANGED executed
    BY <1>1, <1>2, <1>3
<1>4. CASE UNCHANGED replyVars
    BY <1>1, <1>4 DEF replyVars
<1> QED
    BY <1>3, <1>4 DEF Write

LEMMA TypeStep ==
    ASSUME TypeInv, [ConnectionNext]_connectionVars
    PROVE  TypeInv'
<1> USE DEF TypeInv, ConnectionTypeOK, inputVars, bufferVars, replyVars, limiterVars
<1>1. ASSUME NEW r \in Request, Send(r)
      PROVE  TypeInv'
    <2> DEFINE lines == [j \in 1 .. Len(r) |-> [req |-> Len(stream'), at |-> j]]
    <2>1. /\ stream' \in Seq(Request)
          /\ Len(stream') = Len(stream) + 1
          /\ wire' = wire \o lines
        BY <1>1 DEF Send
    <2>2. Len(r) \in Nat /\ Len(stream) \in Nat
        BY RequestIs
    <2>3. \A j \in 1 .. Len(r) : [req |-> Len(stream'), at |-> j] \in Line
        BY <2>1, <2>2 DEF Line
    <2>4. lines \in Seq(Line) /\ Len(lines) = Len(r)
        <3>1. lines \in [1 .. Len(r) -> Line]
            BY <2>3
        <3>2. lines \in Seq(Line) /\ DOMAIN lines = 1 .. Len(r)
            <4>1. DOMAIN lines = 1 .. Len(r)
                OBVIOUS
            <4> HIDE DEF lines
            <4>2. \E n \in Nat : lines \in [1 .. n -> Line]
                BY <2>2, <3>1
            <4>3. Seq(Line) = UNION {[1 .. n -> Line] : n \in Nat}
                BY SeqDef
            <4>4. lines \in Seq(Line)
                BY <4>2, <4>3, Zenon
            <4> QED
                BY <4>1, <4>4
        <3>3. Len(lines) \in Nat /\ 1 .. Len(lines) = 1 .. Len(r)
            <4> HIDE DEF lines
            <4> QED
                BY <3>2, LenProperties
        <3> HIDE DEF lines
        <3> QED
            BY <2>2, <3>2, <3>3
    <2>5. \A j \in 1 .. Len(lines) : lines[j].req = Len(stream) + 1 /\ lines[j].at \in 1 .. Len(r)
        BY <2>1, <2>2, <2>4
    <2>8. /\ stream'[Len(stream) + 1] = r
          /\ \A i \in 1 .. Len(stream) : stream'[i] = stream[i]
        BY <1>1, AppendElements DEF Send
    <2>9. ASSUME NEW line, Among(stream, line)
          PROVE  Among(stream', line)
        BY <2>1, <2>2, <2>8, <2>9 DEF Among
    <2>10. ASSUME NEW line, line.req = Len(stream) + 1, line.at \in 1 .. Len(r)
           PROVE  Among(stream', line)
        BY <2>1, <2>2, <2>8, <2>10 DEF Among
    <2>6. wire' \in Seq(Line) /\ Known(wire)'
        <3>1. /\ wire \o lines \in Seq(Line)
              /\ Len(wire \o lines) = Len(wire) + Len(lines)
              /\ \A i \in 1 .. Len(wire) + Len(lines) : (wire \o lines)[i] =
                     IF i <= Len(wire) THEN wire[i] ELSE lines[i - Len(wire)]
            BY <2>4, ConcatProperties
        <3>2. ASSUME NEW i \in 1 .. Len(wire \o lines)
              PROVE  Among(stream', (wire \o lines)[i])
            <4> HIDE DEF lines
            <4>1. CASE i <= Len(wire)
                <5>1. (wire \o lines)[i] = wire[i] /\ Among(stream, wire[i])
                    BY <3>1, <3>2, <4>1 DEF Known
                <5> QED
                    BY <5>1, <2>9
            <4>2. CASE i > Len(wire)
                <5>1. i - Len(wire) \in 1 .. Len(lines)
                    BY <3>1, <3>2, <4>2, <2>4, SMTT(30)
                <5>2. (wire \o lines)[i] = lines[i - Len(wire)]
                    BY <3>1, <3>2, <4>2
                <5>3. Among(stream', lines[i - Len(wire)])
                    BY <5>1, <2>5, <2>10
                <5> QED
                    BY <5>2, <5>3
            <4>3. i \in Nat /\ Len(wire) \in Nat
                <5>1. wire \in Seq(Line) /\ i \in 1 .. Len(wire \o lines)
                    BY <3>2
                <5> HIDE DEF TypeInv, ConnectionTypeOK
                <5> QED
                    BY <5>1
            <4> QED
                BY <4>1, <4>2, <4>3
        <3> HIDE DEF lines
        <3> QED
            BY <2>1, <3>1, <3>2 DEF Known
    <2>7. Known(buf)'
        BY <1>1, <2>9 DEF Send, Known
    <2> QED
        BY <1>1, <2>1, <2>6, <2>7 DEF Send
<1>2. CASE HangUp
    <2>1. PICK n \in 0 .. Len(wire) : wire' = SubSeq(wire, 1, n)
        BY <1>2 DEF HangUp
    <2>2. SubSeq(wire, 1, n) \in Seq(Line) /\ Known(SubSeq(wire, 1, n))
        BY PartType
    <2>3. Known(wire)' /\ Known(buf)'
        BY <1>2, <2>1, <2>2 DEF HangUp, Known
    <2>4. wire' \in Seq(Line)
        BY <2>1, <2>2
    <2> QED
        BY <1>2, <2>3, <2>4 DEF HangUp
<1>3. CASE Tick
    BY <1>3 DEF Tick, Known
<1>4. CASE Read
    <2>1. PICK n \in 1 .. Len(wire) :
              /\ buf' = buf \o SubSeq(wire, 1, n)
              /\ wire' = SubSeq(wire, n + 1, Len(wire))
        BY <1>4 DEF Read
    <2>0. /\ wire \in Seq(Line) /\ Known(wire)
          /\ 1 \in 1 .. Len(wire) + 1 /\ n \in 0 .. Len(wire)
          /\ n + 1 \in 1 .. Len(wire) + 1 /\ Len(wire) \in 0 .. Len(wire)
        OBVIOUS
    <2> HIDE DEF TypeInv, ConnectionTypeOK
    <2>2. SubSeq(wire, 1, n) \in Seq(Line) /\ Known(SubSeq(wire, 1, n))
        BY <2>0, PartType
    <2>3. SubSeq(wire, n + 1, Len(wire)) \in Seq(Line) /\ Known(SubSeq(wire, n + 1, Len(wire)))
        BY <2>0, PartType
    <2> USE DEF TypeInv, ConnectionTypeOK
    <2>4. buf \o SubSeq(wire, 1, n) \in Seq(Line) /\ Known(buf \o SubSeq(wire, 1, n))
        BY <2>2, JoinType
    <2>5. stream' = stream /\ buf' \in Seq(Line) /\ wire' \in Seq(Line)
        BY <1>4, <2>1, <2>3, <2>4 DEF Read
    <2>6. Known(buf)' /\ Known(wire)'
        BY <2>1, <2>3, <2>4, <2>5 DEF Known
    <2>7. pos' \in 0 .. Len(buf')
        BY <1>4, <2>5 DEF Read
    <2> QED
        BY <1>4, <2>5, <2>6, <2>7 DEF Read
<1>5. CASE EndOfInput
    BY <1>5 DEF EndOfInput, Known
<1>6. CASE Charge
    <2>1. Refilled \in 0 .. Burst
        BY RefilledType
    <2>2. tokens' \in 0 .. Burst /\ lastRefill' \in 0 .. now' /\ wake' \in Nat
        BY <1>6, <2>1, ConnectionAssumption, SMTT(30) DEF Charge
    <2> QED
        BY <1>6, <2>2 DEF Charge, Known
<1>7. CASE Sleep
    BY <1>7, ConnectionAssumption DEF Sleep, Known
<1>8. CASE Execute
    <2>1. Current \in Line /\ Command.reads \in Nat
        BY <1>8, CurrentType DEF Execute
    <2>2. pos' \in 0 .. Len(buf')
        BY <1>8, <2>1, SMTT(30) DEF Execute, Available
    <2>3. executed' \in Seq(Line) /\ wbuf' \in Seq(Line)
        <3>1. /\ Append(executed, Current) \in Seq(Line)
              /\ Append(wbuf, Current) \in Seq(Line)
            BY <2>1, AppendProperties
        <3> QED
            BY <1>8, <3>1 DEF Execute
    <2> QED
        BY <1>8, <2>2, <2>3 DEF Execute, Known
<1>9. CASE Skip
    BY <1>9 DEF Skip, Known
<1>10. CASE Break
    BY <1>10 DEF Break, Known
<1>11. CASE Flush
    <2>1. executed' \in Seq(Line) /\ wbuf' \in Seq(Line) /\ replies' \in Seq(Line)
        BY <1>11, WriteType DEF Flush
    <2>2. pc' \in {"loop", "ended"}
        BY <1>11 DEF Flush
    <2> QED
        BY <1>11, <2>1, <2>2 DEF Flush, Known
<1>12. CASE Drain
    <2>1. executed' \in Seq(Line) /\ wbuf' \in Seq(Line) /\ replies' \in Seq(Line)
        BY <1>12, WriteType DEF Drain
    <2>2. pc' \in {"read", "ended"}
        BY <1>12 DEF Drain
    <2>3. buf' \in Seq(Line) /\ Known(buf)'
        <3>1. /\ buf \in Seq(Line) /\ Known(buf)
              /\ pos + 1 \in 1 .. Len(buf) + 1 /\ Len(buf) \in 0 .. Len(buf)
            OBVIOUS
        <3> HIDE DEF TypeInv, ConnectionTypeOK
        <3>2. /\ SubSeq(buf, pos + 1, Len(buf)) \in Seq(Line)
              /\ Known(SubSeq(buf, pos + 1, Len(buf)))
            BY <3>1, PartType
        <3> QED
            BY <1>12, <3>2 DEF Drain, Known, inputVars
    <2> QED
        BY <1>12, <2>1, <2>2, <2>3, SMTT(30) DEF Drain, Known
<1>13. CASE UNCHANGED connectionVars
    BY <1>13 DEF connectionVars, Known
<1> QED
    BY <1>1, <1>2, <1>3, <1>4, <1>5, <1>6, <1>7, <1>8, <1>9, <1>10, <1>11, <1>12, <1>13
    DEF ConnectionNext, TaskStep

\* The variables of a connection keep their types (main.rs:350-355).
THEOREM ConnectionTypeCorrect == ConnectionSpec => []ConnectionTypeOK
<1>1. TypeInv /\ [ConnectionNext]_connectionVars => TypeInv'
    BY TypeStep
<1>2. TypeInv => ConnectionTypeOK
    BY DEF TypeInv
<1> QED
    BY TypeInit, <1>1, <1>2, PTL DEF ConnectionSpec

LEMMA TypeInvariant == ConnectionSpec => []TypeInv
<1>1. TypeInv /\ [ConnectionNext]_connectionVars => TypeInv'
    BY TypeStep
<1> QED
    BY TypeInit, <1>1, PTL DEF ConnectionSpec

(*****************************************************************************)
(* One reply for each command.  The property is inductive once the types     *)
(* are known.                                                                *)
(*****************************************************************************)
LEMMA AnswerInit == ConnectionInit => EachAnsweredOnce
BY DEF ConnectionInit, EachAnsweredOnce

\* Writing moves the replies from the buffer to the socket.
LEMMA WriteKeepsAnswers ==
    ASSUME ConnectionTypeOK, replies \o wbuf = executed, Write
    PROVE  (replies \o wbuf = executed)'
<1>1. replies \in Seq(Line) /\ wbuf \in Seq(Line)
    BY DEF ConnectionTypeOK
<1>2. CASE replies' = replies \o wbuf /\ wbuf' = <<>> /\ UNCHANGED executed
    <2>1. replies \o wbuf \in Seq(Line)
        BY <1>1, ConcatProperties
    <2>2. (replies \o wbuf) \o <<>> = replies \o wbuf
        BY <2>1, ConcatEmptySeq
    <2> QED
        BY <1>2, <2>2
<1>3. CASE UNCHANGED replyVars
    BY <1>3 DEF replyVars
<1> QED
    BY <1>2, <1>3 DEF Write

LEMMA ReplyAppended ==
    ASSUME NEW s \in Seq(Line), NEW t \in Seq(Line), NEW x \in Line
    PROVE  s \o Append(t, x) = Append(s \o t, x)
BY AppendToConcat

LEMMA AnswerStep ==
    ASSUME TypeInv, EachAnsweredOnce, [ConnectionNext]_connectionVars
    PROVE  EachAnsweredOnce'
<1> USE DEF EachAnsweredOnce, replyVars
<1>0. ConnectionTypeOK
    BY DEF TypeInv
<1>1. ASSUME NEW r \in Request, Send(r)
      PROVE  EachAnsweredOnce'
    BY <1>1 DEF Send
<1>2. CASE HangUp
    BY <1>2 DEF HangUp
<1>3. CASE Tick
    BY <1>3 DEF Tick
<1>4. CASE Read
    BY <1>4 DEF Read
<1>5. CASE EndOfInput
    BY <1>5 DEF EndOfInput
<1>6. CASE Charge
    BY <1>6 DEF Charge
<1>7. CASE Sleep
    BY <1>7 DEF Sleep
<1>8. CASE Execute
    <2>1. CASE Available(Command.reads)
        <3>1. Current \in Line
            <4>1. pos < Len(buf)
                BY <1>8 DEF Execute, TypeInv
            <4> QED
                BY <4>1, CurrentType
        <3>2. replies \in Seq(Line) /\ wbuf \in Seq(Line)
            BY <1>0 DEF ConnectionTypeOK
        <3>3. replies \o Append(wbuf, Current) = Append(replies \o wbuf, Current)
            BY Zenon, <3>1, <3>2, ReplyAppended
        <3>4. /\ executed' = Append(executed, Current)
              /\ wbuf' = Append(wbuf, Current)
              /\ pc' = "flush"
            BY Zenon, <1>8, <2>1 DEF Execute
        <3>6. replies' = replies
            BY Zenon, <1>8 DEF Execute
        <3>5. replies' \o wbuf' = executed'
            BY <3>3, <3>4, <3>6
        <3> QED
            BY <3>4, <3>5
    <2>2. CASE ~Available(Command.reads)
        BY <1>8, <2>2 DEF Execute
    <2> QED
        BY <2>1, <2>2
<1>9. CASE Skip
    BY <1>9 DEF Skip
<1>10. CASE Break
    BY <1>10 DEF Break
<1>11. CASE Flush
    <2>1. pc' # "read"
        BY <1>11 DEF Flush
    <2>2. (replies \o wbuf = executed)'
        BY <1>0, <1>11, WriteKeepsAnswers DEF Flush
    <2> QED
        BY <2>1, <2>2
<1>12. CASE Drain
    <2>1. (replies \o wbuf = executed)'
        BY <1>0, <1>12, WriteKeepsAnswers DEF Drain
    <2>2. pc' = "read" => wbuf' = <<>>
        BY <1>12 DEF Drain
    <2> QED
        BY <2>1, <2>2
<1>13. CASE UNCHANGED connectionVars
    BY <1>13 DEF connectionVars
<1> QED
    BY <1>1, <1>2, <1>3, <1>4, <1>5, <1>6, <1>7, <1>8, <1>9, <1>10, <1>11, <1>12, <1>13
    DEF ConnectionNext, TaskStep

\* Whatever the reads cut, the writes fail or the client pipelines, each command
\* executed has one reply, in order, and the task never waits for input while it
\* owes one (main.rs:605, 608).
THEOREM ConnectionAnswersEachOnce == ConnectionSpec => []EachAnsweredOnce
<1>1. TypeInv /\ EachAnsweredOnce /\ [ConnectionNext]_connectionVars => EachAnsweredOnce'
    BY AnswerStep
<1> QED
    BY AnswerInit, TypeInvariant, <1>1, PTL DEF ConnectionSpec

(*****************************************************************************)
(* The rate.  What was spent and what is in the bucket never exceed the      *)
(* bucket's size, what was earned up to last_refill, and what was slept --   *)
(* at most the time there was.  While the task sleeps, the time of its sleep *)
(* is still to come, so the bound is tighter by that much.                   *)
(*****************************************************************************)
Spent == Cost * Len(executed)

RateInv ==
    Lite => /\ pc = "execute" => Spent + Cost + tokens <= Burst + lastRefill + now
            /\ pc = "sleep" => /\ Spent + tokens <= Burst + lastRefill + lastRefill
                               /\ wake = lastRefill + (Cost - tokens)
                               /\ tokens < Cost
            /\ pc \notin {"execute", "sleep"} => Spent + tokens <= Burst + lastRefill + now

LEMMA Amounts ==
    ASSUME ConnectionTypeOK
    PROVE  /\ Spent \in Nat /\ Cost \in Nat /\ Burst \in Nat
           /\ tokens \in Nat /\ now \in Nat /\ lastRefill \in Nat /\ lastRefill <= now
           /\ \A x : Cost * Len(Append(executed, x)) = Spent + Cost
<1>1. Cost \in Nat /\ Len(executed) \in Nat
    BY ConnectionAssumption DEF ConnectionTypeOK
<1>2. Cost * (Len(executed) + 1) = Cost * Len(executed) + Cost
    BY <1>1
<1>3. \A x : Len(Append(executed, x)) = Len(executed) + 1
    BY DEF ConnectionTypeOK
<1>4. \A x : Cost * Len(Append(executed, x)) = Spent + Cost
    BY <1>2, <1>3 DEF Spent
<1>5. Spent \in Nat
    BY <1>1 DEF Spent
<1>6. /\ Burst \in Nat /\ tokens \in Nat /\ now \in Nat
      /\ lastRefill \in Nat /\ lastRefill <= now
    BY ConnectionAssumption DEF ConnectionTypeOK
<1> QED
    BY <1>1, <1>4, <1>5, <1>6

LEMMA RateInit == ConnectionInit => RateInv
<1> SUFFICES ASSUME ConnectionInit PROVE RateInv
    OBVIOUS
<1>1. Len(executed) = 0 /\ Cost * 0 = 0
    BY ConnectionAssumption DEF ConnectionInit
<1> QED
    BY <1>1, ConnectionAssumption DEF ConnectionInit, RateInv, Spent

\* Steps that execute nothing and leave the limiter alone, but for the clock.
LEMMA RateIdle ==
    ASSUME TypeInv, RateInv, UNCHANGED <<executed, tokens, lastRefill, wake>>,
           now' \in Nat, now <= now',
           pc' = pc \/ (pc \notin {"execute", "sleep"} /\ pc' \notin {"execute", "sleep"})
    PROVE  RateInv'
<1>1. Spent' = Spent
    BY DEF Spent
<1>2. ConnectionTypeOK
    BY DEF TypeInv
<1>3. CASE pc' = pc
    BY <1>1, <1>2, <1>3, Amounts DEF RateInv
<1>4. CASE pc \notin {"execute", "sleep"} /\ pc' \notin {"execute", "sleep"}
    BY <1>1, <1>2, <1>4, Amounts DEF RateInv
<1> QED
    BY <1>3, <1>4

LEMMA RateStep ==
    ASSUME TypeInv, RateInv, [ConnectionNext]_connectionVars
    PROVE  RateInv'
<1> USE DEF replyVars, limiterVars
<1>0. ConnectionTypeOK
    BY DEF TypeInv
<1>1. ASSUME NEW r \in Request, Send(r)
      PROVE  RateInv'
    BY <1>0, <1>1, RateIdle, Amounts DEF Send
<1>2. CASE HangUp
    BY <1>0, <1>2, RateIdle, Amounts DEF HangUp
<1>3. CASE Tick
    BY <1>0, <1>3, RateIdle, Amounts DEF Tick
<1>4. CASE Read
    BY <1>0, <1>4, RateIdle, Amounts DEF Read
<1>5. CASE EndOfInput
    BY <1>0, <1>5, RateIdle, Amounts DEF EndOfInput
<1>6. CASE Charge
    <2>1. SUFFICES ASSUME Lite PROVE RateInv'
        BY DEF RateInv
    <2>2. /\ Spent' = Spent
          /\ pc = "loop" /\ now' = now
          /\ lastRefill' = now
        BY <1>6, <2>1 DEF Charge, Spent
    <2>3. Spent + tokens <= Burst + lastRefill + now
        BY <2>1, <2>2 DEF RateInv
    <2>4. Refilled \in Nat /\ Refilled <= tokens + (now - lastRefill)
        BY <1>0, RefilledType
    <2>5. Spent + Refilled <= Burst + now + now
        BY <1>0, <2>3, <2>4, Amounts, SMTT(30)
    <2>6. CASE Refilled >= Cost
        <3>1. tokens' = Refilled - Cost /\ pc' = "execute"
            BY <1>0, <1>6, <2>1, <2>4, <2>6, Amounts DEF Charge
        <3>2. Spent + Cost + tokens' <= Burst + now + now
            BY <1>0, <2>4, <2>5, <3>1, Amounts
        <3> QED
            BY <2>2, <3>1, <3>2 DEF RateInv
    <2>7. CASE Refilled < Cost
        <3>1. tokens' = Refilled /\ pc' = "sleep" /\ wake' = now + (Cost - Refilled)
            BY <1>0, <1>6, <2>1, <2>4, <2>7, Amounts DEF Charge
        <3> QED
            BY <2>2, <2>5, <2>7, <3>1 DEF RateInv
    <2> QED
        BY <1>0, <2>4, <2>6, <2>7, Amounts
<1>7. CASE Sleep
    <2>1. SUFFICES ASSUME Lite PROVE RateInv'
        BY DEF RateInv
    <2>2. /\ Spent' = Spent /\ tokens' = 0 /\ pc' = "execute"
          /\ UNCHANGED <<lastRefill, now>>
          /\ pc = "sleep" /\ now >= wake
        BY <1>7 DEF Sleep, Spent
    <2>3. /\ Spent + tokens <= Burst + lastRefill + lastRefill
          /\ wake = lastRefill + (Cost - tokens)
        BY <2>1, <2>2 DEF RateInv
    <2>4. Spent + Cost <= Burst + lastRefill + now
        BY <1>0, <2>2, <2>3, Amounts
    <2> QED
        BY <1>0, <2>2, <2>4, Amounts DEF RateInv
<1>8. CASE Execute
    <2>1. SUFFICES ASSUME Lite PROVE RateInv'
        BY DEF RateInv
    <2>2. /\ pc = "execute" /\ pc' \in {"flush", "drain"}
          /\ UNCHANGED <<tokens, lastRefill, now>>
        BY <1>8 DEF Execute
    <2>3. Spent + Cost + tokens <= Burst + lastRefill + now
        BY <2>1, <2>2 DEF RateInv
    <2>4. Spent' = Spent \/ Spent' = Spent + Cost
        BY <1>0, <1>8, Amounts DEF Execute, Spent
    <2>5. Spent' + tokens <= Burst + lastRefill + now
        BY <1>0, <2>3, <2>4, Amounts
    <2> QED
        BY <2>2, <2>5 DEF RateInv
<1>9. CASE Skip
    BY <1>0, <1>9, RateIdle, Amounts DEF Skip
<1>10. CASE Break
    BY <1>0, <1>10, RateIdle, Amounts DEF Break
<1>11. CASE Flush
    BY <1>0, <1>11, RateIdle, Amounts DEF Flush, Write
<1>12. CASE Drain
    BY <1>0, <1>12, RateIdle, Amounts DEF Drain, Write
<1>13. CASE UNCHANGED connectionVars
    BY <1>0, <1>13, RateIdle, Amounts DEF connectionVars
<1> QED
    BY <1>1, <1>2, <1>3, <1>4, <1>5, <1>6, <1>7, <1>8, <1>9, <1>10, <1>11, <1>12, <1>13
    DEF ConnectionNext, TaskStep

\* The limiter of the lite tier lets through its burst and twice its rate, and no
\* more, however the commands arrive (main.rs:364-376).
THEOREM ConnectionRateBounded == ConnectionSpec => []RateBound
<1>1. TypeInv /\ RateInv /\ [ConnectionNext]_connectionVars => RateInv'
    BY RateStep
<1>2. ASSUME TypeInv, RateInv PROVE RateBound
    <2>1. SUFFICES ASSUME Lite PROVE Spent <= Burst + 2 * now
        BY DEF RateBound, Spent
    <2>2. ConnectionTypeOK
        BY <1>2 DEF TypeInv
    <2> QED
        BY <1>2, <2>1, <2>2, Amounts, SMTT(30) DEF RateInv
<1>3. TypeInv /\ RateInv => RateBound
    BY <1>2
<1> QED
    BY RateInit, TypeInvariant, <1>1, <1>3, PTL DEF ConnectionSpec

(*****************************************************************************)
(* The order.  What the task has still to look at is the rest of its buffer  *)
(* and what is on the wire: lines that follow one another as they were sent. *)
(*****************************************************************************)
LenAhead(b, p, w) == Len(b) - p + Len(w)

Ahead(b, p, w) ==
    [i \in 1 .. LenAhead(b, p, w) |-> IF i <= Len(b) - p THEN b[p + i] ELSE w[i - (Len(b) - p)]]

AheadLen == LenAhead(buf, pos, wire)
Rest == Ahead(buf, pos, wire)

Consecutive(lines, n, requests) ==
    \A i \in 1 .. n :
        LET r == lines[i].req
            left == Len(requests[r]) - lines[i].at
        IN  /\ r \in 1 .. Len(requests) /\ lines[i].at \in 1 .. Len(requests[r])
            /\ \A d \in 1 .. n - i :
                  /\ d <= left => lines[i + d] = [req |-> r, at |-> lines[i].at + d]
                  /\ d = left + 1 => lines[i + d] = [req |-> r + 1, at |-> 1]

(*****************************************************************************)
(* The line the task comes to next, and what it has done before it comes to  *)
(* a line p.  Until a line that was not read begins with '*', p is the first *)
(* of a request or one of those its command does not read.                   *)
(*****************************************************************************)
NextLine == IF AheadLen > 0 THEN Rest[1] ELSE Header(Len(stream) + 1)

Meant(p) ==
    /\ p.at = 1 \/ (p.req \in 1 .. Len(stream) /\ p.at \in Unread(stream[p.req]))
    /\ \A j \in 1 .. Len(stream) : Before(Header(j), p) => stream[j][1].kind # "bad"

DoneBefore(p) ==
    /\ \A k \in 1 .. Len(executed) : Before(executed[k], p)
    /\ \A i \in Answerable :
          Before(Header(i), p) => \E k \in 1 .. Len(executed) : executed[k] = Header(i)
    /\ ~StrayBy(p) => Meant(p)

(*****************************************************************************)
(* While the client is there its last request is on its way as a whole; once *)
(* it has gone the end of the stream may be missing.                         *)
(*****************************************************************************)
OrderInv ==
    /\ pc = "read" => pos = 0
    /\ pc \in {"sleep", "execute"} => IsHeader /\ Command.kind # "bad"
    /\ Consecutive(Rest, AheadLen, stream)
    /\ open \/ AheadLen > 0 => DoneBefore(NextLine)
    /\ open /\ AheadLen > 0 =>
          Rest[AheadLen] = [req |-> Len(stream), at |-> Len(stream[Len(stream)])]
    /\ ExecutedInOrder

(*****************************************************************************)
(* The order of the lines.                                                   *)
(*****************************************************************************)
LEMMA HeaderIs ==
    ASSUME NEW i \in Nat \ {0}
    PROVE  Header(i) \in Line /\ Header(i).req = i /\ Header(i).at = 1
BY DEF Header, Line

LEMMA BeforeTransitive ==
    ASSUME NEW p \in Line, NEW q \in Line, NEW x \in Line, Before(p, q), Before(q, x)
    PROVE  Before(p, x)
<1>1. /\ p.req \in Nat /\ p.at \in Nat /\ q.req \in Nat /\ q.at \in Nat
      /\ x.req \in Nat /\ x.at \in Nat
    BY DEF Line
<1> QED
    BY <1>1 DEF Before

LEMMA BeforeTotal ==
    ASSUME NEW p \in Line, NEW q \in Line
    PROVE  /\ Before(p, q) \/ p = q \/ Before(q, p)
           /\ ~(Before(p, q) /\ Before(q, p))
           /\ ~Before(p, p)
<1>1. /\ p.req \in Nat /\ p.at \in Nat /\ q.req \in Nat /\ q.at \in Nat
      /\ p = [req |-> p.req, at |-> p.at] /\ q = [req |-> q.req, at |-> q.at]
    BY DEF Line
<1>2. p.req = q.req /\ p.at = q.at => p = q
    BY <1>1
<1> QED
    BY <1>1, <1>2 DEF Before

\* The lines not read are lines of the request, none of them its first.
LEMMA UnreadIs ==
    ASSUME NEW r \in Request, NEW j \in Unread(r)
    PROVE  j \in 1 .. Len(r) /\ j > r[1].reads /\ j # 1
<1>1. Len(r) \in Nat \ {0} /\ r[1].reads \in Nat \ {0}
    BY RequestIs
<1> QED
    BY <1>1 DEF Unread

LEMMA StrayLater ==
    ASSUME TypeInv, NEW p \in Line, NEW q \in Line, Before(p, q), StrayBy(p)
    PROVE  StrayBy(q)
<1>0. PICK i \in 1 .. Len(stream) : \E j \in Unread(stream[i]) :
          stream[i][j].kind # "inline" /\ ~Before(p, [req |-> i, at |-> j])
    BY DEF StrayBy
<1>1. PICK j \in Unread(stream[i]) :
          stream[i][j].kind # "inline" /\ ~Before(p, [req |-> i, at |-> j])
    BY <1>0
<1>2. stream[i] \in Request
    BY DEF TypeInv, ConnectionTypeOK
<1>3. j \in 1 .. Len(stream[i])
    BY <1>2, UnreadIs
<1>4. [req |-> i, at |-> j] \in Line
    BY <1>3 DEF Line
<1>5. ~Before(q, [req |-> i, at |-> j])
    BY <1>1, <1>4, BeforeTransitive
<1> QED
    BY <1>1, <1>5 DEF StrayBy

LEMMA AheadLines ==
    ASSUME NEW b \in Seq(Line), NEW w \in Seq(Line), NEW p \in 0 .. Len(b)
    PROVE  /\ Len(b) \in Nat /\ Len(b) - p \in Nat /\ Len(w) \in Nat /\ p \in Nat
           /\ LenAhead(b, p, w) = (Len(b) - p) + Len(w)
           /\ Ahead(b, p, w) \in [1 .. LenAhead(b, p, w) -> Line]
           /\ \A i \in 1 .. Len(b) - p : Ahead(b, p, w)[i] = b[p + i]
           /\ \A i \in 1 .. Len(w) : Ahead(b, p, w)[(Len(b) - p) + i] = w[i]
<1> DEFINE L == Len(b) - p
           n == LenAhead(b, p, w)
<1>1. Len(b) \in Nat /\ Len(w) \in Nat /\ p \in Nat /\ L \in Nat /\ n = L + Len(w)
    BY DEF LenAhead
<1>2. ASSUME NEW i \in 1 .. n
      PROVE  IF i <= L THEN p + i \in 1 .. Len(b) ELSE i - L \in 1 .. Len(w)
    BY <1>1
<1>3. Ahead(b, p, w) \in [1 .. n -> Line]
    <2>1. ASSUME NEW i \in 1 .. n
          PROVE  (IF i <= L THEN b[p + i] ELSE w[i - L]) \in Line
        <3>1. \A j \in 1 .. Len(b) : b[j] \in Line
            OBVIOUS
        <3>2. \A j \in 1 .. Len(w) : w[j] \in Line
            OBVIOUS
        <3> HIDE DEF L
        <3> QED
            BY <1>2, <3>1, <3>2
    <2> QED
        BY <2>1 DEF Ahead
<1>4. ASSUME NEW i \in 1 .. L PROVE Ahead(b, p, w)[i] = b[p + i]
    <2>1. i \in 1 .. n /\ i <= L
        BY <1>1
    <2> QED
        BY <2>1 DEF Ahead
<1>5. ASSUME NEW i \in 1 .. Len(w) PROVE Ahead(b, p, w)[L + i] = w[i]
    <2>1. L + i \in 1 .. n /\ ~ (L + i <= L) /\ (L + i) - L = i
        BY <1>1
    <2> QED
        BY <2>1 DEF Ahead
<1>6. /\ Len(b) \in Nat /\ Len(w) \in Nat /\ p \in Nat /\ L \in Nat
      /\ LenAhead(b, p, w) = L + Len(w)
    BY <1>1
<1> HIDE DEF L
<1>7. \A i \in 1 .. L : Ahead(b, p, w)[i] = b[p + i]
    BY <1>4
<1>8. \A i \in 1 .. Len(w) : Ahead(b, p, w)[L + i] = w[i]
    BY <1>5
<1>9. \A i \in 1 .. Len(b) - p : Ahead(b, p, w)[i] = b[p + i]
    BY Zenon, <1>7 DEF L
<1>10. \A i \in 1 .. Len(w) : Ahead(b, p, w)[(Len(b) - p) + i] = w[i]
    BY Zenon, <1>8 DEF L
<1>11. /\ Len(b) \in Nat /\ Len(b) - p \in Nat /\ Len(w) \in Nat /\ p \in Nat
       /\ LenAhead(b, p, w) = (Len(b) - p) + Len(w)
    BY Zenon, <1>6 DEF L
<1> QED
    BY Zenon, <1>3, <1>9, <1>10, <1>11

LEMMA AheadAtStart ==
    ASSUME NEW b \in Seq(Line), NEW w \in Seq(Line)
    PROVE  /\ LenAhead(b, 0, w) = Len(b) + Len(w)
           /\ \A i \in 1 .. Len(b) : Ahead(b, 0, w)[i] = b[i]
           /\ \A i \in 1 .. Len(w) : Ahead(b, 0, w)[Len(b) + i] = w[i]
<1>1. Len(b) \in Nat /\ 0 \in 0 .. Len(b)
    OBVIOUS
<1> DEFINE p == 0
           f == Ahead(b, p, w)
           L == Len(b) - p
<1>2. p \in 0 .. Len(b) /\ L = Len(b) /\ \A i \in 1 .. L : p + i = i
    BY <1>1
<1> HIDE DEF p
<1>3. /\ LenAhead(b, p, w) = L + Len(w)
      /\ \A i \in 1 .. L : f[i] = b[p + i]
      /\ \A i \in 1 .. Len(w) : f[L + i] = w[i]
    <2>1. p \in 0 .. Len(b)
        BY <1>2
    <2>2. /\ LenAhead(b, p, w) = (Len(b) - p) + Len(w)
          /\ \A i \in 1 .. Len(b) - p : Ahead(b, p, w)[i] = b[p + i]
          /\ \A i \in 1 .. Len(w) : Ahead(b, p, w)[(Len(b) - p) + i] = w[i]
        BY <2>1, AheadLines
    <2> QED
        BY Zenon, <2>2
<1> HIDE DEF f, L
<1>4. /\ LenAhead(b, p, w) = Len(b) + Len(w)
      /\ \A i \in 1 .. Len(b) : f[i] = b[i]
      /\ \A i \in 1 .. Len(w) : f[Len(b) + i] = w[i]
    BY <1>2, <1>3
<1> QED
    BY <1>4 DEF f, p

(*****************************************************************************)
(* How the lines ahead change: the task passes k of them over, it reads n    *)
(* lines behind an emptied buffer, it drops the lines it has done with, the  *)
(* client goes and n lines still arrive, the client sends more.              *)
(*****************************************************************************)
LinesPassed(b, p, w, k) ==
    /\ LenAhead(b, p, w) = LenAhead(b, p + k, w) + k
    /\ LenAhead(b, p, w) \in Nat /\ LenAhead(b, p + k, w) \in Nat
    /\ \A i \in 1 .. LenAhead(b, p + k, w) : Ahead(b, p + k, w)[i] = Ahead(b, p, w)[i + k]

LinesKept(b, p, w, b2, w2) ==
    /\ LenAhead(b2, 0, w2) = LenAhead(b, p, w) /\ LenAhead(b, p, w) \in Nat
    /\ \A i \in 1 .. LenAhead(b, p, w) : Ahead(b2, 0, w2)[i] = Ahead(b, p, w)[i]

LinesCut(b, p, w, w2) ==
    /\ LenAhead(b, p, w2) <= LenAhead(b, p, w)
    /\ LenAhead(b, p, w) \in Nat /\ LenAhead(b, p, w2) \in Nat
    /\ \A i \in 1 .. LenAhead(b, p, w2) : Ahead(b, p, w2)[i] = Ahead(b, p, w)[i]

LinesAdded(b, p, w, w2, new) ==
    /\ LenAhead(b, p, w2) = LenAhead(b, p, w) + Len(new)
    /\ LenAhead(b, p, w) \in Nat /\ LenAhead(b, p, w2) \in Nat
    /\ \A i \in 1 .. LenAhead(b, p, w) : Ahead(b, p, w2)[i] = Ahead(b, p, w)[i]
    /\ \A j \in 1 .. Len(new) : Ahead(b, p, w2)[LenAhead(b, p, w) + j] = new[j]

LEMMA PassLines ==
    ASSUME NEW b \in Seq(Line), NEW w \in Seq(Line), NEW p \in 0 .. Len(b),
           NEW k \in Nat, p + k <= Len(b)
    PROVE  LinesPassed(b, p, w, k)
<1> DEFINE f == Ahead(b, p, w)
           g == Ahead(b, p + k, w)
           q == p + k
           L == Len(b) - p
<1>1. q \in 0 .. Len(b) /\ Len(b) \in Nat /\ Len(w) \in Nat /\ p \in Nat /\ L \in Nat
    OBVIOUS
<1>2. /\ LenAhead(b, p, w) = L + Len(w)
      /\ \A i \in 1 .. L : f[i] = b[p + i]
      /\ \A i \in 1 .. Len(w) : f[L + i] = w[i]
    BY AheadLines
<1>3. /\ LenAhead(b, q, w) = (Len(b) - q) + Len(w)
      /\ \A i \in 1 .. Len(b) - q : Ahead(b, q, w)[i] = b[q + i]
      /\ \A i \in 1 .. Len(w) : Ahead(b, q, w)[(Len(b) - q) + i] = w[i]
    <2> HIDE DEF q
    <2> QED
        BY <1>1, AheadLines
<1>4. Len(b) - q = L - k /\ L - k \in Nat
    BY <1>1
<1>5. /\ LenAhead(b, q, w) = (L - k) + Len(w)
      /\ \A i \in 1 .. L - k : g[i] = b[q + i]
      /\ \A i \in 1 .. Len(w) : g[(L - k) + i] = w[i]
    BY <1>3, <1>4
<1> HIDE DEF f, g, L
<1>6. ASSUME NEW i \in 1 .. (L - k) + Len(w) PROVE g[i] = f[i + k]
    <2>1. CASE i <= L - k
        <3>1. i \in 1 .. L - k /\ i + k \in 1 .. L /\ q + i = p + (i + k)
            BY <1>1, <1>4, <2>1
        <3> QED
            BY <1>2, <1>5, <3>1
    <2>2. CASE ~ (i <= L - k)
        <3> DEFINE j == i - (L - k)
        <3>1. j \in 1 .. Len(w) /\ (L - k) + j = i /\ L + j = i + k
            BY <1>1, <1>4, <2>2
        <3> HIDE DEF j
        <3> QED
            BY <1>2, <1>5, <3>1
    <2> QED
        BY <2>1, <2>2
<1> QED
    BY <1>1, <1>2, <1>4, <1>5, <1>6 DEF f, g, LinesPassed

LEMMA ReadLines ==
    ASSUME NEW b \in Seq(Line), NEW w \in Seq(Line), NEW n \in 1 .. Len(w),
           NEW b2, NEW w2, b2 = b \o SubSeq(w, 1, n), w2 = SubSeq(w, n + 1, Len(w))
    PROVE  LinesKept(b, 0, w, b2, w2)
<1> DEFINE r == SubSeq(w, 1, n)
           f == Ahead(b, 0, w)
           g == Ahead(b2, 0, w2)
           L == Len(b)
           W == Len(w)
<1>1. /\ r \in Seq(Line) /\ Len(r) = n /\ \A i \in 1 .. n : r[i] = w[i]
      /\ w2 \in Seq(Line) /\ Len(w2) = W - n /\ \A i \in 1 .. W - n : w2[i] = w[n + i]
      /\ L \in Nat /\ W \in Nat /\ n \in Nat /\ n <= W
    <2>1. L \in Nat /\ W \in Nat /\ n \in Nat /\ n <= W
        OBVIOUS
    <2>2. r \in Seq(Line) /\ Len(r) = n /\ \A i \in 1 .. n : r[i] = w[i]
        OBVIOUS
    <2>3. w2 \in Seq(Line) /\ Len(w2) = W - n /\ \A i \in 1 .. W - n : w2[i] = w[n + i]
        OBVIOUS
    <2> QED
        BY <2>1, <2>2, <2>3
<1>2. /\ b \o r \in Seq(Line) /\ Len(b \o r) = Len(b) + Len(r)
      /\ \A i \in 1 .. Len(b) : (b \o r)[i] = b[i]
      /\ \A j \in 1 .. Len(r) : (b \o r)[Len(b) + j] = r[j]
    <2>1. b \in Seq(Line) /\ r \in Seq(Line)
        BY <1>1
    <2> HIDE DEF r
    <2> QED
        BY <2>1, ConcatElements
<1>3. /\ b2 \in Seq(Line) /\ Len(b2) = L + n
      /\ \A i \in 1 .. L : b2[i] = b[i]
      /\ \A j \in 1 .. n : b2[L + j] = w[j]
    BY <1>1, <1>2
<1>4. /\ LenAhead(b, 0, w) = Len(b) + Len(w)
      /\ \A i \in 1 .. Len(b) : Ahead(b, 0, w)[i] = b[i]
      /\ \A i \in 1 .. Len(w) : Ahead(b, 0, w)[Len(b) + i] = w[i]
    BY AheadAtStart
<1>5. /\ LenAhead(b2, 0, w2) = Len(b2) + Len(w2)
      /\ \A i \in 1 .. Len(b2) : Ahead(b2, 0, w2)[i] = b2[i]
      /\ \A i \in 1 .. Len(w2) : Ahead(b2, 0, w2)[Len(b2) + i] = w2[i]
    <2>1. b2 \in Seq(Line) /\ w2 \in Seq(Line)
        BY <1>1, <1>3
    <2> QED
        BY <2>1, AheadAtStart
<1> HIDE DEF f, g, r
<1>6. /\ LenAhead(b, 0, w) = L + W
      /\ \A i \in 1 .. L : f[i] = b[i]
      /\ \A i \in 1 .. W : f[L + i] = w[i]
    BY <1>1, <1>4 DEF f
<1>7. /\ LenAhead(b2, 0, w2) = L + W
      /\ \A i \in 1 .. L + n : g[i] = b2[i]
      /\ \A i \in 1 .. W - n : g[(L + n) + i] = w[n + i]
    <2>1. Len(b2) + Len(w2) = L + W /\ Len(b2) = L + n /\ Len(w2) = W - n
        <3>1. Len(b2) = L + n
            BY <1>3
        <3>2. Len(w2) = W - n /\ L \in Nat /\ W \in Nat
            BY <1>1
        <3> HIDE DEF L, W
        <3>3. (L + n) + (W - n) = L + W
            BY <3>2
        <3> QED
            BY <3>1, <3>2, <3>3
    <2>2. LenAhead(b2, 0, w2) = L + W /\ \A i \in 1 .. L + n : g[i] = b2[i]
        BY <1>5, <2>1 DEF g
    <2>3. ASSUME NEW i \in 1 .. W - n PROVE g[(L + n) + i] = w[n + i]
        <3>1. g[Len(b2) + i] = w2[i]
            BY <1>5, <2>1 DEF g
        <3> QED
            BY <1>1, <2>1, <3>1
    <2> QED
        BY <2>2, <2>3
<1> HIDE DEF L, W
<1>8. ASSUME NEW i \in 1 .. L + W PROVE g[i] = f[i]
    <2>1. CASE i <= L
        <3>1. i \in 1 .. L /\ i \in 1 .. L + n
            BY <1>1, <2>1
        <3> QED
            BY <1>3, <1>6, <1>7, <3>1
    <2>2. CASE L < i /\ i <= L + n
        <3> DEFINE j == i - L
        <3>1. j \in 1 .. n /\ j \in 1 .. W /\ i = L + j /\ i \in 1 .. L + n
            BY <1>1, <2>2
        <3> HIDE DEF j
        <3> QED
            BY <1>3, <1>6, <1>7, <3>1
    <2>3. CASE L + n < i
        <3> DEFINE j == i - (L + n)
        <3>1. j \in 1 .. W - n /\ n + j \in 1 .. W /\ i = (L + n) + j /\ i = L + (n + j)
            BY <1>1, <2>3
        <3> HIDE DEF j
        <3>2. g[i] = w[n + j]
            BY <1>7, <3>1
        <3>3. f[L + (n + j)] = w[n + j]
            BY <1>6, <3>1
        <3> QED
            BY <3>1, <3>2, <3>3
    <2> QED
        BY <1>1, <2>1, <2>2, <2>3
<1> QED
    BY <1>1, <1>6, <1>7, <1>8 DEF f, g, LinesKept

LEMMA DrainLines ==
    ASSUME NEW b \in Seq(Line), NEW w \in Seq(Line), NEW p \in 0 .. Len(b),
           NEW b2, b2 = SubSeq(b, p + 1, Len(b))
    PROVE  LinesKept(b, p, w, b2, w)
<1> DEFINE f == Ahead(b, p, w)
           g == Ahead(b2, 0, w)
           L == Len(b) - p
           W == Len(w)
<1>1. /\ b2 \in Seq(Line) /\ Len(b2) = L /\ \A i \in 1 .. L : b2[i] = b[p + i]
      /\ L \in Nat /\ W \in Nat
    OBVIOUS
<1>2. /\ LenAhead(b, p, w) = L + W
      /\ \A i \in 1 .. L : f[i] = b[p + i]
      /\ \A i \in 1 .. W : f[L + i] = w[i]
    BY AheadLines
<1>3. /\ LenAhead(b2, 0, w) = Len(b2) + Len(w)
      /\ \A i \in 1 .. Len(b2) : Ahead(b2, 0, w)[i] = b2[i]
      /\ \A i \in 1 .. Len(w) : Ahead(b2, 0, w)[Len(b2) + i] = w[i]
    <2>1. b2 \in Seq(Line)
        BY <1>1
    <2> QED
        BY <2>1, AheadAtStart
<1> HIDE DEF f, g, L, W
<1>4. /\ LenAhead(b2, 0, w) = L + W
      /\ \A i \in 1 .. L : g[i] = b[p + i]
      /\ \A i \in 1 .. W : g[L + i] = w[i]
    BY <1>1, <1>3 DEF W, g
<1>5. ASSUME NEW i \in 1 .. L + W PROVE g[i] = f[i]
    <2>1. CASE i <= L
        <3>1. i \in 1 .. L
            BY <1>1, <2>1
        <3> QED
            BY <1>2, <1>4, <3>1
    <2>2. CASE L < i
        <3> DEFINE j == i - L
        <3>1. j \in 1 .. W /\ i = L + j
            BY <1>1, <2>2
        <3> HIDE DEF j
        <3> QED
            BY <1>2, <1>4, <3>1
    <2> QED
        BY <1>1, <2>1, <2>2
<1> QED
    BY <1>1, <1>2, <1>4, <1>5 DEF f, g, LinesKept

LEMMA CutLines ==
    ASSUME NEW b \in Seq(Line), NEW w \in Seq(Line), NEW p \in 0 .. Len(b),
           NEW n \in 0 .. Len(w), NEW w2, w2 = SubSeq(w, 1, n)
    PROVE  LinesCut(b, p, w, w2)
<1> DEFINE f == Ahead(b, p, w)
           g == Ahead(b, p, w2)
           L == Len(b) - p
           W == Len(w)
<1>1. /\ w2 \in Seq(Line) /\ Len(w2) = n /\ \A i \in 1 .. n : w2[i] = w[i]
      /\ L \in Nat /\ W \in Nat /\ n \in Nat /\ n <= W
    OBVIOUS
<1>2. /\ LenAhead(b, p, w) = L + W
      /\ \A i \in 1 .. L : f[i] = b[p + i]
      /\ \A i \in 1 .. W : f[L + i] = w[i]
    BY AheadLines
<1>3. /\ LenAhead(b, p, w2) = L + n
      /\ \A i \in 1 .. L : g[i] = b[p + i]
      /\ \A i \in 1 .. n : g[L + i] = w[i]
    <2>1. /\ LenAhead(b, p, w2) = L + Len(w2)
          /\ \A i \in 1 .. L : g[i] = b[p + i]
          /\ \A i \in 1 .. Len(w2) : g[L + i] = w2[i]
        BY <1>1, AheadLines
    <2> QED
        BY <1>1, <2>1
<1> HIDE DEF f, g, L, W
<1>4. ASSUME NEW i \in 1 .. L + n PROVE g[i] = f[i]
    <2>1. CASE i <= L
        <3>1. i \in 1 .. L
            BY <1>1, <2>1
        <3> QED
            BY <1>2, <1>3, <3>1
    <2>2. CASE L < i
        <3> DEFINE j == i - L
        <3>1. j \in 1 .. n /\ j \in 1 .. W /\ i = L + j
            BY <1>1, <2>2
        <3> HIDE DEF j
        <3> QED
            BY <1>2, <1>3, <3>1
    <2> QED
        BY <1>1, <2>1, <2>2
<1> QED
    BY <1>1, <1>2, <1>3, <1>4 DEF f, g, LinesCut

LEMMA SendLines ==
    ASSUME NEW b \in Seq(Line), NEW w \in Seq(Line), NEW p \in 0 .. Len(b),
           NEW new \in Seq(Line), NEW w2, w2 = w \o new
    PROVE  LinesAdded(b, p, w, w2, new)
<1> DEFINE f == Ahead(b, p, w)
           g == Ahead(b, p, w2)
           L == Len(b) - p
           W == Len(w)
           n == Len(new)
<1>1. /\ w \o new \in Seq(Line) /\ Len(w \o new) = Len(w) + Len(new)
      /\ \A i \in 1 .. Len(w) : (w \o new)[i] = w[i]
      /\ \A j \in 1 .. Len(new) : (w \o new)[Len(w) + j] = new[j]
    BY ConcatElements
<1>2. /\ w2 \in Seq(Line) /\ Len(w2) = W + n
      /\ \A i \in 1 .. W : w2[i] = w[i]
      /\ \A j \in 1 .. n : w2[W + j] = new[j]
      /\ L \in Nat /\ W \in Nat /\ n \in Nat
    BY <1>1
<1>3. /\ LenAhead(b, p, w) = L + W
      /\ \A i \in 1 .. L : f[i] = b[p + i]
      /\ \A i \in 1 .. W : f[L + i] = w[i]
    BY AheadLines
<1>4. /\ LenAhead(b, p, w2) = L + (W + n)
      /\ \A i \in 1 .. L : g[i] = b[p + i]
      /\ \A i \in 1 .. W + n : g[L + i] = w2[i]
    <2>1. /\ LenAhead(b, p, w2) = L + Len(w2)
          /\ \A i \in 1 .. L : g[i] = b[p + i]
          /\ \A i \in 1 .. Len(w2) : g[L + i] = w2[i]
        BY <1>2, AheadLines
    <2> QED
        BY <1>2, <2>1
<1> HIDE DEF f, g, L, W, n
<1>5. ASSUME NEW i \in 1 .. L + W PROVE g[i] = f[i]
    <2>1. CASE i <= L
        <3>1. i \in 1 .. L
            BY <1>2, <2>1
        <3> QED
            BY <1>3, <1>4, <3>1
    <2>2. CASE L < i
        <3> DEFINE j == i - L
        <3>1. j \in 1 .. W /\ j \in 1 .. W + n /\ i = L + j
            BY <1>2, <2>2
        <3> HIDE DEF j
        <3> QED
            BY <1>2, <1>3, <1>4, <3>1
    <2> QED
        BY <1>2, <2>1, <2>2
<1>6. ASSUME NEW j \in 1 .. n PROVE g[(L + W) + j] = new[j]
    <2>1. W + j \in 1 .. W + n /\ (L + W) + j = L + (W + j)
        BY <1>2
    <2>2. g[L + (W + j)] = w2[W + j]
        BY <1>4, <2>1
    <2> QED
        BY <1>2, <2>1, <2>2
<1> QED
    BY <1>2, <1>3, <1>4, <1>5, <1>6 DEF f, g, n, LinesAdded

(*****************************************************************************)
(* Lines are consecutive from any of them on, and with those of a new        *)
(* request behind them.                                                      *)
(*****************************************************************************)
LEMMA PartConsecutive ==
    ASSUME NEW f, NEW n \in Nat, NEW requests, Consecutive(f, n, requests),
           NEW g, NEW m \in Nat, NEW k \in Nat, m + k <= n,
           \A i \in 1 .. m : g[i] = f[i + k]
    PROVE  Consecutive(g, m, requests)
<1> SUFFICES ASSUME NEW i \in 1 .. m
             PROVE  LET r == g[i].req
                        left == Len(requests[r]) - g[i].at
                    IN  /\ r \in 1 .. Len(requests) /\ g[i].at \in 1 .. Len(requests[r])
                        /\ \A d \in 1 .. m - i :
                              /\ d <= left => g[i + d] = [req |-> r, at |-> g[i].at + d]
                              /\ d = left + 1 => g[i + d] = [req |-> r + 1, at |-> 1]
    BY DEF Consecutive
<1>1. i + k \in 1 .. n /\ g[i] = f[i + k]
    OBVIOUS
<1>2. \A d \in 1 .. m - i : /\ d \in 1 .. n - (i + k)
                            /\ g[i + d] = f[(i + k) + d]
    <2> SUFFICES ASSUME NEW d \in 1 .. m - i
                 PROVE  d \in 1 .. n - (i + k) /\ g[i + d] = f[(i + k) + d]
        OBVIOUS
    <2>1. i + d \in 1 .. m /\ (i + d) + k = (i + k) + d
        OBVIOUS
    <2> QED
        BY <2>1
<1>3. LET r == f[i + k].req
          left == Len(requests[r]) - f[i + k].at
      IN  /\ r \in 1 .. Len(requests) /\ f[i + k].at \in 1 .. Len(requests[r])
          /\ \A d \in 1 .. n - (i + k) :
                /\ d <= left => f[(i + k) + d] = [req |-> r, at |-> f[i + k].at + d]
                /\ d = left + 1 => f[(i + k) + d] = [req |-> r + 1, at |-> 1]
    BY <1>1 DEF Consecutive
<1> QED
    BY <1>1, <1>2, <1>3

LEMMA LongerConsecutive ==
    ASSUME NEW requests \in Seq(Request), NEW r \in Request,
           NEW f, NEW n \in Nat, NEW g, Consecutive(f, n, requests),
           n > 0 => f[n] = [req |-> Len(requests), at |-> Len(requests[Len(requests)])],
           \A i \in 1 .. n : g[i] = f[i],
           \A j \in 1 .. Len(r) : g[n + j] = [req |-> Len(requests) + 1, at |-> j]
    PROVE  Consecutive(g, n + Len(r), Append(requests, r))
<1> DEFINE longer == Append(requests, r)
           N == Len(requests)
           m == Len(r)
<1>1. /\ N \in Nat /\ Len(longer) = N + 1 /\ longer[N + 1] = r
      /\ \A i \in 1 .. N : longer[i] = requests[i]
      /\ m \in Nat
    BY AppendElements, RequestIs
<1> HIDE DEF longer, N, m
<1> SUFFICES Consecutive(g, n + m, longer)
    BY DEF longer, m
<1> DEFINE top == n + m
<1>0. top = n + m
    OBVIOUS
<1> HIDE DEF top
<1> SUFFICES Consecutive(g, top, longer)
    BY <1>0
<1> SUFFICES ASSUME NEW i \in 1 .. top
             PROVE  LET q == g[i].req
                        left == Len(longer[q]) - g[i].at
                    IN  /\ q \in 1 .. Len(longer) /\ g[i].at \in 1 .. Len(longer[q])
                        /\ \A d \in 1 .. top - i :
                              /\ d <= left => g[i + d] = [req |-> q, at |-> g[i].at + d]
                              /\ d = left + 1 => g[i + d] = [req |-> q + 1, at |-> 1]
    BY Zenon DEF Consecutive
<1>2. CASE i > n
    <2>1. i - n \in 1 .. m /\ n + (i - n) = i
        BY <1>0, <1>1, <1>2
    <2>2. g[i] = [req |-> N + 1, at |-> i - n]
        BY <2>1 DEF N, m
    <2>3. Len(longer[N + 1]) = m
        BY <1>0, <1>1 DEF m
    <2>4. ASSUME NEW d \in 1 .. top - i
          PROVE  g[i + d] = [req |-> N + 1, at |-> (i - n) + d] /\ d <= m - (i - n)
        <3>0. i \in Nat /\ d \in Nat /\ d >= 1 /\ m \in Nat /\ i > n /\ i + d <= n + m
            BY <1>0, <1>1, <1>2
        <3>1. /\ (i - n) + d \in 1 .. m /\ n + ((i - n) + d) = i + d
              /\ d <= m - (i - n)
            BY <3>0
        <3>2. g[n + ((i - n) + d)] = [req |-> N + 1, at |-> (i - n) + d]
            BY <3>1 DEF N, m
        <3> QED
            BY <3>1, <3>2
    <2>5. N + 1 \in 1 .. Len(longer)
        BY <1>0, <1>1
    <2> DEFINE a == i - n
    <2>6. a \in 1 .. m
        BY <2>1
    <2>7. /\ g[i] = [req |-> N + 1, at |-> a]
          /\ \A d \in 1 .. top - i :
                g[i + d] = [req |-> N + 1, at |-> a + d] /\ d <= m - a
        BY <2>2, <2>4
    <2> HIDE DEF a
    <2>8. ASSUME NEW d \in 1 .. top - i PROVE ~ (d = m - a + 1)
        <3>1. d <= m - a
            BY <2>7
        <3> QED
            BY <1>0, <1>1, <2>6, <3>1
    <2>9. g[i].req = N + 1 /\ g[i].at = a
        BY <2>7
    <2> QED
        BY <2>3, <2>5, <2>6, <2>7, <2>8, <2>9
<1>3. CASE i <= n
    <2> DEFINE q == f[i].req
               a == f[i].at
               left == Len(requests[q]) - a
    <2>1. i \in 1 .. n /\ g[i] = f[i]
        BY <1>3
    <2>2. /\ q \in 1 .. N /\ a \in 1 .. Len(requests[q])
          /\ \A d \in 1 .. n - i :
                /\ d <= left => f[i + d] = [req |-> q, at |-> a + d]
                /\ d = left + 1 => f[i + d] = [req |-> q + 1, at |-> 1]
        BY <2>1 DEF Consecutive, N
    <2>3. longer[q] = requests[q] /\ q \in 1 .. Len(longer) /\ Len(requests[q]) \in Nat
        <3>1. q \in 1 .. N
            BY <2>2
        <3> HIDE DEF q, a, left
        <3>2. longer[q] = requests[q] /\ q \in 1 .. Len(longer)
            BY <1>0, <1>1, <3>1
        <3>3. requests[q] \in Request
            BY <3>1 DEF N
        <3> QED
            BY <3>2, <3>3, RequestIs
    <2>4. left \in Nat
        <3>1. a \in 1 .. Len(requests[q]) /\ Len(requests[q]) \in Nat
            BY <2>2, <2>3
        <3> HIDE DEF a, q
        <3>2. Len(requests[q]) - a \in Nat
            BY <3>1
        <3> QED
            BY <3>2
    <2>5. ASSUME NEW d \in 1 .. top - i
          PROVE  /\ d <= left => g[i + d] = [req |-> q, at |-> a + d]
                 /\ d = left + 1 => g[i + d] = [req |-> q + 1, at |-> 1]
        <3>1. CASE d <= n - i
            <4>1. d \in 1 .. n - i /\ i + d \in 1 .. n
                BY <1>0, <2>1, <3>1
            <4>2. g[i + d] = f[i + d]
                BY <4>1
            <4> HIDE DEF q, a, left
            <4> QED
                BY <2>2, <4>1, <4>2
        <3>2. CASE d > n - i
            \* the last line sent, n - i behind this one, ends the last request
            <4> DEFINE e == n - i
            <4>1. e \in Nat /\ (e > 0 => e \in 1 .. n - i) /\ i + e = n /\ d > e
                BY <1>0, <2>1, <3>2
            <4>2. f[n] = [req |-> N, at |-> Len(requests[N])]
                BY <2>1 DEF N
            <4>3. e <= left => q = N /\ a + e = Len(requests[q])
                <5>1. CASE e = 0
                    <6>1. f[n] = f[i]
                        BY <4>1, <5>1
                    <6>2. q = N /\ a = Len(requests[N])
                        BY <4>2, <6>1
                    <6>3. a \in Nat
                        BY <2>2, <2>3
                    <6> HIDE DEF q, a
                    <6> QED
                        BY <5>1, <6>2, <6>3
                <5>2. CASE e > 0 /\ e <= left
                    <6>1. f[i + e] = [req |-> q, at |-> a + e]
                        BY <2>2, <4>1, <5>2
                    <6>2. f[n] = [req |-> q, at |-> a + e]
                        BY <4>1, <6>1
                    <6> HIDE DEF q, a
                    <6>3. q = N /\ a + e = Len(requests[N])
                        BY <4>2, <6>2
                    <6> QED
                        BY <6>3
                <5> QED
                    BY <4>1, <5>1, <5>2
            <4>4. a \in Nat /\ Len(requests[q]) \in Nat /\ left = Len(requests[q]) - a
                BY <2>2, <2>3
            <4> HIDE DEF q, a, left
            <4>5. CASE e <= left
                <5>1. left = e /\ q = N
                    BY <4>1, <4>3, <4>4, <4>5
                <5>2. ~ (d <= left)
                    BY <4>1, <5>1
                <5>3. ASSUME d = left + 1 PROVE g[i + d] = [req |-> q + 1, at |-> 1]
                    <6>1. i + d = n + 1
                        BY <4>1, <5>1, <5>3
                    <6>2. m >= 1
                        BY <1>0, <1>1, <2>1, <6>1
                    <6>3. g[n + 1] = [req |-> N + 1, at |-> 1]
                        BY <1>0, <1>1, <6>2 DEF N, m
                    <6> QED
                        BY <5>1, <6>1, <6>3
                <5> QED
                    BY <5>2, <5>3
            <4>6. CASE ~ (e <= left)
                <5>1. ~ (d <= left) /\ ~ (d = left + 1)
                    BY <2>4, <4>1, <4>6
                <5> QED
                    BY <5>1
            <4> QED
                BY <4>5, <4>6
        <3> QED
            BY <1>0, <2>1, <3>1, <3>2
    <2>6. g[i].req = q /\ g[i].at = a
        BY <2>1
    <2>7. left = Len(longer[q]) - a
        BY <2>3
    <2> HIDE DEF q, a, left
    <2> QED
        BY <2>2, <2>3, <2>5, <2>6, <2>7
<1> QED
    BY <1>2, <1>3

\* Of consecutive lines, one further on is a later one.
LEMMA LaterLine ==
    ASSUME NEW requests \in Seq(Request), NEW n \in Nat, NEW f \in [1 .. n -> Line],
           Consecutive(f, n, requests), NEW i \in 1 .. n
    PROVE  \A d \in Nat : i + d + 1 <= n => Before(f[i], f[i + d + 1])
<1>1. ASSUME NEW x \in 1 .. n, x + 1 <= n PROVE Before(f[x], f[x + 1])
    <2> DEFINE left == Len(requests[f[x].req]) - f[x].at
    <2>1. f[x].req \in 1 .. Len(requests) /\ f[x].at \in 1 .. Len(requests[f[x].req])
        BY DEF Consecutive
    <2>2. requests[f[x].req] \in Request
        BY <2>1
    <2>3. left \in Nat /\ 1 \in 1 .. n - x
        BY <1>1, <2>1, <2>2, RequestIs
    <2>4. /\ 1 <= left => f[x + 1] = [req |-> f[x].req, at |-> f[x].at + 1]
          /\ 1 = left + 1 => f[x + 1] = [req |-> f[x].req + 1, at |-> 1]
        BY <2>3 DEF Consecutive
    <2> HIDE DEF left
    <2>5. f[x].req \in Nat /\ f[x].at \in Nat
        BY DEF Line
    <2>6. 1 <= left \/ 1 = left + 1
        BY <2>3
    <2>7. CASE f[x + 1] = [req |-> f[x].req, at |-> f[x].at + 1]
        BY <2>5, <2>7 DEF Before
    <2>8. CASE f[x + 1] = [req |-> f[x].req + 1, at |-> 1]
        BY <2>5, <2>8 DEF Before
    <2> QED
        BY <2>4, <2>6, <2>7, <2>8
<1> DEFINE S == {d \in Nat : i + d + 1 <= n => Before(f[i], f[i + d + 1])}
<1>2. 0 \in S
    <2>1. i + 0 + 1 = i + 1
        OBVIOUS
    <2> QED
        BY <1>1, <2>1
<1>3. ASSUME NEW d \in S PROVE d + 1 \in S
    <2>1. d \in Nat /\ (i + d + 1 <= n => Before(f[i], f[i + d + 1]))
        BY <1>3
    <2> SUFFICES ASSUME i + (d + 1) + 1 <= n PROVE Before(f[i], f[i + (d + 1) + 1])
        BY <2>1
    <2> DEFINE x == i + d + 1
    <2>2. x \in 1 .. n /\ x + 1 <= n /\ i + (d + 1) + 1 = x + 1 /\ x + 1 \in 1 .. n
        BY <2>1
    <2>3. Before(f[i], f[x])
        BY <2>1, <2>2
    <2> HIDE DEF x
    <2>4. Before(f[x], f[x + 1])
        BY <1>1, <2>2
    <2>5. f[i] \in Line /\ f[x] \in Line /\ f[x + 1] \in Line
        BY <2>2
    <2>6. Before(f[i], f[x + 1])
        BY <2>3, <2>4, <2>5, BeforeTransitive
    <2> QED
        BY <2>2, <2>6
<1>4. S = Nat
    <2> HIDE DEF S
    <2>1. S \in SUBSET Nat
        BY DEF S
    <2> QED
        BY <1>2, <1>3, <2>1, SetInduction
<1> QED
    BY <1>4

LEMMA RestIs ==
    ASSUME TypeInv
    PROVE  /\ buf \in Seq(Line) /\ wire \in Seq(Line) /\ pos \in 0 .. Len(buf)
           /\ AheadLen \in Nat /\ Len(buf) \in Nat /\ pos \in Nat
           /\ Rest \in [1 .. AheadLen -> Line]
           /\ Len(buf) - pos <= AheadLen
           /\ pos < Len(buf) => AheadLen > 0 /\ Rest[1] = Current
<1>1. buf \in Seq(Line) /\ wire \in Seq(Line) /\ pos \in 0 .. Len(buf)
    BY DEF TypeInv, ConnectionTypeOK
<1>2. /\ Len(buf) \in Nat /\ Len(buf) - pos \in Nat /\ Len(wire) \in Nat /\ pos \in Nat
      /\ AheadLen = (Len(buf) - pos) + Len(wire)
      /\ Rest \in [1 .. AheadLen -> Line]
      /\ \A i \in 1 .. Len(buf) - pos : Rest[i] = buf[pos + i]
    BY <1>1, AheadLines DEF AheadLen, Rest
<1>3. ASSUME pos < Len(buf) PROVE AheadLen > 0 /\ Rest[1] = Current
    <2>1. 1 \in 1 .. Len(buf) - pos
        BY <1>2, <1>3
    <2> QED
        BY <1>2, <2>1 DEF Current
<1> QED
    BY <1>1, <1>2, <1>3

(*****************************************************************************)
(* A step that executes nothing and passes over no line; the client may go.  *)
(*****************************************************************************)
LEMMA OrderKept ==
    ASSUME TypeInv, OrderInv, stream' = stream, executed' = executed,
           pc' = "read" => pos' = 0,
           pc' \in {"sleep", "execute"} => (IsHeader /\ Command.kind # "bad")',
           AheadLen' \in Nat, AheadLen' <= AheadLen,
           \A i \in 1 .. AheadLen' : Rest'[i] = Rest[i],
           open' => open /\ AheadLen' = AheadLen
    PROVE  OrderInv'
<1>1. AheadLen \in Nat
    BY RestIs
<1>2. Consecutive(Rest, AheadLen, stream)'
    <2> DEFINE f == Rest
               g == Rest'
               n == AheadLen
               m == AheadLen'
    <2>1. Consecutive(f, n, stream) /\ m + 0 <= n /\ n \in Nat /\ m \in Nat
        BY <1>1 DEF OrderInv
    <2>2. \A i \in 1 .. m : g[i] = f[i + 0]
        OBVIOUS
    <2> HIDE DEF f, g, n, m
    <2>3. Consecutive(g, m, stream)
        BY <2>1, <2>2, PartConsecutive
    <2> QED
        BY <2>3 DEF g, m
<1>0. Answerable' = Answerable /\ \A x : StrayBy(x)' <=> StrayBy(x)
    BY DEF Answerable, StrayBy
<1>3. \A x : DoneBefore(x) => DoneBefore(x)'
    BY <1>0 DEF DoneBefore, Meant
<1>4. ExecutedInOrder'
    BY <1>0 DEF OrderInv, ExecutedInOrder
<1>5. AheadLen' > 0 => AheadLen > 0 /\ Rest'[1] = Rest[1]
    BY <1>1
<1>6. open' \/ AheadLen' > 0 => DoneBefore(NextLine)'
    <2> SUFFICES ASSUME open' \/ AheadLen' > 0 PROVE DoneBefore(NextLine)'
        OBVIOUS
    <2>1. (open \/ AheadLen > 0) /\ NextLine' = NextLine
        BY <1>1, <1>5 DEF NextLine
    <2>2. PICK x : x = NextLine
        OBVIOUS
    <2>3. DoneBefore(x)' /\ x = NextLine'
        BY <1>3, <2>1, <2>2 DEF OrderInv
    <2> QED
        BY <2>3
<1>8. open' /\ AheadLen' > 0 =>
          Rest'[AheadLen'] = [req |-> Len(stream'), at |-> Len(stream'[Len(stream')])]
    BY <1>1 DEF OrderInv
<1> QED
    BY <1>2, <1>4, <1>6, <1>8 DEF OrderInv

(*****************************************************************************)
(* A step that passes over the first k lines.  Where no stray line came      *)
(* before, they are lines of one request: the task comes to a line its       *)
(* command does not read or to the next request, and over no other header.   *)
(*****************************************************************************)
NextOf(p, k, q) ==
    IF p.at + k <= Len(stream[p.req])
      THEN q = [req |-> p.req, at |-> p.at + k]
      ELSE q = Header(p.req + 1)

LEMMA NextOfLine ==
    ASSUME NEW n \in Nat, NEW f \in [1 .. n -> Line], Consecutive(f, n, stream),
           stream \in Seq(Request),
           NEW k \in Nat \ {0}, NEW m \in Nat, n = m + k,
           f[1].at + k <= Len(stream[f[1].req]) + 1,
           NEW q, m > 0 => q = f[k + 1],
           m = 0 => /\ q = Header(Len(stream) + 1)
                    /\ f[n] = [req |-> Len(stream), at |-> Len(stream[Len(stream)])]
    PROVE  NextOf(f[1], k, q)
<1> DEFINE a == f[1].at
           b == f[1].req
           L == Len(stream[b])
           left == L - a
<1>1. 1 \in 1 .. n
    OBVIOUS
<1>2. /\ b \in 1 .. Len(stream) /\ a \in 1 .. L
      /\ \A d \in 1 .. n - 1 : /\ d <= left => f[1 + d] = [req |-> b, at |-> a + d]
                               /\ d = left + 1 => f[1 + d] = [req |-> b + 1, at |-> 1]
    BY <1>1 DEF Consecutive
<1>3. L \in Nat /\ b \in Nat /\ a \in Nat
    <2>1. stream[b] \in Request
        BY <1>2
    <2>2. L \in Nat
        BY <2>1, RequestIs
    <2>3. b \in Nat /\ a \in Nat
        BY <1>1 DEF Line
    <2> QED
        BY <2>2, <2>3
<1>4. a + k <= L + 1
    OBVIOUS
<1>5. CASE m > 0
    <2>1. k \in 1 .. n - 1 /\ 1 + k = k + 1
        BY <1>5
    <2>2. q = f[1 + k]
        BY <1>5, <2>1
    <2> HIDE DEF a, b, L, left
    <2>3. CASE a + k <= L
        <3>1. k <= left
            BY <1>3, <2>3 DEF left
        <3>2. q = [req |-> b, at |-> a + k]
            BY <1>2, <2>1, <2>2, <3>1
        <3> QED
            BY <2>3, <3>2 DEF NextOf, a, b, L
    <2>4. CASE ~(a + k <= L)
        <3>1. k = left + 1
            BY <1>3, <1>4, <2>4 DEF left
        <3>2. q = [req |-> b + 1, at |-> 1]
            BY <1>2, <2>1, <2>2, <3>1
        <3> QED
            BY <2>4, <3>2 DEF NextOf, Header, a, b, L
    <2> QED
        BY <2>3, <2>4
<1>6. CASE m = 0
    <2>1. n = k /\ f[k] = [req |-> Len(stream), at |-> Len(stream[Len(stream)])]
        BY <1>6
    <2>2. f[k] = [req |-> b, at |-> a + (k - 1)]
        <3>1. CASE k = 1
            <4>1. f[1] = [req |-> b, at |-> a]
                BY <1>1 DEF Line
            <4>2. a + (k - 1) = a
                BY <1>3, <3>1
            <4> HIDE DEF a, b
            <4> QED
                BY <3>1, <4>1, <4>2
        <3>2. CASE k # 1
            <4>1. k - 1 \in 1 .. n - 1 /\ 1 + (k - 1) = k
                BY <2>1, <3>2
            <4> HIDE DEF a, b, L, left
            <4>2. k - 1 <= left
                BY <1>3, <1>4 DEF left
            <4> QED
                BY <1>2, <4>1, <4>2
        <3> QED
            BY <3>1, <3>2
    <2> HIDE DEF a, b, L, left
    <2>3. b = Len(stream) /\ a + (k - 1) = L
        BY <2>1, <2>2 DEF L
    <2>4. ~(a + k <= L) /\ q = Header(b + 1)
        BY <1>3, <1>6, <2>3
    <2> QED
        BY <2>4 DEF NextOf, a, b, L
<1> QED
    BY <1>5, <1>6

\* No header lies between the two.
LEMMA NoHeaderBetween ==
    ASSUME stream \in Seq(Request), NEW p \in Line, p.req \in 1 .. Len(stream),
           NEW k \in Nat \ {0}, NEW q, NextOf(p, k, q), NEW i \in Nat \ {0},
           Before(Header(i), q)
    PROVE  Before(Header(i), p) \/ Header(i) = p
<1>1. p.req \in Nat /\ p.at \in Nat \ {0} /\ Len(stream[p.req]) \in Nat
    BY RequestIs DEF Line
<1>2. Header(i).req = i /\ Header(i).at = 1 /\ Header(i) \in Line
    BY HeaderIs
<1>3. i <= p.req
    <2>1. CASE q = [req |-> p.req, at |-> p.at + k]
        BY <1>1, <1>2, <2>1 DEF Before
    <2>2. CASE q = Header(p.req + 1)
        <3>1. q.req = p.req + 1 /\ q.at = 1
            BY <1>1, <2>2, HeaderIs
        <3> QED
            BY <1>1, <1>2, <3>1 DEF Before
    <2> QED
        BY <2>1, <2>2 DEF NextOf
<1>4. ~Before(p, Header(i))
    BY <1>1, <1>2, <1>3 DEF Before
<1> QED
    BY <1>2, <1>4, BeforeTotal

\* What is to be shown of such a step: what it leaves executed, and that from a
\* line that was meant it goes on in the same request.
LEMMA OrderPass ==
    ASSUME TypeInv, OrderInv, stream' = stream, open' = open, pos < Len(buf),
           pc' \notin {"read", "sleep", "execute"},
           NEW k \in Nat \ {0}, AheadLen' \in Nat, AheadLen = AheadLen' + k,
           \A i \in 1 .. AheadLen' : Rest'[i] = Rest[i + k],
           \A j \in 1 .. Len(executed') :
               Before(executed'[j], Current) \/ executed'[j] = Current,
           \A i \in Answerable :
               Before(Header(i), Current) \/ Header(i) = Current =>
                   \E j \in 1 .. Len(executed') : executed'[j] = Header(i),
           \A j \in 1 .. Len(executed') : executed'[j] \in Line,
           ~StrayBy(Current) => /\ Current.at + k <= Len(stream[Current.req]) + 1
                                /\ Current.at + k > stream[Current.req][1].reads
                                /\ Current.at = 1 => Command.kind # "bad",
           ExecutedInOrder'
    PROVE  OrderInv'
<1>0. /\ AheadLen \in Nat /\ Rest \in [1 .. AheadLen -> Line] /\ Rest[1] = Current
      /\ AheadLen > 0
    BY RestIs
<1>a. stream \in Seq(Request) /\ Len(stream) \in Nat
    BY DEF TypeInv, ConnectionTypeOK
<1>b. /\ Current \in Line /\ Current.req \in 1 .. Len(stream)
      /\ stream[Current.req] \in Request
    BY CurrentType
<1>c. DoneBefore(Current)
    BY <1>0 DEF OrderInv, NextLine
<1> DEFINE f == Rest
           g == Rest'
           n == AheadLen
           m == AheadLen'
<1>1. /\ n \in Nat /\ m \in Nat /\ n = m + k /\ f \in [1 .. n -> Line] /\ f[1] = Current
      /\ Consecutive(f, n, stream)
      /\ \A i \in 1 .. m : g[i] = f[i + k]
    BY <1>0 DEF OrderInv
<1>2. open /\ n > 0 => f[n] = [req |-> Len(stream), at |-> Len(stream[Len(stream)])]
    BY DEF OrderInv
<1>3. NextLine' = IF m > 0 THEN g[1] ELSE Header(Len(stream) + 1)
    BY DEF NextLine
<1> HIDE DEF f, g, n, m
<1>4. Consecutive(g, m, stream)
    BY <1>1, PartConsecutive
<1>5. open' /\ m > 0 => g[m] = [req |-> Len(stream'), at |-> Len(stream'[Len(stream')])]
    <2> SUFFICES ASSUME open', m > 0 PROVE g[m] = f[n]
        <3>1. n > 0
            BY <1>1
        <3> QED
            BY <1>2, <3>1
    <2>1. m \in 1 .. m /\ m + k = n
        BY <1>1
    <2> QED
        BY <1>1, <2>1
<1>6. ASSUME open' \/ m > 0, NEW q, q = NextLine'
      PROVE  DoneBefore(q)'
    <2>1. m > 0 => q = f[k + 1] /\ k + 1 \in 1 .. n
        <3> SUFFICES ASSUME m > 0 PROVE q = f[k + 1] /\ k + 1 \in 1 .. n
            OBVIOUS
        <3>1. 1 \in 1 .. m /\ 1 + k = k + 1 /\ k + 1 \in 1 .. n
            BY <1>1
        <3> QED
            BY <1>1, <1>3, <1>6, <3>1
    <2>2. m = 0 => /\ q = Header(Len(stream) + 1)
                   /\ f[n] = [req |-> Len(stream), at |-> Len(stream[Len(stream)])]
        <3>1. m = 0 => ~(m > 0) /\ n > 0
            BY <1>1
        <3> QED
            BY <1>2, <1>3, <1>6, <3>1
    <2>3. q \in Line /\ Before(Current, q)
        <3>1. CASE m > 0
            <4>1. q \in Line
                BY <1>1, <2>1, <3>1
            <4>2. 1 \in 1 .. n /\ k - 1 \in Nat /\ 1 + (k - 1) + 1 = k + 1 /\ k + 1 <= n
                BY <1>1, <2>1, <3>1
            <4>3. \A d \in Nat : 1 + d + 1 <= n => Before(f[1], f[1 + d + 1])
                BY <1>1, <1>a, <4>2, LaterLine
            <4>4. Before(f[1], f[k + 1])
                BY <4>2, <4>3
            <4> QED
                BY <1>1, <2>1, <3>1, <4>1, <4>4
        <3>2. CASE m = 0
            <4>1. Len(stream) + 1 \in Nat \ {0}
                BY <1>a
            <4>2. q \in Line /\ q.req = Len(stream) + 1
                BY <2>2, <3>2, <4>1, HeaderIs
            <4> QED
                BY <1>a, <1>b, <4>2 DEF Before
        <3> QED
            BY <1>1, <3>1, <3>2
    <2>4. ~StrayBy(Current) => NextOf(Current, k, q)
        <3> SUFFICES ASSUME ~StrayBy(Current) PROVE NextOf(Current, k, q)
            OBVIOUS
        <3>1. f[1].at + k <= Len(stream[f[1].req]) + 1
            BY <1>1
        <3>2. NextOf(f[1], k, q)
            BY <1>1, <1>a, <2>1, <2>2, <3>1, NextOfLine
        <3> QED
            BY <1>1, <3>2
    <2>5. \A j \in 1 .. Len(executed') : Before(executed'[j], q)
        BY <1>b, <2>3, BeforeTransitive
    <2>6. Answerable' = Answerable /\ \A x : StrayBy(x)' <=> StrayBy(x)
        BY DEF Answerable, StrayBy
    <2>7. ASSUME NEW i \in Answerable, Before(Header(i), q)
          PROVE  \E j \in 1 .. Len(executed') : executed'[j] = Header(i)
        <3>1. i \in Nat \ {0} /\ ~StrayBy(Header(i)) /\ Header(i) \in Line
            BY HeaderIs DEF Answerable
        <3>2. CASE StrayBy(Current)
            <4>1. ~Before(Current, Header(i))
                BY <1>b, <3>1, <3>2, StrayLater
            <4> QED
                BY <1>b, <3>1, <4>1, BeforeTotal
        <3>3. CASE ~StrayBy(Current)
            BY <1>a, <1>b, <2>4, <2>7, <3>1, <3>3, NoHeaderBetween
        <3> QED
            BY <3>2, <3>3
    <2>8. ~StrayBy(q) => Meant(q)
        <3> SUFFICES ASSUME ~StrayBy(q) PROVE Meant(q)
            OBVIOUS
        <3>1. ~StrayBy(Current)
            BY <1>b, <2>3, StrayLater
        <3>2. NextOf(Current, k, q) /\ Meant(Current)
            BY <1>c, <2>4, <3>1 DEF DoneBefore
        <3>3. q.at = 1 \/ (q.req \in 1 .. Len(stream) /\ q.at \in Unread(stream[q.req]))
            <4>1. CASE Current.at + k <= Len(stream[Current.req])
                <5>1. q.req = Current.req /\ q.at = Current.at + k
                    BY <3>2, <4>1 DEF NextOf
                <5>2. /\ Len(stream[Current.req]) \in Nat /\ Current.at \in Nat
                      /\ stream[Current.req][1].reads \in Nat
                    BY <1>b, RequestIs DEF Line
                <5>4. Current.at + k > stream[Current.req][1].reads
                    BY <3>1
                <5> DEFINE at == Current.at + k
                           last == Len(stream[Current.req])
                           read == stream[Current.req][1].reads
                <5>5. at \in Nat /\ last \in Nat /\ read \in Nat /\ at <= last /\ at > read
                    BY <4>1, <5>2, <5>4
                <5>6. at \in read + 1 .. last
                    <6> HIDE DEF at, last, read
                    <6> QED
                        BY <5>5
                <5>3. Current.at + k \in Unread(stream[Current.req])
                    BY Zenon, <5>6 DEF Unread
                <5> QED
                    BY <1>b, <5>1, <5>3
            <4>2. CASE ~(Current.at + k <= Len(stream[Current.req]))
                <5>1. q = Header(Current.req + 1)
                    BY <3>2, <4>2 DEF NextOf
                <5> QED
                    BY <5>1 DEF Header
            <4> QED
                BY <4>1, <4>2
        <3>4. ASSUME NEW j \in 1 .. Len(stream), Before(Header(j), q)
              PROVE  stream[j][1].kind # "bad"
            <4>1. j \in Nat \ {0}
                OBVIOUS
            <4>2. Before(Header(j), Current) \/ Header(j) = Current
                BY <1>a, <1>b, <3>2, <3>4, <4>1, NoHeaderBetween
            <4>3. CASE Before(Header(j), Current)
                BY <3>2, <4>3 DEF Meant
            <4>4. CASE Header(j) = Current
                BY <3>1, <4>4 DEF Header, Command
            <4> QED
                BY <4>2, <4>3, <4>4
        <3> QED
            BY <3>3, <3>4 DEF Meant
    <2>9. Meant(q) => Meant(q)'
        BY DEF Meant
    <2> QED
        BY <2>5, <2>6, <2>7, <2>8, <2>9 DEF DoneBefore
<1>7. open' \/ m > 0 => DoneBefore(NextLine)'
    <2> SUFFICES ASSUME open' \/ m > 0 PROVE DoneBefore(NextLine)'
        OBVIOUS
    <2>1. PICK q : q = NextLine'
        OBVIOUS
    <2>2. DoneBefore(q)' /\ q = NextLine'
        BY <1>6, <2>1
    <2> QED
        BY <2>2
<1> QED
    BY <1>4, <1>5, <1>7 DEF OrderInv, f, g, n, m

\* What is sent later makes nothing before it stray.
LEMMA SendStray ==
    ASSUME TypeInv, NEW r \in Request, Send(r), NEW p \in Line,
           p.req <= Len(stream) \/ p = Header(Len(stream) + 1)
    PROVE  StrayBy(p)' <=> StrayBy(p)
<1> DEFINE N == Len(stream)
<1>1. /\ N \in Nat /\ Len(stream') = N + 1 /\ stream'[N + 1] = r
      /\ \A i \in 1 .. N : stream'[i] = stream[i]
    <2>1. stream \in Seq(Request) /\ stream' = Append(stream, r)
        BY DEF TypeInv, ConnectionTypeOK, Send
    <2> QED
        BY <2>1, AppendElements
<1>2. p.req \in Nat /\ p.at \in Nat
    BY DEF Line
<1>3. p = Header(N + 1) => p.req = N + 1 /\ p.at = 1
    BY <1>1, HeaderIs
<1> HIDE DEF N
<1>4. ASSUME NEW j \in Unread(r) PROVE Before(p, [req |-> N + 1, at |-> j])
    <2>1. j \in 1 .. Len(r) /\ j # 1
        BY <1>4, UnreadIs
    <2>2. j \in Nat /\ j > 1
        <3>1. Len(r) \in Nat
            BY RequestIs
        <3> QED
            BY <2>1, <3>1
    <2>3. p.req <= N \/ (p.req = N + 1 /\ p.at = 1)
        BY <1>3 DEF N
    <2> QED
        BY <1>1, <1>2, <2>2, <2>3 DEF Before
<1>5. ASSUME StrayBy(p) PROVE StrayBy(p)'
    <2>1. PICK i \in 1 .. N : \E j \in Unread(stream[i]) :
              stream[i][j].kind # "inline" /\ ~Before(p, [req |-> i, at |-> j])
        BY <1>5 DEF StrayBy, N
    <2>2. i \in 1 .. N + 1 /\ stream'[i] = stream[i]
        BY <1>1
    <2> QED
        BY <1>1, <2>1, <2>2 DEF StrayBy
<1>6. ASSUME StrayBy(p)' PROVE StrayBy(p)
    <2>1. PICK i \in 1 .. N + 1 : \E j \in Unread(stream'[i]) :
              stream'[i][j].kind # "inline" /\ ~Before(p, [req |-> i, at |-> j])
        BY <1>1, <1>6 DEF StrayBy
    <2>2. i # N + 1
        BY <1>1, <1>4, <2>1
    <2>3. i \in 1 .. N
        BY <1>1, <2>2
    <2> QED
        BY <1>1, <2>1, <2>3 DEF StrayBy, N
<1> QED
    BY <1>5, <1>6

LEMMA OrderSend ==
    ASSUME TypeInv, OrderInv, NEW r \in Request, Send(r)
    PROVE  OrderInv'
<1> DEFINE N == Len(stream)
           new == [j \in 1 .. Len(r) |-> [req |-> N + 1, at |-> j]]
           f == Rest
           g == Rest'
           n == AheadLen
           m == AheadLen'
<1>1. /\ stream \in Seq(Request) /\ N \in Nat /\ Len(r) \in Nat \ {0}
      /\ stream' = Append(stream, r) /\ Len(stream') = N + 1 /\ stream'[N + 1] = r
      /\ \A i \in 1 .. N : stream'[i] = stream[i]
    <2>1. stream \in Seq(Request) /\ stream' = Append(stream, r)
        BY DEF TypeInv, ConnectionTypeOK, Send
    <2>2. Len(r) \in Nat \ {0}
        BY RequestIs
    <2> QED
        BY <2>1, <2>2, AppendElements
<1>2. /\ UNCHANGED <<open, buf, pos, pc, executed>> /\ open
      /\ wire' = wire \o [j \in 1 .. Len(r) |-> [req |-> Len(stream'), at |-> j]]
    BY DEF Send, bufferVars, replyVars
<1>3. wire' = wire \o new
    BY <1>1, <1>2
<1>4. new \in Seq(Line) /\ Len(new) = Len(r) /\ \A j \in 1 .. Len(r) : new[j] = [req |-> N + 1, at |-> j]
    <2>1. \A j \in 1 .. Len(r) : [req |-> N + 1, at |-> j] \in Line
        BY <1>1 DEF Line
    <2> DEFINE k == Len(r)
    <2>2. k \in Nat
        BY <1>1
    <2> HIDE DEF k, N
    <2>3. [j \in 1 .. k |-> [req |-> N + 1, at |-> j]] \in Seq(Line)
        BY <2>1, <2>2 DEF k
    <2>4. Len([j \in 1 .. k |-> [req |-> N + 1, at |-> j]]) = k
        BY <2>2
    <2> QED
        BY <2>3, <2>4 DEF k
<1> HIDE DEF new
<1>5. /\ m = n + Len(r) /\ n \in Nat /\ m \in Nat
      /\ \A i \in 1 .. n : g[i] = f[i]
      /\ \A j \in 1 .. Len(r) : g[n + j] = [req |-> N + 1, at |-> j]
    <2>1. buf \in Seq(Line) /\ wire \in Seq(Line) /\ pos \in 0 .. Len(buf)
        BY RestIs
    <2>0. PICK w2 : w2 = wire'
        OBVIOUS
    <2>2. w2 = wire \o new
        BY <1>3, <2>0
    <2>5. new \in Seq(Line)
        BY <1>4
    <2>6. LinesAdded(buf, pos, wire, w2, new)
        BY Zenon, <2>1, <2>2, <2>5, SendLines
    <2>3. /\ LenAhead(buf, pos, w2) = LenAhead(buf, pos, wire) + Len(new)
          /\ LenAhead(buf, pos, wire) \in Nat /\ LenAhead(buf, pos, w2) \in Nat
          /\ \A i \in 1 .. LenAhead(buf, pos, wire) :
                 Ahead(buf, pos, w2)[i] = Ahead(buf, pos, wire)[i]
          /\ \A j \in 1 .. Len(new) : Ahead(buf, pos, w2)[LenAhead(buf, pos, wire) + j] = new[j]
        BY <2>6 DEF LinesAdded
    <2>4. m = LenAhead(buf, pos, w2) /\ g = Ahead(buf, pos, w2)
        BY <1>2, <2>0 DEF AheadLen, Rest
    <2> QED
        BY <1>4, <2>3, <2>4 DEF AheadLen, Rest
<1>6. /\ Consecutive(f, n, stream)
      /\ n > 0 => f[n] = [req |-> N, at |-> Len(stream[N])]
    BY <1>2 DEF OrderInv
<1> HIDE DEF f, g, n, m
<1>7. Consecutive(g, n + Len(r), Append(stream, r))
    BY <1>1, <1>5, <1>6, LongerConsecutive
<1>8. Consecutive(g, m, stream')
    BY <1>1, <1>5, <1>7
<1>c. /\ NextLine \in Line /\ DoneBefore(NextLine)
      /\ NextLine.req <= N \/ NextLine = Header(N + 1)
    <2>1. CASE n > 0
        <3>1. NextLine = f[1] /\ 1 \in 1 .. n
            BY <1>5, <2>1 DEF NextLine, f, n
        <3>2. f[1] \in Line
            BY <3>1, RestIs DEF f, n
        <3>3. f[1].req \in 1 .. Len(stream)
            BY <1>6, <3>1 DEF Consecutive
        <3> QED
            BY <1>1, <1>2, <3>1, <3>2, <3>3 DEF OrderInv
    <2>2. CASE n = 0
        <3>1. NextLine = Header(N + 1)
            BY <2>2 DEF NextLine, n
        <3>2. Header(N + 1) \in Line
            BY <1>1, HeaderIs
        <3> QED
            BY <1>2, <3>1, <3>2 DEF OrderInv
    <2> QED
        BY <1>5, <2>1, <2>2
<1>d. ASSUME NEW i \in 1 .. N PROVE StrayBy(Header(i))' <=> StrayBy(Header(i))
    <2>1. PICK p : p = Header(i)
        OBVIOUS
    <2>2. p \in Line /\ p.req <= N
        BY <1>1, <2>1, HeaderIs
    <2>3. StrayBy(p)' <=> StrayBy(p)
        BY <2>2, SendStray
    <2> QED
        BY <2>1, <2>3
<1>a. \A i \in Answerable' : i <= N => i \in Answerable
    <2> SUFFICES ASSUME NEW i \in Answerable', i <= N PROVE i \in Answerable
        OBVIOUS
    <2>1. /\ i \in 1 .. Len(stream') /\ stream'[i][1].kind # "inline"
          /\ \A j \in 1 .. i : stream'[j][1].kind # "bad"
          /\ ~StrayBy(Header(i))'
        BY DEF Answerable
    <2>2. i \in 1 .. N /\ i \in Nat \ {0} /\ \A j \in 1 .. i : j \in 1 .. N
        BY <1>1, <2>1
    <2>3. stream[i][1].kind # "inline" /\ \A j \in 1 .. i : stream[j][1].kind # "bad"
        BY <1>1, <2>1, <2>2
    <2>4. ~StrayBy(Header(i))
        BY <1>d, <2>1, <2>2
    <2> QED
        BY <2>2, <2>3, <2>4 DEF Answerable
<1>b. \A i \in Answerable : i \in Answerable'
    <2> SUFFICES ASSUME NEW i \in Answerable PROVE i \in Answerable'
        OBVIOUS
    <2>1. /\ i \in 1 .. N /\ stream[i][1].kind # "inline"
          /\ \A j \in 1 .. i : stream[j][1].kind # "bad"
          /\ ~StrayBy(Header(i))
        BY DEF Answerable
    <2>2. i \in 1 .. N + 1 /\ i \in Nat \ {0} /\ \A j \in 1 .. i : j \in 1 .. N
        BY <1>1, <2>1
    <2>3. stream'[i][1].kind # "inline" /\ \A j \in 1 .. i : stream'[j][1].kind # "bad"
        BY <1>1, <2>1, <2>2
    <2>4. ~StrayBy(Header(i))'
        BY <1>d, <2>1
    <2> QED
        BY <1>1, <2>2, <2>3, <2>4 DEF Answerable
<1>9. ASSUME NEW p \in Line, p.req <= N \/ p = Header(N + 1), DoneBefore(p)
      PROVE  DoneBefore(p)'
    <2>1. StrayBy(p)' <=> StrayBy(p)
        BY <1>9, SendStray
    <2>2. ASSUME NEW i \in Nat \ {0}, Before(Header(i), p) PROVE i <= N
        <3>1. Header(i).req = i /\ Header(i).at = 1 /\ p.req \in Nat /\ p.at \in Nat
            BY HeaderIs DEF Line
        <3>2. p = Header(N + 1) => p.req = N + 1 /\ p.at = 1
            BY <1>1, HeaderIs
        <3> QED
            BY <1>1, <1>9, <2>2, <3>1, <3>2 DEF Before
    <2>3. ASSUME NEW i \in Answerable', Before(Header(i), p)
          PROVE  \E k \in 1 .. Len(executed) : executed[k] = Header(i)
        <3>1. i \in Nat \ {0}
            BY <1>1 DEF Answerable
        <3>2. i \in Answerable
            BY <1>a, <2>2, <2>3, <3>1
        <3> QED
            BY <1>9, <2>3, <3>2 DEF DoneBefore
    <2>4. ASSUME ~StrayBy(p) PROVE Meant(p)'
        <3>1. Meant(p)
            BY <1>9, <2>4 DEF DoneBefore
        <3>2. \A j \in 1 .. Len(stream') : Before(Header(j), p) => stream'[j][1].kind # "bad"
            <4> SUFFICES ASSUME NEW j \in 1 .. Len(stream'), Before(Header(j), p)
                         PROVE  stream'[j][1].kind # "bad"
                OBVIOUS
            <4>1. j \in Nat \ {0}
                BY <1>1
            <4>2. j \in 1 .. N
                BY <2>2, <4>1
            <4> QED
                BY <1>1, <3>1, <4>2 DEF Meant
        <3>3. p.at = 1 \/ (p.req \in 1 .. Len(stream') /\ p.at \in Unread(stream'[p.req]))
            <4>1. p.req \in 1 .. N => p.req \in 1 .. N + 1 /\ stream'[p.req] = stream[p.req]
                BY <1>1
            <4> QED
                BY <1>1, <3>1, <4>1 DEF Meant
        <3> QED
            BY <3>2, <3>3 DEF Meant
    <2>5. \A k \in 1 .. Len(executed) : Before(executed[k], p)
        BY <1>9 DEF DoneBefore
    <2> QED
        BY <1>2, <2>1, <2>3, <2>4, <2>5 DEF DoneBefore
<1>10. m > 0 /\ 1 \in 1 .. Len(r)
    BY <1>1, <1>5
<1>11. DoneBefore(NextLine)'
    <2>1. NextLine' = NextLine
        <3>1. CASE n > 0
            <4>1. g[1] = f[1]
                BY <1>5, <3>1
            <4> QED
                BY <1>10, <3>1, <4>1 DEF NextLine, f, g, n, m
        <3>2. CASE n = 0
            <4>1. g[1] = [req |-> N + 1, at |-> 1]
                <5>1. g[n + 1] = [req |-> N + 1, at |-> 1]
                    BY <1>5, <1>10
                <5> QED
                    BY <3>2, <5>1
            <4>2. NextLine = Header(N + 1)
                BY <3>2 DEF NextLine, n
            <4> QED
                BY <1>10, <4>1, <4>2 DEF NextLine, Header, g, m
        <3> QED
            BY <1>5, <3>1, <3>2
    <2>2. PICK p : p = NextLine
        OBVIOUS
    <2>5. DoneBefore(p)' /\ p = NextLine'
        BY <1>9, <1>c, <2>1, <2>2
    <2> QED
        BY <2>5
<1>12. g[m] = [req |-> Len(stream'), at |-> Len(stream'[Len(stream')])]
    <2>1. Len(r) \in 1 .. Len(r)
        BY <1>1
    <2> QED
        BY <1>1, <1>5, <2>1
<1>13. ExecutedInOrder'
    <2> SUFFICES ASSUME NEW k \in 1 .. Len(executed), NEW e, e = executed[k]
                 PROVE  /\ StrayBy(e)' \/ \E i \in Answerable' : e = Header(i)
                        /\ \A j \in 1 .. k - 1 : Before(executed[j], e)
                        /\ \A i \in Answerable' : Before(Header(i), e) =>
                              \E j \in 1 .. k - 1 : executed[j] = Header(i)
        BY <1>2 DEF ExecutedInOrder
    <2>1. /\ StrayBy(e) \/ \E i \in Answerable : e = Header(i)
          /\ \A j \in 1 .. k - 1 : Before(executed[j], e)
          /\ \A i \in Answerable : Before(Header(i), e) =>
                \E j \in 1 .. k - 1 : executed[j] = Header(i)
        BY DEF OrderInv, ExecutedInOrder
    <2>3. e \in Line /\ (e.req <= N \/ e = Header(N + 1))
        <3>1. e \in Line
            BY DEF TypeInv, ConnectionTypeOK
        <3>2. Before(e, NextLine)
            BY <1>c DEF DoneBefore
        <3>3. e.req \in Nat /\ e.at \in Nat \ {0}
            BY <3>1 DEF Line
        <3>4. NextLine = Header(N + 1) => NextLine.req = N + 1 /\ NextLine.at = 1
            BY <1>1, HeaderIs
        <3>5. NextLine.req \in Nat /\ NextLine.at \in Nat
            BY <1>c DEF Line
        <3> QED
            BY <1>1, <1>c, <3>1, <3>2, <3>3, <3>4, <3>5 DEF Before
    <2>4. StrayBy(e)' <=> StrayBy(e)
        BY <2>3, SendStray
    <2>6. ASSUME NEW i \in Answerable', Before(Header(i), e)
          PROVE  \E j \in 1 .. k - 1 : executed[j] = Header(i)
        <3>1. i \in Nat \ {0} /\ i <= N
            <4>1. i \in Nat \ {0}
                BY <1>1 DEF Answerable
            <4>2. Header(i).req = i /\ Header(i).at = 1 /\ e.req \in Nat /\ e.at \in Nat
                BY <2>3, <4>1, HeaderIs DEF Line
            <4>3. e = Header(N + 1) => e.req = N + 1 /\ e.at = 1
                BY <1>1, HeaderIs
            <4> QED
                BY <1>1, <2>3, <2>6, <4>1, <4>2, <4>3 DEF Before
        <3>2. i \in Answerable
            BY <1>a, <3>1
        <3> QED
            BY <2>1, <2>6, <3>2
    <2> QED
        BY <1>b, <2>1, <2>4, <2>6
<1>14. pc' \in {"sleep", "execute"} => (IsHeader /\ Command.kind # "bad")'
    <2> SUFFICES ASSUME pc' \in {"sleep", "execute"} PROVE (IsHeader /\ Command.kind # "bad")'
        OBVIOUS
    <2>1. pos < Len(buf) /\ IsHeader /\ Command.kind # "bad"
        BY <1>2 DEF OrderInv, TypeInv
    <2>2. Current.req \in 1 .. N
        BY <2>1, CurrentType
    <2>3. Current' = Current /\ stream'[Current.req] = stream[Current.req]
        BY <1>1, <1>2, <2>2 DEF Current
    <2> QED
        BY <2>1, <2>3 DEF IsHeader, Command
<1> QED
    BY <1>2, <1>8, <1>10, <1>11, <1>12, <1>13, <1>14 DEF OrderInv, g, m

(*****************************************************************************)
(* The steps of the task that pass over lines: k of them, the first of which *)
(* is the current one.                                                       *)
(*****************************************************************************)
LEMMA RestPassed ==
    ASSUME TypeInv, NEW k \in Nat, pos + k <= Len(buf),
           buf' = buf, wire' = wire, pos' = pos + k
    PROVE  /\ AheadLen' \in Nat /\ AheadLen = AheadLen' + k
           /\ \A i \in 1 .. AheadLen' : Rest'[i] = Rest[i + k]
<1>1. buf \in Seq(Line) /\ wire \in Seq(Line) /\ pos \in 0 .. Len(buf)
    BY RestIs
<1>2. LinesPassed(buf, pos, wire, k)
    BY Zenon, <1>1, PassLines
<1>3. AheadLen' = LenAhead(buf, pos + k, wire) /\ Rest' = Ahead(buf, pos + k, wire)
    BY DEF AheadLen, Rest
<1> QED
    BY <1>2, <1>3 DEF LinesPassed, AheadLen, Rest

LEMMA OrderExecute ==
    ASSUME TypeInv, OrderInv, Execute, Available(Command.reads)
    PROVE  OrderInv'
<1>a. PICK p, k : p = Current /\ k = Command.reads
    OBVIOUS
<1>1. /\ pos < Len(buf) /\ IsHeader /\ Command.kind # "bad"
      /\ executed' = Append(executed, p) /\ pos' = pos + k /\ pc' = "flush"
      /\ stream' = stream /\ open' = open /\ wire' = wire /\ buf' = buf
      /\ pos + k <= Len(buf)
    BY <1>a DEF Execute, OrderInv, TypeInv, Available, inputVars
<1>2. /\ p \in Line /\ p.req \in 1 .. Len(stream) /\ stream[p.req] \in Request
      /\ Command = stream[p.req][p.at] /\ k \in Nat \ {0}
      /\ Command.kind # "inline"
    BY <1>a, <1>1, CurrentType DEF Command, IsHeader
<1>3. executed \in Seq(Line) /\ Len(stream) \in Nat
    BY DEF TypeInv, ConnectionTypeOK
<1>4. /\ AheadLen' \in Nat /\ AheadLen = AheadLen' + k /\ AheadLen > 0 /\ Rest[1] = Current
      /\ \A i \in 1 .. AheadLen' : Rest'[i] = Rest[i + k]
    <2>1. k \in Nat /\ AheadLen > 0 /\ Rest[1] = Current
        BY <1>1, <1>2, RestIs
    <2>2. /\ AheadLen' \in Nat /\ AheadLen = AheadLen' + k
          /\ \A i \in 1 .. AheadLen' : Rest'[i] = Rest[i + k]
        BY <1>1, <2>1, RestPassed
    <2> QED
        BY <2>1, <2>2
<1>5. DoneBefore(p)
    BY <1>a, <1>4 DEF OrderInv, NextLine
\* an unread line that begins with '*' is stray itself
<1>6. ~StrayBy(p) => p.at = 1 /\ Meant(p)
    <2> SUFFICES ASSUME ~StrayBy(p), p.at # 1 PROVE FALSE
        BY <1>5 DEF DoneBefore
    <2>1. p.at \in Unread(stream[p.req])
        BY <1>5 DEF DoneBefore, Meant
    <2>2. p = [req |-> p.req, at |-> p.at]
        BY <1>2 DEF Line
    <2>3. ~Before(p, p)
        BY <1>2, BeforeTotal
    <2> QED
        BY <1>2, <2>1, <2>2, <2>3 DEF StrayBy
<1>7. ~StrayBy(p) => p = Header(p.req) /\ p.req \in Answerable
    <2> SUFFICES ASSUME ~StrayBy(p) PROVE p = Header(p.req) /\ p.req \in Answerable
        OBVIOUS
    <2>1. p = Header(p.req)
        BY <1>2, <1>6 DEF Line, Header
    <2>2. ASSUME NEW j \in 1 .. p.req PROVE stream[j][1].kind # "bad"
        <3>1. CASE j = p.req
            BY <1>1, <1>2, <1>6, <3>1
        <3>2. CASE j # p.req
            <4>1. j \in 1 .. Len(stream) /\ j \in Nat \ {0} /\ j < p.req
                BY <1>2, <1>3, <3>2
            <4>2. Before(Header(j), p)
                BY <4>1, HeaderIs DEF Before
            <4> QED
                BY <1>6, <4>1, <4>2 DEF Meant
        <3> QED
            BY <3>1, <3>2
    <2>3. stream[p.req][1].kind # "inline" /\ ~StrayBy(Header(p.req))
        BY <1>2, <1>6, <2>1
    <2> QED
        BY <1>2, <2>1, <2>2, <2>3 DEF Answerable
<1>8. /\ Len(executed') = Len(executed) + 1 /\ executed'[Len(executed) + 1] = p
      /\ \A i \in 1 .. Len(executed) : executed'[i] = executed[i] /\ executed[i] \in Line
      /\ Len(executed) \in Nat
    <2>1. executed' = Append(executed, p) /\ p \in Line
        BY <1>1, <1>2
    <2> QED
        BY <1>3, <2>1
<1>9. /\ \A j \in 1 .. Len(executed) : Before(executed[j], p)
      /\ \A i \in Answerable : Before(Header(i), p) =>
            \E j \in 1 .. Len(executed) : executed[j] = Header(i)
    BY <1>5 DEF DoneBefore
<1>10. Answerable' = Answerable /\ \A x : StrayBy(x)' <=> StrayBy(x)
    BY <1>1 DEF Answerable, StrayBy
<1> DEFINE e == executed'
<1>11. /\ Len(e) = Len(executed) + 1 /\ e[Len(executed) + 1] = p
       /\ \A i \in 1 .. Len(executed) : e[i] = executed[i]
    BY <1>8
<1>12. ASSUME NEW j \in 1 .. Len(e)
       PROVE  j \in 1 .. Len(executed) \/ (j = Len(executed) + 1 /\ j - 1 = Len(executed))
    <2> HIDE DEF e
    <2> QED
        BY <1>8, <1>11
<1>13. ExecutedInOrder'
    <2> SUFFICES ASSUME NEW j \in 1 .. Len(e), NEW x, x = e[j]
                 PROVE  /\ StrayBy(x)' \/ \E i \in Answerable' : x = Header(i)
                        /\ \A i \in 1 .. j - 1 : Before(e[i], x)
                        /\ \A i \in Answerable' : Before(Header(i), x) =>
                              \E q \in 1 .. j - 1 : e[q] = Header(i)
        BY DEF ExecutedInOrder
    <2> HIDE DEF e
    <2>1. CASE j \in 1 .. Len(executed)
        <3>1. /\ StrayBy(executed[j]) \/ \E i \in Answerable : executed[j] = Header(i)
              /\ \A i \in 1 .. j - 1 : Before(executed[i], executed[j])
              /\ \A i \in Answerable : Before(Header(i), executed[j]) =>
                    \E q \in 1 .. j - 1 : executed[q] = Header(i)
            BY <2>1 DEF OrderInv, ExecutedInOrder
        <3>2. x = executed[j] /\ \A i \in 1 .. j - 1 : e[i] = executed[i]
            BY <1>8, <1>11, <2>1
        <3> QED
            BY <1>10, <3>1, <3>2
    <2>2. CASE j = Len(executed) + 1
        <3>1. j - 1 = Len(executed) /\ x = p
            BY <1>8, <1>11, <2>2
        <3> QED
            BY <1>7, <1>9, <1>10, <1>11, <3>1
    <2> QED
        BY <1>12, <2>1, <2>2
<1>14. \A j \in 1 .. Len(e) : e[j] \in Line /\ (Before(e[j], p) \/ e[j] = p)
    <2> SUFFICES ASSUME NEW j \in 1 .. Len(e)
                 PROVE  e[j] \in Line /\ (Before(e[j], p) \/ e[j] = p)
        OBVIOUS
    <2> HIDE DEF e
    <2> QED
        BY <1>2, <1>8, <1>9, <1>11, <1>12
<1>15. \A i \in Answerable : Before(Header(i), p) \/ Header(i) = p =>
           \E j \in 1 .. Len(e) : e[j] = Header(i)
    <2> HIDE DEF e
    <2>1. Len(executed) + 1 \in 1 .. Len(e) /\ \A j \in 1 .. Len(executed) : j \in 1 .. Len(e)
        BY <1>8, <1>11
    <2> QED
        BY <1>9, <1>11, <2>1
<1>16. ~StrayBy(p) => /\ p.at + k <= Len(stream[p.req]) + 1
                      /\ p.at + k > stream[p.req][1].reads
                      /\ p.at = 1 => Command.kind # "bad"
    <2> SUFFICES ASSUME ~StrayBy(p) PROVE /\ p.at + k <= Len(stream[p.req]) + 1
                                          /\ p.at + k > stream[p.req][1].reads
        BY <1>1
    <2>1. p.at = 1 /\ k = stream[p.req][1].reads
        BY <1>a, <1>2, <1>6
    <2>2. k <= Len(stream[p.req]) /\ k \in Nat /\ Len(stream[p.req]) \in Nat
        BY <1>2, <2>1, RequestIs
    <2> QED
        BY <2>1, <2>2
<1> QED
    BY <1>a, <1>1, <1>2, <1>4, <1>13, <1>14, <1>15, <1>16, OrderPass DEF e

\* A line that does not begin with '*': the rest of a request executed, or one
\* that never is executed.
LEMMA OrderSkip ==
    ASSUME TypeInv, OrderInv, Skip
    PROVE  OrderInv'
<1>1. /\ pos < Len(buf) /\ Command.kind = "inline" /\ pos' = pos + 1 /\ pc' = "flush"
      /\ stream' = stream /\ open' = open /\ wire' = wire /\ buf' = buf
      /\ executed' = executed /\ pos + 1 <= Len(buf)
    BY DEF Skip, IsHeader, TypeInv, ConnectionTypeOK, inputVars, replyVars
<1>2. /\ Current \in Line /\ stream[Current.req] \in Request
      /\ Current.req \in 1 .. Len(stream)
      /\ Current.at \in 1 .. Len(stream[Current.req])
    BY <1>1, CurrentType
<1>3. /\ AheadLen' \in Nat /\ AheadLen = AheadLen' + 1
      /\ \A i \in 1 .. AheadLen' : Rest'[i] = Rest[i + 1]
    BY <1>1, RestPassed
<1>4. AheadLen > 0 /\ Rest[1] = Current
    BY <1>1, RestIs
<1>5. DoneBefore(Current)
    BY <1>4 DEF OrderInv, NextLine
<1>6. ExecutedInOrder'
    <2>1. Answerable' = Answerable /\ \A x : StrayBy(x)' <=> StrayBy(x)
        BY <1>1 DEF Answerable, StrayBy
    <2> QED
        BY <1>1, <2>1 DEF OrderInv, ExecutedInOrder
<1>7. \A j \in 1 .. Len(executed') : executed'[j] \in Line /\ Before(executed'[j], Current)
    BY <1>1, <1>5 DEF DoneBefore, TypeInv, ConnectionTypeOK
<1>8. \A i \in Answerable : Before(Header(i), Current) \/ Header(i) = Current =>
          \E j \in 1 .. Len(executed') : executed'[j] = Header(i)
    <2>1. \A i \in Answerable : Header(i) # Current
        BY <1>1 DEF Answerable, Header, Command
    <2> QED
        BY <1>1, <1>5, <2>1 DEF DoneBefore
<1>9. ~StrayBy(Current) => /\ Current.at + 1 <= Len(stream[Current.req]) + 1
                           /\ Current.at + 1 > stream[Current.req][1].reads
                           /\ Current.at = 1 => Command.kind # "bad"
    <2> SUFFICES ASSUME ~StrayBy(Current)
                 PROVE  /\ Current.at + 1 <= Len(stream[Current.req]) + 1
                        /\ Current.at + 1 > stream[Current.req][1].reads
        BY <1>1
    <2>1. /\ Len(stream[Current.req]) \in Nat /\ stream[Current.req][1].reads \in Nat
          /\ stream[Current.req][1].kind = "inline" => stream[Current.req][1].reads = 1
        BY <1>2, RequestIs
    <2>2. CASE Current.at = 1
        <3>1. stream[Current.req][1].reads = 1
            BY <1>1, <2>1, <2>2 DEF Command
        <3> QED
            BY <1>2, <2>1, <2>2, <3>1
    <2>3. CASE Current.at # 1
        <3>1. Current.at \in Unread(stream[Current.req])
            BY <1>5, <2>3 DEF DoneBefore, Meant
        <3> QED
            BY <1>2, <2>1, <3>1, UnreadIs
    <2> QED
        BY <2>2, <2>3
<1> QED
    <2>1. 1 \in Nat \ {0}
        OBVIOUS
    <2> QED
        BY <1>1, <1>3, <1>6, <1>7, <1>8, <1>9, <2>1, OrderPass

\* The steps that move no line from the buffer or the wire.
LEMMA OrderStill ==
    ASSUME TypeInv, OrderInv, stream' = stream, executed' = executed,
           buf' = buf, wire' = wire, pos' = pos, open' = open,
           pc' = "read" => pos = 0,
           pc' \in {"sleep", "execute"} => IsHeader /\ Command.kind # "bad"
    PROVE  OrderInv'
<1>1. AheadLen' = AheadLen /\ Rest' = Rest /\ AheadLen \in Nat
    BY RestIs DEF AheadLen, Rest
<1>2. pc' \in {"sleep", "execute"} => (IsHeader /\ Command.kind # "bad")'
    BY DEF IsHeader, Command, Current
<1> QED
    BY <1>1, <1>2, OrderKept

LEMMA OrderStep ==
    ASSUME TypeInv, OrderInv, [ConnectionNext]_connectionVars
    PROVE  OrderInv'
<1> USE DEF inputVars, bufferVars, replyVars, limiterVars
<1>1. ASSUME NEW r \in Request, Send(r) PROVE OrderInv'
    BY <1>1, OrderSend
<1>2. CASE HangUp
    <2>0. PICK w2 : w2 = wire'
        OBVIOUS
    <2>1. PICK n \in 0 .. Len(wire) : w2 = SubSeq(wire, 1, n)
        BY <1>2, <2>0 DEF HangUp
    <2>2. buf \in Seq(Line) /\ wire \in Seq(Line) /\ pos \in 0 .. Len(buf)
        BY RestIs
    <2>3. LinesCut(buf, pos, wire, w2)
        BY Zenon, <2>1, <2>2, CutLines
    <2>4. /\ UNCHANGED <<stream, buf, pos, pc, executed>> /\ open' = FALSE
          /\ AheadLen' = LenAhead(buf, pos, w2) /\ Rest' = Ahead(buf, pos, w2)
        BY <1>2, <2>0 DEF HangUp, AheadLen, Rest
    <2>5. /\ AheadLen' \in Nat /\ AheadLen' <= AheadLen
          /\ \A i \in 1 .. AheadLen' : Rest'[i] = Rest[i]
        BY <2>3, <2>4 DEF LinesCut, AheadLen, Rest
    <2>6. /\ pc' = "read" => pos' = 0
          /\ pc' \in {"sleep", "execute"} => (IsHeader /\ Command.kind # "bad")'
        BY <2>4 DEF OrderInv, IsHeader, Command, Current
    <2> QED
        BY <2>4, <2>5, <2>6, OrderKept
<1>3. CASE Tick
    BY <1>3, OrderStill DEF Tick, OrderInv
<1>4. CASE Read
    <2>0. PICK b2, w2 : b2 = buf' /\ w2 = wire'
        OBVIOUS
    <2>1. PICK n \in 1 .. Len(wire) :
              b2 = buf \o SubSeq(wire, 1, n) /\ w2 = SubSeq(wire, n + 1, Len(wire))
        BY <1>4, <2>0 DEF Read
    <2>2. buf \in Seq(Line) /\ wire \in Seq(Line) /\ pos = 0
        BY <1>4, RestIs DEF Read, OrderInv
    <2>3. LinesKept(buf, 0, wire, b2, w2)
        BY Zenon, <2>1, <2>2, ReadLines
    <2>4. /\ UNCHANGED <<stream, open, executed>> /\ pc' = "loop" /\ pos' = 0
          /\ AheadLen' = LenAhead(b2, 0, w2) /\ Rest' = Ahead(b2, 0, w2)
        BY <1>4, <2>0 DEF Read, AheadLen, Rest
    <2>5. /\ AheadLen' \in Nat /\ AheadLen' = AheadLen
          /\ \A i \in 1 .. AheadLen' : Rest'[i] = Rest[i]
        BY <2>2, <2>3, <2>4 DEF LinesKept, AheadLen, Rest
    <2> QED
        BY <2>4, <2>5, OrderKept
<1>5. CASE EndOfInput
    BY <1>5, OrderStill DEF EndOfInput
<1>6. CASE Charge
    <2>1. /\ pc' \in {"sleep", "execute"}
          /\ UNCHANGED <<stream, open, wire, buf, pos, executed>>
        BY <1>6 DEF Charge
    <2>2. IsHeader /\ Command.kind # "bad"
        BY <1>6 DEF Charge, Parses
    <2> QED
        BY <2>1, <2>2, OrderStill
<1>7. CASE Sleep
    BY <1>7, OrderStill DEF Sleep, OrderInv
<1>8. CASE Execute
    <2>1. CASE ~Available(Command.reads)
        BY <1>8, <2>1, OrderStill DEF Execute
    <2> QED
        BY <1>8, <2>1, OrderExecute
<1>9. CASE Skip
    BY <1>9, OrderSkip
<1>10. CASE Break
    BY <1>10, OrderStill DEF Break
<1>11. CASE Flush
    <2>1. executed' = executed
        BY <1>11 DEF Flush, Write
    <2>2. pc' \in {"loop", "ended"}
        BY <1>11 DEF Flush
    <2> QED
        BY <1>11, <2>1, <2>2, OrderStill DEF Flush
<1>12. CASE Drain
    <2>0. PICK b2 : b2 = buf'
        OBVIOUS
    <2>1. /\ b2 = SubSeq(buf, pos + 1, Len(buf)) /\ pos' = 0
          /\ UNCHANGED <<stream, open, wire>>
        BY <1>12, <2>0 DEF Drain
    <2>2. buf \in Seq(Line) /\ wire \in Seq(Line) /\ pos \in 0 .. Len(buf)
        BY RestIs
    <2>3. LinesKept(buf, pos, wire, b2, wire)
        BY Zenon, <2>1, <2>2, DrainLines
    <2>4. AheadLen' = LenAhead(b2, 0, wire) /\ Rest' = Ahead(b2, 0, wire)
        BY <2>0, <2>1 DEF AheadLen, Rest
    <2>5. /\ AheadLen' \in Nat /\ AheadLen' = AheadLen
          /\ \A i \in 1 .. AheadLen' : Rest'[i] = Rest[i]
        BY <2>3, <2>4 DEF LinesKept, AheadLen, Rest
    <2>6. executed' = executed
        BY <1>12 DEF Drain, Write
    <2>7. pc' \in {"read", "ended"}
        BY <1>12 DEF Drain
    <2> QED
        BY <2>1, <2>5, <2>6, <2>7, OrderKept
<1>13. CASE UNCHANGED connectionVars
    BY <1>13, OrderStill DEF connectionVars, OrderInv
<1> QED
    BY <1>1, <1>2, <1>3, <1>4, <1>5, <1>6, <1>7, <1>8, <1>9, <1>10, <1>11, <1>12, <1>13
       DEF ConnectionNext, TaskStep

LEMMA OrderInit == ConnectionInit => OrderInv
<1> SUFFICES ASSUME ConnectionInit PROVE OrderInv
    OBVIOUS
<1>1. AheadLen = 0 /\ Len(stream) = 0 /\ Len(executed) = 0
    BY DEF ConnectionInit, AheadLen, LenAhead
<1>2. DoneBefore(NextLine)
    <2>1. NextLine.at = 1 /\ Answerable = {}
        BY <1>1 DEF NextLine, Header, Answerable
    <2> QED
        BY <1>1, <2>1 DEF DoneBefore, Meant
<1>3. Consecutive(Rest, AheadLen, stream) /\ ExecutedInOrder
    BY <1>1 DEF Consecutive, ExecutedInOrder
<1> QED
    BY <1>1, <1>2, <1>3 DEF OrderInv, ConnectionInit

(*****************************************************************************)
(* However the reads cut the stream and however often the header of a batch  *)
(* is parsed again, no line is executed twice and the task never goes back.  *)
(* Up to the first argument that its command does not read and that begins   *)
(* with '*', the commands executed are the requests sent, in order, and none *)
(* is passed over; an answer to a request behind it is not promised, and it  *)
(* may itself be executed as a command nobody sent (main.rs:361-607).        *)
(*****************************************************************************)
THEOREM ConnectionExecutesInOrder == ConnectionSpec => []ExecutedInOrder
<1>1. TypeInv /\ OrderInv /\ [ConnectionNext]_connectionVars => OrderInv'
    BY OrderStep
<1>2. OrderInv => ExecutedInOrder
    BY DEF OrderInv
<1> QED
    BY OrderInit, TypeInvariant, <1>1, <1>2, PTL DEF ConnectionSpec

=============================================================================
