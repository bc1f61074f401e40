-------------------------------- MODULE Resp --------------------------------
(*****************************************************************************)
(* The bytes of the log: how a command is written (to_resp,                  *)
(* src/omega/src/persistence_neural.rs:15-74), how one is read               *)
(* (parse_command_fast, src/omega/src/resp.rs:25-184) and how the boot-time  *)
(* replay finds its way in a file with records cut short                     *)
(* (src/omega/src/main.rs:188-239).                                          *)
(*                                                                           *)
(* A byte is its number.  A command is the sequence of its arguments, its    *)
(* name first, each a sequence of bytes.                                     *)
(*****************************************************************************)
EXTENDS Bytes

CONSTANT IntLimit   \* above every integer a length is read into (u32), 2^32

CR == 13
LF == 10
STAR == 42
DOLLAR == 36

Digit == 48 .. 57

\* the names the log holds, in ASCII
SET == <<83, 69, 84>>
DEL == <<68, 69, 76>>
HMSET == <<72, 77, 83, 69, 84>>
VADD == <<86, 65, 68, 68>>
FLUSHDB == <<70, 76, 85, 83, 72, 68, 66>>

ASSUME RespAssumption == IntLimit \in Nat /\ Len(FLUSHDB) < IntLimit

(*****************************************************************************)
(* to_resp: the number of arguments, then each behind its length.            *)
(*****************************************************************************)
Decimal(n) ==
    LET rest[k \in 0 .. n + 1] == IF k = 0 THEN n ELSE rest[k - 1] \div 10
        width == CHOOSE k \in 1 .. n + 1 : rest[k] = 0 /\ \A j \in 1 .. k - 1 : rest[j] # 0
    IN  [i \in 1 .. width |-> 48 + (rest[width - i] % 10)]

Header(arg) == <<DOLLAR>> \o Decimal(Len(arg)) \o <<CR, LF>>

ToResp(c) ==
    <<STAR>> \o Decimal(Len(c)) \o <<CR, LF>>
        \o Joined([i \in 1 .. Len(c) |-> Header(c[i]) \o c[i] \o <<CR, LF>>])

-----------------------------------------------------------------------------
(*****************************************************************************)
(* parse_int: the digits from p on, with the overflow of a release build;    *)
(* next = p if there are none.                                               *)
(*****************************************************************************)
DigitAt(buf, p) == p <= Len(buf) /\ buf[p] \in Digit

\* mutant of ParseInt: one digit is read
ParseIntOneDigit(buf, p) ==
    IF DigitAt(buf, p) THEN [val |-> buf[p] - 48, next |-> p + 1]
                      ELSE [val |-> 0, next |-> p]

ParseInt(buf, p) ==
    LET next == CHOOSE q \in p .. Len(buf) + 1 :
                    ~ DigitAt(buf, q) /\ \A i \in p .. q - 1 : DigitAt(buf, i)
        val[n \in 0 .. next - p] ==
            IF n = 0 THEN 0 ELSE (10 * val[n - 1] + (buf[p + n - 1] - 48)) % IntLimit
    IN  [val |-> val[next - p], next |-> next]

EndsLine(buf, p) == p + 1 <= Len(buf) /\ buf[p] = CR /\ buf[p + 1] = LF

Failed == [ok |-> FALSE, args |-> <<>>, next |-> 0]

\* mutant of ParseBulk: what stands behind the data is not looked at
ParseBulkUnterminated(buf, p) ==
    LET length == ParseInt(buf, p + 1)
        from   == length.next + 2
        end    == from + length.val
    IN  IF /\ p <= Len(buf) /\ buf[p] = DOLLAR
           /\ length.next > p + 1 /\ EndsLine(buf, length.next)
           /\ end - 1 <= Len(buf)
        THEN [ok |-> TRUE, args |-> <<SubSeq(buf, from, end - 1)>>, next |-> end + 2]
        ELSE Failed

(*****************************************************************************)
(* parse_bulk_str: "$", a length, that many bytes between two line ends.     *)
(*****************************************************************************)
ParseBulk(buf, p) ==
    LET length == ParseInt(buf, p + 1)
        from   == length.next + 2
        end    == from + length.val
    IN  IF /\ p <= Len(buf) /\ buf[p] = DOLLAR
           /\ length.next > p + 1 /\ EndsLine(buf, length.next)
           /\ end - 1 <= Len(buf) /\ EndsLine(buf, end)
        THEN [ok |-> TRUE, args |-> <<SubSeq(buf, from, end - 1)>>, next |-> end + 2]
        ELSE Failed

ParseBulks(buf, p, n) ==
    LET upTo[k \in 0 .. n] ==
            IF k = 0 THEN [ok |-> TRUE, args |-> <<>>, next |-> p]
            ELSE LET one == ParseBulk(buf, upTo[k - 1].next)
                 IN  IF upTo[k - 1].ok /\ one.ok
                     THEN [ok |-> TRUE, args |-> upTo[k - 1].args \o one.args, next |-> one.next]
                     ELSE Failed
    IN  upTo[n]

(*****************************************************************************)
(* How many arguments a command must announce, and how many of them it       *)
(* reads.  The commands the log never holds are left out: they are arms of   *)
(* the same form, or, like a name cut short, read nothing.                   *)
(*****************************************************************************)
Least(name) ==
    CASE name \in {SET, VADD} -> 3 [] name = HMSET -> 4 [] name = DEL -> 2
      [] OTHER -> 1

Reads(name, n) ==
    CASE name = SET -> 2
      [] name = DEL -> 1
      [] name = HMSET -> 1 + 2 * ((n - 2) \div 2)
      [] name = VADD -> 1 + (n - 2)
      [] OTHER -> 0

Utf8(s) == \A i \in 1 .. Len(s) : s[i] < 128
Float(s) == s # <<>> /\ \A i \in 1 .. Len(s) : s[i] \in Digit

\* keys, fields and floats must be text; values need not be
Readable(name, args) ==
    /\ args # <<>> => Utf8(args[1])
    /\ name = HMSET => \A i \in 2 .. Len(args) : i % 2 = 0 => Utf8(args[i])
    /\ name = VADD => \A i \in 2 .. Len(args) : Float(args[i])

ParseCommand(buf, p) ==
    LET count == ParseInt(buf, p + 1)
        name  == ParseBulk(buf, count.next + 2)
        args  == ParseBulks(buf, name.next, Reads(name.args[1], count.val))
    IN  IF /\ p <= Len(buf) /\ buf[p] = STAR
           /\ count.next > p + 1 /\ EndsLine(buf, count.next) /\ count.val > 0
           /\ name.ok /\ Utf8(name.args[1])
           /\ count.val >= Least(name.args[1])
           /\ args.ok /\ Readable(name.args[1], args.args)
        THEN [ok |-> TRUE, args |-> name.args \o args.args, next |-> args.next]
        ELSE Failed

(*****************************************************************************)
(* The replay: from each "*" that begins a command behind it, else from the  *)
(* next byte; of what it finds it applies five commands.                     *)
(*****************************************************************************)
Logged == {SET, DEL, HMSET, VADD, FLUSHDB}

\* a command that was found is applied, if the replay knows it, and passed over
Taken(walk, found) ==
    IF ~ found.ok THEN [walk EXCEPT !.p = @ + 1]
    ELSE [p |-> found.next,
          read |-> IF found.args[1] \in Logged THEN Append(walk.read, found.args)
                                                ELSE walk.read]

NextCommand(data, walk) ==
    IF walk.p > Len(data) THEN walk ELSE Taken(walk, ParseCommand(data, walk.p))

Replayed(data) ==
    LET walk[n \in 0 .. Len(data)] ==
            IF n = 0 THEN [p |-> 1, read |-> <<>>] ELSE NextCommand(data, walk[n - 1])
    IN  walk[Len(data)].read
-----------------------------------------------------------------------------
(*****************************************************************************)
(* What the replay should make of two neighbours in the file, and of a       *)
(* record cut short before others (see LogBytes).                            *)
(*****************************************************************************)
ReadsBack(c, d) == Replayed(ToResp(c) \o ToResp(d)) = <<c, d>>

\* a "*" in an argument would be taken for the beginning of a command
Plain(c) == \A i \in 1 .. Len(c) : \A j \in 1 .. Len(c[i]) : c[i][j] # STAR

\* where the data of argument i ends in ToResp(c)
DataEnd(c, i) ==
    Len(ToResp(c)) - 2
        - Len(Joined([j \in 1 .. Len(c) - i |-> Header(c[i + j]) \o c[i + j] \o <<CR, LF>>]))

\* c, cut behind its first n bytes, has argument i completed by what follows
Completes(c, i, n, rest) ==
    /\ DataEnd(c, i) - Len(c[i]) <= n /\ n < DataEnd(c, i)
    /\ EndsLine(rest, DataEnd(c, i) - n + 1)

Skips(c, n, d, e) ==
    (\A i \in 1 .. Len(c) : ~ Completes(c, i, n, ToResp(d) \o ToResp(e))) =>
        Replayed(SubSeq(ToResp(c), 1, n) \o ToResp(d) \o ToResp(e)) = <<d, e>>

ValueEatsNext(c, n, d, e) ==
    LET end  == DataEnd(c, 3)
        head == SubSeq(ToResp(c), 1, n)
    IN  c[1] = SET /\ Completes(c, 3, n, ToResp(d)) =>
            Replayed(head \o ToResp(d) \o ToResp(e)) =
                <<[c EXCEPT ![3] = SubSeq(head, end - Len(@) + 1, n)
                                   \o SubSeq(ToResp(d), 1, end - n)], e>>

TornOrEats(c, d, e) ==
    \A n \in 1 .. Len(ToResp(c)) - 1 :
        /\ Replayed(SubSeq(ToResp(c), 1, n)) = <<>>
        /\ Skips(c, n, d, e)
        /\ ValueEatsNext(c, n, d, e)
=============================================================================
