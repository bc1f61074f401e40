----------------------------- MODULE DurableLog -----------------------------
(*****************************************************************************)
(* What the persistence thread promises whoever sends it a command           *)
(* (src/README.md:71-73), without its file, its batches and its retries:     *)
(* commands are accepted one by one and settled in the order of acceptance,  *)
(* several at a time; to settle commands is to put them, in order, behind    *)
(* all the medium kept so far.  What it kept it keeps; a restart forgets     *)
(* which commands were accepted, and loses those that were not settled.      *)
(*****************************************************************************)
EXTENDS Naturals, SequencesExt

CONSTANTS Accepted,  \* the commands
          Mark(_)    \* how the medium holds a command it keeps

VARIABLES pending,   \* accepted since the last start, not settled
          settled,   \* settled since the last start
          kept       \* what the medium keeps, remains of failed writes included

logVars == <<pending, settled, kept>>

Init ==
    /\ pending = <<>>
    /\ settled = <<>>
    /\ kept = <<>>

Accept ==
    /\ \E r \in Accepted : pending' = Append(pending, r)
    /\ UNCHANGED <<settled, kept>>

Settle(n) ==
    /\ settled' = settled \o SubSeq(pending, 1, n)
    /\ pending' = SubSeq(pending, n + 1, Len(pending))
    /\ Len(kept) + n <= Len(kept')
    /\ SubSeq(kept', 1, Len(kept)) = kept
    /\ \A i \in 1 .. n : kept'[Len(kept') - n + i] = Mark(pending[i])

Restart ==
    /\ pending' = <<>>
    /\ settled' = <<>>
    /\ UNCHANGED kept

Next == Accept \/ (\E n \in 1 .. Len(pending) : Settle(n)) \/ Restart

Spec == Init /\ [][Next]_logVars
=============================================================================
