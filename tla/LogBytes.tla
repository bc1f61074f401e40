------------------------------ MODULE LogBytes ------------------------------
(*****************************************************************************)
(* The file of PersistenceNeural, byte by byte: its entries as to_resp       *)
(* writes them and as the replay reads them (Resp), where PersistenceNeural  *)
(* has whole records, and heads of records, torn or misread.                 *)
(*****************************************************************************)
EXTENDS PersistenceNeural, Resp

CONSTANTS Spelling,   \* ways to write the keys, fields and values as bytes
          FloatText   \* a vector, as its floats are written

\* the fields an HMSET names
Named(h) == {x \in Field : h[x] # NoVal}

(*****************************************************************************)
(* What is logged was read from a client: keys and fields as text, every     *)
(* length and number of arguments as a u32, vectors and hashes with at least *)
(* one element (resp.rs:87-103, 116-132, 158-184).                           *)
(*****************************************************************************)
ASSUME LogBytesAssumption ==
    /\ \A s \in Spelling :
          /\ s \in [Key \cup Field \cup Val -> Seq(0 .. 255)]
          /\ \A x \in Key \cup Field \cup Val : Len(s[x]) < IntLimit
          /\ \A x \in Key \cup Field : Utf8(s[x])
    /\ FloatText \in Seq(Seq(0 .. 255)) /\ FloatText # <<>> /\ 2 + Len(FloatText) < IntLimit
    /\ \A i \in 1 .. Len(FloatText) : Float(FloatText[i]) /\ Len(FloatText[i]) < IntLimit
    /\ \A r \in Record : r.op = "hmset" =>
          /\ IsFiniteSet(Named(r.fields)) /\ Named(r.fields) # {}
          /\ 2 + 2 * Cardinality(Named(r.fields)) < IntLimit

(*****************************************************************************)
(* The arguments of a record.                                                *)
(*****************************************************************************)
Args(s, r) ==
    CASE r.op = "set"   -> <<SET, s[r.key], s[r.val]>>
      [] r.op = "del"   -> <<DEL, s[r.key]>>
      [] r.op = "vadd"  -> <<VADD, s[r.key]>> \o FloatText
      [] r.op = "flush" -> <<FLUSHDB>>
      [] r.op = "hmset" ->
            LET set == SetToSeq(Named(r.fields))
            IN  <<HMSET, s[r.key]>>
                    \o Joined([i \in 1 .. Len(set) |-> <<s[set[i]], s[r.fields[set[i]]]>>])

Neighbours ==
    [r \in Record |-> [q \in Record |->
        \A s \in Spelling : ReadsBack(Args(s, r), Args(s, q))]]

\* of records whose arguments hold no "*"
CutBefore ==
    [r \in Record |-> [q \in Record |->
        \A s \in Spelling, p \in Record :
            (\A x \in {r, q, p} : Plain(Args(s, x))) =>
                TornOrEats(Args(s, r), Args(s, q), Args(s, p))]]

(*****************************************************************************)
(* What the thread wrote the replay reads, record by record, whatever bytes  *)
(* the values hold: line ends, "*", whole records                            *)
(* (persistence_neural.rs:16-73, resp.rs:158-184, main.rs:188-239).          *)
(*****************************************************************************)
WholeRecordsReadBack ==
    \A i \in 1 .. Len(file) - 1 :
        file[i].tag = "whole" /\ file[i + 1].tag = "whole" =>
            Neighbours[file[i].rec][file[i + 1].rec]

(*****************************************************************************)
(* Of a cut record that is followed by others, where no argument of them     *)
(* holds a "*", the replay finds nothing, and it finds all that the thread   *)
(* wrote behind it; unless the cut lies inside an argument and what follows  *)
(* has a line end exactly where that argument should have had one.  In the   *)
(* value of a SET such a cut gives it bytes of the next record, which is     *)
(* lost, but none behind it.  A "*" in an argument that was cut may begin a  *)
(* command, which the replay would execute.  This is where PersistenceNeural *)
(* takes a cut record for torn, and where for a misread (resp.rs:167-171,    *)
(* main.rs:188-238).                                                         *)
(*****************************************************************************)
PlainCutsAreSkipped ==
    \A i \in 1 .. Len(file) - 1 :
        file[i].tag # "whole" /\ file[i + 1].tag = "whole" =>
            CutBefore[file[i].rec][file[i + 1].rec]
=============================================================================
