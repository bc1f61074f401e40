------------------------ MODULE MCPersistenceNeural ------------------------
(*****************************************************************************)
(* Small sets of records for TLC, and bytes for them.                        *)
(*****************************************************************************)
EXTENDS LogBytes

CONSTANTS a, b, v1, v2, f

Fields(x, v) == [y \in Field |-> IF y = x THEN v ELSE NoVal]

\* records of all kinds
Records == {SetRec(a, v1), DelRec(b), HmSetRec(b, Fields(f, v2)), VAddRec(a), FlushRec}

\* odds of one half; Grain is so large that no step of learning changes them
HalfUnlessSpent == [d \in 0 .. TopDrive |-> [l \in Load |-> IF d = 0 THEN 0 ELSE 1]]

\* a SET whose value holds a FLUSHDB, cut where the record behind it completes it
SomeMisreads ==
    {[tag |-> "misread", rec |-> SetRec(a, v1), alone |-> <<FlushRec>>,
      joined |-> <<SetRec(a, v2)>>, eats |-> 1]}

\* values long enough to be cut at every line end of the record behind, empty,
\* with a line end; and one that is itself a record
Spelled(x, y) == (a :> <<97>>) @@ (b :> <<98, 97>>) @@ (f :> <<102>>)
                     @@ (v1 :> x) @@ (v2 :> y)

Spellings == {Spelled([i \in 1 .. 12 |-> 48 + (i % 3)], <<>>),
              Spelled(<<49, 13, 10>>, <<36, 49, 13, 10, 255>>),
              Spelled(ToResp(<<DEL, <<97>>>>), <<42>>)}

Floats == <<<<49>>, <<49, 48>>>>
=============================================================================
