---------------------------- MODULE MCOmegaDrive ----------------------------
(*****************************************************************************)
(* Two workers on keys of their own, one persistence thread, for TLC.        *)
(*****************************************************************************)
EXTENDS OmegaDrive, TLC

CONSTANTS w1, w2, a, b, v1, v2, f

Set(k, v)   == [op |-> "set", pairs |-> <<[key |-> k, val |-> v]>>]
MSet(k, v)  == [op |-> "mset", pairs |-> <<[key |-> k, val |-> v]>>]
Del(k)      == [op |-> "del", key |-> k]
HmSet(k, v) == [op |-> "hmset", key |-> k, fields |-> [NoFields EXCEPT ![f] = v]]

OwnKeys ==
    w1 :> {Set(a, v1), MSet(a, v2), HmSet(a, v1)} @@ w2 :> {HmSet(b, v1), Del(b)}

SharedKey == w1 :> {Set(a, v1)} @@ w2 :> {Set(a, v2)}

OneShard == (a :> 0) @@ (b :> 0)
\* odds of one half, with little left of the inclination to commit only while
\* little waits, and then none
HalfUnlessSpent ==
    [d \in 0 .. 3 |-> [l \in Load |-> IF d > 1 \/ (d = 1 /\ l = "short") THEN 1 ELSE 0]]

\* a cut SET that is completed by the record behind it, and one whose value
\* holds a FLUSHDB
SetMisreads ==
    {[tag |-> "misread", rec |-> SetRec(a, v1), alone |-> <<>>,
      joined |-> <<SetRec(a, v2)>>, eats |-> 1],
     [tag |-> "misread", rec |-> SetRec(a, v1), alone |-> <<FlushRec>>,
      joined |-> <<FlushRec>>, eats |-> 0]}
=============================================================================
