--------------------------- MODULE MCConnection ----------------------------
(*****************************************************************************)
(* One lite-tier connection for TLC.                                         *)
(*****************************************************************************)
EXTENDS Connection

At(kind, reads) == [kind |-> kind, reads |-> reads]

\* ZADD with a member it does not read, KEYS *, a command with an unread argument
\* that is itself a command, one whose unread argument begins a command that goes
\* on into the next request, an MSET, a command with too few arguments and an
\* inline one.
MCRequest ==
    {<<At("whole", 2), At("inline", 1), At("inline", 1)>>,
     <<At("whole", 1), At("bad", 1)>>,
     <<At("whole", 1), At("whole", 1)>>,
     <<At("whole", 1), At("whole", 2)>>,
     <<At("batch", 2), At("inline", 1)>>,
     <<At("bad", 1)>>,
     <<At("inline", 1)>>}

=============================================================================
