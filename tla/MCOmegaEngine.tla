--------------------------- MODULE MCOmegaEngine ---------------------------
(*****************************************************************************)
(* Two tables, names of up to three bytes where a length byte counts to two, *)
(* values that fill a cell, overflow it or are empty, for TLC.               *)
(*****************************************************************************)
EXTENDS OmegaEngine, TLC

CONSTANTS t1, t2

Pairs == {[row |-> <<>>, col |-> <<1>>], [row |-> <<2, 0>>, col |-> <<>>],
          [row |-> <<1, 1, 1>>, col |-> <<0>>]}

Values == 0 :> <<1>> @@ 1 :> <<2, 1, 0>> @@ 2 :> <<>>
=============================================================================
