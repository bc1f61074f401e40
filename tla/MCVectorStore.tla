--------------------------- MODULE MCVectorStore ---------------------------
(*****************************************************************************)
(* A few vectors of four floats, for TLC.                                    *)
(*****************************************************************************)
EXTENDS VectorStore, TLC

CONSTANTS w1, w2, x1, x2, x3, x4, x5

\* Distances 1, 2, 3, 1, 2 and scores 5, 7, 9, 5, 3: x3 has the best score but
\* the worst distance, x1 and x4 tie in both.
MCQuery == <<-1, -1, -1, 4>>

Signs == (x1 :> <<1, -1, -1, 1>>) @@ (x2 :> <<1, 1, -1, 2>>) @@ (x3 :> <<1, 1, 1, 3>>)
         @@ (x4 :> <<-1, 1, -1, 1>>) @@ (x5 :> <<1, -1, 1, 1>>)

MCFloats == [v \in Vec |-> Signs[v]]
=============================================================================
