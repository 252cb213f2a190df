------------------------------ MODULE MCServer ------------------------------
(* A small instance of Server for TLC. *)
EXTENDS Server

\* The clock stands still: sessions go because they are deleted or because
\* their application exits.
Standing == {0}

\* Two data sets of the same priority and a better one.
TwoPriorities == [ id \in DataId |-> IF id = 3 THEN 1 ELSE 2 ]
=============================================================================
