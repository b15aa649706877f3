--------------------------- MODULE MCQueryThreads ---------------------------
(***************************************************************************)
(* Values for the constants of QueryThreads.                               *)
(***************************************************************************)
EXTENDS QueryThreads

CONSTANTS q1, q2, q3

=============================================================================
