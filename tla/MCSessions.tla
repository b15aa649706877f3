----------------------------- MODULE MCSessions -----------------------------
(***************************************************************************)
(* Values for the constants of Sessions.                                   *)
(***************************************************************************)
EXTENDS Sessions, TLC

CONSTANTS c1, c2, d1, x1, i1

Symmetric == Permutations(Chats)

=============================================================================
