---------------------------- MODULE MCToolRuntime ----------------------------
(***************************************************************************)
(* Values for the constants of ToolRuntime.                                *)
(***************************************************************************)
EXTENDS ToolRuntime, TLC

CONSTANTS c1, c2, c3, k

\* two calls under one key and one without a key
MixedKeys == (c1 :> k) @@ (c2 :> k) @@ (c3 :> NoKey)

\* the two calls under one key are interchangeable
SameKey == Permutations({c1, c2})

\* every call under the one key
OneKey == [c \in Calls |-> k]

=============================================================================
