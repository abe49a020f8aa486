---------------------------- MODULE MCUsageInbox ----------------------------
(***************************************************************************)
(* UsageInbox for TLC: small message populations whose kinds reach every   *)
(* branch of the decoder and of the identity lookup.                       *)
(***************************************************************************)
EXTENDS UsageInbox

\* One row of every kind, then one that can be pushed or pulled.
MixedKind == [m \in Messages |->
    CASE m = 1 -> "unresolved" [] m = 2 -> "malformed" [] OTHER -> "resolved"]
=============================================================================
