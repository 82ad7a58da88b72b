------------------------------- MODULE MCRelay -------------------------------
(***************************************************************************)
(* Instances of Relay: two calls racing for two channels, and one call with *)
(* three channels to fall back on.  The channel that priority puts last is *)
(* the one with the capability a call may prefer.                          *)
(***************************************************************************)
EXTENDS Relay, TLC

CONSTANTS c1, c2, c3, r1, r2

MCPriority == (c1 :> 0) @@ (c2 :> 1) @@ (c3 :> 1)
MCPriority2 == (c1 :> 0) @@ (c2 :> 1)

\* The requests are interchangeable; the channels are not.
MCSymmetry == Permutations({r1, r2})
=============================================================================
