------------------------------- MODULE MCLedger -------------------------------
(***************************************************************************)
(* An instance of Ledger: two calls made with one key.                     *)
(***************************************************************************)
EXTENDS Ledger

CONSTANTS k1, r1, r2, a1

MCOwner == [r \in Request |-> k1]
=============================================================================
