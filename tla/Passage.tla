-------------------------------- MODULE Passage --------------------------------
(***************************************************************************)
(* What a request passes through apart from the relay: the rate limits     *)
(* (Admission), the tables that give its model a meaning (Catalog), and    *)
(* the adapters that translate it and its answer (Exchange).               *)
(*                                                                         *)
(* The three share no state, and no step of one looks at another.  Any     *)
(* reachable states of them are reachable together, and their              *)
(* interleavings show nothing that each does not show alone: a behaviour   *)
(* moves one of them and leaves the others as they began.                  *)
(***************************************************************************)
EXTENDS Admission, Catalog, Exchange

VARIABLE part   \* the one that moves

passageVars == <<admissionVars, catalogVars, vars, part>>

PassageInit ==
    /\ AdmissionInit /\ CatalogInit /\ Init
    /\ part \in {"admission", "catalog", "exchange"}
    /\ part # "admission" => limit = [n \in Names |-> CHOOSE l \in Limits : TRUE]
    /\ part # "catalog" => rows = (CHOOSE t \in FirstTables : TRUE) /\ channels = <<>>

AdmissionMoves == AdmissionNext /\ UNCHANGED <<catalogVars, vars, part>>
CatalogMoves == CatalogNext /\ UNCHANGED <<admissionVars, vars, part>>
ExchangeMoves == Next /\ UNCHANGED <<admissionVars, catalogVars, part>>

PassageNext ==
    \/ part = "admission" /\ AdmissionMoves
    \/ part = "catalog" /\ CatalogMoves
    \/ part = "exchange" /\ ExchangeMoves

PassageSpec == PassageInit /\ [][PassageNext]_passageVars

\* Every part keeps its types.
TypeOK == AdmissionTypes /\ CatalogTypes /\ ExchangeTypes
=============================================================================
