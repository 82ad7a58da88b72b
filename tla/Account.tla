-------------------------------- MODULE Account --------------------------------
(***************************************************************************)
(* What the ledger of the gateway promises about local keys: a request is  *)
(* entered once, its price and its count go to its key in the same step,   *)
(* and nothing but a reset ever lowers a balance.                          *)
(***************************************************************************)
EXTENDS Integers

CONSTANTS
    Key,       \* local keys
    Request,   \* requests, each made with one key
    Owner      \* the key of each request

VARIABLES
    open,      \* keys that exist
    entered,   \* requests entered in the ledger
    balance,   \* what each key has used since its last reset
    count      \* requests of each key ever entered

vars == <<open, entered, balance, count>>

Init ==
    /\ open = Key
    /\ entered = {}
    /\ balance = [k \in Key |-> 0]
    /\ count = [k \in Key |-> 0]

\* A priced request costs one unit, another one nothing; a key that is gone
\* is charged no more.
Enter(r) ==
    /\ r \notin entered
    /\ entered' = entered \cup {r}
    /\ \E price \in {0, 1} :
          IF Owner[r] \in open
          THEN /\ balance' = [balance EXCEPT ![Owner[r]] = @ + price]
               /\ count' = [count EXCEPT ![Owner[r]] = @ + 1]
          ELSE UNCHANGED <<balance, count>>
    /\ UNCHANGED open

Reset(k) ==
    /\ k \in open
    /\ balance' = [balance EXCEPT ![k] = 0]
    /\ UNCHANGED <<open, entered, count>>

Close(k) ==
    /\ open' = open \ {k}
    /\ UNCHANGED <<entered, balance, count>>

Next ==
    \/ \E r \in Request : Enter(r)
    \/ \E k \in Key : Reset(k) \/ Close(k)

Spec == Init /\ [][Next]_vars
=============================================================================
