-------------------------------- MODULE Ledger --------------------------------
(***************************************************************************)
(* The ledger of local keys: authentication and quota (services/keys.py,   *)
(* api/deps.py, api/gateway.py), the records written behind the response   *)
(* (services/usage.py), the console's edits of a key, and what a shutdown  *)
(* (context.py) or a crash leaves of records not yet written.              *)
(*                                                                         *)
(* Each action is the code of a task between two awaits, or a transaction  *)
(* of SQLite, whose writers exclude one another.  A priced call costs one  *)
(* unit; an unpriced or failed one nothing.                                *)
(***************************************************************************)
EXTENDS Integers, FiniteSets

CONSTANTS
    Key,        \* local keys that exist at first
    Request,    \* calls of clients
    Owner,      \* the key a call is made with
    Admin,      \* administrators with the console open
    Limits,     \* values of quota_limit they choose from, 0 for no limit
    Attempts    \* tries of _record_safe

ASSUME LedgerAssumption ==
    /\ Key # {} /\ IsFiniteSet(Request)
    /\ Owner \in [Request -> Key]
    /\ Limits \subseteq Nat /\ Limits # {}
    /\ Attempts \in Nat \ {0}

VARIABLES
    keys,      \* keys with a row in api_keys
    row,       \* their columns that matter here
    log,       \* requests with a row in usage_logs
    call,      \* what has become of each call
    edit,      \* what each administrator is about to commit
    phase,     \* of the gateway: up, closing, draining, closed
    waited,    \* records that drain waits for
    peak,      \* (history) most calls of a key ever unsettled at a time
    cap        \* (history) highest quota_limit of a key so far, 0 for none

table   == <<keys, row, log>>
history == <<peak, cap>>
vars    == <<table, call, edit, phase, waited, history>>

Statuses == {"active", "disabled"}
Row == [status: Statuses, quota_limit: Limits, quota_used: Nat, total_requests: Nat]
Phases == {"new", "refused", "checked", "running", "silent",
           "pending", "asleep", "stray", "booked", "lost", "cut"}
Call == [pc: Phases, spent: BOOLEAN, cost: 0..1, tries: 0..Attempts]

\* Columns an edit does not write.
Same == -1
Edit == [op: {"none", "update", "delete"}, key: Key, zero: BOOLEAN,
         limit: Limits \cup {Same}, status: Statuses \cup {"same"}]

TypeOK ==
    /\ keys \in SUBSET Key
    /\ row \in [Key -> Row]
    /\ log \in SUBSET Request
    /\ call \in [Request -> Call]
    /\ edit \in [Admin -> Edit]
    /\ phase \in {"up", "closing", "draining", "closed"}
    /\ waited \in SUBSET Request
    /\ peak \in [Key -> Nat]
    /\ cap \in [Key -> Nat]

Fresh == [pc |-> "new", spent |-> FALSE, cost |-> 0, tries |-> 0]
NoEdit(k) == [op |-> "none", key |-> k, zero |-> FALSE, limit |-> Same,
              status |-> "same"]

Init ==
    /\ keys = Key
    /\ \E limit \in [Key -> Limits] :
          /\ row = [k \in Key |-> [status |-> "active", quota_limit |-> limit[k],
                                   quota_used |-> 0, total_requests |-> 0]]
          /\ cap = limit
    /\ log = {}
    /\ call = [r \in Request |-> Fresh]
    /\ edit = [a \in Admin |-> NoEdit(CHOOSE k \in Key : TRUE)]
    /\ phase = "up"
    /\ waited = {}
    /\ peak = [k \in Key |-> 0]
-----------------------------------------------------------------------------
At(r, pc) == call[r].pc = pc
Become(r, c) == call' = [call EXCEPT ![r] = c]
Move(r, pc) == Become(r, [call[r] EXCEPT !.pc = pc])

\* Calls that passed the quota and whose price is not in the table yet.
Unsettled(k) ==
    {r \in Request : /\ Owner[r] = k
                     /\ \/ At(r, "checked") /\ ~call[r].spent
                        \/ call[r].pc \in {"running", "pending", "asleep", "stray"}}

\* (mutant) the call that reaches the limit leaves room for another
ExceededLate(k) == row[k].quota_limit > 0 /\ row[k].quota_used > row[k].quota_limit

Exceeded(k) == row[k].quota_limit > 0 /\ row[k].quota_used >= row[k].quota_limit
-----------------------------------------------------------------------------
(***************************************************************************)
(* A call.  The row is read once; the quota is tested on that copy, after  *)
(* the session has been closed.                                            *)
(***************************************************************************)
Authenticate(r) ==
    LET k == Owner[r] IN
    /\ At(r, "new") /\ phase = "up"
    /\ k \in keys /\ row[k].status = "active"
    /\ Become(r, [call[r] EXCEPT !.pc = "checked", !.spent = Exceeded(k)])
    /\ peak' = [peak EXCEPT ![k] =
          LET n == Cardinality(Unsettled(k)) + IF Exceeded(k) THEN 0 ELSE 1
          IN  IF n > @ THEN n ELSE @]
    /\ UNCHANGED <<table, edit, phase, waited, cap>>

\* No such key, not its secret any more, disabled or expired.
Reject(r) ==
    /\ At(r, "new") /\ phase = "up"
    /\ Move(r, "refused")
    /\ UNCHANGED <<table, edit, phase, waited, history>>

Admit(r) ==
    /\ At(r, "checked") /\ ~call[r].spent
    /\ Move(r, "running")
    /\ UNCHANGED <<table, edit, phase, waited, history>>

\* The quota is spent, or model, rate limit or body are refused.
Refuse(r) ==
    /\ At(r, "checked")
    /\ Move(r, "refused")
    /\ UNCHANGED <<table, edit, phase, waited, history>>

\* The relay is done: record_soon, as long as there is a usage service.
Settle(r) ==
    /\ At(r, "running") /\ phase # "closed"
    /\ \E cost \in 0..1 : Become(r, [call[r] EXCEPT !.pc = "pending", !.cost = cost])
    /\ UNCHANGED <<table, edit, phase, waited, history>>

\* The handler ends without a record: an exception got past the relay, or
\* the context has dropped its usage service.
EndsSilently(r) ==
    /\ At(r, "running")
    /\ Move(r, "silent")
    /\ UNCHANGED <<table, edit, phase, waited, history>>
-----------------------------------------------------------------------------
(***************************************************************************)
(* Writing a record: one transaction, tried again after a failure.         *)
(***************************************************************************)
Charged(old, cost) == [old EXCEPT !.quota_used = @ + cost, !.total_requests = @ + 1]

\* (mutant) a record that costs nothing is not counted
BumpPriced(r) ==
    LET k == Owner[r] IN
    row' = IF k \in keys /\ call[r].cost > 0
           THEN [row EXCEPT ![k] = Charged(row[k], call[r].cost)] ELSE row

Bump(r) ==
    LET k == Owner[r] IN
    row' = IF k \in keys
           THEN [row EXCEPT ![k] = Charged(row[k], call[r].cost)] ELSE row

\* (mutant) a record that was written is tried again
RecordAgain(r) ==
    /\ call[r].pc \in {"pending", "stray"}
    /\ log' = log \cup {r}
    /\ Bump(r)
    /\ IF At(r, "pending") /\ call[r].tries + 1 < Attempts
       THEN Become(r, [call[r] EXCEPT !.tries = @ + 1])
       ELSE Move(r, "booked")
    /\ UNCHANGED <<keys, edit, phase, waited, history>>

Record(r) ==
    /\ call[r].pc \in {"pending", "stray"}
    /\ log' = log \cup {r}
    /\ Bump(r)
    /\ Move(r, "booked")
    /\ UNCHANGED <<keys, edit, phase, waited, history>>

\* (mutant) tries are not counted
RecordFailsAlways(r) ==
    /\ At(r, "pending")
    /\ Move(r, "asleep")
    /\ UNCHANGED <<table, edit, phase, waited, history>>

\* (mutant) the last try is not the last
RecordFailsOnce(r) ==
    /\ At(r, "pending")
    /\ Become(r, [call[r] EXCEPT !.tries = @ + 1, !.pc = "asleep"])
    /\ UNCHANGED <<table, edit, phase, waited, history>>

RecordFails(r) ==
    /\ At(r, "pending")
    /\ Become(r, [call[r] EXCEPT !.tries = @ + 1,
                    !.pc = IF call[r].tries + 1 < Attempts THEN "asleep" ELSE "lost"])
    /\ UNCHANGED <<table, edit, phase, waited, history>>

Wake(r) ==
    /\ At(r, "asleep")
    /\ Move(r, "pending")
    /\ UNCHANGED <<table, edit, phase, waited, history>>

\* The thread of a cancelled record comes back without having committed.
StrayEnds(r) ==
    /\ At(r, "stray")
    /\ Move(r, "cut")
    /\ UNCHANGED <<table, edit, phase, waited, history>>
-----------------------------------------------------------------------------
(***************************************************************************)
(* The console.  A row is read, changed in memory and committed; only      *)
(* columns that differ from what was read are written.  A new secret, name *)
(* or expiry writes none of the columns kept here.                         *)
(***************************************************************************)
Load(a, k) ==
    /\ edit[a].op = "none" /\ phase = "up"
    /\ k \in keys
    /\ \/ \E reset \in BOOLEAN, limit \in Limits, status \in Statuses :
             edit' = [edit EXCEPT ![a] =
                [op |-> "update", key |-> k,
                 zero |-> reset /\ row[k].quota_used # 0,
                 limit |-> IF limit = row[k].quota_limit THEN Same ELSE limit,
                 status |-> IF status = row[k].status THEN "same" ELSE status]]
       \/ edit' = [edit EXCEPT ![a] = [NoEdit(k) EXCEPT !.op = "delete"]]
    /\ UNCHANGED <<table, call, phase, waited, history>>

Edited(old, e) ==
    [old EXCEPT !.quota_used = IF e.zero THEN 0 ELSE @,
                !.quota_limit = IF e.limit = Same THEN @ ELSE e.limit,
                !.status = IF e.status = "same" THEN @ ELSE e.status]

Highest(a, b) == IF a = 0 \/ b = 0 THEN 0 ELSE IF a > b THEN a ELSE b

\* The row may be gone by now: then nothing is written.
Commit(a) ==
    LET e == edit[a] IN
    /\ e.op # "none"
    /\ IF e.op = "update" /\ e.key \in keys
       THEN LET new == Edited(row[e.key], e)
            IN  /\ row' = [row EXCEPT ![e.key] = new]
                /\ cap' = [cap EXCEPT ![e.key] = Highest(@, new.quota_limit)]
       ELSE UNCHANGED <<row, cap>>
    /\ keys' = IF e.op = "delete" THEN keys \ {e.key} ELSE keys
    /\ edit' = [edit EXCEPT ![a] = NoEdit(e.key)]
    /\ UNCHANGED <<log, call, phase, waited, peak>>
-----------------------------------------------------------------------------
(***************************************************************************)
(* The end of the gateway.                                                 *)
(***************************************************************************)
Shutdown ==
    /\ phase = "up"
    /\ phase' = "closing"
    /\ UNCHANGED <<table, call, edit, waited, history>>

DrainBegins ==
    /\ phase = "closing"
    /\ phase' = "draining"
    /\ waited' = {r \in Request : call[r].pc \in {"pending", "asleep"}}
    /\ UNCHANGED <<table, call, edit, history>>

DrainEnds ==
    /\ phase = "draining"
    /\ \A r \in waited : call[r].pc \notin {"pending", "asleep"}
    /\ phase' = "closed"
    /\ UNCHANGED <<table, call, edit, waited, history>>

\* After five seconds the tasks are cancelled; a transaction on its way may
\* still come through.
DrainTimesOut ==
    /\ phase = "draining"
    /\ phase' = "closed"
    /\ call' = [r \in Request |->
          IF r \notin waited \/ call[r].pc \notin {"pending", "asleep"} THEN call[r]
          ELSE [call[r] EXCEPT !.pc = IF @ = "pending" THEN "stray" ELSE "cut"]]
    /\ UNCHANGED <<table, edit, waited, history>>

\* The event loop or the process ends, in order or not, and starts anew on
\* the tables it left.
Restarts ==
    /\ phase' = "up"
    /\ waited' = {}
    /\ call' = [r \in Request |->
          IF call[r].pc \in {"checked", "running", "pending", "asleep", "stray"}
          THEN [call[r] EXCEPT !.pc = "cut"] ELSE call[r]]
    /\ edit' = [a \in Admin |-> NoEdit(edit[a].key)]
    /\ UNCHANGED <<table, history>>
-----------------------------------------------------------------------------
Handle(r) ==
    \/ Authenticate(r) \/ Reject(r) \/ Admit(r) \/ Refuse(r) \/ Settle(r)
    \/ EndsSilently(r)

Write(r) == Record(r) \/ RecordFails(r) \/ Wake(r) \/ StrayEnds(r)

Drain == DrainBegins \/ DrainEnds \/ DrainTimesOut

Next ==
    \/ \E r \in Request : Handle(r) \/ Write(r)
    \/ \E a \in Admin : (\E k \in Key : Load(a, k)) \/ Commit(a)
    \/ Shutdown \/ Drain \/ Restarts

Spec == Init /\ [][Next]_vars

\* A transaction ends, one way or the other; the sleep of a retry is short.
FairSpec == Spec /\ \A r \in Request : WF_vars(Write(r))
-----------------------------------------------------------------------------
(***************************************************************************)
(* Properties.                                                             *)
(***************************************************************************)

\* Whatever retries, edits, shutdowns and crashes do, the tables change like
\* an account: a request is entered once, its price goes to its key with it,
\* and only a reset lowers what a key has used.
A == INSTANCE Account WITH
        open <- keys, entered <- log,
        balance <- [k \in Key |-> row[k].quota_used],
        count <- [k \in Key |-> row[k].total_requests]

ImplementsAccount == A!Spec

\* A key's request counter is the number of its rows in the log.
TotalsMatch ==
    \A k \in keys :
       row[k].total_requests = Cardinality({r \in log : Owner[r] = k})

\* Admission looks at the quota long before the price is known; calls that
\* are under way together may overshoot it, but by no more than their
\* number less one.
QuotaBounded ==
    \A k \in Key : cap[k] > 0 => row[k].quota_used < cap[k] + peak[k]

\* A record is written, given up after the last try, or cut off by the end
\* of the gateway; it does not hang.
EveryRecordSettles ==
    \A r \in Request :
       (call[r].pc \in {"pending", "asleep", "stray"})
          ~> (call[r].pc \in {"booked", "lost", "cut"})

\* context.py says that the data are on disk when the gateway has stopped.
StoredWhenStopped ==
    phase = "closed" => \A r \in waited : call[r].pc \in {"booked", "lost"}
=============================================================================
