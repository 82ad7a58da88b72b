----------------------------- MODULE LedgerProofs -----------------------------
(***************************************************************************)
(* What holds of Ledger for any keys, calls, administrators and limits:    *)
(* it implements Account, its counters match its log, and the quota is     *)
(* overshot by no more than the calls that are under way together.         *)
(***************************************************************************)
EXTENDS Ledger, FiniteSetTheorems, TLAPS

-----------------------------------------------------------------------------
(***************************************************************************)
(* One call moves, the others stay.                                        *)
(***************************************************************************)
LEMMA BecomeEffect ==
    ASSUME TypeOK, NEW r \in Request, NEW c \in Call, Become(r, c)
    PROVE  /\ call' \in [Request -> Call]
           /\ call'[r] = c
           /\ \A q \in Request : q # r => call'[q] = call[q]
    BY DEF Become, TypeOK

LEMMA MoveEffect ==
    ASSUME TypeOK, NEW r \in Request, NEW pc \in Phases, Move(r, pc)
    PROVE  /\ call' \in [Request -> Call]
           /\ call'[r].pc = pc /\ call'[r].spent = call[r].spent
           /\ call'[r].tries = call[r].tries
           /\ \A q \in Request : q # r => call'[q] = call[q]
    <1> DEFINE c == [call[r] EXCEPT !.pc = pc]
    <1>1. c \in Call /\ c.pc = pc /\ c.spent = call[r].spent /\ c.tries = call[r].tries
        BY DEF TypeOK, Call
    <1>2. Become(r, c)
        BY DEF Move
    <1> HIDE DEF c
    <1> QED
        BY <1>1, <1>2, BecomeEffect

\* What each step of a call does to its phase, and what it leaves alone.
LEMMA AuthenticateEffect ==
    ASSUME TypeOK, NEW r \in Request, Authenticate(r)
    PROVE  /\ call' \in [Request -> Call]
           /\ call'[r].pc = "checked" /\ call'[r].spent = Exceeded(Owner[r])
           /\ call'[r].tries = call[r].tries
           /\ \A q \in Request : q # r => call'[q] = call[q]
    <1> DEFINE c == [call[r] EXCEPT !.pc = "checked", !.spent = Exceeded(Owner[r])]
    <1>1. Exceeded(Owner[r]) \in BOOLEAN
        BY DEF Exceeded
    <1>2. /\ c \in Call /\ c.pc = "checked" /\ c.spent = Exceeded(Owner[r])
          /\ c.tries = call[r].tries
        BY <1>1 DEF TypeOK, Call, Phases
    <1>3. Become(r, c)
        BY DEF Authenticate
    <1> HIDE DEF c
    <1> QED
        BY <1>2, <1>3, BecomeEffect

LEMMA SettleEffect ==
    ASSUME TypeOK, NEW r \in Request, Settle(r)
    PROVE  /\ call' \in [Request -> Call]
           /\ call[r].pc = "running" /\ call'[r].pc = "pending"
           /\ call'[r].tries = call[r].tries
           /\ \A q \in Request : q # r => call'[q] = call[q]
    <1>1. PICK cost \in 0..1 : Become(r, [call[r] EXCEPT !.pc = "pending", !.cost = cost])
        BY DEF Settle
    <1> DEFINE c == [call[r] EXCEPT !.pc = "pending", !.cost = cost]
    <1>2. c \in Call /\ c.pc = "pending" /\ c.tries = call[r].tries
        BY DEF TypeOK, Call, Phases
    <1>3. Become(r, c)
        BY <1>1
    <1> HIDE DEF c
    <1> QED
        BY <1>2, <1>3, BecomeEffect DEF Settle, At

LEMMA RecordFailsEffect ==
    ASSUME TypeOK, NEW r \in Request, RecordFails(r), call[r].tries < Attempts
    PROVE  /\ call' \in [Request -> Call]
           /\ call[r].pc = "pending" /\ call'[r].pc \in {"asleep", "lost"}
           /\ call'[r].pc = "asleep" => call'[r].tries < Attempts
           /\ \A q \in Request : q # r => call'[q] = call[q]
    <1> DEFINE c == [call[r] EXCEPT !.tries = @ + 1,
                       !.pc = IF call[r].tries + 1 < Attempts THEN "asleep" ELSE "lost"]
    <1>1. /\ call[r] \in Call /\ call[r].tries \in Nat /\ call[r].tries + 1 \in 0..Attempts
          /\ Attempts \in Nat
        BY LedgerAssumption DEF TypeOK, Call
    <1>2. /\ c \in Call /\ c.pc \in {"asleep", "lost"}
          /\ c.pc = "asleep" => c.tries < Attempts
        BY <1>1 DEF Call, Phases
    <1>3. Become(r, c)
        BY DEF RecordFails
    <1> HIDE DEF c
    <1> QED
        BY <1>2, <1>3, BecomeEffect DEF RecordFails, At

\* The columns of a row that a booking and an edit touch.
LEMMA ChargedRow ==
    ASSUME NEW old \in Row, NEW cost \in 0..1
    PROVE  /\ Charged(old, cost) \in Row
           /\ Charged(old, cost).quota_used = old.quota_used + cost
           /\ Charged(old, cost).total_requests = old.total_requests + 1
           /\ Charged(old, cost).quota_limit = old.quota_limit
    <1>1. /\ old.quota_used \in Nat /\ old.total_requests \in Nat
          /\ old.quota_used + cost \in Nat /\ old.total_requests + 1 \in Nat
        BY DEF Row
    <1> QED
        BY <1>1 DEF Charged, Row

LEMMA EditedRow ==
    ASSUME NEW old \in Row, NEW e \in Edit
    PROVE  /\ Edited(old, e) \in Row
           /\ Edited(old, e).quota_used = IF e.zero THEN 0 ELSE old.quota_used
           /\ Edited(old, e).total_requests = old.total_requests
    <1>1. /\ e.zero \in BOOLEAN /\ e.limit \in Limits \cup {Same}
          /\ e.status \in Statuses \cup {"same"}
        BY DEF Edit
    <1> QED
        BY <1>1 DEF Edited, Row
-----------------------------------------------------------------------------
(***************************************************************************)
(* Types, with the two facts they need: a record that may be tried again   *)
(* has a try left, and what is in the log is booked.                       *)
(***************************************************************************)
Early == {"new", "checked", "running", "pending", "asleep"}

TriesInv == \A r \in Request : call[r].pc \in Early => call[r].tries < Attempts
LogInv == \A r \in log : call[r].pc = "booked"

BaseInv == TypeOK /\ TriesInv /\ LogInv

LEMMA OwnerTyped == \A r \in Request : Owner[r] \in Key
    BY LedgerAssumption

LEMMA UnsettledFinite ==
    ASSUME NEW k \in Key
    PROVE  IsFiniteSet(Unsettled(k)) /\ Cardinality(Unsettled(k)) \in Nat
    <1>1. Unsettled(k) \in SUBSET Request
        BY DEF Unsettled
    <1> QED
        BY <1>1, LedgerAssumption, FS_Subset, FS_CardinalityType

\* A step of one call that has not been booked yet, and writes no table.
LEMMA CallKeepsBase ==
    ASSUME BaseInv, NEW r \in Request, call[r].pc # "booked",
           call' \in [Request -> Call],
           \A q \in Request : q # r => call'[q] = call[q],
           call'[r].pc \in Early => call'[r].tries < Attempts,
           UNCHANGED <<table, edit, phase, waited, cap>>, peak' \in [Key -> Nat]
    PROVE  BaseInv'
    <1>1. TypeOK'
        BY DEF BaseInv, TypeOK, table
    <1>2. TriesInv'
        BY DEF BaseInv, TriesInv
    <1>3. LogInv'
        BY DEF BaseInv, TypeOK, LogInv, table
    <1> QED
        BY <1>1, <1>2, <1>3 DEF BaseInv

LEMMA MoveKeepsBase ==
    ASSUME BaseInv, NEW r \in Request, NEW pc \in Phases, Move(r, pc),
           call[r].pc # "booked",
           pc \in Early => call[r].pc \in Early,
           UNCHANGED <<table, edit, phase, waited, history>>
    PROVE  BaseInv'
    <1>1. /\ call' \in [Request -> Call] /\ call'[r].pc = pc
          /\ call'[r].tries = call[r].tries
          /\ \A q \in Request : q # r => call'[q] = call[q]
        BY MoveEffect DEF BaseInv
    <1>2. pc \in Early => call'[r].tries < Attempts
        BY <1>1 DEF BaseInv, TriesInv
    <1>3. cap' = cap /\ peak' \in [Key -> Nat]
        BY DEF BaseInv, TypeOK, history
    <1> QED
        BY <1>1, <1>2, <1>3, CallKeepsBase

LEMMA BaseStep == BaseInv /\ [Next]_vars => BaseInv'
    <1> SUFFICES ASSUME BaseInv, [Next]_vars PROVE BaseInv'
        OBVIOUS
    <1> USE OwnerTyped
    <1>1. ASSUME NEW r \in Request, Authenticate(r) PROVE BaseInv'
        <2>1. /\ call' \in [Request -> Call] /\ call'[r].tries = call[r].tries
              /\ call[r].pc = "new"
              /\ \A q \in Request : q # r => call'[q] = call[q]
            BY <1>1, AuthenticateEffect DEF BaseInv, Authenticate, At
        <2>2. call'[r].tries < Attempts
            BY <2>1 DEF BaseInv, TriesInv, Early
        <2>3. peak' \in [Key -> Nat]
            <3> DEFINE n == Cardinality(Unsettled(Owner[r]))
                            + IF Exceeded(Owner[r]) THEN 0 ELSE 1
            <3>1. n \in Nat
                BY UnsettledFinite
            <3>2. peak' = [peak EXCEPT ![Owner[r]] = IF n > @ THEN n ELSE @]
                BY <1>1 DEF Authenticate
            <3> HIDE DEF n
            <3> QED
                BY <3>1, <3>2 DEF BaseInv, TypeOK
        <2> QED
            BY <1>1, <2>1, <2>2, <2>3, CallKeepsBase DEF Authenticate
    <1>2. ASSUME NEW r \in Request, Reject(r) \/ Refuse(r) PROVE BaseInv'
        <2>1. /\ Move(r, "refused") /\ call[r].pc \in {"new", "checked"}
              /\ UNCHANGED <<table, edit, phase, waited, history>>
            BY <1>2 DEF Reject, Refuse, At
        <2> QED
            BY <2>1, MoveKeepsBase DEF Phases, Early
    <1>3. ASSUME NEW r \in Request, Admit(r) PROVE BaseInv'
        BY <1>3, MoveKeepsBase DEF Admit, At, Phases, Early
    <1>4. ASSUME NEW r \in Request, Settle(r) PROVE BaseInv'
        <2>1. /\ call' \in [Request -> Call] /\ call'[r].tries = call[r].tries
              /\ call[r].pc = "running"
              /\ \A q \in Request : q # r => call'[q] = call[q]
            BY <1>4, SettleEffect DEF BaseInv
        <2>2. call'[r].tries < Attempts
            BY <2>1 DEF BaseInv, TriesInv, Early
        <2>3. UNCHANGED <<table, edit, phase, waited, cap>> /\ peak' \in [Key -> Nat]
            BY <1>4 DEF Settle, history, BaseInv, TypeOK
        <2> QED
            BY <2>1, <2>2, <2>3, CallKeepsBase
    <1>5. ASSUME NEW r \in Request, EndsSilently(r) PROVE BaseInv'
        BY <1>5, MoveKeepsBase DEF EndsSilently, At, Phases, Early
    <1>6. ASSUME NEW r \in Request, Record(r) PROVE BaseInv'
        <2>1. /\ call' \in [Request -> Call] /\ call'[r].pc = "booked"
              /\ \A q \in Request : q # r => call'[q] = call[q]
            BY <1>6, MoveEffect DEF BaseInv, Record, Phases
        <2>2. row' \in [Key -> Row]
            <3>1. row[Owner[r]] \in Row /\ call[r].cost \in 0..1
                BY DEF BaseInv, TypeOK, Call
            <3>2. Charged(row[Owner[r]], call[r].cost) \in Row
                BY <3>1, ChargedRow
            <3> QED
                BY <1>6, <3>2 DEF Record, Bump, BaseInv, TypeOK
        <2>3. TypeOK'
            BY <1>6, <2>1, <2>2 DEF Record, BaseInv, TypeOK, history
        <2>4. TriesInv' /\ LogInv'
            BY <1>6, <2>1 DEF Record, BaseInv, TypeOK, TriesInv, LogInv, Early
        <2> QED
            BY <2>3, <2>4 DEF BaseInv
    <1>7. ASSUME NEW r \in Request, RecordFails(r) PROVE BaseInv'
        <2>1. call[r].pc = "pending" /\ call[r].tries < Attempts
            BY <1>7 DEF RecordFails, At, BaseInv, TriesInv, Early
        <2>2. /\ call' \in [Request -> Call]
              /\ call'[r].pc \in Early => call'[r].tries < Attempts
              /\ \A q \in Request : q # r => call'[q] = call[q]
            BY <1>7, <2>1, RecordFailsEffect DEF BaseInv, Early
        <2>3. UNCHANGED <<table, edit, phase, waited, cap>> /\ peak' \in [Key -> Nat]
            BY <1>7 DEF RecordFails, history, BaseInv, TypeOK
        <2> QED
            BY <2>1, <2>2, <2>3, CallKeepsBase
    <1>8. ASSUME NEW r \in Request, Wake(r) PROVE BaseInv'
        BY <1>8, MoveKeepsBase DEF Wake, At, Phases, Early
    <1>9. ASSUME NEW r \in Request, StrayEnds(r) PROVE BaseInv'
        BY <1>9, MoveKeepsBase DEF StrayEnds, At, Phases, Early
    <1>10. ASSUME NEW a \in Admin, NEW k \in Key, Load(a, k) PROVE BaseInv'
        <2>1. row[k].quota_limit \in Limits /\ row[k].status \in Statuses
            BY DEF BaseInv, TypeOK, Row
        <2>2. edit' \in [Admin -> Edit]
            <3>1. CASE edit' = [edit EXCEPT ![a] = [NoEdit(k) EXCEPT !.op = "delete"]]
                <4>1. [NoEdit(k) EXCEPT !.op = "delete"] \in Edit
                    BY DEF NoEdit, Edit
                <4> QED
                    BY <3>1, <4>1 DEF BaseInv, TypeOK
            <3>2. ASSUME NEW reset \in BOOLEAN, NEW limit \in Limits, NEW status \in Statuses,
                         edit' = [edit EXCEPT ![a] =
                           [op |-> "update", key |-> k,
                            zero |-> reset /\ row[k].quota_used # 0,
                            limit |-> IF limit = row[k].quota_limit THEN Same ELSE limit,
                            status |-> IF status = row[k].status THEN "same" ELSE status]]
                  PROVE  edit' \in [Admin -> Edit]
                <4> DEFINE e == [op |-> "update", key |-> k,
                            zero |-> reset /\ row[k].quota_used # 0,
                            limit |-> IF limit = row[k].quota_limit THEN Same ELSE limit,
                            status |-> IF status = row[k].status THEN "same" ELSE status]
                <4>1. e \in Edit
                    BY DEF Edit
                <4>2. edit' = [edit EXCEPT ![a] = e]
                    BY <3>2
                <4> HIDE DEF e
                <4> QED
                    BY <4>1, <4>2 DEF BaseInv, TypeOK
            <3> QED
                BY <1>10, <3>1, <3>2, Zenon DEF Load
        <2> QED
            BY <1>10, <2>2 DEF Load, BaseInv, TypeOK, TriesInv, LogInv, table, history
    <1>11. ASSUME NEW a \in Admin, Commit(a) PROVE BaseInv'
        <2>1. edit[a] \in Edit /\ edit[a].key \in Key
            BY DEF BaseInv, TypeOK, Edit
        <2>2. NoEdit(edit[a].key) \in Edit
            BY <2>1 DEF NoEdit, Edit
        <2>3. edit' \in [Admin -> Edit]
            BY <1>11, <2>2 DEF Commit, BaseInv, TypeOK
        <2>4. row' \in [Key -> Row] /\ cap' \in [Key -> Nat]
            <3> DEFINE new == Edited(row[edit[a].key], edit[a])
            <3>1. new \in Row
                BY <2>1, EditedRow DEF BaseInv, TypeOK
            <3>2. Highest(cap[edit[a].key], new.quota_limit) \in Nat
                BY <2>1, <3>1, LedgerAssumption DEF Highest, Row, BaseInv, TypeOK
            <3>3. \/ /\ row' = [row EXCEPT ![edit[a].key] = new]
                     /\ cap' = [cap EXCEPT ![edit[a].key] = Highest(@, new.quota_limit)]
                  \/ row' = row /\ cap' = cap
                BY <1>11 DEF Commit
            <3> HIDE DEF new
            <3> QED
                BY <3>1, <3>2, <3>3 DEF BaseInv, TypeOK
        <2>5. keys' \in SUBSET Key
            BY <1>11 DEF Commit, BaseInv, TypeOK
        <2> QED
            BY <1>11, <2>3, <2>4, <2>5 DEF Commit, BaseInv, TypeOK, TriesInv, LogInv
    <1>12. ASSUME Shutdown \/ DrainBegins \/ DrainEnds PROVE BaseInv'
        BY <1>12 DEF Shutdown, DrainBegins, DrainEnds, BaseInv, TypeOK, TriesInv, LogInv,
                    table, history
    <1>13. ASSUME DrainTimesOut PROVE BaseInv'
        <2>1. ASSUME NEW r \in Request
              PROVE  /\ call'[r] \in Call
                     /\ call'[r].pc \in Early => call'[r].tries < Attempts
                     /\ call[r].pc = "booked" => call'[r].pc = "booked"
            <3>1. call[r] \in Call /\ (call[r].pc \in Early => call[r].tries < Attempts)
                BY DEF BaseInv, TypeOK, TriesInv
            <3>2. CASE r \notin waited \/ call[r].pc \notin {"pending", "asleep"}
                BY <1>13, <3>1, <3>2 DEF DrainTimesOut
            <3>3. CASE ~(r \notin waited \/ call[r].pc \notin {"pending", "asleep"})
                <4> DEFINE c == [call[r] EXCEPT !.pc = IF @ = "pending" THEN "stray" ELSE "cut"]
                <4>1. c \in Call /\ c.pc \in {"stray", "cut"}
                    BY <3>1 DEF Call, Phases
                <4>2. call'[r] = c
                    BY <1>13, <3>3 DEF DrainTimesOut
                <4> HIDE DEF c
                <4> QED
                    BY <3>3, <4>1, <4>2 DEF Early
            <3> QED
                BY <3>2, <3>3
        <2>2. call' \in [Request -> Call]
            <3>1. DOMAIN call' = Request /\ call' = [r \in Request |-> call'[r]]
                BY <1>13 DEF DrainTimesOut
            <3> QED
                BY <2>1, <3>1
        <2> QED
            BY <1>13, <2>1, <2>2 DEF DrainTimesOut, BaseInv, TypeOK, TriesInv, LogInv,
                                    table, history
    <1>14. ASSUME Restarts PROVE BaseInv'
        <2>1. ASSUME NEW r \in Request
              PROVE  /\ call'[r] \in Call
                     /\ call'[r].pc \in Early => call'[r].tries < Attempts
                     /\ call[r].pc = "booked" => call'[r].pc = "booked"
            <3>1. call[r] \in Call /\ (call[r].pc \in Early => call[r].tries < Attempts)
                BY DEF BaseInv, TypeOK, TriesInv
            <3>2. CASE call[r].pc \notin {"checked", "running", "pending", "asleep", "stray"}
                BY <1>14, <3>1, <3>2 DEF Restarts
            <3>3. CASE call[r].pc \in {"checked", "running", "pending", "asleep", "stray"}
                <4> DEFINE c == [call[r] EXCEPT !.pc = "cut"]
                <4>1. c \in Call /\ c.pc = "cut"
                    BY <3>1 DEF Call, Phases
                <4>2. call'[r] = c
                    BY <1>14, <3>3 DEF Restarts
                <4> HIDE DEF c
                <4> QED
                    BY <3>3, <4>1, <4>2 DEF Early
            <3> QED
                BY <3>2, <3>3
        <2>2. call' \in [Request -> Call]
            <3>1. DOMAIN call' = Request /\ call' = [r \in Request |-> call'[r]]
                BY <1>14 DEF Restarts
            <3> QED
                BY <2>1, <3>1
        <2>3. edit' \in [Admin -> Edit]
            <3>1. \A a \in Admin : NoEdit(edit[a].key) \in Edit
                BY DEF NoEdit, Edit, BaseInv, TypeOK
            <3> QED
                BY <1>14, <3>1 DEF Restarts
        <2> QED
            BY <1>14, <2>1, <2>2, <2>3 DEF Restarts, BaseInv, TypeOK, TriesInv, LogInv,
                                          table, history
    <1>15. CASE UNCHANGED vars
        BY <1>15 DEF vars, table, history, BaseInv, TypeOK, TriesInv, LogInv
    <1> QED
        BY <1>1, <1>2, <1>3, <1>4, <1>5, <1>6, <1>7, <1>8, <1>9, <1>10, <1>11, <1>12,
           <1>13, <1>14, <1>15
           DEF Next, Handle, Write, Drain

LEMMA BaseInit == Init => BaseInv
    <1> SUFFICES ASSUME Init PROVE BaseInv
        OBVIOUS
    <1> USE LedgerAssumption
    <1>1. row \in [Key -> Row] /\ cap \in [Key -> Nat]
        <2>1. PICK limit \in [Key -> Limits] :
                 /\ row = [k \in Key |-> [status |-> "active", quota_limit |-> limit[k],
                                          quota_used |-> 0, total_requests |-> 0]]
                 /\ cap = limit
            BY DEF Init
        <2>2. \A k \in Key : limit[k] \in Limits /\ limit[k] \in Nat
            OBVIOUS
        <2>3. \A k \in Key : [status |-> "active", quota_limit |-> limit[k],
                               quota_used |-> 0, total_requests |-> 0] \in Row
            BY <2>2 DEF Row, Statuses
        <2> QED
            BY <2>1, <2>2, <2>3
    <1>2. call \in [Request -> Call]
        BY DEF Init, Fresh, Call, Phases
    <1>3. edit \in [Admin -> Edit]
        BY DEF Init, NoEdit, Edit
    <1>4. keys \in SUBSET Key /\ log = {} /\ waited = {} /\ phase = "up" /\ peak \in [Key -> Nat]
        BY DEF Init
    <1>5. TypeOK
        BY <1>1, <1>2, <1>3, <1>4 DEF TypeOK
    <1>6. TriesInv /\ LogInv
        BY <1>4 DEF Init, Fresh, TriesInv, LogInv
    <1> QED
        BY <1>5, <1>6 DEF BaseInv

LEMMA Base == Spec => []BaseInv
    BY BaseInit, BaseStep, PTL DEF Spec

\* Every variable keeps to its range: limits, tries, tables and edits,
\* through retries, edits of rows that are gone, shutdowns and crashes.
THEOREM TypeCorrect == Spec => []TypeOK
    <1>1. BaseInv => TypeOK
        BY DEF BaseInv
    <1> QED
        BY <1>1, Base, PTL
-----------------------------------------------------------------------------
(***************************************************************************)
(* The tables change like an account.                                      *)
(***************************************************************************)
LEMMA AccountInit == Init => A!Init
    <1> SUFFICES ASSUME Init PROVE A!Init
        OBVIOUS
    <1>1. PICK limit \in [Key -> Limits] :
             row = [k \in Key |-> [status |-> "active", quota_limit |-> limit[k],
                                   quota_used |-> 0, total_requests |-> 0]]
        BY DEF Init
    <1>2. \A k \in Key : row[k].quota_used = 0 /\ row[k].total_requests = 0
        BY <1>1
    <1>3. keys = Key /\ log = {}
        BY DEF Init
    <1> QED
        BY <1>2, <1>3 DEF A!Init

\* What a booking does to the row of its key, and to no other row.
LEMMA BumpEffect ==
    ASSUME TypeOK, NEW r \in Request, Bump(r)
    PROVE  /\ Owner[r] \notin keys => row' = row
           /\ Owner[r] \in keys =>
                /\ row'[Owner[r]].quota_used = row[Owner[r]].quota_used + call[r].cost
                /\ row'[Owner[r]].total_requests = row[Owner[r]].total_requests + 1
                /\ row'[Owner[r]].quota_limit = row[Owner[r]].quota_limit
                /\ \A k \in Key : k # Owner[r] => row'[k] = row[k]
    <1> DEFINE new == Charged(row[Owner[r]], call[r].cost)
    <1>1. row[Owner[r]] \in Row /\ call[r].cost \in 0..1 /\ Owner[r] \in Key
        BY OwnerTyped DEF TypeOK, Call
    <1>2. /\ new.quota_used = row[Owner[r]].quota_used + call[r].cost
          /\ new.total_requests = row[Owner[r]].total_requests + 1
          /\ new.quota_limit = row[Owner[r]].quota_limit
        BY <1>1, ChargedRow
    <1>3. /\ Owner[r] \notin keys => row' = row
          /\ Owner[r] \in keys => row' = [row EXCEPT ![Owner[r]] = new]
        BY DEF Bump
    <1> HIDE DEF new
    <1> QED
        BY <1>1, <1>2, <1>3 DEF TypeOK

LEMMA RecordEnters ==
    ASSUME BaseInv, NEW r \in Request, Record(r)
    PROVE  A!Enter(r)
    <1> DEFINE k == Owner[r]
               used == [q \in Key |-> row[q].quota_used]
               total == [q \in Key |-> row[q].total_requests]
    <1>1. r \notin log
        BY DEF BaseInv, LogInv, Record
    <1>2. log' = log \cup {r} /\ keys' = keys
        BY DEF Record
    <1>3. call[r].cost \in {0, 1} /\ k \in Key
        BY OwnerTyped DEF BaseInv, TypeOK, Call
    <1>4. /\ k \notin keys => row' = row
          /\ k \in keys =>
                /\ row'[k].quota_used = row[k].quota_used + call[r].cost
                /\ row'[k].total_requests = row[k].total_requests + 1
                /\ \A q \in Key : q # k => row'[q] = row[q]
        BY BumpEffect DEF BaseInv, Record
    <1>5. ASSUME k \in keys
          PROVE  /\ used' = [used EXCEPT ![k] = @ + call[r].cost]
                 /\ total' = [total EXCEPT ![k] = @ + 1]
        BY <1>3, <1>4, <1>5
    <1>6. k \notin keys => used' = used /\ total' = total
        BY <1>4
    <1> HIDE DEF k, used, total
    <1>7. \E price \in {0, 1} :
             IF k \in keys
             THEN /\ used' = [used EXCEPT ![k] = @ + price]
                  /\ total' = [total EXCEPT ![k] = @ + 1]
             ELSE UNCHANGED <<used, total>>
        BY <1>3, <1>5, <1>6
    <1> QED
        BY <1>1, <1>2, <1>7 DEF A!Enter, k, used, total

\* A committed edit is a reset, a closed account or, for the account, nothing.
LEMMA CommitResets ==
    ASSUME BaseInv, NEW a \in Admin, Commit(a)
    PROVE  [A!Next]_(A!vars)
    <1> DEFINE e == edit[a]
               used == [q \in Key |-> row[q].quota_used]
               total == [q \in Key |-> row[q].total_requests]
    <1>1. e \in Edit /\ e.key \in Key /\ e.zero \in BOOLEAN /\ log' = log
        BY DEF BaseInv, TypeOK, Edit, Commit
    <1>2. CASE e.op = "delete"
        <2>1. keys' = keys \ {e.key} /\ row' = row
            BY <1>2 DEF Commit
        <2>2. A!Close(e.key)
            BY <1>1, <2>1 DEF A!Close
        <2> QED
            BY <1>1, <2>2 DEF A!Next
    <1>3. CASE e.op # "delete" /\ (e.op # "update" \/ e.key \notin keys)
        <2>1. keys' = keys /\ row' = row
            BY <1>3 DEF Commit
        <2> QED
            BY <1>1, <2>1 DEF A!vars
    <1>4. CASE e.op = "update" /\ e.key \in keys
        <2> DEFINE new == Edited(row[e.key], e)
        <2>1. keys' = keys /\ row' = [row EXCEPT ![e.key] = new]
            BY <1>4 DEF Commit
        <2>2. /\ new.quota_used = IF e.zero THEN 0 ELSE row[e.key].quota_used
              /\ new.total_requests = row[e.key].total_requests
            BY <1>1, EditedRow DEF BaseInv, TypeOK
        <2> HIDE DEF new
        <2>3. /\ row'[e.key].quota_used = IF e.zero THEN 0 ELSE row[e.key].quota_used
              /\ row'[e.key].total_requests = row[e.key].total_requests
              /\ \A q \in Key : q # e.key => row'[q] = row[q]
            BY <1>1, <2>1, <2>2 DEF BaseInv, TypeOK
        <2> HIDE DEF e
        <2>4. total' = total
            BY <2>3
        <2>5. CASE e.zero
            <3>1. used' = [used EXCEPT ![e.key] = 0]
                BY <1>1, <2>3, <2>5
            <3>2. PICK k \in Key : k = e.key
                BY <1>1
            <3>3. A!Reset(k)
                BY <1>1, <1>4, <2>1, <2>4, <3>1, <3>2 DEF A!Reset
            <3> QED
                BY <3>3 DEF A!Next
        <2>6. CASE ~e.zero
            <3>1. used' = used
                BY <2>3, <2>6
            <3> QED
                BY <1>1, <2>1, <2>4, <3>1 DEF A!vars
        <2> QED
            BY <2>5, <2>6
    <1> QED
        BY <1>2, <1>3, <1>4

LEMMA AccountStep == BaseInv /\ [Next]_vars => [A!Next]_(A!vars)
    <1> SUFFICES ASSUME BaseInv, [Next]_vars PROVE [A!Next]_(A!vars)
        OBVIOUS
    <1>1. ASSUME UNCHANGED table PROVE UNCHANGED A!vars
        BY <1>1 DEF table, A!vars
    <1>2. ASSUME NEW r \in Request, Handle(r) PROVE [A!Next]_(A!vars)
        BY <1>1, <1>2 DEF Handle, Authenticate, Reject, Admit, Refuse, Settle, EndsSilently
    <1>3. ASSUME NEW r \in Request, Record(r) PROVE [A!Next]_(A!vars)
        BY <1>3, RecordEnters DEF A!Next
    <1>4. ASSUME NEW r \in Request, RecordFails(r) \/ Wake(r) \/ StrayEnds(r)
          PROVE  [A!Next]_(A!vars)
        BY <1>1, <1>4 DEF RecordFails, Wake, StrayEnds
    <1>5. ASSUME NEW a \in Admin, NEW k \in Key, Load(a, k) PROVE [A!Next]_(A!vars)
        BY <1>1, <1>5 DEF Load
    <1>6. ASSUME NEW a \in Admin, Commit(a) PROVE [A!Next]_(A!vars)
        BY <1>6, CommitResets
    <1>7. ASSUME Shutdown \/ Drain \/ Restarts PROVE [A!Next]_(A!vars)
        BY <1>1, <1>7 DEF Shutdown, Drain, DrainBegins, DrainEnds, DrainTimesOut, Restarts
    <1>8. CASE UNCHANGED vars
        BY <1>1, <1>8 DEF vars
    <1> QED
        BY <1>2, <1>3, <1>4, <1>5, <1>6, <1>7, <1>8 DEF Next, Write

\* The ledger implements the account: a request is entered once however its
\* record is retried, cut off or outlives its key, its price and its count
\* go to the key in the same step, and only a reset lowers what is used.
THEOREM Implements == Spec => ImplementsAccount
    <1>1. Init => A!Init
        BY AccountInit
    <1>2. BaseInv /\ [Next]_vars => [A!Next]_(A!vars)
        BY AccountStep
    <1>3. Spec => A!Spec
        BY <1>1, <1>2, Base, PTL DEF Spec, A!Spec
    <1> QED
        BY <1>3 DEF ImplementsAccount
-----------------------------------------------------------------------------
(***************************************************************************)
(* Counters and log.                                                       *)
(***************************************************************************)
LEMMA TotalsStep == BaseInv /\ TotalsMatch /\ [Next]_vars => TotalsMatch'
    <1> SUFFICES ASSUME BaseInv, TotalsMatch, [Next]_vars PROVE TotalsMatch'
        OBVIOUS
    <1>1. ASSUME UNCHANGED table PROVE TotalsMatch'
        BY <1>1 DEF table, TotalsMatch
    <1>2. ASSUME NEW r \in Request, Record(r) PROVE TotalsMatch'
        <2> SUFFICES ASSUME NEW k \in Key, k \in keys
                     PROVE  row'[k].total_requests
                              = Cardinality({q \in log' : Owner[q] = k})
            BY <1>2 DEF Record, TotalsMatch, BaseInv, TypeOK
        <2> DEFINE S == {q \in log : Owner[q] = k}
        <2>1. r \notin log /\ log' = log \cup {r}
            BY <1>2 DEF Record, BaseInv, LogInv
        <2>2. IsFiniteSet(S) /\ row[k].total_requests = Cardinality(S)
            <3>1. S \in SUBSET Request
                BY DEF BaseInv, TypeOK
            <3> QED
                BY <3>1, FS_Subset, LedgerAssumption DEF TotalsMatch
        <2>3. /\ Owner[r] \in keys =>
                   /\ row'[Owner[r]].total_requests = row[Owner[r]].total_requests + 1
                   /\ \A q \in Key : q # Owner[r] => row'[q] = row[q]
              /\ Owner[r] \notin keys => row' = row
            BY <1>2, BumpEffect DEF Record, BaseInv
        <2>4. CASE Owner[r] = k
            <3>1. {q \in log' : Owner[q] = k} = S \cup {r}
                BY <2>1, <2>4
            <3>2. Cardinality(S \cup {r}) = Cardinality(S) + 1
                BY <2>1, <2>2, FS_AddElement
            <3> HIDE DEF S
            <3> QED
                BY <2>2, <2>3, <2>4, <3>1, <3>2
        <2>5. CASE Owner[r] # k
            <3>1. {q \in log' : Owner[q] = k} = S
                BY <2>1, <2>5
            <3> HIDE DEF S
            <3> QED
                BY <2>2, <2>3, <2>5, <3>1
        <2> QED
            BY <2>4, <2>5
    <1>3. ASSUME NEW a \in Admin, Commit(a) PROVE TotalsMatch'
        <2>1. edit[a] \in Edit /\ edit[a].key \in Key
            BY DEF BaseInv, TypeOK, Edit
        <2>2. \A k \in Key : row'[k].total_requests = row[k].total_requests
            <3> DEFINE new == Edited(row[edit[a].key], edit[a])
            <3>1. new.total_requests = row[edit[a].key].total_requests
                BY <2>1, EditedRow DEF BaseInv, TypeOK
            <3>2. row' = row \/ row' = [row EXCEPT ![edit[a].key] = new]
                BY <1>3 DEF Commit
            <3> HIDE DEF new
            <3> QED
                BY <2>1, <3>1, <3>2 DEF BaseInv, TypeOK
        <2>3. keys' \subseteq keys /\ log' = log
            BY <1>3 DEF Commit
        <2> QED
            BY <2>2, <2>3 DEF TotalsMatch, BaseInv, TypeOK
    <1>4. ASSUME NEW r \in Request, Handle(r) PROVE TotalsMatch'
        BY <1>1, <1>4 DEF Handle, Authenticate, Reject, Admit, Refuse, Settle, EndsSilently
    <1>5. ASSUME NEW r \in Request, RecordFails(r) \/ Wake(r) \/ StrayEnds(r)
          PROVE  TotalsMatch'
        BY <1>1, <1>5 DEF RecordFails, Wake, StrayEnds
    <1>6. ASSUME NEW a \in Admin, NEW k \in Key, Load(a, k) PROVE TotalsMatch'
        BY <1>1, <1>6 DEF Load
    <1>7. ASSUME Shutdown \/ Drain \/ Restarts PROVE TotalsMatch'
        BY <1>1, <1>7 DEF Shutdown, Drain, DrainBegins, DrainEnds, DrainTimesOut, Restarts
    <1>8. CASE UNCHANGED vars
        BY <1>1, <1>8 DEF vars
    <1> QED
        BY <1>2, <1>3, <1>4, <1>5, <1>6, <1>7, <1>8 DEF Next, Write

\* The request counter of a key is the number of its rows in the log,
\* whatever becomes of tries, edits and the process.
THEOREM Totals == Spec => []TotalsMatch
    <1>1. Init => TotalsMatch
        <2> SUFFICES ASSUME Init, NEW k \in keys
                     PROVE  row[k].total_requests = Cardinality({r \in log : Owner[r] = k})
            BY DEF TotalsMatch
        <2>1. PICK limit \in [Key -> Limits] :
                 row = [q \in Key |-> [status |-> "active", quota_limit |-> limit[q],
                                       quota_used |-> 0, total_requests |-> 0]]
            BY DEF Init
        <2>2. row[k].total_requests = 0 /\ {r \in log : Owner[r] = k} = {}
            BY <2>1 DEF Init
        <2> QED
            BY <2>2, FS_EmptySet
    <1> QED
        BY <1>1, TotalsStep, Base, PTL DEF Spec
-----------------------------------------------------------------------------
(***************************************************************************)
(* The quota.  Every unsettled call may still cost its unit: the bound     *)
(* holds of what has been used together with what is still to come.        *)
(***************************************************************************)
QuotaOf(k) ==
    /\ Cardinality(Unsettled(k)) <= peak[k]
    /\ cap[k] > 0 =>
         /\ 0 < row[k].quota_limit /\ row[k].quota_limit <= cap[k]
         /\ row[k].quota_used + Cardinality(Unsettled(k)) < cap[k] + peak[k]

QuotaInv == \A k \in Key : QuotaOf(k)

LEMMA RowTyped ==
    ASSUME TypeOK, NEW k \in Key
    PROVE  /\ row[k].quota_used \in Nat /\ row[k].quota_limit \in Nat
           /\ row[k].quota_limit \in Limits /\ cap[k] \in Nat /\ peak[k] \in Nat
    <1>1. row[k] \in Row
        BY DEF TypeOK
    <1> QED
        BY <1>1, LedgerAssumption DEF Row, TypeOK

\* Calls of a key settle, none becomes unsettled, and its row stays.
LEMMA FewerUnsettled ==
    ASSUME BaseInv, BaseInv', NEW k \in Key, QuotaOf(k),
           Unsettled(k)' \subseteq Unsettled(k),
           row'[k].quota_used <= row[k].quota_used,
           peak'[k] = peak[k],
           cap'[k] > 0 => /\ cap[k] > 0 /\ cap[k] <= cap'[k]
                          /\ 0 < row'[k].quota_limit /\ row'[k].quota_limit <= cap'[k]
    PROVE  QuotaOf(k)'
    <1>1. Cardinality(Unsettled(k)') <= Cardinality(Unsettled(k))
        BY UnsettledFinite, FS_Subset
    <1>2. Cardinality(Unsettled(k)) \in Nat
        BY UnsettledFinite
    <1>3. Cardinality(Unsettled(k)') \in Nat
        BY UnsettledFinite, FS_Subset, FS_CardinalityType
    <1>4. /\ row[k].quota_used \in Nat /\ cap[k] \in Nat /\ peak[k] \in Nat
        BY RowTyped DEF BaseInv
    <1>5. row'[k].quota_used \in Nat /\ cap'[k] \in Nat
        <2>1. TypeOK'
            BY DEF BaseInv
        <2>2. row'[k] \in Row /\ cap'[k] \in Nat
            BY <2>1 DEF TypeOK
        <2> QED
            BY <2>2 DEF Row
    <1> QED
        BY <1>1, <1>2, <1>3, <1>4, <1>5 DEF QuotaOf

\* Steps that leave the tables alone and admit no call.
LEMMA QuietQuota ==
    ASSUME BaseInv, BaseInv', QuotaInv,
           \A k \in Key : Unsettled(k)' \subseteq Unsettled(k),
           UNCHANGED <<table, peak, cap>>
    PROVE  QuotaInv'
    <1> SUFFICES ASSUME NEW k \in Key PROVE QuotaOf(k)'
        BY DEF QuotaInv
    <1>1. QuotaOf(k) /\ row' = row /\ peak' = peak /\ cap' = cap
        BY DEF QuotaInv, table
    <1>2. row[k].quota_used \in Nat /\ cap[k] \in Nat
        BY RowTyped DEF BaseInv
    <1>3. row'[k].quota_used <= row[k].quota_used /\ peak'[k] = peak[k]
        BY <1>1, <1>2
    <1>4. cap'[k] > 0 => /\ cap[k] > 0 /\ cap[k] <= cap'[k]
                         /\ 0 < row'[k].quota_limit /\ row'[k].quota_limit <= cap'[k]
        BY <1>1, <1>2 DEF QuotaOf
    <1> QED
        BY <1>1, <1>3, <1>4, FewerUnsettled

LEMMA OthersStay ==
    ASSUME NEW r \in Request, NEW k \in Key,
           \A q \in Request : q # r => call'[q] = call[q]
    PROVE  Unsettled(k)' \subseteq Unsettled(k) \cup {r}
    <1> SUFFICES ASSUME NEW q \in Request, q # r, q \in Unsettled(k)'
                 PROVE  q \in Unsettled(k)
        BY DEF Unsettled
    <1>1. call'[q] = call[q]
        OBVIOUS
    <1> QED
        BY <1>1 DEF Unsettled, At

\* Steps of one call that leave the tables alone and do not admit it.
LEMMA SettlingCall ==
    ASSUME BaseInv, BaseInv', QuotaInv, NEW r \in Request,
           \A q \in Request : q # r => call'[q] = call[q],
           \A k \in Key : r \in Unsettled(k)' => r \in Unsettled(k),
           UNCHANGED <<table, peak, cap>>
    PROVE  QuotaInv'
    <1>1. \A k \in Key : Unsettled(k)' \subseteq Unsettled(k)
        BY OthersStay
    <1> QED
        BY <1>1, QuietQuota

LEMMA MoveKeepsQuota ==
    ASSUME BaseInv, BaseInv', QuotaInv, NEW r \in Request, NEW pc \in Phases, Move(r, pc),
           \/ pc \in {"refused", "silent", "cut"}
           \/ call[r].pc = "checked" /\ ~call[r].spent
           \/ call[r].pc \in {"running", "pending", "asleep", "stray"},
           UNCHANGED <<table, history>>
    PROVE  QuotaInv'
    <1>1. /\ call'[r].pc = pc /\ call'[r].spent = call[r].spent
          /\ \A q \in Request : q # r => call'[q] = call[q]
        BY MoveEffect DEF BaseInv
    <1>2. ASSUME NEW k \in Key, r \in Unsettled(k)' PROVE r \in Unsettled(k)
        BY <1>1, <1>2 DEF Unsettled, At
    <1> QED
        BY <1>1, <1>2, SettlingCall DEF history

\* Admission, the one step that adds a call to be settled.
LEMMA AuthenticateKeepsQuota ==
    ASSUME BaseInv, BaseInv', QuotaInv, NEW r \in Request, Authenticate(r)
    PROVE  QuotaInv'
    <1> SUFFICES ASSUME NEW k \in Key PROVE QuotaOf(k)'
        BY DEF QuotaInv
    <1> DEFINE o == Owner[r]
               U == Unsettled(o)
               n == Cardinality(U) + IF Exceeded(o) THEN 0 ELSE 1
    <1>1. /\ call'[r].pc = "checked" /\ call'[r].spent = Exceeded(o)
          /\ \A q \in Request : q # r => call'[q] = call[q]
        BY AuthenticateEffect DEF BaseInv
    <1>2. /\ call[r].pc = "new" /\ o \in Key
          /\ peak' = [peak EXCEPT ![o] = IF n > @ THEN n ELSE @]
          /\ row' = row /\ cap' = cap
        BY OwnerTyped DEF Authenticate, At, table
    <1>3. r \notin U /\ IsFiniteSet(U) /\ Cardinality(U) \in Nat
        BY <1>2, UnsettledFinite DEF Unsettled, At
    <1>4. QuotaOf(k) /\ QuotaOf(o) /\ Unsettled(k)' \subseteq Unsettled(k) \cup {r}
        BY <1>1, <1>2, OthersStay DEF QuotaInv
    <1>5. /\ row[k].quota_used \in Nat /\ row[k].quota_limit \in Nat
          /\ cap[k] \in Nat /\ peak[k] \in Nat /\ peak[o] \in Nat
        BY <1>2, RowTyped DEF BaseInv
    <1>6. ASSUME Unsettled(k)' \subseteq Unsettled(k), peak'[k] = peak[k]
          PROVE  QuotaOf(k)'
        <2>1. /\ row'[k].quota_used <= row[k].quota_used
              /\ cap'[k] > 0 => /\ cap[k] > 0 /\ cap[k] <= cap'[k]
                                /\ 0 < row'[k].quota_limit /\ row'[k].quota_limit <= cap'[k]
            BY <1>2, <1>4, <1>5 DEF QuotaOf
        <2> QED
            BY <1>4, <1>6, <2>1, FewerUnsettled
    <1>7. CASE k # o
        <2>1. r \notin Unsettled(k)'
            BY <1>7 DEF Unsettled
        <2>2. peak'[k] = peak[k]
            BY <1>2, <1>7 DEF BaseInv, TypeOK
        <2> QED
            BY <1>4, <1>6, <2>1, <2>2
    <1>8. CASE k = o /\ Exceeded(o)
        <2>1. r \notin Unsettled(k)'
            BY <1>1, <1>8 DEF Unsettled, At
        <2>2. n = Cardinality(U) /\ Cardinality(U) <= peak[o]
            BY <1>3, <1>4, <1>8 DEF QuotaOf
        <2> HIDE DEF n
        <2>3. peak'[k] = peak[k]
            BY <1>2, <1>3, <1>5, <1>8, <2>2 DEF BaseInv, TypeOK
        <2> QED
            BY <1>4, <1>6, <2>1, <2>3
    <1>9. CASE k = o /\ ~Exceeded(o)
        <2>1. IsFiniteSet(U \cup {r}) /\ Cardinality(U \cup {r}) = Cardinality(U) + 1
            BY <1>3, FS_AddElement
        <2>2. /\ Cardinality(Unsettled(k)') <= Cardinality(U) + 1
              /\ Cardinality(Unsettled(k)') \in Nat
            <3>1. Unsettled(k)' \in SUBSET (U \cup {r})
                BY <1>4, <1>9
            <3> HIDE DEF U
            <3> QED
                BY <2>1, <3>1, FS_Subset, FS_CardinalityType
        <2>3. n = Cardinality(U) + 1
            BY <1>9
        <2> HIDE DEF n, U
        <2>4. peak'[k] \in Nat /\ Cardinality(U) + 1 <= peak'[k]
            BY <1>2, <1>3, <1>5, <1>9, <2>3 DEF BaseInv, TypeOK
        <2>5. cap[k] > 0 => row[k].quota_used < row[k].quota_limit
            BY <1>4, <1>5, <1>9 DEF Exceeded, QuotaOf
        <2>6. Cardinality(Unsettled(k)') <= peak'[k]
            BY <1>3, <2>2, <2>4
        <2>7. ASSUME cap[k] > 0
              PROVE  /\ 0 < row[k].quota_limit /\ row[k].quota_limit <= cap[k]
                     /\ row[k].quota_used + Cardinality(Unsettled(k)') < cap[k] + peak'[k]
            <3>1. 0 < row[k].quota_limit /\ row[k].quota_limit <= cap[k]
                BY <1>4, <2>7 DEF QuotaOf
            <3> QED
                BY <1>5, <2>2, <2>4, <2>5, <2>6, <2>7, <3>1
        <2> QED
            BY <1>2, <2>6, <2>7 DEF QuotaOf
    <1> QED
        BY <1>7, <1>8, <1>9

\* The price of a call replaces the unit that was reserved for it.
LEMMA RecordKeepsQuota ==
    ASSUME BaseInv, BaseInv', QuotaInv, NEW r \in Request, Record(r)
    PROVE  QuotaInv'
    <1> SUFFICES ASSUME NEW k \in Key PROVE QuotaOf(k)'
        BY DEF QuotaInv
    <1>1. /\ call'[r].pc = "booked" /\ \A q \in Request : q # r => call'[q] = call[q]
        BY MoveEffect DEF BaseInv, Record, Phases
    <1>2. r \notin Unsettled(k)' /\ Unsettled(k)' \subseteq Unsettled(k)
        BY <1>1, OthersStay DEF Unsettled, At
    <1>3. peak' = peak /\ cap' = cap /\ QuotaOf(k)
        BY DEF Record, history, QuotaInv
    <1>4. /\ Owner[r] \notin keys => row' = row
          /\ Owner[r] \in keys =>
                /\ row'[Owner[r]].quota_used = row[Owner[r]].quota_used + call[r].cost
                /\ row'[Owner[r]].quota_limit = row[Owner[r]].quota_limit
                /\ \A q \in Key : q # Owner[r] => row'[q] = row[q]
        BY BumpEffect DEF BaseInv, Record
    <1>5. /\ row[k].quota_used \in Nat /\ row[k].quota_limit \in Nat
          /\ cap[k] \in Nat /\ peak[k] \in Nat
        BY RowTyped DEF BaseInv
    <1>6. CASE row'[k] = row[k]
        <2>1. /\ row'[k].quota_used <= row[k].quota_used /\ peak'[k] = peak[k]
              /\ cap'[k] > 0 => /\ cap[k] > 0 /\ cap[k] <= cap'[k]
                                /\ 0 < row'[k].quota_limit /\ row'[k].quota_limit <= cap'[k]
            BY <1>3, <1>5, <1>6 DEF QuotaOf
        <2> QED
            BY <1>2, <1>3, <2>1, FewerUnsettled
    <1>7. CASE row'[k] # row[k]
        <2>1. /\ k = Owner[r]
              /\ row'[k].quota_used = row[k].quota_used + call[r].cost
              /\ row'[k].quota_limit = row[k].quota_limit
            BY <1>4, <1>7
        <2>2. call[r].cost \in {0, 1}
            BY DEF BaseInv, TypeOK, Call
        <2>3. r \in Unsettled(k)
            BY <2>1 DEF Record, Unsettled
        <2>4. /\ IsFiniteSet(Unsettled(k) \ {r})
              /\ Cardinality(Unsettled(k) \ {r}) = Cardinality(Unsettled(k)) - 1
              /\ Cardinality(Unsettled(k)) \in Nat
            BY <2>3, UnsettledFinite, FS_RemoveElement
        <2>5. /\ Cardinality(Unsettled(k)') <= Cardinality(Unsettled(k)) - 1
              /\ Cardinality(Unsettled(k)') \in Nat
            <3>1. Unsettled(k)' \in SUBSET (Unsettled(k) \ {r})
                BY <1>2
            <3> QED
                BY <2>4, <3>1, FS_Subset, FS_CardinalityType
        <2> QED
            BY <1>3, <1>5, <2>1, <2>2, <2>4, <2>5 DEF QuotaOf
    <1> QED
        BY <1>6, <1>7

\* A new limit raises the highest one, an unlimited key stays out of the bound.
LEMMA CommitKeepsQuota ==
    ASSUME BaseInv, BaseInv', QuotaInv, NEW a \in Admin, Commit(a)
    PROVE  QuotaInv'
    <1> SUFFICES ASSUME NEW k \in Key PROVE QuotaOf(k)'
        BY DEF QuotaInv
    <1> DEFINE e == edit[a]
               new == Edited(row[e.key], e)
    <1>1. call' = call /\ peak' = peak /\ QuotaOf(k)
        BY DEF Commit, QuotaInv
    <1>2. Unsettled(k)' = Unsettled(k)
        BY <1>1 DEF Unsettled, At
    <1>3. /\ row[k].quota_used \in Nat /\ row[k].quota_limit \in Nat
          /\ cap[k] \in Nat /\ peak[k] \in Nat
        BY RowTyped DEF BaseInv
    <1>4. e \in Edit /\ e.key \in Key
        BY DEF BaseInv, TypeOK, Edit
    <1>5. /\ new \in Row
          /\ new.quota_used = IF e.zero THEN 0 ELSE row[e.key].quota_used
        BY <1>4, EditedRow DEF BaseInv, TypeOK
    <1>6. \/ row' = row /\ cap' = cap
          \/ /\ row' = [row EXCEPT ![e.key] = new]
             /\ cap' = [cap EXCEPT ![e.key] = Highest(@, new.quota_limit)]
        BY DEF Commit
    <1> HIDE DEF new, e
    <1>7. CASE row'[k] = row[k] /\ cap'[k] = cap[k]
        <2>1. /\ row'[k].quota_used <= row[k].quota_used /\ peak'[k] = peak[k]
              /\ cap'[k] > 0 => /\ cap[k] > 0 /\ cap[k] <= cap'[k]
                                /\ 0 < row'[k].quota_limit /\ row'[k].quota_limit <= cap'[k]
            BY <1>1, <1>3, <1>7 DEF QuotaOf
        <2> QED
            BY <1>1, <1>2, <2>1, FewerUnsettled
    <1>8. CASE ~(row'[k] = row[k] /\ cap'[k] = cap[k])
        <2>1. k = e.key /\ row'[k] = new /\ cap'[k] = Highest(cap[k], new.quota_limit)
            BY <1>4, <1>6, <1>8 DEF BaseInv, TypeOK
        <2>2. new.quota_limit \in Nat /\ new.quota_used <= row[k].quota_used
            <3>1. new.quota_limit \in Nat
                BY <1>5, LedgerAssumption DEF Row
            <3>2. new.quota_used = 0 \/ new.quota_used = row[k].quota_used
                BY <1>5, <2>1, Zenon
            <3> QED
                BY <1>3, <3>1, <3>2
        <2>3. cap'[k] > 0 => /\ cap[k] > 0 /\ cap[k] <= cap'[k]
                             /\ 0 < new.quota_limit /\ new.quota_limit <= cap'[k]
            BY <1>3, <2>1, <2>2 DEF Highest
        <2> QED
            BY <1>1, <1>2, <2>1, <2>2, <2>3, FewerUnsettled
    <1> QED
        BY <1>7, <1>8

LEMMA QuotaStep == BaseInv /\ BaseInv' /\ QuotaInv /\ [Next]_vars => QuotaInv'
    <1> SUFFICES ASSUME BaseInv, BaseInv', QuotaInv, [Next]_vars PROVE QuotaInv'
        OBVIOUS
    <1>1. ASSUME NEW r \in Request, Authenticate(r) PROVE QuotaInv'
        BY <1>1, AuthenticateKeepsQuota
    <1>2. ASSUME NEW r \in Request, Reject(r) \/ Refuse(r) \/ EndsSilently(r) \/ StrayEnds(r)
          PROVE  QuotaInv'
        <2>1. \E pc \in {"refused", "silent", "cut"} : Move(r, pc)
            BY <1>2 DEF Reject, Refuse, EndsSilently, StrayEnds
        <2>2. UNCHANGED <<table, history>>
            BY <1>2 DEF Reject, Refuse, EndsSilently, StrayEnds
        <2> QED
            BY <2>1, <2>2, MoveKeepsQuota DEF Phases
    <1>3. ASSUME NEW r \in Request, Admit(r) PROVE QuotaInv'
        BY <1>3, MoveKeepsQuota DEF Admit, At, Phases
    <1>4. ASSUME NEW r \in Request, Wake(r) PROVE QuotaInv'
        BY <1>4, MoveKeepsQuota DEF Wake, At, Phases
    <1>5. ASSUME NEW r \in Request, Settle(r) \/ RecordFails(r) PROVE QuotaInv'
        <2>1. /\ call[r].pc \in {"running", "pending"}
              /\ call'[r].pc \in {"pending", "asleep", "lost"}
              /\ \A q \in Request : q # r => call'[q] = call[q]
            <3>1. CASE Settle(r)
                BY <3>1, SettleEffect DEF BaseInv
            <3>2. CASE RecordFails(r)
                <4>1. call[r].pc = "pending" /\ call[r].tries < Attempts
                    BY <3>2 DEF RecordFails, At, BaseInv, TriesInv, Early
                <4> QED
                    BY <3>2, <4>1, RecordFailsEffect DEF BaseInv
            <3> QED
                BY <1>5, <3>1, <3>2
        <2>2. UNCHANGED <<table, peak, cap>>
            BY <1>5 DEF Settle, RecordFails, history
        <2>3. ASSUME NEW k \in Key, r \in Unsettled(k)' PROVE r \in Unsettled(k)
            BY <2>1, <2>3 DEF Unsettled
        <2> QED
            BY <2>1, <2>2, <2>3, SettlingCall
    <1>6. ASSUME NEW r \in Request, Record(r) PROVE QuotaInv'
        BY <1>6, RecordKeepsQuota
    <1>7. ASSUME UNCHANGED <<table, call, history>> PROVE QuotaInv'
        <2>1. \A k \in Key : Unsettled(k)' \subseteq Unsettled(k)
            BY <1>7 DEF Unsettled, At
        <2> QED
            BY <1>7, <2>1, QuietQuota DEF history
    <1>8. ASSUME NEW a \in Admin, NEW k \in Key, Load(a, k) PROVE QuotaInv'
        BY <1>7, <1>8 DEF Load
    <1>9. ASSUME NEW a \in Admin, Commit(a) PROVE QuotaInv'
        BY <1>9, CommitKeepsQuota
    <1>10. ASSUME Shutdown \/ DrainBegins \/ DrainEnds PROVE QuotaInv'
        BY <1>7, <1>10 DEF Shutdown, DrainBegins, DrainEnds
    <1>11. ASSUME DrainTimesOut \/ Restarts PROVE QuotaInv'
        <2>1. ASSUME NEW r \in Request
              PROVE  \/ call'[r] = call[r]
                     \/ call[r].pc = "pending" /\ call'[r].pc = "stray"
                     \/ call'[r].pc = "cut"
            <3>1. call[r] \in Call
                BY DEF BaseInv, TypeOK
            <3>2. CASE DrainTimesOut
                BY <3>1, <3>2 DEF DrainTimesOut, Call
            <3>3. CASE Restarts
                BY <3>1, <3>3 DEF Restarts, Call
            <3> QED
                BY <1>11, <3>2, <3>3
        <2>2. \A k \in Key : Unsettled(k)' \subseteq Unsettled(k)
            BY <2>1 DEF Unsettled, At
        <2>3. UNCHANGED <<table, peak, cap>>
            BY <1>11 DEF DrainTimesOut, Restarts, history
        <2> QED
            BY <2>2, <2>3, QuietQuota
    <1>12. CASE UNCHANGED vars
        BY <1>7, <1>12 DEF vars
    <1> QED
        BY <1>1, <1>2, <1>3, <1>4, <1>5, <1>6, <1>8, <1>9, <1>10, <1>11, <1>12
           DEF Next, Handle, Write, Drain

\* A key overshoots its highest limit by less than the most calls it ever
\* had under way at a time: the quota is read long before the price is known.
THEOREM QuotaHolds == Spec => []QuotaBounded
    <1>1. Init => QuotaInv
        <2> SUFFICES ASSUME Init, NEW k \in Key PROVE QuotaOf(k)
            BY DEF QuotaInv
        <2>1. PICK limit \in [Key -> Limits] :
                 /\ row = [q \in Key |-> [status |-> "active", quota_limit |-> limit[q],
                                          quota_used |-> 0, total_requests |-> 0]]
                 /\ cap = limit
            BY DEF Init
        <2>2. Unsettled(k) = {}
            BY DEF Init, Unsettled, At, Fresh
        <2>3. /\ row[k].quota_used = 0 /\ row[k].quota_limit = cap[k] /\ cap[k] \in Nat
              /\ peak[k] = 0
            BY <2>1, LedgerAssumption DEF Init
        <2> QED
            BY <2>2, <2>3, FS_EmptySet DEF QuotaOf
    <1>2. BaseInv /\ QuotaInv => QuotaBounded
        <2> SUFFICES ASSUME BaseInv, QuotaInv, NEW k \in Key, cap[k] > 0
                     PROVE  row[k].quota_used < cap[k] + peak[k]
            BY DEF QuotaBounded
        <2>1. /\ row[k].quota_used \in Nat /\ cap[k] \in Nat /\ peak[k] \in Nat
              /\ Cardinality(Unsettled(k)) \in Nat /\ QuotaOf(k)
            BY RowTyped, UnsettledFinite DEF BaseInv, QuotaInv
        <2> QED
            BY <2>1 DEF QuotaOf
    <1> QED
        BY <1>1, <1>2, QuotaStep, Base, PTL DEF Spec
=============================================================================
