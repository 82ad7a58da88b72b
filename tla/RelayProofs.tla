----------------------------- MODULE RelayProofs -----------------------------
(***************************************************************************)
(* What holds of Relay for any number of requests, any channels and any    *)
(* settings: the types, the bookkeeping of the live sessions, the          *)
(* settlement of a request, and the retry budget.                          *)
(***************************************************************************)
EXTENDS Relay, FiniteSetTheorems, TLAPS

-----------------------------------------------------------------------------
(***************************************************************************)
(* Lemmas about the operators of the model.                                *)
(***************************************************************************)

\* The smaller of two numbers is one of them, and no larger than either.
LEMMA LesserBound ==
    ASSUME NEW a \in Nat, NEW b \in Nat
    PROVE  /\ Lesser(a, b) \in Nat
           /\ Lesser(a, b) <= a
           /\ Lesser(a, b) <= b
    BY DEF Lesser

\* A cool-down never exceeds the longest one.
LEMMA CooldownBound ==
    ASSUME NEW n \in 0..FactorCap
    PROVE  Cooldown * n \in 0..(Cooldown * FactorCap)
    <1>1. Cooldown \in Nat /\ FactorCap \in Nat /\ n \in Nat /\ n <= FactorCap
        BY RelayAssumption
    <1>2. Cooldown * FactorCap = Cooldown * n + Cooldown * (FactorCap - n)
        BY <1>1, SMT
    <1>3. Cooldown * n >= 0 /\ Cooldown * (FactorCap - n) >= 0
        BY <1>1, SMT
    <1> QED
        BY <1>1, <1>2, <1>3, SMT

\* A plan is a list of distinct channels.
LEMMA PlansAreLists ==
    ASSUME NEW q \in Plans
    PROVE  /\ q \in Seq(Channel)
           /\ \A i, j \in 1..Len(q) : i # j => q[i] # q[j]
    <1> DEFINE usable == {c \in Channel : ~Cooling(c)}
               size   == Lesser(Cardinality(usable),
                                IF MaxAttempts > 1 THEN MaxAttempts ELSE 1)
    <1>1. Cardinality(usable) \in Nat
        BY RelayAssumption, FS_Subset, FS_CardinalityType
    <1>2. size \in Nat
        BY <1>1, LesserBound, RelayAssumption
    <1>3. /\ q \in [1..size -> usable]
          /\ \A i, j \in 1..size : i # j => q[i] # q[j]
        BY DEF Plans
    <1>4. q \in Seq(Channel) /\ Len(q) = size
        BY <1>2, <1>3
    <1> QED
        BY <1>3, <1>4
-----------------------------------------------------------------------------
(***************************************************************************)
(* Type correctness.                                                       *)
(***************************************************************************)

\* What the candidate loop hands on after n candidates is typed as a plan is.
LEMMA RestTyped ==
    ASSUME NEW q \in Seq(Channel), NEW n \in 0..(Len(q) - 1)
    PROVE  /\ q[n + 1] \in Channel
           /\ SubSeq(q, n + 2, Len(q)) \in Seq(Channel)
    OBVIOUS

\* Assigning to one local variable of a handler keeps it typed.
LEMMA HandlerUpdate ==
    ASSUME NEW h \in Handler
    PROVE  /\ \A x \in Phases : [h EXCEPT !.pc = x] \in Handler
           /\ \A x \in Kinds : [h EXCEPT !.kind = x] \in Handler
           /\ \A x \in Seq(Channel) : [h EXCEPT !.rest = x] \in Handler
           /\ \A x \in Nat : [h EXCEPT !.tries = x] \in Handler
           /\ \A x \in Channel : [h EXCEPT !.chan = x] \in Handler
           /\ \A x \in BOOLEAN : [h EXCEPT !.open = x] \in Handler
           /\ \A x \in 0..MaxChunks : [h EXCEPT !.produced = x] \in Handler
           /\ \A x \in BOOLEAN : [h EXCEPT !.saw = x] \in Handler
           /\ \A x \in Nat : [h EXCEPT !.usage = x] \in Handler
           /\ \A x \in BOOLEAN : [h EXCEPT !.late = x] \in Handler
           /\ \A x \in {"ok", "error"} : [h EXCEPT !.status = x] \in Handler
           /\ \A x \in BOOLEAN : [h EXCEPT !.metered = x] \in Handler
    BY Zenon DEF Handler

\* A handler that is gone is still a handler.
LEMMA GoneTyped ==
    ASSUME NEW h \in Handler, NEW pc \in Phases
    PROVE  Gone(h, pc) \in Handler
    <1> DEFINE none == <<>>
               gone == [h EXCEPT !.pc = pc, !.rest = none, !.tries = 0,
                                 !.chan = NoChannel, !.usage = 0, !.late = FALSE]
    <1>1. none \in Seq(Channel)
        OBVIOUS
    <1>2. Gone(h, pc) = gone
        BY Zenon DEF Gone
    <1> HIDE DEF none
    <1>3. gone \in Handler
        BY <1>1 DEF Handler
    <1> QED
        BY <1>2, <1>3

\* A channel in good health is within the bounds.
LEMMA RouterZero == 0 \in 0..FactorCap /\ 0 \in 0..(Cooldown * FactorCap)
    <1>1. 0 \in 0..FactorCap
        BY RelayAssumption
    <1>2. Cooldown * 0 \in 0..(Cooldown * FactorCap)
        BY <1>1, CooldownBound
    <1>3. Cooldown * 0 = 0
        BY RelayAssumption, SMT
    <1> QED
        BY <1>1, <1>2, <1>3

\* The three marks keep the router typed.
LEMMA MarksTyped ==
    ASSUME TypeOK
    PROVE  LET RouterOK == /\ failures' \in [Channel -> 0..FactorCap]
                           /\ cooldown' \in [Channel -> 0..(Cooldown * FactorCap)]
           IN  /\ \A c : MarkSuccess(c) => RouterOK
               /\ \A c : \A retryable \in BOOLEAN :
                     MarkFailure(c, retryable) => RouterOK
               /\ \A C : MarkMisconfigured(C) => RouterOK
    <1> DEFINE RouterOK == /\ failures' \in [Channel -> 0..FactorCap]
                           /\ cooldown' \in [Channel -> 0..(Cooldown * FactorCap)]
    <1>1. 0 \in 0..FactorCap /\ 0 \in 0..(Cooldown * FactorCap)
        BY RouterZero
    <1>2. \A c \in Channel : Lesser(failures[c] + 1, FactorCap) \in 0..FactorCap
        <2> TAKE c \in Channel
        <2>1. failures[c] + 1 \in Nat /\ FactorCap \in Nat
            BY RelayAssumption DEF TypeOK
        <2>2. Lesser(failures[c] + 1, FactorCap) \in Nat
              /\ Lesser(failures[c] + 1, FactorCap) <= FactorCap
            BY <2>1, LesserBound
        <2> QED
            BY <2>1, <2>2
    <1>3. \A c : MarkSuccess(c) => RouterOK
        BY <1>1 DEF MarkSuccess, TypeOK
    <1>4. \A c : \A retryable \in BOOLEAN : MarkFailure(c, retryable) => RouterOK
        <2> SUFFICES ASSUME NEW c, NEW retryable \in BOOLEAN,
                            MarkFailure(c, retryable)
                     PROVE  RouterOK
            OBVIOUS
        <2>1. CASE c \notin Channel
            BY <2>1 DEF MarkFailure, TypeOK
        <2>2. CASE c \in Channel
            <3> DEFINE n == Lesser(failures[c] + 1, FactorCap)
            <3>1. n \in 0..FactorCap
                BY <1>2, <2>2
            <3>2. Cooldown * n \in 0..(Cooldown * FactorCap)
                BY <3>1, CooldownBound
            <3> HIDE DEF n
            <3>3. /\ failures' = [failures EXCEPT ![c] = n]
                  /\ cooldown' = [cooldown EXCEPT
                                     ![c] = IF retryable THEN Cooldown * n ELSE @]
                BY DEF MarkFailure, n
            <3> QED
                BY <2>2, <3>1, <3>2, <3>3 DEF TypeOK
        <2> QED
            BY <2>1, <2>2
    <1>5. \A C : MarkMisconfigured(C) => RouterOK
        BY <1>2 DEF MarkMisconfigured, TypeOK
    <1> QED
        BY <1>3, <1>4, <1>5

\* So do the operations on the registry, and the record keeping.
LEMMA RegistryTyped ==
    ASSUME TypeOK, NEW r \in Request
    PROVE  LET RegistryOK == /\ live' \in SUBSET Request
                             /\ quiet' \in SUBSET live'
                             /\ stats' \in [started: Nat, finished: Nat, errors: Nat]
           IN  /\ LiveStart(r) => RegistryOK
               /\ \A status : LiveFinish(r, status) => RegistryOK
               /\ LiveActivity(r) => RegistryOK
    <1> DEFINE Counters == [started: Nat, finished: Nat, errors: Nat]
    <1>1. stats \in Counters
        BY DEF TypeOK
    <1>2. LiveStart(r) => /\ live' \in SUBSET Request
                          /\ quiet' \in SUBSET live'
                          /\ stats' \in Counters
        <2> SUFFICES ASSUME LiveStart(r)
                     PROVE  /\ live' \in SUBSET Request
                            /\ quiet' \in SUBSET live'
                            /\ stats' \in Counters
            OBVIOUS
        <2>1. [stats EXCEPT !.started = @ + 1] \in Counters
            BY <1>1
        <2> QED
            BY <2>1 DEF LiveStart, TypeOK
    <1>3. \A status : LiveFinish(r, status) =>
                          /\ live' \in SUBSET Request
                          /\ quiet' \in SUBSET live'
                          /\ stats' \in Counters
        <2> SUFFICES ASSUME NEW status, LiveFinish(r, status)
                     PROVE  /\ live' \in SUBSET Request
                            /\ quiet' \in SUBSET live'
                            /\ stats' \in Counters
            OBVIOUS
        <2> DEFINE bad == IF status = "error" THEN 1 ELSE 0
        <2>1. bad \in Nat
            OBVIOUS
        <2> HIDE DEF bad
        <2>2. [stats EXCEPT !.finished = @ + 1, !.errors = @ + bad] \in Counters
            <3>1. stats.finished + 1 \in Nat /\ stats.errors + bad \in Nat
                BY <1>1, <2>1
            <3> QED
                BY <1>1, <3>1, Zenon
        <2>3. stats' = IF r \in live
                       THEN [stats EXCEPT !.finished = @ + 1, !.errors = @ + bad]
                       ELSE stats
            BY Zenon DEF LiveFinish, bad
        <2>4. stats' \in Counters
            BY <1>1, <2>2, <2>3
        <2>5. live' \in SUBSET Request /\ quiet' \in SUBSET live'
            BY DEF LiveFinish, TypeOK
        <2> QED
            BY <2>4, <2>5
    <1>4. LiveActivity(r) => /\ live' \in SUBSET Request
                             /\ quiet' \in SUBSET live'
                             /\ stats' \in Counters
        BY DEF LiveActivity, TypeOK
    <1> QED
        BY <1>2, <1>3, <1>4

LEMMA RecordTyped ==
    ASSUME TypeOK, NEW r \in Request, NEW status \in {"ok", "error"},
           NEW tokens \in Nat, NEW attempts \in Nat,
           RecordSoon(r, status, tokens, attempts)
    PROVE  log' \in [Request -> Seq(UsageRecord)]
    <1> DEFINE entry == [status |-> status, tokens |-> tokens, attempts |-> attempts]
    <1>1. entry \in UsageRecord
        BY DEF UsageRecord
    <1>2. log' = [log EXCEPT ![r] = Append(@, entry)]
        BY DEF RecordSoon
    <1> HIDE DEF entry
    <1> QED
        BY <1>1, <1>2 DEF TypeOK

\* Giving up and finalizing leave typed handlers and a typed ledger behind.
LEMMA GiveUpTyped ==
    ASSUME TypeOK, NEW r \in Request, NEW tries \in Nat, GiveUp(r, tries)
    PROVE  /\ req' \in [Request -> Handler]
           /\ live' \in SUBSET Request
           /\ quiet' \in SUBSET live'
           /\ stats' \in [started: Nat, finished: Nat, errors: Nat]
           /\ charged' \in [Request -> Nat]
           /\ log' \in [Request -> Seq(UsageRecord)]
           /\ sends' \in [Request -> Seq(Channel)]
    <1>1. Gone(req[r], "done") \in Handler
        BY GoneTyped DEF TypeOK, Phases
    <1>2. [Gone(req[r], "done") EXCEPT !.status = "error"] \in Handler
        BY <1>1 DEF Handler
    <1>3. req' \in [Request -> Handler]
        BY <1>2 DEF GiveUp, TypeOK
    <1>4. log' \in [Request -> Seq(UsageRecord)]
        BY RecordTyped DEF GiveUp, Promptly
    <1>5. LiveFinish(r, "error") /\ UNCHANGED <<charged, sends>>
        BY DEF GiveUp
    <1> QED
        BY <1>3, <1>4, <1>5, RegistryTyped DEF TypeOK

LEMMA FinalizeTyped ==
    ASSUME TypeOK, NEW r \in Request, NEW h \in Handler, NEW charge \in BOOLEAN,
           Finalize(r, h, charge)
    PROVE  /\ req' \in [Request -> Handler]
           /\ live' \in SUBSET Request
           /\ quiet' \in SUBSET live'
           /\ stats' \in [started: Nat, finished: Nat, errors: Nat]
           /\ charged' \in [Request -> Nat]
           /\ log' \in [Request -> Seq(UsageRecord)]
    <1>1. Gone(h, "done") \in Handler
        BY GoneTyped DEF Phases
    <1>2. CASE h.metered
        BY <1>1, <1>2 DEF Finalize, TypeOK, registry, ledger
    <1>3. CASE ~h.metered
        <2>1. [Gone(h, "done") EXCEPT !.metered = TRUE] \in Handler
            BY <1>1 DEF Handler
        <2>2. req' \in [Request -> Handler]
            BY <1>3, <2>1 DEF Finalize, TypeOK
        <2>3. h.usage \in Nat /\ h.tries \in Nat /\ h.status \in {"ok", "error"}
            BY DEF Handler
        <2>4. charged' \in [Request -> Nat]
            <3> DEFINE fee == IF charge THEN h.usage ELSE 0
            <3>1. fee \in Nat
                BY <2>3
            <3>2. charged' = [charged EXCEPT ![r] = @ + fee]
                BY <1>3 DEF Finalize
            <3> HIDE DEF fee
            <3> QED
                BY <3>1, <3>2 DEF TypeOK
        <2>5. log' \in [Request -> Seq(UsageRecord)]
            BY <1>3, <2>3, RecordTyped DEF Finalize
        <2>6. LiveFinish(r, h.status)
            BY <1>3 DEF Finalize
        <2> QED
            BY <2>2, <2>4, <2>5, <2>6, RegistryTyped
    <1> QED
        BY <1>2, <1>3



LEMMA PhaseNames ==
    /\ "idle" \in Phases /\ "planning" \in Phases /\ "trying" \in Phases
    /\ "failing" \in Phases /\ "sending" \in Phases /\ "ready" \in Phases
    /\ "streaming" \in Phases /\ "yielded" \in Phases
    /\ "parting" \in Phases /\ "closing" \in Phases /\ "done" \in Phases
    /\ "lost" \in Phases
    BY DEF Phases

\* What the finally block settles with is a handler whose upstream response
\* is closed; on success it bears the estimate, if nothing was reported.
LEMMA SettlementTyped ==
    ASSUME NEW h \in Handler
    PROVE  /\ Settlement(h) \in Handler
           /\ Settlement(h).metered = h.metered /\ ~Settlement(h).open
           /\ Settlement(h).status = h.status /\ Settlement(h).saw = h.saw
           /\ Settlement(h).produced = h.produced
           /\ h.status = "ok" /\ ~h.saw =>
                 Settlement(h).usage = Promptly + h.produced
    <1> DEFINE u == IF h.status = "ok" /\ ~h.saw
                    THEN Promptly + h.produced ELSE h.usage
    <1>1. h.produced \in 0..MaxChunks /\ h.usage \in Nat
        BY DEF Handler
    <1>2. u \in Nat
        BY <1>1 DEF Promptly
    <1>3. h.status = "ok" /\ ~h.saw => u = Promptly + h.produced
        OBVIOUS
    <1>4. Settlement(h) = [h EXCEPT !.open = FALSE, !.usage = u]
        BY Zenon DEF Settlement
    <1> HIDE DEF u
    <1>5. [h EXCEPT !.open = FALSE, !.usage = u] \in Handler
        BY <1>2, HandlerUpdate, Zenon
    <1> QED
        BY <1>3, <1>4, <1>5 DEF Handler

\* Every step keeps the types.
LEMMA TypeStep ==
    ASSUME TypeOK, [Next]_vars
    PROVE  TypeOK'
    <1>h. \A r \in Request : req[r] \in Handler
        BY DEF TypeOK
    <1>1. ASSUME NEW r \in Request, Arrive(r) PROVE TypeOK'
        <2>1. PICK k \in Kinds :
                 req' = [req EXCEPT ![r] = [@ EXCEPT !.pc = "planning", !.kind = k]]
            BY <1>1 DEF Arrive
        <2>2. [req[r] EXCEPT !.pc = "planning", !.kind = k] \in Handler
            BY <1>h, HandlerUpdate, PhaseNames, Zenon
        <2>3. req' \in [Request -> Handler]
            BY <2>1, <2>2 DEF TypeOK
        <2> QED
            BY <1>1, <2>3, RegistryTyped DEF Arrive, TypeOK, ledger, router
    <1>2. ASSUME NEW r \in Request, Plan(r) PROVE TypeOK'
        <2>1. PICK q \in Plans :
                 req' = [req EXCEPT ![r] = [@ EXCEPT !.pc = "trying", !.rest = q]]
            BY <1>2 DEF Plan
        <2>2. q \in Seq(Channel)
            BY PlansAreLists
        <2>3. [req[r] EXCEPT !.pc = "trying", !.rest = q] \in Handler
            BY <1>h, <2>2, HandlerUpdate, PhaseNames, Zenon
        <2>4. req' \in [Request -> Handler]
            BY <2>1, <2>3 DEF TypeOK
        <2> QED
            BY <1>2, <2>4 DEF Plan, TypeOK, registry, ledger, router
    <1>3. ASSUME NEW r \in Request, PlanEmpty(r) PROVE TypeOK'
        BY <1>3, GiveUpTyped DEF PlanEmpty, TypeOK, router
    <1>4. ASSUME NEW r \in Request, Send(r) PROVE TypeOK'
        <2>1. PICK n \in 0..(Len(req[r].rest) - 1) : Send(r)!2!(n)
            BY <1>4, Zenon DEF Send
        <2>2. req[r].rest \in Seq(Channel) /\ req[r].tries \in Nat /\ n \in Nat
            BY DEF TypeOK, Handler
        <2>3. /\ req[r].rest[n + 1] \in Channel
              /\ SubSeq(req[r].rest, n + 2, Len(req[r].rest)) \in Seq(Channel)
            BY <2>2, RestTyped
        <2> DEFINE c == req[r].rest[n + 1]
                   q == SubSeq(req[r].rest, n + 2, Len(req[r].rest))
                   t == req[r].tries + n + 1
        <2>4. /\ req' = [req EXCEPT ![r] = [@ EXCEPT !.pc = "sending", !.chan = c,
                                               !.rest = q, !.tries = t]]
              /\ sends' = [sends EXCEPT ![r] = Append(@, c)]
            BY <2>1
        <2>5. c \in Channel /\ q \in Seq(Channel) /\ t \in Nat
            BY <2>2, <2>3
        <2> HIDE DEF c, q, t
        <2>a. [req[r] EXCEPT !.pc = "sending", !.chan = c, !.rest = q, !.tries = t] \in Handler
            BY <1>h, <2>5, HandlerUpdate, PhaseNames, Zenon
        <2>6. req' \in [Request -> Handler]
            BY <2>4, <2>a DEF TypeOK
        <2>7. sends' \in [Request -> Seq(Channel)]
            BY <2>4, <2>5 DEF TypeOK
        <2>8. /\ failures' \in [Channel -> 0..FactorCap]
              /\ cooldown' \in [Channel -> 0..(Cooldown * FactorCap)]
            BY <2>1, MarksTyped
        <2> QED
            BY <1>4, <2>6, <2>7, <2>8 DEF Send, TypeOK, registry, ledger
    <1>5. ASSUME NEW r \in Request, Exhaust(r) PROVE TypeOK'
        <2>1. req[r].tries + Len(req[r].rest) \in Nat
            BY DEF TypeOK, Handler
        <2> QED
            BY <1>5, <2>1, GiveUpTyped, MarksTyped DEF Exhaust, TypeOK
    <1>6. ASSUME NEW r \in Request, Fail(r) PROVE TypeOK'
        <2>1. req[r].tries \in Nat
            BY DEF TypeOK, Handler
        <2> QED
            BY <1>6, <2>1, GiveUpTyped DEF Fail, TypeOK, router
    <1>7. ASSUME NEW r \in Request, MediaRefuse(r) PROVE TypeOK'
        <2>1. PICK n \in 0..(Len(req[r].rest) - 1) :
                  /\ MarkMisconfigured(Range(SubSeq(req[r].rest, 1, n)))
                  /\ GiveUp(r, req[r].tries + n + 1)
            BY <1>7 DEF MediaRefuse
        <2>2. req[r].tries + n + 1 \in Nat
            BY SMTT(20) DEF TypeOK, Handler
        <2> QED
            BY <2>1, <2>2, GiveUpTyped, MarksTyped DEF TypeOK
    <1>8. ASSUME NEW r \in Request, Crash(r) PROVE TypeOK'
        <2>1. req' \in [Request -> Handler]
            BY <1>8, GoneTyped DEF Crash, TypeOK, Phases
        <2> QED
            BY <1>8, <2>1, MarksTyped DEF Crash, TypeOK, registry, ledger
    <1>9. ASSUME NEW r \in Request, UpstreamFails(r) PROVE TypeOK'
        <2>1. PICK retryable \in BOOLEAN :
                 /\ MarkFailure(req[r].chan, retryable)
                 /\ req' = [req EXCEPT ![r].pc = IF retryable /\ CanRetry(req[r])
                                                  THEN "trying" ELSE "failing"]
            BY <1>9 DEF UpstreamFails
        <2> DEFINE pc == IF retryable /\ CanRetry(req[r]) THEN "trying" ELSE "failing"
        <2>2. pc \in Phases
            BY DEF Phases
        <2> HIDE DEF pc
        <2>3. [req[r] EXCEPT !.pc = pc] \in Handler
            BY <1>h, <2>2, HandlerUpdate, Zenon
        <2>4. req' = [req EXCEPT ![r] = [@ EXCEPT !.pc = pc]]
            BY <2>1 DEF pc
        <2>5. req' \in [Request -> Handler]
            BY <2>3, <2>4 DEF TypeOK
        <2> QED
            BY <1>9, <2>1, <2>5, MarksTyped DEF UpstreamFails, TypeOK, registry, ledger
    <1>10. ASSUME NEW r \in Request, OpenStream(r) PROVE TypeOK'
        <2>1. Promptly \in Nat
            BY DEF Promptly
        <2>2. [req[r] EXCEPT !.pc = "ready", !.open = TRUE, !.usage = Promptly] \in Handler
            BY <1>h, <2>1, HandlerUpdate, PhaseNames, Zenon
        <2>3. req' \in [Request -> Handler]
            BY <1>10, <2>2 DEF OpenStream, TypeOK
        <2> QED
            BY <1>10, <2>3, MarksTyped DEF OpenStream, TypeOK, registry, ledger
    <1>11. ASSUME NEW r \in Request, Answer(r) PROVE TypeOK'
        <2>1. PICK n \in 0..MaxChunks :
                 Finalize(r, [req[r] EXCEPT !.produced = n, !.usage = Promptly + n],
                          req[r].kind = "sync")
            BY <1>11 DEF Answer
        <2>2. Promptly + n \in Nat
            BY DEF Promptly
        <2>3. [req[r] EXCEPT !.produced = n, !.usage = Promptly + n] \in Handler
            BY <1>h, <2>2, HandlerUpdate, Zenon
        <2>4. (req[r].kind = "sync") \in BOOLEAN
            OBVIOUS
        <2> QED
            BY <1>11, <2>1, <2>3, <2>4, FinalizeTyped, MarksTyped DEF Answer, TypeOK
    <1>12. ASSUME NEW r \in Request, Blunder(r) PROVE TypeOK'
        <2>1. req' \in [Request -> Handler]
            BY <1>12, GoneTyped DEF Blunder, TypeOK, Phases
        <2>2. /\ failures' \in [Channel -> 0..FactorCap]
              /\ cooldown' \in [Channel -> 0..(Cooldown * FactorCap)]
            BY <1>12, MarksTyped DEF Blunder, TypeOK, router
        <2> QED
            BY <1>12, <2>1, <2>2 DEF Blunder, TypeOK, registry, ledger
    <1>13. ASSUME NEW r \in Request, StartStream(r) PROVE TypeOK'
        <2>1. [req[r] EXCEPT !.pc = "streaming"] \in Handler
            BY <1>h, HandlerUpdate, PhaseNames, Zenon
        <2> QED
            BY <1>13, <2>1 DEF StartStream, TypeOK, registry, ledger, router
    <1>14. ASSUME NEW r \in Request, NeverStarted(r) PROVE TypeOK'
        <2>1. req' \in [Request -> Handler]
            BY <1>14, GoneTyped DEF NeverStarted, TypeOK, Phases
        <2> QED
            BY <1>14, <2>1 DEF NeverStarted, TypeOK, registry, ledger, router
    <1>15. ASSUME NEW r \in Request, Chunk(r) PROVE TypeOK'
        <2>1. PICK text \in BOOLEAN, reports \in BOOLEAN :
                LET n == req[r].produced + IF text THEN 1 ELSE 0
                IN  /\ n <= MaxChunks
                    /\ req' = [req EXCEPT ![r] = [@ EXCEPT
                                !.pc = "yielded",
                                !.produced = n,
                                !.saw = req[r].saw \/ reports,
                                !.usage = IF reports THEN Promptly + n
                                                     ELSE req[r].usage]]
            BY <1>15 DEF Chunk
        <2> DEFINE n == req[r].produced + IF text THEN 1 ELSE 0
                   s == req[r].saw \/ reports
                   u == IF reports THEN Promptly + n ELSE req[r].usage
        <2>2. req[r].produced \in 0..MaxChunks /\ req[r].usage \in Nat
            BY <1>h DEF Handler
        <2>3. n \in 0..MaxChunks /\ s \in BOOLEAN
            BY <2>1, <2>2, RelayAssumption
        <2>4. u \in Nat
            BY <2>2, <2>3 DEF Promptly
        <2>5. req' = [req EXCEPT ![r] = [@ EXCEPT !.pc = "yielded", !.produced = n,
                                                  !.saw = s, !.usage = u]]
            BY <2>1
        <2> HIDE DEF n, s, u
        <2>6. [req[r] EXCEPT !.pc = "yielded", !.produced = n, !.saw = s,
                             !.usage = u] \in Handler
            BY <1>h, <2>3, <2>4, HandlerUpdate, PhaseNames, Zenon
        <2>7. req' \in [Request -> Handler]
            BY <2>5, <2>6 DEF TypeOK
        <2> QED
            BY <1>15, <2>7, RegistryTyped DEF Chunk, TypeOK, ledger, router
    <1>16. ASSUME NEW r \in Request, StreamEnds(r) PROVE TypeOK'
        <2> DEFINE u == IF req[r].saw THEN req[r].usage ELSE Promptly + req[r].produced
        <2>1. req[r].produced \in 0..MaxChunks /\ req[r].usage \in Nat
            BY <1>h DEF Handler
        <2>2. u \in Nat
            BY <2>1 DEF Promptly
        <2>3. PICK last \in {"parting", "closing"} :
                 req' = [req EXCEPT ![r] = [@ EXCEPT !.pc = last, !.usage = u]]
            BY <1>16 DEF StreamEnds
        <2> HIDE DEF u
        <2>4. [req[r] EXCEPT !.pc = last, !.usage = u] \in Handler
            BY <1>h, <2>2, HandlerUpdate, PhaseNames, Zenon
        <2> QED
            BY <1>16, <2>3, <2>4 DEF StreamEnds, TypeOK, registry, ledger, router
    <1>17. ASSUME NEW r \in Request, StreamBreaks(r) PROVE TypeOK'
        <2>1. [req[r] EXCEPT !.pc = "parting", !.status = "error"] \in Handler
            BY <1>h, HandlerUpdate, PhaseNames, Zenon
        <2>2. req' \in [Request -> Handler]
            BY <1>17, <2>1 DEF StreamBreaks, TypeOK
        <2>3. /\ failures' \in [Channel -> 0..FactorCap]
              /\ cooldown' \in [Channel -> 0..(Cooldown * FactorCap)]
            BY <1>17, MarksTyped DEF StreamBreaks, TypeOK, router
        <2> QED
            BY <1>17, <2>2, <2>3 DEF StreamBreaks, TypeOK, registry, ledger
    <1>18. ASSUME NEW r \in Request, ClientGone(r) PROVE TypeOK'
        <2>1. [req[r] EXCEPT !.pc = "closing", !.status = "error"] \in Handler
            BY <1>h, HandlerUpdate, PhaseNames, Zenon
        <2> QED
            BY <1>18, <2>1 DEF ClientGone, TypeOK, registry, ledger, router
    <1>19. ASSUME NEW r \in Request, CloseStream(r) PROVE TypeOK'
        <2>1. Settlement(req[r]) \in Handler
            BY <1>h, SettlementTyped
        <2> QED
            BY <1>19, <2>1, FinalizeTyped DEF CloseStream, TypeOK, router
    <1>25. ASSUME NEW r \in Request, TimeUp(r) PROVE TypeOK'
        <2>1. [req[r] EXCEPT !.late = TRUE] \in Handler
            BY <1>h, HandlerUpdate, Zenon
        <2> QED
            BY <1>25, <2>1 DEF TimeUp, TypeOK, registry, ledger, router
    <1>26. ASSUME NEW r \in Request, Resume(r) PROVE TypeOK'
        <2>1. [req[r] EXCEPT !.pc = "streaming"] \in Handler
            BY <1>h, HandlerUpdate, PhaseNames, Zenon
        <2> QED
            BY <1>26, <2>1 DEF Resume, TypeOK, registry, ledger, router
    <1>27. ASSUME NEW r \in Request, OverBudget(r) PROVE TypeOK'
        <2>1. [req[r] EXCEPT !.pc = "parting", !.status = "error"] \in Handler
            BY <1>h, HandlerUpdate, PhaseNames, Zenon
        <2>2. req' \in [Request -> Handler]
            BY <1>27, <2>1 DEF OverBudget, TypeOK
        <2>3. /\ failures' \in [Channel -> 0..FactorCap]
              /\ cooldown' \in [Channel -> 0..(Cooldown * FactorCap)]
            BY <1>27, MarksTyped DEF OverBudget
        <2> QED
            BY <1>27, <2>2, <2>3 DEF OverBudget, TypeOK, registry, ledger
    <1>28. ASSUME NEW r \in Request, Part(r) PROVE TypeOK'
        <2>1. [req[r] EXCEPT !.pc = "closing"] \in Handler
            BY <1>h, HandlerUpdate, PhaseNames, Zenon
        <2> QED
            BY <1>28, <2>1 DEF Part, TypeOK, registry, ledger, router
    <1>20. ASSUME NEW r \in Request, GrowQuiet(r) PROVE TypeOK'
        BY <1>20 DEF GrowQuiet, TypeOK, ledger, router
    <1>21. ASSUME Tick PROVE TypeOK'
        <2>1. \A c \in Channel : (IF Cooling(c) THEN cooldown[c] - 1 ELSE 0)
                                     \in 0..(Cooldown * FactorCap)
            <3>1. \A c \in Channel : cooldown[c] \in 0..(Cooldown * FactorCap)
                BY DEF TypeOK
            <3> DEFINE top == Cooldown * FactorCap
            <3>2. top \in Nat
                BY RelayAssumption
            <3> HIDE DEF top
            <3>3. \A c \in Channel : cooldown[c] \in 0..top
                BY <3>1 DEF top
            <3>4. \A c \in Channel : (IF Cooling(c) THEN cooldown[c] - 1 ELSE 0) \in 0..top
                BY <3>2, <3>3 DEF Cooling
            <3> QED
                BY <3>4 DEF top
        <2> QED
            BY <1>21, <2>1 DEF Tick, TypeOK, registry, ledger
    <1>22. ASSUME Sweep PROVE TypeOK'
        <2>1. Cardinality(quiet) \in Nat
            BY FS_Subset, FS_CardinalityType, RelayAssumption DEF TypeOK
        <2>2. stats.finished + Cardinality(quiet) \in Nat
            BY <2>1 DEF TypeOK
        <2>3. stats' \in [started: Nat, finished: Nat, errors: Nat]
            BY <1>22, <2>2 DEF Sweep, TypeOK
        <2> QED
            BY <1>22, <2>3 DEF Sweep, TypeOK, ledger, router
    <1>23. ASSUME ClearCooldown PROVE TypeOK'
        <2>1. 0 \in 0..FactorCap /\ 0 \in 0..(Cooldown * FactorCap)
            BY RouterZero
        <2>2. PICK C \in {{c} : c \in Channel} \cup {Channel} :
                 /\ failures' = [c \in Channel |-> IF c \in C THEN 0 ELSE failures[c]]
                 /\ cooldown' = [c \in Channel |-> IF c \in C THEN 0 ELSE cooldown[c]]
            BY <1>23 DEF ClearCooldown
        <2> QED
            BY <1>23, <2>1, <2>2 DEF ClearCooldown, TypeOK, registry, ledger
    <1>24. CASE UNCHANGED vars
        BY <1>24 DEF TypeOK, vars
    <1> QED
        BY <1>1, <1>2, <1>3, <1>4, <1>5, <1>6, <1>7, <1>8, <1>9, <1>10, <1>11,
           <1>12, <1>13, <1>14, <1>15, <1>16, <1>17, <1>18, <1>19, <1>20, <1>21,
           <1>22, <1>23, <1>24, <1>25, <1>26, <1>27, <1>28
        DEF Next, Handle, Upstream, Client

LEMMA TypeInit == Init => TypeOK
    <1>1. NewHandler \in Handler
        BY RelayAssumption DEF NewHandler, Handler, Phases, Kinds
    <1> QED
        BY <1>1, RouterZero DEF Init, TypeOK

\* Whatever the clients, the upstreams and the administrator do, every
\* variable keeps its type; a cool-down, in particular, stays within the
\* longest one the code computes.
THEOREM TypeCorrect == Spec => []TypeOK
    <1>1. Init => TypeOK
        BY TypeInit
    <1>2. TypeOK /\ [Next]_vars => TypeOK'
        BY TypeStep
    <1> QED
        BY <1>1, <1>2, PTL DEF Spec
-----------------------------------------------------------------------------
(***************************************************************************)
(* The live sessions.  The counters add up because an idle handler has no  *)
(* session yet, so a start always adds one, and because finish counts only *)
(* what it pops.  The settlement of a request rests on the state its       *)
(* handler is in: before its end it has neither recorded nor charged       *)
(* anything, and its end does both at once, together with the finish.      *)
(***************************************************************************)
Settled(r) ==
    /\ req[r].pc = "idle" => r \notin live
    /\ req[r].pc # "done" => log[r] = <<>> /\ charged[r] = 0 /\ ~req[r].metered
    /\ req[r].open => req[r].pc \in {"ready", "streaming", "yielded", "parting",
                                     "closing", "lost"}
    /\ req[r].pc = "done" =>
          /\ r \notin live
          /\ Len(log[r]) = 1
          /\ log[r][1].status = req[r].status
          /\ charged[r] > 0 => charged[r] = log[r][1].tokens

SessionInv ==
    /\ TypeOK
    /\ SessionsAddUp
    /\ \A r \in Request : Settled(r)

\* Nothing of the other requests changes, except that they may be swept.
Others(r) ==
    \A s \in Request \ {r} :
        /\ req'[s] = req[s]
        /\ log'[s] = log[s]
        /\ charged'[s] = charged[s]
        /\ s \in live' => s \in live

LEMMA OthersSettled ==
    ASSUME NEW r \in Request, Others(r), Settled(r)',
           \A s \in Request : Settled(s)
    PROVE  \A s \in Request : Settled(s)'
    BY DEF Others, Settled

LEMMA StartAddsUp ==
    ASSUME TypeOK, SessionsAddUp, NEW r \in Request, r \notin live, LiveStart(r)
    PROVE  SessionsAddUp'
    <1>1. IsFiniteSet(live)
        BY FS_Subset, RelayAssumption DEF TypeOK
    <1>2. Cardinality(live \cup {r}) = Cardinality(live) + 1
        BY <1>1, FS_AddElement
    <1>3. Cardinality(live) \in Nat
        BY <1>1, FS_CardinalityType
    <1>4. /\ stats'.started = stats.started + 1
          /\ stats'.finished = stats.finished
          /\ stats'.errors = stats.errors
          /\ live' = live \cup {r}
        BY DEF LiveStart, TypeOK
    <1> QED
        BY <1>2, <1>3, <1>4 DEF SessionsAddUp, TypeOK

LEMMA FinishAddsUp ==
    ASSUME TypeOK, SessionsAddUp, NEW r \in Request, NEW status, LiveFinish(r, status)
    PROVE  SessionsAddUp'
    <1>1. IsFiniteSet(live)
        BY FS_Subset, RelayAssumption DEF TypeOK
    <1>2. Cardinality(live) \in Nat
        BY <1>1, FS_CardinalityType
    <1>3. CASE r \in live
        <2>1. Cardinality(live \ {r}) = Cardinality(live) - 1
            BY <1>1, <1>3, FS_RemoveElement
        <2>2. /\ stats'.started = stats.started
              /\ stats'.finished = stats.finished + 1
              /\ stats'.errors \in {stats.errors, stats.errors + 1}
              /\ live' = live \ {r}
            BY <1>3 DEF LiveFinish, TypeOK
        <2>3. stats.started \in Nat /\ stats.finished \in Nat /\ stats.errors \in Nat
            BY DEF TypeOK
        <2>4. /\ stats.started = Cardinality(live) + stats.finished
              /\ stats.errors <= stats.finished
            BY DEF SessionsAddUp
        <2>5. stats'.started = Cardinality(live') + stats'.finished
            BY <1>2, <2>1, <2>2, <2>3, <2>4
        <2>6. stats'.errors <= stats'.finished
            BY <2>2, <2>3, <2>4
        <2> QED
            BY <2>5, <2>6 DEF SessionsAddUp
    <1>4. CASE r \notin live
        <2>1. live' = live /\ stats' = stats
            BY <1>4 DEF LiveFinish, TypeOK
        <2> QED
            BY <2>1 DEF SessionsAddUp
    <1> QED
        BY <1>3, <1>4

LEMMA SweepAddsUp ==
    ASSUME TypeOK, SessionsAddUp, Sweep
    PROVE  SessionsAddUp'
    <1>1. IsFiniteSet(live) /\ IsFiniteSet(quiet) /\ live \cap quiet = quiet
        BY FS_Subset, RelayAssumption DEF TypeOK
    <1>2. /\ Cardinality(live) \in Nat
          /\ Cardinality(quiet) \in Nat
          /\ Cardinality(live \ quiet) = Cardinality(live) - Cardinality(quiet)
        BY <1>1, FS_CardinalityType, FS_Difference
    <1>3. /\ stats'.started = stats.started
          /\ stats'.finished = stats.finished + Cardinality(quiet)
          /\ stats'.errors = stats.errors
          /\ live' = live \ quiet
        BY DEF Sweep, TypeOK
    <1> QED
        BY <1>2, <1>3 DEF SessionsAddUp, TypeOK

\* Both ways a handler settles leave it settled.
LEMMA GiveUpSettles ==
    ASSUME SessionInv, NEW r \in Request, NEW tries \in Nat,
           req[r].pc \in {"planning", "trying", "failing"}, GiveUp(r, tries)
    PROVE  SessionsAddUp' /\ Others(r) /\ Settled(r)'
    <1>1. SessionsAddUp'
        BY FinishAddsUp DEF GiveUp, SessionInv
    <1>2. Others(r)
        BY DEF GiveUp, LiveFinish, RecordSoon, Others, SessionInv, TypeOK
    <1> DEFINE entry == [status |-> "error",
                         tokens |-> IF req[r].kind = "media" THEN 0 ELSE Promptly,
                         attempts |-> tries]
    <1>3. log[r] = <<>> /\ charged[r] = 0 /\ ~req[r].open
        BY DEF SessionInv, Settled
    <1>4. log'[r] = <<entry>>
        BY <1>3 DEF GiveUp, RecordSoon, SessionInv, TypeOK
    <1>5. /\ req'[r].pc = "done"
          /\ req'[r].status = "error"
          /\ req'[r].open = req[r].open
        BY DEF GiveUp, Gone, SessionInv, TypeOK, Handler
    <1>6. charged'[r] = 0 /\ r \notin live'
        BY <1>3 DEF GiveUp, LiveFinish
    <1>7. Len(<<entry>>) = 1 /\ <<entry>>[1].status = "error"
        OBVIOUS
    <1>8. Settled(r)'
        BY <1>3, <1>4, <1>5, <1>6, <1>7 DEF Settled
    <1> QED
        BY <1>1, <1>2, <1>8

LEMMA FinalizeSettles ==
    ASSUME SessionInv, NEW r \in Request, NEW h \in Handler, NEW charge \in BOOLEAN,
           req[r].pc \in {"sending", "closing"}, ~h.metered, ~h.open,
           Finalize(r, h, charge)
    PROVE  SessionsAddUp' /\ Others(r) /\ Settled(r)'
    <1> DEFINE entry == [status |-> h.status, tokens |-> h.usage, attempts |-> h.tries]
               fee   == IF charge THEN h.usage ELSE 0
               gone  == [Gone(h, "done") EXCEPT !.metered = TRUE]
    <1>1. /\ req' = [req EXCEPT ![r] = gone]
          /\ charged' = [charged EXCEPT ![r] = @ + fee]
          /\ log' = [log EXCEPT ![r] = Append(@, entry)]
          /\ LiveFinish(r, h.status)
        BY DEF Finalize, RecordSoon
    <1>2. SessionsAddUp'
        BY <1>1, FinishAddsUp DEF SessionInv
    <1>3. Others(r)
        <2> HIDE DEF entry, fee, gone
        <2> QED
            BY <1>1 DEF LiveFinish, Others, SessionInv, TypeOK
    <1>4. log[r] = <<>> /\ charged[r] = 0
        BY DEF SessionInv, Settled
    <1>5. gone.pc = "done" /\ gone.status = h.status /\ gone.open = h.open
        BY DEF Gone, Handler
    <1>6. fee \in {0, h.usage} /\ h.usage \in Nat
        BY DEF Handler
    <1>7. entry.status = h.status /\ entry.tokens = h.usage
        OBVIOUS
    <1> HIDE DEF entry, fee, gone
    <1>8. /\ req'[r].pc = "done" /\ req'[r].status = h.status /\ ~req'[r].open
          /\ charged'[r] = fee
          /\ log'[r] = <<entry>>
          /\ r \notin live'
        BY <1>1, <1>4, <1>5, <1>6 DEF SessionInv, TypeOK, LiveFinish
    <1>9. Len(log'[r]) = 1 /\ log'[r][1] = entry
        BY <1>8
    <1>10. Settled(r)'
        BY <1>6, <1>7, <1>8, <1>9 DEF Settled
    <1> QED
        BY <1>2, <1>3, <1>10

\* A step of r that leaves the ledger and the counters alone.
LEMMA QuietStep ==
    ASSUME SessionInv, NEW r \in Request,
           req[r].pc \notin {"idle", "done"}, req'[r].pc \notin {"idle", "done"},
           ~req'[r].metered,
           req'[r].open => req'[r].pc \in {"ready", "streaming", "yielded", "parting",
                                            "closing", "lost"},
           \A s \in Request \ {r} : req'[s] = req[s],
           UNCHANGED <<live, stats, charged, log>>
    PROVE  SessionsAddUp' /\ \A s \in Request : Settled(s)'
    <1>1. SessionsAddUp'
        BY DEF SessionInv, SessionsAddUp
    <1>2. Others(r)
        BY DEF Others
    <1>3. Settled(r)'
        BY DEF SessionInv, Settled
    <1> QED
        BY <1>1, <1>2, <1>3, OthersSettled DEF SessionInv

LEMMA SessionStep ==
    ASSUME SessionInv, [Next]_vars
    PROVE  SessionInv'
    <1> DEFINE Goal == SessionsAddUp' /\ \A s \in Request : Settled(s)'
    <1>t. TypeOK /\ TypeOK'
        BY TypeStep DEF SessionInv
    <1>h. \A r \in Request : /\ req[r] \in Handler
                             /\ req[r].pc # "done" => ~req[r].metered
                             /\ req[r].open => req[r].pc \in {"ready", "streaming",
                                        "yielded", "parting", "closing", "lost"}
        BY DEF SessionInv, TypeOK, Settled
    <1>1. ASSUME NEW r \in Request, Arrive(r) PROVE Goal
        <2>1. r \notin live /\ LiveStart(r)
            BY <1>1 DEF Arrive, SessionInv, Settled
        <2>2. SessionsAddUp'
            BY <2>1, <1>t, StartAddsUp DEF SessionInv
        <2>3. Others(r)
            BY <1>1, <1>t DEF Arrive, LiveStart, Others, TypeOK, ledger
        <2>4. /\ req'[r].pc = "planning"
              /\ req'[r].open = req[r].open
              /\ req'[r].metered = req[r].metered
            BY <1>1, <1>h, <1>t DEF Arrive, TypeOK, Handler
        <2>5. req[r].pc = "idle" /\ log' = log /\ charged' = charged
            BY <1>1 DEF Arrive, ledger
        <2>6. Settled(r)'
            BY <2>4, <2>5 DEF SessionInv, Settled
        <2> QED
            BY <2>2, <2>3, <2>6, OthersSettled DEF SessionInv
    <1>2. ASSUME NEW r \in Request, PlanEmpty(r) PROVE Goal
        BY <1>2, GiveUpSettles, OthersSettled DEF PlanEmpty, SessionInv
    <1>3. ASSUME NEW r \in Request, Exhaust(r) PROVE Goal
        <2>1. req[r].tries + Len(req[r].rest) \in Nat
            BY <1>h DEF Handler
        <2> QED
            BY <1>3, <2>1, GiveUpSettles, OthersSettled DEF Exhaust, SessionInv
    <1>4. ASSUME NEW r \in Request, Fail(r) PROVE Goal
        <2>1. req[r].tries \in Nat
            BY <1>h DEF Handler
        <2> QED
            BY <1>4, <2>1, GiveUpSettles, OthersSettled DEF Fail, SessionInv
    <1>5. ASSUME NEW r \in Request, MediaRefuse(r) PROVE Goal
        <2>1. PICK n \in 0..(Len(req[r].rest) - 1) : GiveUp(r, req[r].tries + n + 1)
            BY <1>5 DEF MediaRefuse
        <2>2. req[r].tries + n + 1 \in Nat
            BY <1>h DEF Handler
        <2> QED
            BY <1>5, <2>1, <2>2, GiveUpSettles, OthersSettled DEF MediaRefuse, SessionInv
    <1>6. ASSUME NEW r \in Request, Answer(r) PROVE Goal
        <2>1. PICK n \in 0..MaxChunks :
                 Finalize(r, [req[r] EXCEPT !.produced = n, !.usage = Promptly + n],
                          req[r].kind = "sync")
            BY <1>6 DEF Answer
        <2> DEFINE h == [req[r] EXCEPT !.produced = n, !.usage = Promptly + n]
        <2>2. Promptly + n \in Nat
            BY DEF Promptly
        <2>3. h \in Handler
            BY <1>h, <2>2, HandlerUpdate, Zenon
        <2>4. req[r].pc = "sending"
            BY <1>6 DEF Answer
        <2>5. ~h.metered /\ ~h.open
            BY <1>h, <2>4 DEF Handler
        <2>6. Finalize(r, h, req[r].kind = "sync") /\ (req[r].kind = "sync") \in BOOLEAN
            BY <2>1
        <2> HIDE DEF h
        <2> QED
            BY <2>3, <2>4, <2>5, <2>6, FinalizeSettles, OthersSettled DEF SessionInv
    <1>7. ASSUME NEW r \in Request, CloseStream(r) PROVE Goal
        <2> DEFINE h == Settlement(req[r])
        <2>1. h \in Handler /\ h.metered = req[r].metered /\ ~h.open
            BY <1>h, SettlementTyped
        <2>2. req[r].pc = "closing" /\ Finalize(r, h, TRUE)
            BY <1>7 DEF CloseStream
        <2>3. ~h.metered /\ ~h.open
            BY <1>h, <2>1, <2>2
        <2> HIDE DEF h
        <2> QED
            BY <2>1, <2>2, <2>3, FinalizeSettles, OthersSettled DEF SessionInv
    <1>8. ASSUME NEW r \in Request, Plan(r) PROVE Goal
        <2>1. /\ req'[r].pc = "trying"
              /\ req'[r].metered = req[r].metered
              /\ req'[r].open = req[r].open
            BY <1>8, <1>h, <1>t DEF Plan, TypeOK, Handler
        <2>2. /\ \A s \in Request \ {r} : req'[s] = req[s]
              /\ UNCHANGED <<live, stats, charged, log>>
            BY <1>8, <1>t DEF Plan, TypeOK, registry, ledger
        <2> QED
            BY <1>8, <1>h, <2>1, <2>2, QuietStep DEF Plan
    <1>9. ASSUME NEW r \in Request, Send(r) PROVE Goal
        <2>1. /\ req'[r].pc = "sending"
              /\ req'[r].metered = req[r].metered
              /\ req'[r].open = req[r].open
            BY <1>9, <1>h, <1>t DEF Send, TypeOK, Handler
        <2>2. /\ \A s \in Request \ {r} : req'[s] = req[s]
              /\ UNCHANGED <<live, stats, charged, log>>
            BY <1>9, <1>t DEF Send, TypeOK, registry, ledger
        <2> QED
            BY <1>9, <1>h, <2>1, <2>2, QuietStep DEF Send
    <1>10. ASSUME NEW r \in Request, Crash(r) PROVE Goal
        <2>1. /\ req'[r].pc = "lost"
              /\ req'[r].metered = req[r].metered
              /\ req'[r].open = req[r].open
            BY <1>10, <1>h, <1>t DEF Crash, Gone, TypeOK, Handler
        <2>2. /\ \A s \in Request \ {r} : req'[s] = req[s]
              /\ UNCHANGED <<live, stats, charged, log>>
            BY <1>10, <1>t DEF Crash, TypeOK, registry, ledger
        <2> QED
            BY <1>10, <1>h, <2>1, <2>2, QuietStep DEF Crash
    <1>11. ASSUME NEW r \in Request, UpstreamFails(r) PROVE Goal
        <2>1. /\ req'[r].pc \in {"trying", "failing"}
              /\ req'[r].metered = req[r].metered
              /\ req'[r].open = req[r].open
            BY <1>11, <1>h, <1>t DEF UpstreamFails, TypeOK, Handler
        <2>2. /\ \A s \in Request \ {r} : req'[s] = req[s]
              /\ UNCHANGED <<live, stats, charged, log>>
            BY <1>11, <1>t DEF UpstreamFails, TypeOK, registry, ledger
        <2> QED
            BY <1>11, <1>h, <2>1, <2>2, QuietStep DEF UpstreamFails
    <1>12. ASSUME NEW r \in Request, OpenStream(r) PROVE Goal
        <2>1. /\ req'[r].pc = "ready"
              /\ req'[r].metered = req[r].metered
              /\ req'[r].open
            BY <1>12, <1>h, <1>t DEF OpenStream, TypeOK, Handler
        <2>2. /\ \A s \in Request \ {r} : req'[s] = req[s]
              /\ UNCHANGED <<live, stats, charged, log>>
            BY <1>12, <1>t DEF OpenStream, TypeOK, registry, ledger
        <2> QED
            BY <1>12, <1>h, <2>1, <2>2, QuietStep DEF OpenStream
    <1>13. ASSUME NEW r \in Request, Blunder(r) PROVE Goal
        <2>1. /\ req'[r].pc = "lost"
              /\ req'[r].metered = req[r].metered
              /\ req'[r].open = req[r].open
            BY <1>13, <1>h, <1>t DEF Blunder, Gone, TypeOK, Handler
        <2>2. /\ \A s \in Request \ {r} : req'[s] = req[s]
              /\ UNCHANGED <<live, stats, charged, log>>
            BY <1>13, <1>t DEF Blunder, TypeOK, registry, ledger
        <2> QED
            BY <1>13, <1>h, <2>1, <2>2, QuietStep DEF Blunder
    <1>14. ASSUME NEW r \in Request, StartStream(r) PROVE Goal
        <2>1. /\ req'[r].pc = "streaming"
              /\ req'[r].metered = req[r].metered
              /\ req'[r].open = req[r].open
            BY <1>14, <1>h, <1>t DEF StartStream, TypeOK, Handler
        <2>2. /\ \A s \in Request \ {r} : req'[s] = req[s]
              /\ UNCHANGED <<live, stats, charged, log>>
            BY <1>14, <1>t DEF StartStream, TypeOK, registry, ledger
        <2> QED
            BY <1>14, <1>h, <2>1, <2>2, QuietStep DEF StartStream
    <1>15. ASSUME NEW r \in Request, NeverStarted(r) PROVE Goal
        <2>1. /\ req'[r].pc = "lost"
              /\ req'[r].metered = req[r].metered
              /\ req'[r].open = req[r].open
            BY <1>15, <1>h, <1>t DEF NeverStarted, Gone, TypeOK, Handler
        <2>2. /\ \A s \in Request \ {r} : req'[s] = req[s]
              /\ UNCHANGED <<live, stats, charged, log>>
            BY <1>15, <1>t DEF NeverStarted, TypeOK, registry, ledger
        <2> QED
            BY <1>15, <1>h, <2>1, <2>2, QuietStep DEF NeverStarted
    <1>16. ASSUME NEW r \in Request, Chunk(r) PROVE Goal
        <2>1. /\ req'[r].pc = "yielded"
              /\ req'[r].metered = req[r].metered
              /\ req'[r].open = req[r].open
            BY <1>16, <1>h, <1>t DEF Chunk, LiveActivity, TypeOK, Handler
        <2>2. /\ \A s \in Request \ {r} : req'[s] = req[s]
              /\ UNCHANGED <<live, stats, charged, log>>
            BY <1>16, <1>t DEF Chunk, LiveActivity, TypeOK, registry, ledger
        <2> QED
            BY <1>16, <1>h, <2>1, <2>2, QuietStep DEF Chunk
    <1>17. ASSUME NEW r \in Request, StreamEnds(r) PROVE Goal
        <2>1. /\ req'[r].pc \in {"parting", "closing"}
              /\ req'[r].metered = req[r].metered
              /\ req'[r].open = req[r].open
            BY <1>17, <1>h, <1>t DEF StreamEnds, TypeOK, Handler
        <2>2. /\ \A s \in Request \ {r} : req'[s] = req[s]
              /\ UNCHANGED <<live, stats, charged, log>>
            BY <1>17, <1>t DEF StreamEnds, TypeOK, registry, ledger
        <2> QED
            BY <1>17, <1>h, <2>1, <2>2, QuietStep DEF StreamEnds
    <1>18. ASSUME NEW r \in Request, StreamBreaks(r) PROVE Goal
        <2>1. /\ req'[r].pc = "parting"
              /\ req'[r].metered = req[r].metered
              /\ req'[r].open = req[r].open
            BY <1>18, <1>h, <1>t DEF StreamBreaks, TypeOK, Handler
        <2>2. /\ \A s \in Request \ {r} : req'[s] = req[s]
              /\ UNCHANGED <<live, stats, charged, log>>
            BY <1>18, <1>t DEF StreamBreaks, TypeOK, registry, ledger
        <2> QED
            BY <1>18, <1>h, <2>1, <2>2, QuietStep DEF StreamBreaks
    <1>19. ASSUME NEW r \in Request, ClientGone(r) PROVE Goal
        <2>1. /\ req'[r].pc = "closing"
              /\ req'[r].metered = req[r].metered
              /\ req'[r].open = req[r].open
            BY <1>19, <1>h, <1>t DEF ClientGone, TypeOK, Handler
        <2>2. /\ \A s \in Request \ {r} : req'[s] = req[s]
              /\ UNCHANGED <<live, stats, charged, log>>
            BY <1>19, <1>t DEF ClientGone, TypeOK, registry, ledger
        <2> QED
            BY <1>19, <1>h, <2>1, <2>2, QuietStep DEF ClientGone
    <1>26. ASSUME NEW r \in Request, TimeUp(r) PROVE Goal
        <2>1. /\ req'[r].pc = req[r].pc
              /\ req'[r].metered = req[r].metered
              /\ req'[r].open = req[r].open
            BY <1>26, <1>h, <1>t DEF TimeUp, TypeOK, Handler
        <2>2. /\ \A s \in Request \ {r} : req'[s] = req[s]
              /\ UNCHANGED <<live, stats, charged, log>>
            BY <1>26, <1>t DEF TimeUp, TypeOK, registry, ledger
        <2> QED
            BY <1>26, <1>h, <2>1, <2>2, QuietStep DEF TimeUp
    <1>27. ASSUME NEW r \in Request, Resume(r) PROVE Goal
        <2>1. /\ req'[r].pc = "streaming"
              /\ req'[r].metered = req[r].metered
              /\ req'[r].open = req[r].open
            BY <1>27, <1>h, <1>t DEF Resume, TypeOK, Handler
        <2>2. /\ \A s \in Request \ {r} : req'[s] = req[s]
              /\ UNCHANGED <<live, stats, charged, log>>
            BY <1>27, <1>t DEF Resume, TypeOK, registry, ledger
        <2> QED
            BY <1>27, <1>h, <2>1, <2>2, QuietStep DEF Resume
    <1>28. ASSUME NEW r \in Request, OverBudget(r) PROVE Goal
        <2>1. /\ req'[r].pc = "parting"
              /\ req'[r].metered = req[r].metered
              /\ req'[r].open = req[r].open
            BY <1>28, <1>h, <1>t DEF OverBudget, TypeOK, Handler
        <2>2. /\ \A s \in Request \ {r} : req'[s] = req[s]
              /\ UNCHANGED <<live, stats, charged, log>>
            BY <1>28, <1>t DEF OverBudget, TypeOK, registry, ledger
        <2> QED
            BY <1>28, <1>h, <2>1, <2>2, QuietStep DEF OverBudget
    <1>29. ASSUME NEW r \in Request, Part(r) PROVE Goal
        <2>1. /\ req'[r].pc = "closing"
              /\ req'[r].metered = req[r].metered
              /\ req'[r].open = req[r].open
            BY <1>29, <1>h, <1>t DEF Part, TypeOK, Handler
        <2>2. /\ \A s \in Request \ {r} : req'[s] = req[s]
              /\ UNCHANGED <<live, stats, charged, log>>
            BY <1>29, <1>t DEF Part, TypeOK, registry, ledger
        <2> QED
            BY <1>29, <1>h, <2>1, <2>2, QuietStep DEF Part
    <1>20. ASSUME NEW r \in Request, GrowQuiet(r) PROVE Goal
        BY <1>20 DEF GrowQuiet, SessionInv, SessionsAddUp, Settled, ledger
    <1>21. ASSUME Tick PROVE Goal
        BY <1>21 DEF Tick, SessionInv, SessionsAddUp, Settled, registry, ledger
    <1>22. ASSUME Sweep PROVE Goal
        <2>1. SessionsAddUp'
            BY <1>22, <1>t, SweepAddsUp DEF SessionInv
        <2> QED
            BY <1>22, <2>1 DEF Sweep, SessionInv, Settled, ledger
    <1>23. ASSUME ClearCooldown PROVE Goal
        BY <1>23 DEF ClearCooldown, SessionInv, SessionsAddUp, Settled, registry, ledger
    <1>24. ASSUME UNCHANGED vars PROVE Goal
        BY <1>24 DEF vars, SessionInv, SessionsAddUp, Settled
    <1>25. Goal
        BY <1>1, <1>2, <1>3, <1>4, <1>5, <1>6, <1>7, <1>8, <1>9, <1>10, <1>11,
           <1>12, <1>13, <1>14, <1>15, <1>16, <1>17, <1>18, <1>19, <1>20, <1>21,
           <1>22, <1>23, <1>24, <1>26, <1>27, <1>28, <1>29
        DEF Next, Handle, Upstream, Client
    <1> QED
        BY <1>t, <1>25 DEF SessionInv

LEMMA SessionInit == Init => SessionInv
    <1>1. Init => TypeOK
        BY TypeInit
    <1>2. Init => SessionsAddUp
        BY FS_EmptySet DEF Init, SessionsAddUp
    <1>3. Init => \A r \in Request : Settled(r)
        BY DEF Init, Settled, NewHandler
    <1> QED
        BY <1>1, <1>2, <1>3 DEF SessionInv

LEMMA SessionCorrect == Spec => []SessionInv
    BY SessionInit, SessionStep, PTL DEF Spec

\* The counters of the console add up in every reachable state, for any
\* number of calls and however handlers and the sweep race for a session.
THEOREM SessionsCorrect == Spec => []SessionsAddUp
    <1>1. SessionInv => SessionsAddUp
        BY DEF SessionInv
    <1> QED
        BY <1>1, SessionCorrect, PTL

\* A handler that settled left no session, no open upstream response and
\* exactly one usage record of the right outcome.
THEOREM SettledCorrect == Spec => []SettledWhenDone
    <1>1. SessionInv => SettledWhenDone
        BY DEF SessionInv, Settled, SettledWhenDone
    <1> QED
        BY <1>1, SessionCorrect, PTL

\* No call is metered twice, and what the limiter was charged is what the
\* call's usage record says.
THEOREM MeteredCorrect == Spec => []MeteredOnce
    <1>1. SessionInv => MeteredOnce
        <2> SUFFICES ASSUME SessionInv, NEW r \in Request
                     PROVE  /\ Len(log[r]) <= 1
                            /\ charged[r] > 0 => /\ Len(log[r]) = 1
                                                 /\ charged[r] = log[r][1].tokens
            BY DEF MeteredOnce
        <2>1. CASE req[r].pc = "done"
            <3>1. /\ Len(log[r]) = 1
                  /\ charged[r] > 0 => charged[r] = log[r][1].tokens
                BY <2>1 DEF SessionInv, Settled
            <3> QED
                BY <3>1
        <2>2. CASE req[r].pc # "done"
            <3>1. log[r] = <<>> /\ charged[r] = 0
                BY <2>2 DEF SessionInv, Settled
            <3>2. Len(<<>>) = 0
                OBVIOUS
            <3> QED
                BY <3>1, <3>2
        <2> QED
            BY <2>1, <2>2
    <1> QED
        BY <1>1, SessionCorrect, PTL
-----------------------------------------------------------------------------
(***************************************************************************)
(* The retry budget.  Candidates that are misconfigured use up attempts,   *)
(* not calls, so the calls made never exceed the attempts; a handler that  *)
(* is back in the loop after a call passed _can_retry, which bounds the    *)
(* attempts.  The candidates not tried yet are distinct and were not       *)
(* called before, whatever other calls do to the breakers meanwhile.       *)
(***************************************************************************)
Distinct(q) == \A i, j \in 1..Len(q) : i # j => q[i] # q[j]

Fresh(q, done) == \A i \in 1..Len(q), j \in 1..Len(done) : q[i] # done[j]

Budget(r) ==
    /\ req[r].pc \in {"idle", "planning"} => sends[r] = <<>> /\ req[r].tries = 0
    /\ req[r].pc \in {"trying", "sending"} =>
          /\ Len(sends[r]) <= req[r].tries
          /\ Distinct(req[r].rest)
          /\ Fresh(req[r].rest, sends[r])
    /\ req[r].pc = "trying" => Len(sends[r]) <= MaxRetries
    /\ Len(sends[r]) <= MaxRetries + 1
    /\ Distinct(sends[r])

BudgetInv == TypeOK /\ \A r \in Request : Budget(r)

\* Taking a candidate off the list keeps the rest distinct and uncalled.
LEMMA TakeCandidate ==
    ASSUME NEW q \in Seq(Channel), NEW called \in Seq(Channel),
           Distinct(q), Distinct(called), Fresh(q, called),
           NEW n \in 0..(Len(q) - 1)
    PROVE  /\ Distinct(SubSeq(q, n + 2, Len(q)))
           /\ Distinct(Append(called, q[n + 1]))
           /\ Fresh(SubSeq(q, n + 2, Len(q)), Append(called, q[n + 1]))
           /\ Len(Append(called, q[n + 1])) = Len(called) + 1
    <1> DEFINE rest  == SubSeq(q, n + 2, Len(q))
               calls == Append(called, q[n + 1])
    <1>1. /\ Len(q) \in Nat /\ n \in Nat /\ n + 1 \in 1..Len(q)
          /\ Len(called) \in Nat
        OBVIOUS
    <1>2. /\ Len(rest) = Len(q) - (n + 1)
          /\ \A i \in 1..Len(rest) : rest[i] = q[n + 1 + i] /\ n + 1 + i \in 1..Len(q)
        <2>1. Len(rest) = Len(q) - (n + 1)
            BY <1>1
        <2> SUFFICES ASSUME NEW i \in 1..Len(rest)
                     PROVE  rest[i] = q[n + 1 + i] /\ n + 1 + i \in 1..Len(q)
            BY <2>1
        <2>2. n + 1 + i \in 1..Len(q)
            BY <1>1, <2>1
        <2>3. rest[i] = q[(n + 2) + i - 1]
            BY <1>1, <2>1
        <2> QED
            BY <1>1, <2>2, <2>3
    <1>3. /\ Len(calls) = Len(called) + 1
          /\ \A i \in 1..Len(called) : calls[i] = called[i]
          /\ calls[Len(called) + 1] = q[n + 1]
        BY <1>1
    <1> HIDE DEF rest, calls
    <1>4. Distinct(rest)
        <2> SUFFICES ASSUME NEW i \in 1..Len(rest), NEW j \in 1..Len(rest), i # j
                     PROVE  rest[i] # rest[j]
            BY DEF Distinct
        <2>1. /\ n + 1 + i \in 1..Len(q) /\ rest[i] = q[n + 1 + i]
              /\ n + 1 + j \in 1..Len(q) /\ rest[j] = q[n + 1 + j]
            BY <1>2
        <2>2. n + 1 + i # n + 1 + j
            BY <1>1, <1>2
        <2> QED
            BY <2>1, <2>2 DEF Distinct
    <1>5. Distinct(calls)
        BY <1>1, <1>3 DEF Distinct, Fresh
    <1>6. Fresh(rest, calls)
        <2> SUFFICES ASSUME NEW i \in 1..Len(rest), NEW j \in 1..Len(calls)
                     PROVE  rest[i] # calls[j]
            BY DEF Fresh
        <2>1. n + 1 + i \in 1..Len(q) /\ rest[i] = q[n + 1 + i]
            BY <1>2
        <2>2. CASE j = Len(called) + 1
            <3>1. n + 1 + i # n + 1 /\ n + 1 \in 1..Len(q) /\ calls[j] = q[n + 1]
                BY <1>1, <1>2, <1>3, <2>2
            <3> QED
                BY <1>1, <2>1, <3>1 DEF Distinct
        <2>3. CASE j # Len(called) + 1
            <3>1. j \in 1..Len(called) /\ calls[j] = called[j]
                BY <1>1, <1>3, <2>3
            <3> QED
                BY <1>1, <2>1, <3>1 DEF Fresh
        <2> QED
            BY <2>2, <2>3
    <1> QED
        BY <1>3, <1>4, <1>5, <1>6 DEF rest, calls

\* Whether it meters or finds the call metered, finalize ends the handler.
LEMMA FinalizeEnds ==
    ASSUME TypeOK, NEW r \in Request, NEW h \in Handler, NEW charge,
           Finalize(r, h, charge)
    PROVE  /\ req'[r].pc = "done"
           /\ \A s \in Request \ {r} : req'[s] = req[s]
    <1> DEFINE gone == [Gone(h, "done") EXCEPT !.metered = TRUE]
    <1>1. Gone(h, "done").pc = "done" /\ gone.pc = "done"
        BY DEF Gone, Handler
    <1>2. \/ req' = [req EXCEPT ![r] = Gone(h, "done")]
          \/ req' = [req EXCEPT ![r] = gone]
        BY DEF Finalize
    <1> HIDE DEF gone
    <1> QED
        BY <1>1, <1>2 DEF TypeOK

\* A step of r that calls nobody, and either leaves the loop or goes on in it
\* with the list and the attempts it had.
LEMMA NoCallStep ==
    ASSUME BudgetInv, NEW r \in Request,
           req'[r].pc \notin {"idle", "planning", "trying", "sending"},
           \A s \in Request \ {r} : req'[s] = req[s],
           sends' = sends
    PROVE  \A s \in Request : Budget(s)'
    BY DEF BudgetInv, Budget

LEMMA BudgetStep ==
    ASSUME BudgetInv, [Next]_vars
    PROVE  BudgetInv'
    <1> DEFINE Goal == \A s \in Request : Budget(s)'
    <1>t. TypeOK /\ TypeOK'
        BY TypeStep DEF BudgetInv
    <1>h. \A r \in Request : req[r] \in Handler
        BY <1>t DEF TypeOK
    <1>1. ASSUME NEW r \in Request, Arrive(r) PROVE Goal
        <2>1. /\ req'[r].pc = "planning" /\ req[r].pc = "idle"
              /\ req'[r].tries = req[r].tries
              /\ sends' = sends
              /\ \A s \in Request \ {r} : req'[s] = req[s]
            BY <1>1, <1>h, <1>t DEF Arrive, TypeOK, Handler
        <2> QED
            BY <2>1 DEF BudgetInv, Budget
    <1>2. ASSUME NEW r \in Request, Plan(r) PROVE Goal
        <2>1. PICK q \in Plans :
                 req' = [req EXCEPT ![r] = [@ EXCEPT !.pc = "trying", !.rest = q]]
            BY <1>2 DEF Plan
        <2>a. req[r].pc = "planning" /\ sends' = sends
            BY <1>2 DEF Plan
        <2>b. /\ req'[r] = [req[r] EXCEPT !.pc = "trying", !.rest = q]
              /\ \A s \in Request \ {r} : req'[s] = req[s]
            BY <1>t, <2>1 DEF TypeOK
        <2>2. /\ req'[r].pc = "trying" /\ req[r].pc = "planning"
              /\ req'[r].tries = req[r].tries
              /\ req'[r].rest = q
              /\ sends' = sends
              /\ \A s \in Request \ {r} : req'[s] = req[s]
            BY <1>h, <2>a, <2>b DEF Handler
        <2>3. Distinct(q)
            BY PlansAreLists DEF Distinct
        <2>4. sends[r] = <<>> /\ req[r].tries = 0 /\ Distinct(sends[r])
            BY <2>2 DEF BudgetInv, Budget
        <2>5. Len(sends[r]) = 0
            BY <2>4
        <2>6. Fresh(q, sends[r])
            BY <2>5 DEF Fresh
        <2>7. Budget(r)'
            BY <2>2, <2>3, <2>4, <2>5, <2>6, RelayAssumption DEF Budget
        <2> QED
            BY <2>2, <2>7 DEF BudgetInv, Budget
    <1>3. ASSUME NEW r \in Request, Send(r) PROVE Goal
        <2>1. PICK n \in 0..(Len(req[r].rest) - 1) : Send(r)!2!(n)
            BY <1>3, Zenon DEF Send
        <2> DEFINE c == req[r].rest[n + 1]
                   q == SubSeq(req[r].rest, n + 2, Len(req[r].rest))
                   t == req[r].tries + n + 1
        <2>2. /\ req' = [req EXCEPT ![r] = [@ EXCEPT !.pc = "sending", !.chan = c,
                                               !.rest = q, !.tries = t]]
              /\ sends' = [sends EXCEPT ![r] = Append(@, c)]
            BY <2>1
        <2>3. req[r].rest \in Seq(Channel) /\ sends[r] \in Seq(Channel)
              /\ req[r].tries \in Nat /\ n \in Nat
            BY <1>t, SMTT(20) DEF TypeOK, Handler
        <2>4. /\ req[r].pc = "trying"
              /\ Len(sends[r]) <= req[r].tries
              /\ Len(sends[r]) <= MaxRetries
              /\ Distinct(req[r].rest)
              /\ Fresh(req[r].rest, sends[r])
              /\ Distinct(sends[r])
            BY <1>3 DEF Send, BudgetInv, Budget
        <2>5. /\ sends'[r] = Append(sends[r], c)
              /\ \A s \in Request \ {r} : req'[s] = req[s] /\ sends'[s] = sends[s]
            BY <2>2, <1>t DEF TypeOK
        <2>6. /\ req'[r].pc = "sending"
              /\ req'[r].rest = q
              /\ req'[r].tries = t
            <3> HIDE DEF c, q, t
            <3> QED
                BY <1>h, <2>2, <1>t DEF TypeOK, Handler
        <2>7. /\ Distinct(q)
              /\ Distinct(sends'[r])
              /\ Fresh(q, sends'[r])
              /\ Len(sends'[r]) = Len(sends[r]) + 1
            <3>1. n \in 0..(Len(req[r].rest) - 1)
                OBVIOUS
            <3> QED
                BY <2>3, <2>4, <2>5, <3>1, TakeCandidate, ZenonT(40)
        <2>8. Len(sends[r]) \in Nat
            BY <2>3
        <2>9. Len(sends'[r]) <= t /\ Len(sends'[r]) <= MaxRetries + 1
            BY <2>3, <2>4, <2>7, <2>8, RelayAssumption
        <2> HIDE DEF c, q, t
        <2>10. Budget(r)'
            BY <2>6, <2>7, <2>9 DEF Budget
        <2> QED
            BY <2>5, <2>10 DEF BudgetInv, Budget
    <1>4. ASSUME NEW r \in Request, UpstreamFails(r) PROVE Goal
        <2>1. PICK retryable \in BOOLEAN :
                 req' = [req EXCEPT ![r].pc = IF retryable /\ CanRetry(req[r])
                                              THEN "trying" ELSE "failing"]
            BY <1>4 DEF UpstreamFails
        <2> DEFINE pc == IF retryable /\ CanRetry(req[r]) THEN "trying" ELSE "failing"
        <2>a. req[r].pc = "sending" /\ sends' = sends
            BY <1>4 DEF UpstreamFails
        <2>b. req' = [req EXCEPT ![r].pc = pc]
            BY <2>1
        <2> HIDE DEF pc
        <2>c. /\ req'[r] = [req[r] EXCEPT !.pc = pc]
              /\ \A s \in Request \ {r} : req'[s] = req[s]
            BY <1>t, <2>b DEF TypeOK
        <2>2. /\ req[r].pc = "sending"
              /\ sends' = sends
              /\ req'[r].tries = req[r].tries
              /\ req'[r].rest = req[r].rest
              /\ req'[r].pc = pc
              /\ \A s \in Request \ {r} : req'[s] = req[s]
            BY <1>h, <2>a, <2>c DEF Handler
        <2> USE DEF pc
        <2>3. CASE retryable /\ CanRetry(req[r])
            <3>1. req[r].tries \in Nat /\ sends[r] \in Seq(Channel) /\ MaxRetries \in Nat
                BY <1>t, RelayAssumption DEF TypeOK, Handler
            <3>2. Len(sends[r]) <= req[r].tries /\ req[r].tries - 1 < MaxRetries
                BY <2>2, <2>3 DEF CanRetry, BudgetInv, Budget
            <3>3. Len(sends[r]) <= MaxRetries
                BY <3>1, <3>2
            <3> QED
                BY <2>2, <2>3, <3>3 DEF BudgetInv, Budget
        <2>4. CASE ~(retryable /\ CanRetry(req[r]))
            BY <2>2, <2>4, NoCallStep
        <2> QED
            BY <2>3, <2>4
    <1>5. ASSUME NEW r \in Request, PlanEmpty(r) PROVE Goal
        <2>1. PICK tries : GiveUp(r, tries)
            BY <1>5 DEF PlanEmpty
        <2>2. /\ req'[r].pc = "done"
              /\ sends' = sends
              /\ \A s \in Request \ {r} : req'[s] = req[s]
            BY <2>1, <1>h, <1>t DEF GiveUp, Gone, TypeOK, Handler
        <2> QED
            BY <2>2, NoCallStep
    <1>6. ASSUME NEW r \in Request, Exhaust(r) PROVE Goal
        <2>1. PICK tries : GiveUp(r, tries)
            BY <1>6 DEF Exhaust
        <2>2. /\ req'[r].pc = "done"
              /\ sends' = sends
              /\ \A s \in Request \ {r} : req'[s] = req[s]
            BY <2>1, <1>h, <1>t DEF GiveUp, Gone, TypeOK, Handler
        <2> QED
            BY <2>2, NoCallStep
    <1>7. ASSUME NEW r \in Request, Fail(r) PROVE Goal
        <2>1. PICK tries : GiveUp(r, tries)
            BY <1>7 DEF Fail
        <2>2. /\ req'[r].pc = "done"
              /\ sends' = sends
              /\ \A s \in Request \ {r} : req'[s] = req[s]
            BY <2>1, <1>h, <1>t DEF GiveUp, Gone, TypeOK, Handler
        <2> QED
            BY <2>2, NoCallStep
    <1>8. ASSUME NEW r \in Request, MediaRefuse(r) PROVE Goal
        <2>1. PICK tries : GiveUp(r, tries)
            BY <1>8 DEF MediaRefuse
        <2>2. /\ req'[r].pc = "done"
              /\ sends' = sends
              /\ \A s \in Request \ {r} : req'[s] = req[s]
            BY <2>1, <1>h, <1>t DEF GiveUp, Gone, TypeOK, Handler
        <2> QED
            BY <2>2, NoCallStep
    <1>9. ASSUME NEW r \in Request, Crash(r) PROVE Goal
        <2>1. /\ req'[r].pc = "lost"
              /\ sends' = sends
              /\ \A s \in Request \ {r} : req'[s] = req[s]
            BY <1>9, <1>h, <1>t DEF Crash, Gone, TypeOK, Handler
        <2> QED
            BY <2>1, NoCallStep
    <1>10. ASSUME NEW r \in Request, Blunder(r) PROVE Goal
        <2>1. /\ req'[r].pc = "lost"
              /\ sends' = sends
              /\ \A s \in Request \ {r} : req'[s] = req[s]
            BY <1>10, <1>h, <1>t DEF Blunder, Gone, TypeOK, Handler
        <2> QED
            BY <2>1, NoCallStep
    <1>11. ASSUME NEW r \in Request, NeverStarted(r) PROVE Goal
        <2>1. /\ req'[r].pc = "lost"
              /\ sends' = sends
              /\ \A s \in Request \ {r} : req'[s] = req[s]
            BY <1>11, <1>h, <1>t DEF NeverStarted, Gone, TypeOK, Handler
        <2> QED
            BY <2>1, NoCallStep
    <1>12. ASSUME NEW r \in Request, OpenStream(r) PROVE Goal
        <2>1. /\ req'[r].pc = "ready"
              /\ sends' = sends
              /\ \A s \in Request \ {r} : req'[s] = req[s]
            BY <1>12, <1>h, <1>t DEF OpenStream, TypeOK, Handler
        <2> QED
            BY <2>1, NoCallStep
    <1>13. ASSUME NEW r \in Request, StartStream(r) PROVE Goal
        <2>1. /\ req'[r].pc = "streaming"
              /\ sends' = sends
              /\ \A s \in Request \ {r} : req'[s] = req[s]
            BY <1>13, <1>h, <1>t DEF StartStream, TypeOK, Handler
        <2> QED
            BY <2>1, NoCallStep
    <1>14. ASSUME NEW r \in Request, Chunk(r) PROVE Goal
        <2>1. /\ req'[r].pc = "yielded"
              /\ sends' = sends
              /\ \A s \in Request \ {r} : req'[s] = req[s]
            BY <1>14, <1>h, <1>t DEF Chunk, TypeOK, Handler
        <2> QED
            BY <2>1, NoCallStep
    <1>15. ASSUME NEW r \in Request, StreamEnds(r) PROVE Goal
        <2>1. /\ req'[r].pc \in {"parting", "closing"}
              /\ sends' = sends
              /\ \A s \in Request \ {r} : req'[s] = req[s]
            BY <1>15, <1>h, <1>t DEF StreamEnds, TypeOK, Handler
        <2> QED
            BY <2>1, NoCallStep
    <1>16. ASSUME NEW r \in Request, StreamBreaks(r) PROVE Goal
        <2>1. /\ req'[r].pc = "parting"
              /\ sends' = sends
              /\ \A s \in Request \ {r} : req'[s] = req[s]
            BY <1>16, <1>h, <1>t DEF StreamBreaks, TypeOK, Handler
        <2> QED
            BY <2>1, NoCallStep
    <1>17. ASSUME NEW r \in Request, ClientGone(r) PROVE Goal
        <2>1. /\ req'[r].pc = "closing"
              /\ sends' = sends
              /\ \A s \in Request \ {r} : req'[s] = req[s]
            BY <1>17, <1>h, <1>t DEF ClientGone, TypeOK, Handler
        <2> QED
            BY <2>1, NoCallStep
    <1>23. ASSUME NEW r \in Request, TimeUp(r) PROVE Goal
        <2>1. /\ req'[r].pc \in {"streaming", "yielded"}
              /\ sends' = sends
              /\ \A s \in Request \ {r} : req'[s] = req[s]
            BY <1>23, <1>h, <1>t DEF TimeUp, TypeOK, Handler
        <2> QED
            BY <2>1, NoCallStep
    <1>24. ASSUME NEW r \in Request, Resume(r) PROVE Goal
        <2>1. /\ req'[r].pc = "streaming"
              /\ sends' = sends
              /\ \A s \in Request \ {r} : req'[s] = req[s]
            BY <1>24, <1>h, <1>t DEF Resume, TypeOK, Handler
        <2> QED
            BY <2>1, NoCallStep
    <1>25. ASSUME NEW r \in Request, OverBudget(r) PROVE Goal
        <2>1. /\ req'[r].pc = "parting"
              /\ sends' = sends
              /\ \A s \in Request \ {r} : req'[s] = req[s]
            BY <1>25, <1>h, <1>t DEF OverBudget, TypeOK, Handler
        <2> QED
            BY <2>1, NoCallStep
    <1>26. ASSUME NEW r \in Request, Part(r) PROVE Goal
        <2>1. /\ req'[r].pc = "closing"
              /\ sends' = sends
              /\ \A s \in Request \ {r} : req'[s] = req[s]
            BY <1>26, <1>h, <1>t DEF Part, TypeOK, Handler
        <2> QED
            BY <2>1, NoCallStep
    <1>18. ASSUME NEW r \in Request, Answer(r) PROVE Goal
        <2>0. PICK n \in 0..MaxChunks :
                 Finalize(r, [req[r] EXCEPT !.produced = n, !.usage = Promptly + n],
                          req[r].kind = "sync")
            BY <1>18 DEF Answer
        <2>b. Promptly + n \in Nat
            BY DEF Promptly
        <2>a. [req[r] EXCEPT !.produced = n, !.usage = Promptly + n] \in Handler
            BY <1>h, <2>b, HandlerUpdate, Zenon
        <2>1. /\ req'[r].pc = "done"
              /\ \A s \in Request \ {r} : req'[s] = req[s]
            BY <1>t, <2>0, <2>a, FinalizeEnds
        <2>2. sends' = sends
            BY <1>18 DEF Answer
        <2> QED
            BY <2>1, <2>2, NoCallStep
    <1>19. ASSUME NEW r \in Request, CloseStream(r) PROVE Goal
        <2>0. Finalize(r, Settlement(req[r]), TRUE) /\ sends' = sends
            BY <1>19 DEF CloseStream
        <2>a. Settlement(req[r]) \in Handler
            BY <1>h, SettlementTyped
        <2>1. /\ req'[r].pc = "done"
              /\ \A s \in Request \ {r} : req'[s] = req[s]
            BY <1>t, <2>0, <2>a, FinalizeEnds
        <2> QED
            BY <2>0, <2>1, NoCallStep
    <1>20. ASSUME NEW r \in Request, GrowQuiet(r) PROVE Goal
        BY <1>20 DEF GrowQuiet, BudgetInv, Budget
    <1>21. ASSUME Tick \/ Sweep \/ ClearCooldown \/ UNCHANGED vars PROVE Goal
        BY <1>21 DEF Tick, Sweep, ClearCooldown, vars, BudgetInv, Budget
    <1>22. Goal
        BY <1>1, <1>2, <1>3, <1>4, <1>5, <1>6, <1>7, <1>8, <1>9, <1>10, <1>11,
           <1>12, <1>13, <1>14, <1>15, <1>16, <1>17, <1>18, <1>19, <1>20, <1>21,
           <1>23, <1>24, <1>25, <1>26
        DEF Next, Handle, Upstream, Client
    <1> QED
        BY <1>t, <1>22 DEF BudgetInv

\* No call costs the upstreams more than gateway.max_retries + 1 requests or
\* is sent to one channel twice, for any settings, any number of channels
\* and any other calls going on.
THEOREM BudgetCorrect == Spec => []SendBudget
    <1>1. Init => BudgetInv
        <2>1. Init => TypeOK
            BY TypeInit
        <2>2. ASSUME Init, NEW r \in Request PROVE Budget(r)
            <3>1. sends[r] = <<>> /\ req[r].pc = "idle" /\ req[r].tries = 0
                BY <2>2 DEF Init, NewHandler
            <3>2. Len(<<>>) = 0
                OBVIOUS
            <3> QED
                BY <3>1, <3>2, RelayAssumption DEF Budget, Distinct
        <2> QED
            BY <2>1, <2>2 DEF BudgetInv
    <1>2. BudgetInv /\ [Next]_vars => BudgetInv'
        BY BudgetStep
    <1>3. BudgetInv => SendBudget
        <2> SUFFICES ASSUME BudgetInv, NEW r \in Request
                     PROVE  /\ Len(sends[r]) <= MaxRetries + 1
                            /\ \A i, j \in DOMAIN sends[r] :
                                  i # j => sends[r][i] # sends[r][j]
            BY DEF SendBudget
        <2>1. sends[r] \in Seq(Channel) /\ Distinct(sends[r])
              /\ Len(sends[r]) <= MaxRetries + 1
            BY DEF BudgetInv, Budget, TypeOK
        <2>2. DOMAIN sends[r] = 1..Len(sends[r])
            BY <2>1
        <2> QED
            BY <2>1, <2>2 DEF Distinct
    <1> QED
        BY <1>1, <1>2, <1>3, PTL DEF Spec
-----------------------------------------------------------------------------
(***************************************************************************)
(* What a success costs.  However the finally block was reached, it        *)
(* estimates what the upstream of a success did not report, from           *)
(* everything forwarded.                                                   *)
(***************************************************************************)
Pays(r) ==
    (req[r].pc = "done" /\ req[r].status = "ok" /\ ~req[r].saw)
        => log[r][1].tokens = Promptly + req[r].produced

PaysInv == SessionInv /\ \A r \in Request : Pays(r)

LEMMA PaysOther ==
    ASSUME PaysInv, NEW r \in Request, Pays(r)',
           \A s \in Request \ {r} : req'[s] = req[s] /\ log'[s] = log[s]
    PROVE  \A s \in Request : Pays(s)'
    BY DEF PaysInv, Pays

LEMMA GiveUpPays ==
    ASSUME PaysInv, NEW r \in Request, NEW tries, GiveUp(r, tries)
    PROVE  \A s \in Request : Pays(s)'
    <1>1. req \in [Request -> Handler] /\ DOMAIN log = Request
        BY DEF PaysInv, SessionInv, TypeOK
    <1>2. req'[r].status = "error"
        BY <1>1 DEF GiveUp, Gone, Handler
    <1>3. Pays(r)'
        BY <1>2 DEF Pays
    <1>4. \A s \in Request \ {r} : req'[s] = req[s] /\ log'[s] = log[s]
        BY <1>1 DEF GiveUp, RecordSoon
    <1> QED
        BY <1>3, <1>4, PaysOther

LEMMA FinalizePays ==
    ASSUME PaysInv, NEW r \in Request, NEW h \in Handler, NEW charge, ~h.metered,
           req[r].pc # "done", Finalize(r, h, charge),
           h.status = "ok" /\ ~h.saw => h.usage = Promptly + h.produced
    PROVE  \A s \in Request : Pays(s)'
    <1> DEFINE entry == [status |-> h.status, tokens |-> h.usage, attempts |-> h.tries]
               gone  == [Gone(h, "done") EXCEPT !.metered = TRUE]
    <1>1. /\ req' = [req EXCEPT ![r] = gone]
          /\ log' = [log EXCEPT ![r] = Append(@, entry)]
        BY DEF Finalize, RecordSoon
    <1>2. /\ gone.pc = "done" /\ gone.status = h.status /\ gone.saw = h.saw
          /\ gone.produced = h.produced
        BY DEF Gone, Handler
    <1>3. entry.tokens = h.usage
        OBVIOUS
    <1>4. log[r] = <<>> /\ req \in [Request -> Handler] /\ DOMAIN log = Request
        BY DEF PaysInv, SessionInv, Settled, TypeOK
    <1> HIDE DEF entry, gone
    <1>5. /\ req'[r] = gone /\ log'[r] = <<entry>>
          /\ \A s \in Request \ {r} : req'[s] = req[s] /\ log'[s] = log[s]
        BY <1>1, <1>4
    <1>6. Pays(r)'
        BY <1>2, <1>3, <1>5 DEF Pays
    <1> QED
        BY <1>5, <1>6, PaysOther

LEMMA PaysStep ==
    ASSUME PaysInv, [Next]_vars
    PROVE  PaysInv'
    <1> DEFINE Goal == \A s \in Request : Pays(s)'
    <1>t. SessionInv /\ SessionInv' /\ TypeOK
        BY SessionStep DEF PaysInv, SessionInv
    <1>h. \A r \in Request : /\ req[r] \in Handler
                             /\ req[r].pc # "done" => ~req[r].metered
        BY <1>t DEF SessionInv, TypeOK, Settled
    <1>1. ASSUME NEW r \in Request,
                 \/ Arrive(r) \/ Plan(r) \/ Send(r) \/ UpstreamFails(r) \/ OpenStream(r)
                 \/ Blunder(r) \/ Crash(r) \/ StartStream(r) \/ NeverStarted(r) \/ Chunk(r)
                 \/ TimeUp(r) \/ Resume(r) \/ OverBudget(r) \/ Part(r) \/ StreamEnds(r)
                 \/ StreamBreaks(r) \/ ClientGone(r)
          PROVE  Goal
        <2>1. req'[r].pc # "done"
            <3>1. CASE Arrive(r)
                BY <1>h, <1>t, <3>1 DEF Arrive, TypeOK, Handler
            <3>2. CASE Plan(r)
                BY <1>h, <1>t, <3>2 DEF Plan, TypeOK, Handler
            <3>3. CASE Send(r)
                BY <1>h, <1>t, <3>3 DEF Send, TypeOK, Handler
            <3>4. CASE UpstreamFails(r)
                BY <1>h, <1>t, <3>4 DEF UpstreamFails, TypeOK, Handler
            <3>5. CASE OpenStream(r)
                BY <1>h, <1>t, <3>5 DEF OpenStream, TypeOK, Handler
            <3>6. CASE Blunder(r)
                BY <1>h, <1>t, <3>6 DEF Blunder, Gone, TypeOK, Handler
            <3>7. CASE Crash(r)
                BY <1>h, <1>t, <3>7 DEF Crash, Gone, TypeOK, Handler
            <3>8. CASE StartStream(r)
                BY <1>h, <1>t, <3>8 DEF StartStream, TypeOK, Handler
            <3>9. CASE NeverStarted(r)
                BY <1>h, <1>t, <3>9 DEF NeverStarted, Gone, TypeOK, Handler
            <3>10. CASE Chunk(r)
                BY <1>h, <1>t, <3>10 DEF Chunk, TypeOK, Handler
            <3>11. CASE TimeUp(r)
                BY <1>h, <1>t, <3>11 DEF TimeUp, TypeOK, Handler
            <3>12. CASE Resume(r)
                BY <1>h, <1>t, <3>12 DEF Resume, TypeOK, Handler
            <3>13. CASE OverBudget(r)
                BY <1>h, <1>t, <3>13 DEF OverBudget, TypeOK, Handler
            <3>14. CASE Part(r)
                BY <1>h, <1>t, <3>14 DEF Part, TypeOK, Handler
            <3>15. CASE StreamEnds(r)
                BY <1>h, <1>t, <3>15 DEF StreamEnds, TypeOK, Handler
            <3>16. CASE StreamBreaks(r)
                BY <1>h, <1>t, <3>16 DEF StreamBreaks, TypeOK, Handler
            <3>17. CASE ClientGone(r)
                BY <1>h, <1>t, <3>17 DEF ClientGone, TypeOK, Handler
            <3> QED
                BY <1>1, <3>1, <3>2, <3>3, <3>4, <3>5, <3>6, <3>7, <3>8, <3>9,
                   <3>10, <3>11, <3>12, <3>13, <3>14, <3>15, <3>16, <3>17
        <2>2. log' = log /\ \A s \in Request \ {r} : req'[s] = req[s]
            BY <1>1, <1>t DEF Arrive, Plan, Send, UpstreamFails, OpenStream, Blunder, Crash,
                   StartStream, NeverStarted, Chunk, TimeUp, Resume, OverBudget, Part,
                   StreamEnds, StreamBreaks, ClientGone, TypeOK, ledger
        <2>3. Pays(r)'
            BY <2>1 DEF Pays
        <2> QED
            BY <2>2, <2>3, PaysOther
    <1>2. ASSUME NEW r \in Request, PlanEmpty(r) \/ Exhaust(r) \/ Fail(r) \/ MediaRefuse(r)
          PROVE  Goal
        BY <1>2, GiveUpPays DEF PlanEmpty, Exhaust, Fail, MediaRefuse
    <1>3. ASSUME NEW r \in Request, Answer(r) PROVE Goal
        <2>1. PICK n \in 0..MaxChunks :
                 Finalize(r, [req[r] EXCEPT !.produced = n, !.usage = Promptly + n],
                          req[r].kind = "sync")
            BY <1>3 DEF Answer
        <2> DEFINE h == [req[r] EXCEPT !.produced = n, !.usage = Promptly + n]
        <2>2. Promptly + n \in Nat
            BY DEF Promptly
        <2>3. h \in Handler
            BY <1>h, <2>2, HandlerUpdate, Zenon
        <2>4. req[r].pc = "sending"
            BY <1>3 DEF Answer
        <2>5. ~h.metered /\ h.usage = Promptly + h.produced
            BY <1>h, <2>4 DEF Handler
        <2>6. Finalize(r, h, req[r].kind = "sync")
            BY <2>1
        <2> HIDE DEF h
        <2> QED
            BY <2>3, <2>4, <2>5, <2>6, FinalizePays
    <1>4. ASSUME NEW r \in Request, CloseStream(r) PROVE Goal
        <2> DEFINE h == Settlement(req[r])
        <2>1. /\ h \in Handler /\ h.metered = req[r].metered
              /\ h.status = req[r].status /\ h.saw = req[r].saw
              /\ h.produced = req[r].produced
              /\ req[r].status = "ok" /\ ~req[r].saw =>
                    h.usage = Promptly + req[r].produced
            BY <1>h, SettlementTyped
        <2>2. req[r].pc = "closing" /\ Finalize(r, h, TRUE)
            BY <1>4 DEF CloseStream
        <2>3. ~h.metered
            BY <1>h, <2>1, <2>2
        <2>4. h.status = "ok" /\ ~h.saw => h.usage = Promptly + h.produced
            BY <2>1
        <2> HIDE DEF h
        <2> QED
            BY <2>1, <2>2, <2>3, <2>4, FinalizePays
    <1>7. ASSUME NEW r \in Request, GrowQuiet(r) PROVE Goal
        BY <1>7 DEF GrowQuiet, PaysInv, Pays, ledger
    <1>8. CASE Tick \/ Sweep \/ ClearCooldown \/ UNCHANGED vars
        <2>1. UNCHANGED <<req, log>>
            BY <1>8 DEF Tick, Sweep, ClearCooldown, vars, ledger
        <2>2. Goal
            BY <2>1 DEF PaysInv, Pays
        <2> QED
            BY <1>t, <2>2 DEF PaysInv
    <1> QED
        BY <1>t, <1>1, <1>2, <1>3, <1>4, <1>7, <1>8
        DEF Next, Handle, Upstream, Client, PaysInv

\* A success whose usage the upstream did not report is billed for its prompt
\* and for every chunk forwarded (iter_chunks, complete, finalize).
THEOREM SuccessPays == Spec => []SuccessPaysInFull
    <1>1. Init => PaysInv
        <2>1. Init => \A r \in Request : Pays(r)
            BY DEF Init, Pays, NewHandler
        <2> QED
            BY <2>1, SessionInit DEF PaysInv
    <1>2. PaysInv /\ [Next]_vars => PaysInv'
        BY PaysStep
    <1>3. PaysInv => SuccessPaysInFull
        BY DEF PaysInv, Pays, SuccessPaysInFull
    <1> QED
        BY <1>1, <1>2, <1>3, PTL DEF Spec
=============================================================================
