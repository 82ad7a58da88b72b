-------------------------------- MODULE Relay --------------------------------
(***************************************************************************)
(* One API call through the gateway, from the handler that has passed the  *)
(* admission checks to the settlement of its usage (proxy.py), together    *)
(* with the two pieces of shared in-memory state that every call touches:  *)
(* the channel health kept by the router (services/routing.py) and the     *)
(* table of live sessions (services/live.py).                              *)
(*                                                                         *)
(* The gateway is one asyncio event loop.  A handler runs undisturbed from *)
(* one await to the next, so each action below is the code between two     *)
(* awaits, and the pc of a request names the await it is suspended at.     *)
(***************************************************************************)
EXTENDS Integers, Sequences, FiniteSets, Functions

CONSTANTS
    Request,      \* the calls made in a behaviour
    Channel,      \* the configured channels able to serve them
    NoChannel,    \* "no channel chosen yet"
    Priority,     \* [Channel -> Nat], a smaller number is tried earlier
    Versatile,    \* the channels with the capabilities a call may prefer
    MaxRetries,   \* gateway.max_retries
    MaxAttempts,  \* routing.max_attempts_channels
    Cooldown,     \* gateway.channel_cooldown_seconds, in clock ticks
    FactorCap,    \* the largest cool-down multiplier (5 in the code)
    MaxChunks     \* model bound: chunks with text an upstream sends on one stream

ASSUME RelayAssumption ==
    /\ IsFiniteSet(Request)
    /\ IsFiniteSet(Channel)
    /\ NoChannel \notin Channel
    /\ Priority \in [Channel -> Nat]
    /\ Versatile \subseteq Channel
    /\ MaxRetries \in Nat
    /\ MaxAttempts \in Nat
    /\ Cooldown \in Nat
    /\ FactorCap \in Nat \ {0}
    /\ MaxChunks \in Nat

VARIABLES
    req,        \* the local variables of each handler (PreparedCall and friends)
    live,       \* LiveRegistry._active: the requests with a live session
    quiet,      \* live sessions that have been silent past the sweep thresholds
    stats,      \* LiveRegistry._total_started / _total_finished / _total_errors
    charged,    \* tokens booked in the rate limiter, per request
    log,        \* usage records handed to UsageService.record_soon, per request
    failures,   \* ChannelHealth.failures, saturated at FactorCap
    cooldown,   \* ticks left until ChannelHealth.cooldown_until
    sends       \* history: the channels called upstream, per request

registry == <<live, quiet, stats>>
ledger   == <<charged, log>>
router   == <<failures, cooldown>>
vars     == <<req, live, quiet, stats, charged, log, failures, cooldown, sends>>

(***************************************************************************)
(* A plain chat call, a streamed chat call, and a media call (speech,      *)
(* transcription, image).  The first two are ChatProxy, the last           *)
(* MediaProxy.                                                             *)
(***************************************************************************)
Kinds == {"sync", "stream", "media"}

\* "lost" is the end of a handler that left without settling its session.
\* A stream waits for the upstream ("streaming"), or is suspended at the yield
\* of a chunk ("yielded") or of the last word, the estimate or an error body
\* ("parting"), until the client takes it.
Phases == {"idle", "planning", "trying", "failing", "sending", "ready",
           "streaming", "yielded", "parting", "closing", "done", "lost"}

Promptly == 1           \* tokens of the prompt; one more per forwarded chunk

Handler == [pc: Phases, kind: Kinds, rest: Seq(Channel), tries: Nat,
            chan: Channel \cup {NoChannel}, open: BOOLEAN,
            produced: 0..MaxChunks, saw: BOOLEAN, usage: Nat,
            late: BOOLEAN, status: {"ok", "error"}, metered: BOOLEAN]

UsageRecord == [status: {"ok", "error"}, tokens: Nat, attempts: Nat]

NewHandler == [pc |-> "idle", kind |-> "sync", rest |-> <<>>, tries |-> 0,
               chan |-> NoChannel, open |-> FALSE,
               produced |-> 0, saw |-> FALSE, usage |-> 0, late |-> FALSE,
               status |-> "ok", metered |-> FALSE]

\* What is left of a handler that is gone: its locals are forgotten, except
\* the outcome and, for the properties, what it forwarded to the client.
Gone(h, pc) == [h EXCEPT !.pc = pc, !.rest = <<>>, !.tries = 0,
                         !.chan = NoChannel, !.usage = 0, !.late = FALSE]

TypeOK ==
    /\ req \in [Request -> Handler]
    /\ live \in SUBSET Request
    /\ quiet \in SUBSET live
    /\ stats \in [started: Nat, finished: Nat, errors: Nat]
    /\ charged \in [Request -> Nat]
    /\ log \in [Request -> Seq(UsageRecord)]
    /\ failures \in [Channel -> 0..FactorCap]
    /\ cooldown \in [Channel -> 0..(Cooldown * FactorCap)]
    /\ sends \in [Request -> Seq(Channel)]

Init ==
    /\ req = [r \in Request |-> NewHandler]
    /\ live = {}
    /\ quiet = {}
    /\ stats = [started |-> 0, finished |-> 0, errors |-> 0]
    /\ charged = [r \in Request |-> 0]
    /\ log = [r \in Request |-> <<>>]
    /\ failures = [c \in Channel |-> 0]
    /\ cooldown = [c \in Channel |-> 0]
    /\ sends = [r \in Request |-> <<>>]
-----------------------------------------------------------------------------
(***************************************************************************)
(* The router: health, and the candidate lists it may return.              *)
(***************************************************************************)
Lesser(a, b) == IF a < b THEN a ELSE b

MarkSuccess(c) ==
    /\ failures' = [failures EXCEPT ![c] = 0]
    /\ cooldown' = [cooldown EXCEPT ![c] = 0]

\* A failure worth a retry also opens the breaker, longer each time.
MarkFailure(c, retryable) ==
    LET n == Lesser(failures[c] + 1, FactorCap)
    IN  /\ failures' = [failures EXCEPT ![c] = n]
        /\ cooldown' = [cooldown EXCEPT ![c] =
                          IF retryable THEN Cooldown * n ELSE @]

\* Several channels whose configuration the adapter refused, in one go.
MarkMisconfigured(C) ==
    /\ failures' = [c \in Channel |-> IF c \in C
                                       THEN Lesser(failures[c] + 1, FactorCap)
                                       ELSE failures[c]]
    /\ UNCHANGED cooldown

Cooling(c) == cooldown[c] > 0

(***************************************************************************)
(* plan: the channels that are not cooling; those with a capability the    *)
(* call prefers come first, then priority decides, then chance (the        *)
(* weights).  The sticky channel, whichever it is, is moved to the front,  *)
(* and the list is cut to the configured number of attempts.               *)
(***************************************************************************)
Plans ==
    LET usable == {c \in Channel : ~Cooling(c)}
        size   == Lesser(Cardinality(usable),
                         IF MaxAttempts > 1 THEN MaxAttempts ELSE 1)
        Before(a, b, P) == IF (a \in P) = (b \in P)
                           THEN Priority[a] <= Priority[b]
                           ELSE a \in P
        Ordered(q, P) ==
            /\ \A i, j \in 1..size : i # j => q[i] # q[j]
            /\ \A i, j \in 2..size : i < j => Before(q[i], q[j], P)
            /\ \A i \in 2..size, c \in usable \ Range(q) : Before(q[i], c, P)
    IN  {q \in [1..size -> usable] : \E P \in {{}, Versatile} : Ordered(q, P)}

\* (mutant) one retry too many
CanRetryOnceMore(h) == h.tries - 1 <= MaxRetries /\ h.rest # <<>>

\* After tries attempts, the candidates left over are the rest of the plan.
CanRetry(h) == h.tries - 1 < MaxRetries /\ h.rest # <<>>
-----------------------------------------------------------------------------
(***************************************************************************)
(* The table of live sessions.  finish pops the session; what comes after  *)
(* a pop, another finish or a late update, finds nothing and does nothing. *)
(***************************************************************************)
LiveStart(r) ==
    /\ live' = live \cup {r}
    /\ stats' = [stats EXCEPT !.started = @ + 1]
    /\ UNCHANGED quiet

\* (mutant) a finish counts although the sweep was first
LiveFinishTwice(r, status) ==
    /\ live' = live \ {r}
    /\ quiet' = quiet \ {r}
    /\ stats' = [stats EXCEPT !.finished = @ + 1,
                              !.errors = @ + IF status = "error" THEN 1 ELSE 0]

LiveFinish(r, status) ==
    /\ live' = live \ {r}
    /\ quiet' = quiet \ {r}
    /\ stats' = IF r \in live
                THEN [stats EXCEPT !.finished = @ + 1,
                                   !.errors = @ + IF status = "error" THEN 1 ELSE 0]
                ELSE stats

LiveActivity(r) ==
    /\ quiet' = quiet \ {r}
    /\ UNCHANGED <<live, stats>>

RecordSoon(r, status, tokens, attempts) ==
    log' = [log EXCEPT ![r] = Append(@, [status |-> status, tokens |-> tokens,
                                         attempts |-> attempts])]
-----------------------------------------------------------------------------
(***************************************************************************)
(* ChatProxy.prepare and MediaProxy.execute.                               *)
(***************************************************************************)

\* What both proxies do on every early way out: finish the session, leave an
\* error record (a chat call estimates its prompt, a media call books nothing).
GiveUp(r, tries) ==
    /\ req' = [req EXCEPT ![r] = [Gone(@, "done") EXCEPT !.status = "error"]]
    /\ LiveFinish(r, "error")
    /\ RecordSoon(r, "error",
                  IF req[r].kind = "media" THEN 0 ELSE Promptly, tries)
    /\ UNCHANGED <<charged, sends>>

\* The call is admitted: a session opens before the channels are read.
Arrive(r) ==
    /\ req[r].pc = "idle"
    /\ \E k \in Kinds : req' = [req EXCEPT ![r] = [@ EXCEPT !.pc = "planning", !.kind = k]]
    /\ LiveStart(r)
    /\ UNCHANGED <<ledger, router, sends>>

\* The channels are read and the router picks the candidates.
Plan(r) ==
    /\ req[r].pc = "planning"
    /\ \E q \in Plans :
          /\ q # <<>>
          /\ req' = [req EXCEPT ![r] = [@ EXCEPT !.pc = "trying", !.rest = q]]
    /\ UNCHANGED <<registry, ledger, router, sends>>

\* No channel at all: the session is finished and an error record written.
PlanEmpty(r) ==
    /\ req[r].pc = "planning"
    /\ Plans = {<<>>}
    /\ GiveUp(r, 0)
    /\ UNCHANGED router

(***************************************************************************)
(* The candidate loop, up to the next upstream call.  The first n          *)
(* candidates fail in adapter_for or build_chat_call: each one is marked   *)
(* and the loop goes on without asking _can_retry.                         *)
(***************************************************************************)
Send(r) ==
    /\ req[r].pc = "trying"
    /\ \E n \in 0..(Len(req[r].rest) - 1) :
          /\ req' = [req EXCEPT ![r] = [@ EXCEPT
                !.pc = "sending",
                !.chan = req[r].rest[n + 1],
                !.rest = SubSeq(req[r].rest, n + 2, Len(req[r].rest)),
                !.tries = req[r].tries + n + 1]]
          /\ sends' = [sends EXCEPT ![r] = Append(@, req[r].rest[n + 1])]
          /\ MarkMisconfigured(Range(SubSeq(req[r].rest, 1, n)))
    /\ UNCHANGED <<registry, ledger>>

\* Every remaining candidate is misconfigured: the loop runs out.
Exhaust(r) ==
    /\ req[r].pc = "trying"
    /\ MarkMisconfigured(Range(req[r].rest))
    /\ GiveUp(r, req[r].tries + Len(req[r].rest))

\* The loop was broken off after the last upstream failure.
Fail(r) ==
    /\ req[r].pc = "failing"
    /\ GiveUp(r, req[r].tries)
    /\ UNCHANGED router

\* A media adapter that refuses the request itself ends the loop at once,
\* with no mark on the channel it was building for.
MediaRefuse(r) ==
    /\ req[r].pc = "trying"
    /\ req[r].kind = "media"
    /\ \E n \in 0..(Len(req[r].rest) - 1) :
          /\ MarkMisconfigured(Range(SubSeq(req[r].rest, 1, n)))
          /\ GiveUp(r, req[r].tries + n + 1)

\* (mutant) an error record for every failed attempt
UpstreamFailsLogged(r) ==
    /\ req[r].pc = "sending"
    /\ \E retryable \in BOOLEAN :
          /\ MarkFailure(req[r].chan, retryable)
          /\ req' = [req EXCEPT ![r].pc = IF retryable /\ CanRetry(req[r])
                                           THEN "trying" ELSE "failing"]
    /\ RecordSoon(r, "error", 0, req[r].tries)
    /\ UNCHANGED <<registry, charged, sends>>

\* The upstream cannot be reached in time, or refuses; retry if allowed.
UpstreamFails(r) ==
    /\ req[r].pc = "sending"
    /\ \E retryable \in BOOLEAN :
          /\ MarkFailure(req[r].chan, retryable)
          /\ req' = [req EXCEPT ![r].pc = IF retryable /\ CanRetry(req[r])
                                           THEN "trying" ELSE "failing"]
    /\ UNCHANGED <<registry, ledger, sends>>

(***************************************************************************)
(* The upstream answers with a success status: the channel is marked good  *)
(* before the body is looked at.  A stream is handed to the response; the  *)
(* generator that will read it has not started yet.                        *)
(***************************************************************************)
OpenStream(r) ==
    /\ req[r].pc = "sending"
    /\ req[r].kind = "stream"
    /\ MarkSuccess(req[r].chan)
    /\ req' = [req EXCEPT ![r] = [@ EXCEPT !.pc = "ready", !.open = TRUE,
                                           !.usage = Promptly]]
    /\ UNCHANGED <<registry, ledger, sends>>

\* finalize: once per prepared call.  Only ChatProxy books the tokens.
Finalize(r, h, charge) ==
    IF h.metered
    THEN /\ req' = [req EXCEPT ![r] = Gone(h, "done")]
         /\ UNCHANGED <<registry, ledger>>
    ELSE /\ req' = [req EXCEPT ![r] = [Gone(h, "done") EXCEPT !.metered = TRUE]]
         /\ charged' = [charged EXCEPT ![r] = @ + IF charge THEN h.usage ELSE 0]
         /\ LiveFinish(r, h.status)
         /\ RecordSoon(r, h.status, h.usage, h.tries)

\* A well-formed body: normalise, take the usage, settle.
Answer(r) ==
    /\ req[r].pc = "sending"
    /\ req[r].kind # "stream"
    /\ MarkSuccess(req[r].chan)
    /\ \E n \in 0..MaxChunks :
          Finalize(r, [req[r] EXCEPT !.produced = n, !.usage = Promptly + n],
                   req[r].kind = "sync")
    /\ UNCHANGED sends

\* The body is not the JSON object it should be (or, on a stream, an error
\* body cannot be read): the exception leaves the handler as it is.
Blunder(r) ==
    /\ req[r].pc = "sending"
    /\ IF req[r].kind = "stream" THEN UNCHANGED router
                                 ELSE MarkSuccess(req[r].chan)
    /\ req' = [req EXCEPT ![r] = Gone(@, "lost")]
    /\ UNCHANGED <<registry, ledger, sends>>

\* Making the request raises what the handler does not catch: whatever a
\* media builder raises besides a RelayError, or an URL httpx rejects.
Crash(r) ==
    /\ req[r].pc = "trying"
    /\ \E n \in 0..(Len(req[r].rest) - 1) :
          MarkMisconfigured(Range(SubSeq(req[r].rest, 1, n)))
    /\ req' = [req EXCEPT ![r] = Gone(@, "lost")]
    /\ UNCHANGED <<registry, ledger, sends>>
-----------------------------------------------------------------------------
(***************************************************************************)
(* iter_chunks, the generator behind a streamed response.                  *)
(***************************************************************************)
StartStream(r) ==
    /\ req[r].pc = "ready"
    /\ req' = [req EXCEPT ![r].pc = "streaming"]
    /\ UNCHANGED <<registry, ledger, router, sends>>

\* The client is gone before the body was ever iterated: closing a
\* generator that has not started runs none of its code.
NeverStarted(r) ==
    /\ req[r].pc = "ready"
    /\ req' = [req EXCEPT ![r] = Gone(@, "lost")]
    /\ UNCHANGED <<registry, ledger, router, sends>>

\* A chunk, with text or without; the upstream may report the usage so far
\* with it.  What the adapter swallows (a ping, a comment) comes to nothing.
Chunk(r) ==
    /\ req[r].pc = "streaming"
    /\ \E text, reports \in BOOLEAN :
          LET n == req[r].produced + IF text THEN 1 ELSE 0
          IN  /\ n <= MaxChunks
              /\ req' = [req EXCEPT ![r] = [@ EXCEPT
                           !.pc = "yielded",
                           !.produced = n,
                           !.saw = req[r].saw \/ reports,
                           !.usage = IF reports THEN Promptly + n
                                                ELSE req[r].usage]]
    /\ LiveActivity(r)
    /\ UNCHANGED <<ledger, router, sends>>

\* gateway.request_timeout has passed since the call came in.
TimeUp(r) ==
    /\ req[r].pc \in {"streaming", "yielded"}
    /\ ~req[r].late
    /\ req' = [req EXCEPT ![r].late = TRUE]
    /\ UNCHANGED <<registry, ledger, router, sends>>

\* (mutant) the total budget is never looked at
ResumeUnbounded(r) ==
    /\ req[r].pc = "yielded"
    /\ req' = [req EXCEPT ![r].pc = "streaming"]
    /\ UNCHANGED <<registry, ledger, router, sends>>

\* The client has taken the chunk, and the budget lasts.
Resume(r) ==
    /\ req[r].pc = "yielded"
    /\ ~req[r].late
    /\ req' = [req EXCEPT ![r].pc = "streaming"]
    /\ UNCHANGED <<registry, ledger, router, sends>>

\* The client has taken the chunk too late: the only place the code looks.
OverBudget(r) ==
    /\ req[r].pc = "yielded"
    /\ req[r].late
    /\ MarkFailure(req[r].chan, TRUE)
    /\ req' = [req EXCEPT ![r] = [@ EXCEPT !.pc = "parting", !.status = "error"]]
    /\ UNCHANGED <<registry, ledger, sends>>

\* The upstream stream ends; without a reported usage it is estimated, and the
\* estimate may be sent as a chunk of its own (gateway.stream_include_usage).
StreamEnds(r) ==
    /\ req[r].pc = "streaming"
    /\ \E last \in {"parting", "closing"} :
          /\ req[r].saw => last = "closing"
          /\ req' = [req EXCEPT ![r] = [@ EXCEPT
                       !.pc = last,
                       !.usage = IF req[r].saw THEN req[r].usage
                                               ELSE Promptly + req[r].produced]]
    /\ UNCHANGED <<registry, ledger, router, sends>>

\* The upstream breaks off, goes silent or reports an error, and the client is
\* told so.  An unexpected exception leaves the channel alone.
StreamBreaks(r) ==
    /\ req[r].pc = "streaming"
    /\ \/ \E retryable \in BOOLEAN : MarkFailure(req[r].chan, retryable)
       \/ UNCHANGED router
    /\ req' = [req EXCEPT ![r] = [@ EXCEPT !.pc = "parting", !.status = "error"]]
    /\ UNCHANGED <<registry, ledger, sends>>

\* The client has taken the last word.
Part(r) ==
    /\ req[r].pc = "parting"
    /\ req' = [req EXCEPT ![r].pc = "closing"]
    /\ UNCHANGED <<registry, ledger, router, sends>>

\* The client goes away while the generator is suspended, at an await or at a
\* yield: its cleanup runs now, or when the abandoned generator is collected.
ClientGone(r) ==
    /\ req[r].pc \in {"streaming", "yielded", "parting"}
    /\ req' = [req EXCEPT ![r] = [@ EXCEPT !.pc = "closing", !.status = "error"]]
    /\ UNCHANGED <<registry, ledger, router, sends>>

\* The usage the finally block settles with: on success, once more an
\* estimate when nothing was reported.
Settlement(h) ==
    [h EXCEPT !.open = FALSE,
              !.usage = IF h.status = "ok" /\ ~h.saw
                        THEN Promptly + h.produced ELSE h.usage]

\* (mutant) the last estimate forgets the prompt
CloseStreamPromptless(r) ==
    /\ req[r].pc = "closing"
    /\ Finalize(r, [Settlement(req[r]) EXCEPT
                      !.usage = IF req[r].saw THEN @ ELSE req[r].produced], TRUE)
    /\ UNCHANGED <<router, sends>>

\* (mutant) the upstream response is left open
CloseStreamOpen(r) ==
    /\ req[r].pc = "closing"
    /\ Finalize(r, [Settlement(req[r]) EXCEPT !.open = TRUE], TRUE)
    /\ UNCHANGED <<router, sends>>

\* The finally block: close the upstream, then settle.
CloseStream(r) ==
    /\ req[r].pc = "closing"
    /\ Finalize(r, Settlement(req[r]), TRUE)
    /\ UNCHANGED <<router, sends>>
-----------------------------------------------------------------------------
(***************************************************************************)
(* The world, and the sweep of the broadcast loop.                         *)
(***************************************************************************)

\* (mutant) the clock runs below zero
TickOn ==
    /\ \E c \in Channel : Cooling(c)
    /\ cooldown' = [c \in Channel |-> cooldown[c] - 1]
    /\ UNCHANGED <<req, registry, ledger, failures, sends>>

\* A cool-down runs out tick by tick.
Tick ==
    /\ \E c \in Channel : Cooling(c)
    /\ cooldown' = [c \in Channel |-> IF Cooling(c) THEN cooldown[c] - 1 ELSE 0]
    /\ UNCHANGED <<req, registry, ledger, failures, sends>>

\* A session has shown no activity, and lived, longer than both thresholds.
GrowQuiet(r) ==
    /\ r \in live \ quiet
    /\ quiet' = quiet \cup {r}
    /\ UNCHANGED <<req, live, stats, ledger, router, sends>>

\* (mutant) a session that never had a chunk is taken to be waiting still
SweepSpoken ==
    LET gone == {r \in quiet : req[r].produced > 0}
    IN  /\ gone # {}
        /\ live' = live \ gone
        /\ quiet' = quiet \ gone
        /\ stats' = [stats EXCEPT !.finished = @ + Cardinality(gone)]
        /\ UNCHANGED <<req, ledger, router, sends>>

\* sweep_stale: every such session is finished as "abandoned".
Sweep ==
    /\ quiet # {}
    /\ live' = live \ quiet
    /\ quiet' = {}
    /\ stats' = [stats EXCEPT !.finished = @ + Cardinality(quiet)]
    /\ UNCHANGED <<req, ledger, router, sends>>

\* The administrator clears the breaker of one channel or of all.
ClearCooldown ==
    /\ \E C \in {{c} : c \in Channel} \cup {Channel} :
          /\ \E c \in C : failures[c] > 0
          /\ failures' = [c \in Channel |-> IF c \in C THEN 0 ELSE failures[c]]
          /\ cooldown' = [c \in Channel |-> IF c \in C THEN 0 ELSE cooldown[c]]
    /\ UNCHANGED <<req, registry, ledger, sends>>

\* The steps the handler of r takes on its own.
Handle(r) ==
    \/ Plan(r) \/ PlanEmpty(r) \/ Send(r) \/ Exhaust(r) \/ Fail(r)
    \/ MediaRefuse(r) \/ Crash(r) \/ StartStream(r) \/ NeverStarted(r)
    \/ CloseStream(r)

\* What it waits for the upstream to do, and the client.
Upstream(r) ==
    \/ UpstreamFails(r) \/ OpenStream(r) \/ Answer(r) \/ Blunder(r)
    \/ Chunk(r) \/ StreamEnds(r) \/ StreamBreaks(r)
Client(r) ==
    \/ Arrive(r) \/ Resume(r) \/ OverBudget(r) \/ Part(r) \/ ClientGone(r)

Next ==
    \/ \E r \in Request :
          Handle(r) \/ Upstream(r) \/ Client(r) \/ TimeUp(r) \/ GrowQuiet(r)
    \/ Tick \/ Sweep \/ ClearCooldown

Spec == Init /\ [][Next]_vars

(***************************************************************************)
(* A handler that waits for nobody goes on; time passes; the broadcast     *)
(* loop wakes up every second or so.  Clients and upstreams owe nothing: a *)
(* yield has no timeout, and the read timeout of an upstream starts anew   *)
(* with every byte, be it a ping that yields no chunk.                     *)
(***************************************************************************)
FairSpec ==
    /\ Spec
    /\ \A r \in Request :
          WF_vars(Handle(r)) /\ WF_vars(TimeUp(r)) /\ WF_vars(GrowQuiet(r))
    /\ WF_vars(Tick)
    /\ WF_vars(Sweep)
-----------------------------------------------------------------------------
(***************************************************************************)
(* Properties.                                                             *)
(***************************************************************************)

\* The console's counters add up: every session that was started is either
\* in the table or was finished exactly once, by its handler or by the
\* sweep, however the two race; and an error is a finished session.
SessionsAddUp ==
    /\ stats.started = Cardinality(live) + stats.finished
    /\ stats.errors <= stats.finished

\* A handler that has come to its end left nothing behind: the session is
\* out of the table, the upstream response is closed, and there is exactly
\* one usage record, bearing the outcome the request ended with.
SettledWhenDone ==
    \A r \in Request : req[r].pc = "done" =>
        /\ r \notin live
        /\ ~req[r].open
        /\ Len(log[r]) = 1
        /\ log[r][1].status = req[r].status

\* No request is metered twice, whatever path it takes: at most one usage
\* record, and the tokens booked in the rate limiter are those of a record.
MeteredOnce ==
    \A r \in Request :
        /\ Len(log[r]) <= 1
        /\ charged[r] > 0 => /\ Len(log[r]) = 1
                             /\ charged[r] = log[r][1].tokens

\* A request costs the upstreams at most gateway.max_retries + 1 calls, never
\* two to one channel, although misconfigured channels are skipped without
\* asking _can_retry and other requests open and close breakers meanwhile.
SendBudget ==
    \A r \in Request :
        /\ Len(sends[r]) <= MaxRetries + 1
        /\ \A i, j \in DOMAIN sends[r] : i # j => sends[r][i] # sends[r][j]

\* A successful request whose upstream reported no usage is billed for its
\* prompt and for all it forwarded, the estimate of the code.
SuccessPaysInFull ==
    \A r \in Request :
        (req[r].pc = "done" /\ req[r].status = "ok" /\ ~req[r].saw)
            => log[r][1].tokens = Promptly + req[r].produced

\* Every handler comes to an end, settled or not, unless one single wait for
\* the upstream or for the client never ends: retries run out, and the chunks
\* of a stream do not come and go for ever, whatever they bear.
HandlerEnds ==
    \A r \in Request :
        \/ (req[r].pc = "planning") ~> (req[r].pc \in {"done", "lost"})
        \/ <>[](req[r].pc = "sending")
        \/ <>[](req[r].pc = "streaming")
        \/ <>[](req[r].pc = "yielded")
        \/ <>[](req[r].pc = "parting")

\* No session stays in the table for ever, not even one whose handler was
\* lost: the sweep gets it.
SessionEnds == \A r \in Request : (r \in live) ~> (r \notin live)

\* main.py and proxy.py say a failed request leaves a usage record too.
FailedRequestLeavesTrace ==
    \A r \in Request :
        req[r].pc \in {"done", "lost"} => Len(log[r]) = 1

\* proxy.py says the limiter is charged with the real usage, not with the
\* estimate: the prompt and every chunk the client was sent.
RealUsageIsCharged ==
    \A r \in Request :
        (req[r].pc = "done" /\ req[r].kind = "stream" /\ ~req[r].saw)
            => charged[r] >= IF req[r].produced > 0
                             THEN Promptly + req[r].produced ELSE 0
=============================================================================
