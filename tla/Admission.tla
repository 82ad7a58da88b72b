------------------------------- MODULE Admission -------------------------------
(***************************************************************************)
(* Rate limits (services/ratelimit.py): sliding windows of requests and of *)
(* tokens, one for the whole gateway and one for each key, how             *)
(* api/gateway.py and the relay use them, and what the console does to     *)
(* them.  A window exists only once something was added to it.             *)
(*                                                                         *)
(* A call reads its key's row across an await; the two checks and the      *)
(* charge that follow have none between them.  Its tokens are charged when *)
(* it ends.                                                                *)
(***************************************************************************)
EXTENDS Integers, Sequences, FiniteSets, FiniteSetsExt, SequencesExt, Functions

CONSTANTS
    Request,    \* calls of clients
    Key,        \* local keys
    Owner,      \* the key a call is made with
    Gateway,    \* the window of the whole gateway
    Limits,     \* pairs of limits that are chosen, 0 for none
    Estimate,   \* tokens a call is thought to take before it is made
    Costs,      \* tokens a call may turn out to have taken
    Window,     \* length of a window in ticks
    End,        \* tick at which the model's clock stops
    MaxNames,   \* windows kept before the empty ones are thrown away
    MaxEdits    \* acts of the console the model allows

ASSUME AdmissionAssumption ==
    /\ IsFiniteSet(Request) /\ Owner \in [Request -> Key] /\ Gateway \notin Key
    /\ Limits \subseteq [rpm : Nat, tpm : Nat]
    /\ Costs \subseteq Nat /\ \E most \in Costs : \A cost \in Costs : cost <= most
    /\ {Estimate, Window, End, MaxNames, MaxEdits} \subseteq Nat

VARIABLES
    now,        \* time.monotonic
    keys,       \* keys with a row
    limit,      \* rpm and tpm of every key, and the settings' global ones
    requests,   \* the request windows
    tokens,     \* the token windows
    resets,     \* keys whose windows an administrator's handler will drop next
    call,       \* what has become of each call
    edits,      \* acts of the console so far
    admitted,   \* (history) admissions, in order
    peak,       \* (history) most calls under way at a time
    cap         \* (history) highest token limit so far, 0 for none

admissionVars ==
    <<now, keys, limit, requests, tokens, resets, call, edits, admitted, peak, cap>>

Names == Key \cup {Gateway}
Event == [at : 0..End, weight : Nat]
Calls == [pc : {"new", "known", "running", "over"}, own : Limits]
Admissions == [request : Request, at : 0..End, rpm : Nat, all : Nat, reset : BOOLEAN]

AdmissionTypes ==
    /\ now \in 0..End
    /\ keys \subseteq Key /\ resets \subseteq Key
    /\ limit \in [Names -> Limits]
    /\ \A w \in {requests, tokens} :
          /\ DOMAIN w \subseteq Names
          /\ \A n \in DOMAIN w : w[n] \in Seq(Event)
    /\ call \in [Request -> Calls]
    /\ edits \in 0..MaxEdits
    /\ admitted \in Seq(Admissions)
    /\ peak \in [Names -> Nat] /\ cap \in [Names -> Nat]

AdmissionInit ==
    /\ now = 0
    /\ keys = Key /\ resets = {}
    /\ limit \in [Names -> Limits]
    /\ requests = <<>> /\ tokens = <<>>
    /\ call = [r \in Request |-> [pc |-> "new", own |-> limit[Owner[r]]]]
    /\ edits = 0
    /\ admitted = <<>>
    /\ peak = [n \in Names |-> 0]
    /\ cap = [n \in Names |-> limit[n].tpm]
-----------------------------------------------------------------------------
(***************************************************************************)
(* SlidingWindowCounter.  Every reader prunes first, so that a prune that  *)
(* only reads leave behind shows nowhere and is left out of the state.     *)
(***************************************************************************)
\* Events are dropped from the left while they are older than the cut-off.
DropOlder(events, cutoff) ==
    LET live == {i \in DOMAIN events : events[i].at >= cutoff}
    IN  IF live = {} THEN <<>> ELSE SubSeq(events, Min(live), Len(events))

\* (mutant) an event is forgotten a tick before its window is over
PruneEarly(events) == DropOlder(events, now - Window + 1)

Prune(events) == DropOlder(events, now - Window)

\* What the first events weigh together, for each number of them.
Sums(events) ==
    LET sum[i \in 0..Len(events)] == IF i = 0 THEN 0 ELSE sum[i - 1] + events[i].weight
    IN  sum

Weight(events) == Sums(events)[Len(events)]

Total(windows, n) == IF n \notin DOMAIN windows THEN 0 ELSE Weight(Prune(windows[n]))

EvictStale(windows) ==
    Restrict(windows, {n \in DOMAIN windows : Prune(windows[n]) # <<>>})

Add(windows, n, weight) ==
    LET old == IF n \in DOMAIN windows THEN Prune(windows[n]) ELSE <<>>
        new == [m \in DOMAIN windows \cup {n} |->
                  IF m = n THEN Append(old, [at |-> now, weight |-> weight])
                           ELSE windows[m]]
    IN  IF Cardinality(DOMAIN new) > MaxNames THEN EvictStale(new) ELSE new

Dropped(windows, k) == Restrict(windows, DOMAIN windows \ {k})
-----------------------------------------------------------------------------
(***************************************************************************)
(* A call, from its authentication to the charge at its end.               *)
(***************************************************************************)
At(r, pc) == call[r].pc = pc
Counted(n) == {r \in Request : n \in {Gateway, Owner[r]}}
Fits(windows, n, adding, top) == top > 0 => Total(windows, n) + adding <= top

\* The row's limits are copied; the session is closed before they are used.
Authenticate(r) ==
    /\ At(r, "new") /\ Owner[r] \in keys
    /\ call' = [call EXCEPT ![r] = [pc |-> "known", own |-> limit[Owner[r]]]]
    /\ UNCHANGED <<now, keys, edits, limit, requests, tokens, resets, admitted, peak, cap>>

\* (mutant) a key's own token limit stands for the gateway's
FitOwnFirst(r) ==
    /\ Fits(requests, Gateway, 1, limit[Gateway].rpm)
    /\ Fits(requests, Owner[r], 1, call[r].own.rpm)
    /\ IF call[r].own.tpm > 0 THEN Fits(tokens, Owner[r], Estimate, call[r].own.tpm)
                              ELSE Fits(tokens, Gateway, Estimate, limit[Gateway].tpm)

Fit(r) ==
    /\ Fits(requests, Gateway, 1, limit[Gateway].rpm)
    /\ Fits(requests, Owner[r], 1, call[r].own.rpm)
    /\ Fits(tokens, Gateway, Estimate, limit[Gateway].tpm)
    /\ Fits(tokens, Owner[r], Estimate, call[r].own.tpm)

ChargeRequest(k) == requests' = Add(Add(requests, Gateway, 1), k, 1)

Admit(r) ==
    /\ At(r, "known") /\ Fit(r)
    /\ ChargeRequest(Owner[r])
    /\ call' = [call EXCEPT ![r].pc = "running"]
    /\ admitted' = Append(admitted,
          [request |-> r, at |-> now, rpm |-> call[r].own.rpm,
           all |-> limit[Gateway].rpm, reset |-> FALSE])
    /\ peak' = [n \in Names |->
          LET under == Cardinality({q \in Counted(n) : At(q, "running") \/ q = r})
          IN  IF under > peak[n] THEN under ELSE peak[n]]
    /\ UNCHANGED <<now, keys, edits, limit, tokens, resets, cap>>

\* Over a limit: a refusal costs nothing.
Refuse(r) ==
    /\ At(r, "known") /\ ~Fit(r)
    /\ call' = [call EXCEPT ![r].pc = "over"]
    /\ UNCHANGED <<now, keys, edits, limit, requests, tokens, resets, admitted, peak, cap>>

ChargeTokens(k, cost) ==
    tokens' = IF cost = 0 THEN tokens ELSE Add(Add(tokens, Gateway, cost), k, cost)

Settle(r) ==
    /\ At(r, "running")
    /\ \E cost \in Costs : ChargeTokens(Owner[r], cost)
    /\ call' = [call EXCEPT ![r].pc = "over"]
    /\ UNCHANGED <<now, keys, edits, limit, requests, resets, admitted, peak, cap>>
-----------------------------------------------------------------------------
(***************************************************************************)
(* The console, and time.  The windows are dropped after the commit.       *)
(***************************************************************************)
Edit == edits < MaxEdits /\ edits' = edits + 1

SetLimits(n) ==
    /\ Edit /\ n \in keys \cup {Gateway}
    /\ \E new \in Limits :
          /\ limit' = [limit EXCEPT ![n] = new]
          /\ cap' = [cap EXCEPT ![n] =
                IF 0 \in {@, new.tpm} THEN 0 ELSE IF new.tpm > @ THEN new.tpm ELSE @]
    /\ UNCHANGED <<now, keys, requests, tokens, resets, call, admitted, peak>>

ResetUsage(k) ==
    /\ Edit /\ k \in keys
    /\ resets' = resets \cup {k}
    /\ UNCHANGED <<now, keys, limit, requests, tokens, call, admitted, peak, cap>>

DeleteKey(k) ==
    /\ Edit /\ k \in keys
    /\ keys' = keys \ {k} /\ resets' = resets \cup {k}
    /\ UNCHANGED <<now, limit, requests, tokens, call, admitted, peak, cap>>

Reset(k) ==
    /\ k \in resets
    /\ resets' = resets \ {k}
    /\ requests' = Dropped(requests, k) /\ tokens' = Dropped(tokens, k)
    /\ admitted' = [i \in DOMAIN admitted |->
          IF Owner[admitted[i].request] = k THEN [admitted[i] EXCEPT !.reset = TRUE]
                                            ELSE admitted[i]]
    /\ UNCHANGED <<now, keys, edits, limit, call, peak, cap>>

Tick ==
    /\ now < End
    /\ now' = now + 1
    /\ UNCHANGED <<keys, edits, limit, requests, tokens, resets, call, admitted, peak, cap>>

AdmissionNext ==
    \/ Tick
    \/ \E r \in Request : Authenticate(r) \/ Admit(r) \/ Refuse(r) \/ Settle(r)
    \/ \E n \in Names : SetLimits(n)
    \/ \E k \in Key : ResetUsage(k) \/ DeleteKey(k) \/ Reset(k)

AdmissionSpec == AdmissionInit /\ [][AdmissionNext]_admissionVars
-----------------------------------------------------------------------------
(***************************************************************************)
(* Properties.                                                             *)
(***************************************************************************)
Recent(i) == {j \in 1..i : admitted[j].at >= admitted[i].at - Window}
SameKey(i, j) == Owner[admitted[i].request] = Owner[admitted[j].request]

\* No stretch of time as long as a window sees more admissions than the limits
\* the last of them was checked against: the gateway's whatever is deleted or
\* reset meanwhile, a key's since its windows were last reset (check_request,
\* charge_request).
RatesHeld ==
    \A i \in DOMAIN admitted :
        /\ admitted[i].all > 0 => Cardinality(Recent(i)) <= admitted[i].all
        /\ admitted[i].rpm > 0 =>
              Cardinality({j \in Recent(i) : SameKey(i, j) /\ ~admitted[j].reset})
                 <= admitted[i].rpm

\* Tokens are checked by estimate and charged at the end, so that a window may
\* hold more than its limit, but by no more than the calls that were under way
\* together can take (check_tokens, charge_tokens).
OvershootBounded ==
    \A n \in Names :
        cap[n] > 0 =>
            \/ Total(tokens, n) = 0
            \/ Total(tokens, n) <= cap[n] - Estimate + peak[n] * Max(Costs)
=============================================================================
