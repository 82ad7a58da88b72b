# ai-relay-station in TLA+

A verification project for the gateway in `src/airelay`: one asyncio process that
relays OpenAI-style calls to upstream channels, meters them, and keeps local
inference services alive. Modules (`*.tla`), TLC configurations (`*.cfg`), proofs
(`*Proofs.tla`, checked by TLAPS) and `PROJECT.json`, which ties every definition to
the lines it models and every property to a mutant it detects.

To run: `tlc -config MCRelayRace.cfg MCRelay`, `tlc -config MCPassage.cfg MCPassage`,
`tlc -config MCStation.cfg MCStation`, `tlapm RelayProofs.tla`, and so on.

## 1. Inventory

| component (src/airelay) | state | operations | hard behaviour | what makes it correct |
| --- | --- | --- | --- | --- |
| relay: `proxy.py` | `PreparedCall`, generator locals | prepare, iter_chunks, finalize, execute | awaits everywhere; clients leave; exceptions; failover | settled once: session, upstream response, record; retry budget |
| router: `services/routing.py` | health per channel, sticky map | plan, mark_success, mark_failure, clear_cooldown | results of old calls arrive late; plans go stale | a plan is distinct usable channels in order; a breaker opens and closes |
| live table: `services/live.py` | active, recent, counters | start, note_activity, finish, sweep_stale, publish | sweep against handler | counters add up; no session stays for ever |
| supervisor: `services/supervisor.py` | units, channel states, one lock | start, stop, restart, check_now, autostart, watch loop, stop_all | tasks that probe, kill and spawn across awaits; processes that outlive their launcher | one copy per command; no lost process; a dead service comes back |
| ledger: `services/usage.py` | pending tasks, SQL rows | record_soon, record, drain | retries, shutdown with records in flight | every record once, sums exact |
| admission: `services/ratelimit.py`, `api/gateway.py`, `api/deps.py` | sliding windows | check, charge, evict, reset | check and charge are far apart | windows never exceeded for requests; bounded overshoot for tokens |
| keys: `services/keys.py` | key rows | authenticate, rotate, update, delete, quota | changes during a call | a deleted or disabled key admits nothing new |
| channels: `services/channels.py` | channel rows | CRUD, model patterns, capabilities, mark_success, mark_failure | rows change under calls and listings | what is listed can be had |
| mapping: `services/mapping.py`, `api/gateway.py` | alias rows, cache | create, update, delete, import, refresh, resolve; list_models | commit, read back and replace are apart; administrators cross | an edit is in force when it returns |
| settings: `settings.py` | rows, overrides, cache | load, update, reset, reload | cache before commit; values one by one | cache and rows agree |
| context, host: `context.py`, `host.py`, `__main__.py` | tasks, server thread, pending restart | startup, shutdown, start, stop, rebind | threads and event loop; stop during start | stops when told; the last rebind wins |
| adapters: `adapters/*` | stream decoder state, the shared messages | build, normalise, iter_stream | chunk boundaries, tool calls in pieces, an adapter that changes what the next one reads | nothing is lost; a stream adds up to the answer |
| admin API, web socket, console, desktop, db, security | rows, windows | CRUD; `ws.py` sends whole snapshots on a timer and never reads the subscriber queues of `live.py` | - | left to the services above |

Interaction: a handler goes through admission, then the relay (`Arrive`); the relay
asks the router for a plan and tells it every outcome; it opens and closes a session
in the live table, which the broadcast loop sweeps; it calls upstreams through the
adapter of the channel; at its end it charges the limiter and hands a record to the
ledger. The mapping gives its model a meaning before the plan. A changed port makes the
settings' listener rebind the host, which shuts the application down and starts it again. The supervisor and the relay meet only at the port
of a local service. The handlers, the loops and the supervisor's tasks run in one
event loop: between two awaits nothing else runs, and across one anything may.

`PROJECT.json` lists the hazards found in this reading, each at its line with the
properties that catch it or the reason none does yet.

## 2. Plan

1. `Relay`: relay, router, live table; `RelayProofs`. Done.
2. `Supervisor`, `SupervisorProofs`: done for one unit and the stop strategy `auto`.
3. `Ledger`, `Account`, the abstract specification it implements, `LedgerProofs`. Done.
4. `Admission`: request and token windows with calls in flight. Done.
5. `Catalog`: alias table and cache, channel rows, candidates, list of models. Done.
6. `Requests`, `Replies`, `Media`: the adapters as operators; `Exchange`: a request and
   its answer on their way through them. Done. `Passage` composes 4 to 6.
7. `Station`: settings, host thread, main thread. Done.
8. `AccessProofs`, `StationProofs`, `RequestProofs`, `PassageProofs`; `Basics` holds
   the facts about numbers and lists they share. Done: every safety invariant that a
   passing run checks is a theorem (section 8).
9. Shutdown of the supervisor: `stop_all` beside a watch loop and a start-up pass that
   have not been told yet; the other stop strategies. To do.

Runs are limited to a handful per module, each with its own question; bounds are
two to three of everything that can race. Recursion is written as recursive
functions or folds, so that the modules stay provable.

## 3. Relay

`Relay.tla` models `ChatProxy`, `MediaProxy`, the health part of `Router`, and the
table of `LiveRegistry`. `req[r]` is a handler: its `pc` names the await it is
suspended at, the other fields are its locals. An action is the code between two
awaits, every call included: `UpstreamFails` marks the breaker and decides on the
retry, `CloseStream` closes the upstream, charges, finishes the session and records.

| actions | code |
| --- | --- |
| Arrive, Plan, PlanEmpty | `prepare` / `execute` up to the plan |
| Send, Exhaust, Crash, MediaRefuse | the candidate loop up to the upstream call, channels that cannot be built for included |
| UpstreamFails, Fail | errors of the call, retry or give up |
| OpenStream, Answer, Blunder | success; a body that cannot be used |
| StartStream, Chunk, Resume, OverBudget, TimeUp | `iter_chunks`: a chunk is yielded, the client takes it, the total time is looked at |
| StreamEnds, StreamBreaks, Part, ClientGone, CloseStream, NeverStarted | its ends: the last word to the client, the `finally` block |
| GrowQuiet, Sweep | `sweep_stale` from the broadcast loop |
| Tick, ClearCooldown | cool-downs run out, or are cleared |

Abstractions. Tokens: one for the prompt, one per chunk. `Plans` is the set of lists
`plan` may return: chance among equal priorities, an optional preference for capable
channels, any usable channel in front (stickiness). A channel is one the model,
binding and hard capabilities admit. A non-streamed body is read before `http.send`
returns, so `Answer` has no await in it. A chat `prepare` is not cancelled when its
client leaves. A client is not modelled as leaving in the middle of closing the
upstream (httpcore shields that). Persisted channel marks are left out.

Runs.
- `relay_race` (2 calls, 2 channels, 1 retry, cool-down factor 1, 1 chunk):
  every interleaving of two handlers of any kind with the sweep, the clock and the
  administrator. Two of each suffice for any pair of handlers and of channels to
  meet; the growth of a cool-down only makes its breaker stay open for more ticks
  (`relay_ends` has a factor of two).
  `TypeOK`, `SessionsAddUp`, `SettledWhenDone`, `MeteredOnce` hold.
- `relay_ends` (1 call, 3 channels, 3 attempts, 2 chunks): more to fall back on than
  the budget admits. `SendBudget`, `SuccessPaysInFull`, and under fairness
  `HandlerEnds` and `SessionEnds` hold. Fairness is that of the process alone: a
  handler that waits for nobody goes on, time passes, the broadcast loop goes on.
  Upstreams, clients, arrivals and the administrator owe nothing: the suspended `yield`
  of a generator has no timeout, the read timeout starts anew with every byte, also
  with a ping or a comment that yields no chunk (`base.py:712`, `anthropic.py:547`,
  `gemini.py:777`), and `gateway.request_timeout` is looked at only after the client
  has taken a chunk (`proxy.py:339`). `HandlerEnds` therefore says that a handler ends
  *or* stays for ever where it waits for the upstream or for its client, and that it
  does not go round for ever from one chunk to the next: there the total time ends it.
  (`settings.py:91` calls the setting the upper limit of a request from its
  receipt to its end, which it is not for a stream that only pings.) `MaxChunks`
  bounds what is counted of a stream; chunks without text may come without end.
- `relay_trace` is violated: a request can end without a usage record (`Crash`,
  `Blunder`, `NeverStarted`), contrary to `main.py:103` and `proxy.py:524`.
- `relay_charge` is violated: a broken stream without reported usage is charged for
  its prompt alone, contrary to the comment at `proxy.py:454`.

## 4. Supervisor

`Supervisor.tla` models one unit: a start command and the channels that share it.
Other units only make the lock busier. `queue` is the asyncio lock, its head the
holder. `task[t]` is an administrator's call, the start-up pass or the watch loop;
`probe` and `decide` bracket the health check, `kill` and `killed` the stop of the
unit, `spawn` the thread that runs the command. Process trees are slots: `attached`
while the launcher runs, `booting` and `serving` the services in it. A service
started by somebody else is a tree without a handle. A launcher may exit and leave
its services running, as start scripts do.

Time is counted in ticks of about the ten seconds `_launch` waits at least: `fresh`
is what is left of a launch's grace, `wait[c]` of `next_attempt_at`. A probe and a
spawn fit in a tick. The throttle of the watch loop only delays it and is left out.
How long a task waits for the lock is not bounded. Signals reach their processes;
the stop strategy is `auto` without a stop command. A status is never read to decide
anything that `next_attempt_at` does not decide as well, so it is left out.

Runs.
- `sup_shared` (2 channels, 1 administrator, watch loop, 2 slots, threshold 1, at
  most 1 restart): `TypeOK`, `HandleKept`, `LaunchOnce`. Grace, backoff and window are
  one tick, the least that tells "within" from "after". `HandleKept`: no step drops
  the handle of a launcher that runs, but one. The loop looks the unit up before it
  waits for the lock (`supervisor.py:717`); if it finds none, a start that holds the
  lock spawns the command meanwhile, and more than a grace passes before the loop gets
  its turn, it kills nothing and launches a second tree, whose handle replaces the
  first (`BlindLaunch`). The run reaches that step; the property says that it is the
  only way to an orphan.
- `sup_live` (1 channel, start-up pass, no restart limit): `CallsReturn` and
  `Recovers`. Fairness: the event loop resumes tasks, the lock is first come first
  served, the watch loop comes back to a channel, time passes, a booting service
  settles. `Recovers` asks for nothing while disturbances go on for ever (calls,
  deaths, missed probes, failed spawns, a service slower than its grace).
- `sup_copy` is violated: a start launches although its probe found the service
  running, once the unit is known (README.md:454).
- `sup_grace` is violated: the loop decides, waits for the lock, and kills what
  another task has just launched (`supervisor.py:444`).

## 5. Ledger

`Ledger.tla` models what local keys are charged: `require_api_key` and the quota test
of `_authorize`, the record handed to `record_soon`, its tries, the console's edits of
a key, and the end of the gateway. `call[r].pc` follows a call: `checked` is between
the read of the key and the test of its quota on that copy (`spent`), `running` is the
relay, `pending` and `asleep` are a record being written and waiting for its next try,
`stray` is a database thread whose task has been cancelled.

| actions | code |
| --- | --- |
| Authenticate, Reject | `require_api_key`, `KeyService.authenticate` |
| Admit, Refuse | `_authorize`: quota, and whatever else may refuse |
| Settle, EndsSilently | the relay's end, with a record or without one (`relay_trace`) |
| Record, RecordFails, Wake | `record` in one transaction, `_record_safe` |
| Load, Commit | `KeyService.update`, `delete`: read, then write what differs |
| Shutdown, DrainBegins, DrainEnds, DrainTimesOut | `AppContext.shutdown`, `drain` |
| Restarts, StrayEnds | outside the code: a crash or a new start, a thread that gives up |

`Account.tla` is what the ledger promises: a request is entered once, with its price and
its count, and only a reset lowers a balance. `A` in `Ledger` maps its tables to it;
calls, tries, edits under way and the phase are internal.

Abstractions. A price is nothing or one unit, as the properties only add prices. The
row's columns are the four that take part; a new name, note, expiry or secret writes
none of them, and an expired or rotated key is a `Reject`, which may always happen.
The minute buckets (`api_key_stats`) are written with the log row. The retention of the
log is left out: `log` is every row ever written. A transaction of SQLite is atomic and
durable once committed (WAL: of the process, not of the machine). Update reads the row
outside a transaction, so an edit may commit over records written meanwhile; it writes
only columns that differ from what it read.

Runs.
- `ledger_books` (2 calls, 1 key, 1 administrator, limits 0 to 2, 2 tries): `TypeOK`,
  `TotalsMatch`, `QuotaBounded`, `ImplementsAccount` and, when transactions end and
  sleeps are over some day, `EveryRecordSettles`. Two calls are the least that
  overshoot a quota together; a second key would never meet the first one's rows; two
  tries tell the last from the others, as the code's three do. The highest limit is
  the number of calls, so that it can be reached but not by one call.
- `ledger_stop` is violated: `drain` gives up after five seconds, and `shutdown` logs
  all the same that the data are on disk (`context.py:262`).

## 6. Passage

What a call goes through besides the relay. `Admission`, `Catalog` and `Exchange` share
no variable and no step of one reads another's, so their product shows nothing that
each does not show alone: `Passage` begins in a joint initial state, picks one (`part`)
and lets that one move. A request reaches them in the order admission, mapping, plan,
adapter; what one hands to the next (a key's limits, a resolved model, the candidates,
the messages) is an input of the next module.

**`Admission.tla`** models the sliding windows and their users.

| actions | code |
| --- | --- |
| Authenticate | `require_api_key`: the row is copied, the session closed |
| Admit, Refuse | `_authorize`: `check_request`, `check_tokens`, `charge_request`, no await between |
| Settle | `charge_tokens` at the end of the call |
| SetLimits | `KeyService.update`, the global limits of the settings |
| ResetUsage, DeleteKey, Reset | the handlers of `api/admin.py`: commit, then `reset(key)` |
| Tick | `time.monotonic` |

Pruning is part of every read and is otherwise left out of the state; an event exactly
a window old still counts. A window that grows past `MaxNames` throws the empty ones
away. `peak` and `cap` are history: the bound of `OvershootBounded` is what the calls
that were ever under way together may add after their checks.

**`Catalog.tla`** models the alias table with its cache, and the channels' rows.

| actions | code |
| --- | --- |
| OpenCreate, OpenUpdate, OpenDelete, OpenImport | the handlers of the console up to the commit |
| Commit, CommitFails | one transaction; a name taken meanwhile, a row that has gone |
| Select, Fill | `refresh`: the rows are read, then the cache is replaced |
| SaveChannel, DeleteChannel | `ChannelService.create`, `update`, `delete` |

`Resolve`, `Candidates` and `Listing` are `resolve`, the row tests of `Router.plan` and
`list_models`. A glob is the set of the names it matches, and its length. An import with
`replace` deletes row by row, each with a commit and a refresh, so that lookups see
every table in between; the model imports one entry. Carve-outs: two refreshes that
cross may leave the older table in the cache until the next edit, so `LastCommitCached`
says that the last commit *has been* in the cache, and `OwnEditSeen` that an edit is in
force when its refresh is over (which is when its handler returns; an import still
counts its rows). What a crossing refresh puts back after that is not excluded. An alias tied to a channel or a protocol is
listed with what its model can do elsewhere; `ListingTrue` claims nothing of its
candidates.

**`Exchange.tla`** sends a conversation, or a request for media, through the adapters
(`Requests`, `Replies`, `Media` hold their operators).

| actions | code |
| --- | --- |
| SystemSays .. ToolAnswers, Ask | a client that follows OpenAI's API |
| Try | `build_chat_call` of one candidate; MiMo's adapter writes into the shared messages |
| Accept | the upstream answers with a stream |
| MessageStart .. AnthropicEnds | `AnthropicAdapter.iter_stream` under `iter_named_sse` |
| GeminiSends, GeminiEnds | `GeminiAdapter.iter_stream` |
| OpenAISends | `OpenAIAdapter.iter_stream`, which passes chunks through |
| StreamError | an error reported in the stream |
| MediaAsk, MediaAnswered | the media builders and normalisers, `adapters/media.py` |

A text is the sequence of its pieces, each with its place of origin, so that a lost,
doubled or swapped piece shows. A conversation is converted message by message:
`Mergings` and `ContentsTold` hold what has become of the first messages, for every
number of them. `Takings` is what a client makes of the chunks while the
proxy counts them. Lines, events and chunks are read one after the other: `Readings`,
`AnthropicRun` and `Takings` are the recursive functions that hold what is known after
each, and the model uses their last value. `BlocksTold` and `PartsTold` gather a whole
answer in the same way, block by block and part by part. The whole
answer (`normalize_response`) of the same upstream is the reference that the stream is
held against (`StreamAgrees`), and what the client said is the reference for what is
sent (`NothingLost`, for every order in which candidates are tried). Carve-outs: an
upstream stream that is cut off without a stop reason ends as `stop`, as the code cannot
tell, and `StreamAgrees` leaves it out. It names the two points in which stream and
answer differ: a call without input has the arguments `{}` in Anthropic's whole answer
(`anthropic.py:142`) and none in its stream (235, 259), and Gemini's stream hands on
every part of audio (`gemini.py:326`) of which the whole answer keeps the last (209).
`NothingLost` compares all that is said, but of the options only whether a tool is
forced. `LateRefusals`: a request refused after the upstream has worked is paid for and
lost; OpenAI transcripts asked for as `text`, `srt` or `vtt` are, as `_decode_payload`
(`proxy.py:815`) takes the plain text for broken JSON before `normalize_transcription`
(`openai.py:197`), which is ready for it, and the property says that of all answers an
upstream promises they alone are. `UnitsBilled`: the length of an MP3 is guessed from
its size at 128 kbit/s (`media.py:170`; `probe_audio_seconds` says that it estimates), so
that one of a higher rate is billed for too long and one of a lower rate for too short;
a WAV that cannot be read counts as nothing. Observed and left as they are: `tool_choice`
`none` becomes `auto` for Anthropic; Anthropic is sent no audio and no video; Gemini's
`default_voice` is never reached, as an empty name finds the first voice; Gemini is
sent at most five stop sequences; an audio container other than WAV and MP3 is billed as
no seconds.

Run `passage` (`MCPassage.cfg`), 13 properties.
- Admission: 3 calls, 2 of them with one key, limits of 1 or none, a window of 1 tick in
  a clock of 3, one act of the console, 2 windows kept. Two calls of one key and one of
  another are the least that fill a key's window and the gateway's separately; three
  ticks let an event be inside, at the edge of and outside a window; three names against
  `MaxNames` 2 make the eviction happen.
- Catalog: 2 administrators, 3 commits, 4 alias rows (exact, glob, `*` tied to a channel,
  disabled rival of the first), 1 channel with 4 possible rows of 2 protocols. Three
  commits let two edits cross and a third repair.
- Exchange: 4 messages, lists of up to 2 calls with ids that come back, 3 blocks and 4
  pieces. Four messages hold two turns of calls with one answer each or one turn of two
  calls answered in either order; three blocks hold text between two calls.
- `RatesHeld`, `OvershootBounded`; `LastCommitCached`, `OwnEditSeen`, `ListingTrue`;
  `ToolsPaired`, `NothingLost`, `StreamAgrees`, `WellFormed`, `CountsWhole`,
  `LateRefusals`, `UnitsBilled`, and `TypeOK` of all three.
- `Alike` exchanges the two calls of one key, and the two administrators: neither is
  named by a constant, an initial state or a property, and the run has no liveness.
- `CHECK_DEADLOCK FALSE`: every part comes to its bound and stops there.

## 7. Station

`Station.tla` models the desktop process: `SettingsService` with rows, overrides and
cache; `AppHost`, whose thread runs one server after the other; the part of
`AppContext` that loads the settings; the main thread of `desktop/app.py`.

| actions | code |
| --- | --- |
| Open, Refuse, Fault | a `PUT /settings` or a reset, and its failures |
| Look, Get, Put, Commit, Notify | `update`, value by value: old value, row, cache and override; one commit; the listeners |
| Restart | `POST /system/restart`, `AppHost.async_rebind` |
| ReloadReads, ReloadPuts, ReloadCovers | the tray's reload on a loop and thread of its own: the rows are read, cached key by key, the overrides put above them |
| PutCovered | the overrides of a reload between the two assignments of an update |
| TurnBegins, CheckPort, Build, Boot, Bind | one turn of `_supervise_loop`: flags, port, server, start-up, socket |
| BuildFails, BootFails, BindFails | its failures: `_supervise` notes the first, `SystemExit` the last, nobody the start-up that raises |
| DrainBegins, DrainEnds, DrainTimesOut, Closes, PauseEnds | the server leaves, the application is shut down; rebind or end |
| Start, StartReturns | `AppHost.start` from `DesktopApp.run` |
| StopBegins, StopLooks, StopTells, StopStumbles, JoinEnds, JoinTimesOut | `AppHost.stop`: flags, the look at the server object and its use, the join |
| StreamBegins .. PortFreed | clients and other programs |

Two settings stand for all: the port, whose change rebinds, and one that does not. The
host name goes the way of the port. A handler runs in the server's loop and so only
while a server exists; connections that are kept alive may bring requests until the loop
sees `should_exit`. A server that is told to leave while the application starts does not
serve; uvicorn then skips the shutdown of its lifespan, but `asyncio.run` cancels the
lifespan's task, and the `finally` of `main.py:28` closes the application all the same
(`Bind` goes to `closing`).

Run `desk` (2 administrators, ports 1 and 2, the second contested, 2 commands, 4 update
lists: the port alone; two that fail at their second value, the port in the first or
in the second place; both settings back to their defaults).
- `CacheTrue`: what the program reads is what it will read after a restart. Carve-out:
  `unsaved` names the keys that an update has cached and then failed to store, lost to
  the end of a drain, or crossed with another update or a reload; the next load
  clears it. (The statements at src/README.md:286 and 538 do not make this exception.)
- `ServesConfigured`: once calm, the station serves at the configured port. `strayed`
  excludes histories in which the port itself was such a key, or its change was cut
  off before it was announced: nothing then tells the host. `Calm` also excludes a
  start-up that raised: uvicorn's `run()` returns as from any other end, the thread ends
  with no server and an empty `bind_error`, and `start()` has answered True long before
  (`host.py:127`, 142-148).
- `StopEnds`: a stop that is heard ends the thread, or the process is gone first. In the
  window between the look at the flag and the server it builds nobody tells the new
  server (`Heard`). The join of fifteen seconds may be over before the thread is: the
  drain alone may take as long, and the shutdown stops services one by one and waits
  for records after it; the thread, a daemon, then dies with the process
  (`JoinTimesOut`). `stop()` may find the server object cleared between its look and
  its use (`StopStumbles`).

Fairness: the event loop resumes handlers whose await is over, the operating system
schedules the two threads, the fifteen seconds of a drain pass and a shutdown ends. That
the join times out is possible at any time and assumed at none. Administrators,
clients, other programs, the tray and the user who stops the station owe nothing.
Two commands are the least that cross; two administrators the least that send them.

## 8. Proofs

`RelayProofs.tla` proves for every finite set of requests and channels and every
value of the settings (`RelayAssumption`):

| theorem | property |
| --- | --- |
| TypeCorrect | `TypeOK` |
| SessionsCorrect | `SessionsAddUp` |
| SettledCorrect | `SettledWhenDone` |
| MeteredCorrect | `MeteredOnce` |
| BudgetCorrect | `SendBudget` |

`SettledWhenDone` and `MeteredOnce` are not inductive: they say nothing of a handler
half-way. `Settled(r)` says for each phase what is already written and what is still
owed (no record and nothing charged before the end, an open upstream only while
streaming). `SessionInv` is `TypeOK`, `SessionsAddUp` and `Settled` of every request.
`SessionsAddUp` itself needs the finiteness of `live` and that the sweep removes a
subset. `BudgetInv` ties the channels called to the number of attempts and to the
candidates still ahead, which are distinct because a plan is (`PlansAreLists`).

`SupervisorProofs.tla` proves for any channels, administrators and trees and every
value of the settings (`SupervisorAssumption`):

| theorem | property |
| --- | --- |
| TypeCorrect | `TypeOK` |
| LockHolds | `Exclusion`: the guarded code is entered by one task at a time |
| HandleHeld | `HandleKept` |
| GraceKept | `LaunchOnce` |

`LockInv` says that a task is in the lock's queue at most once, that whoever is in it
has a call that needs the lock, and that a task inside the guarded code is the head.
`UnitInv` says what a task may rely on when it launches: at the spawn no grace is left;
there, and after the kill, no launcher runs that has a handle, unless the task is the
watch loop and had found no unit to kill. `HandleHeld` follows: only the launch of a loop
like this (`BlindLaunch`) meets a handle of a launcher that runs.

`LedgerProofs.tla` proves for any keys, administrators and limits, any finite set of
calls and any number of tries (`LedgerAssumption`):

| theorem | property |
| --- | --- |
| TypeCorrect | `TypeOK` |
| Implements | `ImplementsAccount`: initial states and steps map to those of `Account` |
| Totals | `TotalsMatch` |
| QuotaHolds | `QuotaBounded` |

`BaseInv` adds to `TypeOK` that a record that may be tried again has a try left and that
a request in the log is booked; the second is what makes `Record` an `Enter` of a new
request. `QuotaBounded` is not inductive: `QuotaOf(k)` bounds what is used *together
with* the calls whose price is still to come, `used + unsettled < cap + peak`. An
admission adds one to the unsettled calls and, being below the limit, keeps the sum; a
record turns one unsettled call into at most one unit; a crash only takes calls away.

`SuccessPays` proves `SuccessPaysInFull` from `PaysInv`: a stream that is being closed
with a success and without a reported usage has its estimate in place, and `SessionInv`
says that it is this estimate that is recorded.

`AccessProofs.tla` proves of `Admission`, for any finite set of calls, any keys, limits,
window, clock and bounds (`AdmissionAssumption`; what a call may cost has a maximum, as
`Max(Costs)` in the property means nothing otherwise):

| theorem | property |
| --- | --- |
| AdmissionTyped | `AdmissionTypes`, the part of `TypeOK` |
| RatesProved | `RatesHeld` |
| Overshoot | `OvershootBounded` |

`RatesHeld` looks back from each admission, and says nothing of the windows that decide
the next one. `CountInv` does: for every window and every time that is not yet out of
it, the admissions since then are no more than the events since then that the window
holds. A new admission is checked against that window, so the property follows for it,
and for the older ones it does not change. That a window is pruned by everyone who reads
it, and thrown away when empty, takes nothing from it that `CountInv` counts.
`OvershootBounded` is made inductive by counting calls under way as charged at the
highest cost (`LoadInv`), and by `CapInv`: the limits in force, and those that calls
have copied with their key, are no higher than the highest so far, which is only a bound
while there has always been one.

It proves of `Catalog`, for any aliases, globs, tables, channels and administrators
(`CatalogAssumption`):

| theorem | property |
| --- | --- |
| CatalogTyped | `CatalogTypes` |
| EditSeen | `OwnEditSeen` |
| LastCommitSeen | `LastCommitCached` |
| ListingHolds | `ListingTrue` |

`NewestInv` says that while the last commit has not been in the cache some handler
carries it: one that has committed it and is going to read back, or one that has read it
and is going to fill. A handler that commits becomes that one; one that fails commits
nothing. For `ListingTrue` it is enough that whatever is listed comes from a channel that
`Candidates` tests in the same way.

`StationProofs.tla` proves for any values, lists of updates, administrators and initial
tables in which no update names a key twice (`StationAssumption`; a JSON object does
not):

| theorem | property |
| --- | --- |
| TypeCorrect | `TypeOK` |
| CacheCorrect | `CacheTrue` |

`CacheTrue` speaks of moments without updates. `KeyInv` says, for a key that is not marked,
that at most one update is at it (`Apart`), that what such an update has cached is what
its commit is going to store (`Promised`: in the session, or in the row already), that the
row it compares with is still the row (`Compared`), and that without one the cache is
true. `HandlerInv` is what this rests on: handlers live in a server, and what they have
passed was accepted.

`RequestProofs.tla` proves of what `Exchange` sends, for any contents, calls, options and
any number of messages (`ExchangeAssumption`; that assumption also types the requests for
media and their answers, and has the ids in one list of calls distinct):

| theorem | property |
| --- | --- |
| PairsKept | `ToolsPaired` |
| AllSaid | `NothingLost` |

`ToolsPaired` and `NothingLost` compare what is sent with what was said, and a message
changes what is sent in two ways: it adds to the last turn, and it decides what may be
said next. `RequestInv` says of the messages so far that they are a `Conversation`, with
what every adapter makes of them: `GeminiKept` (the names kept by id are those of the
calls that are due, the contents tell what was said and answer under the same names) and
`AnthropicKept` (all turns but the last are `Settled`: they alternate and answer the
calls before them; the last is `LastKept`: either it has just made calls, or its
first blocks answer those of them that are not owed any more). The client's rules keep
it: the user and the assistant speak when nothing is owed, a tool answers a call that is
owed, ids do not repeat in one list. With nothing owed the last turn is settled as
well, and that is `ToolsPaired`. For the candidates that follow one another, the messages
are those asked or those with the formats that MiMo's adapter writes into them, and a
format tells every adapter the same as none (`FormatsMeanSame`).

What an operator makes of a list member by member is reasoned about as a table
(`Images`, `Joined`): the table of a list with one member more is the table and one entry,
and two tables that agree on members agree on lists (`JoinedAlike`). Lists are reached from
the empty one by appending (`ListInduction`: a set that contains the empty list and
with each list the longer ones contains all); there the property of lists is a set and
not an operator, so that it can be cited.

`PassageProofs.tla` proves of what comes back, for any number of pieces and blocks:

| theorem | property |
| --- | --- |
| OnlyTextRefusedLate | `LateRefusals` |
| UnitsCorrect | `UnitsBilled` |
| ChunksWellFormed | `WellFormed` |
| CountedWhole | `CountsWhole` |
| StreamedAsWhole | `StreamAgrees` |
| ExchangeTyped | `ExchangeTypes` |

Of the composition it proves that every behaviour of `Passage` is one of each of its parts
(`PartsBehave`) and that therefore all that is proved of them holds in it
(`PassageCorrect`: `TypeOK`, `RatesHeld`, `OvershootBounded`, `LastCommitCached`,
`ListingTrue`, `WellFormed`, `CountsWhole`, `ToolsPaired`, `NothingLost`,
`StreamAgrees`, `LateRefusals`, `UnitsBilled`, `OwnEditSeen`).

`WellFormed` and `CountsWhole` are about what has been read, and what is read next depends
on the locals of three adapters. `Reads(v, c, roles, n, finish)` describes a client: the
view is sound, with so many roles and calls and this finish, and the counter is that of
the texts in it. `AnthropicInv`, `GeminiInv` and `OpenAIInv` tie it to the adapter: the
role has been said if and only if `ad.role`, the calls are those up to `ad.index`; for
Anthropic also what the upstream has open, so that arguments come only for a call that
has begun, and the line reader has only whole events. `PhasesInv`, `EarlyInv` and
`DoneInv` cover the phases before and after the stream; together they are `StreamInv`.
The lemmas below say what each kind of line, event and chunk does to these.

`StreamAgrees` compares a stream that is over with the whole answer; `AgreeInv` compares
them all along. What the client has read tells what `BlocksTold` or `PartsTold` make of
the blocks and parts so far. `AnthropicAgree` adds that the adapter's counts are those of
the answer (the prompt with its cached part, taken once), and of every block that is a
call that `started` holds its place among the calls: arguments go on arriving for a block
that others have followed, and only this place says where they belong (`BlocksPiece`: one
more piece of a block changes the whole answer at that place, and after the blocks that
follow nothing else). `GeminiAgree` adds that a reason, once given, has been made
`tool_calls` if and only if there were calls; `OpenAIAgree` that a reason read is one.

A recursive definition is the choice of a function that satisfies its equation, and what
holds of all its values is an induction. The library's theorem of induction takes an
operator, which the provers cannot instantiate; `LeastNumber` in `Basics` (from the
well-foundedness of `<` on the naturals) does not. That the function exists is shown by
the least length for which it does not, what holds of its values by the least index at
which it fails: so for the weights of a window (`SumsDef`), the sums of the token counter,
the lines, the events and the chunks, the blocks and the parts, the merged turns and the
contents.

Only model-checked:
- Everything temporal (`HandlerEnds`, `SessionEnds`, `CallsReturn`, `Recovers`,
  `EveryRecordSettles`, `ServesConfigured`, `StopEnds`): fairness is beyond the prover.

## 9. Not modelled

- `stop_all` at shutdown and the stop strategies other than `auto`: in the plan. At
  shutdown the watch loop and the start-up pass have not been told yet, and may launch
  what was just stopped (hazard at `supervisor.py:649`).
- The refresh of balances, the maintenance loop and the reports: nothing but the console
  reads what they write.
- The console's sessions, the web socket's timer, the recent list of the live table: what
  is shown, not what is decided. (The comment at `live.py:357` announces a heartbeat
  every five ticks; the code tests the revision, which stands still while idle.)
- The failure counters persisted in the channels' rows: the breaker that decides is the
  router's.
- `run_blocking`: one server for the life of the process. The doctor, the token commands,
  the desktop window, the tray's menu, logging and migrations: pure I/O.
- Encryption of secrets and the format of keys. URLs, headers, error texts and lists of
  models of the adapters: formatting.
- `system/restart` reports `pending_restart`, which no decision reads.
