-------------------------------- MODULE Station --------------------------------
(***************************************************************************)
(* The desktop station: the settings (settings.py) with their database     *)
(* rows, command-line overrides and cache; the thread that keeps an HTTP   *)
(* server on the configured port (host.py); the part of the application's  *)
(* life that binds the two (context.py); and the main thread, which starts *)
(* the host and stops it (desktop/app.py).                                 *)
(*                                                                         *)
(* The handlers of the console run in the server's own event loop, each    *)
(* action being the code between two awaits; the main thread, the server's *)
(* thread and the tray's reload run beside each other, and are taken apart *)
(* where they touch the same cache or flag.  Two settings stand            *)
(* for all: the port, which asks for a restart, and another, which takes   *)
(* effect when it is read.  The console's start page, logging and the      *)
(* host name, which goes the way of the port, are left out.                *)
(***************************************************************************)
EXTENDS Naturals, Sequences, FiniteSets, Functions

CONSTANTS
    Admin,        \* handlers of the settings page that may run at one time
    Value,        \* what a setting can be; of "port", the ports
    Unset,        \* no row, or no override
    Bad,          \* a value that coerce_value refuses
    Default,      \* [Key -> Value]: the specs' defaults
    Lists,        \* the bodies of PUT /settings and resets: [key, value] in order
    Rows,         \* tables and overrides the process may start with
    Overrides,
    Contested,    \* ports that other programs may take
    MaxCommands   \* model bound: updates that are sent and reloads

Key == {"port", "other"}

ASSUME StationAssumption ==
    /\ Unset \notin Value /\ Bad \notin Value
    /\ Default \in [Key -> Value]
    /\ Rows \cup Overrides \subseteq [Key -> Value \cup {Unset}]
    /\ Contested \subseteq Value
    /\ \A l \in Lists :
          /\ l \in Seq([key : Key, value : Value \cup {Bad}]) /\ l # <<>>
          /\ \A i, j \in DOMAIN l : l[i].key = l[j].key => i = j
    /\ MaxCommands \in Nat

VARIABLES
    row,         \* the settings table
    over,        \* _overrides
    cache,       \* _cache
    upd,         \* [Admin -> the update under way]
    copy,        \* the rows a reload has read
    due,         \* the keys of it that are not in place yet
    bind,        \* AppHost._port
    at,          \* the port in the Config of the server built last
    thread,      \* what the host's thread is at
    exit,        \* server.should_exit
    rebind,      \* _rebind
    stop,        \* _stop
    started,     \* _started
    bindError,   \* _bind_error
    main,        \* what the main thread is at
    taken,       \* ports that other programs hold
    stream,      \* an answer is being streamed to a client that stays
    left,        \* commands that may still come
    unsaved,     \* history: keys cached since the last load by an update that
                 \* failed, was cut off or crossed another
    strayed      \* history: "port" has been among them, or a change of it
                 \* was never announced

settings == <<row, over, cache, upd, copy, due, left, unsaved, strayed>>
host     == <<bind, at, thread, exit, rebind, started, bindError>>
desk     == <<stop, main>>
world    == <<taken, stream>>
vars     == <<settings, host, desk, world>>
-----------------------------------------------------------------------------
Idle == [pc |-> "idle", list |-> <<>>, next |-> 1, old |-> Unset, shadow |-> FALSE,
         had |-> Unset, dirty |-> {}, changed |-> {}]

Update == [pc : {"idle", "look", "get", "put", "notify"}, list : Lists \cup {<<>>},
           next : Nat, old : Value \cup {Unset}, shadow : BOOLEAN,
           had : Value \cup {Unset}, dirty : SUBSET Key, changed : SUBSET Key]

\* load: rows, or defaults where there is none, and overrides above them.
Stored(rows, k) == IF rows[k] # Unset THEN rows[k] ELSE Default[k]
Overridden(values) == [k \in Key |-> IF over[k] # Unset THEN over[k] ELSE values[k]]
Loaded(rows) == Overridden([k \in Key |-> Stored(rows, k)])

\* A server exists: _server is not None.
Server == thread \in {"boot", "bind", "failing", "serving", "draining", "closing"}

\* The thread of the host is not alive any more; "failed" is a start of the
\* application that raised.
Over == thread \in {"ended", "failed"}

\* The process lives; a daemon thread ends with it.
Alive == main # "gone"

Quiet == \A a \in Admin : upd[a] = Idle

StationTypes ==
    /\ row \in [Key -> Value \cup {Unset}] /\ over \in [Key -> Value \cup {Unset}]
    /\ cache \in [Key -> Value] /\ copy \in [Key -> Value \cup {Unset}] \cup {Unset}
    /\ due \subseteq Key
    /\ upd \in [Admin -> Update]
    /\ \A a \in Admin :
        /\ upd[a].next \in 1..Len(upd[a].list) + 1
        /\ upd[a].pc = "idle" <=> upd[a] = Idle
    /\ bind \in Value /\ at \in Value
    /\ thread \in {"none", "head", "check", "build", "boot", "bind", "failing", "serving",
                   "draining", "closing", "pause", "ended", "failed"}
    /\ {exit, rebind, stop, started, bindError, stream, strayed} \subseteq BOOLEAN
    /\ main \in {"new", "waiting", "up", "looking", "telling", "joining", "gone"}
    /\ taken \subseteq Contested /\ left \in 0..MaxCommands /\ unsaved \subseteq Key

\* preload_settings, the overrides of the command line, AppHost(ctx).
Init ==
    /\ row \in Rows /\ over \in Overrides
    /\ cache = Loaded(row)
    /\ upd = [a \in Admin |-> Idle] /\ copy = Unset /\ due = {}
    /\ bind = cache["port"] /\ at = bind
    /\ thread = "none" /\ main = "new"
    /\ exit = FALSE /\ rebind = FALSE /\ stop = FALSE /\ started = FALSE
    /\ bindError = FALSE /\ stream = FALSE /\ strayed = FALSE
    /\ taken = {} /\ left = MaxCommands /\ unsaved = {}
-----------------------------------------------------------------------------
(* Handlers of the settings page. *)

Current(a) == upd[a].list[upd[a].next]
Through(a) == upd[a].next > Len(upd[a].list)

\* What an update that has not committed has cached, and what it has begun on.
Cached(a) == {upd[a].list[i].key : i \in 1..upd[a].next - 1}
Held(a) == IF upd[a].pc = "notify" THEN {}
           ELSE Cached(a) \cup {k \in Key : upd[a].pc \in {"get", "put"} /\ k = Current(a).key}

\* A PUT or a reset arrives.  Connections that are kept alive bring requests
\* until the loop has seen should_exit.
Open(a, l) ==
    /\ Alive /\ thread = "serving" /\ upd[a] = Idle /\ left > 0
    /\ upd' = [upd EXCEPT ![a] = [@ EXCEPT !.pc = "look", !.list = l]]
    /\ left' = left - 1
    /\ UNCHANGED <<row, over, cache, copy, due, unsaved, strayed, host, desk, world>>

\* Nothing of the update is stored and nothing announced; what it has cached stays.
Abandon(a) ==
    /\ upd' = [upd EXCEPT ![a] = Idle]
    /\ unsaved' = unsaved \cup Cached(a)
    /\ strayed' = (strayed \/ "port" \in Cached(a))
    /\ UNCHANGED <<row, over, cache, copy, due, left, host, desk, world>>

\* A value that cannot be coerced refuses the update, wherever it stands in it.
Refuse(a) ==
    /\ Alive /\ upd[a].pc = "look" /\ ~Through(a) /\ Current(a).value = Bad
    /\ Abandon(a)

\* The database refuses to read a row, or to commit.
Fault(a) ==
    /\ Alive
    /\ upd[a].pc = "get" \/ (upd[a].pc = "look" /\ Through(a))
    /\ Abandon(a)

\* The old value and whether an override holds it, before the row is asked for.
\* Two updates of a key cross
\* when the second looks before the first has committed.
Look(a) ==
    /\ Alive /\ upd[a].pc = "look" /\ ~Through(a) /\ Current(a).value # Bad
    /\ LET k == Current(a).key
           crossed == \E b \in Admin \ {a} : k \in Held(b)
       IN /\ upd' = [upd EXCEPT ![a] = [@ EXCEPT !.pc = "get", !.old = cache[k],
                                                   !.shadow = over[k] # Unset]]
          /\ unsaved' = IF crossed THEN unsaved \cup {k} ELSE unsaved
          /\ strayed' = (strayed \/ (crossed /\ k = "port"))
    /\ UNCHANGED <<row, over, cache, copy, due, left, host, desk, world>>

\* session.get reads the row.
Get(a) ==
    /\ Alive /\ upd[a].pc = "get"
    /\ upd' = [upd EXCEPT ![a] = [@ EXCEPT !.pc = "put", !.had = row[Current(a).key]]]
    /\ UNCHANGED <<row, over, cache, copy, due, left, unsaved, strayed, host, desk, world>>

\* The value is in the session, and the update goes on with its next one.  A row
\* that held it already is not written.
Step(a, differs) ==
    LET k == Current(a).key
        u == upd[a]
    IN  upd' = [upd EXCEPT ![a] = [u EXCEPT
                  !.pc = "look", !.next = u.next + 1,
                  !.old = Unset, !.shadow = FALSE, !.had = Unset,
                  !.dirty = u.dirty \cup {d \in {k} : u.had # Current(a).value},
                  !.changed = u.changed \cup {c \in {k} : differs}]]

\* (mutant) the override of the command line keeps its place
PutBelow(a) ==
    /\ Alive /\ upd[a].pc = "put"
    /\ cache' = [cache EXCEPT ![Current(a).key] = Current(a).value]
    /\ Step(a, upd[a].old # Current(a).value)
    /\ UNCHANGED <<row, over, copy, due, left, unsaved, strayed, host, desk, world>>

\* The new value goes into the session and at once into the cache; an
\* override gives way.
Put(a) ==
    /\ Alive /\ upd[a].pc = "put"
    /\ cache' = [cache EXCEPT ![Current(a).key] = Current(a).value]
    /\ over' = [over EXCEPT ![Current(a).key] = Unset]
    /\ Step(a, upd[a].old # Current(a).value \/ upd[a].shadow)
    /\ UNCHANGED <<row, copy, due, left, unsaved, strayed, host, desk, world>>

\* Between its rows and its overrides a reload shows a port that is not the one
\* in force; the host has gone there meanwhile.
Misled == over["port"] # Unset /\ bind # over["port"]

\* A reload puts the overrides above its values: its last step.
Covers ==
    /\ copy # Unset /\ due = {} /\ copy' = Unset
    /\ UNCHANGED due

\* The overrides go into the cache between the two assignments of Put: the
\* value that is being saved is covered by the one that gives way to it.
PutCovered(a) ==
    LET k == Current(a).key
    IN  /\ Alive /\ upd[a].pc = "put" /\ over[k] # Unset
        /\ Covers
        /\ cache' = Overridden([cache EXCEPT ![k] = Current(a).value])
        /\ over' = [over EXCEPT ![k] = Unset]
        /\ Step(a, TRUE)
        /\ unsaved' = unsaved \cup {k}
        /\ strayed' = (strayed \/ k = "port" \/ Misled)
        /\ UNCHANGED <<row, left, host, desk, world>>

\* One transaction for all rows of the update.
Commit(a) ==
    /\ Alive /\ upd[a].pc = "look" /\ Through(a)
    /\ row' = [k \in Key |->
                IF k \in upd[a].dirty
                THEN (CHOOSE c \in Range(upd[a].list) : c.key = k).value
                ELSE row[k]]
    /\ upd' = [upd EXCEPT ![a] = [@ EXCEPT !.pc = "notify"]]
    /\ UNCHANGED <<over, cache, copy, due, left, unsaved, strayed, host, desk, world>>

\* (mutant) the address is taken over, and the server left to itself
RebindsLater ==
    /\ bind' = cache["port"]
    /\ rebind' = (rebind \/ cache["port"] # bind)
    /\ UNCHANGED <<exit, at, thread, started, bindError>>

\* async_rebind: the address is taken over, and the server told to leave.
\* It runs in the server's loop, so there is a server.
Rebinds ==
    /\ bind' = cache["port"]
    /\ IF cache["port"] = bind
       THEN UNCHANGED <<rebind, exit>>
       ELSE rebind' = TRUE /\ exit' = TRUE
    /\ UNCHANGED <<at, thread, started, bindError>>

\* The listeners hear of the changes; a changed port rebinds the host.
Notify(a) ==
    /\ Alive /\ upd[a].pc = "notify"
    /\ IF "port" \in upd[a].changed THEN Rebinds ELSE UNCHANGED host
    /\ upd' = [upd EXCEPT ![a] = Idle]
    /\ UNCHANGED <<row, over, cache, copy, due, left, unsaved, strayed, desk, world>>

\* POST /system/restart: a handler without an await.
Restart ==
    /\ Alive /\ thread = "serving"
    /\ Rebinds
    /\ UNCHANGED <<settings, desk, world>>

\* The tray reads the settings anew, on a loop and a thread of its own, while
\* the application has its database open ...
ReloadReads ==
    /\ Alive /\ (Server \/ thread = "failed")
    /\ copy = Unset /\ left > 0
    /\ copy' = row /\ due' = Key /\ left' = left - 1
    /\ UNCHANGED <<row, over, cache, upd, unsaved, strayed, host, desk, world>>

\* ... puts the rows it has read in place key by key, whatever has come
\* between ...
ReloadPuts(k) ==
    LET behind == copy[k] # row[k] \/ \E a \in Admin : k \in Held(a)
    IN /\ Alive /\ copy # Unset /\ k \in due
       /\ due' = due \ {k}
       /\ cache' = [cache EXCEPT ![k] = Stored(copy, k)]
       /\ unsaved' = IF behind THEN unsaved \cup {k} ELSE unsaved \ {k}
       /\ strayed' = (strayed \/ (k = "port" /\ (behind \/ k \in unsaved)))
       /\ UNCHANGED <<row, over, upd, copy, left, host, desk, world>>

\* ... and the overrides above them.
ReloadCovers ==
    /\ Alive /\ Covers
    /\ cache' = Overridden(cache)
    /\ strayed' = (strayed \/ Misled)
    /\ UNCHANGED <<row, over, upd, left, unsaved, host, desk, world>>
-----------------------------------------------------------------------------
(* The thread of the host. *)

\* (mutant) a rebind goes on although a stop was asked for meanwhile
TurnBeginsAnyway ==
    /\ Alive /\ thread = "head"
    /\ thread' = "check"
    /\ UNCHANGED <<bind, at, exit, rebind, started, bindError, settings, desk, world>>

\* Another turn of the loop, unless a stop was asked for.
TurnBegins ==
    /\ Alive /\ thread = "head"
    /\ thread' = IF stop THEN "ended" ELSE "check"
    /\ UNCHANGED <<bind, at, exit, rebind, started, bindError, settings, desk, world>>

\* _port_available: with the port taken the thread ends, and no server is left.
CheckPort ==
    /\ Alive /\ thread = "check"
    /\ IF bind \in taken
       THEN bindError' = TRUE /\ started' = TRUE /\ thread' = "ended"
       ELSE thread' = "build" /\ UNCHANGED <<bindError, started>>
    /\ UNCHANGED <<bind, at, exit, rebind, settings, desk, world>>

\* The application cannot be assembled: _supervise notes the error.
BuildFails ==
    /\ Alive /\ thread = "build"
    /\ bindError' = TRUE /\ started' = TRUE /\ thread' = "ended"
    /\ UNCHANGED <<bind, at, exit, rebind, settings, desk, world>>

\* A new server for the address of this moment; start() is answered before
\* it has bound its port.
Build ==
    /\ Alive /\ thread = "build"
    /\ at' = bind /\ exit' = FALSE
    /\ bindError' = FALSE /\ started' = TRUE
    /\ thread' = "boot"
    /\ UNCHANGED <<bind, rebind, settings, desk, world>>

\* AppContext.startup loads the settings again.
Loads ==
    /\ cache' = Loaded(row)
    /\ unsaved' = {}
    /\ UNCHANGED <<row, over, upd, copy, due, left, strayed>>

Boot ==
    /\ Alive /\ thread = "boot"
    /\ Loads
    /\ thread' = "bind"
    /\ UNCHANGED <<bind, at, exit, rebind, started, bindError, desk, world>>

\* It raises, before or after the settings are loaded: the server's run()
\* returns as from any other end, and nobody is told, not even start().
BootFails ==
    /\ Alive /\ thread = "boot"
    /\ Loads \/ UNCHANGED settings
    /\ exit' = FALSE /\ thread' = "failed"
    /\ UNCHANGED <<bind, at, rebind, started, bindError, desk, world>>

\* The server binds after the application has started.  One that was told to
\* leave meanwhile does not serve: its event loop ends, and with it the
\* application.
Bind ==
    /\ Alive /\ thread = "bind"
    /\ thread' = IF at \in taken THEN "failing" ELSE IF exit THEN "closing" ELSE "serving"
    /\ UNCHANGED <<bind, at, exit, rebind, started, bindError, settings, desk, world>>

\* If it cannot, the application is shut down and SystemExit ends the thread.
BindFails ==
    /\ Alive /\ thread = "failing"
    /\ bindError' = TRUE /\ exit' = FALSE /\ thread' = "ended"
    /\ UNCHANGED <<bind, at, rebind, started, settings, desk, world>>

\* The loop of the server sees should_exit and accepts no more.
DrainBegins ==
    /\ Alive /\ thread = "serving" /\ exit
    /\ thread' = "draining"
    /\ UNCHANGED <<bind, at, exit, rebind, started, bindError, settings, desk, world>>

\* All handlers are through: the application is shut down.
DrainEnds ==
    /\ Alive /\ thread = "draining" /\ Quiet /\ ~stream
    /\ thread' = "closing"
    /\ UNCHANGED <<bind, at, exit, rebind, started, bindError, settings, desk, world>>

\* Fifteen seconds on, what still runs is cancelled.
DrainTimesOut ==
    LET cut == {a \in Admin : upd[a] # Idle}
        lost == UNION {Cached(a) : a \in {b \in cut : upd[b].pc # "notify"}}
        unheard == UNION {upd[a].changed : a \in cut}
    IN /\ Alive /\ thread = "draining" /\ (~Quiet \/ stream)
       /\ thread' = "closing"
       /\ upd' = [a \in Admin |-> Idle]
       /\ unsaved' = unsaved \cup lost
       /\ strayed' = (strayed \/ "port" \in lost \cup unheard)
       /\ stream' = FALSE
       /\ UNCHANGED <<row, over, cache, copy, due, left,
                      bind, at, exit, rebind, started, bindError, desk, taken>>

\* Services stopped, records stored, connections closed, however long that
\* takes: the loop of the host goes on with a rebind or ends.
Closes ==
    /\ Alive /\ thread = "closing"
    /\ exit' = FALSE /\ rebind' = FALSE
    /\ thread' = IF rebind THEN "pause" ELSE "ended"
    /\ UNCHANGED <<bind, at, started, bindError, settings, desk, world>>

\* The old port is given 0.4 seconds.
PauseEnds ==
    /\ Alive /\ thread = "pause"
    /\ thread' = "head"
    /\ UNCHANGED <<bind, at, exit, rebind, started, bindError, settings, desk, world>>
-----------------------------------------------------------------------------
(* The main thread. *)

Start ==
    /\ main = "new"
    /\ main' = "waiting" /\ thread' = "head"
    /\ UNCHANGED <<bind, at, exit, rebind, started, bindError, stop, settings, world>>

\* start(wait=True): the thread has reported, or 25 seconds have passed.
StartReturns ==
    /\ main = "waiting"
    /\ \/ started /\ main' = (IF bindError THEN "gone" ELSE "up")
       \/ ~started /\ main' = "gone"
    /\ UNCHANGED <<stop, settings, host, world>>

\* stop(): the flags first, ...
StopBegins ==
    /\ main = "up"
    /\ main' = "looking" /\ stop' = TRUE /\ rebind' = FALSE
    /\ UNCHANGED <<bind, at, thread, exit, started, bindError, settings, world>>

\* ... a look whether there is a server, ...
StopLooks ==
    /\ main = "looking"
    /\ main' = IF Server THEN "telling" ELSE "joining"
    /\ UNCHANGED <<stop, settings, host, world>>

\* (mutant) the server that was seen is told, gone or not
StopTellsAny ==
    /\ main = "telling"
    /\ main' = "joining" /\ exit' = TRUE
    /\ UNCHANGED <<bind, at, thread, rebind, started, bindError, stop, settings, world>>

\* ... which is told, ...
StopTells ==
    /\ main = "telling" /\ Server
    /\ main' = "joining" /\ exit' = TRUE
    /\ UNCHANGED <<bind, at, thread, rebind, started, bindError, stop, settings, world>>

\* ... unless the thread has cleared it meanwhile: the AttributeError ends the
\* process, or, raised in a callback of the tray, leads to a second stop().
StopStumbles ==
    /\ main = "telling" /\ ~Server
    /\ \/ main' = "gone" /\ UNCHANGED rebind
       \/ main' = "looking" /\ rebind' = FALSE
    /\ UNCHANGED <<bind, at, thread, exit, started, bindError, stop, settings, world>>

\* The thread is joined, and the process ends.
JoinEnds ==
    /\ main = "joining" /\ Over
    /\ main' = "gone"
    /\ UNCHANGED <<stop, settings, host, world>>

\* The process ends after fifteen seconds as well, whatever the thread is at.
JoinTimesOut ==
    /\ main = "joining" /\ ~Over
    /\ main' = "gone"
    /\ UNCHANGED <<stop, settings, host, world>>
-----------------------------------------------------------------------------
(* Clients and other programs. *)

StreamBegins ==
    /\ Alive /\ thread = "serving" /\ ~stream /\ stream' = TRUE
    /\ UNCHANGED <<settings, host, desk, taken>>

StreamEnds ==
    /\ Alive /\ stream /\ stream' = FALSE
    /\ UNCHANGED <<settings, host, desk, taken>>

\* A port the server listens on cannot be taken.
PortTaken(p) ==
    /\ Alive /\ p \notin taken /\ ~(thread = "serving" /\ p = at)
    /\ taken' = taken \cup {p}
    /\ UNCHANGED <<settings, host, desk, stream>>

PortFreed(p) ==
    /\ Alive /\ p \in taken
    /\ taken' = taken \ {p}
    /\ UNCHANGED <<settings, host, desk, stream>>

\* All that ends does so when the process is gone.
Ended == main = "gone" /\ UNCHANGED vars
-----------------------------------------------------------------------------
HandlerSteps(a) ==
    \/ Refuse(a) \/ Look(a) \/ Get(a) \/ Put(a) \/ PutCovered(a) \/ Commit(a) \/ Notify(a)

Reload == ReloadReads \/ ReloadCovers \/ \E k \in Key : ReloadPuts(k)

ThreadSteps ==
    \/ TurnBegins \/ CheckPort \/ Build \/ BuildFails \/ Boot \/ BootFails \/ Bind \/ BindFails
    \/ DrainBegins \/ DrainEnds \/ DrainTimesOut \/ Closes \/ PauseEnds

MainSteps ==
    Start \/ StartReturns \/ StopLooks \/ StopTells \/ StopStumbles \/ JoinEnds

Next ==
    \/ \E a \in Admin : HandlerSteps(a) \/ Fault(a) \/ \E l \in Lists : Open(a, l)
    \/ Restart \/ Reload
    \/ ThreadSteps \/ MainSteps \/ StopBegins \/ JoinTimesOut
    \/ StreamBegins \/ StreamEnds
    \/ \E p \in Contested : PortTaken(p) \/ PortFreed(p)
    \/ Ended

\* The event loop goes on with every handler, the threads are scheduled, the
\* fifteen seconds of a drain pass and a shutdown ends.  That of the join
\* pass is never assumed: the thread is to end by itself.
Fairness ==
    /\ WF_vars(ThreadSteps) /\ WF_vars(MainSteps)
    /\ \A a \in Admin : WF_vars(HandlerSteps(a))

Spec == Init /\ [][Next]_vars /\ Fairness
-----------------------------------------------------------------------------

\* The types, and one server at a time told to leave only while it exists.
TypeOK == StationTypes /\ (exit => Server)

\* What the program reads is what it will read after a restart: an override of
\* the command line, else the row, else the default - whatever handlers,
\* reloads and restarts came before.  An update that fails or is cut off
\* after some of its values, one that crosses another or is covered by a
\* reload's overrides, and a reload that an update overtakes leave keys
\* behind (unsaved), until the next load.
CacheTrue ==
    Quiet /\ copy = Unset => \A k \in Key \ unsaved :
        \/ cache[k] = over[k]
        \/ over[k] = Unset /\ cache[k] = row[k]
        \/ over[k] = Unset /\ row[k] = Unset /\ cache[k] = Default[k]

\* A change of the port takes effect without a restart of the process: once
\* updates and reloads have come to rest, the port is free and stays so, and
\* nobody stops the station, it serves at the port that is configured, and
\* goes on to - unless the start of the application has raised, which leaves
\* no server and no word of it.
Calm ==
    /\ Quiet /\ copy = Unset /\ ~strayed /\ ~stop /\ main = "up"
    /\ ~bindError /\ thread # "failed"
    /\ cache["port"] \notin taken
ServesConfigured == <>[]Calm => <>[](thread = "serving" /\ at = cache["port"])

\* Stopping the station ends its thread, with the application shut down, in
\* whatever step of a rebind it is met, unless the process is gone before:
\* the join has timed out, or stop() has stumbled.  A thread that stood
\* between its look at the flag and the server it has built by now is not
\* told, and serves on until then.
Heard == stop /\ (exit \/ Over \/ thread \in {"head", "pause"})
StopEnds == Heard ~> (Over \/ main = "gone")
=============================================================================
