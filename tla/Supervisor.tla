------------------------------ MODULE Supervisor ------------------------------
(***************************************************************************)
(* The keeper of local services (services/supervisor.py), for one unit: a  *)
(* start command together with the channels it serves, each on a port of   *)
(* its own.  Administrators, the start-up pass and the watch loop are      *)
(* asyncio tasks that share the unit, the states of its channels and one   *)
(* lock; each action is the code of a task between two awaits.  Beside     *)
(* them live the processes themselves, which start, bind their port, die   *)
(* and outlive their launcher as they please.                              *)
(*                                                                         *)
(* The strategy is "auto" with no stop command, and signals reach their    *)
(* processes.  One tick of the clock is longer than a probe or a spawn.    *)
(* The status shown on the console is left out: no decision depends on it  *)
(* (where the loop asks for "starting" it asks for next_attempt_at too).   *)
(***************************************************************************)
EXTENDS Integers, Sequences, FiniteSets

CONSTANTS
    Channel,       \* the channels that share the start command
    User,          \* administrators, one call at a time each
    Slot,          \* process trees of the unit that may exist at one time
    NoTree,        \* no process handle
    AutoStart,     \* the channels with auto_start
    AutoRestart,   \* the channels with auto_restart
    Grace,         \* startup_grace_seconds, in ticks
    MinGrace,      \* the 10 seconds that _launch waits at least
    Backoff,       \* restart_backoff_seconds
    Interval,      \* check_interval_seconds
    Threshold,     \* failure_threshold
    MaxRestarts,   \* max_restarts, 0 for no limit
    RestartCap     \* the largest backoff factor; model bound on unit.restarts

ASSUME SupervisorAssumption ==
    /\ Channel # {}
    /\ NoTree \notin Slot
    /\ User \cap {"boot", "loop"} = {}
    /\ AutoStart \subseteq Channel /\ AutoRestart \subseteq Channel
    /\ Grace \in Nat /\ MinGrace \in Nat \ {0} /\ Interval \in Nat
    /\ Backoff \in Nat \ {0} /\ Threshold \in Nat \ {0}
    /\ RestartCap \in Nat \ {0} /\ MaxRestarts \in 0..RestartCap

VARIABLES
    known,      \* the unit is in _units
    handle,     \* unit.process: the tree spawned last
    fresh,      \* ticks during which unit.started_at bars another launch
    restarts,   \* unit.restarts
    ports,      \* unit.ports
    failures,   \* ChannelState.consecutive_failures, saturated at Threshold
    wait,       \* ticks left until ChannelState.next_attempt_at
    queue,      \* the lock: its holder, then the tasks that wait for it
    task,       \* what each task is at
    todo,       \* channels the start-up pass has yet to look at
    attached,   \* trees whose launcher is running
    booting,    \* [Slot -> services of the tree that do not listen yet]
    serving     \* [Slot -> services of the tree that listen]

unit  == <<known, handle, fresh, restarts, ports>>
state == <<failures, wait>>
procs == <<attached, booting, serving>>
vars  == <<unit, state, queue, task, todo, procs>>

Task == User \cup {"boot", "loop"}
Ops == {"none", "start", "stop", "restart", "check", "boot", "loop"}
Phases == {"idle", "probe", "decide", "stop", "kill", "killed", "spawn"}

Larger(a, b) == IF a > b THEN a ELSE b
Smaller(a, b) == IF a < b THEN a ELSE b

FullGrace == Larger(Grace, MinGrace)          \* the bar after a launch
Window == Larger(Grace, Backoff) + Interval   \* the wait after a launch

Call == [pc: Phases, op: Ops, chan: Channel, ok: BOOLEAN, had: BOOLEAN]

\* A task with nothing to do; chan is arbitrary.
AtRest == [pc |-> "idle", op |-> "none", chan |-> CHOOSE c \in Channel : TRUE,
           ok |-> FALSE, had |-> FALSE]

TypeOK ==
    /\ known \in BOOLEAN
    /\ handle \in Slot \cup {NoTree}
    /\ fresh \in Nat
    /\ restarts \in 0..RestartCap
    /\ ports \in SUBSET Channel
    /\ failures \in [Channel -> 0..Threshold]
    /\ wait \in [Channel -> Nat]
    /\ queue \in Seq(Task)
    /\ task \in [Task -> Call]
    /\ todo \in SUBSET AutoStart
    /\ attached \in SUBSET Slot
    /\ booting \in [Slot -> SUBSET Channel]
    /\ serving \in [Slot -> SUBSET Channel]

\* A gateway that has just started; somebody else may have brought services
\* up already, a tree like any other but with no handle.
Init ==
    /\ known = FALSE /\ handle = NoTree /\ fresh = 0 /\ restarts = 0
    /\ ports = {}
    /\ failures = [c \in Channel |-> 0]
    /\ wait = [c \in Channel |-> 0]
    /\ queue = <<>>
    /\ task = [t \in Task |-> AtRest]
    /\ todo = AutoStart
    /\ attached = {}
    /\ booting = [s \in Slot |-> {}]
    /\ \E C \in SUBSET Channel :
          serving = [s \in Slot |-> IF s = CHOOSE x \in Slot : TRUE THEN C ELSE {}]
-----------------------------------------------------------------------------
Alive == handle \in attached
Free(s) == s \notin attached /\ booting[s] = {} /\ serving[s] = {}
Serves(c) == \E s \in Slot : c \in serving[s]

Holds(t) == queue # <<>> /\ Head(queue) = t
At(t, op, pc) == task[t].op = op /\ task[t].pc = pc
Chan(t) == task[t].chan

\* The task is through, and leaves the lock if it holds it.
Leave(t) ==
    /\ task' = [task EXCEPT ![t] = AtRest]
    /\ queue' = IF Holds(t) THEN Tail(queue) ELSE queue

\* The task takes up a call, or goes on with the one it has.
Enter(t, op, pc, c) ==
    task' = [task EXCEPT ![t] = [pc |-> pc, op |-> op, chan |-> c,
                                 ok |-> FALSE, had |-> FALSE]]
Proceed(t, pc, ok, had) ==
    task' = [task EXCEPT ![t] = [pc |-> pc, op |-> task[t].op, chan |-> Chan(t),
                                 ok |-> ok, had |-> had]]
-----------------------------------------------------------------------------
(***************************************************************************)
(* Calls come in.  start, stop and restart queue for the lock; check_now,  *)
(* the start-up pass and the loop probe without it.                        *)
(***************************************************************************)
Begin(u, c) ==
    /\ task[u].pc = "idle"
    /\ \/ Enter(u, "start", "probe", c) /\ queue' = Append(queue, u)
       \/ Enter(u, "stop", "stop", c) /\ queue' = Append(queue, u)
       \/ Enter(u, "restart", "kill", c) /\ queue' = Append(queue, u)
       \/ Enter(u, "check", "probe", c) /\ UNCHANGED queue
    /\ UNCHANGED <<unit, state, todo, procs>>

Autostart(c) ==
    /\ task["boot"].pc = "idle"
    /\ c \in todo
    /\ todo' = todo \ {c}
    /\ Enter("boot", "boot", "probe", c)
    /\ UNCHANGED <<unit, state, queue, procs>>

LoopVisit(c) ==
    /\ task["loop"].pc = "idle"
    /\ Enter("loop", "loop", "probe", c)
    /\ UNCHANGED <<unit, state, queue, todo, procs>>

Answered(t, ok) ==
    /\ task[t].pc = "probe"
    /\ task[t].op = "start" => Holds(t)
    /\ Proceed(t, "decide", ok, FALSE)
    /\ UNCHANGED <<unit, state, queue, todo, procs>>

\* check: the service answers or it does not ...
Probe(t) == Answered(t, Serves(Chan(t)))

\* ... or it is too busy to answer in time.
ProbeMisses(t) == Serves(Chan(t)) /\ Answered(t, FALSE)
-----------------------------------------------------------------------------
(***************************************************************************)
(* What a probe tells is written to the state of the channel.              *)
(***************************************************************************)
MoreFailures(c) == Smaller(failures[c] + 1, Threshold)

ApplyHealth(c, ok) ==
    /\ failures' = [failures EXCEPT ![c] = IF ok THEN 0 ELSE MoreFailures(c)]
    /\ UNCHANGED wait

\* The service is somebody else's: the unit is noted, nothing is launched.
RegisterExternal(c) ==
    /\ known' = TRUE
    /\ ports' = ports \cup {c}
    /\ ApplyHealth(c, TRUE)
    /\ UNCHANGED <<handle, fresh, restarts>>

CheckNow(t) ==
    /\ At(t, "check", "decide")
    /\ ApplyHealth(Chan(t), task[t].ok)
    /\ Leave(t)
    /\ UNCHANGED <<unit, todo, procs>>

\* The start-up pass registers without the lock, or takes it for a start.
AutostartRegisters ==
    /\ At("boot", "boot", "decide")
    /\ task["boot"].ok
    /\ RegisterExternal(Chan("boot"))
    /\ Leave("boot")
    /\ UNCHANGED <<todo, procs>>

AutostartStarts ==
    /\ At("boot", "boot", "decide")
    /\ ~task["boot"].ok
    /\ Enter("boot", "start", "probe", Chan("boot"))
    /\ queue' = Append(queue, "boot")
    /\ UNCHANGED <<unit, state, todo, procs>>
-----------------------------------------------------------------------------
(***************************************************************************)
(* Launching.  h and f are what the caller leaves of unit.process and of   *)
(* unit.started_at.  A launch within the grace of another is skipped.      *)
(***************************************************************************)
\* (mutant) the grace of the last launch is not looked at
LaunchAtOnce(t, h, f) ==
    /\ handle' = h
    /\ fresh' = f
    /\ known' = TRUE
    /\ ports' = ports \cup {Chan(t)}
    /\ failures' = [failures EXCEPT ![Chan(t)] = 0]
    /\ wait' = [wait EXCEPT ![Chan(t)] = Window]
    /\ Proceed(t, "spawn", task[t].ok, task[t].had)
    /\ UNCHANGED <<restarts, queue>>

Launch(t, h, f) ==
    /\ handle' = h
    /\ fresh' = f
    /\ IF f > 0
       THEN Leave(t) /\ UNCHANGED <<known, restarts, ports, state>>
       ELSE /\ known' = TRUE
            /\ ports' = ports \cup {Chan(t)}
            /\ failures' = [failures EXCEPT ![Chan(t)] = 0]
            /\ wait' = [wait EXCEPT ![Chan(t)] = Window]
            /\ Proceed(t, "spawn", task[t].ok, task[t].had)
            /\ UNCHANGED <<restarts, queue>>

\* The launcher runs; it will bring up every service of the unit.
SpawnReturns(t) ==
    /\ task[t].pc = "spawn"
    /\ \E s \in Slot : Free(s)
    /\ LET s == CHOOSE s \in Slot : Free(s)
       IN  /\ handle' = s
           /\ attached' = attached \cup {s}
           /\ booting' = [booting EXCEPT ![s] = Channel]
    /\ fresh' = FullGrace
    /\ Leave(t)
    /\ UNCHANGED <<known, restarts, ports, state, todo, serving>>

\* (mutant) the lock is kept
SpawnFailsHolding(t) ==
    /\ task[t].pc = "spawn"
    /\ task' = [task EXCEPT ![t] = AtRest]
    /\ UNCHANGED <<unit, state, queue, todo, procs>>

\* The command cannot be run.
SpawnFails(t) ==
    /\ task[t].pc = "spawn"
    /\ Leave(t)
    /\ UNCHANGED <<unit, state, todo, procs>>
-----------------------------------------------------------------------------
(***************************************************************************)
(* start, once the probe made under the lock has been answered.            *)
(***************************************************************************)
StartRegisters(t) ==
    /\ At(t, "start", "decide")
    /\ task[t].ok /\ ~known
    /\ RegisterExternal(Chan(t))
    /\ Leave(t)
    /\ UNCHANGED <<todo, procs>>

StartSkips(t) ==
    /\ At(t, "start", "decide")
    /\ known /\ Alive
    /\ Leave(t)
    /\ UNCHANGED <<unit, state, todo, procs>>

\* (mutant) an old launcher that still runs is not looked for
StartLaunchesBlindly(t) ==
    /\ At(t, "start", "decide")
    /\ ~(task[t].ok /\ ~known)
    /\ Launch(t, handle, fresh)
    /\ UNCHANGED <<todo, procs>>

StartLaunches(t) ==
    /\ At(t, "start", "decide")
    /\ ~(task[t].ok /\ ~known)
    /\ ~(known /\ Alive)
    /\ Launch(t, handle, fresh)
    /\ UNCHANGED <<todo, procs>>
-----------------------------------------------------------------------------
(***************************************************************************)
(* Stopping: the tree of the handle if its launcher runs, then whatever    *)
(* listens on the ports of the unit and of the channel.                    *)
(***************************************************************************)
StopBegins(t) ==
    /\ At(t, "stop", "stop")
    /\ Holds(t)
    /\ failures' = [failures EXCEPT ![Chan(t)] = 0]
    /\ wait' = [wait EXCEPT ![Chan(t)] = 0]
    /\ Proceed(t, "kill", FALSE, known)
    /\ UNCHANGED <<unit, queue, todo, procs>>

StopUnit(c, had) ==
    LET felled == IF had /\ Alive THEN {handle} ELSE {}
        hit    == {c} \cup IF had THEN ports ELSE {}
    IN  /\ attached' = attached \ felled
        /\ booting' = [s \in Slot |-> IF s \in felled THEN {} ELSE booting[s]]
        /\ serving' = [s \in Slot |-> IF s \in felled THEN {} ELSE serving[s] \ hit]

\* The loop has looked the unit up before it waited for the lock.
Kill(t) ==
    /\ task[t].pc = "kill"
    /\ Holds(t)
    /\ LET had == IF task[t].op = "restart" THEN known ELSE task[t].had
       IN  /\ StopUnit(Chan(t), had)
           /\ Proceed(t, "killed", FALSE, had)
    /\ UNCHANGED <<unit, state, queue, todo>>

StopEnds(t) ==
    /\ At(t, "stop", "killed")
    /\ handle' = IF task[t].had THEN NoTree ELSE handle
    /\ fresh' = IF task[t].had THEN 0 ELSE fresh
    /\ Leave(t)
    /\ UNCHANGED <<known, restarts, ports, state, todo, procs>>

RestartLaunches(t) ==
    /\ At(t, "restart", "killed")
    /\ Launch(t, IF task[t].had THEN NoTree ELSE handle,
                 IF task[t].had THEN 0 ELSE fresh)
    /\ UNCHANGED <<todo, procs>>
-----------------------------------------------------------------------------
(***************************************************************************)
(* The watch loop, from the answer to its probe on.                        *)
(***************************************************************************)
LoopContent ==
    /\ At("loop", "loop", "decide")
    /\ task["loop"].ok
    /\ ApplyHealth(Chan("loop"), TRUE)
    /\ Leave("loop")
    /\ UNCHANGED <<unit, todo, procs>>

\* (mutant) a limit of 0 is taken for a limit
ExhaustedAtZero == restarts >= MaxRestarts

Exhausted == MaxRestarts > 0 /\ restarts >= MaxRestarts

\* Every reason to leave a failing service alone for now.
Patience(c) ==
    \/ c \notin AutoRestart
    \/ MoreFailures(c) < Threshold
    \/ Exhausted
    \/ wait[c] > 0

LoopWaits ==
    LET c == Chan("loop") IN
    /\ At("loop", "loop", "decide")
    /\ ~task["loop"].ok
    /\ Patience(c)
    /\ ApplyHealth(c, FALSE)
    /\ Leave("loop")
    /\ UNCHANGED <<unit, todo, procs>>

LoopRestarts ==
    LET c == Chan("loop") IN
    /\ At("loop", "loop", "decide")
    /\ ~task["loop"].ok
    /\ ~Patience(c)
    /\ failures' = [failures EXCEPT ![c] = MoreFailures(c)]
    /\ wait' = [wait EXCEPT ![c] = Backoff * Larger(1, restarts)]
    /\ restarts' = IF known THEN Smaller(restarts + 1, RestartCap) ELSE restarts
    /\ Proceed("loop", "kill", FALSE, known)
    /\ queue' = Append(queue, "loop")
    /\ UNCHANGED <<known, handle, fresh, ports, todo, procs>>

LoopLaunches ==
    /\ At("loop", "loop", "killed")
    /\ Launch("loop", IF task["loop"].had THEN NoTree ELSE handle, fresh)
    /\ UNCHANGED <<todo, procs>>
-----------------------------------------------------------------------------
(***************************************************************************)
(* The processes, and time.                                                *)
(***************************************************************************)

\* A service of the tree takes its port, or gives up if the port is taken.
Bind(s, c) ==
    /\ c \in booting[s]
    /\ booting' = [booting EXCEPT ![s] = @ \ {c}]
    /\ serving' = [serving EXCEPT ![s] = IF Serves(c) THEN @ ELSE @ \cup {c}]
    /\ UNCHANGED <<unit, state, queue, task, todo, attached>>

ServiceDies(s, c) ==
    /\ c \in booting[s] \cup serving[s]
    /\ booting' = [booting EXCEPT ![s] = @ \ {c}]
    /\ serving' = [serving EXCEPT ![s] = @ \ {c}]
    /\ UNCHANGED <<unit, state, queue, task, todo, attached>>

\* A start script ends; what it brought up lives on.  (Model bound: only
\* while a slot is free for another tree.)
LauncherExits(s) ==
    /\ s \in attached
    /\ \E other \in Slot : Free(other)
    /\ attached' = attached \ {s}
    /\ UNCHANGED <<unit, state, queue, task, todo, booting, serving>>

InFlight(t) == \/ task[t].pc \in {"decide", "spawn"}
               \/ At(t, "loop", "probe")

\* (mutant) the countdowns do not stop at zero
TickBelow ==
    /\ fresh > 0 \/ \E c \in Channel : wait[c] > 0
    /\ \A t \in Task : ~InFlight(t)
    /\ fresh' = fresh - 1
    /\ wait' = [c \in Channel |-> wait[c] - 1]
    /\ UNCHANGED <<known, handle, restarts, ports, failures, queue, task, todo,
                   procs>>

\* Time passes, except within a probe or a spawn.
Tick ==
    /\ fresh > 0 \/ \E c \in Channel : wait[c] > 0
    /\ \A t \in Task : ~InFlight(t)
    /\ fresh' = Larger(fresh - 1, 0)
    /\ wait' = [c \in Channel |-> Larger(wait[c] - 1, 0)]
    /\ UNCHANGED <<known, handle, restarts, ports, failures, queue, task, todo,
                   procs>>
-----------------------------------------------------------------------------
Work(t) ==
    \/ Probe(t) \/ ProbeMisses(t) \/ CheckNow(t) \/ SpawnReturns(t)
    \/ SpawnFails(t) \/ StartRegisters(t) \/ StartSkips(t) \/ StartLaunches(t)
    \/ StopBegins(t) \/ Kill(t) \/ StopEnds(t) \/ RestartLaunches(t)

Boot == AutostartRegisters \/ AutostartStarts
Loop == LoopContent \/ LoopWaits \/ LoopRestarts \/ LoopLaunches

World ==
    \/ \E s \in Slot, c \in Channel : Bind(s, c) \/ ServiceDies(s, c)
    \/ \E s \in Slot : LauncherExits(s)
    \/ Tick

Next ==
    \/ \E c \in Channel : (\E u \in User : Begin(u, c)) \/ Autostart(c) \/ LoopVisit(c)
    \/ \E t \in Task : Work(t)
    \/ Boot \/ Loop \/ World

Spec == Init /\ [][Next]_vars

(***************************************************************************)
(* The event loop resumes a task whose await is over; the watch loop looks *)
(* at every channel again and again; time passes; a service that is        *)
(* starting ends up on its port or without one.                            *)
(***************************************************************************)
FairSpec ==
    /\ Spec
    /\ \A t \in Task : WF_vars(Work(t))
    /\ WF_vars(Boot) /\ WF_vars(Loop)
    /\ \A c \in Channel : WF_vars(Autostart(c)) /\ SF_vars(LoopVisit(c))
    /\ SF_vars(Tick)
    /\ \A s \in Slot, c \in Channel : WF_vars(Bind(s, c))
-----------------------------------------------------------------------------
(***************************************************************************)
(* Properties.                                                             *)
(***************************************************************************)

\* The watch loop is about to launch, and found no unit when it looked for one
\* before it waited for the lock.
BlindLaunch == At("loop", "loop", "spawn") /\ ~task["loop"].had

\* The handle of a running launcher is given up only together with the tree,
\* so that a later stop still reaches it, whichever tasks launch, stop and
\* restart the unit in between.  One step breaks the rule: a blind launch of
\* the loop, which waited for the lock past the grace of somebody's launch.
HandleKept ==
    [][(handle \in attached' /\ handle' # handle) => BlindLaunch]_vars

\* Two launches of the command are at least the grace apart, whoever asks
\* for them and for whichever channel, unless a stop came between.
LaunchOnce == [][attached' \ attached # {} => fresh = 0]_vars

\* Nobody waits for the lock for ever, and every call returns.
CallsReturn ==
    \A u \in User : (task[u].pc # "idle") ~> (task[u].pc = "idle")

\* A service under auto_restart is up again, and stays up, once the
\* disturbances end: calls of the administrators, deaths, probes that miss,
\* spawns that fail, services slower than the grace.
Disturbance ==
    \/ \E u \in User, c \in Channel : Begin(u, c)
    \/ \E s \in Slot : LauncherExits(s) \/ \E c \in Channel : ServiceDies(s, c)
    \/ \E t \in Task : ProbeMisses(t) \/ SpawnFails(t)
    \/ Tick /\ fresh = 1 /\ handle # NoTree /\ booting[handle] # {}

Recovers ==
    \/ []<><<Disturbance>>_vars
    \/ <>[](\A c \in AutoRestart : Serves(c))

\* README.md and supervisor.py say that a start never brings up a second
\* copy of a service that its own probe has just found running.
StartSparesTheRunning ==
    \A t \in Task : (task[t].op = "start" /\ task[t].pc = "spawn") => ~task[t].ok

\* supervisor.py says that within the window after a launch a failing probe
\* leads to no restart: the loop fells no tree that young.
GraceIsHonoured ==
    [][(/\ At("loop", "loop", "kill")
        /\ task'["loop"].pc = "killed"
        /\ attached' # attached) => fresh = 0]_vars
=============================================================================
