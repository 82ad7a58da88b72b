--------------------------- MODULE SupervisorProofs ---------------------------
(***************************************************************************)
(* What holds of Supervisor for any channels, tasks, trees and settings:   *)
(* the lock keeps its sections apart, no running launcher loses its        *)
(* handle, and the command is not run twice within its grace.              *)
(***************************************************************************)
EXTENDS Supervisor, TLAPS

-----------------------------------------------------------------------------
(***************************************************************************)
(* Type correctness.                                                       *)
(***************************************************************************)
LEMMA AtRestTyped == AtRest \in Call
    BY SupervisorAssumption DEF AtRest, Call, Phases, Ops

\* One entry of task is replaced, the others stay.
LEMMA TaskUpdate ==
    ASSUME TypeOK, NEW t \in Task, NEW x \in Call,
           task' = [task EXCEPT ![t] = x]
    PROVE  /\ task' \in [Task -> Call]
           /\ task'[t] = x
           /\ \A u \in Task : u # t => task'[u] = task[u]
    BY DEF TypeOK

LEMMA LeaveTyped ==
    ASSUME TypeOK, NEW t \in Task, Leave(t)
    PROVE  task' \in [Task -> Call] /\ queue' \in Seq(Task)
    <1>1. task' \in [Task -> Call]
        BY AtRestTyped, TaskUpdate DEF Leave
    <1>2. queue' \in Seq(Task)
        BY DEF Leave, Holds, TypeOK
    <1> QED
        BY <1>1, <1>2

LEMMA EnterTyped ==
    ASSUME TypeOK, NEW t \in Task, NEW op \in Ops, NEW pc \in Phases,
           NEW c \in Channel, Enter(t, op, pc, c)
    PROVE  task' \in [Task -> Call]
    <1>1. [pc |-> pc, op |-> op, chan |-> c, ok |-> FALSE, had |-> FALSE] \in Call
        BY DEF Call
    <1> QED
        BY <1>1, TaskUpdate DEF Enter

LEMMA ProceedTyped ==
    ASSUME TypeOK, NEW t \in Task, NEW pc \in Phases, NEW ok \in BOOLEAN,
           NEW had \in BOOLEAN, Proceed(t, pc, ok, had)
    PROVE  task' \in [Task -> Call]
    <1>1. [pc |-> pc, op |-> task[t].op, chan |-> Chan(t), ok |-> ok, had |-> had] \in Call
        BY DEF Call, Chan, TypeOK
    <1> QED
        BY <1>1, TaskUpdate DEF Proceed

LEMMA SettingsTyped ==
    /\ Threshold \in Nat \ {0} /\ RestartCap \in Nat \ {0} /\ NoTree \notin Slot
    /\ Window \in Nat /\ FullGrace \in Nat \ {0}
    BY SupervisorAssumption DEF Window, FullGrace, Larger

LEMMA FailuresTyped ==
    ASSUME TypeOK, NEW c \in Channel
    PROVE  MoreFailures(c) \in 0..Threshold
    BY SettingsTyped DEF MoreFailures, Smaller, TypeOK

LEMMA HealthTyped ==
    ASSUME TypeOK, NEW c \in Channel, NEW ok, ApplyHealth(c, ok)
    PROVE  failures' \in [Channel -> 0..Threshold] /\ wait' \in [Channel -> Nat]
    BY SettingsTyped, FailuresTyped DEF ApplyHealth, TypeOK

LEMMA ChanTyped ==
    ASSUME TypeOK, NEW t \in Task
    PROVE  /\ Chan(t) \in Channel /\ task[t].op \in Ops
           /\ task[t].ok \in BOOLEAN /\ task[t].had \in BOOLEAN
    BY DEF TypeOK, Chan, Call

\* A launch needs no more than a typed handle and countdown.
LEMMA LaunchTyped ==
    ASSUME TypeOK, NEW t \in Task, NEW h \in Slot \cup {NoTree}, NEW f \in Nat,
           Launch(t, h, f), UNCHANGED <<todo, procs>>
    PROVE  TypeOK'
    <1>1. CASE f > 0
        <2>1. Leave(t) /\ UNCHANGED <<known, restarts, ports, state>>
            BY <1>1 DEF Launch
        <2>2. task' \in [Task -> Call] /\ queue' \in Seq(Task)
            BY <2>1, LeaveTyped
        <2> QED
            BY <2>1, <2>2 DEF Launch, TypeOK, state, procs
    <1>2. CASE ~(f > 0)
        <2>1. /\ known' = TRUE
              /\ ports' = ports \cup {Chan(t)}
              /\ failures' = [failures EXCEPT ![Chan(t)] = 0]
              /\ wait' = [wait EXCEPT ![Chan(t)] = Window]
              /\ Proceed(t, "spawn", task[t].ok, task[t].had)
              /\ UNCHANGED <<restarts, queue>>
            BY <1>2 DEF Launch
        <2>2. task' \in [Task -> Call]
            BY <2>1, ChanTyped, ProceedTyped DEF Phases
        <2>3. failures' \in [Channel -> 0..Threshold] /\ wait' \in [Channel -> Nat]
            BY <2>1, ChanTyped, SettingsTyped DEF TypeOK
        <2> QED
            BY <2>1, <2>2, <2>3, ChanTyped DEF Launch, TypeOK, procs
    <1> QED
        BY <1>1, <1>2

LEMMA TypeStep == TypeOK /\ [Next]_vars => TypeOK'
    <1> SUFFICES ASSUME TypeOK, [Next]_vars PROVE TypeOK'
        OBVIOUS
    <1> USE SupervisorAssumption
    <1>1. ASSUME NEW c \in Channel, NEW u \in User, Begin(u, c) PROVE TypeOK'
        <2>1. u \in Task
            BY DEF Task
        <2>2. task' \in [Task -> Call]
            BY <1>1, <2>1, EnterTyped DEF Begin, Ops, Phases
        <2>3. queue' = Append(queue, u) \/ queue' = queue
            BY <1>1, Zenon DEF Begin
        <2>4. queue' \in Seq(Task)
            <3>1. queue \in Seq(Task)
                BY DEF TypeOK
            <3>2. Append(queue, u) \in Seq(Task)
                BY <2>1, <3>1
            <3> QED
                BY <2>3, <3>1, <3>2, Zenon
        <2> QED
            BY <1>1, <2>2, <2>4 DEF Begin, TypeOK, unit, state, procs
    <1>2. ASSUME NEW c \in Channel, Autostart(c) PROVE TypeOK'
        <2>1. task' \in [Task -> Call]
            BY <1>2, EnterTyped DEF Autostart, Ops, Phases, Task
        <2> QED
            BY <1>2, <2>1 DEF Autostart, TypeOK, unit, state, procs
    <1>3. ASSUME NEW c \in Channel, LoopVisit(c) PROVE TypeOK'
        <2>1. task' \in [Task -> Call]
            BY <1>3, EnterTyped DEF LoopVisit, Ops, Phases, Task
        <2> QED
            BY <1>3, <2>1 DEF LoopVisit, TypeOK, unit, state, procs
    <1>4. ASSUME NEW t \in Task, NEW ok \in BOOLEAN, Answered(t, ok) PROVE TypeOK'
        <2>1. task' \in [Task -> Call]
            BY <1>4, ProceedTyped DEF Answered, Phases
        <2> QED
            BY <1>4, <2>1 DEF Answered, TypeOK, unit, state, procs
    <1>5. ASSUME NEW t \in Task, Probe(t) PROVE TypeOK'
        BY <1>4, <1>5 DEF Probe, Serves
    <1>6. ASSUME NEW t \in Task, ProbeMisses(t) PROVE TypeOK'
        BY <1>4, <1>6 DEF ProbeMisses
    <1>7. ASSUME NEW t \in Task, CheckNow(t) PROVE TypeOK'
        BY <1>7, LeaveTyped, HealthTyped, ChanTyped DEF CheckNow, TypeOK, unit, procs
    <1>8. ASSUME NEW t \in Task, SpawnReturns(t) PROVE TypeOK'
        <2>1. task' \in [Task -> Call] /\ queue' \in Seq(Task)
            BY <1>8, LeaveTyped DEF SpawnReturns
        <2>2. PICK s \in Slot : /\ handle' = s
                               /\ attached' = attached \cup {s}
                               /\ booting' = [booting EXCEPT ![s] = Channel]
            BY <1>8, Zenon DEF SpawnReturns
        <2>3. fresh' \in Nat
            BY <1>8, SettingsTyped DEF SpawnReturns
        <2> QED
            BY <1>8, <2>1, <2>2, <2>3 DEF SpawnReturns, TypeOK, state
    <1>9. ASSUME NEW t \in Task, SpawnFails(t) PROVE TypeOK'
        BY <1>9, LeaveTyped DEF SpawnFails, TypeOK, unit, state, procs
    <1>10. ASSUME NEW t \in Task, StartRegisters(t) PROVE TypeOK'
        BY <1>10, LeaveTyped, HealthTyped, ChanTyped
           DEF StartRegisters, RegisterExternal, TypeOK, procs
    <1>11. ASSUME NEW t \in Task, StartSkips(t) PROVE TypeOK'
        BY <1>11, LeaveTyped DEF StartSkips, TypeOK, unit, state, procs
    <1>12. ASSUME NEW t \in Task, StartLaunches(t) PROVE TypeOK'
        <2>1. handle \in Slot \cup {NoTree} /\ fresh \in Nat
            BY DEF TypeOK
        <2> QED
            BY <1>12, <2>1, LaunchTyped DEF StartLaunches
    <1>13. ASSUME NEW t \in Task, StopBegins(t) PROVE TypeOK'
        <2>1. task' \in [Task -> Call]
            BY <1>13, ProceedTyped, ZenonT(40) DEF StopBegins, Phases, TypeOK
        <2>2. failures' \in [Channel -> 0..Threshold] /\ wait' \in [Channel -> Nat]
            BY <1>13, ChanTyped, SettingsTyped DEF StopBegins, TypeOK
        <2> QED
            BY <1>13, <2>1, <2>2 DEF StopBegins, TypeOK, unit, procs
    <1>14. ASSUME NEW t \in Task, Kill(t) PROVE TypeOK'
        <2>1. PICK had \in BOOLEAN : /\ StopUnit(Chan(t), had)
                                    /\ Proceed(t, "killed", FALSE, had)
            BY <1>14, ChanTyped DEF Kill, TypeOK
        <2>2. task' \in [Task -> Call]
            BY <2>1, ProceedTyped DEF Phases
        <2>3. /\ attached' \in SUBSET Slot
              /\ booting' \in [Slot -> SUBSET Channel]
              /\ serving' \in [Slot -> SUBSET Channel]
            BY <2>1 DEF StopUnit, TypeOK
        <2> QED
            BY <1>14, <2>2, <2>3 DEF Kill, TypeOK, unit, state
    <1>15. ASSUME NEW t \in Task, StopEnds(t) PROVE TypeOK'
        BY <1>15, LeaveTyped DEF StopEnds, TypeOK, state, procs
    <1>16. ASSUME NEW t \in Task, RestartLaunches(t) PROVE TypeOK'
        <2>1. /\ (IF task[t].had THEN NoTree ELSE handle) \in Slot \cup {NoTree}
              /\ (IF task[t].had THEN 0 ELSE fresh) \in Nat
            BY DEF TypeOK
        <2> QED
            BY <1>16, <2>1, LaunchTyped DEF RestartLaunches
    <1>17. "boot" \in Task /\ "loop" \in Task
        BY DEF Task
    <1>18. ASSUME AutostartRegisters PROVE TypeOK'
        BY <1>17, <1>18, LeaveTyped, HealthTyped, ChanTyped
           DEF AutostartRegisters, RegisterExternal, TypeOK, procs
    <1>19. ASSUME AutostartStarts PROVE TypeOK'
        <2>1. task' \in [Task -> Call]
            BY <1>17, <1>19, ChanTyped, EnterTyped DEF AutostartStarts, Ops, Phases
        <2>2. queue' \in Seq(Task)
            BY <1>17, <1>19 DEF AutostartStarts, TypeOK
        <2> QED
            BY <1>19, <2>1, <2>2 DEF AutostartStarts, TypeOK, unit, state, procs
    <1>20. ASSUME LoopContent PROVE TypeOK'
        BY <1>17, <1>20, LeaveTyped, HealthTyped, ChanTyped
           DEF LoopContent, TypeOK, unit, procs
    <1>21. ASSUME LoopWaits PROVE TypeOK'
        BY <1>17, <1>21, LeaveTyped, HealthTyped, ChanTyped
           DEF LoopWaits, TypeOK, unit, procs
    <1>22. ASSUME LoopRestarts PROVE TypeOK'
        <2>1. task' \in [Task -> Call]
            BY <1>17, <1>22, ProceedTyped, ZenonT(40) DEF LoopRestarts, Phases, TypeOK
        <2>2. queue' \in Seq(Task)
            BY <1>17, <1>22 DEF LoopRestarts, TypeOK
        <2>3. failures' \in [Channel -> 0..Threshold]
            BY <1>17, <1>22, ChanTyped, FailuresTyped DEF LoopRestarts, TypeOK
        <2>4. restarts' \in 0..RestartCap
            BY <1>22, SettingsTyped DEF LoopRestarts, TypeOK, Smaller
        <2>5. Backoff * Larger(1, restarts) \in Nat
            <3>1. Backoff \in Nat /\ Larger(1, restarts) \in Nat
                BY SettingsTyped DEF Larger, TypeOK
            <3> HIDE DEF Larger
            <3> QED
                BY <3>1
        <2>6. wait' \in [Channel -> Nat]
            BY <1>17, <1>22, <2>5, ChanTyped DEF LoopRestarts, TypeOK
        <2> QED
            BY <1>22, <2>1, <2>2, <2>3, <2>4, <2>6 DEF LoopRestarts, TypeOK, procs
    <1>23. ASSUME LoopLaunches PROVE TypeOK'
        <2>1. /\ (IF task["loop"].had THEN NoTree ELSE handle) \in Slot \cup {NoTree}
              /\ fresh \in Nat
            BY DEF TypeOK
        <2> QED
            BY <1>17, <1>23, <2>1, LaunchTyped DEF LoopLaunches
    <1>24. ASSUME NEW s \in Slot, NEW c \in Channel, Bind(s, c) PROVE TypeOK'
        BY <1>24 DEF Bind, TypeOK, unit, state
    <1>25. ASSUME NEW s \in Slot, NEW c \in Channel, ServiceDies(s, c) PROVE TypeOK'
        BY <1>25 DEF ServiceDies, TypeOK, unit, state
    <1>26. ASSUME NEW s \in Slot, LauncherExits(s) PROVE TypeOK'
        BY <1>26 DEF LauncherExits, TypeOK, unit, state
    <1>27. ASSUME Tick PROVE TypeOK'
        <2>1. fresh' \in Nat /\ wait' \in [Channel -> Nat]
            BY <1>27 DEF Tick, TypeOK, Larger
        <2> QED
            BY <1>27, <2>1 DEF Tick, TypeOK, procs
    <1>28. CASE UNCHANGED vars
        BY <1>28 DEF vars, unit, state, procs, TypeOK
    <1> QED
        BY <1>1, <1>2, <1>3, <1>5, <1>6, <1>7, <1>8, <1>9, <1>10, <1>11, <1>12, <1>13,
           <1>14, <1>15, <1>16, <1>18, <1>19, <1>20, <1>21, <1>22, <1>23, <1>24, <1>25,
           <1>26, <1>27, <1>28
           DEF Next, Work, Boot, Loop, World

\* Every variable keeps to its range, the lock's queue, the counters and the
\* process trees included, whatever the tasks and the processes do.
THEOREM TypeCorrect == Spec => []TypeOK
    <1>1. ASSUME Init PROVE TypeOK
        <2>1. known \in BOOLEAN /\ handle \in Slot \cup {NoTree} /\ fresh \in Nat
            BY <1>1 DEF Init
        <2>2. restarts \in 0..RestartCap /\ failures \in [Channel -> 0..Threshold]
            BY <1>1, SettingsTyped DEF Init
        <2>3. wait \in [Channel -> Nat] /\ queue \in Seq(Task)
            BY <1>1 DEF Init
        <2>4. ports \in SUBSET Channel /\ todo \in SUBSET AutoStart
            BY <1>1 DEF Init
        <2>5. task \in [Task -> Call]
            BY <1>1, AtRestTyped DEF Init
        <2>6. attached \in SUBSET Slot /\ booting \in [Slot -> SUBSET Channel]
            BY <1>1 DEF Init
        <2>7. serving \in [Slot -> SUBSET Channel]
            <3>1. PICK C \in SUBSET Channel :
                     serving = [s \in Slot |-> IF s = CHOOSE x \in Slot : TRUE THEN C ELSE {}]
                BY <1>1, Zenon DEF Init
            <3> QED
                BY <3>1
        <2> QED
            BY <2>1, <2>2, <2>3, <2>4, <2>5, <2>6, <2>7 DEF TypeOK
    <1> QED
        BY <1>1, TypeStep, PTL DEF Spec
-----------------------------------------------------------------------------
(***************************************************************************)
(* The lock.  A task is Inside while it is between taking the lock and     *)
(* leaving it, and Queued from the call on; the head of the queue is the   *)
(* holder.  Shape says which phases belong to which operation.             *)
(***************************************************************************)
Inside(t) ==
    \/ task[t].op = "start" /\ task[t].pc \in {"decide", "spawn"}
    \/ task[t].op = "stop" /\ task[t].pc \in {"kill", "killed"}
    \/ task[t].op \in {"restart", "loop"} /\ task[t].pc \in {"killed", "spawn"}

Queued(t) ==
    \/ task[t].op \in {"start", "stop", "restart"}
    \/ task[t].op = "loop" /\ task[t].pc \in {"kill", "killed", "spawn"}

Shape(t) ==
    /\ task[t].op = "loop" => t = "loop"
    /\ task[t].op = "boot" => t = "boot"
    /\ t = "loop" => task[t].op \in {"none", "loop"}
    /\ task[t].pc = "idle" => task[t].op = "none"
    /\ task[t].pc = "probe" => task[t].op \in {"start", "check", "boot", "loop"}
    /\ task[t].pc = "spawn" => task[t].op \in {"start", "restart", "loop"}
    /\ task[t].pc \in {"kill", "killed"} => task[t].op \in {"stop", "restart", "loop"}

LockInv ==
    /\ \A t \in Task : Shape(t)
    /\ \A i \in 1..Len(queue) : Queued(queue[i])
    /\ \A i, j \in 1..Len(queue) : queue[i] = queue[j] => i = j
    /\ \A t \in Task : Inside(t) => Holds(t)

\* No two tasks are at once in the code that the unit's lock guards.
Exclusion == \A t, u \in Task : Inside(t) /\ Inside(u) => t = u

LEMMA LockExcludes == LockInv => Exclusion
    BY Zenon DEF LockInv, Exclusion, Holds

\* What the three ways to move a task make of its entry, and of the others.
LEMMA LeaveEffect ==
    ASSUME TypeOK, NEW t \in Task, Leave(t)
    PROVE  /\ task'[t].pc = "idle" /\ task'[t].op = "none"
           /\ \A u \in Task : u # t => task'[u] = task[u]
    <1>1. task' = [task EXCEPT ![t] = AtRest]
        BY DEF Leave
    <1>2. task'[t] = AtRest /\ \A u \in Task : u # t => task'[u] = task[u]
        BY <1>1, AtRestTyped, TaskUpdate
    <1> QED
        BY <1>2 DEF AtRest

LEMMA EnterEffect ==
    ASSUME TypeOK, NEW t \in Task, NEW op \in Ops, NEW pc \in Phases,
           NEW c \in Channel, Enter(t, op, pc, c)
    PROVE  /\ task'[t].pc = pc /\ task'[t].op = op
           /\ \A u \in Task : u # t => task'[u] = task[u]
    <1>1. [pc |-> pc, op |-> op, chan |-> c, ok |-> FALSE, had |-> FALSE] \in Call
        BY DEF Call
    <1>2. /\ task'[t] = [pc |-> pc, op |-> op, chan |-> c, ok |-> FALSE, had |-> FALSE]
          /\ \A u \in Task : u # t => task'[u] = task[u]
        BY <1>1, TaskUpdate DEF Enter
    <1> QED
        BY <1>2

LEMMA ProceedEffect ==
    ASSUME TypeOK, NEW t \in Task, NEW pc \in Phases, NEW ok \in BOOLEAN,
           NEW had \in BOOLEAN, Proceed(t, pc, ok, had)
    PROVE  /\ task'[t].pc = pc /\ task'[t].op = task[t].op /\ task'[t].had = had
           /\ \A u \in Task : u # t => task'[u] = task[u]
    <1> DEFINE x == [pc |-> pc, op |-> task[t].op, chan |-> Chan(t), ok |-> ok,
                     had |-> had]
    <1>1. x \in Call
        BY DEF Call, Chan, TypeOK
    <1>2. task'[t] = x /\ \A u \in Task : u # t => task'[u] = task[u]
        BY <1>1, TaskUpdate DEF Proceed
    <1> QED
        BY <1>2

\* A task that keeps its place in the queue, or has none.
LEMMA LockMove ==
    ASSUME TypeOK, LockInv, NEW t \in Task,
           \A u \in Task : u # t => task'[u] = task[u],
           queue' = queue, Shape(t)', Queued(t) => Queued(t)', Inside(t)' => Holds(t)
    PROVE  LockInv'
    <1>1. \A u \in Task : Shape(u)'
        BY DEF LockInv, Shape
    <1>2. \A i \in 1..Len(queue') : Queued(queue[i])'
        <2> TAKE i \in 1..Len(queue')
        <2>1. queue'[i] = queue[i] /\ queue[i] \in Task /\ Queued(queue[i])
            BY DEF LockInv, TypeOK
        <2> QED
            BY <2>1 DEF Queued
    <1>3. \A u \in Task : Inside(u)' => Holds(u)'
        BY DEF LockInv, Inside, Holds
    <1> QED
        BY <1>1, <1>2, <1>3 DEF LockInv

\* A task that asks for the lock: it is in the queue once, at the end.
LEMMA LockJoin ==
    ASSUME TypeOK, LockInv, NEW t \in Task,
           \A u \in Task : u # t => task'[u] = task[u],
           queue' = Append(queue, t), Shape(t)', ~Queued(t), Queued(t)', ~Inside(t)'
    PROVE  LockInv'
    <1>1. \A u \in Task : Shape(u)'
        BY DEF LockInv, Shape
    <1>2. /\ queue \in Seq(Task) /\ Len(queue) \in Nat
          /\ Len(queue') = Len(queue) + 1
          /\ queue'[Len(queue) + 1] = t
          /\ \A i \in 1..Len(queue) : queue'[i] = queue[i] /\ queue[i] \in Task
        BY DEF TypeOK
    <1>3. \A i \in 1..Len(queue) : queue[i] # t
        BY DEF LockInv
    <1>4. \A i \in 1..Len(queue') : Queued(queue[i])'
        <2> TAKE i \in 1..Len(queue')
        <2>1. CASE i \in 1..Len(queue)
            <3>1. queue'[i] = queue[i] /\ queue[i] \in Task /\ queue[i] # t /\ Queued(queue[i])
                BY <1>2, <1>3, <2>1 DEF LockInv
            <3> QED
                BY <3>1 DEF Queued
        <2>2. CASE i = Len(queue) + 1
            BY <1>2, <2>2
        <2> QED
            BY <1>2, <2>1, <2>2
    <1>5. \A i, j \in 1..Len(queue') : queue'[i] = queue'[j] => i = j
        <2> TAKE i, j \in 1..Len(queue')
        <2>1. i \in 1..Len(queue) \/ i = Len(queue) + 1
            BY <1>2
        <2>2. j \in 1..Len(queue) \/ j = Len(queue) + 1
            BY <1>2
        <2> QED
            BY <1>2, <1>3, <2>1, <2>2 DEF LockInv
    <1>6. \A u \in Task : Inside(u)' => Holds(u)'
        <2> SUFFICES ASSUME NEW u \in Task, Inside(u)' PROVE Holds(u)'
            OBVIOUS
        <2>1. Holds(u)
            BY DEF LockInv, Inside
        <2>2. Len(queue) > 0 /\ queue[1] = u
            BY <1>2, <2>1 DEF Holds
        <2>3. Len(queue') > 0 /\ queue'[1] = u /\ queue' \in Seq(Task)
            BY <1>2, <2>2
        <2> QED
            BY <2>3 DEF Holds
    <1> QED
        BY <1>1, <1>4, <1>5, <1>6 DEF LockInv

\* A task that is through: it was the holder, or not in the queue at all.
LEMMA LockLeave ==
    ASSUME TypeOK, LockInv, NEW t \in Task, Leave(t), Holds(t) \/ ~Queued(t)
    PROVE  LockInv'
    <1>1. /\ task'[t].pc = "idle" /\ task'[t].op = "none"
          /\ \A u \in Task : u # t => task'[u] = task[u]
        BY LeaveEffect
    <1>2. Shape(t)' /\ ~Inside(t)'
        BY <1>1 DEF Shape, Inside, LockInv
    <1>3. CASE Holds(t)
        <2>1. queue' = Tail(queue)
            BY <1>3 DEF Leave
        <2>2. /\ queue \in Seq(Task) /\ Len(queue) \in Nat \ {0} /\ queue[1] = t
              /\ Len(queue') = Len(queue) - 1
              /\ \A i \in 1..(Len(queue) - 1) : queue'[i] = queue[i + 1] /\ queue[i + 1] \in Task
            BY <1>3, <2>1 DEF Holds, TypeOK
        <2>3. \A u \in Task : Shape(u)'
            BY <1>1, <1>2 DEF LockInv, Shape
        <2>4. \A i \in 1..Len(queue') : Queued(queue[i])'
            <3> TAKE i \in 1..Len(queue')
            <3>1. /\ i + 1 \in 1..Len(queue) /\ 1 \in 1..Len(queue) /\ i + 1 # 1
                  /\ queue'[i] = queue[i + 1] /\ queue[i + 1] \in Task
                BY <2>2
            <3>2. queue[i + 1] # t /\ Queued(queue[i + 1])
                BY <2>2, <3>1 DEF LockInv
            <3> QED
                BY <1>1, <3>1, <3>2 DEF Queued
        <2>5. \A i, j \in 1..Len(queue') : queue'[i] = queue'[j] => i = j
            <3> TAKE i, j \in 1..Len(queue')
            <3>1. /\ i + 1 \in 1..Len(queue) /\ j + 1 \in 1..Len(queue)
                  /\ queue'[i] = queue[i + 1] /\ queue'[j] = queue[j + 1]
                  /\ i \in Int /\ j \in Int
                BY <2>2
            <3>2. queue'[i] = queue'[j] => i + 1 = j + 1
                BY <3>1 DEF LockInv
            <3> QED
                BY <3>1, <3>2
        <2>6. \A u \in Task : ~Inside(u)'
            BY <1>1, <1>2, <1>3 DEF LockInv, Inside, Holds
        <2> QED
            BY <2>3, <2>4, <2>5, <2>6 DEF LockInv
    <1>4. CASE ~Queued(t)
        <2>1. ~Holds(t)
            <3> SUFFICES ASSUME Holds(t) PROVE FALSE
                OBVIOUS
            <3>1. queue[1] = t /\ 1 \in 1..Len(queue)
                BY DEF Holds, TypeOK
            <3> QED
                BY <1>4, <3>1 DEF LockInv
        <2>2. queue' = queue
            BY <2>1 DEF Leave
        <2> QED
            BY <1>1, <1>2, <1>4, <2>2, LockMove
    <1> QED
        BY <1>3, <1>4

LEMMA LockLaunch ==
    ASSUME TypeOK, LockInv, NEW t \in Task, NEW h, NEW f, Launch(t, h, f),
           Inside(t), task[t].op \in {"start", "restart", "loop"}
    PROVE  LockInv'
    <1>1. Holds(t)
        BY DEF LockInv
    <1>2. CASE f > 0
        BY <1>1, <1>2, LockLeave DEF Launch
    <1>3. CASE ~(f > 0)
        <2>1. Proceed(t, "spawn", task[t].ok, task[t].had) /\ queue' = queue
            BY <1>3 DEF Launch
        <2>2. /\ task'[t].pc = "spawn" /\ task'[t].op = task[t].op
              /\ \A u \in Task : u # t => task'[u] = task[u]
            BY <2>1, ChanTyped, ProceedEffect DEF Phases
        <2>3. Shape(t)' /\ (Queued(t) => Queued(t)')
            BY <2>2 DEF LockInv, Shape, Queued
        <2> QED
            BY <1>1, <2>1, <2>2, <2>3, LockMove
    <1> QED
        BY <1>2, <1>3

\* Between its phases a task keeps its operation; it may be let in only as
\* the holder.
LEMMA LockProceed ==
    ASSUME TypeOK, LockInv, NEW t \in Task, NEW pc \in Phases, NEW ok \in BOOLEAN,
           NEW had \in BOOLEAN, Proceed(t, pc, ok, had), queue' = queue,
           pc # "idle", pc # "probe", pc # "stop", pc # "spawn",
           pc = "killed" => task[t].op \in {"stop", "restart", "loop"},
           pc = "kill" => task[t].op \in {"stop", "restart"},
           pc = "decide" /\ task[t].op = "loop" => task[t].pc = "probe",
           task[t].op \in {"start", "stop", "restart", "loop"} /\ pc # "decide" => Holds(t),
           task[t].op = "start" => Holds(t)
    PROVE  LockInv'
    <1>1. /\ task'[t].pc = pc /\ task'[t].op = task[t].op
          /\ \A u \in Task : u # t => task'[u] = task[u]
        BY ProceedEffect
    <1>2. Shape(t)
        BY DEF LockInv
    <1>3. Shape(t)' /\ (Inside(t)' => Holds(t))
        BY <1>1, <1>2 DEF Shape, Inside
    <1>4. Queued(t) => Queued(t)'
        <2> SUFFICES ASSUME Queued(t), task[t].op = "loop" PROVE pc \in {"killed"}
            BY <1>1 DEF Queued
        <2> QED
            BY DEF Queued, Phases
    <1> QED
        BY <1>1, <1>3, <1>4, LockMove

LEMMA LockStep == TypeOK /\ LockInv /\ [Next]_vars => LockInv'
    <1> SUFFICES ASSUME TypeOK, LockInv, [Next]_vars PROVE LockInv'
        OBVIOUS
    <1>0. /\ "boot" \in Task /\ "loop" \in Task
          /\ \A u \in User : u \in Task /\ u # "boot" /\ u # "loop"
          /\ \A t \in Task : Shape(t) /\ (Inside(t) => Holds(t))
        BY SupervisorAssumption DEF Task, LockInv
    <1>1. ASSUME NEW c \in Channel, NEW u \in User, Begin(u, c) PROVE LockInv'
        <2>1. u \in Task /\ u # "boot" /\ u # "loop" /\ task[u].op = "none"
            BY <1>0, <1>1 DEF Begin, Shape
        <2>2. ~Queued(u)
            BY <2>1 DEF Queued
        <2>3. CASE Enter(u, "start", "probe", c) /\ queue' = Append(queue, u)
            <3>1. /\ task'[u].pc = "probe" /\ task'[u].op = "start"
                  /\ \A v \in Task : v # u => task'[v] = task[v]
                BY <2>1, <2>3, EnterEffect DEF Ops, Phases
            <3>2. Shape(u)' /\ Queued(u)' /\ ~Inside(u)'
                BY <2>1, <3>1 DEF Shape, Queued, Inside
            <3> QED
                BY <2>1, <2>2, <2>3, <3>1, <3>2, LockJoin
        <2>4. CASE Enter(u, "stop", "stop", c) /\ queue' = Append(queue, u)
            <3>1. /\ task'[u].pc = "stop" /\ task'[u].op = "stop"
                  /\ \A v \in Task : v # u => task'[v] = task[v]
                BY <2>1, <2>4, EnterEffect DEF Ops, Phases
            <3>2. Shape(u)' /\ Queued(u)' /\ ~Inside(u)'
                BY <2>1, <3>1 DEF Shape, Queued, Inside
            <3> QED
                BY <2>1, <2>2, <2>4, <3>1, <3>2, LockJoin
        <2>5. CASE Enter(u, "restart", "kill", c) /\ queue' = Append(queue, u)
            <3>1. /\ task'[u].pc = "kill" /\ task'[u].op = "restart"
                  /\ \A v \in Task : v # u => task'[v] = task[v]
                BY <2>1, <2>5, EnterEffect DEF Ops, Phases
            <3>2. Shape(u)' /\ Queued(u)' /\ ~Inside(u)'
                BY <2>1, <3>1 DEF Shape, Queued, Inside
            <3> QED
                BY <2>1, <2>2, <2>5, <3>1, <3>2, LockJoin
        <2>6. CASE Enter(u, "check", "probe", c) /\ queue' = queue
            <3>1. /\ task'[u].pc = "probe" /\ task'[u].op = "check"
                  /\ \A v \in Task : v # u => task'[v] = task[v]
                BY <2>1, <2>6, EnterEffect DEF Ops, Phases
            <3>2. Shape(u)' /\ ~Inside(u)'
                BY <2>1, <3>1 DEF Shape, Inside
            <3> QED
                BY <2>1, <2>2, <2>6, <3>1, <3>2, LockMove
        <2> QED
            BY <1>1, <2>3, <2>4, <2>5, <2>6, Zenon DEF Begin
    <1>2. ASSUME NEW c \in Channel, Autostart(c) PROVE LockInv'
        <2>1. /\ task'["boot"].pc = "probe" /\ task'["boot"].op = "boot"
              /\ \A v \in Task : v # "boot" => task'[v] = task[v]
            BY <1>0, <1>2, EnterEffect DEF Autostart, Ops, Phases
        <2>2. task["boot"].op = "none" /\ queue' = queue
            BY <1>0, <1>2 DEF Autostart, Shape
        <2>3. Shape("boot")' /\ ~Inside("boot")' /\ ~Queued("boot")
            BY <2>1, <2>2 DEF Shape, Inside, Queued
        <2> QED
            BY <1>0, <2>1, <2>2, <2>3, LockMove
    <1>3. ASSUME NEW c \in Channel, LoopVisit(c) PROVE LockInv'
        <2>1. /\ task'["loop"].pc = "probe" /\ task'["loop"].op = "loop"
              /\ \A v \in Task : v # "loop" => task'[v] = task[v]
            BY <1>0, <1>3, EnterEffect DEF LoopVisit, Ops, Phases
        <2>2. task["loop"].op = "none" /\ queue' = queue
            BY <1>0, <1>3 DEF LoopVisit, Shape
        <2>3. Shape("loop")' /\ ~Inside("loop")' /\ ~Queued("loop")
            BY <2>1, <2>2 DEF Shape, Inside, Queued
        <2> QED
            BY <1>0, <2>1, <2>2, <2>3, LockMove
    <1>4. ASSUME NEW t \in Task, NEW ok \in BOOLEAN, Answered(t, ok) PROVE LockInv'
        <2>1. /\ task[t].pc = "probe" /\ (task[t].op = "start" => Holds(t))
              /\ Proceed(t, "decide", ok, FALSE) /\ queue' = queue
            BY <1>4 DEF Answered
        <2> QED
            BY <2>1, LockProceed DEF Phases
    <1>5. ASSUME NEW t \in Task, Probe(t) PROVE LockInv'
        BY <1>4, <1>5 DEF Probe, Serves
    <1>6. ASSUME NEW t \in Task, ProbeMisses(t) PROVE LockInv'
        BY <1>4, <1>6 DEF ProbeMisses
    <1>7. ASSUME NEW t \in Task, CheckNow(t) PROVE LockInv'
        <2>1. Leave(t) /\ ~Queued(t)
            BY <1>7 DEF CheckNow, At, Queued
        <2> QED
            BY <2>1, LockLeave
    <1>8. ASSUME NEW t \in Task, task[t].pc = "spawn", Leave(t) PROVE LockInv'
        <2>1. Holds(t)
            BY <1>0, <1>8 DEF Shape, Inside
        <2> QED
            BY <1>8, <2>1, LockLeave
    <1>9. ASSUME NEW t \in Task, SpawnReturns(t) \/ SpawnFails(t) PROVE LockInv'
        BY <1>8, <1>9 DEF SpawnReturns, SpawnFails
    <1>10. ASSUME NEW t \in Task, StartRegisters(t) \/ StartSkips(t) PROVE LockInv'
        <2>1. Leave(t) /\ At(t, "start", "decide")
            BY <1>10 DEF StartRegisters, StartSkips
        <2>2. Holds(t)
            BY <1>0, <2>1 DEF At, Inside
        <2> QED
            BY <2>1, <2>2, LockLeave
    <1>11. ASSUME NEW t \in Task, StartLaunches(t) PROVE LockInv'
        <2>1. Launch(t, handle, fresh) /\ At(t, "start", "decide")
            BY <1>11 DEF StartLaunches
        <2>2. Inside(t) /\ task[t].op \in {"start", "restart", "loop"}
            BY <2>1 DEF At, Inside
        <2> QED
            BY <2>1, <2>2, LockLaunch
    <1>12. ASSUME NEW t \in Task, StopBegins(t) PROVE LockInv'
        <2>1. /\ At(t, "stop", "stop") /\ Holds(t) /\ queue' = queue
              /\ Proceed(t, "kill", FALSE, known) /\ known \in BOOLEAN
            BY <1>12 DEF StopBegins, TypeOK
        <2> QED
            BY <2>1, LockProceed DEF Phases, At
    <1>13. ASSUME NEW t \in Task, Kill(t) PROVE LockInv'
        <2>1. PICK had \in BOOLEAN : Proceed(t, "killed", FALSE, had)
            BY <1>13, ChanTyped DEF Kill, TypeOK
        <2>2. task[t].pc = "kill" /\ Holds(t) /\ queue' = queue
            BY <1>13 DEF Kill
        <2>3. task[t].op \in {"stop", "restart", "loop"}
            BY <1>0, <2>2 DEF Shape
        <2> QED
            BY <2>1, <2>2, <2>3, LockProceed DEF Phases
    <1>14. ASSUME NEW t \in Task, StopEnds(t) PROVE LockInv'
        <2>1. Leave(t) /\ At(t, "stop", "killed")
            BY <1>14 DEF StopEnds
        <2>2. Holds(t)
            BY <1>0, <2>1 DEF At, Inside
        <2> QED
            BY <2>1, <2>2, LockLeave
    <1>15. ASSUME NEW t \in Task, RestartLaunches(t) PROVE LockInv'
        <2>1. Inside(t) /\ task[t].op \in {"start", "restart", "loop"}
            BY <1>15 DEF RestartLaunches, At, Inside
        <2> QED
            BY <1>15, <2>1, LockLaunch DEF RestartLaunches
    <1>16. ASSUME AutostartRegisters PROVE LockInv'
        <2>1. Leave("boot") /\ ~Queued("boot")
            BY <1>16 DEF AutostartRegisters, At, Queued
        <2> QED
            BY <1>0, <2>1, LockLeave
    <1>17. ASSUME AutostartStarts PROVE LockInv'
        <2>1. /\ task'["boot"].pc = "probe" /\ task'["boot"].op = "start"
              /\ \A v \in Task : v # "boot" => task'[v] = task[v]
            BY <1>0, <1>17, ChanTyped, EnterEffect DEF AutostartStarts, Ops, Phases
        <2>2. task["boot"].op = "boot" /\ queue' = Append(queue, "boot")
            BY <1>17 DEF AutostartStarts, At
        <2>3. /\ ~Queued("boot")
              /\ Shape("boot")' /\ Queued("boot")' /\ ~Inside("boot")'
            BY <2>1, <2>2 DEF Shape, Queued, Inside
        <2> QED
            BY <1>0, <2>1, <2>2, <2>3, LockJoin
    <1>18. ASSUME LoopContent \/ LoopWaits PROVE LockInv'
        <2>1. Leave("loop") /\ ~Queued("loop")
            BY <1>18 DEF LoopContent, LoopWaits, At, Queued
        <2> QED
            BY <1>0, <2>1, LockLeave
    <1>19. ASSUME LoopRestarts PROVE LockInv'
        <2>1. /\ At("loop", "loop", "decide") /\ queue' = Append(queue, "loop")
              /\ Proceed("loop", "kill", FALSE, known) /\ known \in BOOLEAN
            BY <1>19 DEF LoopRestarts, TypeOK
        <2>2. /\ task'["loop"].pc = "kill" /\ task'["loop"].op = "loop"
              /\ \A v \in Task : v # "loop" => task'[v] = task[v]
            BY <1>0, <2>1, ProceedEffect DEF Phases, At
        <2>3. /\ ~Queued("loop")
              /\ Shape("loop")' /\ Queued("loop")' /\ ~Inside("loop")'
            BY <2>1, <2>2 DEF At, Shape, Queued, Inside
        <2> QED
            BY <1>0, <2>1, <2>2, <2>3, LockJoin
    <1>20. ASSUME LoopLaunches PROVE LockInv'
        <2>1. Inside("loop") /\ task["loop"].op \in {"start", "restart", "loop"}
            BY <1>20 DEF LoopLaunches, At, Inside
        <2> QED
            BY <1>0, <1>20, <2>1, LockLaunch DEF LoopLaunches
    <1>21. ASSUME UNCHANGED <<task, queue>> PROVE LockInv'
        BY <1>21 DEF LockInv, Shape, Queued, Inside, Holds
    <1>22. ASSUME World \/ UNCHANGED vars PROVE UNCHANGED <<task, queue>>
        BY <1>22 DEF World, Bind, ServiceDies, LauncherExits, Tick, vars
    <1> QED
        BY <1>1, <1>2, <1>3, <1>5, <1>6, <1>7, <1>9, <1>10, <1>11, <1>12, <1>13, <1>14,
           <1>15, <1>16, <1>17, <1>18, <1>19, <1>20, <1>21, <1>22
           DEF Next, Work, Boot, Loop

LEMMA LockInit == Init => LockInv
    <1> SUFFICES ASSUME Init PROVE LockInv
        OBVIOUS
    <1>1. queue = <<>>
        BY DEF Init
    <1>2. Len(queue) = 0
        BY <1>1
    <1>3. \A t \in Task : task[t].pc = "idle" /\ task[t].op = "none"
        BY DEF Init, AtRest
    <1>4. \A t \in Task : Shape(t)
        <2> SUFFICES ASSUME NEW t \in Task PROVE t = "loop" => task[t].op \in {"none", "loop"}
            BY <1>3 DEF Shape
        <2> QED
            BY <1>3
    <1>5. \A t \in Task : ~Inside(t)
        BY <1>3 DEF Inside
    <1> QED
        BY <1>2, <1>4, <1>5 DEF LockInv

\* The unit's lock keeps launching and stopping apart: a task between its
\* probe and its spawn, or between its kill and its launch, is alone there,
\* for any number of callers beside the watch loop and the start-up pass.
THEOREM LockHolds == Spec => []Exclusion
    <1>1. TypeOK /\ LockInv /\ [Next]_vars => (TypeOK /\ LockInv)'
        BY TypeStep, LockStep
    <1>2. Init => LockInv
        BY LockInit
    <1> QED
        BY <1>1, <1>2, TypeCorrect, LockExcludes, PTL DEF Spec
-----------------------------------------------------------------------------
(***************************************************************************)
(* The unit.  What the tasks inside the lock may rely on:                  *)
(*   - at the spawn, no grace bars the launch and the launcher of the      *)
(*     handle is gone;                                                     *)
(*   - after the kill, and before a stop that found no unit, it is gone.   *)
(* The watch loop may rely on its launcher being gone only if it found a   *)
(* unit: it looked before it had the lock, and somebody may have launched  *)
(* in between.                                                             *)
(***************************************************************************)
Careful(t) ==
    /\ task[t].pc = "spawn" => known /\ fresh = 0
    /\ (/\ task[t].pc \in {"killed", "spawn"}
        /\ task[t].op = "loop" => task[t].had) => ~Alive
    /\ (task[t].op = "stop" /\ task[t].pc = "kill" /\ ~task[t].had) => ~Alive

UnitInv ==
    /\ ~known => ~Alive
    /\ \A t \in Task : Careful(t)

\* A task that does not move loses nothing when launchers end.
LEMMA CarefulStays ==
    ASSUME UnitInv, NEW u \in Task, task'[u] = task[u], known => known',
           fresh' = fresh, Alive' => Alive
    PROVE  Careful(u)'
    <1>1. Careful(u)
        BY DEF UnitInv
    <1> QED
        BY <1>1, Zenon DEF Careful

\* A step of one task that leaves the launchers and the countdown alone.
LEMMA UnitQuiet ==
    ASSUME UnitInv, NEW t \in Task,
           \A u \in Task : u # t => task'[u] = task[u],
           known => known', UNCHANGED <<handle, fresh, attached>>, Careful(t)'
    PROVE  UnitInv'
    <1>a. Alive' = Alive
        BY DEF Alive
    <1>1. \A u \in Task : u # t => Careful(u)'
        BY <1>a, CarefulStays
    <1>2. ~known' => ~Alive'
        BY <1>a DEF UnitInv
    <1> QED
        BY <1>1, <1>2 DEF UnitInv

LEMMA UnitLeave ==
    ASSUME TypeOK, UnitInv, NEW t \in Task, Leave(t),
           known => known', UNCHANGED <<handle, fresh, attached>>
    PROVE  UnitInv'
    <1>1. /\ task'[t].pc = "idle" /\ task'[t].op = "none"
          /\ \A u \in Task : u # t => task'[u] = task[u]
        BY LeaveEffect
    <1>2. Careful(t)'
        BY <1>1 DEF Careful
    <1> QED
        BY <1>1, <1>2, UnitQuiet

\* While a task is inside, no other one is at its spawn or past its kill.
LEMMA Alone ==
    ASSUME LockInv, NEW t \in Task, Inside(t), NEW u \in Task, u # t
    PROVE  /\ task[u].pc # "spawn"
           /\ task[u].pc # "killed"
           /\ ~(task[u].op = "stop" /\ task[u].pc = "kill")
    <1>1. ~Inside(u)
        BY LockExcludes DEF Exclusion
    <1>2. Shape(u)
        BY DEF LockInv
    <1> QED
        BY <1>1, <1>2 DEF Inside, Shape

\* A launch by the holder of the lock: h and f are what it leaves of the
\* handle and of the countdown.
LEMMA UnitLaunch ==
    ASSUME TypeOK, LockInv, UnitInv, NEW t \in Task, NEW h, NEW f \in Nat,
           Launch(t, h, f), UNCHANGED procs, Inside(t),
           (task[t].op = "loop" => task[t].had) => h \notin attached,
           ~known => h \notin attached
    PROVE  UnitInv'
    <1>1. /\ handle' = h /\ fresh' = f /\ attached' = attached
          /\ Alive' = (h \in attached)
        BY DEF Launch, procs, Alive
    <1>3. /\ \A u \in Task : u # t => task'[u] = task[u]
          /\ Careful(t)'
          /\ ~known' => ~Alive'
        <2>1. CASE f > 0
            <3>1. Leave(t) /\ known' = known
                BY <2>1 DEF Launch
            <3>2. /\ task'[t].pc = "idle" /\ task'[t].op = "none"
                  /\ \A u \in Task : u # t => task'[u] = task[u]
                BY <3>1, LeaveEffect
            <3> QED
                BY <1>1, <3>1, <3>2 DEF Careful, UnitInv
        <2>2. CASE ~(f > 0)
            <3>1. Proceed(t, "spawn", task[t].ok, task[t].had) /\ known' = TRUE /\ f = 0
                BY <2>2 DEF Launch
            <3>2. /\ task'[t].pc = "spawn" /\ task'[t].op = task[t].op
                  /\ task'[t].had = task[t].had
                  /\ \A u \in Task : u # t => task'[u] = task[u]
                BY <3>1, ChanTyped, ProceedEffect DEF Phases
            <3> QED
                BY <1>1, <3>1, <3>2 DEF Careful
        <2> QED
            BY <2>1, <2>2
    <1>4. ASSUME NEW u \in Task, u # t PROVE Careful(u)'
        <2>1. task'[u] = task[u]
            BY <1>3, <1>4
        <2>2. /\ task[u].pc # "spawn" /\ task[u].pc # "killed"
              /\ ~(task[u].op = "stop" /\ task[u].pc = "kill")
            BY <1>4, Alone
        <2> QED
            BY <2>1, <2>2 DEF Careful
    <1> QED
        BY <1>3, <1>4 DEF UnitInv

LEMMA UnitStep == TypeOK /\ LockInv /\ UnitInv /\ [Next]_vars => UnitInv'
    <1> SUFFICES ASSUME TypeOK, LockInv, UnitInv, [Next]_vars PROVE UnitInv'
        OBVIOUS
    <1>0. /\ "boot" \in Task /\ "loop" \in Task /\ User \subseteq Task
          /\ \A t \in Task : Shape(t) /\ Careful(t)
        BY DEF Task, LockInv, UnitInv
    <1>1. ASSUME NEW c \in Channel, NEW u \in User, Begin(u, c) PROVE UnitInv'
        <2>1. u \in Task
            BY <1>0
        <2>2. /\ Careful(u)'
              /\ \A v \in Task : v # u => task'[v] = task[v]
            <3>1. \/ Enter(u, "start", "probe", c) \/ Enter(u, "stop", "stop", c)
                  \/ Enter(u, "restart", "kill", c) \/ Enter(u, "check", "probe", c)
                BY <1>1, Zenon DEF Begin
            <3>2. PICK op \in Ops, pc \in Phases :
                     /\ Enter(u, op, pc, c)
                     /\ pc \in {"probe", "stop"} \/ (pc = "kill" /\ op = "restart")
                BY <3>1 DEF Ops, Phases
            <3>3. /\ task'[u].pc = pc /\ task'[u].op = op
                  /\ \A v \in Task : v # u => task'[v] = task[v]
                BY <2>1, <3>2, EnterEffect
            <3> QED
                BY <3>2, <3>3 DEF Careful
        <2> QED
            BY <1>1, <2>1, <2>2, UnitQuiet DEF Begin, unit, procs
    <1>2. ASSUME NEW t \in Task, NEW op \in Ops, NEW c \in Channel,
                 Enter(t, op, "probe", c), UNCHANGED <<unit, procs>>
          PROVE  UnitInv'
        <2>1. /\ task'[t].pc = "probe"
              /\ \A v \in Task : v # t => task'[v] = task[v]
            BY <1>2, EnterEffect DEF Phases
        <2>2. Careful(t)'
            BY <2>1 DEF Careful
        <2> QED
            BY <1>2, <2>1, <2>2, UnitQuiet DEF unit, procs
    <1>3. ASSUME NEW c \in Channel, Autostart(c) \/ LoopVisit(c) PROVE UnitInv'
        BY <1>0, <1>2, <1>3 DEF Autostart, LoopVisit, Ops
    <1>4. ASSUME AutostartStarts PROVE UnitInv'
        BY <1>0, <1>2, <1>4, ChanTyped DEF AutostartStarts, Ops
    <1>5. ASSUME NEW t \in Task, NEW ok \in BOOLEAN, Answered(t, ok) PROVE UnitInv'
        <2>1. Proceed(t, "decide", ok, FALSE) /\ UNCHANGED <<unit, procs>>
            BY <1>5 DEF Answered
        <2>2. /\ task'[t].pc = "decide"
              /\ \A v \in Task : v # t => task'[v] = task[v]
            BY <2>1, ProceedEffect DEF Phases
        <2>3. Careful(t)'
            BY <2>2 DEF Careful
        <2> QED
            BY <2>1, <2>2, <2>3, UnitQuiet DEF unit, procs
    <1>6. ASSUME NEW t \in Task, Probe(t) \/ ProbeMisses(t) PROVE UnitInv'
        BY <1>5, <1>6 DEF Probe, ProbeMisses, Serves
    <1>7. ASSUME NEW t \in Task, CheckNow(t) \/ SpawnFails(t) \/ StartSkips(t)
          PROVE  UnitInv'
        BY <1>7, UnitLeave DEF CheckNow, SpawnFails, StartSkips, unit, procs
    <1>8. ASSUME NEW t \in Task, StartRegisters(t) PROVE UnitInv'
        BY <1>8, UnitLeave DEF StartRegisters, RegisterExternal, procs
    <1>9. ASSUME AutostartRegisters PROVE UnitInv'
        BY <1>0, <1>9, UnitLeave DEF AutostartRegisters, RegisterExternal, procs
    <1>10. ASSUME LoopContent \/ LoopWaits PROVE UnitInv'
        <2>1. Leave("loop") /\ UNCHANGED <<unit, procs>>
            BY <1>10 DEF LoopContent, LoopWaits
        <2> QED
            BY <1>0, <2>1, UnitLeave DEF unit, procs
    <1>11. ASSUME NEW t \in Task, SpawnReturns(t) PROVE UnitInv'
        <2>1. task[t].pc = "spawn" /\ Inside(t) /\ known
            BY <1>0, <1>11 DEF SpawnReturns, Shape, Inside, Careful
        <2>3. known' = known /\ Leave(t)
            BY <1>11 DEF SpawnReturns
        <2>4. /\ task'[t].pc = "idle" /\ task'[t].op = "none"
              /\ \A u \in Task : u # t => task'[u] = task[u]
            BY <2>3, LeaveEffect
        <2>5. ASSUME NEW u \in Task PROVE Careful(u)'
            <3>1. CASE u = t
                BY <2>4, <3>1 DEF Careful
            <3>2. CASE u # t
                BY <2>1, <2>4, <3>2, Alone DEF Careful
            <3> QED
                BY <3>1, <3>2
        <2> QED
            BY <2>1, <2>3, <2>5 DEF UnitInv
    <1>12. ASSUME NEW t \in Task, StartLaunches(t) PROVE UnitInv'
        <2>1. handle \notin attached /\ Inside(t)
            BY <1>12 DEF StartLaunches, UnitInv, At, Inside, Alive
        <2>2. fresh \in Nat /\ Launch(t, handle, fresh) /\ UNCHANGED procs
            BY <1>12 DEF StartLaunches, TypeOK
        <2> QED
            BY <2>1, <2>2, UnitLaunch
    <1>13. ASSUME NEW t \in Task, StopBegins(t) PROVE UnitInv'
        <2>1. /\ Proceed(t, "kill", FALSE, known) /\ task[t].op = "stop"
              /\ UNCHANGED <<unit, procs>> /\ known \in BOOLEAN
            BY <1>13 DEF StopBegins, At, TypeOK
        <2>2. /\ task'[t].pc = "kill" /\ task'[t].op = "stop" /\ task'[t].had = known
              /\ \A u \in Task : u # t => task'[u] = task[u]
            BY <2>1, ProceedEffect DEF Phases
        <2>3. Careful(t)'
            BY <2>1, <2>2 DEF Careful, UnitInv, Alive, unit, procs
        <2> QED
            BY <2>1, <2>2, <2>3, UnitQuiet DEF unit, procs
    <1>14. ASSUME NEW t \in Task, Kill(t) PROVE UnitInv'
        <2>1. PICK had \in BOOLEAN :
                 /\ had = IF task[t].op = "restart" THEN known ELSE task[t].had
                 /\ StopUnit(Chan(t), had)
                 /\ Proceed(t, "killed", FALSE, had)
            BY <1>14, ChanTyped DEF Kill, TypeOK
        <2>2. /\ task'[t].pc = "killed" /\ task'[t].op = task[t].op /\ task'[t].had = had
              /\ \A u \in Task : u # t => task'[u] = task[u]
            BY <2>1, ProceedEffect DEF Phases
        <2>3. /\ UNCHANGED unit /\ task[t].pc = "kill"
              /\ task[t].op \in {"stop", "restart", "loop"}
            BY <1>0, <1>14 DEF Kill, Shape
        <2>4. /\ attached' = attached \ (IF had /\ Alive THEN {handle} ELSE {})
              /\ handle' = handle
            BY <2>1, <2>3 DEF StopUnit, unit
        <2>5. (had => ~Alive') /\ (Alive' => Alive)
            BY <2>4 DEF Alive
        <2>7. ~had /\ task[t].op # "loop" => ~Alive
            BY <1>0, <2>1, <2>3 DEF Careful, UnitInv
        <2>8. Careful(t)'
            BY <2>2, <2>3, <2>5, <2>7 DEF Careful, unit
        <2>9. \A u \in Task : u # t => Careful(u)'
            BY <2>2, <2>3, <2>5, CarefulStays DEF unit
        <2>10. ~known' => ~Alive'
            BY <2>3, <2>5 DEF UnitInv, unit
        <2> QED
            BY <2>8, <2>9, <2>10 DEF UnitInv
    <1>15. ASSUME NEW t \in Task, StopEnds(t) PROVE UnitInv'
        <2>1. /\ Leave(t) /\ Inside(t) /\ ~Alive
              /\ known' = known /\ attached' = attached
              /\ handle' \in {handle, NoTree}
            BY <1>0, <1>15 DEF StopEnds, At, Inside, Careful, procs
        <2>a. ~Alive'
            BY <2>1, SupervisorAssumption DEF Alive, TypeOK
        <2>2. /\ task'[t].pc = "idle" /\ task'[t].op = "none"
              /\ \A u \in Task : u # t => task'[u] = task[u]
            BY <2>1, LeaveEffect
        <2>3. ASSUME NEW u \in Task PROVE Careful(u)'
            <3>1. CASE u = t
                BY <2>2, <3>1 DEF Careful
            <3>2. CASE u # t
                BY <2>1, <2>2, <3>2, Alone DEF Careful
            <3> QED
                BY <3>1, <3>2
        <2> QED
            BY <2>a, <2>1, <2>3 DEF UnitInv
    <1>16. ASSUME NEW t \in Task, RestartLaunches(t) PROVE UnitInv'
        <2> DEFINE h == IF task[t].had THEN NoTree ELSE handle
                   f == IF task[t].had THEN 0 ELSE fresh
        <2>1. ~Alive /\ Inside(t)
            BY <1>0, <1>16 DEF RestartLaunches, At, Inside, Careful
        <2>2. h \notin attached
            BY <2>1, SupervisorAssumption DEF Alive, TypeOK
        <2>3. f \in Nat
            BY DEF TypeOK
        <2>4. Launch(t, h, f) /\ UNCHANGED procs
            BY <1>16 DEF RestartLaunches
        <2> HIDE DEF h, f
        <2> QED
            BY <2>1, <2>2, <2>3, <2>4, UnitLaunch
    <1>17. ASSUME LoopRestarts PROVE UnitInv'
        <2>1. /\ Proceed("loop", "kill", FALSE, known) /\ task["loop"].op = "loop"
              /\ known' = known /\ UNCHANGED <<handle, fresh, attached>>
              /\ known \in BOOLEAN
            BY <1>17 DEF LoopRestarts, At, TypeOK, procs
        <2>2. /\ task'["loop"].pc = "kill" /\ task'["loop"].op = "loop"
              /\ task'["loop"].had = known
              /\ \A u \in Task : u # "loop" => task'[u] = task[u]
            BY <1>0, <2>1, ProceedEffect DEF Phases
        <2>3. Careful("loop")'
            BY <2>1, <2>2 DEF Careful, UnitInv
        <2> QED
            BY <1>0, <2>1, <2>2, <2>3, UnitQuiet
    <1>18. ASSUME LoopLaunches PROVE UnitInv'
        <2> DEFINE h == IF task["loop"].had THEN NoTree ELSE handle
        <2>1. Inside("loop") /\ Launch("loop", h, fresh) /\ UNCHANGED procs /\ fresh \in Nat
            BY <1>18 DEF LoopLaunches, At, Inside, TypeOK
        <2>2. task["loop"].had => h \notin attached
            BY SupervisorAssumption DEF TypeOK
        <2>3. task["loop"].op = "loop"
            BY <1>18 DEF LoopLaunches, At
        <2>4. ~known => h \notin attached
            BY SupervisorAssumption DEF UnitInv, TypeOK, Alive
        <2> HIDE DEF h
        <2> QED
            BY <1>0, <2>1, <2>2, <2>3, <2>4, UnitLaunch
    <1>19. ASSUME NEW s \in Slot, NEW c \in Channel, Bind(s, c) \/ ServiceDies(s, c)
          PROVE  UNCHANGED <<unit, task, attached>>
        BY <1>19 DEF Bind, ServiceDies
    <1>20. ASSUME UNCHANGED <<known, handle, fresh, task>>, attached' \subseteq attached
          PROVE  UnitInv'
        <2>1. Alive' => Alive
            BY <1>20 DEF Alive
        <2>2. \A u \in Task : Careful(u)'
            BY <1>20, <2>1, CarefulStays
        <2> QED
            BY <1>20, <2>1, <2>2 DEF UnitInv
    <1>21. ASSUME NEW s \in Slot, LauncherExits(s) PROVE UnitInv'
        BY <1>20, <1>21 DEF LauncherExits, unit
    <1>22. ASSUME Tick PROVE UnitInv'
        <2>1. /\ UNCHANGED <<known, handle, task, attached>>
              /\ \A t \in Task : task[t].pc # "spawn"
            BY <1>22 DEF Tick, InFlight, procs
        <2>2. Alive' = Alive
            BY <2>1 DEF Alive
        <2>3. ASSUME NEW u \in Task PROVE Careful(u)'
            BY <1>0, <2>1, <2>2, Zenon DEF Careful
        <2> QED
            BY <2>1, <2>2, <2>3 DEF UnitInv
    <1>23. CASE UNCHANGED vars
        BY <1>20, <1>23 DEF vars, unit, procs
    <1>24. ASSUME NEW s \in Slot, NEW c \in Channel, Bind(s, c) \/ ServiceDies(s, c)
          PROVE  UnitInv'
        BY <1>19, <1>20, <1>24 DEF unit
    <1> QED
        BY <1>1, <1>3, <1>4, <1>6, <1>7, <1>8, <1>9, <1>10, <1>11, <1>12, <1>13, <1>14,
           <1>15, <1>16, <1>17, <1>18, <1>21, <1>22, <1>23, <1>24
           DEF Next, Work, Boot, Loop, World

LEMMA UnitInit == Init => UnitInv
    <1> SUFFICES ASSUME Init PROVE UnitInv
        OBVIOUS
    <1>1. attached = {} /\ \A t \in Task : task[t].pc = "idle"
        BY DEF Init, AtRest
    <1> QED
        BY <1>1 DEF UnitInv, Careful, Alive

LEMMA Inductive == Spec => [](TypeOK /\ LockInv /\ UnitInv)
    <1>1. Init => LockInv /\ UnitInv
        BY LockInit, UnitInit
    <1>2. TypeOK /\ LockInv /\ UnitInv /\ [Next]_vars => LockInv' /\ UnitInv'
        BY LockStep, UnitStep
    <1> QED
        BY <1>1, <1>2, TypeCorrect, PTL DEF Spec

\* A running launcher loses its handle, and the stops their hold on it, by a
\* blind launch of the watch loop and by nothing else: for any number of
\* channels, callers and trees, and any grace, backoff and threshold.
THEOREM HandleHeld == Spec => HandleKept
    <1> DEFINE Kept == (handle \in attached' /\ handle' # handle) => BlindLaunch
    <1>1. ASSUME TypeOK, LockInv, UnitInv, Next
          PROVE  Kept
        <2>0. \A t \in Task : Shape(t) /\ Careful(t)
            BY <1>1 DEF LockInv, UnitInv
        <2>1. ASSUME NEW t \in Task, SpawnReturns(t) PROVE Kept
            <3>1. PICK s \in Slot : handle' = s /\ attached' = attached \cup {s}
                BY <2>1, Zenon DEF SpawnReturns
            <3>2. task[t].pc = "spawn"
                BY <2>1 DEF SpawnReturns
            <3>3. CASE task[t].op = "loop" /\ ~task[t].had
                BY <2>0, <3>2, <3>3 DEF BlindLaunch, At, Shape
            <3>4. CASE task[t].op = "loop" => task[t].had
                BY <2>0, <3>1, <3>2, <3>4 DEF Careful, Alive
            <3> QED
                BY <3>3, <3>4
        <2>2. ASSUME NEW t \in Task, StopEnds(t) \/ RestartLaunches(t) PROVE Kept
            <3>1. /\ task[t].pc = "killed" /\ task[t].op # "loop"
                  /\ attached' = attached
                BY <2>2 DEF StopEnds, RestartLaunches, At, procs
            <3> QED
                BY <2>0, <3>1 DEF Careful, Alive
        <2>3. ASSUME LoopLaunches PROVE Kept
            <3>1. /\ task["loop"].pc = "killed" /\ attached' = attached
                  /\ handle' = IF task["loop"].had THEN NoTree ELSE handle
                BY <2>3 DEF LoopLaunches, Launch, At, procs
            <3>2. task["loop"].had => ~Alive
                BY <2>0, <3>1 DEF Careful, Task
            <3> QED
                BY <3>1, <3>2 DEF Alive
        <2>4. ASSUME NEW t \in Task, Work(t), ~SpawnReturns(t), ~StopEnds(t),
                     ~RestartLaunches(t)
              PROVE  handle' = handle
            BY <2>4 DEF Work, Probe, ProbeMisses, Answered, CheckNow, SpawnFails,
                        StartRegisters, RegisterExternal, StartSkips, StartLaunches,
                        Launch, StopBegins, Kill, unit
        <2>5. ASSUME Boot \/ LoopContent \/ LoopWaits \/ LoopRestarts \/ World
              PROVE  handle' = handle
            BY <2>5 DEF Boot, AutostartRegisters, RegisterExternal, AutostartStarts,
                        LoopContent, LoopWaits, LoopRestarts, World, Bind,
                        ServiceDies, LauncherExits, Tick, unit
        <2>6. ASSUME NEW c \in Channel,
                     (\E u \in User : Begin(u, c)) \/ Autostart(c) \/ LoopVisit(c)
              PROVE  handle' = handle
            BY <2>6 DEF Begin, Autostart, LoopVisit, unit
        <2> QED
            BY <1>1, <2>1, <2>2, <2>3, <2>4, <2>5, <2>6, Zenon DEF Next, Loop
    <1>2. ASSUME TypeOK, LockInv, UnitInv, [Next]_vars
          PROVE  [Kept]_vars
        BY <1>1, <1>2
    <1> QED
        BY <1>2, Inductive, PTL DEF Spec, HandleKept

\* The command runs again only once the grace of the launch before is over
\* or a stop has ended it, whoever asks and for whichever channel.
THEOREM GraceKept == Spec => LaunchOnce
    <1>1. ASSUME UnitInv, [Next]_vars
          PROVE  [attached' \ attached # {} => fresh = 0]_vars
        <2>1. ASSUME NEW t \in Task, SpawnReturns(t) PROVE fresh = 0
            BY <1>1, <2>1 DEF SpawnReturns, UnitInv, Careful
        <2>2. ASSUME NEW t \in Task, Kill(t) PROVE attached' \subseteq attached
            BY <2>2 DEF Kill, StopUnit
        <2>3. ASSUME NEW t \in Task, Work(t), ~SpawnReturns(t), ~Kill(t)
              PROVE  UNCHANGED procs
            BY <2>3 DEF Work, Probe, ProbeMisses, Answered, CheckNow, SpawnFails,
                        StartRegisters, StartSkips, StartLaunches, StopBegins,
                        StopEnds, RestartLaunches
        <2>4. ASSUME Boot \/ Loop PROVE UNCHANGED procs
            BY <2>4 DEF Boot, Loop, AutostartRegisters, AutostartStarts, LoopContent,
                        LoopWaits, LoopRestarts, LoopLaunches
        <2>5. ASSUME World PROVE attached' \subseteq attached
            BY <2>5 DEF World, Bind, ServiceDies, LauncherExits, Tick, procs
        <2>6. ASSUME NEW c \in Channel,
                     (\E u \in User : Begin(u, c)) \/ Autostart(c) \/ LoopVisit(c)
              PROVE  UNCHANGED procs
            BY <2>6 DEF Begin, Autostart, LoopVisit
        <2> QED
            BY <1>1, <2>1, <2>2, <2>3, <2>4, <2>5, <2>6, Zenon DEF Next, procs, vars
    <1> QED
        BY <1>1, Inductive, PTL DEF Spec, LaunchOnce
=============================================================================
