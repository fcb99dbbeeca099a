----------------------------- MODULE Lifecycle -----------------------------
(***************************************************************************)
(* The services of a process (swx_core/lifecycle.py), started in order and *)
(* stopped in reverse, the last of them the scheduler of the recurring     *)
(* jobs (swx_core/background.py), whose start() and stop() an application  *)
(* may also call itself.                                                   *)
(*                                                                         *)
(* start() of the scheduler and its loops run between awaits without       *)
(* interruption; stop() waits for the cancelled tasks, and start() and     *)
(* another stop() may run meanwhile.                                       *)
(***************************************************************************)
EXTENDS Naturals, Sequences, FiniteSets

CONSTANTS
    ServiceCount,     \* how many are registered; the last is the scheduler
    Jobs,
    Raising,      \* jobs whose error_policy is "raise"
    LastTask      \* bound on the tasks ever created

ASSUME LifeAssumption ==
    /\ ServiceCount \in Nat \ {0}
    /\ IsFiniteSet(Jobs)
    /\ Raising \subseteq Jobs
    /\ LastTask \in Nat

VARIABLES
    phase,        \* of the LifecycleManager
    started,      \* _started, without those that have been stopped
    on,           \* the other services that run
    stopFailed,   \* services whose stop() raised
    running,      \* _running of the scheduler
    listed,       \* _jobs
    taskOf,       \* _task of a job, 0 for None
    tasks,        \* the tasks created so far
    gathers,      \* for each stop() that waits, the tasks it waits for
    awaited,      \* the tasks the manager waits for in stop()
    lost,         \* history: tasks unregister() cancelled
    mixed,        \* history: start() ran during a stop()
    freely        \* history: the application called start() or stop()

lifeVars == <<phase, started, on, stopFailed, running, listed, taskOf, tasks, gathers, awaited, lost, mixed, freely>>

Scheduler == ServiceCount
Task == [job : Jobs, doing : {"handler", "sleep", "cancelled", "ended"}]

LifeTypeOK ==
    /\ phase \in {"off", "starting", "on", "stopping", "abandoned"}
    /\ started \subseteq 1 .. ServiceCount
    /\ on \subseteq 1 .. ServiceCount - 1
    /\ stopFailed \subseteq 1 .. ServiceCount - 1
    /\ running \in BOOLEAN
    /\ listed \subseteq Jobs
    /\ taskOf \in [Jobs -> 0 .. LastTask]
    /\ Len(tasks) <= LastTask /\ \A t \in 1 .. Len(tasks) : tasks[t] \in Task
    /\ gathers \subseteq SUBSET (1 .. LastTask)
    /\ awaited \subseteq 1 .. LastTask
    /\ lost \subseteq 1 .. LastTask
    /\ mixed \in BOOLEAN
    /\ freely \in BOOLEAN

LifeInit ==
    /\ phase = "off"
    /\ started = {}
    /\ on = {}
    /\ stopFailed = {}
    /\ running = FALSE
    /\ listed = Jobs
    /\ taskOf = [j \in Jobs |-> 0]
    /\ tasks = <<>>
    /\ gathers = {}
    /\ awaited = {}
    /\ lost = {}
    /\ mixed = FALSE
    /\ freely = FALSE

schedulerVars == <<running, listed, taskOf, tasks, gathers, lost, mixed>>
managerVars == <<phase, started, on, stopFailed>>

Alive(t) == tasks[t].doing # "ended"
Living == {t \in 1 .. Len(tasks) : Alive(t)}
Stopping == gathers # {}

-----------------------------------------------------------------------------

(***************************************************************************)
(* BackgroundScheduler                                                     *)
(***************************************************************************)
Room == Len(tasks) + Cardinality(listed) <= LastTask

(***************************************************************************)
(* start(): nothing when it runs already, else one task for every job.     *)
(***************************************************************************)
SchedulerStarts ==
    /\ Room
    /\ running' = TRUE
    /\ mixed' = (mixed \/ (~ running /\ Stopping))
    /\ IF running THEN UNCHANGED <<taskOf, tasks>>
       ELSE LET order == CHOOSE f \in [1 .. Cardinality(listed) -> listed] :
                            \A i, k \in DOMAIN f : i # k => f[i] # f[k] IN
            /\ tasks' = tasks \o [i \in DOMAIN order |-> [job |-> order[i], doing |-> "handler"]]
            /\ taskOf' = [j \in Jobs |->
                  IF j \in listed THEN Len(tasks) + CHOOSE i \in DOMAIN order : order[i] = j ELSE taskOf[j]]
    /\ UNCHANGED <<listed, gathers, lost>>

Cancelled(ts) ==
    [t \in DOMAIN tasks |->
        IF t \in ts /\ Alive(t) THEN [tasks[t] EXCEPT !.doing = "cancelled"] ELSE tasks[t]]

Current == {taskOf[j] : j \in listed} \cap Living

(***************************************************************************)
(* stop(): nothing when it does not run, which includes that another       *)
(* stop() is still waiting; else cancel the jobs' tasks, wait for them,    *)
(* and forget them.                                                        *)
(***************************************************************************)
SchedulerStops ==
    /\ running' = FALSE
    /\ IF running /\ Current # {}
       THEN gathers' = gathers \cup {Current} /\ tasks' = Cancelled(Current)
       ELSE UNCHANGED <<gathers, tasks>>
    /\ UNCHANGED <<listed, taskOf, lost, mixed>>

(***************************************************************************)
(* A stop() goes on, after which it knows no task any more.                *)
(***************************************************************************)
Forgets(w) ==
    /\ gathers' = gathers \ {w}
    /\ awaited' = IF w = awaited THEN {} ELSE awaited
    /\ taskOf' = [j \in Jobs |-> IF j \in listed THEN 0 ELSE taskOf[j]]
    /\ UNCHANGED <<running, listed, tasks, lost, mixed>>

(* Mutant: stop() does not wait for the tasks it cancelled. *)
Gathered_AtOnce(w) ==
    /\ w \in gathers
    /\ Forgets(w)

Gathered(w) ==
    /\ w \in gathers
    /\ w \cap Living = {}
    /\ Forgets(w)

(***************************************************************************)
(* _run_loop: the handler returns or raises, the interval passes, and the  *)
(* loop goes on as long as the scheduler runs.                             *)
(***************************************************************************)
Loop(t) ==
    /\ \/ tasks[t].doing = "handler" /\ tasks' = [tasks EXCEPT ![t].doing = "sleep"]
       \/ /\ tasks[t].doing = "handler" /\ tasks[t].job \in Raising
          /\ tasks' = [tasks EXCEPT ![t].doing = "ended"]
       \/ /\ tasks[t].doing = "sleep"
          /\ tasks' = [tasks EXCEPT ![t].doing = IF running THEN "handler" ELSE "ended"]
       \/ tasks[t].doing = "cancelled" /\ tasks' = [tasks EXCEPT ![t].doing = "ended"]
    /\ UNCHANGED <<running, listed, taskOf, gathers, awaited, lost, mixed>>

(***************************************************************************)
(* unregister(): cancel and forget, without waiting.  register() of the    *)
(* name again starts nothing.                                              *)
(***************************************************************************)
Unregister(j) ==
    /\ j \in listed
    /\ listed' = listed \ {j}
    /\ tasks' = Cancelled({taskOf[j]} \cap Living)
    /\ lost' = lost \cup ({taskOf[j]} \cap Living)
    /\ UNCHANGED <<running, taskOf, gathers, awaited, mixed>>

Register(j) ==
    /\ j \notin listed
    /\ listed' = listed \cup {j}
    /\ taskOf' = [taskOf EXCEPT ![j] = 0]
    /\ UNCHANGED <<running, tasks, gathers, awaited, lost, mixed>>

-----------------------------------------------------------------------------

(***************************************************************************)
(* LifecycleManager                                                        *)
(***************************************************************************)
StartAll ==
    /\ phase = "off"
    /\ phase' = "starting"
    /\ started' = {}
    /\ UNCHANGED <<on, stopFailed, awaited, freely, schedulerVars>>

NextToStart == CHOOSE s \in 1 .. ServiceCount : started = 1 .. s - 1

StartService ==
    /\ phase = "starting"
    /\ LET s == NextToStart IN
       /\ started' = started \cup {s}
       /\ phase' = IF s = ServiceCount THEN "on" ELSE phase
       /\ IF s = Scheduler THEN SchedulerStarts /\ UNCHANGED on
          ELSE on' = on \cup {s} /\ UNCHANGED schedulerVars
       /\ stopFailed' = stopFailed \ {s}
    /\ UNCHANGED <<awaited, freely>>

(***************************************************************************)
(* start() raises: stop what has started.  A cancellation is no Exception: *)
(* it stops nothing.                                                       *)
(***************************************************************************)
StartFails ==
    /\ phase = "starting"
    /\ NextToStart # Scheduler
    /\ phase' \in {"stopping", "abandoned"}
    /\ UNCHANGED <<started, on, stopFailed, awaited, freely, schedulerVars>>

StopAll ==
    /\ phase = "on"
    /\ phase' = "stopping"
    /\ UNCHANGED <<started, on, stopFailed, awaited, freely, schedulerVars>>

(* Mutant: in the order of registration. *)
NextToStop_Forward == CHOOSE s \in started : \A r \in started : s <= r

NextToStop == CHOOSE s \in started : \A r \in started : r <= s

(***************************************************************************)
(* The manager waits for the stop() of one service before it goes on to    *)
(* the next.                                                               *)
(***************************************************************************)
StopService ==
    /\ phase = "stopping" /\ started # {} /\ awaited = {}
    /\ LET s == NextToStop IN
       /\ started' = started \ {s}
       /\ IF s = Scheduler
          THEN /\ SchedulerStops
               /\ awaited' = IF running THEN Current ELSE {}
               /\ UNCHANGED <<on, stopFailed>>
          ELSE /\ \/ on' = on \ {s} /\ UNCHANGED stopFailed
                  \/ stopFailed' = stopFailed \cup {s} /\ UNCHANGED on
               /\ UNCHANGED <<awaited, schedulerVars>>
    /\ UNCHANGED <<phase, freely>>

Stopped ==
    /\ phase = "stopping" /\ started = {} /\ awaited = {}
    /\ phase' = "off"
    /\ UNCHANGED <<started, on, stopFailed, awaited, freely, schedulerVars>>

(***************************************************************************)
(* The application starts and stops the scheduler itself.                  *)
(***************************************************************************)
ApplicationCalls ==
    /\ SchedulerStarts \/ SchedulerStops
    /\ freely' = TRUE
    /\ UNCHANGED <<awaited, managerVars>>

LifeNext ==
    \/ StartAll \/ StartService \/ StartFails \/ StopAll \/ StopService \/ Stopped
    \/ ApplicationCalls
    \/ /\ \/ \E w \in gathers : Gathered(w)
          \/ \E t \in Living : Loop(t)
          \/ \E j \in Jobs : Unregister(j) \/ Register(j)
       /\ UNCHANGED <<freely, managerVars>>

LifeSpec == LifeInit /\ [][LifeNext]_lifeVars

-----------------------------------------------------------------------------

(***************************************************************************)
(* A service runs only while those it was started after run; only a        *)
(* service whose stop() raised is out of order.  A start that failed       *)
(* part-way has stopped what it had started.                               *)
(***************************************************************************)
DependentsFirst ==
    /\ \A s \in on \ stopFailed : \A r \in 1 .. s - 1 : r \in on
    /\ phase = "off" => on \subseteq stopFailed

(***************************************************************************)
(* When nobody but the manager starts and stops the scheduler, the         *)
(* services the scheduler was started after run as long as one of its      *)
(* tasks does, but for one that unregister() cancelled.                    *)
(***************************************************************************)
ServedWhileRunning ==
    ~ freely /\ Living \ lost # {} => on = 1 .. ServiceCount - 1

(***************************************************************************)
(* When the scheduler has stopped, none of its tasks is left, but for one  *)
(* that unregister() cancelled and that is on its way out, unless start()  *)
(* ran during a stop().                                                    *)
(***************************************************************************)
NothingLeftBehind ==
    ~ running /\ ~ Stopping /\ ~ mixed => Living \subseteq {t \in lost : tasks[t].doing = "cancelled"}

(***************************************************************************)
(* A job has one loop at most that is not on its way out, with the same    *)
(* exception.                                                              *)
(***************************************************************************)
OneLoopPerJob ==
    ~ mixed => \A t, u \in Living :
        (t # u /\ tasks[t].job = tasks[u].job) => "cancelled" \in {tasks[t].doing, tasks[u].doing}

(***************************************************************************)
(* With those exceptions, services go down after what depends on them, and *)
(* no job runs on when the scheduler has stopped.                          *)
(***************************************************************************)
LifecycleSafe ==
    /\ DependentsFirst
    /\ ServedWhileRunning
    /\ NothingLeftBehind
    /\ OneLoopPerJob
=============================================================================
