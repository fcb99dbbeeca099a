----------------------------- MODULE JobRunner -----------------------------
(***************************************************************************)
(* The background job runner (swx_core/services/job/job_runner.py).        *)
(*                                                                         *)
(* Every process of the application runs one JobRunner, a Worker here.     *)
(* Workers share nothing but the table swx_job: they poll it, lock a row   *)
(* by writing it, execute the row's handler in an asyncio task, and write  *)
(* the outcome back.  A row whose lock is older than lock_timeout is put   *)
(* back in the queue by the cleanup loop of any worker.                    *)
(*                                                                         *)
(* Acquiring a job increments row.attempts, so the pair of a job and an    *)
(* attempt number names one execution: task[j][a].  Each step of an        *)
(* execution is one database transaction or one await of the code.  A      *)
(* session that wrote nothing yet keeps the row it loaded (seen), and at   *)
(* its commit the ORM sends only the columns that differ from what it      *)
(* loaded, whatever the row has become in between: Flush below.            *)
(*                                                                         *)
(* Time is relative: rows and tasks carry ages that Tick advances.         *)
(***************************************************************************)
EXTENDS Naturals, FiniteSets

CONSTANTS
    Jobs,           \* ids of the rows application code may insert
    NoHandler,      \* the jobs whose type has no registered handler
    Rank,           \* the order of polling: priority, then created_at
    Workers,        \* the processes that run a JobRunner
    NoWorker,       \* NULL of locked_by
    MaxAttempts,    \* max_attempts
    LockTimeout,    \* lock_timeout, in ticks
    ExecTimeout,    \* execution_timeout, in ticks
    MaxConcurrent,  \* max_concurrent
    MaxOutages      \* bound: how many stops and crashes a behaviour has

ASSUME ConstantsAssumption ==
    /\ NoHandler \subseteq Jobs
    /\ Rank \in [Jobs -> Nat]
    /\ NoWorker \notin Workers
    /\ MaxAttempts \in Nat \ {0}
    /\ LockTimeout \in Nat
    /\ ExecTimeout \in Nat
    /\ MaxConcurrent \in Nat \ {0}
    /\ MaxOutages \in Nat

Attempts == 0..MaxAttempts

(* 2 ** job.attempts *)
Backoff == [n \in Attempts |-> 2 ^ n]

ASSUME BackoffAssumption == Backoff \in [Attempts -> Nat]

VARIABLES
    row,        \* swx_job: the committed row of each job
    task,       \* task[j][a]: the execution of attempt a of job j
    active,     \* active[w]: the keys of _active_jobs
    polling,    \* polling[w]: the poll loop is past its checks, in _acquire_job
    phase,      \* phase[w]: whether the process runs, is stopping, or is down
    outages,    \* stops and crashes so far
    overrun     \* history: the lock of a live execution was released as stale

vars == <<row, task, active, polling, phase, outages, overrun>>

-----------------------------------------------------------------------------

Status == {"absent", "pending", "queued", "running",
           "completed", "dead_letter", "cancelled"}

Waiting == {"pending", "queued"}
Settled == {"completed", "dead_letter", "cancelled"}

Row == [status: Status, attempts: Attempts, lockedBy: Workers \cup {NoWorker},
        lockAge: Nat, delay: Nat]

(***************************************************************************)
(* What a session remembers of the row it loaded.                          *)
(***************************************************************************)
View(r) == [status |-> r.status, attempts |-> r.attempts,
            locked |-> r.lockedBy # NoWorker]

Views == [status: Status, attempts: Attempts, locked: BOOLEAN]

Unloaded == [status |-> "absent", attempts |-> 0, locked |-> FALSE]

(***************************************************************************)
(* Where an execution is:                                                  *)
(*   acquired    the row is locked, the task has not loaded it yet         *)
(*   handling    the handler runs (or was not found)                       *)
(*   failing     the exception branch has refreshed the row                *)
(*   auditing    the outcome is committed, the audit entry is being        *)
(*               written inside the try of _execute_job                    *)
(*   buried      the same after a dead-letter of the exception branch      *)
(*   timedout    cancelled by wait_for, about to enter _mark_job_timeout   *)
(*   requeueing  _mark_job_timeout has loaded the row                      *)
(*   closing     _mark_job_timeout has dead-lettered it and audits         *)
(***************************************************************************)
Timed == {"acquired", "handling", "failing", "auditing", "buried"}
PC == Timed \cup {"idle", "timedout", "requeueing", "closing"}

Task == [pc: PC, worker: Workers \cup {NoWorker}, age: Nat, seen: Views]

NoTask == [pc |-> "idle", worker |-> NoWorker, age |-> 0, seen |-> Unloaded]

Live(j, a) == task[j][a].pc # "idle"

LiveJobs(w) == {j \in Jobs : \E a \in Attempts : Live(j, a) /\ task[j][a].worker = w}

-----------------------------------------------------------------------------

TypeOK ==
    /\ row \in [Jobs -> Row]
    /\ task \in [Jobs -> [Attempts -> Task]]
    /\ active \in [Workers -> SUBSET Jobs]
    /\ polling \in [Workers -> BOOLEAN]
    /\ phase \in [Workers -> {"up", "stopping", "down"}]
    /\ outages \in 0..MaxOutages
    /\ overrun \in [Jobs -> BOOLEAN]

Init ==
    /\ row = [j \in Jobs |-> [status |-> "absent", attempts |-> 0,
                              lockedBy |-> NoWorker, lockAge |-> 0, delay |-> 0]]
    /\ task = [j \in Jobs |-> [a \in Attempts |-> NoTask]]
    /\ active = [w \in Workers |-> {}]
    /\ polling = [w \in Workers |-> FALSE]
    /\ phase = [w \in Workers |-> "up"]
    /\ outages = 0
    /\ overrun = [j \in Jobs |-> FALSE]

-----------------------------------------------------------------------------
(* Helpers of the actions *)

(***************************************************************************)
(* The UPDATE the ORM sends when a session that loaded `seen' sets the     *)
(* status to s and clears the lock: columns equal to the loaded value are  *)
(* left out, and the WHERE clause names the id only.                       *)
(***************************************************************************)
Flush(r, seen, s) ==
    [status   |-> IF seen.status = s THEN r.status ELSE s,
     attempts |-> r.attempts,
     lockedBy |-> IF seen.locked THEN NoWorker ELSE r.lockedBy,
     lockAge  |-> IF seen.locked THEN 0 ELSE r.lockAge,
     delay    |-> r.delay]

Write(j, r) == row' = [row EXCEPT ![j] = r]

SetTask(j, a, t) == task' = [task EXCEPT ![j][a] = t]

Goto(j, a, pc, seen) ==
    SetTask(j, a, [task[j][a] EXCEPT !.pc = pc, !.seen = seen])

(***************************************************************************)
(* The task returns or raises; its done callback pops the JOB's key.       *)
(***************************************************************************)
EndTask(j, a) ==
    /\ SetTask(j, a, NoTask)
    /\ active' = [active EXCEPT ![task[j][a].worker] = @ \ {j}]

(* Mutant: the limit of attempts is not checked. *)
Eligible_NoLimit(j) == row[j].status \in Waiting /\ row[j].delay = 0

(* Mutant: the poll also picks rows that are running. *)
Eligible_NoLock(j) ==
    /\ row[j].status \in Waiting \cup {"running"}
    /\ row[j].delay = 0
    /\ row[j].attempts < MaxAttempts

Eligible(j) ==
    /\ row[j].status \in Waiting
    /\ row[j].delay = 0
    /\ row[j].attempts < MaxAttempts

(***************************************************************************)
(* SKIP LOCKED passes over the rows that the other workers' polls hold.    *)
(***************************************************************************)
NextInLine(w, j) ==
    Cardinality({k \in Jobs : Eligible(k) /\ Rank[k] < Rank[j]})
        <= Cardinality({v \in Workers \ {w} : polling[v]})

-----------------------------------------------------------------------------
(* The application and the poll loop *)

(***************************************************************************)
(* Application code inserts a Job row; the model's default is pending.     *)
(***************************************************************************)
InsertJob(j) ==
    /\ row[j].status = "absent"
    /\ Write(j, [row[j] EXCEPT !.status = "pending"])
    /\ UNCHANGED <<task, active, polling, phase, outages, overrun>>

(* Mutant: off by one at the capacity. *)
PollBegin_Full(w) ==
    /\ phase[w] = "up"
    /\ ~polling[w]
    /\ Cardinality(active[w]) <= MaxConcurrent
    /\ polling' = [polling EXCEPT ![w] = TRUE]
    /\ UNCHANGED <<row, task, active, phase, outages, overrun>>

PollBegin(w) ==
    /\ phase[w] = "up"
    /\ ~polling[w]
    /\ Cardinality(active[w]) < MaxConcurrent
    /\ polling' = [polling EXCEPT ![w] = TRUE]
    /\ UNCHANGED <<row, task, active, phase, outages, overrun>>

(* Mutant: the attempt is not counted. *)
Acquire_NoCount(w, j) ==
    /\ polling[w]
    /\ Eligible(j)
    /\ NextInLine(w, j)
    /\ Write(j, [row[j] EXCEPT !.status = "running", !.lockedBy = w, !.lockAge = 0])
    /\ SetTask(j, row[j].attempts + 1,
               [pc |-> "acquired", worker |-> w, age |-> 0, seen |-> Unloaded])
    /\ active' = [active EXCEPT ![w] = @ \cup {j}]
    /\ polling' = [polling EXCEPT ![w] = FALSE]
    /\ UNCHANGED <<phase, outages, overrun>>

(***************************************************************************)
(* _acquire_job commits, and _process_next_job creates the task.           *)
(***************************************************************************)
Acquire(w, j) ==
    /\ polling[w]
    /\ Eligible(j)
    /\ NextInLine(w, j)
    /\ Write(j, [row[j] EXCEPT !.status = "running", !.lockedBy = w,
                               !.lockAge = 0, !.attempts = @ + 1])
    /\ SetTask(j, row[j].attempts + 1,
               [pc |-> "acquired", worker |-> w, age |-> 0, seen |-> Unloaded])
    /\ active' = [active EXCEPT ![w] = @ \cup {j}]
    /\ polling' = [polling EXCEPT ![w] = FALSE]
    /\ UNCHANGED <<phase, outages, overrun>>

(* No candidate, or the database fails and _acquire_job returns None. *)
AcquireNothing(w) ==
    /\ polling[w]
    /\ polling' = [polling EXCEPT ![w] = FALSE]
    /\ UNCHANGED <<row, task, active, phase, outages, overrun>>

-----------------------------------------------------------------------------
(* One execution: _execute_job under wait_for *)

Load(j, a) ==
    /\ task[j][a].pc = "acquired"
    /\ Goto(j, a, "handling", View(row[j]))
    /\ UNCHANGED <<row, active, polling, phase, outages, overrun>>

(* The outcome s is committed; the session now remembers what it wrote. *)
Conclude(j, a, s) ==
    /\ task[j][a].pc = "handling"
    /\ Write(j, Flush(row[j], task[j][a].seen, s))
    /\ Goto(j, a, "auditing", [task[j][a].seen EXCEPT !.status = s, !.locked = FALSE])
    /\ UNCHANGED <<active, polling, phase, outages, overrun>>

Complete(j, a) == j \notin NoHandler /\ Conclude(j, a, "completed")

Unhandled(j, a) == j \in NoHandler /\ Conclude(j, a, "dead_letter")

(* The handler (or the commit of the outcome) raises; the row is refreshed. *)
HandlerFails(j, a) ==
    /\ task[j][a].pc = "handling"
    /\ Goto(j, a, "failing", View(row[j]))
    /\ UNCHANGED <<row, active, polling, phase, outages, overrun>>

(***************************************************************************)
(* The common tail of the exception branch and of _mark_job_timeout.       *)
(***************************************************************************)
Retry(j, a) ==
    LET seen == task[j][a].seen IN
    /\ task[j][a].pc \in {"failing", "requeueing"}
    /\ seen.attempts < MaxAttempts
    /\ Write(j, [Flush(row[j], seen, "queued") EXCEPT !.delay = Backoff[seen.attempts]])
    /\ EndTask(j, a)
    /\ UNCHANGED <<polling, phase, outages, overrun>>

(* Mutant: the last retry is given up. *)
DeadLetter_Early(j, a) ==
    LET seen == task[j][a].seen IN
    /\ task[j][a].pc \in {"failing", "requeueing"}
    /\ seen.attempts >= MaxAttempts - 1
    /\ Write(j, Flush(row[j], seen, "dead_letter"))
    /\ Goto(j, a, IF task[j][a].pc = "failing" THEN "buried" ELSE "closing", seen)
    /\ UNCHANGED <<active, polling, phase, outages, overrun>>

DeadLetter(j, a) ==
    LET seen == task[j][a].seen IN
    /\ task[j][a].pc \in {"failing", "requeueing"}
    /\ seen.attempts >= MaxAttempts
    /\ Write(j, Flush(row[j], seen, "dead_letter"))
    /\ Goto(j, a, IF task[j][a].pc = "failing" THEN "buried" ELSE "closing", seen)
    /\ UNCHANGED <<active, polling, phase, outages, overrun>>

AuditDone(j, a) ==
    /\ task[j][a].pc \in {"auditing", "buried", "closing"}
    /\ EndTask(j, a)
    /\ UNCHANGED <<row, polling, phase, outages, overrun>>

(***************************************************************************)
(* The database fails where the code only logs: loading the row, both the  *)
(* refresh and the re-read of a failed handler's row, or the commit of the *)
(* retry.  The row stays as it is.                                         *)
(***************************************************************************)
GiveUp(j, a) ==
    /\ task[j][a].pc \in {"acquired", "handling", "failing", "timedout", "requeueing"}
    /\ EndTask(j, a)
    /\ UNCHANGED <<row, polling, phase, outages, overrun>>

(***************************************************************************)
(* asyncio cancels the task.  The CancelledError branch of _execute_job is *)
(* reached from the body of its try, not from its exception branch, and    *)
(* only once job is loaded; its commit may fail.                           *)
(***************************************************************************)
WriteCancelled(j, a) ==
    \/ row' = row
    \/ /\ task[j][a].pc \in {"handling", "auditing"}
       /\ Write(j, Flush(row[j], task[j][a].seen, "cancelled"))

Timeout(j, a) ==
    /\ task[j][a].pc \in Timed
    /\ task[j][a].age >= ExecTimeout
    /\ WriteCancelled(j, a)
    /\ SetTask(j, a, [task[j][a] EXCEPT !.pc = "timedout", !.age = 0, !.seen = Unloaded])
    /\ UNCHANGED <<active, polling, phase, outages, overrun>>

LoadTimedOut(j, a) ==
    /\ task[j][a].pc = "timedout"
    /\ Goto(j, a, "requeueing", View(row[j]))
    /\ UNCHANGED <<row, active, polling, phase, outages, overrun>>

-----------------------------------------------------------------------------
(* The cleanup loop, shutdown, crashes and time *)

(* Mutant: any old lock is released, whatever the status of the row. *)
Stale_AnyStatus(j) == row[j].lockedBy # NoWorker /\ row[j].lockAge > LockTimeout

Stale(j) ==
    /\ row[j].status = "running"
    /\ row[j].lockedBy # NoWorker
    /\ row[j].lockAge > LockTimeout

ReleaseStaleLocks(w) ==
    /\ phase[w] # "down"
    /\ \E j \in Jobs : Stale(j)
    /\ row' = [j \in Jobs |->
                 IF Stale(j) THEN [row[j] EXCEPT !.status = "queued",
                                                 !.lockedBy = NoWorker, !.lockAge = 0]
                             ELSE row[j]]
    /\ overrun' = [j \in Jobs |->
                     overrun[j] \/ (Stale(j) /\ \E a \in Attempts : Live(j, a))]
    /\ UNCHANGED <<task, active, polling, phase, outages>>

Stop(w) ==
    /\ phase[w] = "up"
    /\ outages < MaxOutages
    /\ phase' = [phase EXCEPT ![w] = "stopping"]
    /\ outages' = outages + 1
    /\ UNCHANGED <<row, task, active, polling, overrun>>

(***************************************************************************)
(* stop() waits 30 seconds; the wait_for then cancels the gathered tasks,  *)
(* and the event loop cancels what is left when it closes.                 *)
(***************************************************************************)
ShutdownCancel(j, a) ==
    /\ Live(j, a)
    /\ phase[task[j][a].worker] = "stopping"
    /\ WriteCancelled(j, a)
    /\ EndTask(j, a)
    /\ UNCHANGED <<polling, phase, outages, overrun>>

Stopped(w) ==
    /\ phase[w] = "stopping"
    /\ ~polling[w]
    /\ LiveJobs(w) = {}
    /\ phase' = [phase EXCEPT ![w] = "down"]
    /\ UNCHANGED <<row, task, active, polling, outages, overrun>>

Crash(w) ==
    /\ phase[w] # "down"
    /\ outages < MaxOutages
    /\ phase' = [phase EXCEPT ![w] = "down"]
    /\ outages' = outages + 1
    /\ task' = [j \in Jobs |-> [a \in Attempts |->
                  IF task[j][a].worker = w THEN NoTask ELSE task[j][a]]]
    /\ active' = [active EXCEPT ![w] = {}]
    /\ polling' = [polling EXCEPT ![w] = FALSE]
    /\ UNCHANGED <<row, overrun>>

Restart(w) ==
    /\ phase[w] = "down"
    /\ phase' = [phase EXCEPT ![w] = "up"]
    /\ UNCHANGED <<row, task, active, polling, outages, overrun>>

Older(age, limit) == IF age < limit THEN age + 1 ELSE age

(* Ages beyond the timeouts are alike: they saturate. *)
Tick ==
    /\ row' = [j \in Jobs |->
                 [row[j] EXCEPT !.lockAge = IF row[j].lockedBy # NoWorker
                                            THEN Older(@, LockTimeout + 1) ELSE @,
                                !.delay = IF @ > 0 THEN @ - 1 ELSE 0]]
    /\ task' = [j \in Jobs |-> [a \in Attempts |->
                  [task[j][a] EXCEPT !.age = IF task[j][a].pc \in Timed
                                             THEN Older(@, ExecTimeout) ELSE 0]]]
    /\ UNCHANGED <<active, polling, phase, outages, overrun>>

-----------------------------------------------------------------------------

(* Every step with which an execution can get nearer to its end. *)
Advance(j, a) ==
    \/ Load(j, a) \/ Unhandled(j, a)
    \/ Retry(j, a) \/ DeadLetter(j, a) \/ AuditDone(j, a) \/ GiveUp(j, a)
    \/ Timeout(j, a) \/ LoadTimedOut(j, a) \/ ShutdownCancel(j, a)

Execution(j, a) ==
    \/ Advance(j, a)
    \/ Complete(j, a)
    \/ HandlerFails(j, a)

Worker(w) ==
    \/ PollBegin(w)
    \/ \E j \in Jobs : Acquire(w, j)
    \/ AcquireNothing(w)
    \/ ReleaseStaleLocks(w)
    \/ Stop(w) \/ Stopped(w) \/ Crash(w) \/ Restart(w)

Next ==
    \/ \E j \in Jobs : InsertJob(j)
    \/ \E w \in Workers : Worker(w)
    \/ \E j \in Jobs, a \in Attempts : Execution(j, a)
    \/ Tick

Spec == Init /\ [][Next]_vars

(***************************************************************************)
(* Fairness.  Time passes, the event loop runs every ready task, every     *)
(* database call of an execution returns or raises, and a process that is  *)
(* down is restarted (restart: always).  The handler itself promises       *)
(* nothing.  A poll may fail, but not for ever when it has a candidate.    *)
(***************************************************************************)
Fairness ==
    /\ WF_vars(Tick)
    /\ \A j \in Jobs, a \in Attempts : WF_vars(Advance(j, a))
    /\ WF_vars(\E w \in Workers : ReleaseStaleLocks(w))
    /\ \A w \in Workers :
         /\ WF_vars(PollBegin(w))
         /\ SF_vars(\E j \in Jobs : Acquire(w, j))
         /\ WF_vars(Restart(w))
         /\ WF_vars(Stopped(w))

FairSpec == Spec /\ Fairness

-----------------------------------------------------------------------------
(* Properties *)

Executing(j) == {a \in Attempts : Live(j, a)}

(***************************************************************************)
(* The lock is the only thing between two executions of a job, and nothing *)
(* that an execution writes checks that it still holds it.  Until a stale  *)
(* release takes the lock of a live execution, the lock does protect: only *)
(* the newest attempt executes, nobody can acquire the row meanwhile, and  *)
(* until its outcome is written the row says who runs it.                  *)
(***************************************************************************)
LockProtects ==
    \A j \in Jobs : ~overrun[j] =>
        \A a \in Executing(j) :
            /\ a = row[j].attempts
            /\ row[j].status \in {"running"} \cup Settled
            /\ task[j][a].pc \in {"acquired", "handling", "failing"} =>
                 /\ row[j].status = "running"
                 /\ row[j].lockedBy = task[j][a].worker

(***************************************************************************)
(* _active_jobs, keyed by job and popped by job, knows every execution of  *)
(* its worker, so that max_concurrent bounds them and stop() waits for     *)
(* them all, as long as no live execution lost its lock.                   *)
(***************************************************************************)
CapacityRespected ==
    (\A j \in Jobs : ~overrun[j]) =>
        \A w \in Workers :
            /\ LiveJobs(w) = active[w]
            /\ Cardinality(LiveJobs(w)) <= MaxConcurrent

(***************************************************************************)
(* A row is dead-lettered only when its attempts are used up or nothing    *)
(* can handle it, whichever of its executions, with whatever it had        *)
(* loaded, writes last.                                                    *)
(***************************************************************************)
DeadLetterIsDeserved ==
    \A j \in Jobs : row[j].status = "dead_letter" =>
        row[j].attempts = MaxAttempts \/ j \in NoHandler

(***************************************************************************)
(* Once a row is settled and its last execution has ended, it stays so.    *)
(***************************************************************************)
SettledStays ==
    [][\A j \in Jobs : row[j].status \in Settled /\ Executing(j) = {}
                            => row'[j].status = row[j].status]_vars

(***************************************************************************)
(* A row the runner has forgotten: queued by the cleanup loop when its     *)
(* last attempt was already spent, or left running without a lock by the   *)
(* late write of an execution that had lost it.  No query of the runner    *)
(* finds it again.                                                         *)
(***************************************************************************)
Stranded(j) ==
    /\ Executing(j) = {}
    /\ \/ row[j].status \in Waiting /\ row[j].attempts = MaxAttempts
       \/ row[j].status = "running" /\ row[j].lockedBy = NoWorker

(***************************************************************************)
(* Every inserted job comes to rest: its row is settled (or stranded), for *)
(* good, however its executions hang, fail, overlap or die.                *)
(***************************************************************************)
ComesToRest ==
    \A j \in Jobs : (row[j].status # "absent") ~>
        [](Executing(j) = {} /\ (row[j].status \in Settled \/ Stranded(j)))

-----------------------------------------------------------------------------
(* What the code's docs promise and the code does not keep *)

(***************************************************************************)
(* "No double execution (locking)", job_runner.py:7: at no time do two     *)
(* executions of a job exist.                                              *)
(***************************************************************************)
NoDoubleExecution == \A j \in Jobs : Cardinality(Executing(j)) <= 1
=============================================================================
