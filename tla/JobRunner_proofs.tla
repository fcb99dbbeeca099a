-------------------------- MODULE JobRunner_proofs --------------------------
(***************************************************************************)
(* Proofs about JobRunner, for any jobs, workers, timeouts and bounds.     *)
(*                                                                         *)
(* The argument for LockProtects: an unlocked row (pending or queued) has  *)
(* no live execution as long as no lock was stolen, so the only execution  *)
(* a poll can add is the first one; every write that puts the row back in  *)
(* the queue is the last step of that one execution; and the cleanup loop, *)
(* the one writer that is not an execution, sets overrun when it takes the *)
(* lock of a live one.                                                     *)
(*                                                                         *)
(* Dead letters need what the sessions remember, and the capacity needs    *)
(* the lock: a job's key is popped by whichever of its executions ends.    *)
(***************************************************************************)
EXTENDS JobRunner, TLAPS, FiniteSetTheorems

(***************************************************************************)
(* What the ORM writes is a row again.                                     *)
(***************************************************************************)
LEMMA FlushType ==
    ASSUME NEW r \in Row, NEW seen \in Views, NEW s \in Status
    PROVE  /\ Flush(r, seen, s) \in Row
           /\ Flush(r, seen, s).attempts = r.attempts
  BY DEF Flush, Row, Views

(***************************************************************************)
(* What a session remembers of a row.                                      *)
(***************************************************************************)
LEMMA ViewType ==
    ASSUME NEW r \in Row
    PROVE  View(r) \in Views
  BY DEF View, Views, Row

LEMMA NoTaskType == NoTask \in Task /\ Unloaded \in Views
  BY ConstantsAssumption DEF NoTask, Task, PC, Timed, Unloaded, Views, Status, Attempts

(***************************************************************************)
(* Replacing one task changes that task and no other.                      *)
(***************************************************************************)
LEMMA SetTaskEffect ==
    ASSUME NEW j \in Jobs, NEW a \in Attempts, NEW t \in Task,
           task \in [Jobs -> [Attempts -> Task]], SetTask(j, a, t)
    PROVE  /\ task' \in [Jobs -> [Attempts -> Task]]
           /\ task'[j][a] = t
           /\ \A k \in Jobs, b \in Attempts :
                 k # j \/ b # a => task'[k][b] = task[k][b]
  BY DEF SetTask

(***************************************************************************)
(* Moving a task to another pc keeps its worker and its age.               *)
(***************************************************************************)
LEMMA MovedTask ==
    ASSUME NEW t \in Task, NEW pc \in PC, NEW seen \in Views
    PROVE  /\ [t EXCEPT !.pc = pc, !.seen = seen] \in Task
           /\ [t EXCEPT !.pc = pc, !.seen = seen].pc = pc
           /\ [t EXCEPT !.pc = pc, !.seen = seen].worker = t.worker
  BY DEF Task

LEMMA TimedOutTask ==
    ASSUME NEW t \in Task
    PROVE  LET u == [t EXCEPT !.pc = "timedout", !.age = 0, !.seen = Unloaded]
           IN  u \in Task /\ u.pc = "timedout" /\ u.worker = t.worker
  BY NoTaskType DEF Task, PC, Timed

(***************************************************************************)
(* The pieces of the actions keep the types of what they change.           *)
(***************************************************************************)
LEMMA WriteType ==
    ASSUME TypeOK, NEW j \in Jobs, NEW r \in Row, Write(j, r)
    PROVE  row' \in [Jobs -> Row]
  BY DEF Write, TypeOK

LEMMA EndTaskType ==
    ASSUME TypeOK, NEW j \in Jobs, NEW a \in Attempts, EndTask(j, a)
    PROVE  /\ task' \in [Jobs -> [Attempts -> Task]]
           /\ active' \in [Workers -> SUBSET Jobs]
<1>1. task' \in [Jobs -> [Attempts -> Task]]
  BY NoTaskType, SetTaskEffect DEF EndTask, TypeOK
<1>2. active' \in [Workers -> SUBSET Jobs]
  BY DEF EndTask, TypeOK
<1>3. QED
  BY <1>1, <1>2

LEMMA GotoType ==
    ASSUME TypeOK, NEW j \in Jobs, NEW a \in Attempts, NEW pc \in PC, NEW seen \in Views,
           Goto(j, a, pc, seen)
    PROVE  task' \in [Jobs -> [Attempts -> Task]]
<1>1. task[j][a] \in Task
  BY DEF TypeOK
<1>2. [task[j][a] EXCEPT !.pc = pc, !.seen = seen] \in Task
  BY <1>1, MovedTask
<1>3. QED
  BY <1>2, SetTaskEffect DEF Goto, TypeOK

LEMMA WriteCancelledType ==
    ASSUME TypeOK, NEW j \in Jobs, NEW a \in Attempts, WriteCancelled(j, a)
    PROVE  row' \in [Jobs -> Row]
<1>1. task[j][a].seen \in Views /\ row[j] \in Row
  BY DEF TypeOK, Task
<1>2. Flush(row[j], task[j][a].seen, "cancelled") \in Row
  BY <1>1, FlushType DEF Status
<1>3. QED
  BY <1>2, WriteType DEF WriteCancelled, TypeOK

LEMMA LockedRow ==
    ASSUME NEW r \in Row, NEW w \in Workers, r.attempts + 1 \in Attempts
    PROVE  [r EXCEPT !.status = "running", !.lockedBy = w,
                     !.lockAge = 0, !.attempts = @ + 1] \in Row
  BY DEF Row, Status

-----------------------------------------------------------------------------
(* Types *)

LEMMA InitType == Init => TypeOK
  BY ConstantsAssumption, NoTaskType
  DEF Init, TypeOK, Row, Status, Attempts

(***************************************************************************)
(* Every action keeps the types.                                           *)
(***************************************************************************)
LEMMA NextType == TypeOK /\ [Next]_vars => TypeOK'
<1> SUFFICES ASSUME TypeOK, [Next]_vars
             PROVE  TypeOK'
  OBVIOUS
<1> USE DEF TypeOK
<1>1. ASSUME NEW j \in Jobs, InsertJob(j) PROVE TypeOK'
  <2>1. [row[j] EXCEPT !.status = "pending"] \in Row
    BY DEF Row, Status
  <2>2. QED
    BY <1>1, WriteType, <2>1 DEF InsertJob
<1>2. ASSUME NEW w \in Workers, Worker(w) PROVE TypeOK'
  <2>1. CASE PollBegin(w)
    BY <2>1 DEF PollBegin
  <2>2. ASSUME NEW j \in Jobs, Acquire(w, j) PROVE TypeOK'
    <3>1. row[j].attempts + 1 \in Attempts
      BY <2>2, ConstantsAssumption DEF Acquire, Eligible, Row, Attempts
    <3>2. [row[j] EXCEPT !.status = "running", !.lockedBy = w,
                         !.lockAge = 0, !.attempts = @ + 1] \in Row
      BY <3>1, LockedRow
    <3>3. row' \in [Jobs -> Row]
      BY <2>2, <3>2, WriteType DEF Acquire
    <3>4. [pc |-> "acquired", worker |-> w, age |-> 0, seen |-> Unloaded] \in Task
      BY NoTaskType DEF Task, PC, Timed
    <3>5. task' \in [Jobs -> [Attempts -> Task]]
      BY <2>2, <3>1, <3>4, SetTaskEffect DEF Acquire
    <3>6. QED
      BY <2>2, <3>3, <3>5 DEF Acquire
  <2>3. CASE AcquireNothing(w)
    BY <2>3 DEF AcquireNothing
  <2>4. CASE ReleaseStaleLocks(w)
    <3>1. \A j \in Jobs : [row[j] EXCEPT !.status = "queued",
                                         !.lockedBy = NoWorker, !.lockAge = 0] \in Row
      BY DEF Row, Status
    <3>2. row' \in [Jobs -> Row]
      BY <2>4, <3>1 DEF ReleaseStaleLocks
    <3>3. overrun' \in [Jobs -> BOOLEAN]
      BY <2>4 DEF ReleaseStaleLocks
    <3>4. QED
      BY <2>4, <3>2, <3>3 DEF ReleaseStaleLocks
  <2>5. CASE Stop(w)
    BY <2>5, ConstantsAssumption DEF Stop
  <2>6. CASE Stopped(w)
    BY <2>6 DEF Stopped
  <2>7. CASE Crash(w)
    <3>1. task' \in [Jobs -> [Attempts -> Task]]
      BY <2>7, NoTaskType DEF Crash
    <3>2. QED
      BY <2>7, <3>1, ConstantsAssumption DEF Crash
  <2>8. CASE Restart(w)
    BY <2>8 DEF Restart
  <2>9. QED
    BY <1>2, <2>1, <2>2, <2>3, <2>4, <2>5, <2>6, <2>7, <2>8 DEF Worker
<1>3. ASSUME NEW j \in Jobs, NEW a \in Attempts, Execution(j, a) PROVE TypeOK'
  <2> DEFINE t == task[j][a]
  <2>t. t \in Task /\ t.seen \in Views /\ row[j] \in Row
    BY DEF Task
  <2>1. CASE Load(j, a)
    BY <2>1, GotoType, ViewType DEF Load, PC, Timed
  <2>2. ASSUME NEW s \in {"completed", "dead_letter"}, Conclude(j, a, s) PROVE TypeOK'
    <3>1. s \in Status
      BY DEF Status
    <3>2. row' \in [Jobs -> Row]
      BY <2>2, <2>t, <3>1, WriteType, FlushType DEF Conclude
    <3>3. [t.seen EXCEPT !.status = s, !.locked = FALSE] \in Views
      BY <2>t, <3>1 DEF Views
    <3>4. task' \in [Jobs -> [Attempts -> Task]]
      BY <2>2, <3>3, GotoType DEF Conclude, PC, Timed
    <3>5. QED
      BY <2>2, <3>2, <3>4 DEF Conclude
  <2>3. CASE HandlerFails(j, a)
    BY <2>3, GotoType, ViewType DEF HandlerFails, PC, Timed
  <2>4. CASE Retry(j, a)
    <3>1. t.seen.attempts \in Attempts
      BY <2>t DEF Views
    <3>2. Backoff[t.seen.attempts] \in Nat
      BY <3>1, BackoffAssumption
    <3>3. Flush(row[j], t.seen, "queued") \in Row
      BY <2>t, FlushType DEF Status
    <3>4. [Flush(row[j], t.seen, "queued") EXCEPT !.delay = Backoff[t.seen.attempts]] \in Row
      BY <3>2, <3>3 DEF Row
    <3>5. QED
      BY <2>4, <3>4, WriteType, EndTaskType DEF Retry
  <2>5. CASE DeadLetter(j, a)
    <3>1. row' \in [Jobs -> Row]
      BY <2>5, <2>t, WriteType, FlushType DEF DeadLetter, Status
    <3>2. task' \in [Jobs -> [Attempts -> Task]]
      BY <2>5, <2>t, GotoType DEF DeadLetter, PC, Timed
    <3>3. QED
      BY <2>5, <3>1, <3>2 DEF DeadLetter
  <2>6. CASE AuditDone(j, a)
    BY <2>6, EndTaskType DEF AuditDone
  <2>7. CASE GiveUp(j, a)
    BY <2>7, EndTaskType DEF GiveUp
  <2>8. CASE Timeout(j, a)
    <3>1. task' \in [Jobs -> [Attempts -> Task]]
      BY <2>8, <2>t, TimedOutTask, SetTaskEffect DEF Timeout
    <3>2. QED
      BY <2>8, <3>1, WriteCancelledType DEF Timeout
  <2>9. CASE LoadTimedOut(j, a)
    BY <2>9, GotoType, ViewType DEF LoadTimedOut, PC
  <2>10. CASE ShutdownCancel(j, a)
    BY <2>10, WriteCancelledType, EndTaskType DEF ShutdownCancel
  <2>11. QED
    BY <1>3, <2>1, <2>2, <2>3, <2>4, <2>5, <2>6, <2>7, <2>8, <2>9, <2>10
    DEF Execution, Advance, Complete, Unhandled
<1>4. CASE Tick
  <2>1. \A n, m \in Nat : Older(n, m) \in Nat
    BY DEF Older
  <2>2. ASSUME NEW j \in Jobs PROVE row'[j] \in Row
    <3> DEFINE x == IF row[j].lockedBy # NoWorker
                    THEN Older(row[j].lockAge, LockTimeout + 1) ELSE row[j].lockAge
               y == IF row[j].delay > 0 THEN row[j].delay - 1 ELSE 0
    <3>1. row[j] \in Row /\ row[j].lockAge \in Nat /\ row[j].delay \in Nat
      BY DEF Row
    <3>2a. LockTimeout + 1 \in Nat
      BY ConstantsAssumption
    <3>2b. x \in Nat
      BY <2>1, <3>1, <3>2a
    <3>2c. y \in Nat
      BY <3>1
    <3>2. x \in Nat /\ y \in Nat
      BY <3>2b, <3>2c
    <3>3. row'[j] = [row[j] EXCEPT !.lockAge = x, !.delay = y]
      BY <1>4 DEF Tick
    <3> HIDE DEF x, y
    <3>4. QED
      BY <3>1, <3>2, <3>3 DEF Row
  <2>3. ASSUME NEW j \in Jobs, NEW a \in Attempts PROVE task'[j][a] \in Task
    <3> DEFINE x == IF task[j][a].pc \in Timed THEN Older(task[j][a].age, ExecTimeout) ELSE 0
    <3>1. task[j][a] \in Task /\ task[j][a].age \in Nat
      BY DEF Task
    <3>2. x \in Nat
      BY <2>1, <3>1, ConstantsAssumption
    <3>3. task'[j][a] = [task[j][a] EXCEPT !.age = x]
      BY <1>4 DEF Tick
    <3> HIDE DEF x
    <3>4. QED
      BY <3>1, <3>2, <3>3 DEF Task
  <2>5. row' \in [Jobs -> Row] /\ task' \in [Jobs -> [Attempts -> Task]]
    BY <1>4, <2>2, <2>3 DEF Tick
  <2>6. QED
    BY <1>4, <2>5 DEF Tick
<1>5. CASE UNCHANGED vars
  BY <1>5 DEF vars
<1>6. QED
  BY <1>1, <1>2, <1>3, <1>4, <1>5 DEF Next

(***************************************************************************)
(* The variables keep their types.                                         *)
(***************************************************************************)
THEOREM TypeCorrect == Spec => []TypeOK
  BY InitType, NextType, PTL DEF Spec

-----------------------------------------------------------------------------
(* The lock *)

(***************************************************************************)
(* What one step does to the executions and the row of job k, told apart   *)
(* by who takes it.  LockProtects is preserved by each kind.               *)
(***************************************************************************)
Same(k) == row'[k] = row[k] /\ task'[k] = task[k]

LockOf(k) == ~overrun[k] =>
    \A a \in Executing(k) :
        /\ a = row[k].attempts
        /\ row[k].status \in {"running"} \cup Settled
        /\ task[k][a].pc \in {"acquired", "handling", "failing"} =>
             /\ row[k].status = "running"
             /\ row[k].lockedBy = task[k][a].worker

(***************************************************************************)
(* A job the step does not touch keeps its lock's promise.                 *)
(***************************************************************************)
LEMMA Untouched ==
    ASSUME NEW k \in Jobs, LockOf(k), Same(k), overrun'[k] = overrun[k]
    PROVE  LockOf(k)'
  BY DEF LockOf, Same, Executing, Live

(***************************************************************************)
(* A step of execution a of job k, the only one if the lock protects, that *)
(* ends the execution, keeps the row's lock, or moves on to a later pc     *)
(* with the row out of the queue.                                          *)
(***************************************************************************)
LEMMA OwnStep ==
    ASSUME NEW k \in Jobs, NEW a \in Attempts, LockOf(k), Live(k, a),
           overrun'[k] = overrun[k], row'[k].attempts = row[k].attempts,
           \A b \in Attempts : b # a => task'[k][b] = task[k][b],
           \/ task'[k][a].pc = "idle"
           \/ /\ row'[k].status \in {row[k].status} \cup Settled
              /\ task'[k][a].pc \notin {"acquired", "handling", "failing"}
           \/ /\ row'[k] = row[k]
              /\ task'[k][a].worker = task[k][a].worker
              /\ task[k][a].pc \in {"acquired", "handling", "failing"}
    PROVE  LockOf(k)'
  BY DEF LockOf, Executing, Live

(***************************************************************************)
(* Cancellation writes the row of its own job, and only to cancelled.      *)
(***************************************************************************)
LEMMA CancelledEffect ==
    ASSUME TypeOK, NEW j \in Jobs, NEW a \in Attempts, WriteCancelled(j, a)
    PROVE  /\ \A k \in Jobs \ {j} : row'[k] = row[k]
           /\ row'[j].attempts = row[j].attempts
           /\ row'[j].status \in {row[j].status} \cup Settled
  BY DEF WriteCancelled, Write, Flush, Settled, TypeOK

(***************************************************************************)
(* One step of an execution: other jobs keep everything, the job's other   *)
(* executions too, and the row and the execution change as OwnStep needs.  *)
(***************************************************************************)
LEMMA ExecutionEffect ==
    ASSUME TypeOK, NEW j \in Jobs, NEW a \in Attempts, Execution(j, a)
    PROVE  /\ overrun' = overrun
           /\ \A k \in Jobs \ {j} : Same(k)
           /\ Live(j, a)
           /\ row'[j].attempts = row[j].attempts
           /\ \A b \in Attempts : b # a => task'[j][b] = task[j][b]
           /\ \/ task'[j][a].pc = "idle"
              \/ /\ row'[j].status \in {row[j].status} \cup Settled
                 /\ task'[j][a].pc \notin {"acquired", "handling", "failing"}
              \/ /\ row'[j] = row[j]
                 /\ task'[j][a].worker = task[j][a].worker
                 /\ task[j][a].pc \in {"acquired", "handling", "failing"}
<1> DEFINE t == task[j][a]
<1>t. t \in Task /\ t.seen \in Views /\ row[j] \in Row /\ row \in [Jobs -> Row]
  BY DEF Task, TypeOK
<1>s. ASSUME NEW u \in Task, SetTask(j, a, u)
      PROVE  /\ task'[j][a] = u
             /\ \A k \in Jobs \ {j} : task'[k] = task[k]
             /\ \A b \in Attempts : b # a => task'[j][b] = task[j][b]
  BY <1>s DEF SetTask, TypeOK
<1>w. ASSUME NEW r \in Row, Write(j, r)
      PROVE  row'[j] = r /\ \A k \in Jobs \ {j} : row'[k] = row[k]
  BY <1>w, <1>t DEF Write
<1>e. ASSUME EndTask(j, a)
      PROVE  /\ task'[j][a].pc = "idle"
             /\ \A k \in Jobs \ {j} : task'[k] = task[k]
             /\ \A b \in Attempts : b # a => task'[j][b] = task[j][b]
  <2>1. NoTask.pc = "idle"
    BY DEF NoTask
  <2>2. QED
    BY <1>e, <1>s, <2>1, NoTaskType DEF EndTask
<1>g. ASSUME NEW pc \in PC, NEW seen \in Views, Goto(j, a, pc, seen)
      PROVE  /\ task'[j][a].pc = pc
             /\ task'[j][a].worker = t.worker
             /\ \A k \in Jobs \ {j} : task'[k] = task[k]
             /\ \A b \in Attempts : b # a => task'[j][b] = task[j][b]
  <2> DEFINE u == [t EXCEPT !.pc = pc, !.seen = seen]
  <2>1. u \in Task /\ u.pc = pc /\ u.worker = t.worker
    BY <1>t DEF Task
  <2>2. SetTask(j, a, u)
    BY <1>g DEF Goto
  <2> HIDE DEF u
  <2>3. QED
    BY <1>s, <2>1, <2>2
<1>1. CASE Load(j, a)
  <2>1. View(row[j]) \in Views /\ "handling" \in PC
    BY <1>t, ViewType DEF PC, Timed
  <2>2. QED
    BY <1>1, <2>1, <1>g DEF Load, Live, Same
<1>2. ASSUME NEW s \in {"completed", "dead_letter"}, Conclude(j, a, s)
      PROVE  /\ overrun' = overrun
             /\ \A k \in Jobs \ {j} : Same(k)
             /\ Live(j, a)
             /\ row'[j].attempts = row[j].attempts
             /\ \A b \in Attempts : b # a => task'[j][b] = task[j][b]
             /\ row'[j].status \in {row[j].status} \cup Settled
             /\ task'[j][a].pc = "auditing"
  <2>1. s \in Status /\ s \in Settled /\ "auditing" \in PC
    BY DEF Status, Settled, PC, Timed
  <2>2. Flush(row[j], t.seen, s) \in Row /\ Flush(row[j], t.seen, s).attempts = row[j].attempts
    BY <1>t, <2>1, FlushType
  <2>3. Flush(row[j], t.seen, s).status \in {row[j].status} \cup Settled
    BY <2>1 DEF Flush
  <2>4. [t.seen EXCEPT !.status = s, !.locked = FALSE] \in Views
    BY <1>t, <2>1 DEF Views
  <2>5. QED
    BY <1>2, <1>w, <1>g, <2>1, <2>2, <2>3, <2>4 DEF Conclude, Live, Same
<1>3. CASE HandlerFails(j, a)
  <2>1. View(row[j]) \in Views /\ "failing" \in PC
    BY <1>t, ViewType DEF PC, Timed
  <2>2. QED
    BY <1>3, <2>1, <1>g DEF HandlerFails, Live, Same
<1>4. CASE Retry(j, a)
  <2> DEFINE f == Flush(row[j], t.seen, "queued")
             r == [f EXCEPT !.delay = Backoff[t.seen.attempts]]
  <2>1. f \in Row /\ f.attempts = row[j].attempts
    BY <1>t, FlushType DEF Status
  <2>2. Backoff[t.seen.attempts] \in Nat
    BY <1>t, BackoffAssumption DEF Views
  <2>3. r \in Row /\ r.attempts = row[j].attempts
    BY <2>1, <2>2 DEF Row
  <2>4. Write(j, r)
    BY <1>4 DEF Retry
  <2> HIDE DEF r
  <2>5. QED
    BY <1>4, <1>w, <1>e, <2>3, <2>4 DEF Retry, Live, Same
<1>5. CASE DeadLetter(j, a)
  <2> DEFINE f == Flush(row[j], t.seen, "dead_letter")
             pc == IF t.pc = "failing" THEN "buried" ELSE "closing"
  <2>1. f \in Row /\ f.attempts = row[j].attempts
    BY <1>t, FlushType DEF Status
  <2>2. f.status \in {row[j].status} \cup Settled
    BY DEF Flush, Settled
  <2>3. pc \in PC /\ pc \notin {"acquired", "handling", "failing"}
    BY DEF PC, Timed
  <2>4. Write(j, f) /\ Goto(j, a, pc, t.seen)
    BY <1>5 DEF DeadLetter
  <2> HIDE DEF f, pc
  <2>5. QED
    BY <1>5, <1>t, <1>w, <1>g, <2>1, <2>2, <2>3, <2>4 DEF DeadLetter, Live, Same
<1>6. CASE AuditDone(j, a)
  BY <1>6, <1>e DEF AuditDone, Live, Same
<1>7. CASE GiveUp(j, a)
  BY <1>7, <1>e DEF GiveUp, Live, Same
<1>8. CASE Timeout(j, a)
  <2> DEFINE u == [t EXCEPT !.pc = "timedout", !.age = 0, !.seen = Unloaded]
  <2>1. u \in Task /\ u.pc = "timedout" /\ u.worker = t.worker
    BY <1>t, TimedOutTask
  <2>2. SetTask(j, a, u)
    BY <1>8 DEF Timeout
  <2> HIDE DEF u
  <2>3. QED
    BY <1>8, <1>s, <2>1, <2>2, CancelledEffect DEF Timeout, Live, Same, Timed
<1>9. CASE LoadTimedOut(j, a)
  <2>1. View(row[j]) \in Views /\ "requeueing" \in PC
    BY <1>t, ViewType DEF PC
  <2>2. QED
    BY <1>9, <2>1, <1>g DEF LoadTimedOut, Live, Same
<1>10. CASE ShutdownCancel(j, a)
  BY <1>10, <1>e, CancelledEffect DEF ShutdownCancel, Live, Same
<1>11. QED
  BY <1>1, <1>2, <1>3, <1>4, <1>5, <1>6, <1>7, <1>8, <1>9, <1>10
  DEF Execution, Advance, Complete, Unhandled

(***************************************************************************)
(* The inductive invariant of the lock.                                    *)
(***************************************************************************)
LEMMA LockInit == Init => \A k \in Jobs : LockOf(k)
  BY DEF Init, LockOf, Executing, Live, NoTask

LEMMA LockNext ==
    TypeOK /\ (\A k \in Jobs : LockOf(k)) /\ [Next]_vars => \A k \in Jobs : LockOf(k)'
<1> SUFFICES ASSUME TypeOK, \A k \in Jobs : LockOf(k), [Next]_vars, NEW k \in Jobs
             PROVE  LockOf(k)'
  OBVIOUS
<1>1. ASSUME NEW j \in Jobs, InsertJob(j) PROVE LockOf(k)'
  <2>1. CASE j = k
    (* an absent row has no execution *)
    BY <1>1, <2>1 DEF InsertJob, LockOf, Executing, Live, Settled
  <2>2. CASE j # k
    BY <1>1, <2>2, Untouched DEF InsertJob, Write, Same
  <2>3. QED
    BY <2>1, <2>2
<1>2. ASSUME NEW w \in Workers, Worker(w) PROVE LockOf(k)'
  <2>1. CASE UNCHANGED <<row, task, overrun>>
    BY <2>1, Untouched DEF Same
  <2>2. ASSUME NEW j \in Jobs, Acquire(w, j) PROVE LockOf(k)'
    <3> DEFINE n == row[j].attempts + 1
               u == [pc |-> "acquired", worker |-> w, age |-> 0, seen |-> Unloaded]
    <3>1. n \in Attempts
      BY <2>2, ConstantsAssumption DEF Acquire, Eligible, Row, Attempts, TypeOK
    <3>2. u \in Task /\ SetTask(j, n, u)
      BY <2>2, NoTaskType DEF Acquire, Task, PC, Timed
    <3>3. /\ task'[j][n] = u
          /\ \A i \in Jobs, b \in Attempts : i # j \/ b # n => task'[i][b] = task[i][b]
          /\ task' \in [Jobs -> [Attempts -> Task]]
      BY <3>1, <3>2, SetTaskEffect DEF TypeOK
    <3>4. CASE j = k
      <4>1. ~overrun[k] => \A b \in Attempts : ~Live(k, b)
        BY <2>2, <3>4 DEF Acquire, Eligible, Waiting, Settled, LockOf, Executing
      <4>2. row'[k].status = "running" /\ row'[k].lockedBy = w /\ row'[k].attempts = n
        BY <2>2, <3>4 DEF Acquire, Write, TypeOK, Row
      <4>3. overrun' = overrun
        BY <2>2 DEF Acquire
      <4>4. QED
        BY <3>3, <3>4, <4>1, <4>2, <4>3 DEF LockOf, Executing, Live
    <3>5. CASE j # k
      <4>1. task'[k] = task[k]
        BY <3>2, <3>5 DEF SetTask, TypeOK
      <4>2. row'[k] = row[k] /\ overrun' = overrun
        BY <2>2, <3>5 DEF Acquire, Write
      <4>3. QED
        BY <4>1, <4>2, Untouched DEF Same
    <3>6. QED
      BY <3>4, <3>5
  <2>3. CASE ReleaseStaleLocks(w)
    <3>1. CASE Stale(k) /\ \E a \in Attempts : Live(k, a)
      (* the lock is taken from a live execution: overrun *)
      BY <2>3, <3>1 DEF ReleaseStaleLocks, LockOf
    <3>2. CASE \A a \in Attempts : ~Live(k, a)
      BY <2>3, <3>2 DEF ReleaseStaleLocks, LockOf, Executing, Live
    <3>3. CASE ~Stale(k)
      BY <2>3, <3>3, Untouched DEF ReleaseStaleLocks, Same, TypeOK
    <3>4. QED
      BY <3>1, <3>2, <3>3
  <2>4. CASE Crash(w)
    <3>1. row' = row /\ overrun' = overrun
      BY <2>4 DEF Crash
    <3>2. \A a \in Attempts : task'[k][a] \in {NoTask, task[k][a]}
      BY <2>4 DEF Crash
    <3>3. QED
      BY <3>1, <3>2 DEF LockOf, Executing, Live, NoTask
  <2>5. QED
    BY <1>2, <2>1, <2>2, <2>3, <2>4
    DEF Worker, PollBegin, AcquireNothing, Stop, Stopped, Restart
<1>3. ASSUME NEW j \in Jobs, NEW a \in Attempts, Execution(j, a) PROVE LockOf(k)'
  <2>1. CASE j = k
    BY <1>3, <2>1, ExecutionEffect, OwnStep
  <2>2. CASE j # k
    BY <1>3, <2>2, ExecutionEffect, Untouched
  <2>3. QED
    BY <2>1, <2>2
<1>4. CASE Tick
  (* time changes neither a row's status and lock nor a task's pc and worker *)
  <2>1. /\ row'[k].status = row[k].status /\ row'[k].lockedBy = row[k].lockedBy
        /\ row'[k].attempts = row[k].attempts
    BY <1>4 DEF Tick, TypeOK, Row
  <2>2. ASSUME NEW a \in Attempts
        PROVE  task'[k][a].pc = task[k][a].pc /\ task'[k][a].worker = task[k][a].worker
    <3> DEFINE x == IF task[k][a].pc \in Timed THEN Older(task[k][a].age, ExecTimeout) ELSE 0
    <3>1. task'[k][a] = [task[k][a] EXCEPT !.age = x]
      BY <1>4 DEF Tick
    <3>2. task[k][a] \in Task
      BY DEF TypeOK
    <3> HIDE DEF x
    <3>3. QED
      BY <3>1, <3>2 DEF Task
  <2>3. overrun' = overrun
    BY <1>4 DEF Tick
  <2>4. QED
    BY <2>1, <2>2, <2>3 DEF LockOf, Executing, Live
<1>5. CASE UNCHANGED vars
  BY <1>5, Untouched DEF vars, Same
<1>6. QED
  BY <1>1, <1>2, <1>3, <1>4, <1>5 DEF Next

(***************************************************************************)
(* Until a lock is released under a live execution, at most one execution  *)
(* of a job is alive, and the row is its own (job_runner.py, _acquire_job  *)
(* against every writer of the row).                                       *)
(***************************************************************************)
THEOREM LockSafety == Spec => []LockProtects
<1> DEFINE IInv == TypeOK /\ \A k \in Jobs : LockOf(k)
<1>1. Init => IInv
  BY InitType, LockInit
<1>2. IInv /\ [Next]_vars => IInv'
  BY NextType, LockNext
<1>3. IInv => LockProtects
  BY DEF LockProtects, LockOf
<1>4. QED
  BY <1>1, <1>2, <1>3, PTL DEF Spec

(***************************************************************************)
(* A second execution of a job exists only after such a release.           *)
(***************************************************************************)
THEOREM DoubleNeedsOverrun ==
    Spec => [](\A j \in Jobs : ~overrun[j] =>
                 \A a, b \in Executing(j) : a = b)
<1>1. LockProtects => \A j \in Jobs : ~overrun[j] => \A a, b \in Executing(j) : a = b
  BY DEF LockProtects
<1>2. QED
  BY <1>1, LockSafety, PTL

-----------------------------------------------------------------------------
(* Settled rows *)

(***************************************************************************)
(* A settled row with no execution left never changes its status: only     *)
(* executions write to rows that are neither waiting nor running.          *)
(***************************************************************************)
LEMMA SettledStep ==
    ASSUME TypeOK, [Next]_vars, NEW k \in Jobs,
           row[k].status \in Settled, Executing(k) = {}
    PROVE  row'[k].status = row[k].status
<1>1. ASSUME NEW j \in Jobs, InsertJob(j) PROVE row'[k] = row[k]
  BY <1>1 DEF InsertJob, Write, Settled
<1>2. ASSUME NEW w \in Workers, Worker(w) PROVE row'[k] = row[k]
  <2>1. ASSUME NEW j \in Jobs, Acquire(w, j) PROVE row'[k] = row[k]
    BY <2>1 DEF Acquire, Write, Eligible, Waiting, Settled
  <2>2. CASE ReleaseStaleLocks(w)
    BY <2>2 DEF ReleaseStaleLocks, Stale, Settled
  <2>3. QED
    BY <1>2, <2>1, <2>2
    DEF Worker, PollBegin, AcquireNothing, Stop, Stopped, Restart, Crash
<1>3. ASSUME NEW j \in Jobs, NEW a \in Attempts, Execution(j, a) PROVE row'[k] = row[k]
  BY <1>3, ExecutionEffect DEF Executing, Same
<1>4. CASE Tick
  BY <1>4 DEF Tick, TypeOK, Row
<1>5. CASE UNCHANGED vars
  BY <1>5 DEF vars
<1>6. QED
  BY <1>1, <1>2, <1>3, <1>4, <1>5 DEF Next

(***************************************************************************)
(* Once a row is settled and its last execution has ended, it stays so.    *)
(***************************************************************************)
THEOREM SettledForGood == Spec => SettledStays
<1>1. TypeOK /\ [Next]_vars =>
        [\A j \in Jobs : row[j].status \in Settled /\ Executing(j) = {}
                            => row'[j].status = row[j].status]_vars
  BY SettledStep
<1>2. QED
  BY <1>1, TypeCorrect, PTL DEF Spec, SettledStays

-----------------------------------------------------------------------------
(* Dead letters *)

(***************************************************************************)
(* No session remembers more attempts than the row has, and the row of a   *)
(* job that can be handled is dead-lettered with all of them only.         *)
(***************************************************************************)
Remembers(k) == \A a \in Attempts : task[k][a].seen.attempts <= row[k].attempts

Deserved(k) == row[k].status = "dead_letter" => row[k].attempts = MaxAttempts \/ k \in NoHandler

LEMMA CancelledNotBuried ==
    ASSUME TypeOK, NEW j \in Jobs, NEW a \in Attempts, WriteCancelled(j, a)
    PROVE  /\ row'[j].attempts = row[j].attempts
           /\ row'[j].status = "dead_letter" => row[j].status = "dead_letter"
<1>1. CASE row' = row
  BY <1>1
<1>2. CASE Write(j, Flush(row[j], task[j][a].seen, "cancelled"))
  BY <1>2 DEF Write, Flush, TypeOK
<1> QED
  BY <1>1, <1>2 DEF WriteCancelled

(***************************************************************************)
(* What a step of an execution remembers afterwards, and when it buries    *)
(* its row.                                                                *)
(***************************************************************************)
LEMMA BuryEffect ==
    ASSUME TypeOK, NEW j \in Jobs, NEW a \in Attempts, Execution(j, a),
           Remembers(j), Deserved(j)
    PROVE  task'[j][a].seen.attempts <= row[j].attempts /\ Deserved(j)'
<1> DEFINE t == task[j][a]
<1>t. /\ t \in Task /\ t.seen \in Views /\ row[j] \in Row /\ row \in [Jobs -> Row]
      /\ t.seen.attempts \in 0..MaxAttempts /\ row[j].attempts \in 0..MaxAttempts
      /\ t.seen.attempts <= row[j].attempts
  BY DEF Task, TypeOK, Views, Row, Attempts, Remembers
<1>m. MaxAttempts \in Nat
  BY ConstantsAssumption
<1>s. ASSUME NEW u \in Task, SetTask(j, a, u)
      PROVE  task'[j][a] = u
  BY <1>s DEF SetTask, TypeOK
<1>w. ASSUME NEW r, Write(j, r)
      PROVE  row'[j] = r
  BY <1>w, <1>t DEF Write
<1>e. ASSUME EndTask(j, a) PROVE task'[j][a].seen.attempts <= row[j].attempts
  <2>1. NoTask.seen.attempts = 0
    BY DEF NoTask, Unloaded
  <2> QED
    BY <1>e, <1>s, <1>t, <2>1, NoTaskType DEF EndTask
<1>g. ASSUME NEW pc \in PC, NEW seen \in Views, Goto(j, a, pc, seen)
      PROVE  task'[j][a].seen = seen
  <2> DEFINE u == [t EXCEPT !.pc = pc, !.seen = seen]
  <2>1. u \in Task /\ u.seen = seen
    BY <1>t DEF Task
  <2>2. SetTask(j, a, u)
    BY <1>g DEF Goto
  <2> HIDE DEF u
  <2> QED
    BY <1>s, <2>1, <2>2
<1>v. View(row[j]) \in Views /\ View(row[j]).attempts = row[j].attempts
  BY <1>t, ViewType DEF View
<1>u. row'[j] = row[j] => Deserved(j)'
  BY DEF Deserved
<1>1. CASE Load(j, a) \/ HandlerFails(j, a) \/ LoadTimedOut(j, a)
  <2>1. {"handling", "failing", "requeueing"} \subseteq PC /\ row' = row
    BY <1>1 DEF PC, Timed, Load, HandlerFails, LoadTimedOut
  <2>2. \E pc \in PC : Goto(j, a, pc, View(row[j]))
    BY <1>1, <2>1 DEF Load, HandlerFails, LoadTimedOut
  <2>3. task'[j][a].seen = View(row[j])
    BY <1>g, <1>v, <2>2
  <2>4. row[j].attempts <= row[j].attempts
    BY <1>t
  <2> QED
    BY <1>u, <1>v, <2>1, <2>3, <2>4
<1>2. ASSUME NEW s \in {"completed", "dead_letter"}, Conclude(j, a, s),
             s = "dead_letter" => j \in NoHandler
      PROVE  task'[j][a].seen.attempts <= row[j].attempts /\ Deserved(j)'
  <2> DEFINE seen == [t.seen EXCEPT !.status = s, !.locked = FALSE]
  <2>1. seen \in Views /\ seen.attempts = t.seen.attempts /\ "auditing" \in PC
    BY <1>t DEF Views, Status, PC, Timed
  <2>2. Goto(j, a, "auditing", seen)
    BY <1>2 DEF Conclude
  <2>3. task'[j][a].seen.attempts <= row[j].attempts
    <3> HIDE DEF seen
    <3> QED
      BY <1>g, <1>t, <2>1, <2>2
  <2>4. row'[j] = Flush(row[j], t.seen, s)
    BY <1>2, <1>w DEF Conclude
  <2>5. Deserved(j)'
    BY <1>2, <2>4 DEF Deserved, Flush
  <2> QED
    BY <2>3, <2>5
<1>4. CASE Retry(j, a)
  <2> DEFINE f == Flush(row[j], t.seen, "queued")
             r == [f EXCEPT !.delay = Backoff[t.seen.attempts]]
  <2>1. f.attempts = row[j].attempts /\ f.status \in {"queued", row[j].status} /\ f \in Row
    BY <1>t, FlushType DEF Flush, Status
  <2>2. r.attempts = f.attempts /\ r.status = f.status
    BY <2>1 DEF Row
  <2>3. row'[j] = r
    BY <1>4, <1>w DEF Retry
  <2>4. EndTask(j, a)
    BY <1>4 DEF Retry
  <2> HIDE DEF f, r
  <2> QED
    BY <1>e, <2>1, <2>2, <2>3, <2>4 DEF Deserved
<1>5. CASE DeadLetter(j, a)
  <2> DEFINE pc == IF t.pc = "failing" THEN "buried" ELSE "closing"
  <2>1. pc \in PC /\ Goto(j, a, pc, t.seen) /\ t.seen.attempts >= MaxAttempts
    BY <1>5 DEF PC, Timed, DeadLetter
  <2>2. row'[j] = Flush(row[j], t.seen, "dead_letter")
    BY <1>5, <1>w DEF DeadLetter
  <2>3. row'[j].attempts = row[j].attempts
    BY <2>2 DEF Flush
  <2>4. row[j].attempts = MaxAttempts
    BY <1>t, <1>m, <2>1
  <2> HIDE DEF pc
  <2> QED
    BY <1>g, <1>t, <2>1, <2>3, <2>4 DEF Deserved
<1>6. CASE AuditDone(j, a) \/ GiveUp(j, a)
  BY <1>6, <1>e, <1>u DEF AuditDone, GiveUp
<1>7. CASE Timeout(j, a)
  <2> DEFINE u == [t EXCEPT !.pc = "timedout", !.age = 0, !.seen = Unloaded]
  <2>1. u \in Task /\ u.seen.attempts = 0
    BY <1>t, TimedOutTask DEF Task, Unloaded
  <2>2. SetTask(j, a, u) /\ WriteCancelled(j, a)
    BY <1>7 DEF Timeout
  <2> HIDE DEF u
  <2> QED
    BY <1>s, <1>t, <2>1, <2>2, CancelledNotBuried DEF Deserved
<1>8. CASE ShutdownCancel(j, a)
  BY <1>8, <1>e, CancelledNotBuried DEF ShutdownCancel, Deserved
<1> QED
  BY <1>1, <1>2, <1>4, <1>5, <1>6, <1>7, <1>8 DEF Execution, Advance, Complete, Unhandled

LEMMA BuryInit == Init => \A k \in Jobs : Remembers(k) /\ Deserved(k)
  BY ConstantsAssumption DEF Init, Remembers, Deserved, NoTask, Unloaded, Attempts

LEMMA BuryNext ==
    ASSUME TypeOK, [Next]_vars, NEW k \in Jobs, Remembers(k), Deserved(k)
    PROVE  Remembers(k)' /\ Deserved(k)'
<1>0. /\ row[k] \in Row /\ row[k].attempts \in 0..MaxAttempts /\ MaxAttempts \in Nat
      /\ \A a \in Attempts : task[k][a] \in Task /\ task[k][a].seen.attempts \in 0..MaxAttempts
  <2>1. row[k] \in Row /\ row[k].attempts \in 0..MaxAttempts /\ MaxAttempts \in Nat
    BY ConstantsAssumption DEF TypeOK, Row, Attempts
  <2>2. ASSUME NEW a \in Attempts
        PROVE  task[k][a] \in Task /\ task[k][a].seen.attempts \in 0..MaxAttempts
    <3>1. task[k][a] \in Task
      BY DEF TypeOK
    <3>2. task[k][a].seen \in Views
      BY <3>1 DEF Task
    <3> QED
      BY <3>1, <3>2 DEF Views, Attempts
  <2> QED
    BY <2>1, <2>2
<1>1. ASSUME NEW j \in Jobs, InsertJob(j) PROVE Remembers(k)' /\ Deserved(k)'
  <2>1. task' = task /\ row'[k].attempts = row[k].attempts
    BY <1>0, <1>1 DEF InsertJob, Write, TypeOK, Row
  <2>2. row'[k].status = "dead_letter" => row[k].status = "dead_letter"
    BY <1>0, <1>1 DEF InsertJob, Write, TypeOK, Row
  <2> QED
    BY <2>1, <2>2 DEF Remembers, Deserved
<1>2. ASSUME NEW w \in Workers, Worker(w) PROVE Remembers(k)' /\ Deserved(k)'
  <2>1. CASE UNCHANGED <<row, task>>
    BY <2>1 DEF Remembers, Deserved
  <2>2. ASSUME NEW j \in Jobs, Acquire(w, j) PROVE Remembers(k)' /\ Deserved(k)'
    <3> DEFINE n == row[j].attempts + 1
               u == [pc |-> "acquired", worker |-> w, age |-> 0, seen |-> Unloaded]
    <3>1. n \in Attempts
      BY <2>2, ConstantsAssumption DEF Acquire, Eligible, Row, Attempts, TypeOK
    <3>2. u \in Task /\ SetTask(j, n, u)
      BY <2>2, NoTaskType DEF Acquire, Task, PC, Timed
    <3>3. \A b \in Attempts : task'[k][b] = task[k][b] \/ task'[k][b].seen.attempts = 0
      <4>1. /\ task'[j][n] = u /\ u.seen.attempts = 0
            /\ \A i \in Jobs, b \in Attempts : i # j \/ b # n => task'[i][b] = task[i][b]
        BY <3>1, <3>2, SetTaskEffect DEF TypeOK, Unloaded
      <4> QED
        BY <4>1
    <3>4. \/ row'[k] = row[k]
          \/ row'[k].status = "running" /\ row'[k].attempts = row[k].attempts + 1
      BY <2>2, <1>0 DEF Acquire, Write, TypeOK, Row
    <3>5. row'[k].attempts \in Nat /\ row'[k].attempts >= row[k].attempts
      BY <1>0, <3>4
    <3>6. Remembers(k)'
      <4> SUFFICES ASSUME NEW b \in Attempts
                   PROVE  task'[k][b].seen.attempts <= row'[k].attempts
        BY DEF Remembers
      <4> QED
        BY <1>0, <3>3, <3>5 DEF Remembers
    <3>7. Deserved(k)'
      BY <3>4 DEF Deserved
    <3> QED
      BY <3>6, <3>7
  <2>3. CASE ReleaseStaleLocks(w)
    <3>1. task' = task /\ row'[k].attempts = row[k].attempts
      BY <1>0, <2>3 DEF ReleaseStaleLocks, Row
    <3>2. row'[k].status = "dead_letter" => row[k].status = "dead_letter"
      BY <1>0, <2>3 DEF ReleaseStaleLocks, Row
    <3> QED
      BY <3>1, <3>2 DEF Remembers, Deserved
  <2>4. CASE Crash(w)
    <3>1. row' = row /\ \A a \in Attempts : task'[k][a] \in {NoTask, task[k][a]}
      BY <2>4 DEF Crash
    <3>2. NoTask.seen.attempts = 0
      BY DEF NoTask, Unloaded
    <3> QED
      BY <1>0, <3>1, <3>2 DEF Remembers, Deserved
  <2> QED
    BY <1>2, <2>1, <2>2, <2>3, <2>4
    DEF Worker, PollBegin, AcquireNothing, Stop, Stopped, Restart
<1>3. ASSUME NEW j \in Jobs, NEW a \in Attempts, Execution(j, a) PROVE Remembers(k)' /\ Deserved(k)'
  <2>1. CASE j = k
    BY <1>3, <2>1, ExecutionEffect, BuryEffect DEF Remembers
  <2>2. CASE j # k
    BY <1>3, <2>2, ExecutionEffect DEF Same, Remembers, Deserved
  <2> QED
    BY <2>1, <2>2
<1>4. CASE Tick
  <2>1. row'[k].status = row[k].status /\ row'[k].attempts = row[k].attempts
    BY <1>4 DEF Tick, TypeOK, Row
  <2>2. ASSUME NEW a \in Attempts PROVE task'[k][a].seen = task[k][a].seen
    <3> DEFINE x == IF task[k][a].pc \in Timed THEN Older(task[k][a].age, ExecTimeout) ELSE 0
    <3>1. task'[k][a] = [task[k][a] EXCEPT !.age = x]
      BY <1>4 DEF Tick
    <3> HIDE DEF x
    <3> QED
      BY <1>0, <3>1 DEF Task
  <2> QED
    BY <2>1, <2>2 DEF Remembers, Deserved
<1>5. CASE UNCHANGED vars
  BY <1>5 DEF vars, Remembers, Deserved
<1> QED
  BY <1>1, <1>2, <1>3, <1>4, <1>5 DEF Next

(***************************************************************************)
(* A job that can be handled is dead-lettered only when its attempts are   *)
(* used up, whichever execution writes last with whatever it had loaded    *)
(* (job_runner.py, _execute_job and _mark_job_timeout).                    *)
(***************************************************************************)
THEOREM DeadLetterDeserved == Spec => []DeadLetterIsDeserved
<1> DEFINE IInv == TypeOK /\ \A k \in Jobs : Remembers(k) /\ Deserved(k)
<1>1. Init => IInv
  BY InitType, BuryInit
<1>2. IInv /\ [Next]_vars => IInv'
  BY NextType, BuryNext
<1>3. IInv => DeadLetterIsDeserved
  BY DEF DeadLetterIsDeserved, Deserved
<1> QED
  BY <1>1, <1>2, <1>3, PTL DEF Spec

-----------------------------------------------------------------------------
(* Capacity *)

(***************************************************************************)
(* _active_jobs of every worker stays finite and within max_concurrent,    *)
(* with room for one more while a poll is under way.                       *)
(***************************************************************************)
Room(w) ==
    /\ IsFiniteSet(active[w])
    /\ Cardinality(active[w]) <= MaxConcurrent
    /\ polling[w] => Cardinality(active[w]) < MaxConcurrent

(***************************************************************************)
(* It has the key of a job exactly when an execution of the job is alive   *)
(* on the worker.                                                          *)
(***************************************************************************)
Known(k) == ~ overrun[k] =>
    \A w \in Workers : k \in active[w] <=> \E a \in Attempts : Live(k, a) /\ task[k][a].worker = w

LEMMA CapacityInit == Init => (\A w \in Workers : Room(w)) /\ (\A k \in Jobs : Known(k))
<1> SUFFICES ASSUME Init PROVE (\A w \in Workers : Room(w)) /\ (\A k \in Jobs : Known(k))
  OBVIOUS
<1>1. \A w \in Workers : Room(w)
  BY ConstantsAssumption, FS_EmptySet DEF Init, Room
<1>2. \A k \in Jobs : Known(k)
  BY DEF Init, Known, Live, NoTask
<1> QED
  BY <1>1, <1>2

(***************************************************************************)
(* A step of an execution ends it, and pops its job's key, or leaves it    *)
(* alive on its worker.                                                    *)
(***************************************************************************)
LEMMA EndOrGoOn ==
    ASSUME TypeOK, NEW j \in Jobs, NEW a \in Attempts, Execution(j, a)
    PROVE  /\ polling' = polling
           /\ \/ EndTask(j, a)
              \/ active' = active /\ Live(j, a)' /\ task'[j][a].worker = task[j][a].worker
<1> DEFINE t == task[j][a]
<1>t. t \in Task /\ t.seen \in Views /\ row[j] \in Row
  BY DEF Task, TypeOK
<1>g. ASSUME NEW pc \in PC \ {"idle"}, NEW seen \in Views, Goto(j, a, pc, seen)
      PROVE  Live(j, a)' /\ task'[j][a].worker = t.worker
  <2> DEFINE u == [t EXCEPT !.pc = pc, !.seen = seen]
  <2>1. u \in Task /\ u.pc = pc /\ u.worker = t.worker
    BY <1>t DEF Task
  <2>2. SetTask(j, a, u)
    BY <1>g DEF Goto
  <2> HIDE DEF u
  <2> QED
    BY <2>1, <2>2, SetTaskEffect DEF TypeOK, Live
<1>1. CASE Load(j, a) \/ HandlerFails(j, a) \/ LoadTimedOut(j, a)
  <2>1. \E pc \in PC \ {"idle"} : Goto(j, a, pc, View(row[j]))
    BY <1>1 DEF PC, Timed, Load, HandlerFails, LoadTimedOut
  <2> QED
    BY <1>1, <1>g, <1>t, <2>1, ViewType DEF Load, HandlerFails, LoadTimedOut
<1>2. ASSUME NEW s \in {"completed", "dead_letter"}, Conclude(j, a, s)
      PROVE  polling' = polling /\ active' = active /\ Live(j, a)' /\ task'[j][a].worker = task[j][a].worker
  <2>1. [t.seen EXCEPT !.status = s, !.locked = FALSE] \in Views /\ "auditing" \in PC \ {"idle"}
    BY <1>t DEF Views, Status, PC, Timed
  <2> QED
    BY <1>2, <1>g, <2>1 DEF Conclude
<1>3. CASE DeadLetter(j, a)
  <2> DEFINE pc == IF t.pc = "failing" THEN "buried" ELSE "closing"
  <2>1. pc \in PC \ {"idle"} /\ Goto(j, a, pc, t.seen)
    BY <1>3 DEF PC, Timed, DeadLetter
  <2> HIDE DEF pc
  <2> QED
    BY <1>3, <1>g, <1>t, <2>1 DEF DeadLetter
<1>4. CASE Timeout(j, a)
  <2> DEFINE u == [t EXCEPT !.pc = "timedout", !.age = 0, !.seen = Unloaded]
  <2>1. u \in Task /\ u.pc = "timedout" /\ u.worker = t.worker
    BY <1>t, TimedOutTask
  <2>2. SetTask(j, a, u)
    BY <1>4 DEF Timeout
  <2> HIDE DEF u
  <2> QED
    BY <1>4, <2>1, <2>2, SetTaskEffect DEF Timeout, TypeOK, Live
<1>5. CASE Retry(j, a) \/ AuditDone(j, a) \/ GiveUp(j, a) \/ ShutdownCancel(j, a)
  BY <1>5 DEF Retry, AuditDone, GiveUp, ShutdownCancel
<1> QED
  BY <1>1, <1>2, <1>3, <1>4, <1>5 DEF Execution, Advance, Complete, Unhandled

LEMMA RoomNext ==
    ASSUME TypeOK, [Next]_vars, NEW v \in Workers, Room(v)
    PROVE  Room(v)'
<1>m. MaxConcurrent \in Nat /\ MaxConcurrent > 0 /\ Cardinality(active[v]) \in Nat
  BY ConstantsAssumption, FS_CardinalityType DEF Room
<1>1. CASE UNCHANGED <<active, polling>>
  BY <1>1 DEF Room
<1>2. ASSUME NEW j \in Jobs, NEW a \in Attempts, EndTask(j, a), polling' = polling
      PROVE  Room(v)'
  <2>1. active'[v] = active[v] \/ active'[v] = active[v] \ {j}
    BY <1>2 DEF EndTask, TypeOK
  <2>2. /\ IsFiniteSet(active[v] \ {j})
        /\ Cardinality(active[v] \ {j}) <= Cardinality(active[v])
    BY FS_Subset DEF Room
  <2>3. Cardinality(active[v] \ {j}) \in Nat
    BY <2>2, FS_CardinalityType
  <2> QED
    BY <1>m, <1>2, <2>1, <2>2, <2>3 DEF Room
<1>3. ASSUME NEW w \in Workers, PollBegin(w) PROVE Room(v)'
  BY <1>3 DEF PollBegin, Room, TypeOK
<1>4. ASSUME NEW w \in Workers, NEW j \in Jobs, Acquire(w, j) PROVE Room(v)'
  <2>1. CASE v = w
    <3>1. active'[v] = active[v] \cup {j} /\ polling'[v] = FALSE /\ polling[v]
      BY <1>4, <2>1 DEF Acquire, TypeOK
    <3>2. IsFiniteSet(active'[v]) /\ Cardinality(active'[v]) <= Cardinality(active[v]) + 1
      BY <1>m, <3>1, FS_AddElement DEF Room
    <3>3. Cardinality(active'[v]) \in Nat
      BY <3>2, FS_CardinalityType
    <3> QED
      BY <1>m, <3>1, <3>2, <3>3 DEF Room
  <2>2. CASE v # w
    BY <1>4, <2>2 DEF Acquire, TypeOK, Room
  <2> QED
    BY <2>1, <2>2
<1>5. ASSUME NEW w \in Workers, AcquireNothing(w) PROVE Room(v)'
  BY <1>5 DEF AcquireNothing, Room, TypeOK
<1>6. ASSUME NEW w \in Workers, Crash(w) PROVE Room(v)'
  <2>1. CASE v = w
    BY <1>6, <2>1, <1>m, FS_EmptySet DEF Crash, Room, TypeOK
  <2>2. CASE v # w
    BY <1>6, <2>2 DEF Crash, Room, TypeOK
  <2> QED
    BY <2>1, <2>2
<1> QED
  BY <1>1, <1>2, <1>3, <1>4, <1>5, <1>6, EndOrGoOn
  DEF Next, Worker, InsertJob, ReleaseStaleLocks, Stop, Stopped, Restart, Tick, vars

LEMMA KnownNext ==
    ASSUME TypeOK, \A k \in Jobs : LockOf(k), [Next]_vars, NEW k \in Jobs, Known(k)
    PROVE  Known(k)'
<1>1. CASE /\ overrun'[k] = overrun[k] /\ active' = active
           /\ \A a \in Attempts : /\ task'[k][a].pc = task[k][a].pc
                                  /\ task'[k][a].worker = task[k][a].worker
  BY <1>1 DEF Known, Live
<1>2. ASSUME NEW j \in Jobs, NEW a \in Attempts, Execution(j, a) PROVE Known(k)'
  <2>0. /\ overrun' = overrun /\ Live(j, a)
        /\ \A i \in Jobs \ {j} : task'[i] = task[i]
        /\ \A b \in Attempts : b # a => task'[j][b] = task[j][b]
    BY <1>2, ExecutionEffect DEF Same
  <2>1. CASE active' = active /\ Live(j, a)' /\ task'[j][a].worker = task[j][a].worker
    <3>1. \A b \in Attempts : Live(k, b)' = Live(k, b) /\ task'[k][b].worker = task[k][b].worker
      BY <2>0, <2>1 DEF Live
    <3> QED
      BY <2>0, <2>1, <3>1 DEF Known
  <2>2. CASE EndTask(j, a)
    <3>1. \A w \in Workers : /\ active'[w] = active[w] \/ active'[w] = active[w] \ {j}
                             /\ w = task[j][a].worker => j \notin active'[w]
      BY <2>2 DEF EndTask, TypeOK
    <3>2. CASE k # j
      <4>1. \A w \in Workers : k \in active'[w] <=> k \in active[w]
        BY <3>1, <3>2
      <4>2. task'[k] = task[k]
        BY <2>0, <3>2
      <4> QED
        BY <2>0, <4>1, <4>2 DEF Known, Live
    <3>3. CASE k = j
      <4> SUFFICES ASSUME ~ overrun[k], NEW w \in Workers
                   PROVE  k \notin active'[w] /\ \A b \in Attempts : ~ Live(k, b)'
        BY <2>0 DEF Known
      <4>1. \A b \in Attempts : Live(k, b) => b = a
        BY <2>0, <3>3 DEF LockOf, Executing
      <4>2. ~ Live(k, a)'
        BY <2>2, <3>3, NoTaskType, SetTaskEffect DEF EndTask, Live, NoTask, TypeOK
      <4>3. \A b \in Attempts : ~ Live(k, b)'
        BY <2>0, <3>3, <4>1, <4>2 DEF Live
      <4>4. k \in active[w] => task[k][a].worker = w
        BY <4>1 DEF Known
      <4>5. k \notin active'[w]
        BY <3>1, <3>3, <4>4
      <4> QED
        BY <4>3, <4>5
    <3> QED
      BY <3>2, <3>3
  <2> QED
    BY <1>2, <2>1, <2>2, EndOrGoOn
<1>3. ASSUME NEW w \in Workers, NEW j \in Jobs, Acquire(w, j) PROVE Known(k)'
  <2> DEFINE n == row[j].attempts + 1
             u == [pc |-> "acquired", worker |-> w, age |-> 0, seen |-> Unloaded]
  <2>1. n \in Attempts
    BY <1>3, ConstantsAssumption DEF Acquire, Eligible, Row, Attempts, TypeOK
  <2>2. u \in Task /\ SetTask(j, n, u)
    BY <1>3, NoTaskType DEF Acquire, Task, PC, Timed
  <2>3. /\ task'[j][n] = u
        /\ \A i \in Jobs, b \in Attempts : i # j \/ b # n => task'[i][b] = task[i][b]
    BY <2>1, <2>2, SetTaskEffect DEF TypeOK
  <2>4. /\ overrun' = overrun /\ active'[w] = active[w] \cup {j}
        /\ \A v \in Workers \ {w} : active'[v] = active[v]
    BY <1>3 DEF Acquire, TypeOK
  <2>5. CASE k # j
    <3>1. \A b \in Attempts : task'[k][b] = task[k][b]
      BY <2>3, <2>5
    <3>2. \A v \in Workers : k \in active'[v] <=> k \in active[v]
      BY <2>4, <2>5
    <3> QED
      BY <2>4, <3>1, <3>2 DEF Known, Live
  <2>6. CASE k = j
    <3> SUFFICES ASSUME ~ overrun[k], NEW v \in Workers
                 PROVE  k \in active'[v] <=> \E b \in Attempts : Live(k, b)' /\ task'[k][b].worker = v
      BY <2>4 DEF Known
    <3>1. \A b \in Attempts : ~ Live(k, b)
      BY <1>3, <2>6 DEF Acquire, Eligible, Waiting, Settled, LockOf, Executing
    <3>2. \A b \in Attempts : Live(k, b)' <=> b = n
      BY <2>1, <2>3, <2>6, <3>1 DEF Live
    <3>3. task'[k][n].worker = w
      BY <2>3, <2>6
    <3>4. k \notin active[v]
      BY <3>1 DEF Known
    <3> QED
      BY <2>1, <2>4, <2>6, <3>2, <3>3, <3>4
  <2> QED
    BY <2>5, <2>6
<1>4. ASSUME NEW w \in Workers, Crash(w) PROVE Known(k)'
  <2> SUFFICES ASSUME ~ overrun[k], NEW v \in Workers
               PROVE  k \in active'[v] <=> \E b \in Attempts : Live(k, b)' /\ task'[k][b].worker = v
    BY <1>4 DEF Known, Crash
  <2>1. \A b \in Attempts : task'[k][b] = IF task[k][b].worker = w THEN NoTask ELSE task[k][b]
    BY <1>4 DEF Crash
  <2>2. NoTask.pc = "idle"
    BY DEF NoTask
  <2>3. active'[v] = IF v = w THEN {} ELSE active[v]
    BY <1>4 DEF Crash, TypeOK
  <2>4. \A b \in Attempts : Live(k, b)' /\ task'[k][b].worker = v
                                <=> v # w /\ Live(k, b) /\ task[k][b].worker = v
    BY <2>1, <2>2 DEF Live
  <2> QED
    BY <2>3, <2>4 DEF Known
<1>5. ASSUME NEW w \in Workers, ReleaseStaleLocks(w) PROVE Known(k)'
  <2>1. task' = task /\ active' = active /\ (~ overrun'[k] => ~ overrun[k])
    BY <1>5 DEF ReleaseStaleLocks
  <2> QED
    BY <2>1 DEF Known, Live
<1>6. CASE Tick
  <2>1. ASSUME NEW a \in Attempts
        PROVE  task'[k][a].pc = task[k][a].pc /\ task'[k][a].worker = task[k][a].worker
    <3> DEFINE x == IF task[k][a].pc \in Timed THEN Older(task[k][a].age, ExecTimeout) ELSE 0
    <3>1. task'[k][a] = [task[k][a] EXCEPT !.age = x]
      BY <1>6 DEF Tick
    <3>2. task[k][a] \in Task
      BY DEF TypeOK
    <3> HIDE DEF x
    <3> QED
      BY <3>1, <3>2 DEF Task
  <2> QED
    BY <1>1, <1>6, <2>1 DEF Tick
<1>7. CASE UNCHANGED <<task, active, overrun>>
  BY <1>1, <1>7
<1> QED
  BY <1>2, <1>3, <1>4, <1>5, <1>6, <1>7
  DEF Next, Worker, InsertJob, PollBegin, AcquireNothing, Stop, Stopped, Restart, vars

(***************************************************************************)
(* As long as no live execution lost its lock, _active_jobs knows exactly  *)
(* the executions of its worker, so max_concurrent bounds them             *)
(* (job_runner.py, _poll_loop, _process_next_job and the done callback).   *)
(***************************************************************************)
THEOREM CapacityKept == Spec => []CapacityRespected
<1> DEFINE IInv == /\ TypeOK
                   /\ \A k \in Jobs : LockOf(k)
                   /\ \A w \in Workers : Room(w)
                   /\ \A k \in Jobs : Known(k)
<1>1. Init => IInv
  BY InitType, LockInit, CapacityInit
<1>2. IInv /\ [Next]_vars => IInv'
  BY NextType, LockNext, RoomNext, KnownNext
<1>3. IInv => CapacityRespected
  <2> SUFFICES ASSUME IInv, \A j \in Jobs : ~ overrun[j], NEW w \in Workers
               PROVE  LiveJobs(w) = active[w] /\ Cardinality(LiveJobs(w)) <= MaxConcurrent
    BY DEF CapacityRespected
  <2>1. active[w] \subseteq Jobs
    BY DEF TypeOK
  <2>2. \A k \in Jobs : k \in active[w] <=> k \in LiveJobs(w)
    BY DEF Known, LiveJobs
  <2>3. LiveJobs(w) = active[w]
    BY <2>1, <2>2 DEF LiveJobs
  <2> QED
    BY <2>3 DEF Room
<1> QED
  BY <1>1, <1>2, <1>3, PTL DEF Spec

=============================================================================
