-------------------------- MODULE Process_proofs --------------------------
(***************************************************************************)
(* Proofs about the services and jobs of a process, its container, its     *)
(* events and its calls of language models, for every value of their       *)
(* constants.                                                              *)
(***************************************************************************)
EXTENDS MCRuntime, FiniteSetTheorems, SequenceTheorems, TLAPS

-----------------------------------------------------------------------------
(* Services and recurring jobs *)

(***************************************************************************)
(* The services that are started, and not yet stopped, are the first ones; *)
(* what else runs did not stop when it was told to.                        *)
(***************************************************************************)
UpTo(k) ==
    /\ k \in 0 .. ServiceCount /\ started = 1 .. k
    /\ phase = "starting" => k < ServiceCount
    /\ phase = "off" => k = 0
    /\ \A s \in on : s <= k \/ s \in stopFailed
    /\ \A s \in 1 .. k : s # Scheduler => s \in on

ManagerInv ==
    /\ on \subseteq 1 .. ServiceCount - 1
    /\ \E k \in 0 .. ServiceCount : UpTo(k)

TaskShapes ==
    /\ running \in BOOLEAN /\ mixed \in BOOLEAN
    /\ listed \subseteq Jobs
    /\ taskOf \in [Jobs -> Nat]
    /\ tasks \in Seq(Task)
    /\ lost \subseteq 1 .. Len(tasks)

Cancels(t) == tasks[t].doing = "cancelled"

(***************************************************************************)
(* Unless start() ran during a stop(), what lives is what unregister()     *)
(* cancelled, or the task of a listed job while the scheduler runs, or is  *)
(* cancelled and waited for while it stops.                                *)
(***************************************************************************)
SchedulerInv ==
    /\ TaskShapes
    /\ \A t \in Living \cap lost : Cancels(t)
    /\ ~ mixed =>
          /\ Stopping => ~ running
          /\ \A t \in Living \ lost :
                /\ running => tasks[t].job \in listed /\ taskOf[tasks[t].job] = t
                /\ ~ running => Cancels(t) /\ \E w \in gathers : t \in w

(***************************************************************************)
(* As long as nobody but the manager starts and stops the scheduler, it    *)
(* runs only when the manager has started it, and no stop() waits but the  *)
(* manager's own, before any other service is told to stop.                *)
(***************************************************************************)
TogetherInv ==
    ~ freely =>
        /\ ~ mixed
        /\ running => Scheduler \in started
        /\ gathers \subseteq {awaited}
        /\ awaited # {} => gathers = {awaited} /\ phase = "stopping" /\ started = 1 .. ServiceCount - 1
        /\ Stopping => awaited # {}

LifeInv == ManagerInv /\ SchedulerInv /\ TogetherInv

LEMMA LifeInitInv == LifeInit => LifeInv
<1> SUFFICES ASSUME LifeInit PROVE LifeInv
  OBVIOUS
<1>1. ManagerInv
  <2>1. UpTo(0) /\ 0 \in 0 .. ServiceCount
    BY LifeAssumption DEF LifeInit, UpTo
  <2>2. QED
    BY <2>1 DEF LifeInit, ManagerInv
<1>2. SchedulerInv
  <2>1. tasks \in Seq(Task) /\ Len(tasks) = 0
    BY EmptySeq DEF LifeInit
  <2>2. TaskShapes
    <3>1. taskOf \in [Jobs -> Nat] /\ lost = {}
      BY DEF LifeInit
    <3>2. QED
      BY <2>1, <3>1 DEF LifeInit, TaskShapes
  <2>4. Living = {}
    <3>1. 1 .. Len(tasks) = {}
      BY <2>1
    <3>2. QED
      BY <3>1 DEF Living
  <2>3. QED
    BY <2>2, <2>4 DEF LifeInit, SchedulerInv, Stopping
<1>3. TogetherInv
  BY DEF LifeInit, TogetherInv, Stopping
<1>4. QED
  BY <1>1, <1>2, <1>3 DEF LifeInv

LEMMA LifeInvSafe == LifeInv => LifecycleSafe
<1> SUFFICES ASSUME LifeInv PROVE LifecycleSafe
  OBVIOUS
<1>1. DependentsFirst
  <2>1. PICK k \in 0 .. ServiceCount : UpTo(k)
    BY DEF LifeInv, ManagerInv
  <2>2. ServiceCount \in Nat /\ on \subseteq 1 .. ServiceCount - 1 /\ k \in Nat
    BY LifeAssumption DEF LifeInv, ManagerInv
  <2>3. ASSUME NEW s \in on \ stopFailed, NEW r \in 1 .. s - 1 PROVE r \in on
    <3>1. s <= k /\ s \in 1 .. ServiceCount - 1
      BY <2>1, <2>2 DEF UpTo
    <3>2. r \in 1 .. k /\ r # Scheduler
      BY <2>2, <3>1 DEF Scheduler
    <3>3. QED
      BY <2>1, <3>2 DEF UpTo
  <2>4. ASSUME phase = "off" PROVE on \subseteq stopFailed
    <3> SUFFICES ASSUME NEW s \in on PROVE s \in stopFailed
      OBVIOUS
    <3>1. k = 0 /\ s >= 1
      BY <2>1, <2>2, <2>4 DEF UpTo
    <3>2. ~ (s <= k)
      BY <2>2, <3>1
    <3>3. QED
      BY <2>1, <3>2 DEF UpTo
  <2>5. QED
    BY <2>3, <2>4 DEF DependentsFirst
<1>2. NothingLeftBehind
  BY DEF LifeInv, SchedulerInv, NothingLeftBehind, Stopping, Cancels
<1>3. OneLoopPerJob
  <2> SUFFICES ASSUME ~ mixed, NEW t \in Living, NEW u \in Living, t # u, tasks[t].job = tasks[u].job,
                      ~ Cancels(t), ~ Cancels(u)
               PROVE  FALSE
    BY DEF OneLoopPerJob, Cancels
  <2>1. t \notin lost /\ u \notin lost
    BY DEF LifeInv, SchedulerInv
  <2>2. QED
    BY <2>1 DEF LifeInv, SchedulerInv
<1>4. ServedWhileRunning
  <2> SUFFICES ASSUME ~ freely, NEW t \in Living \ lost PROVE on = 1 .. ServiceCount - 1
    BY DEF ServedWhileRunning
  <2>1. PICK k \in 0 .. ServiceCount : UpTo(k)
    BY DEF LifeInv, ManagerInv
  <2>2. ServiceCount \in Nat \ {0} /\ on \subseteq 1 .. ServiceCount - 1 /\ k \in Nat /\ started = 1 .. k
    BY <2>1, LifeAssumption DEF LifeInv, ManagerInv, UpTo
  <2>3. ServiceCount \in started \/ started = 1 .. ServiceCount - 1
    BY DEF LifeInv, SchedulerInv, TogetherInv, Stopping, Scheduler
  <2>4. 1 .. ServiceCount - 1 \subseteq started
    BY <2>2, <2>3
  <2>5. \A s \in 1 .. ServiceCount - 1 : s # Scheduler
    BY <2>2 DEF Scheduler
  <2>6. QED
    BY <2>1, <2>2, <2>4, <2>5 DEF UpTo
<1>5. QED
  BY <1>1, <1>2, <1>3, <1>4 DEF LifecycleSafe

-----------------------------------------------------------------------------
(* The manager *)

LEMMA ManagerStays == ASSUME ManagerInv, UNCHANGED managerVars PROVE ManagerInv'
  BY DEF ManagerInv, managerVars, UpTo

LEMMA StartsNext ==
    ASSUME NEW k \in 0 .. ServiceCount, started = 1 .. k, k < ServiceCount
    PROVE  NextToStart = k + 1
<1>1. k \in Nat /\ ServiceCount \in Nat /\ k + 1 \in 1 .. ServiceCount /\ (k + 1) - 1 = k
  BY LifeAssumption
<1>2. \A s \in 1 .. ServiceCount : 1 .. s - 1 = 1 .. k => s = k + 1
  <2> SUFFICES ASSUME NEW s \in 1 .. ServiceCount, 1 .. s - 1 = 1 .. k PROVE s = k + 1
    OBVIOUS
  <2>1. s \in Nat /\ s >= 1
    BY <1>1
  <2>2. ~ (s - 1 < k)
    <3>1. s - 1 < k => s \in 1 .. k /\ s \notin 1 .. s - 1
      BY <1>1, <2>1
    <3>2. QED
      BY <3>1
  <2>3. ~ (k < s - 1)
    <3>1. k < s - 1 => k + 1 \in 1 .. s - 1 /\ k + 1 \notin 1 .. k
      BY <1>1, <2>1
    <3>2. QED
      BY <3>1
  <2>4. QED
    BY <1>1, <2>1, <2>2, <2>3
<1>3. QED
  BY <1>1, <1>2 DEF NextToStart

LEMMA StopsLast ==
    ASSUME NEW k \in 0 .. ServiceCount, started = 1 .. k, k # 0
    PROVE  NextToStop = k
<1>1. k \in Nat /\ k \in 1 .. k
  BY LifeAssumption
<1>2. \A r \in 1 .. k : r <= k
  BY <1>1
<1>3. \A s \in 1 .. k : (\A r \in 1 .. k : r <= s) => s = k
  BY <1>1
<1>4. QED
  BY <1>1, <1>2, <1>3 DEF NextToStop

LEMMA StartAllKeeps == ASSUME ManagerInv, StartAll PROVE ManagerInv'
<1>1. PICK k \in 0 .. ServiceCount : UpTo(k)
  BY DEF ManagerInv
<1>2. k = 0 /\ ServiceCount \in Nat \ {0}
  BY <1>1, LifeAssumption DEF UpTo, StartAll
<1>3. UpTo(0)'
  BY <1>1, <1>2 DEF UpTo, StartAll
<1>4. QED
  BY <1>2, <1>3 DEF ManagerInv, StartAll

LEMMA StartServiceKeeps == ASSUME ManagerInv, StartService PROVE ManagerInv'
<1>1. PICK k \in 0 .. ServiceCount : UpTo(k)
  BY DEF ManagerInv
<1>2. k < ServiceCount /\ k \in Nat /\ ServiceCount \in Nat \ {0} /\ k + 1 \in 0 .. ServiceCount
  BY <1>1, LifeAssumption DEF UpTo, StartService
<1>3. PICK s : s = k + 1 /\ s = NextToStart
  BY <1>1, <1>2, StartsNext DEF UpTo
<1>4. /\ started' = started \cup {s} /\ phase' = (IF s = ServiceCount THEN "on" ELSE "starting")
      /\ IF s = Scheduler THEN on' = on ELSE on' = on \cup {s}
      /\ stopFailed' = stopFailed \ {s}
  BY <1>3 DEF StartService
<1>5. started' = 1 .. s
  <2>1. 1 .. k + 1 = (1 .. k) \cup {k + 1}
    BY <1>2
  <2>2. QED
    BY <1>1, <1>3, <1>4, <2>1 DEF UpTo
<1>6. on' \subseteq 1 .. ServiceCount - 1
  <2>1. s # ServiceCount => s \in 1 .. ServiceCount - 1
    BY <1>2, <1>3
  <2>2. QED
    BY <1>4, <2>1 DEF ManagerInv, Scheduler
<1>7. ASSUME NEW r \in on' PROVE r <= s \/ r \in stopFailed'
  <2>1. r \in Nat
    BY <1>2, <1>6
  <2>2. CASE r = s
    BY <2>1, <2>2
  <2>3. CASE r # s
    BY <1>1, <1>2, <1>3, <1>4, <2>1, <2>3 DEF UpTo
  <2>4. QED
    BY <2>2, <2>3
<1>8. ASSUME NEW r \in 1 .. s, r # Scheduler PROVE r \in on'
  <2>1. CASE r = s
    BY <1>4, <1>8, <2>1
  <2>2. CASE r # s
    <3>1. r \in 1 .. k
      BY <1>2, <1>3, <2>2
    <3>2. QED
      BY <1>1, <1>4, <1>8, <3>1 DEF UpTo
  <2>3. QED
    BY <2>1, <2>2
<1>9. phase' = "starting" => s < ServiceCount
  BY <1>2, <1>3, <1>4
<1>10. UpTo(s)'
  BY <1>2, <1>3, <1>4, <1>5, <1>7, <1>8, <1>9 DEF UpTo, Scheduler
<1>11. QED
  BY <1>2, <1>3, <1>6, <1>10 DEF ManagerInv

LEMMA TurnsKeep == ASSUME ManagerInv, StartFails \/ StopAll PROVE ManagerInv'
<1>1. PICK k \in 0 .. ServiceCount : UpTo(k)
  BY DEF ManagerInv
<1>2. UpTo(k)'
  BY <1>1 DEF UpTo, StartFails, StopAll, Scheduler
<1>3. QED
  BY <1>2 DEF ManagerInv, StartFails, StopAll

LEMMA StopServiceKeeps == ASSUME ManagerInv, StopService PROVE ManagerInv'
<1>1. PICK k \in 0 .. ServiceCount : UpTo(k)
  BY DEF ManagerInv
<1>2. k # 0 /\ k \in Nat /\ ServiceCount \in Nat \ {0} /\ k - 1 \in 0 .. ServiceCount
  <2>1. started # {} /\ k \in Nat
    BY <1>1, LifeAssumption DEF StopService
  <2>2. k # 0
    BY <1>1, <2>1 DEF UpTo
  <2>3. QED
    BY <2>1, <2>2, LifeAssumption
<1>3. NextToStop = k
  BY <1>1, <1>2, StopsLast DEF UpTo
<1>4. /\ started' = started \ {k} /\ phase' = "stopping" /\ phase = "stopping"
      /\ \/ k = Scheduler /\ on' = on /\ stopFailed' = stopFailed
         \/ k # Scheduler /\ on' = on \ {k} /\ stopFailed' = stopFailed
         \/ k # Scheduler /\ on' = on /\ stopFailed' = stopFailed \cup {k}
  BY <1>3 DEF StopService
<1>5. started' = 1 .. k - 1
  BY <1>1, <1>2, <1>4 DEF UpTo
<1>6. on' \subseteq 1 .. ServiceCount - 1
  BY <1>4 DEF ManagerInv
<1>7. ASSUME NEW r \in on' PROVE r <= k - 1 \/ r \in stopFailed'
  <2>1. r \in Nat /\ r \in on /\ r # ServiceCount
    BY <1>2, <1>4, <1>6
  <2>2. CASE r = k
    BY <1>4, <2>1, <2>2 DEF Scheduler
  <2>3. CASE r # k
    <3>1. r <= k \/ r \in stopFailed
      BY <1>1, <2>1 DEF UpTo
    <3>2. QED
      BY <1>2, <1>4, <2>1, <2>3, <3>1
  <2>4. QED
    BY <2>2, <2>3
<1>8. ASSUME NEW r \in 1 .. k - 1, r # Scheduler PROVE r \in on'
  <2>1. r \in 1 .. k /\ r # k
    BY <1>2
  <2>2. r \in on
    BY <1>1, <1>8, <2>1 DEF UpTo
  <2>3. QED
    BY <1>4, <2>1, <2>2
<1>9. UpTo(k - 1)'
  BY <1>2, <1>4, <1>5, <1>7, <1>8 DEF UpTo, Scheduler
<1>10. QED
  BY <1>2, <1>6, <1>9 DEF ManagerInv

LEMMA StoppedKeeps == ASSUME ManagerInv, Stopped PROVE ManagerInv'
<1>1. PICK k \in 0 .. ServiceCount : UpTo(k)
  BY DEF ManagerInv
<1>2. k = 0
  <2>1. started = {} /\ k \in Nat
    BY LifeAssumption DEF Stopped
  <2>2. k # 0 => k \in 1 .. k
    BY <2>1
  <2>3. QED
    BY <1>1, <2>1, <2>2 DEF UpTo
<1>3. UpTo(0)'
  BY <1>1, <1>2 DEF UpTo, Stopped, Scheduler
<1>4. QED
  BY <1>2, <1>3 DEF ManagerInv, Stopped

-----------------------------------------------------------------------------
(* The scheduler *)

LEMMA SchedulerStays == ASSUME SchedulerInv, UNCHANGED schedulerVars PROVE SchedulerInv'
  BY DEF SchedulerInv, schedulerVars, TaskShapes, Living, Alive, Cancels, Stopping

(***************************************************************************)
(* Every listed job has its place in the order the tasks are created in.   *)
(***************************************************************************)
LEMMA SchedulerStartsKeeps == ASSUME SchedulerInv, SchedulerStarts PROVE SchedulerInv'
<1>1. CASE running
  BY <1>1 DEF SchedulerStarts, SchedulerInv, TaskShapes, Living, Alive, Cancels, Stopping
<1>2. CASE ~ running
  <2>1. PICK n \in Nat : n = Cardinality(listed)
    BY LifeAssumption, FS_Subset, FS_CardinalityType DEF SchedulerInv, TaskShapes
  <2>2. IsFiniteSet(listed)
    BY LifeAssumption, FS_Subset DEF SchedulerInv, TaskShapes
  <2>3. PICK order : order = CHOOSE f \in [1 .. Cardinality(listed) -> listed] :
                                 \A i, k \in DOMAIN f : i # k => f[i] # f[k]
    OBVIOUS
  <2>4. \E f \in [1 .. n -> listed] : \A i, k \in DOMAIN f : i # k => f[i] # f[k]
    <3>1. ExistsBijection(1 .. n, listed)
      BY <2>1, <2>2, FS_CardinalityType
    <3>2. PICK f \in Injection(1 .. n, listed) : TRUE
      BY <3>1 DEF ExistsBijection, Bijection
    <3>3. f \in [1 .. n -> listed] /\ \A a, b \in 1 .. n : f[a] = f[b] => a = b
      BY <3>2 DEF Injection, IsInjective
    <3>4. QED
      BY <3>3
  <2>5. order \in [1 .. n -> listed] /\ DOMAIN order = 1 .. n /\ (\A i, k \in 1 .. n : i # k => order[i] # order[k])
    BY <2>1, <2>3, <2>4
  <2>6. \A j \in listed : \E i \in 1 .. n : order[i] = j
    <3>0. order \in [1 .. n -> listed] /\ \A a, b \in 1 .. n : order[a] = order[b] => a = b
      BY <2>5
    <3>1. order \in Injection(1 .. n, listed)
      BY <3>0 DEF Injection, IsInjective
    <3>2. IsFiniteSet(1 .. n) /\ Cardinality(1 .. n) = n
      BY FS_Interval
    <3>3. order \in Surjection(1 .. n, listed)
      BY <2>1, <2>2, <3>1, <3>2, FS_Injection
    <3>4. QED
      BY <3>3 DEF Surjection
  <2> DEFINE more == [i \in 1 .. n |-> [job |-> order[i], doing |-> "handler"]]
             old == Len(tasks)
  <2>7. listed \subseteq Jobs /\ tasks \in Seq(Task) /\ old \in Nat
    BY LenProperties DEF SchedulerInv, TaskShapes
  <2>8. more \in Seq(Task) /\ Len(more) = n
    <3>1. \A i \in 1 .. n : [job |-> order[i], doing |-> "handler"] \in Task
      BY <2>5, <2>7 DEF Task
    <3>2. more \in [1 .. n -> Task]
      BY <3>1
    <3>3. QED
      BY <3>2, IsASeq
  <2>9. /\ tasks' = tasks \o more /\ running' = TRUE /\ mixed' = (mixed \/ Stopping)
        /\ taskOf' = [j \in Jobs |-> IF j \in listed THEN old + CHOOSE i \in 1 .. n : order[i] = j ELSE taskOf[j]]
        /\ UNCHANGED <<listed, gathers, lost>>
    <3>1. /\ tasks' = tasks \o [i \in DOMAIN order |-> [job |-> order[i], doing |-> "handler"]]
          /\ taskOf' = [j \in Jobs |->
                IF j \in listed THEN Len(tasks) + CHOOSE i \in DOMAIN order : order[i] = j ELSE taskOf[j]]
      BY <1>2, <2>3, Zenon DEF SchedulerStarts
    <3>2. running' = TRUE /\ mixed' = (mixed \/ Stopping) /\ UNCHANGED <<listed, gathers, lost>>
      BY <1>2 DEF SchedulerStarts
    <3>3. QED
      BY <2>5, <3>1, <3>2
  <2>10. \A i \in 1 .. n : more[i] = [job |-> order[i], doing |-> "handler"]
    OBVIOUS
  <2> HIDE DEF more, old
  <2>11. /\ tasks' \in Seq(Task) /\ Len(tasks') = old + n
         /\ \A t \in 1 .. old : tasks'[t] = tasks[t]
         /\ \A i \in 1 .. n : tasks'[old + i] = more[i]
    <3>1. /\ tasks' \in Seq(Task) /\ Len(tasks') = old + n
          /\ \A t \in 1 .. old + n : tasks'[t] = IF t <= old THEN tasks[t] ELSE more[t - old]
      BY <2>7, <2>8, <2>9, ConcatProperties DEF old
    <3>2. \A t \in 1 .. old : t \in 1 .. old + n /\ t <= old
      BY <2>7
    <3>3. \A i \in 1 .. n : old + i \in 1 .. old + n /\ ~ (old + i <= old) /\ (old + i) - old = i
      BY <2>7
    <3>4. QED
      BY <3>1, <3>2, <3>3
  <2>12. \A j \in listed : \E i \in 1 .. n : order[i] = j /\ taskOf'[j] = old + i
    BY <2>6, <2>7, <2>9
  <2>13. taskOf' \in [Jobs -> Nat]
    <3>1. ASSUME NEW j \in Jobs PROVE taskOf'[j] \in Nat
      <4>1. CASE j \in listed
        BY <2>7, <2>12, <4>1
      <4>2. CASE j \notin listed
        <5>1. taskOf'[j] = taskOf[j]
          BY <2>9, <4>2
        <5>2. QED
          BY <5>1 DEF SchedulerInv, TaskShapes
      <4>3. QED
        BY <4>1, <4>2
    <3>2. QED
      BY <2>9, <3>1
  <2>14. lost \subseteq 1 .. old
    BY DEF SchedulerInv, TaskShapes, old
  <2>15. TaskShapes'
    <3>1. 1 .. old \subseteq 1 .. old + n
      BY <2>7
    <3>2. QED
      BY <2>9, <2>11, <2>13, <2>14, <3>1 DEF SchedulerInv, TaskShapes
  <2>16. ASSUME NEW t \in Living' PROVE (t \in 1 .. old /\ t \in Living) \/ \E i \in 1 .. n : t = old + i /\ t \notin lost
    <3>1. t \in 1 .. old + n /\ tasks'[t].doing # "ended"
      BY <2>11 DEF Living, Alive
    <3>2. CASE t <= old
      BY <2>7, <2>11, <3>1, <3>2 DEF Living, Alive, old
    <3>3. CASE ~ (t <= old)
      <4>1. t - old \in 1 .. n /\ t = old + (t - old) /\ t \notin 1 .. old
        BY <2>7, <3>1, <3>3
      <4>2. QED
        BY <2>14, <4>1
    <3>4. QED
      BY <3>2, <3>3
  <2>17. ASSUME NEW t \in Living' \cap lost' PROVE Cancels(t)'
    <3>1. t \in Living \cap lost /\ t \in 1 .. old
      BY <2>7, <2>9, <2>14, <2>16
    <3>2. QED
      BY <2>11, <3>1 DEF SchedulerInv, Cancels
  <2>18. ASSUME ~ mixed', NEW t \in Living' \ lost' PROVE tasks'[t].job \in listed' /\ taskOf'[tasks'[t].job] = t
    <3>1. ~ mixed /\ ~ Stopping
      BY <2>9, <2>18
    <3>2. Living \ lost = {}
      BY <1>2, <3>1 DEF SchedulerInv, Stopping
    <3>3. PICK i \in 1 .. n : t = old + i
      BY <2>9, <2>16, <2>18, <3>2
    <3>4. tasks'[t].job = order[i] /\ order[i] \in listed
      <4>1. more[i] = [job |-> order[i], doing |-> "handler"] /\ tasks'[t] = more[i]
        BY <2>10, <2>11, <3>3
      <4>2. order[i] \in listed
        BY <2>5
      <4>3. QED
        BY <4>1, <4>2
    <3>5. taskOf'[order[i]] = old + i
      BY <2>5, <2>12, <3>4
    <3>6. QED
      BY <2>9, <3>3, <3>4, <3>5
  <2>19. ~ mixed' => ~ Stopping'
    BY <2>9 DEF Stopping
  <2>20. QED
    BY <2>9, <2>15, <2>17, <2>18, <2>19 DEF SchedulerInv
<1>3. QED
  BY <1>1, <1>2 DEF SchedulerInv, TaskShapes

(***************************************************************************)
(* Cancelling tasks.                                                       *)
(***************************************************************************)
LEMMA CancelledAre ==
    ASSUME TaskShapes, NEW ts, tasks' = Cancelled(ts)
    PROVE  /\ tasks' \in Seq(Task) /\ Len(tasks') = Len(tasks) /\ Living' = Living
           /\ \A t \in 1 .. Len(tasks) : tasks'[t].job = tasks[t].job /\ (Cancels(t) => Cancels(t)')
           /\ \A t \in Living \cap ts : Cancels(t)'
<1>1. tasks \in Seq(Task) /\ Len(tasks) \in Nat /\ DOMAIN tasks = 1 .. Len(tasks)
  BY LenProperties DEF TaskShapes
<1> DEFINE u(t) == IF t \in ts /\ Alive(t) THEN [tasks[t] EXCEPT !.doing = "cancelled"] ELSE tasks[t]
<1>2. tasks' = [t \in 1 .. Len(tasks) |-> u(t)]
  BY <1>1 DEF Cancelled
<1>3. ASSUME NEW t \in 1 .. Len(tasks)
      PROVE  /\ u(t) \in Task /\ u(t).job = tasks[t].job
             /\ u(t).doing = IF t \in ts /\ Alive(t) THEN "cancelled" ELSE tasks[t].doing
  <2>1. tasks[t] \in Task
    BY <1>1, ElementOfSeq
  <2>2. QED
    BY <2>1 DEF Task
<1>4. tasks' \in [1 .. Len(tasks) -> Task] /\ \A t \in 1 .. Len(tasks) : tasks'[t] = u(t)
  BY <1>2, <1>3
<1> HIDE DEF u
<1>5. tasks' \in Seq(Task) /\ Len(tasks') = Len(tasks)
  <2>1. PICK n \in Nat : n = Len(tasks)
    BY <1>1
  <2>2. tasks' \in [1 .. n -> Task]
    BY <1>4, <2>1
  <2>3. tasks' \in Seq(Task)
    BY <2>1, <2>2
  <2>4. DOMAIN tasks' = 1 .. n /\ DOMAIN tasks' = 1 .. Len(tasks') /\ Len(tasks') \in Nat
    BY <2>2, <2>3, LenProperties
  <2>5. Len(tasks') = n
    BY <2>1, <2>4
  <2>6. QED
    BY <2>1, <2>3, <2>5
<1>6. Living' = Living
  <2>1. \A t \in 1 .. Len(tasks) : tasks'[t].doing # "ended" <=> tasks[t].doing # "ended"
    BY <1>3, <1>4 DEF Alive
  <2>2. QED
    BY <1>5, <2>1 DEF Living, Alive
<1>7. \A t \in 1 .. Len(tasks) : tasks'[t].job = tasks[t].job /\ (Cancels(t) => Cancels(t)')
  BY <1>3, <1>4 DEF Cancels
<1>8. \A t \in Living \cap ts : Cancels(t)'
  BY <1>3, <1>4 DEF Cancels, Living
<1>9. QED
  BY <1>5, <1>6, <1>7, <1>8

LEMMA SchedulerStopsKeeps == ASSUME SchedulerInv, SchedulerStops PROVE SchedulerInv'
<1>1. running' = FALSE /\ UNCHANGED <<listed, taskOf, lost, mixed>>
  BY DEF SchedulerStops
<1>2. CASE running /\ Current # {}
  <2>1. gathers' = gathers \cup {Current} /\ tasks' = Cancelled(Current)
    BY <1>2 DEF SchedulerStops
  <2>2. /\ tasks' \in Seq(Task) /\ Len(tasks') = Len(tasks) /\ Living' = Living
        /\ \A t \in 1 .. Len(tasks) : tasks'[t].job = tasks[t].job /\ (Cancels(t) => Cancels(t)')
        /\ \A t \in Living \cap Current : Cancels(t)'
    BY <2>1, CancelledAre DEF SchedulerInv
  <2>3. TaskShapes'
    BY <1>1, <2>1, <2>2 DEF SchedulerInv, TaskShapes
  <2>4. \A t \in Living' \cap lost' : Cancels(t)'
    BY <1>1, <2>2 DEF SchedulerInv, Living
  <2>5. ~ mixed => \A t \in Living \ lost : t \in Current
    BY <1>2 DEF SchedulerInv, Current
  <2>6. QED
    BY <1>1, <2>1, <2>2, <2>3, <2>4, <2>5 DEF SchedulerInv
<1>3. CASE running /\ Current = {}
  <2>1. UNCHANGED <<gathers, tasks>>
    BY <1>3 DEF SchedulerStops
  <2>2. TaskShapes' /\ Living' = Living /\ \A t : Cancels(t)' <=> Cancels(t)
    BY <1>1, <2>1 DEF SchedulerInv, TaskShapes, Living, Alive, Cancels
  <2>3. ~ mixed => \A t \in Living \ lost : t \in Current
    BY <1>3 DEF SchedulerInv, Current
  <2>4. QED
    BY <1>1, <1>3, <2>1, <2>2, <2>3 DEF SchedulerInv, Stopping
<1>4. CASE ~ running
  <2>1. UNCHANGED <<running, gathers, tasks>>
    BY <1>1, <1>4 DEF SchedulerStops, SchedulerInv, TaskShapes
  <2>2. QED
    BY <1>1, <2>1, SchedulerStays DEF schedulerVars
<1>5. QED
  BY <1>2, <1>3, <1>4

LEMMA GatheredKeeps == ASSUME SchedulerInv, NEW w \in gathers, Gathered(w) PROVE SchedulerInv'
<1>1. /\ w \cap Living = {} /\ gathers' = gathers \ {w}
      /\ taskOf' = [j \in Jobs |-> IF j \in listed THEN 0 ELSE taskOf[j]]
      /\ UNCHANGED <<running, listed, tasks, lost, mixed>>
  BY DEF Gathered, Forgets
<1>2. taskOf' \in [Jobs -> Nat]
  BY <1>1 DEF SchedulerInv, TaskShapes
<1>3. TaskShapes' /\ Living' = Living /\ \A t : Cancels(t)' <=> Cancels(t)
  BY <1>1, <1>2 DEF SchedulerInv, TaskShapes, Living, Alive, Cancels
<1>4. ~ mixed => ~ running
  BY DEF SchedulerInv, Stopping
<1>5. ASSUME ~ mixed, NEW t \in Living \ lost PROVE Cancels(t) /\ \E u \in gathers' : t \in u
  BY <1>1, <1>4, <1>5 DEF SchedulerInv
<1>6. QED
  BY <1>1, <1>3, <1>4, <1>5 DEF SchedulerInv

LEMMA LoopKeeps == ASSUME SchedulerInv, NEW t \in Living, Loop(t) PROVE SchedulerInv'
<1>1. PICK to \in {"handler", "sleep", "ended"} :
          tasks' = [tasks EXCEPT ![t].doing = to] /\ (Cancels(t) => to = "ended")
  BY DEF Loop, Cancels
<1>2. UNCHANGED <<running, listed, taskOf, gathers, lost, mixed>>
  BY DEF Loop
<1>3. tasks \in Seq(Task) /\ t \in 1 .. Len(tasks) /\ Len(tasks) \in Nat
  BY LenProperties DEF SchedulerInv, TaskShapes, Living
<1>4. tasks[t] \in Task
  BY <1>3, ElementOfSeq
<1> DEFINE u == [tasks[t] EXCEPT !.doing = to]
<1>5. u \in Task /\ u.doing = to /\ u.job = tasks[t].job
  BY <1>4 DEF Task
<1>6. tasks' = [tasks EXCEPT ![t] = u]
  BY <1>1
<1> HIDE DEF u
<1>7. /\ tasks' \in Seq(Task) /\ Len(tasks') = Len(tasks) /\ tasks'[t] = u
      /\ \A v \in 1 .. Len(tasks) : v # t => tasks'[v] = tasks[v]
  BY <1>3, <1>5, <1>6, ExceptSeq
<1>8. TaskShapes'
  BY <1>2, <1>7 DEF SchedulerInv, TaskShapes
<1>9. \A v \in Living' : /\ v \in Living /\ tasks'[v].job = tasks[v].job
                         /\ (Cancels(v) => Cancels(v)')
  <2> SUFFICES ASSUME NEW v \in Living'
               PROVE  /\ v \in Living /\ tasks'[v].job = tasks[v].job
                      /\ (Cancels(v) => Cancels(v)')
    OBVIOUS
  <2>1. v \in 1 .. Len(tasks) /\ tasks'[v].doing # "ended"
    BY <1>7 DEF Living, Alive
  <2>2. CASE v = t
    BY <1>1, <1>5, <1>7, <2>1, <2>2 DEF Cancels
  <2>3. CASE v # t
    BY <1>7, <2>1, <2>3 DEF Living, Alive, Cancels
  <2>4. QED
    BY <2>2, <2>3
<1>10. QED
  BY <1>2, <1>8, <1>9 DEF SchedulerInv, Stopping

LEMMA UnregisterKeeps == ASSUME SchedulerInv, NEW j \in Jobs, Unregister(j) PROVE SchedulerInv'
<1>1. /\ j \in listed /\ listed' = listed \ {j} /\ tasks' = Cancelled({taskOf[j]} \cap Living)
      /\ lost' = lost \cup ({taskOf[j]} \cap Living)
      /\ UNCHANGED <<running, taskOf, gathers, mixed>>
  BY DEF Unregister
<1>2. /\ tasks' \in Seq(Task) /\ Len(tasks') = Len(tasks) /\ Living' = Living
      /\ \A t \in 1 .. Len(tasks) : tasks'[t].job = tasks[t].job /\ (Cancels(t) => Cancels(t)')
      /\ \A t \in Living \cap ({taskOf[j]} \cap Living) : Cancels(t)'
  BY <1>1, CancelledAre DEF SchedulerInv
<1>3. TaskShapes'
  BY <1>1, <1>2 DEF SchedulerInv, TaskShapes, Living
<1>4. \A t \in Living' \cap lost' : Cancels(t)'
  BY <1>1, <1>2 DEF SchedulerInv, Living
<1>5. ASSUME NEW t \in Living' \ lost' PROVE t \in Living \ lost /\ taskOf[j] # t /\ tasks'[t].job = tasks[t].job /\ (Cancels(t) => Cancels(t)')
  BY <1>1, <1>2, <1>5 DEF Living
<1>6. ASSUME ~ mixed', NEW t \in Living' \ lost'
      PROVE  /\ running' => tasks'[t].job \in listed' /\ taskOf'[tasks'[t].job] = t
             /\ ~ running' => Cancels(t)' /\ \E w \in gathers' : t \in w
  BY <1>1, <1>5, <1>6 DEF SchedulerInv
<1>7. ~ mixed' => (Stopping' => ~ running')
  BY <1>1 DEF SchedulerInv, Stopping
<1>8. QED
  BY <1>3, <1>4, <1>6, <1>7 DEF SchedulerInv

LEMMA RegisterKeeps == ASSUME SchedulerInv, NEW j \in Jobs, Register(j) PROVE SchedulerInv'
<1>1. /\ j \notin listed /\ listed' = listed \cup {j} /\ taskOf' = [taskOf EXCEPT ![j] = 0]
      /\ UNCHANGED <<running, tasks, gathers, lost, mixed>>
  BY DEF Register
<1>2. taskOf' \in [Jobs -> Nat] /\ \A k \in listed : taskOf'[k] = taskOf[k]
  BY <1>1 DEF SchedulerInv, TaskShapes
<1>3. TaskShapes' /\ Living' = Living /\ \A t : Cancels(t)' <=> Cancels(t)
  BY <1>1, <1>2 DEF SchedulerInv, TaskShapes, Living, Alive, Cancels
<1>4. QED
  BY <1>1, <1>2, <1>3 DEF SchedulerInv, Stopping

-----------------------------------------------------------------------------
(* The manager and the scheduler *)

LEMMA TogetherStays ==
    ASSUME TogetherInv,
           UNCHANGED <<running, gathers, mixed, awaited, freely, started>>, phase' = phase \/ awaited = {}
    PROVE  TogetherInv'
  BY DEF TogetherInv, Stopping

LEMMA StartServiceTogether == ASSUME ManagerInv, TogetherInv, StartService PROVE TogetherInv'
<1>1. PICK s : s = NextToStart
  OBVIOUS
<1>2. /\ phase = "starting" /\ started' = started \cup {s} /\ UNCHANGED <<awaited, freely>>
      /\ IF s = Scheduler THEN SchedulerStarts ELSE UNCHANGED schedulerVars
  BY <1>1 DEF StartService
<1> SUFFICES ASSUME ~ freely PROVE TogetherInv'
  BY <1>2 DEF TogetherInv
<1>3. awaited = {} /\ gathers = {} /\ ~ mixed /\ ~ Stopping
  BY <1>2 DEF TogetherInv, Stopping
<1>4. gathers' = gathers /\ ~ mixed' /\ (s # Scheduler => running' = running)
  BY <1>2, <1>3 DEF SchedulerStarts, schedulerVars
<1>5. running' => Scheduler \in started'
  BY <1>2, <1>4 DEF TogetherInv, Scheduler
<1>6. QED
  BY <1>2, <1>3, <1>4, <1>5 DEF TogetherInv, Stopping

(***************************************************************************)
(* The scheduler is stopped first, and the manager waits for it.           *)
(***************************************************************************)
LEMMA StopServiceTogether == ASSUME ManagerInv, TogetherInv, StopService PROVE TogetherInv'
<1>1. PICK k \in 0 .. ServiceCount : UpTo(k)
  BY DEF ManagerInv
<1>2. k \in Nat /\ ServiceCount \in Nat /\ k # 0 /\ started = 1 .. k
  <2>1. k \in Nat /\ ServiceCount \in Nat /\ started # {} /\ started = 1 .. k
    BY <1>1, LifeAssumption DEF StopService, UpTo
  <2>2. k # 0
    BY <2>1
  <2>3. QED
    BY <2>1, <2>2
<1>3. NextToStop = k
  BY <1>2, StopsLast
<1>4. /\ phase = "stopping" /\ phase' = phase /\ awaited = {} /\ started' = started \ {k} /\ freely' = freely
      /\ IF k = Scheduler THEN SchedulerStops /\ awaited' = (IF running THEN Current ELSE {})
         ELSE UNCHANGED <<awaited, schedulerVars>>
  BY <1>3 DEF StopService
<1> SUFFICES ASSUME ~ freely PROVE TogetherInv'
  BY <1>4 DEF TogetherInv
<1>5. gathers = {} /\ ~ mixed
  BY <1>4 DEF TogetherInv, Stopping
<1>6. CASE k = Scheduler
  <2>1. running' = FALSE /\ mixed' = mixed
    BY <1>4, <1>6 DEF SchedulerStops
  <2>2. started' = 1 .. ServiceCount - 1
    BY <1>2, <1>4, <1>6 DEF Scheduler
  <2>3. \/ gathers' = {awaited'} /\ awaited' # {}
        \/ gathers' = {} /\ awaited' = {}
    BY <1>4, <1>5, <1>6 DEF SchedulerStops
  <2>4. QED
    BY <1>4, <1>5, <2>1, <2>2, <2>3 DEF TogetherInv, Stopping
<1>7. CASE k # Scheduler
  <2>1. UNCHANGED <<running, gathers, mixed, awaited>>
    BY <1>4, <1>7 DEF schedulerVars
  <2>2. ~ running
    BY <1>2, <1>7 DEF TogetherInv, Scheduler
  <2>3. QED
    BY <1>4, <1>5, <2>1, <2>2 DEF TogetherInv, Stopping
<1>8. QED
  BY <1>6, <1>7

LEMMA GatheredTogether ==
    ASSUME TogetherInv, NEW w \in gathers, Gathered(w), UNCHANGED <<freely, managerVars>>
    PROVE  TogetherInv'
<1>1. /\ gathers' = gathers \ {w} /\ awaited' = (IF w = awaited THEN {} ELSE awaited)
      /\ UNCHANGED <<running, mixed, freely, phase, started>>
  BY DEF Gathered, Forgets, managerVars
<1> SUFFICES ASSUME ~ freely PROVE TogetherInv'
  BY <1>1 DEF TogetherInv
<1>2. w = awaited /\ gathers' = {} /\ awaited' = {}
  BY <1>1 DEF TogetherInv
<1>3. QED
  BY <1>1, <1>2 DEF TogetherInv, Stopping

LEMMA TogetherKeeps == ASSUME ManagerInv, TogetherInv, [LifeNext]_lifeVars PROVE TogetherInv'
<1>1. CASE UNCHANGED lifeVars
  BY <1>1, TogetherStays DEF lifeVars
<1>2. CASE StartAll
  <2>1. started = {} /\ phase # "stopping"
    <3>1. PICK k \in 0 .. ServiceCount : UpTo(k)
      BY DEF ManagerInv
    <3>2. QED
      BY <1>2, <3>1 DEF UpTo, StartAll
  <2>2. UNCHANGED <<running, gathers, mixed, awaited, freely, started>>
    BY <1>2, <2>1 DEF StartAll, schedulerVars
  <2>3. QED
    BY <1>2, <2>1, <2>2 DEF TogetherInv, Stopping
<1>3. CASE StartFails \/ StopAll \/ Stopped
  <2>1. UNCHANGED <<running, gathers, mixed, awaited, freely, started>>
    BY <1>3 DEF StartFails, StopAll, Stopped, schedulerVars
  <2>2. awaited = {} \/ phase # "stopping"
    BY <1>3 DEF StartFails, StopAll, Stopped
  <2>3. QED
    BY <2>1, <2>2 DEF TogetherInv, Stopping
<1>4. CASE StartService
  BY <1>4, StartServiceTogether
<1>5. CASE StopService
  BY <1>5, StopServiceTogether
<1>6. CASE ApplicationCalls
  BY <1>6 DEF ApplicationCalls, TogetherInv
<1>7. ASSUME NEW w \in gathers, Gathered(w), UNCHANGED <<freely, managerVars>> PROVE TogetherInv'
  BY <1>7, GatheredTogether
<1>8. CASE /\ (\E t \in Living : Loop(t)) \/ \E j \in Jobs : Unregister(j) \/ Register(j)
           /\ UNCHANGED <<freely, managerVars>>
  BY <1>8, TogetherStays DEF Loop, Unregister, Register, managerVars
<1>9. QED
  BY <1>1, <1>2, <1>3, <1>4, <1>5, <1>6, <1>7, <1>8 DEF LifeNext

LEMMA LifeNextInv == LifeInv /\ [LifeNext]_lifeVars => LifeInv'
<1> SUFFICES ASSUME LifeInv, [LifeNext]_lifeVars PROVE LifeInv'
  OBVIOUS
<1>1. ManagerInv /\ SchedulerInv /\ TogetherInv'
  BY TogetherKeeps DEF LifeInv
<1>2. CASE UNCHANGED lifeVars
  BY <1>1, <1>2, ManagerStays, SchedulerStays DEF lifeVars, managerVars, schedulerVars, LifeInv
<1>3. CASE StartAll \/ StartFails \/ StopAll \/ Stopped
  <2>1. UNCHANGED schedulerVars
    BY <1>3 DEF StartAll, StartFails, StopAll, Stopped
  <2>2. QED
    BY <1>1, <1>3, <2>1, SchedulerStays, StartAllKeeps, TurnsKeep, StoppedKeeps DEF LifeInv
<1>4. CASE StartService
  <2>1. SchedulerStarts \/ UNCHANGED schedulerVars
    BY <1>4 DEF StartService
  <2>2. QED
    BY <1>1, <1>4, <2>1, SchedulerStays, SchedulerStartsKeeps, StartServiceKeeps DEF LifeInv
<1>5. CASE StopService
  <2>1. SchedulerStops \/ UNCHANGED schedulerVars
    BY <1>5 DEF StopService
  <2>2. QED
    BY <1>1, <1>5, <2>1, SchedulerStays, SchedulerStopsKeeps, StopServiceKeeps DEF LifeInv
<1>6. CASE ApplicationCalls
  BY <1>1, <1>6, ManagerStays, SchedulerStartsKeeps, SchedulerStopsKeeps DEF ApplicationCalls, LifeInv
<1>7. CASE /\ \/ \E w \in gathers : Gathered(w)
              \/ \E t \in Living : Loop(t)
              \/ \E j \in Jobs : Unregister(j) \/ Register(j)
           /\ UNCHANGED managerVars
  BY <1>1, <1>7, ManagerStays, GatheredKeeps, LoopKeeps, UnregisterKeeps, RegisterKeeps DEF LifeInv
<1>8. QED
  BY <1>2, <1>3, <1>4, <1>5, <1>6, <1>7 DEF LifeNext

-----------------------------------------------------------------------------
(* The frames of a thread, counted from the outermost *)

FrameLabels == {"make", "look", "acquire", "recheck", "store", "return", "raise"}

Nth(f, n) == f[Len(f) + 1 - n]

(* Services whose needs have no end: none of them is ever built. *)
Endless == UNION {X \in SUBSET Services : \A k \in X : Needs[k] \in X}

LEMMA EndlessNeeds ==
    /\ \A k \in Endless : k \in Services /\ Needs[k] \in Endless
    /\ \A X \in SUBSET Services : (\A k \in X : Needs[k] \in X) => X \subseteq Endless
    /\ \A k \in Services \ Endless : Needs[k] \notin Endless
<1>1. /\ \A k \in Endless : k \in Services /\ Needs[k] \in Endless
      /\ \A X \in SUBSET Services : (\A k \in X : Needs[k] \in X) => X \subseteq Endless
  BY DEF Endless
<1>2. ASSUME NEW k \in Services, Needs[k] \in Endless PROVE k \in Endless
  <2> DEFINE X == Endless \cup {k}
  <2>1. X \in SUBSET Services
    BY <1>1
  <2>2. \A i \in X : Needs[i] \in X
    BY <1>1, <1>2
  <2>3. X \subseteq Endless
    BY <1>1, <2>1, <2>2
  <2>4. QED
    BY <2>3
<1>3. QED
  BY <1>1, <1>2

Proper(f) ==
    /\ f \in Seq(Frame)
    /\ \A n \in 1 .. Len(f) - 1 : Nth(f, n).at = "store" /\ Nth(f, n + 1).key = Needs[Nth(f, n).key]
    /\ f # <<>> /\ Head(f).key \in Endless => Head(f).at \notin {"store", "return"}

LEMMA FrameFacts ==
    ASSUME NEW f \in Seq(Frame)
    PROVE  /\ Len(f) \in Nat
           /\ f = <<>> <=> Len(f) = 0
           /\ f # <<>> => Head(f) = f[1] /\ Nth(f, Len(f)) = f[1] /\ Len(f) >= 1
           /\ \A n \in 1 .. Len(f) : Nth(f, n) \in Frame
<1>1. Len(f) \in Nat /\ (f = <<>> <=> Len(f) = 0)
  BY EmptySeq, LenProperties
<1>2. ASSUME f # <<>> PROVE Head(f) = f[1] /\ Nth(f, Len(f)) = f[1] /\ Len(f) >= 1
  <2>1. Len(f) + 1 - Len(f) = 1
    BY <1>1
  <2>2. Head(f) = f[1] /\ Len(f) >= 1
    BY <1>1, <1>2
  <2>3. QED
    BY <2>1, <2>2 DEF Nth
<1>3. ASSUME NEW n \in 1 .. Len(f) PROVE Nth(f, n) \in Frame
  <2>1. Len(f) + 1 - n \in 1 .. Len(f)
    BY <1>1
  <2>2. QED
    BY <2>1, ElementOfSeq DEF Nth
<1>4. QED
  BY <1>1, <1>2, <1>3

LEMMA FrameIs ==
    /\ \A x \in Frame : x.key \in Services /\ x.at \in FrameLabels /\ x = [key |-> x.key, at |-> x.at]
    /\ \A k \in Services, a \in FrameLabels : [key |-> k, at |-> a] \in Frame
  BY DEF Frame, FrameLabels

LEMMA ToIs ==
    ASSUME NEW f \in Seq(Frame), f # <<>>, NEW a \in FrameLabels
    PROVE  /\ To(f, a) \in Seq(Frame) /\ Len(To(f, a)) = Len(f) /\ To(f, a) # <<>>
           /\ Head(To(f, a)) = [key |-> Head(f).key, at |-> a]
           /\ Nth(To(f, a), Len(f)) = [key |-> Head(f).key, at |-> a]
           /\ \A n \in 1 .. Len(f) - 1 : Nth(To(f, a), n) = Nth(f, n)
<1> DEFINE e == [key |-> Head(f).key, at |-> a]
<1>1. Len(f) \in Nat /\ Len(f) >= 1 /\ Head(f) = f[1] /\ 1 \in 1 .. Len(f) /\ f[1] \in Frame
  BY FrameFacts, ElementOfSeq
<1>2. e \in Frame /\ [f[1] EXCEPT !.at = a] = e
  BY <1>1, FrameIs DEF Frame
<1>3. To(f, a) = [f EXCEPT ![1] = e]
  BY <1>2 DEF To
<1> HIDE DEF e
<1>4. /\ To(f, a) \in Seq(Frame) /\ Len(To(f, a)) = Len(f)
      /\ \A j \in 1 .. Len(f) : To(f, a)[j] = IF j = 1 THEN e ELSE f[j]
  BY <1>1, <1>2, <1>3, ExceptSeq
<1>5. To(f, a) # <<>> /\ Head(To(f, a)) = e /\ Nth(To(f, a), Len(f)) = e
  BY <1>1, <1>4, FrameFacts
<1>6. ASSUME NEW n \in 1 .. Len(f) - 1 PROVE Nth(To(f, a), n) = Nth(f, n)
  <2>1. Len(f) + 1 - n \in 1 .. Len(f) /\ Len(f) + 1 - n # 1
    BY <1>1
  <2>2. QED
    BY <1>4, <2>1 DEF Nth
<1>7. QED
  BY <1>4, <1>5, <1>6 DEF e

LEMMA TailIs ==
    ASSUME NEW f \in Seq(Frame), f # <<>>
    PROVE  /\ Tail(f) \in Seq(Frame) /\ Len(Tail(f)) = Len(f) - 1
           /\ \A n \in 1 .. Len(f) - 1 : Nth(Tail(f), n) = Nth(f, n)
           /\ Tail(f) # <<>> => Head(Tail(f)) = Nth(f, Len(f) - 1)
<1>1. Len(f) \in Nat /\ Len(f) >= 1
  BY FrameFacts
<1>2. Tail(f) \in Seq(Frame) /\ Len(Tail(f)) = Len(f) - 1 /\ \A i \in 1 .. Len(f) - 1 : Tail(f)[i] = f[i + 1]
  BY HeadTailProperties
<1>3. ASSUME NEW n \in 1 .. Len(f) - 1 PROVE Nth(Tail(f), n) = Nth(f, n)
  <2>1. Len(f) - 1 + 1 - n \in 1 .. Len(f) - 1 /\ (Len(f) - 1 + 1 - n) + 1 = Len(f) + 1 - n
    BY <1>1
  <2>2. QED
    BY <1>2, <2>1 DEF Nth
<1>4. ASSUME Tail(f) # <<>> PROVE Head(Tail(f)) = Nth(f, Len(f) - 1)
  <2>0. PICK r \in Seq(Frame) : r = Tail(f)
    BY <1>2
  <2>1. Head(Tail(f)) = Nth(Tail(f), Len(f) - 1) /\ Len(f) - 1 \in 1 .. Len(f) - 1
    <3>1. r # <<>> /\ Len(r) = Len(f) - 1
      BY <1>2, <1>4, <2>0
    <3>2. Head(r) = r[1] /\ Nth(r, Len(r)) = r[1] /\ Len(r) >= 1
      BY <3>1, FrameFacts
    <3>3. QED
      BY <1>1, <2>0, <3>1, <3>2
  <2>2. QED
    BY <1>3, <2>1
<1>5. QED
  BY <1>2, <1>3, <1>4

LEMMA PushIs ==
    ASSUME NEW f \in Seq(Frame), NEW x \in Frame
    PROVE  /\ <<x>> \o f \in Seq(Frame) /\ Len(<<x>> \o f) = Len(f) + 1
           /\ Head(<<x>> \o f) = x /\ Nth(<<x>> \o f, Len(f) + 1) = x /\ <<x>> \o f # <<>>
           /\ \A n \in 1 .. Len(f) : Nth(<<x>> \o f, n) = Nth(f, n)
<1>1. Len(f) \in Nat /\ <<x>> \in Seq(Frame) /\ Len(<<x>>) = 1 /\ <<x>>[1] = x
  BY FrameFacts
<1> DEFINE g == <<x>> \o f
<1>2. /\ g \in Seq(Frame) /\ Len(g) = Len(f) + 1
      /\ \A i \in 1 .. 1 + Len(f) : g[i] = IF i <= 1 THEN <<x>>[i] ELSE f[i - 1]
  BY <1>1, ConcatProperties
<1> HIDE DEF g
<1>3. g # <<>> /\ g[1] = x /\ Head(g) = x /\ Nth(g, Len(f) + 1) = x
  BY <1>1, <1>2, FrameFacts
<1>4. ASSUME NEW n \in 1 .. Len(f) PROVE Nth(g, n) = Nth(f, n)
  <2>1. /\ Len(f) + 1 + 1 - n \in 1 .. 1 + Len(f) /\ ~ (Len(f) + 1 + 1 - n <= 1)
        /\ (Len(f) + 1 + 1 - n) - 1 = Len(f) + 1 - n
    BY <1>1
  <2>2. QED
    BY <1>2, <2>1 DEF Nth
<1>5. QED
  BY <1>2, <1>3, <1>4 DEF g

LEMMA ToProper ==
    ASSUME NEW f, Proper(f), f # <<>>, NEW a \in FrameLabels,
           a \in {"store", "return"} => Head(f).key \notin Endless
    PROVE  Proper(To(f, a))
<1> DEFINE g == To(f, a)
<1>1. f \in Seq(Frame) /\ Len(f) \in Nat /\ Len(f) >= 1 /\ Nth(f, Len(f)) = Head(f)
  BY FrameFacts DEF Proper
<1>2. /\ g \in Seq(Frame) /\ Len(g) = Len(f) /\ Head(g) = [key |-> Head(f).key, at |-> a]
      /\ Nth(g, Len(f)) = [key |-> Head(f).key, at |-> a]
      /\ \A n \in 1 .. Len(f) - 1 : Nth(g, n) = Nth(f, n)
  BY <1>1, ToIs
<1> HIDE DEF g
<1>3. ASSUME NEW n \in 1 .. Len(g) - 1
      PROVE  Nth(g, n).at = "store" /\ Nth(g, n + 1).key = Needs[Nth(g, n).key]
  <2>1. n \in 1 .. Len(f) - 1 /\ Nth(f, n).at = "store" /\ Nth(f, n + 1).key = Needs[Nth(f, n).key]
    BY <1>2, <1>3 DEF Proper
  <2>2. Nth(g, n + 1).key = Nth(f, n + 1).key
    <3>1. CASE n + 1 = Len(f)
      BY <1>1, <1>2, <3>1
    <3>2. CASE n + 1 # Len(f)
      <4>1. n + 1 \in 1 .. Len(f) - 1
        BY <1>1, <2>1, <3>2
      <4>2. QED
        BY <1>2, <4>1
    <3>3. QED
      BY <3>1, <3>2
  <2>3. QED
    BY <1>2, <2>1, <2>2
<1>4. QED
  BY <1>2, <1>3 DEF Proper, g

LEMMA TailProper ==
    ASSUME NEW f, Proper(f), f # <<>>
    PROVE  /\ Tail(f) \in Seq(Frame) /\ Len(Tail(f)) = Len(f) - 1
           /\ \A n \in 1 .. Len(Tail(f)) - 1 : /\ Nth(Tail(f), n).at = "store"
                                               /\ Nth(Tail(f), n + 1).key = Needs[Nth(Tail(f), n).key]
           /\ Tail(f) # <<>> => Head(Tail(f)).at = "store" /\ Head(f).key = Needs[Head(Tail(f)).key]
<1>1. f \in Seq(Frame) /\ Len(f) \in Nat /\ Len(f) >= 1 /\ Nth(f, Len(f)) = Head(f)
  BY FrameFacts DEF Proper
<1>2. /\ Tail(f) \in Seq(Frame) /\ Len(Tail(f)) = Len(f) - 1
      /\ \A n \in 1 .. Len(f) - 1 : Nth(Tail(f), n) = Nth(f, n)
      /\ Tail(f) # <<>> => Head(Tail(f)) = Nth(f, Len(f) - 1)
  BY <1>1, TailIs
<1>3. ASSUME NEW n \in 1 .. Len(Tail(f)) - 1
      PROVE  Nth(Tail(f), n).at = "store" /\ Nth(Tail(f), n + 1).key = Needs[Nth(Tail(f), n).key]
  <2>1. n \in 1 .. Len(f) - 1 /\ n + 1 \in 1 .. Len(f) - 1
    BY <1>1, <1>2
  <2>2. QED
    BY <1>2, <2>1 DEF Proper
<1>4. ASSUME Tail(f) # <<>> PROVE Head(Tail(f)).at = "store" /\ Head(f).key = Needs[Head(Tail(f)).key]
  <2>1. Len(f) - 1 \in 1 .. Len(f) - 1 /\ (Len(f) - 1) + 1 = Len(f)
    BY <1>1, <1>2, <1>4, FrameFacts
  <2>2. QED
    BY <1>1, <1>2, <1>4, <2>1 DEF Proper
<1>5. QED
  BY <1>2, <1>3, <1>4

(* A frame that returns leaves one that stores, and one that raises leaves *)
(* one that raises.                                                        *)
LEMMA ReturnProper ==
    ASSUME NEW f, Proper(f), f # <<>>, Head(f).at = "return" PROVE Proper(Tail(f))
<1>1. Head(f).key \notin Endless /\ Head(f).key \in Services
  <2>1. Head(f) \in Frame
    BY FrameFacts, HeadTailProperties DEF Proper
  <2>2. QED
    BY <2>1, FrameIs DEF Proper
<1>2. Tail(f) # <<>> => Head(Tail(f)).key \notin Endless
  BY <1>1, TailProper, EndlessNeeds
<1>3. QED
  BY <1>2, TailProper DEF Proper

LEMMA RaiseProper ==
    ASSUME NEW f, Proper(f), f # <<>>, Tail(f) # <<>> PROVE Proper(To(Tail(f), "raise"))
<1>0. PICK r \in Seq(Frame) : r = Tail(f)
  BY TailProper
<1> DEFINE g == To(r, "raise")
<1>1. Len(r) \in Nat /\ Len(r) >= 1 /\ r # <<>>
  BY <1>0, FrameFacts
<1>2. /\ g \in Seq(Frame) /\ Len(g) = Len(r) /\ Head(g) = [key |-> Head(r).key, at |-> "raise"]
      /\ Nth(g, Len(g)) = [key |-> Head(r).key, at |-> "raise"]
      /\ \A n \in 1 .. Len(g) - 1 : Nth(g, n) = Nth(r, n)
  <2>1. "raise" \in FrameLabels
    BY DEF FrameLabels
  <2>2. QED
    BY <1>1, <2>1, ToIs
<1>2a. /\ \A n \in 1 .. Len(r) - 1 : Nth(r, n).at = "store" /\ Nth(r, n + 1).key = Needs[Nth(r, n).key]
       /\ Nth(r, Len(r)) = Head(r)
  BY <1>0, <1>1, TailProper, FrameFacts
<1> HIDE DEF g
<1>3. ASSUME NEW n \in 1 .. Len(g) - 1
      PROVE  Nth(g, n).at = "store" /\ Nth(g, n + 1).key = Needs[Nth(g, n).key]
  <2>1. n \in 1 .. Len(r) - 1
    BY <1>2
  <2>2. Nth(r, n).at = "store" /\ Nth(r, n + 1).key = Needs[Nth(r, n).key]
    BY <2>1, <1>2a
  <2>3. Nth(g, n + 1).key = Nth(r, n + 1).key
    <3>1. CASE n + 1 = Len(g)
      BY <1>1, <1>2, <1>2a, <3>1
    <3>2. CASE n + 1 # Len(g)
      <4>1. n + 1 \in 1 .. Len(g) - 1
        BY <1>1, <1>2, <2>1, <3>2
      <4>2. QED
        BY <1>2, <4>1
    <3>3. QED
      BY <3>1, <3>2
  <2>4. QED
    BY <1>2, <1>3, <2>2, <2>3
<1>5. Proper(g)
  BY <1>2, <1>3 DEF Proper
<1>4. QED
  BY <1>0, <1>2, <1>3, <1>5 DEF g

(* The frame of what a service needs goes on top of the service's own. *)
LEMMA NeedProper ==
    ASSUME NEW f, Proper(f), f # <<>>, Needs[Head(f).key] \in Services
    PROVE  LET g == <<[key |-> Needs[Head(f).key], at |-> "make"]>> \o To(f, "store")
           IN  /\ Proper(g) /\ g # <<>> /\ Len(g) = Len(f) + 1
               /\ Head(g) = [key |-> Needs[Head(f).key], at |-> "make"]
<1> DEFINE h == To(f, "store")
           x == [key |-> Needs[Head(f).key], at |-> "make"]
           g == <<x>> \o h
<1>1. f \in Seq(Frame) /\ Len(f) \in Nat /\ Len(f) >= 1 /\ Nth(f, Len(f)) = Head(f)
  BY FrameFacts DEF Proper
<1>2. /\ h \in Seq(Frame) /\ Len(h) = Len(f) /\ Nth(h, Len(f)) = [key |-> Head(f).key, at |-> "store"]
      /\ \A n \in 1 .. Len(f) - 1 : Nth(h, n) = Nth(f, n)
  BY <1>1, ToIs DEF FrameLabels
<1>3. x \in Frame /\ x.key = Needs[Head(f).key] /\ x.at = "make"
  BY FrameIs DEF FrameLabels
<1> HIDE DEF h, x
<1>4. /\ g \in Seq(Frame) /\ Len(g) = Len(f) + 1 /\ Head(g) = x /\ Nth(g, Len(f) + 1) = x /\ g # <<>>
      /\ \A n \in 1 .. Len(f) : Nth(g, n) = Nth(h, n)
  BY <1>2, <1>3, PushIs
<1> HIDE DEF g
<1>5. ASSUME NEW n \in 1 .. Len(g) - 1
      PROVE  Nth(g, n).at = "store" /\ Nth(g, n + 1).key = Needs[Nth(g, n).key]
  <2>1. n \in 1 .. Len(f)
    BY <1>1, <1>4
  <2>2. CASE n = Len(f)
    BY <1>1, <1>2, <1>3, <1>4, <2>1, <2>2
  <2>3. CASE n # Len(f)
    <3>1. n \in 1 .. Len(f) - 1 /\ n + 1 \in 1 .. Len(f)
      BY <1>1, <2>1, <2>3
    <3>2. Nth(f, n).at = "store" /\ Nth(f, n + 1).key = Needs[Nth(f, n).key] /\ Nth(g, n) = Nth(f, n)
      BY <1>2, <1>4, <3>1, <2>1 DEF Proper
    <3>3. Nth(h, n + 1).key = Nth(f, n + 1).key
      <4>1. CASE n + 1 = Len(f)
        BY <1>1, <1>2, <4>1
      <4>2. CASE n + 1 # Len(f)
        <5>1. n + 1 \in 1 .. Len(f) - 1
          BY <1>1, <3>1, <4>2
        <5>2. QED
          BY <1>2, <5>1
      <4>3. QED
        BY <4>1, <4>2
    <3>4. QED
      BY <1>4, <3>1, <3>2, <3>3
  <2>4. QED
    BY <2>2, <2>3
<1>6. Proper(g)
  BY <1>3, <1>4, <1>5 DEF Proper
<1>7. QED
  BY <1>3, <1>4, <1>6 DEF g, h, x

(***************************************************************************)
(* A thread that is at the same service twice goes round without an end.   *)
(***************************************************************************)
LEMMA TwiceEndless ==
    ASSUME NEW f, Proper(f), NEW m \in 1 .. Len(f), NEW n \in 1 .. Len(f), m < n, Nth(f, m).key = Nth(f, n).key
    PROVE  Nth(f, n).key \in Endless
<1> DEFINE X == {Nth(f, i).key : i \in m .. n}
<1>1. f \in Seq(Frame) /\ Len(f) \in Nat
  BY FrameFacts DEF Proper
<1>2. X \in SUBSET Services
  <2>1. \A i \in m .. n : i \in 1 .. Len(f)
    BY <1>1
  <2>2. QED
    BY <1>1, <2>1, FrameFacts, FrameIs
<1>3. ASSUME NEW k \in X PROVE Needs[k] \in X
  <2>1. PICK i \in m .. n : k = Nth(f, i).key
    OBVIOUS
  <2>2. PICK j \in m .. n - 1 : k = Nth(f, j).key
    <3>1. CASE i = n
      BY <2>1, <3>1, <1>1
    <3>2. CASE i # n
      BY <2>1, <3>2, <1>1
    <3>3. QED
      BY <3>1, <3>2
  <2>3. j \in 1 .. Len(f) - 1 /\ j + 1 \in m .. n
    BY <1>1, <2>2
  <2>4. QED
    BY <2>2, <2>3 DEF Proper
<1>4. Nth(f, n).key \in X
  BY <1>1
<1>5. QED
  BY <1>2, <1>3, <1>4, EndlessNeeds

-----------------------------------------------------------------------------
(* What frames put on the stack, and the locks they hold *)

(* A frame has its key on the stack from its look-up to its end. *)
Pushes(f) ==
    IF f = <<>> THEN 0
    ELSE IF Head(f).at \in {"make", "raise"} THEN Len(f) - 1 ELSE Len(f)

Holds(x, l) == x.at \in {"recheck", "store"} /\ x.key \in Singletons \cup Scoped /\ LockOf(x.key) = l

HoldSet(f, l) == {n \in 1 .. Len(f) : Holds(Nth(f, n), l)}

Pairs(S) == {p \in Threads \X Nat : p[2] \in S[p[1]]}

LEMMA PairsGrow ==
    ASSUME NEW S, NEW R, NEW t \in Threads, NEW n \in Nat, n \notin S[t], R[t] = S[t] \cup {n},
           \A u \in Threads : u # t => R[u] = S[u], IsFiniteSet(Pairs(S))
    PROVE  IsFiniteSet(Pairs(R)) /\ Cardinality(Pairs(R)) = Cardinality(Pairs(S)) + 1
<1>1. Pairs(R) = Pairs(S) \cup {<<t, n>>}
  BY DEF Pairs
<1>2. <<t, n>> \notin Pairs(S)
  BY DEF Pairs
<1>3. QED
  BY <1>1, <1>2, FS_AddElement

LEMMA PairsShrink ==
    ASSUME NEW S, NEW R, NEW t \in Threads, NEW n \in Nat, n \in S[t], R[t] = S[t] \ {n},
           \A u \in Threads : u # t => R[u] = S[u], IsFiniteSet(Pairs(S))
    PROVE  IsFiniteSet(Pairs(R)) /\ Cardinality(Pairs(R)) = Cardinality(Pairs(S)) - 1
<1>1. Pairs(R) = Pairs(S) \ {<<t, n>>}
  BY DEF Pairs
<1>2. <<t, n>> \in Pairs(S)
  BY DEF Pairs
<1> DEFINE P == Pairs(S)
           x == <<t, n>>
<1>3. IsFiniteSet(P) /\ x \in P
  BY <1>2
<1> HIDE DEF P, x
<1>4. IsFiniteSet(P \ {x}) /\ Cardinality(P \ {x}) = Cardinality(P) - 1
  BY <1>3, FS_RemoveElement
<1>5. QED
  BY <1>1, <1>4 DEF P, x

LEMMA PairsStay ==
    ASSUME NEW S, NEW R, \A u \in Threads : R[u] = S[u]
    PROVE  Pairs(R) = Pairs(S)
  BY DEF Pairs

LEMMA TopHolds ==
    ASSUME NEW f \in Seq(Frame), f # <<>>, NEW l
    PROVE  Len(f) \in Nat /\ (Len(f) \in HoldSet(f, l) <=> Holds(Head(f), l))
  BY FrameFacts DEF HoldSet

LEMMA HoldTo ==
    ASSUME NEW f \in Seq(Frame), f # <<>>, NEW a \in FrameLabels, NEW l
    PROVE  HoldSet(To(f, a), l) = IF Holds([key |-> Head(f).key, at |-> a], l)
                                  THEN HoldSet(f, l) \cup {Len(f)} ELSE HoldSet(f, l) \ {Len(f)}
<1> DEFINE g == To(f, a)
<1>1. Len(f) \in Nat /\ Len(f) >= 1
  BY FrameFacts
<1>2. /\ Len(g) = Len(f) /\ Nth(g, Len(f)) = [key |-> Head(f).key, at |-> a]
      /\ \A n \in 1 .. Len(f) - 1 : Nth(g, n) = Nth(f, n)
  BY ToIs
<1> HIDE DEF g
<1>3. \A n \in 1 .. Len(f) : n # Len(f) => n \in 1 .. Len(f) - 1
  BY <1>1
<1>4. QED
  BY <1>1, <1>2, <1>3 DEF HoldSet, g

LEMMA SameHold ==
    ASSUME NEW f \in Seq(Frame), f # <<>>, NEW a \in FrameLabels, NEW l,
           Holds(Head(f), l) <=> Holds([key |-> Head(f).key, at |-> a], l)
    PROVE  HoldSet(To(f, a), l) = HoldSet(f, l)
<1>1. Len(f) \in HoldSet(f, l) <=> Holds(Head(f), l)
  BY TopHolds
<1> DEFINE H == HoldSet(f, l)
           x == [key |-> Head(f).key, at |-> a]
<1>2. HoldSet(To(f, a), l) = IF Holds(x, l) THEN H \cup {Len(f)} ELSE H \ {Len(f)}
  BY HoldTo
<1>3. Len(f) \in H <=> Holds(x, l)
  BY <1>1
<1> HIDE DEF H, x
<1>4. HoldSet(To(f, a), l) = H
  BY <1>2, <1>3
<1>5. QED
  BY <1>4 DEF H

LEMMA HoldTail ==
    ASSUME NEW f \in Seq(Frame), f # <<>>, NEW l
    PROVE  HoldSet(Tail(f), l) = HoldSet(f, l) \ {Len(f)}
<1>1. Len(f) \in Nat /\ Len(f) >= 1
  BY FrameFacts
<1>2. Len(Tail(f)) = Len(f) - 1 /\ \A n \in 1 .. Len(f) - 1 : Nth(Tail(f), n) = Nth(f, n)
  BY TailIs
<1>3. \A n \in 1 .. Len(f) : n # Len(f) <=> n \in 1 .. Len(f) - 1
  BY <1>1
<1>4. 1 .. Len(f) - 1 \subseteq 1 .. Len(f)
  BY <1>1
<1>5. QED
  BY <1>2, <1>3, <1>4 DEF HoldSet

LEMMA HoldPush ==
    ASSUME NEW f \in Seq(Frame), NEW x \in Frame, x.at = "make", NEW l
    PROVE  HoldSet(<<x>> \o f, l) = HoldSet(f, l)
<1>1. Len(f) \in Nat
  BY FrameFacts
<1> DEFINE g == <<x>> \o f
<1>2. Len(g) = Len(f) + 1 /\ Nth(g, Len(f) + 1) = x /\ \A n \in 1 .. Len(f) : Nth(g, n) = Nth(f, n)
  BY PushIs
<1> HIDE DEF g
<1>3. \A n \in 1 .. Len(f) + 1 : n = Len(f) + 1 \/ n \in 1 .. Len(f)
  BY <1>1
<1>4. 1 .. Len(f) \subseteq 1 .. Len(f) + 1
  BY <1>1
<1>5. ~ Holds(x, l)
  BY DEF Holds
<1>6. QED
  BY <1>2, <1>3, <1>4, <1>5 DEF HoldSet, g

-----------------------------------------------------------------------------
(* The container *)

ThreadStates == {"new", "making", "made", "raised", "closed"}
ThreadState == [goal : Services \cup {NoService}, frames : Seq(Frame), saved : Threads \cup {Base},
                state : ThreadStates]

ContShapes ==
    /\ instances \subseteq Singletons
    /\ current \in Threads \cup {Base}
    /\ scopes \in [Threads \cup {Base} -> SUBSET (Threads \X Scoped)]
    /\ stack \in Seq(Services)
    /\ held \in [Locks -> [holder : Threads \cup {Nobody}, depth : Nat]]
    /\ thread \in [Threads -> ThreadState]
    /\ built \in [Singletons -> Nat]
    /\ taken \in [Threads -> Threads \cup {Nobody}]
    /\ overlapped \in BOOLEAN

ThreadsInv ==
    \A t \in Threads : /\ Proper(thread[t].frames)
                       /\ thread[t].frames # <<>> <=> thread[t].state = "making"

PushedBy == [t \in Threads |-> 1 .. Pushes(thread[t].frames)]

(* The stack is as long as the frames that have a key on it are many. *)
StackInv == IsFiniteSet(Pairs(PushedBy)) /\ Len(stack) = Cardinality(Pairs(PushedBy))

HeldBy(l) == [t \in Threads |-> HoldSet(thread[t].frames, l)]

(* A lock is as deep as the frames that hold it are many, all of one thread. *)
LockInv ==
    \A l \in Locks :
        /\ IsFiniteSet(Pairs(HeldBy(l))) /\ held[l].depth = Cardinality(Pairs(HeldBy(l)))
        /\ held[l].depth = 0 <=> held[l].holder = Nobody
        /\ \A t \in Threads : HoldSet(thread[t].frames, l) # {} => held[l].holder = t

(***************************************************************************)
(* What is stored was built once and has needs with an end; a singleton    *)
(* that is being built is not stored.                                      *)
(***************************************************************************)
BuiltInv ==
    /\ \A k \in Singletons : built[k] = IF k \in instances THEN 1 ELSE 0
    /\ instances \cap Endless = {}
    /\ \A s \in Threads \cup {Base} : \A p \in scopes[s] : p[2] \notin Endless
    /\ \A t \in Threads : \A n \in 1 .. Len(thread[t].frames) :
          Nth(thread[t].frames, n).at = "store" => Nth(thread[t].frames, n).key \notin instances

Open(t) == thread[t].state \notin {"new", "closed"}

(***************************************************************************)
(* Until two scopes are open together, the container is in the scope of    *)
(* the one that is open, which holds what its own thread built.            *)
(***************************************************************************)
ScopeInv ==
    ~ overlapped =>
        /\ \A t \in Threads : taken[t] \in {t, Nobody}
        /\ \A t \in Threads : \A p \in scopes[t] : p[1] = t
        /\ \A t \in Threads : Open(t) => current = t /\ thread[t].saved = Base
        /\ current # Base => Open(current)

ContainerInv == ContShapes /\ ThreadsInv /\ StackInv /\ LockInv /\ BuiltInv /\ ScopeInv

LEMMA ContainerInvSafe == ContainerInv => ContainerSafe
<1> SUFFICES ASSUME ContainerInv PROVE ContainerSafe
  OBVIOUS
<1>1. BuiltOnce
  BY DEF ContainerInv, BuiltInv, BuiltOnce
<1>2. LeftClean
  <2> SUFFICES ASSUME \A t \in Threads : thread[t].frames = <<>>
               PROVE  stack = <<>> /\ \A l \in Locks : held[l].holder = Nobody
    BY DEF LeftClean
  <2>1. stack = <<>>
    <3>1. Pairs(PushedBy) = {}
      <4>1. \A t \in Threads : PushedBy[t] = {}
        <5>1. 1 .. 0 = {}
          OBVIOUS
        <5>2. QED
          BY <5>1 DEF PushedBy, Pushes
      <4>2. QED
        BY <4>1 DEF Pairs
    <3>2. QED
      BY <3>1, FS_EmptySet, EmptySeq DEF ContainerInv, StackInv, ContShapes
  <2>2. ASSUME NEW l \in Locks PROVE held[l].holder = Nobody
    <3>1. Pairs(HeldBy(l)) = {}
      <4>1. \A t \in Threads : HeldBy(l)[t] = {}
        <5>1. Len(<<>>) = 0 /\ 1 .. 0 = {}
          OBVIOUS
        <5>2. QED
          BY <5>1 DEF HeldBy, HoldSet
      <4>2. QED
        BY <4>1 DEF Pairs
    <3>2. QED
      BY <3>1, FS_EmptySet DEF ContainerInv, LockInv
  <2>3. QED
    BY <2>1, <2>2
<1>3. OwnScope
  BY DEF ContainerInv, ScopeInv, OwnScope, Open, Nobody
<1>4. QED
  BY <1>1, <1>2, <1>3 DEF ContainerSafe

LEMMA ContainerInitInv == ContainerInit => ContainerInv
<1> SUFFICES ASSUME ContainerInit PROVE ContainerInv
  OBVIOUS
<1>1. <<>> \in Seq(Frame) /\ <<>> \in Seq(Services) /\ Len(<<>>) = 0
  BY EmptySeq
<1>2. ContShapes
  BY <1>1, ContainerAssumption DEF ContainerInit, ContShapes, ThreadState, ThreadStates, Nobody
<1>3. ThreadsInv
  <2>1. Proper(<<>>)
    <3>1. 1 .. 0 - 1 = {}
      OBVIOUS
    <3>2. QED
      BY <1>1, <3>1 DEF Proper
  <2>2. QED
    BY <2>1 DEF ContainerInit, ThreadsInv
<1>4. StackInv
  <2>1. \A t \in Threads : PushedBy[t] = {}
    <3>1. 1 .. 0 = {}
      OBVIOUS
    <3>2. QED
      BY <3>1 DEF PushedBy, Pushes, ContainerInit
  <2>2. Pairs(PushedBy) = {}
    BY <2>1 DEF Pairs
  <2>3. QED
    BY <1>1, <2>2, FS_EmptySet DEF StackInv, ContainerInit
<1>5. LockInv
  <2> SUFFICES ASSUME NEW l \in Locks
               PROVE  /\ IsFiniteSet(Pairs(HeldBy(l))) /\ held[l].depth = Cardinality(Pairs(HeldBy(l)))
                      /\ held[l].depth = 0 <=> held[l].holder = Nobody
                      /\ \A t \in Threads : HoldSet(thread[t].frames, l) # {} => held[l].holder = t
    BY DEF LockInv
  <2>1. \A t \in Threads : HoldSet(thread[t].frames, l) = {}
    <3>1. 1 .. 0 = {}
      OBVIOUS
    <3>2. QED
      BY <1>1, <3>1 DEF HoldSet, ContainerInit
  <2>2. Pairs(HeldBy(l)) = {}
    BY <2>1 DEF Pairs, HeldBy
  <2>3. held[l] = [holder |-> Nobody, depth |-> 0]
    BY DEF ContainerInit
  <2>4. QED
    BY <2>1, <2>2, <2>3, FS_EmptySet
<1>6. BuiltInv
  <2>1. 1 .. 0 = {}
    OBVIOUS
  <2>2. QED
    BY <1>1, <2>1 DEF ContainerInit, BuiltInv
<1>7. ScopeInv
  BY ContainerAssumption DEF ContainerInit, ScopeInv, Open
<1>8. QED
  BY <1>2, <1>3, <1>4, <1>5, <1>6, <1>7 DEF ContainerInv

-----------------------------------------------------------------------------
(* One thread goes on *)

Goes(t, g, s) ==
    /\ thread' \in [Threads -> ThreadState]
    /\ thread'[t].frames = g /\ thread'[t].state = s /\ thread'[t].saved = thread[t].saved
    /\ \A u \in Threads : u # t => thread'[u] = thread[u]

LEMMA ThreadGoes ==
    ASSUME ContShapes, NEW t \in Threads, NEW g \in Seq(Frame), NEW s \in ThreadStates,
           \/ thread' = [thread EXCEPT ![t].frames = g, ![t].state = s]
           \/ thread' = [thread EXCEPT ![t].frames = g] /\ s = thread[t].state
           \/ thread' = [thread EXCEPT ![t].state = s] /\ g = thread[t].frames
    PROVE  Goes(t, g, s)
<1>1. thread \in [Threads -> ThreadState] /\ thread[t] \in ThreadState
  BY DEF ContShapes
<1> DEFINE u == [thread[t] EXCEPT !.frames = g, !.state = s]
<1>2. u \in ThreadState /\ u.frames = g /\ u.state = s /\ u.saved = thread[t].saved
  BY <1>1 DEF ThreadState
<1>3. thread' = [thread EXCEPT ![t] = u]
  <2>1. CASE thread' = [thread EXCEPT ![t].frames = g, ![t].state = s]
    BY <2>1
  <2>2. CASE thread' = [thread EXCEPT ![t].frames = g] /\ s = thread[t].state
    <3>1. [thread[t] EXCEPT !.frames = g] = u
      BY <1>1, <2>2 DEF ThreadState
    <3>2. QED
      BY <2>2, <3>1
  <2>3. CASE thread' = [thread EXCEPT ![t].state = s] /\ g = thread[t].frames
    <3>1. [thread[t] EXCEPT !.state = s] = u
      BY <1>1, <2>3 DEF ThreadState
    <3>2. QED
      BY <2>3, <3>1
  <2>4. QED
    BY <2>1, <2>2, <2>3
<1> HIDE DEF u
<1>4. QED
  BY <1>1, <1>2, <1>3 DEF Goes

LEMMA ThreadsStay ==
    ASSUME ThreadsInv, NEW t \in Threads, NEW g, NEW s, Goes(t, g, s), Proper(g), g # <<>> <=> s = "making"
    PROVE  ThreadsInv'
  BY DEF ThreadsInv, Goes

LEMMA PushesMany == ASSUME NEW f \in Seq(Frame) PROVE Pushes(f) \in Nat
  BY FrameFacts DEF Pushes

LEMMA StackStays ==
    ASSUME StackInv, NEW t \in Threads, NEW g, NEW s, Goes(t, g, s), Pushes(g) = Pushes(thread[t].frames),
           UNCHANGED stack
    PROVE  StackInv'
<1>1. PushedBy' = PushedBy
  BY DEF PushedBy, Goes
<1>2. Pairs(PushedBy)' = Pairs(PushedBy)
  BY <1>1 DEF Pairs
<1>3. QED
  BY <1>2 DEF StackInv

LEMMA StackGrows ==
    ASSUME ContShapes, ThreadsInv, StackInv, NEW t \in Threads, NEW g, NEW s, Goes(t, g, s),
           Pushes(g) = Pushes(thread[t].frames) + 1, NEW k \in Services, stack' = Append(stack, k)
    PROVE  StackInv'
<1> DEFINE n == Pushes(thread[t].frames)
<1>1. n \in Nat
  BY PushesMany DEF ThreadsInv, Proper
<1>2. n + 1 \notin 1 .. n /\ 1 .. n + 1 = (1 .. n) \cup {n + 1} /\ n + 1 \in Nat
  BY <1>1
<1>3. PushedBy'[t] = 1 .. n + 1 /\ PushedBy[t] = 1 .. n /\ \A u \in Threads : u # t => PushedBy'[u] = PushedBy[u]
  BY DEF PushedBy, Goes
<1> HIDE DEF n
<1>4. PICK S : S = PushedBy
  OBVIOUS
<1>5. PICK R : R = PushedBy'
  OBVIOUS
<1>6. IsFiniteSet(Pairs(R)) /\ Cardinality(Pairs(R)) = Cardinality(Pairs(S)) + 1
  <2>1. n + 1 \notin S[t] /\ R[t] = S[t] \cup {n + 1} /\ IsFiniteSet(Pairs(S))
    BY <1>2, <1>3, <1>4, <1>5 DEF StackInv
  <2>2. \A u \in Threads : u # t => R[u] = S[u]
    BY <1>3, <1>4, <1>5
  <2>3. QED
    BY <1>2, <2>1, <2>2, PairsGrow
<1>7. Pairs(PushedBy)' = Pairs(R)
  BY <1>5 DEF Pairs
<1>8. Len(stack') = Len(stack) + 1
  BY AppendProperties DEF ContShapes
<1>9. QED
  BY <1>4, <1>6, <1>7, <1>8 DEF StackInv

LEMMA StackShrinks ==
    ASSUME ContShapes, ThreadsInv, StackInv, NEW t \in Threads, NEW g \in Seq(Frame), NEW s, Goes(t, g, s),
           Pushes(thread[t].frames) = Pushes(g) + 1, stack' = Front(stack)
    PROVE  StackInv' /\ stack' \in Seq(Services)
<1> DEFINE n == Pushes(g)
<1>1. n \in Nat
  BY PushesMany
<1>2. n + 1 \in 1 .. n + 1 /\ 1 .. n = (1 .. n + 1) \ {n + 1} /\ n + 1 \in Nat
  BY <1>1
<1>3. PushedBy'[t] = 1 .. n /\ PushedBy[t] = 1 .. n + 1 /\ \A u \in Threads : u # t => PushedBy'[u] = PushedBy[u]
  BY DEF PushedBy, Goes
<1> HIDE DEF n
<1>4. PICK S : S = PushedBy
  OBVIOUS
<1>5. PICK R : R = PushedBy'
  OBVIOUS
<1>6. IsFiniteSet(Pairs(S)) /\ Len(stack) = Cardinality(Pairs(S))
  BY <1>4 DEF StackInv
<1>7. IsFiniteSet(Pairs(R)) /\ Cardinality(Pairs(R)) = Cardinality(Pairs(S)) - 1
  <2>1. n + 1 \in S[t] /\ R[t] = S[t] \ {n + 1}
    BY <1>2, <1>3, <1>4, <1>5
  <2>2. \A u \in Threads : u # t => R[u] = S[u]
    BY <1>3, <1>4, <1>5
  <2>3. QED
    BY <1>2, <1>6, <2>1, <2>2, PairsShrink
<1>8. Pairs(PushedBy)' = Pairs(R)
  BY <1>5 DEF Pairs
<1>9. Len(stack) # 0 /\ Len(stack) \in Nat
  <2>1. <<t, n + 1>> \in Pairs(S)
    BY <1>2, <1>3, <1>4 DEF Pairs
  <2>2. Cardinality(Pairs(S)) # 0
    BY <1>6, <2>1, FS_EmptySet
  <2>3. QED
    BY <1>6, <2>2, LenProperties DEF ContShapes
<1>10. stack' \in Seq(Services) /\ Len(stack') = Len(stack) - 1
  <2>1. \A i \in 1 .. Len(stack) - 1 : stack[i] \in Services
    <3>1. \A i \in 1 .. Len(stack) - 1 : i \in 1 .. Len(stack)
      BY <1>9
    <3>2. QED
      BY <3>1, ElementOfSeq DEF ContShapes
  <2>2. PICK q : q = stack
    OBVIOUS
  <2>3. /\ SubSeq(q, 1, Len(q) - 1) \in Seq(Services)
        /\ Len(SubSeq(q, 1, Len(q) - 1)) = IF 1 <= Len(q) - 1 THEN Len(q) - 1 - 1 + 1 ELSE 0
    BY <1>9, <2>1, <2>2, SubSeqProperties
  <2>4. PICK r : r = SubSeq(q, 1, Len(q) - 1)
    OBVIOUS
  <2>5. stack' = r
    BY <2>2, <2>4 DEF Front
  <2>6. r \in Seq(Services) /\ Len(r) = IF 1 <= Len(q) - 1 THEN Len(q) - 1 - 1 + 1 ELSE 0
    BY <2>3, <2>4
  <2>7. Len(r) = Len(q) - 1
    <3>1. \A a \in Nat \ {0} : (IF 1 <= a - 1 THEN a - 1 - 1 + 1 ELSE 0) = a - 1
      OBVIOUS
    <3>2. Len(q) \in Nat \ {0}
      BY <1>9, <2>2
    <3>3. QED
      BY <2>6, <3>1, <3>2
  <2>8. QED
    BY <2>2, <2>5, <2>6, <2>7
<1>11. QED
  BY <1>6, <1>7, <1>8, <1>10 DEF StackInv

LEMMA LocksStay ==
    ASSUME LockInv, NEW t \in Threads, NEW g, NEW s, Goes(t, g, s), UNCHANGED held,
           \A l \in Locks : HoldSet(g, l) = HoldSet(thread[t].frames, l)
    PROVE  LockInv'
<1> SUFFICES ASSUME NEW l \in Locks
             PROVE  /\ IsFiniteSet(Pairs(HeldBy(l))') /\ held'[l].depth = Cardinality(Pairs(HeldBy(l))')
                    /\ held'[l].depth = 0 <=> held'[l].holder = Nobody
                    /\ \A u \in Threads : HoldSet(thread'[u].frames, l) # {} => held'[l].holder = u
  BY DEF LockInv
<1>1. HeldBy(l)' = HeldBy(l)
  BY DEF HeldBy, Goes
<1>2. Pairs(HeldBy(l))' = Pairs(HeldBy(l))
  BY <1>1 DEF Pairs
<1>3. QED
  BY <1>2 DEF LockInv, Goes

LEMMA LockTaken ==
    ASSUME ContShapes, LockInv, NEW t \in Threads, NEW g, NEW s, Goes(t, g, s), NEW m \in Locks,
           Obtainable(t, m), Obtain(t, m), NEW n \in Nat, n \notin HoldSet(thread[t].frames, m),
           HoldSet(g, m) = HoldSet(thread[t].frames, m) \cup {n},
           \A l \in Locks : l # m => HoldSet(g, l) = HoldSet(thread[t].frames, l)
    PROVE  LockInv' /\ held' \in [Locks -> [holder : Threads \cup {Nobody}, depth : Nat]]
<1>1. held \in [Locks -> [holder : Threads \cup {Nobody}, depth : Nat]] /\ t # Nobody
  BY ContainerAssumption DEF ContShapes, Nobody
<1> DEFINE e == [holder |-> t, depth |-> held[m].depth + 1]
<1>2. e \in [holder : Threads \cup {Nobody}, depth : Nat] /\ e.holder = t /\ e.depth = held[m].depth + 1
  BY <1>1
<1>3. held' = [held EXCEPT ![m] = e]
  BY DEF Obtain
<1> HIDE DEF e
<1>4. /\ held' \in [Locks -> [holder : Threads \cup {Nobody}, depth : Nat]] /\ held'[m] = e
      /\ \A l \in Locks : l # m => held'[l] = held[l]
  BY <1>1, <1>2, <1>3
<1>5. ASSUME NEW l \in Locks, l # m
      PROVE  /\ IsFiniteSet(Pairs(HeldBy(l))') /\ held'[l].depth = Cardinality(Pairs(HeldBy(l))')
             /\ held'[l].depth = 0 <=> held'[l].holder = Nobody
             /\ \A u \in Threads : HoldSet(thread'[u].frames, l) # {} => held'[l].holder = u
  <2>1. HeldBy(l)' = HeldBy(l)
    BY <1>5 DEF HeldBy, Goes
  <2>2. Pairs(HeldBy(l))' = Pairs(HeldBy(l))
    BY <2>1 DEF Pairs
  <2>3. QED
    BY <1>4, <1>5, <2>2 DEF LockInv, Goes
<1>6. ASSUME NEW u \in Threads, u # t PROVE HoldSet(thread[u].frames, m) = {}
  <2>1. HoldSet(thread[u].frames, m) # {} => held[m].holder = u
    BY DEF LockInv
  <2>2. held[m].holder = t \/ held[m].holder = Nobody
    BY DEF Obtainable
  <2>3. u # Nobody
    BY ContainerAssumption DEF Nobody
  <2>4. QED
    BY <1>6, <2>1, <2>2, <2>3
<1>7. IsFiniteSet(Pairs(HeldBy(m))') /\ Cardinality(Pairs(HeldBy(m))') = held[m].depth + 1
  <2>1. PICK S : S = HeldBy(m)
    OBVIOUS
  <2>2. PICK R : R = HeldBy(m)'
    OBVIOUS
  <2>3. n \notin S[t] /\ R[t] = S[t] \cup {n} /\ \A u \in Threads : u # t => R[u] = S[u]
    BY <2>1, <2>2 DEF HeldBy, Goes
  <2>4. IsFiniteSet(Pairs(S)) /\ held[m].depth = Cardinality(Pairs(S))
    BY <2>1 DEF LockInv
  <2>5. IsFiniteSet(Pairs(R)) /\ Cardinality(Pairs(R)) = Cardinality(Pairs(S)) + 1
    BY <2>3, <2>4, PairsGrow
  <2>6. Pairs(HeldBy(m))' = Pairs(R)
    BY <2>2 DEF Pairs
  <2>7. QED
    BY <2>4, <2>5, <2>6
<1>8. \A u \in Threads : HoldSet(thread'[u].frames, m) # {} => held'[m].holder = u
  BY <1>2, <1>4, <1>6 DEF Goes
<1>9. held'[m].depth # 0 /\ held'[m].holder # Nobody
  BY <1>1, <1>2, <1>4
<1>10. LockInv'
  BY <1>2, <1>4, <1>5, <1>7, <1>8, <1>9 DEF LockInv
<1>11. QED
  BY <1>4, <1>10

(* A frame of f that held lock m does not hold it in g. *)
Drops(f, g, m) ==
    /\ \E n \in Nat : n \in HoldSet(f, m) /\ HoldSet(g, m) = HoldSet(f, m) \ {n}
    /\ \A l \in Locks : l # m => HoldSet(g, l) = HoldSet(f, l)

Gives(m) == held' = [held EXCEPT ![m] = Released(m)]

LEMMA LockGiven ==
    ASSUME ContShapes, LockInv, NEW t \in Threads, NEW g, NEW s, Goes(t, g, s), NEW m \in Locks,
           Gives(m), Drops(thread[t].frames, g, m)
    PROVE  LockInv' /\ held' \in [Locks -> [holder : Threads \cup {Nobody}, depth : Nat]]
<1>0. PICK n \in Nat : n \in HoldSet(thread[t].frames, m) /\ HoldSet(g, m) = HoldSet(thread[t].frames, m) \ {n}
  BY DEF Drops
<1>0a. \A l \in Locks : l # m => HoldSet(g, l) = HoldSet(thread[t].frames, l)
  BY DEF Drops
<1>1. held \in [Locks -> [holder : Threads \cup {Nobody}, depth : Nat]] /\ t # Nobody
  BY ContainerAssumption DEF ContShapes, Nobody
<1>2. held[m].holder = t /\ held[m].depth # 0
  BY <1>0, <1>1 DEF LockInv
<1> DEFINE e == Released(m)
<1>3. /\ e \in [holder : Threads \cup {Nobody}, depth : Nat] /\ e.depth = held[m].depth - 1
      /\ e.depth = 0 <=> e.holder = Nobody
      /\ e.depth # 0 => e.holder = t
  <2>1. held[m] \in [holder : Threads \cup {Nobody}, depth : Nat] /\ held[m].depth - 1 \in Nat
    BY <1>1, <1>2
  <2>2. CASE held[m].depth = 1
    BY <2>2 DEF Released
  <2>3. CASE held[m].depth # 1
    BY <1>1, <1>2, <2>1, <2>3 DEF Released
  <2>4. QED
    BY <2>2, <2>3
<1>4. held' = [held EXCEPT ![m] = e]
  BY DEF Gives
<1> HIDE DEF e
<1>5. /\ held' \in [Locks -> [holder : Threads \cup {Nobody}, depth : Nat]] /\ held'[m] = e
      /\ \A l \in Locks : l # m => held'[l] = held[l]
  BY <1>1, <1>3, <1>4
<1>6. ASSUME NEW l \in Locks, l # m
      PROVE  /\ IsFiniteSet(Pairs(HeldBy(l))') /\ held'[l].depth = Cardinality(Pairs(HeldBy(l))')
             /\ held'[l].depth = 0 <=> held'[l].holder = Nobody
             /\ \A u \in Threads : HoldSet(thread'[u].frames, l) # {} => held'[l].holder = u
  <2>1. HeldBy(l)' = HeldBy(l)
    BY <1>0a, <1>6 DEF HeldBy, Goes
  <2>2. Pairs(HeldBy(l))' = Pairs(HeldBy(l))
    BY <2>1 DEF Pairs
  <2>3. QED
    BY <1>0a, <1>5, <1>6, <2>2 DEF LockInv, Goes
<1>7. IsFiniteSet(Pairs(HeldBy(m))') /\ Cardinality(Pairs(HeldBy(m))') = e.depth
  <2>1. PICK S : S = HeldBy(m)
    OBVIOUS
  <2>2. PICK R : R = HeldBy(m)'
    OBVIOUS
  <2>3. n \in S[t] /\ R[t] = S[t] \ {n} /\ \A u \in Threads : u # t => R[u] = S[u]
    BY <1>0, <2>1, <2>2 DEF HeldBy, Goes
  <2>4. IsFiniteSet(Pairs(S)) /\ held[m].depth = Cardinality(Pairs(S))
    BY <2>1 DEF LockInv
  <2>5. IsFiniteSet(Pairs(R)) /\ Cardinality(Pairs(R)) = Cardinality(Pairs(S)) - 1
    BY <2>3, <2>4, PairsShrink
  <2>6. Pairs(HeldBy(m))' = Pairs(R)
    BY <2>2 DEF Pairs
  <2>7. QED
    BY <1>3, <2>4, <2>5, <2>6
<1>8. ASSUME NEW u \in Threads, HoldSet(thread'[u].frames, m) # {} PROVE held'[m].holder = u
  <2>1. HoldSet(thread[u].frames, m) # {}
    BY <1>0, <1>8 DEF Goes
  <2>2. u = t
    BY <1>2, <2>1 DEF LockInv
  <2>3. Pairs(HeldBy(m))' # {}
    <3>1. PICK i : i \in HoldSet(thread'[u].frames, m)
      BY <1>8
    <3>2. i \in Nat
      BY <3>1, <2>2 DEF HoldSet, Goes
    <3>3. <<u, i>> \in Pairs(HeldBy(m))'
      BY <3>1, <3>2 DEF Pairs, HeldBy
    <3>4. QED
      BY <3>3
  <2>4. e.depth # 0
    BY <1>7, <2>3, FS_EmptySet
  <2>5. QED
    BY <1>3, <1>5, <2>2, <2>4
<1>9. LockInv'
  BY <1>3, <1>5, <1>6, <1>7, <1>8 DEF LockInv
<1>10. QED
  BY <1>5, <1>9

(* Frames of g that store are frames of f, or store k. *)
StoresMore(f, g, K) ==
    \A n \in 1 .. Len(g) : Nth(g, n).at = "store" =>
        (n \in 1 .. Len(f) /\ Nth(f, n) = Nth(g, n)) \/ Nth(g, n).key \in K

LEMMA BuiltStays ==
    ASSUME BuiltInv, NEW t \in Threads, NEW g, NEW s, Goes(t, g, s), UNCHANGED <<instances, built, scopes>>,
           NEW K, StoresMore(thread[t].frames, g, K), K \cap instances = {}
    PROVE  BuiltInv'
<1>1. \A n \in 1 .. Len(g) : Nth(g, n).at = "store" => Nth(g, n).key \notin instances
  BY DEF BuiltInv, StoresMore
<1>2. ASSUME NEW u \in Threads, NEW n \in 1 .. Len(thread'[u].frames), Nth(thread'[u].frames, n).at = "store"
      PROVE  Nth(thread'[u].frames, n).key \notin instances'
  <2>1. CASE u = t
    BY <1>1, <1>2, <2>1 DEF Goes
  <2>2. CASE u # t
    BY <1>2, <2>2 DEF Goes, BuiltInv
  <2>3. QED
    BY <2>1, <2>2
<1>3. QED
  BY <1>2 DEF BuiltInv

LEMMA StoresTo ==
    ASSUME NEW f \in Seq(Frame), f # <<>>, NEW a \in FrameLabels
    PROVE  StoresMore(f, To(f, a), IF a = "store" THEN {Head(f).key} ELSE {})
<1> DEFINE g == To(f, a)
<1>1. Len(f) \in Nat /\ Len(f) >= 1
  BY FrameFacts
<1>2. /\ Len(g) = Len(f) /\ Nth(g, Len(f)) = [key |-> Head(f).key, at |-> a]
      /\ \A n \in 1 .. Len(f) - 1 : Nth(g, n) = Nth(f, n)
  BY ToIs
<1> HIDE DEF g
<1>3. \A n \in 1 .. Len(f) : n = Len(f) \/ n \in 1 .. Len(f) - 1
  BY <1>1
<1>4. QED
  BY <1>2, <1>3 DEF StoresMore, g

LEMMA StoresTail ==
    ASSUME NEW f \in Seq(Frame), f # <<>> PROVE StoresMore(f, Tail(f), {})
<1>1. Len(f) \in Nat /\ Len(f) >= 1
  BY FrameFacts
<1>2. Len(Tail(f)) = Len(f) - 1 /\ \A n \in 1 .. Len(f) - 1 : Nth(Tail(f), n) = Nth(f, n)
  BY TailIs
<1>3. 1 .. Len(f) - 1 \subseteq 1 .. Len(f)
  BY <1>1
<1>4. QED
  BY <1>2, <1>3 DEF StoresMore

LEMMA StoresPush ==
    ASSUME NEW f \in Seq(Frame), NEW x \in Frame, x.at = "make" PROVE StoresMore(f, <<x>> \o f, {})
<1> DEFINE g == <<x>> \o f
<1>1. Len(f) \in Nat
  BY FrameFacts
<1>2. Len(g) = Len(f) + 1 /\ Nth(g, Len(f) + 1) = x /\ \A n \in 1 .. Len(f) : Nth(g, n) = Nth(f, n)
  BY PushIs
<1> HIDE DEF g
<1>3. \A n \in 1 .. Len(f) + 1 : n = Len(f) + 1 \/ n \in 1 .. Len(f)
  BY <1>1
<1>4. QED
  BY <1>2, <1>3 DEF StoresMore, g

LEMMA StoresThen ==
    ASSUME NEW f, NEW g, NEW h, NEW K, NEW M, StoresMore(f, g, K), StoresMore(g, h, M)
    PROVE  StoresMore(f, h, K \cup M)
<1> SUFFICES ASSUME NEW n \in 1 .. Len(h), Nth(h, n).at = "store"
             PROVE  (n \in 1 .. Len(f) /\ Nth(f, n) = Nth(h, n)) \/ Nth(h, n).key \in K \cup M
  BY DEF StoresMore
<1>1. CASE Nth(h, n).key \in M
  BY <1>1
<1>2. CASE n \in 1 .. Len(g) /\ Nth(g, n) = Nth(h, n)
  <2>1. (n \in 1 .. Len(f) /\ Nth(f, n) = Nth(g, n)) \/ Nth(g, n).key \in K
    BY <1>2 DEF StoresMore
  <2>2. QED
    BY <1>2, <2>1
<1>3. QED
  BY <1>1, <1>2 DEF StoresMore

LEMMA ScopesStay ==
    ASSUME ScopeInv, NEW t \in Threads, NEW g, NEW s, Goes(t, g, s), Open(t), s \notin {"new", "closed"},
           UNCHANGED <<current, overlapped>>,
           \A u \in Threads : u # t => taken'[u] = taken[u],
           ~ overlapped /\ current = t => taken'[t] \in {t, Nobody},
           \A u \in Threads : ~ overlapped => \A p \in scopes'[u] : p[1] = u \/ p \in scopes[u]
    PROVE  ScopeInv'
<1> SUFFICES ASSUME ~ overlapped
             PROVE  /\ \A u \in Threads : taken'[u] \in {u, Nobody}
                    /\ \A u \in Threads : \A p \in scopes'[u] : p[1] = u
                    /\ \A u \in Threads : Open(u)' => current = u /\ thread'[u].saved = Base
                    /\ current # Base => thread'[current].state \notin {"new", "closed"}
  BY DEF ScopeInv, Open
<1>1. current = t
  BY DEF ScopeInv
<1>2. \A u \in Threads : taken'[u] \in {u, Nobody}
  BY <1>1 DEF ScopeInv
<1>3. \A u \in Threads : \A p \in scopes'[u] : p[1] = u
  BY DEF ScopeInv
<1>4. \A u \in Threads : Open(u)' => current = u /\ thread'[u].saved = Base
  BY DEF ScopeInv, Open, Goes
<1>5. thread'[current].state \notin {"new", "closed"}
  BY <1>1 DEF Goes
<1>6. QED
  BY <1>2, <1>3, <1>4, <1>5

-----------------------------------------------------------------------------
(* The steps of a thread *)

(* A thread with frames is at work on the top one. *)
LEMMA AtWork ==
    ASSUME ContainerInv, NEW t \in Threads, thread[t].frames # <<>>
    PROVE  /\ thread[t].frames \in Seq(Frame) /\ Proper(thread[t].frames)
           /\ thread[t].state = "making" /\ "making" \in ThreadStates /\ Open(t)
           /\ Len(thread[t].frames) \in Nat /\ Len(thread[t].frames) >= 1
           /\ Key(t) \in Services
           /\ Nth(thread[t].frames, Len(thread[t].frames)) = Head(thread[t].frames)
           /\ Head(thread[t].frames) \in Frame
<1>1. Proper(thread[t].frames) /\ thread[t].state = "making"
  BY DEF ContainerInv, ThreadsInv
<1>2. PICK f : f = thread[t].frames
  OBVIOUS
<1>3. f \in Seq(Frame) /\ f # <<>>
  BY <1>1, <1>2 DEF Proper
<1>4. Head(f) \in Frame /\ Len(f) \in Nat /\ Len(f) >= 1 /\ Nth(f, Len(f)) = Head(f)
  BY <1>3, FrameFacts, HeadTailProperties
<1>5. QED
  BY <1>1, <1>2, <1>3, <1>4, FrameIs DEF Open, ThreadStates, Key

(* Relabelling the top frame, from a label that holds no lock to another. *)
LEMMA StepGoes ==
    ASSUME ContainerInv, NEW t \in Threads, thread[t].frames # <<>>, NEW a \in FrameLabels, Step(t, a),
           a \in {"store", "return"} => Key(t) \notin Endless
    PROVE  /\ Goes(t, To(thread[t].frames, a), "making")
           /\ To(thread[t].frames, a) \in Seq(Frame) /\ To(thread[t].frames, a) # <<>>
           /\ ThreadsInv' /\ thread' \in [Threads -> ThreadState]
           /\ StoresMore(thread[t].frames, To(thread[t].frames, a), IF a = "store" THEN {Key(t)} ELSE {})
           /\ Pushes(To(thread[t].frames, a)) = IF a \in {"make", "raise"} THEN Len(thread[t].frames) - 1
                                                ELSE Len(thread[t].frames)
<1>1. PICK f : f = thread[t].frames
  OBVIOUS
<1>2. f \in Seq(Frame) /\ f # <<>> /\ Proper(f) /\ thread[t].state = "making" /\ "making" \in ThreadStates
  BY <1>1, AtWork
<1>3. PICK g : g = To(f, a)
  OBVIOUS
<1>4. g \in Seq(Frame) /\ g # <<>> /\ Len(g) = Len(f) /\ Head(g) = [key |-> Head(f).key, at |-> a]
  BY <1>2, <1>3, ToIs
<1>5. thread' = [thread EXCEPT ![t].frames = g]
  BY <1>1, <1>3 DEF Step
<1>6. Goes(t, g, "making")
  BY <1>2, <1>4, <1>5, ThreadGoes DEF ContainerInv
<1>7. Proper(g)
  BY <1>1, <1>2, <1>3, ToProper DEF Key
<1>8. ThreadsInv'
  BY <1>4, <1>6, <1>7, ThreadsStay DEF ContainerInv
<1>9. StoresMore(f, g, IF a = "store" THEN {Key(t)} ELSE {})
  BY <1>1, <1>2, <1>3, StoresTo DEF Key
<1>10. Pushes(g) = IF a \in {"make", "raise"} THEN Len(f) - 1 ELSE Len(f)
  BY <1>4 DEF Pushes
<1>11. QED
  BY <1>1, <1>3, <1>4, <1>6, <1>8, <1>9, <1>10 DEF Goes

LEMMA MakeKeeps == ASSUME ContainerInv, NEW t \in Threads, Make(t) PROVE ContainerInv'
<1>1. PICK f : f = thread[t].frames
  OBVIOUS
<1>2. f \in Seq(Frame) /\ f # <<>> /\ Head(f).at = "make" /\ Len(f) \in Nat /\ Key(t) \in Services /\ Open(t)
  BY <1>1, AtWork DEF Make, At
<1>3. Pushes(f) = Len(f) - 1
  BY <1>2 DEF Pushes
<1>4. PICK a \in {"raise", "look"} : /\ Step(t, a)
                                     /\ a = "raise" => UNCHANGED stack
                                     /\ a = "look" => stack' = Append(stack, Key(t))
  BY DEF Make
<1>5. PICK g : g = To(f, a)
  OBVIOUS
<1>6. /\ Goes(t, g, "making") /\ g \in Seq(Frame) /\ ThreadsInv' /\ thread' \in [Threads -> ThreadState]
      /\ StoresMore(f, g, {}) /\ Pushes(g) = IF a = "raise" THEN Len(f) - 1 ELSE Len(f)
  <2>1. a \in FrameLabels /\ a \notin {"store", "return", "make"}
    BY DEF FrameLabels
  <2>2. QED
    BY <1>1, <1>2, <1>4, <1>5, <2>1, StepGoes
<1>7. UNCHANGED <<instances, current, scopes, held, built, taken, overlapped>>
  BY DEF Make
<1>8. StackInv' /\ stack' \in Seq(Services)
  <2>1. CASE a = "raise"
    BY <1>1, <1>3, <1>4, <1>6, <2>1, StackStays DEF ContainerInv, ContShapes
  <2>2. CASE a = "look"
    <3>1. Pushes(g) = Pushes(f) + 1
      BY <1>2, <1>3, <1>6, <2>2
    <3>2. StackInv'
      BY <1>1, <1>2, <1>4, <1>6, <2>2, <3>1, StackGrows DEF ContainerInv
    <3>3. QED
      BY <1>2, <1>4, <2>2, <3>2, AppendProperties DEF ContainerInv, ContShapes
  <2>3. QED
    BY <2>1, <2>2
<1>9. LockInv'
  <2>1. ASSUME NEW l PROVE HoldSet(g, l) = HoldSet(f, l)
    <3>1. ~ Holds(Head(f), l) /\ ~ Holds([key |-> Head(f).key, at |-> a], l)
      BY <1>2 DEF Holds
    <3>2. a \in FrameLabels
      BY DEF FrameLabels
    <3>3. QED
      BY <1>2, <1>5, <3>1, <3>2, SameHold
  <2>2. QED
    BY <1>1, <1>6, <1>7, <2>1, LocksStay DEF ContainerInv
<1>10. BuiltInv'
  <2>1. StoresMore(thread[t].frames, g, {}) /\ {} \cap instances = {}
    BY <1>1, <1>6
  <2>2. QED
    BY <1>6, <1>7, <2>1, BuiltStays DEF ContainerInv
<1>11. ScopeInv'
  BY <1>2, <1>6, <1>7, ScopesStay DEF ContainerInv, ScopeInv
<1>12. ContShapes'
  BY <1>6, <1>7, <1>8 DEF ContainerInv, ContShapes
<1>13. QED
  BY <1>6, <1>8, <1>9, <1>10, <1>11, <1>12 DEF ContainerInv

LEMMA Kept ==
    ASSUME ContShapes, NEW t \in Threads, NEW who \in Threads \cup {Nobody}, Keep(t, who)
    PROVE  /\ taken' \in [Threads -> Threads \cup {Nobody}] /\ taken'[t] \in {who, taken[t]}
           /\ \A u \in Threads : u # t => taken'[u] = taken[u]
<1>1. taken \in [Threads -> Threads \cup {Nobody}]
  BY DEF ContShapes
<1>2. PICK v \in {who, taken[t]} : taken' = [taken EXCEPT ![t] = v]
  <2>1. CASE Len(thread[t].frames) = 1
    BY <2>1 DEF Keep
  <2>2. CASE Len(thread[t].frames) # 1
    BY <2>2 DEF Keep
  <2>3. QED
    BY <2>1, <2>2
<1>3. v \in Threads \cup {Nobody}
  BY <1>1
<1>4. QED
  BY <1>1, <1>2, <1>3

LEMMA Found ==
    ASSUME ContainerInv, NEW k, NEW p \in InScope(k)
    PROVE  /\ p[1] \in Threads /\ k \notin Endless
           /\ ~ overlapped /\ current \in Threads => p[1] = current
<1>1. p \in scopes[current] /\ p[2] = k /\ current \in Threads \cup {Base} /\ scopes[current] \subseteq Threads \X Scoped
  BY DEF InScope, ContainerInv, ContShapes
<1>2. p[1] \in Threads /\ k \notin Endless
  BY <1>1 DEF ContainerInv, BuiltInv
<1>3. ~ overlapped /\ current \in Threads => p[1] = current
  BY <1>1 DEF ContainerInv, ScopeInv
<1>4. QED
  BY <1>2, <1>3

LEMMA LookUpKeeps == ASSUME ContainerInv, NEW t \in Threads, LookUp(t) PROVE ContainerInv'
<1>1. PICK f : f = thread[t].frames
  OBVIOUS
<1>2. f \in Seq(Frame) /\ f # <<>> /\ Head(f).at = "look" /\ Len(f) \in Nat /\ Key(t) \in Services /\ Open(t)
  BY <1>1, AtWork DEF LookUp, At
<1>3. Pushes(f) = Len(f)
  BY <1>2 DEF Pushes
<1>4. PICK a \in {"return", "acquire"} : Step(t, a) /\ (a = "return" => Key(t) \notin Endless)
  <2>1. CASE Key(t) \in instances /\ Step(t, "return")
    BY <2>1 DEF ContainerInv, BuiltInv
  <2>2. ASSUME NEW p \in InScope(Key(t)), Step(t, "return") PROVE Key(t) \notin Endless
    BY Found
  <2>3. QED
    BY <2>1, <2>2 DEF LookUp
<1>5. PICK g : g = To(f, a)
  OBVIOUS
<1>6. /\ Goes(t, g, "making") /\ g \in Seq(Frame) /\ ThreadsInv' /\ thread' \in [Threads -> ThreadState]
      /\ StoresMore(f, g, {}) /\ Pushes(g) = Len(f)
  <2>1. a \in FrameLabels /\ a \notin {"store", "raise", "make"}
    BY DEF FrameLabels
  <2>2. QED
    BY <1>1, <1>2, <1>4, <1>5, <2>1, StepGoes
<1>7. UNCHANGED <<instances, current, scopes, stack, held, built, overlapped>>
  BY DEF LookUp
<1>8. /\ taken' \in [Threads -> Threads \cup {Nobody}]
      /\ \A u \in Threads : u # t => taken'[u] = taken[u]
      /\ ~ overlapped /\ current = t => taken'[t] \in {t, Nobody}
  <2>1. CASE UNCHANGED taken
    BY <2>1 DEF ContainerInv, ContShapes, ScopeInv
  <2>2. CASE \E p \in InScope(Key(t)) : Keep(t, p[1])
    <3>1. PICK p \in InScope(Key(t)) : Keep(t, p[1])
      BY <2>2
    <3>2. p[1] \in Threads /\ (~ overlapped /\ current = t => p[1] = t)
      BY Found
    <3>3. QED
      BY <3>1, <3>2, Kept DEF ContainerInv, ScopeInv
  <2>3. QED
    BY <2>1, <2>2 DEF LookUp
<1>9. StackInv'
  BY <1>1, <1>3, <1>6, <1>7, StackStays DEF ContainerInv
<1>10. LockInv'
  <2>1. ASSUME NEW l PROVE HoldSet(g, l) = HoldSet(f, l)
    <3>1. ~ Holds(Head(f), l) /\ ~ Holds([key |-> Head(f).key, at |-> a], l)
      BY <1>2 DEF Holds
    <3>2. a \in FrameLabels
      BY DEF FrameLabels
    <3>3. QED
      BY <1>2, <1>5, <3>1, <3>2, SameHold
  <2>2. QED
    BY <1>1, <1>6, <1>7, <2>1, LocksStay DEF ContainerInv
<1>11. BuiltInv'
  <2>1. StoresMore(thread[t].frames, g, {}) /\ {} \cap instances = {}
    BY <1>1, <1>6
  <2>2. QED
    BY <1>6, <1>7, <2>1, BuiltStays DEF ContainerInv
<1>12. ScopeInv'
  BY <1>2, <1>6, <1>7, <1>8, ScopesStay DEF ContainerInv
<1>13. ContShapes'
  BY <1>6, <1>7, <1>8 DEF ContainerInv, ContShapes
<1>14. QED
  BY <1>6, <1>9, <1>10, <1>11, <1>12, <1>13 DEF ContainerInv

LEMMA AcquireKeeps == ASSUME ContainerInv, NEW t \in Threads, Acquire(t) PROVE ContainerInv'
<1>1. PICK f : f = thread[t].frames
  OBVIOUS
<1>2. f \in Seq(Frame) /\ f # <<>> /\ Head(f).at = "acquire" /\ Len(f) \in Nat /\ Key(t) \in Services /\ Open(t)
  BY <1>1, AtWork DEF Acquire, At
<1>3. Pushes(f) = Len(f) /\ Key(t) = Head(f).key
  BY <1>1, <1>2 DEF Pushes, Key
<1>4. PICK g : g = To(f, "recheck")
  OBVIOUS
<1>5. "recheck" \in FrameLabels
  BY DEF FrameLabels
<1>6. /\ Goes(t, g, "making") /\ g \in Seq(Frame) /\ ThreadsInv' /\ thread' \in [Threads -> ThreadState]
      /\ StoresMore(f, g, {}) /\ Pushes(g) = Len(f)
  BY <1>1, <1>2, <1>4, <1>5, StepGoes DEF Acquire
<1>7. UNCHANGED <<instances, current, scopes, stack, built, taken, overlapped>>
  BY DEF Acquire
<1>8. StackInv'
  BY <1>1, <1>3, <1>6, <1>7, StackStays DEF ContainerInv
<1>9. \A l : Len(f) \notin HoldSet(f, l)
  BY <1>2, TopHolds DEF Holds
<1>10. LockInv' /\ held' \in [Locks -> [holder : Threads \cup {Nobody}, depth : Nat]]
  <2>1. CASE Key(t) \in Singletons \cup Scoped
    <3>1. PICK m : m = LockOf(Key(t))
      OBVIOUS
    <3>2. m \in Locks /\ Obtainable(t, m) /\ Obtain(t, m)
      BY <2>1, <3>1 DEF LockOf, Locks, Acquire
    <3>3. \A l : Holds([key |-> Head(f).key, at |-> "recheck"], l) <=> l = m
      BY <1>3, <2>1, <3>1 DEF Holds
    <3>4. /\ HoldSet(g, m) = HoldSet(f, m) \cup {Len(f)}
          /\ \A l : l # m => HoldSet(g, l) = HoldSet(f, l)
      <4>1. HoldSet(g, m) = HoldSet(f, m) \cup {Len(f)}
        BY <1>2, <1>4, <1>5, <3>3, HoldTo
      <4>2. ASSUME NEW l, l # m PROVE HoldSet(g, l) = HoldSet(f, l)
        <5>1. HoldSet(g, l) = HoldSet(f, l) \ {Len(f)}
          BY <1>2, <1>4, <1>5, <3>3, <4>2, HoldTo
        <5>2. QED
          BY <1>9, <5>1
      <4>3. QED
        BY <4>1, <4>2
    <3>5. QED
      BY <1>1, <1>2, <1>6, <1>9, <3>2, <3>4, LockTaken DEF ContainerInv
  <2>2. CASE Key(t) \notin Singletons \cup Scoped
    <3>1. \A l \in Locks : HoldSet(g, l) = HoldSet(f, l)
      <4>1. \A l : ~ Holds(Head(f), l) /\ ~ Holds([key |-> Head(f).key, at |-> "recheck"], l)
        BY <1>2, <1>3, <2>2 DEF Holds
      <4>2. QED
        BY <1>2, <1>4, <1>5, <4>1, SameHold
    <3>2. UNCHANGED held
      BY <2>2 DEF Acquire
    <3>3. QED
      BY <1>1, <1>6, <3>1, <3>2, LocksStay DEF ContainerInv, ContShapes
  <2>3. QED
    BY <2>1, <2>2
<1>11. BuiltInv'
  <2>1. StoresMore(thread[t].frames, g, {}) /\ {} \cap instances = {}
    BY <1>1, <1>6
  <2>2. QED
    BY <1>6, <1>7, <2>1, BuiltStays DEF ContainerInv
<1>12. ScopeInv'
  BY <1>2, <1>6, <1>7, ScopesStay DEF ContainerInv, ScopeInv
<1>13. ContShapes'
  BY <1>6, <1>7, <1>10 DEF ContainerInv, ContShapes
<1>14. QED
  BY <1>6, <1>8, <1>10, <1>11, <1>12, <1>13 DEF ContainerInv

(* A frame that held the lock of its service gives it back. *)
LEMMA GiveTop ==
    ASSUME NEW f \in Seq(Frame), f # <<>>, Head(f).at \in {"recheck", "store"},
           Head(f).key \in Singletons \cup Scoped, NEW a \in FrameLabels, a \notin {"recheck", "store"}
    PROVE  LockOf(Head(f).key) \in Locks /\ Drops(f, To(f, a), LockOf(Head(f).key))
<1>1. LockOf(Head(f).key) \in Locks
  BY DEF LockOf, Locks
<1>2. PICK m : m = LockOf(Head(f).key)
  OBVIOUS
<1>3. \A l : (Holds(Head(f), l) <=> l = m) /\ ~ Holds([key |-> Head(f).key, at |-> a], l)
  BY <1>2 DEF Holds
<1>4. Len(f) \in Nat /\ Len(f) \in HoldSet(f, m) /\ HoldSet(To(f, a), m) = HoldSet(f, m) \ {Len(f)}
  BY <1>3, TopHolds, HoldTo
<1>5. \A l : l # m => HoldSet(To(f, a), l) = HoldSet(f, l)
  BY <1>3, SameHold
<1>6. Drops(f, To(f, a), m)
  BY <1>4, <1>5 DEF Drops
<1>7. QED
  BY <1>1, <1>2, <1>6

LEMMA RecheckFinds ==
    ASSUME ContainerInv, NEW t \in Threads, At(t, "recheck"), Step(t, "return"),
           Key(t) \in Singletons \cup Scoped, Key(t) \notin Endless,
           held' = [held EXCEPT ![LockOf(Key(t))] = Released(LockOf(Key(t)))],
           NEW who \in Threads \cup {Nobody}, UNCHANGED taken \/ Keep(t, who),
           ~ overlapped /\ current = t => who = t,
           UNCHANGED <<instances, current, scopes, stack, built, overlapped>>
    PROVE  ContainerInv'
<1>1. PICK f : f = thread[t].frames
  OBVIOUS
<1>2. f \in Seq(Frame) /\ f # <<>> /\ Head(f).at = "recheck" /\ Len(f) \in Nat /\ Key(t) \in Services /\ Open(t)
  BY <1>1, AtWork DEF At
<1>3. Pushes(f) = Len(f) /\ Key(t) = Head(f).key
  BY <1>1, <1>2 DEF Pushes, Key
<1>4. PICK g : g = To(f, "return")
  OBVIOUS
<1>5. "return" \in FrameLabels
  BY DEF FrameLabels
<1>6. /\ Goes(t, g, "making") /\ g \in Seq(Frame) /\ ThreadsInv' /\ thread' \in [Threads -> ThreadState]
      /\ StoresMore(f, g, {}) /\ Pushes(g) = Len(f)
  BY <1>1, <1>2, <1>4, <1>5, StepGoes
<1>7. StackInv'
  BY <1>1, <1>3, <1>6, StackStays DEF ContainerInv
<1>8. LockInv' /\ held' \in [Locks -> [holder : Threads \cup {Nobody}, depth : Nat]]
  <2>1. PICK m : m = LockOf(Key(t))
    OBVIOUS
  <2>2. m \in Locks /\ Drops(thread[t].frames, g, m)
    BY <1>1, <1>2, <1>3, <1>4, <1>5, <2>1, GiveTop
  <2>3. Gives(m)
    BY <2>1 DEF Gives
  <2>4. QED
    BY <1>6, <2>2, <2>3, LockGiven DEF ContainerInv
<1>9. BuiltInv'
  <2>1. StoresMore(thread[t].frames, g, {}) /\ {} \cap instances = {}
    BY <1>1, <1>6
  <2>2. QED
    BY <1>6, <2>1, BuiltStays DEF ContainerInv
<1>10. /\ taken' \in [Threads -> Threads \cup {Nobody}]
       /\ \A u \in Threads : u # t => taken'[u] = taken[u]
       /\ ~ overlapped /\ current = t => taken'[t] \in {t, Nobody}
  <2>1. CASE UNCHANGED taken
    BY <2>1 DEF ContainerInv, ContShapes, ScopeInv
  <2>2. CASE Keep(t, who)
    BY <2>2, Kept DEF ContainerInv, ScopeInv
  <2>3. QED
    BY <2>1, <2>2
<1>11. ScopeInv'
  BY <1>2, <1>6, <1>10, ScopesStay DEF ContainerInv
<1>12. ContShapes'
  BY <1>6, <1>8, <1>10 DEF ContainerInv, ContShapes
<1>13. QED
  BY <1>6, <1>7, <1>8, <1>9, <1>11, <1>12 DEF ContainerInv

LEMMA BeginKeeps ==
    ASSUME ContainerInv, NEW t \in Threads, At(t, "recheck"), Begin(t), Key(t) \notin instances,
           UNCHANGED <<instances, current, scopes, stack, built, overlapped>>
    PROVE  ContainerInv'
<1>1. PICK f : f = thread[t].frames
  OBVIOUS
<1>2. /\ f \in Seq(Frame) /\ f # <<>> /\ Head(f).at = "recheck" /\ Len(f) \in Nat /\ Key(t) \in Services /\ Open(t)
      /\ Proper(f) /\ "making" \in ThreadStates /\ thread[t].state = "making"
  BY <1>1, AtWork DEF At
<1>3. Pushes(f) = Len(f) /\ Key(t) = Head(f).key
  BY <1>1, <1>2 DEF Pushes, Key
<1>4. PICK h : h = To(f, "store")
  OBVIOUS
<1>5. "store" \in FrameLabels
  BY DEF FrameLabels
<1>6. /\ h \in Seq(Frame) /\ Len(h) = Len(f) /\ h # <<>> /\ Head(h) = [key |-> Key(t), at |-> "store"]
      /\ StoresMore(f, h, {Key(t)}) /\ \A l : HoldSet(h, l) = HoldSet(f, l)
  <2>1. ASSUME NEW l PROVE HoldSet(h, l) = HoldSet(f, l)
    <3>1. Holds(Head(f), l) <=> Holds([key |-> Head(f).key, at |-> "store"], l)
      BY <1>2 DEF Holds
    <3>2. QED
      BY <1>2, <1>4, <1>5, <3>1, SameHold
  <2>2. StoresMore(f, h, {Key(t)})
    BY <1>2, <1>3, <1>4, <1>5, StoresTo
  <2>3. QED
    BY <1>2, <1>3, <1>4, <1>5, <2>1, <2>2, ToIs
<1>7. PICK g \in Seq(Frame) : /\ Goes(t, g, "making") /\ Proper(g) /\ g # <<>> /\ Pushes(g) = Len(f)
                              /\ StoresMore(f, g, {Key(t)}) /\ \A l : HoldSet(g, l) = HoldSet(f, l)
  <2>1. CASE Needs[Key(t)] = NoService
    <3>1. thread' = [thread EXCEPT ![t].frames = h]
      BY <1>1, <1>4, <2>1 DEF Begin
    <3>2. Goes(t, h, "making")
      BY <1>2, <1>6, <3>1, ThreadGoes DEF ContainerInv
    <3>3. Key(t) \notin Endless
      BY <2>1, EndlessNeeds, ContainerAssumption
    <3>4. Proper(h)
      BY <1>2, <1>3, <1>4, <1>5, <3>3, ToProper
    <3>5. Pushes(h) = Len(f)
      BY <1>6 DEF Pushes
    <3>6. QED
      BY <1>6, <3>2, <3>4, <3>5
  <2>2. CASE Needs[Key(t)] # NoService
    <3>1. Needs[Key(t)] \in Services
      BY <1>2, <2>2, ContainerAssumption
    <3>2. PICK x : x = [key |-> Needs[Key(t)], at |-> "make"]
      OBVIOUS
    <3>3. x \in Frame /\ x.at = "make"
      BY <3>1, <3>2, FrameIs DEF FrameLabels
    <3>4. PICK g : g = <<x>> \o h
      OBVIOUS
    <3>5. /\ g \in Seq(Frame) /\ Len(g) = Len(f) + 1 /\ Head(g) = x /\ g # <<>>
      BY <1>6, <3>3, <3>4, PushIs
    <3>6. Proper(g)
      BY <1>2, <1>3, <1>4, <3>1, <3>2, <3>4, NeedProper
    <3>7. thread' = [thread EXCEPT ![t].frames = g]
      BY <1>1, <1>4, <2>2, <3>2, <3>4 DEF Begin
    <3>8. Goes(t, g, "making")
      BY <1>2, <3>5, <3>7, ThreadGoes DEF ContainerInv
    <3>9. Pushes(g) = Len(f)
      BY <1>2, <3>3, <3>5 DEF Pushes
    <3>10. StoresMore(f, g, {Key(t)})
      <4>1. StoresMore(h, g, {})
        BY <1>6, <3>3, <3>4, StoresPush
      <4>2. StoresMore(f, g, {Key(t)} \cup {})
        BY <1>6, <4>1, StoresThen
      <4>3. QED
        BY <4>2
    <3>11. \A l : HoldSet(g, l) = HoldSet(f, l)
      BY <1>6, <3>3, <3>4, HoldPush
    <3>12. QED
      BY <3>5, <3>6, <3>8, <3>9, <3>10, <3>11
  <2>3. QED
    BY <2>1, <2>2
<1>8. UNCHANGED <<held, taken>>
  BY DEF Begin
<1>9. ThreadsInv' /\ thread' \in [Threads -> ThreadState]
  BY <1>7, ThreadsStay DEF ContainerInv, Goes
<1>10. StackInv'
  BY <1>1, <1>3, <1>7, StackStays DEF ContainerInv
<1>11. LockInv'
  BY <1>1, <1>7, <1>8, LocksStay DEF ContainerInv
<1>12. BuiltInv'
  <2>1. StoresMore(thread[t].frames, g, {Key(t)}) /\ {Key(t)} \cap instances = {}
    BY <1>1, <1>7
  <2>2. QED
    BY <1>7, <2>1, BuiltStays DEF ContainerInv
<1>13. ScopeInv'
  BY <1>2, <1>7, <1>8, ScopesStay DEF ContainerInv, ScopeInv
<1>14. ContShapes'
  BY <1>8, <1>9 DEF ContainerInv, ContShapes
<1>15. QED
  BY <1>9, <1>10, <1>11, <1>12, <1>13, <1>14 DEF ContainerInv

LEMMA RecheckKeeps == ASSUME ContainerInv, NEW t \in Threads, Recheck(t) PROVE ContainerInv'
<1>1. At(t, "recheck") /\ UNCHANGED <<instances, current, scopes, stack, built, overlapped>>
  BY DEF Recheck
<1>2. CASE /\ Key(t) \in instances
           /\ Step(t, "return")
           /\ held' = [held EXCEPT !["singleton"] = Released("singleton")]
           /\ UNCHANGED taken
  <2>1. Key(t) \in Singletons /\ Key(t) \notin Endless /\ LockOf(Key(t)) = "singleton"
    BY <1>2 DEF ContainerInv, ContShapes, BuiltInv, LockOf
  <2>2. QED
    BY <1>1, <1>2, <2>1, RecheckFinds
<1>3. CASE /\ Key(t) \in Scoped
           /\ \E p \in InScope(Key(t)) : Keep(t, p[1])
           /\ Step(t, "return")
           /\ held' = [held EXCEPT !["scoped"] = Released("scoped")]
  <2>1. PICK p \in InScope(Key(t)) : Keep(t, p[1])
    BY <1>3
  <2>2. LockOf(Key(t)) = "scoped"
    BY <1>3, ContainerAssumption DEF LockOf
  <2>3. p[1] \in Threads /\ Key(t) \notin Endless /\ (~ overlapped /\ current = t => p[1] = t)
    BY Found
  <2>4. QED
    BY <1>1, <1>3, <2>1, <2>2, <2>3, RecheckFinds
<1>4. CASE Key(t) \notin instances /\ Begin(t)
  BY <1>1, <1>4, BeginKeeps
<1>5. QED
  BY <1>2, <1>3, <1>4 DEF Recheck

(***************************************************************************)
(* The singleton a thread stores is being built by no other frame: another *)
(* thread would hold the lock, and this one would go round without an end. *)
(***************************************************************************)
LEMMA OneBuilder ==
    ASSUME ContainerInv, NEW t \in Threads, At(t, "store"), Key(t) \in Singletons,
           NEW u \in Threads, NEW n \in 1 .. Len(thread[u].frames),
           Nth(thread[u].frames, n).at = "store", Nth(thread[u].frames, n).key = Key(t)
    PROVE  u = t /\ n = Len(thread[t].frames)
<1>1. PICK f : f = thread[t].frames
  OBVIOUS
<1>2. /\ f \in Seq(Frame) /\ f # <<>> /\ Head(f).at = "store" /\ Len(f) \in Nat /\ Len(f) >= 1
      /\ Proper(f) /\ Nth(f, Len(f)) = Head(f) /\ Key(t) = Head(f).key
  BY <1>1, AtWork DEF At, Key
<1>3. Len(f) \in HoldSet(f, "singleton")
  <2>1. Holds(Head(f), "singleton")
    BY <1>2 DEF Holds, LockOf
  <2>2. QED
    BY <1>2, <2>1, TopHolds
<1>4. u = t
  <2>1. Holds(Nth(thread[u].frames, n), "singleton")
    BY DEF Holds, LockOf
  <2>2. n \in HoldSet(thread[u].frames, "singleton")
    BY <2>1 DEF HoldSet
  <2>3. held["singleton"].holder = t /\ held["singleton"].holder = u
    BY <1>1, <1>3, <2>2 DEF ContainerInv, LockInv, Locks
  <2>4. QED
    BY <2>3
<1>5. n = Len(f)
  <2> SUFFICES ASSUME n # Len(f) PROVE FALSE
    OBVIOUS
  <2>1. n \in 1 .. Len(f) /\ n < Len(f) /\ Len(f) \in 1 .. Len(f)
    BY <1>1, <1>2, <1>4
  <2>2. Nth(f, n).key = Nth(f, Len(f)).key
    BY <1>1, <1>2, <1>4
  <2>3. Nth(f, Len(f)).key \in Endless
    BY <1>2, <2>1, <2>2, TwiceEndless
  <2>4. QED
    BY <1>2, <2>3 DEF Proper
<1>6. QED
  BY <1>1, <1>4, <1>5

LEMMA StoreKeeps == ASSUME ContainerInv, NEW t \in Threads, Store(t) PROVE ContainerInv'
<1>1. PICK f : f = thread[t].frames
  OBVIOUS
<1>2. /\ f \in Seq(Frame) /\ f # <<>> /\ Head(f).at = "store" /\ Len(f) \in Nat /\ Key(t) \in Services /\ Open(t)
      /\ Proper(f) /\ Nth(f, Len(f)) = Head(f) /\ Len(f) >= 1
  BY <1>1, AtWork DEF Store, At
<1>3. Pushes(f) = Len(f) /\ Key(t) = Head(f).key /\ Key(t) \notin Endless
  BY <1>1, <1>2 DEF Pushes, Key, Proper
<1>4. PICK g : g = To(f, "return")
  OBVIOUS
<1>5. "return" \in FrameLabels
  BY DEF FrameLabels
<1>6. /\ Goes(t, g, "making") /\ g \in Seq(Frame) /\ ThreadsInv' /\ thread' \in [Threads -> ThreadState]
      /\ StoresMore(f, g, {}) /\ Pushes(g) = Len(f)
  BY <1>1, <1>2, <1>3, <1>4, <1>5, StepGoes DEF Store
<1>7. UNCHANGED <<current, stack, overlapped>>
  BY DEF Store
<1>8. StackInv'
  BY <1>1, <1>3, <1>6, <1>7, StackStays DEF ContainerInv
<1>9. LockInv' /\ held' \in [Locks -> [holder : Threads \cup {Nobody}, depth : Nat]]
  <2>1. CASE Key(t) \in Singletons \cup Scoped
    <3>1. PICK m : m = LockOf(Key(t))
      OBVIOUS
    <3>2. m \in Locks /\ Drops(thread[t].frames, g, m)
      BY <1>1, <1>2, <1>3, <1>4, <1>5, <2>1, <3>1, GiveTop
    <3>3. Gives(m)
      BY <2>1, <3>1 DEF Gives, Store
    <3>4. QED
      BY <1>6, <3>2, <3>3, LockGiven DEF ContainerInv
  <2>2. CASE Key(t) \notin Singletons \cup Scoped
    <3>1. \A l \in Locks : HoldSet(g, l) = HoldSet(f, l)
      <4>1. \A l : ~ Holds(Head(f), l) /\ ~ Holds([key |-> Head(f).key, at |-> "return"], l)
        BY <1>2, <1>3, <2>2 DEF Holds
      <4>2. QED
        BY <1>2, <1>4, <1>5, <4>1, SameHold
    <3>2. UNCHANGED held
      BY <2>2 DEF Store
    <3>3. QED
      BY <1>1, <1>6, <3>1, <3>2, LocksStay DEF ContainerInv, ContShapes
  <2>3. QED
    BY <2>1, <2>2
<1>10. /\ instances' = instances \cup ({Key(t)} \cap Singletons)
       /\ built' = [k \in Singletons |-> built[k] + IF k = Key(t) THEN 1 ELSE 0]
       /\ scopes' = IF Key(t) \in Scoped THEN [scopes EXCEPT ![current] = @ \cup {<<t, Key(t)>>}] ELSE scopes
       /\ Keep(t, t)
  BY DEF Store
<1>11. \A s \in Threads \cup {Base} : \A p \in scopes'[s] : p \in scopes[s] \/ (s = current /\ p = <<t, Key(t)>>)
  <2>1. scopes \in [Threads \cup {Base} -> SUBSET (Threads \X Scoped)] /\ current \in Threads \cup {Base}
    BY DEF ContainerInv, ContShapes
  <2>2. QED
    BY <1>10, <2>1
<1>12. /\ instances' \subseteq Singletons /\ built' \in [Singletons -> Nat]
       /\ scopes' \in [Threads \cup {Base} -> SUBSET (Threads \X Scoped)]
  <2>1. /\ instances \subseteq Singletons /\ built \in [Singletons -> Nat]
        /\ scopes \in [Threads \cup {Base} -> SUBSET (Threads \X Scoped)]
    BY DEF ContainerInv, ContShapes
  <2>2. built' \in [Singletons -> Nat]
    <3>1. \A k \in Singletons : built[k] + (IF k = Key(t) THEN 1 ELSE 0) \in Nat
      BY <2>1
    <3>2. QED
      BY <1>10, <3>1
  <2>3. scopes' \in [Threads \cup {Base} -> SUBSET (Threads \X Scoped)]
    <3>1. current \in Threads \cup {Base}
      BY DEF ContainerInv, ContShapes
    <3>2. Key(t) \in Scoped => scopes[current] \cup {<<t, Key(t)>>} \in SUBSET (Threads \X Scoped)
      BY <2>1, <3>1
    <3>3. QED
      BY <1>10, <2>1, <3>1, <3>2
  <2>4. QED
    BY <1>10, <2>1, <2>2, <2>3
<1>13. BuiltInv'
  <2>1. Key(t) \in Singletons => Key(t) \notin instances
    <3>1. Len(f) \in 1 .. Len(f)
      BY <1>2
    <3>2. QED
      BY <1>1, <1>2, <1>3, <3>1 DEF ContainerInv, BuiltInv
  <2>2. ASSUME NEW k \in Singletons PROVE built'[k] = IF k \in instances' THEN 1 ELSE 0
    <3>1. built'[k] = built[k] + IF k = Key(t) THEN 1 ELSE 0
      BY <1>10
    <3>2. built[k] = IF k \in instances THEN 1 ELSE 0
      BY DEF ContainerInv, BuiltInv
    <3>3. CASE k = Key(t)
      <4>1. built[k] = 0 /\ k \in instances'
        BY <1>10, <2>1, <3>2, <3>3
      <4>2. QED
        BY <3>1, <3>3, <4>1
    <3>4. CASE k # Key(t)
      <4>1. built'[k] = built[k] + 0 /\ (k \in instances' <=> k \in instances)
        BY <1>10, <3>1, <3>4
      <4>2. QED
        BY <3>2, <4>1
    <3>5. QED
      BY <3>3, <3>4
  <2>3. instances' \cap Endless = {}
    BY <1>3, <1>10 DEF ContainerInv, BuiltInv
  <2>4. \A s \in Threads \cup {Base} : \A p \in scopes'[s] : p[2] \notin Endless
    BY <1>3, <1>11 DEF ContainerInv, BuiltInv
  <2>5. ASSUME NEW u \in Threads, NEW n \in 1 .. Len(thread'[u].frames), Nth(thread'[u].frames, n).at = "store"
        PROVE  Nth(thread'[u].frames, n).key \notin instances'
    <3>1. /\ n \in 1 .. Len(thread[u].frames) /\ Nth(thread[u].frames, n) = Nth(thread'[u].frames, n)
          /\ ~ (u = t /\ n = Len(f))
      <4>1. CASE u = t
        <5>1. thread'[u].frames = g
          BY <1>6, <4>1 DEF Goes
        <5>2. n \in 1 .. Len(f) /\ Nth(f, n) = Nth(g, n)
          BY <1>6, <2>5, <5>1 DEF StoresMore
        <5>3. n # Len(f)
          <6>1. Nth(g, Len(f)).at = "return"
            BY <1>2, <1>4, <1>5, ToIs
          <6>2. QED
            BY <2>5, <5>1, <6>1
        <5>4. QED
          BY <1>1, <4>1, <5>1, <5>2, <5>3
      <4>2. CASE u # t
        BY <1>6, <2>5, <4>2 DEF Goes
      <4>3. QED
        BY <4>1, <4>2
    <3>2. Nth(thread[u].frames, n).at = "store" /\ Nth(thread[u].frames, n).key \notin instances
      BY <2>5, <3>1 DEF ContainerInv, BuiltInv
    <3>3. ~ (Key(t) \in Singletons /\ Nth(thread[u].frames, n).key = Key(t))
      BY <1>1, <3>1, <3>2, OneBuilder DEF Store
    <3>4. QED
      BY <1>10, <3>1, <3>2, <3>3
  <2>6. QED
    BY <2>2, <2>3, <2>4, <2>5 DEF BuiltInv
<1>14. /\ taken' \in [Threads -> Threads \cup {Nobody}]
       /\ \A u \in Threads : u # t => taken'[u] = taken[u]
       /\ ~ overlapped /\ current = t => taken'[t] \in {t, Nobody}
  <2>1. taken' \in [Threads -> Threads \cup {Nobody}] /\ taken'[t] \in {t, taken[t]}
        /\ \A u \in Threads : u # t => taken'[u] = taken[u]
    BY <1>10, Kept DEF ContainerInv
  <2>2. QED
    BY <2>1 DEF ContainerInv, ScopeInv
<1>15. ScopeInv'
  <2>1. ASSUME NEW u \in Threads, ~ overlapped, NEW p \in scopes'[u] PROVE p[1] = u \/ p \in scopes[u]
    <3>1. current = t
      BY <1>2, <2>1 DEF ContainerInv, ScopeInv
    <3>2. QED
      BY <1>11, <2>1, <3>1
  <2>2. QED
    BY <1>2, <1>6, <1>7, <1>14, <2>1, ScopesStay DEF ContainerInv
<1>16. ContShapes'
  BY <1>6, <1>7, <1>9, <1>12, <1>14 DEF ContainerInv, ContShapes
<1>17. QED
  BY <1>6, <1>8, <1>9, <1>13, <1>15, <1>16 DEF ContainerInv

LEMMA ReturnKeeps == ASSUME ContainerInv, NEW t \in Threads, Return(t) PROVE ContainerInv'
<1>1. PICK f : f = thread[t].frames
  OBVIOUS
<1>2. /\ f \in Seq(Frame) /\ f # <<>> /\ Head(f).at = "return" /\ Len(f) \in Nat /\ Open(t)
      /\ Proper(f) /\ Len(f) >= 1
  BY <1>1, AtWork DEF Return, At
<1>3. Pushes(f) = Len(f)
  BY <1>2 DEF Pushes
<1>4. PICK g : g = Tail(f)
  OBVIOUS
<1>5. /\ g \in Seq(Frame) /\ Proper(g) /\ Len(g) = Len(f) - 1 /\ StoresMore(f, g, {})
      /\ g # <<>> => Head(g).at = "store"
  BY <1>2, <1>4, ReturnProper, TailProper, StoresTail
<1>6. g = <<>> <=> Len(f) = 1
  <2>1. g = <<>> <=> Len(g) = 0
    BY <1>5, FrameFacts
  <2>2. QED
    BY <1>2, <1>5, <2>1
<1>7. PICK s : s = IF Len(f) = 1 THEN "made" ELSE "making"
  OBVIOUS
<1>8. s \in ThreadStates /\ s \notin {"new", "closed"} /\ (g # <<>> <=> s = "making")
  BY <1>6, <1>7 DEF ThreadStates
<1>9. Goes(t, g, s)
  <2>1. thread' = [thread EXCEPT ![t].frames = g, ![t].state = s]
    BY <1>1, <1>4, <1>7 DEF Return
  <2>2. QED
    BY <1>5, <1>8, <2>1, ThreadGoes DEF ContainerInv
<1>10. ThreadsInv' /\ thread' \in [Threads -> ThreadState]
  BY <1>5, <1>8, <1>9, ThreadsStay DEF ContainerInv, Goes
<1>11. UNCHANGED <<instances, current, scopes, held, built, taken, overlapped>> /\ stack' = Front(stack)
  BY DEF Return
<1>12. StackInv' /\ stack' \in Seq(Services)
  <2>1. Pushes(g) = Len(f) - 1
    BY <1>2, <1>5, <1>6 DEF Pushes
  <2>2. Pushes(thread[t].frames) = Pushes(g) + 1
    BY <1>1, <1>2, <1>3, <2>1
  <2>3. QED
    BY <1>5, <1>9, <1>11, <2>2, StackShrinks DEF ContainerInv
<1>13. LockInv'
  <2>1. ASSUME NEW l PROVE HoldSet(g, l) = HoldSet(f, l)
    <3>1. Len(f) \notin HoldSet(f, l)
      BY <1>2, TopHolds DEF Holds
    <3>2. HoldSet(g, l) = HoldSet(f, l) \ {Len(f)}
      BY <1>2, <1>4, HoldTail
    <3>3. QED
      BY <3>1, <3>2
  <2>2. QED
    BY <1>1, <1>9, <1>11, <2>1, LocksStay DEF ContainerInv
<1>14. BuiltInv'
  <2>1. StoresMore(thread[t].frames, g, {}) /\ {} \cap instances = {}
    BY <1>1, <1>5
  <2>2. QED
    BY <1>9, <1>11, <2>1, BuiltStays DEF ContainerInv
<1>15. ScopeInv'
  BY <1>2, <1>8, <1>9, <1>11, ScopesStay DEF ContainerInv, ScopeInv
<1>16. ContShapes'
  BY <1>10, <1>11, <1>12 DEF ContainerInv, ContShapes
<1>17. QED
  BY <1>10, <1>12, <1>13, <1>14, <1>15, <1>16 DEF ContainerInv

LEMMA RaiseKeeps == ASSUME ContainerInv, NEW t \in Threads, Raise(t) PROVE ContainerInv'
<1>1. PICK f : f = thread[t].frames
  OBVIOUS
<1>2. /\ f \in Seq(Frame) /\ f # <<>> /\ Head(f).at = "raise" /\ Len(f) \in Nat /\ Open(t)
      /\ Proper(f) /\ Len(f) >= 1 /\ "making" \in ThreadStates
  BY <1>1, AtWork DEF Raise, At
<1>3. Pushes(f) = Len(f) - 1
  BY <1>2 DEF Pushes
<1>4. PICK r : r = Tail(f)
  OBVIOUS
<1>5. /\ r \in Seq(Frame) /\ Len(r) = Len(f) - 1 /\ StoresMore(f, r, {})
      /\ r # <<>> => Head(r).at = "store"
      /\ r = <<>> <=> Len(r) = 0
      /\ \A l : HoldSet(r, l) = HoldSet(f, l)
  <2>1. ASSUME NEW l PROVE HoldSet(r, l) = HoldSet(f, l)
    <3>1. Len(f) \notin HoldSet(f, l)
      BY <1>2, TopHolds DEF Holds
    <3>2. HoldSet(r, l) = HoldSet(f, l) \ {Len(f)}
      BY <1>2, <1>4, HoldTail
    <3>3. QED
      BY <3>1, <3>2
  <2>2. r \in Seq(Frame) /\ Len(r) = Len(f) - 1 /\ StoresMore(f, r, {}) /\ (r # <<>> => Head(r).at = "store")
    BY <1>2, <1>4, TailProper, StoresTail
  <2>3. QED
    BY <2>1, <2>2, FrameFacts
<1>6. UNCHANGED <<instances, current, scopes, built, taken, overlapped>>
  BY DEF Raise
<1>7. CASE r = <<>>
  <2>1. thread' = [thread EXCEPT ![t].frames = r, ![t].state = "raised"] /\ UNCHANGED <<stack, held>>
    BY <1>1, <1>4, <1>7 DEF Raise
  <2>2. Goes(t, r, "raised")
    BY <1>5, <2>1, ThreadGoes DEF ContainerInv, ThreadStates
  <2>3. Proper(r)
    <3>1. 1 .. 0 - 1 = {} /\ Len(r) = 0
      BY <1>5, <1>7
    <3>2. QED
      BY <1>5, <1>7, <3>1 DEF Proper
  <2>4. ThreadsInv' /\ thread' \in [Threads -> ThreadState]
    BY <1>7, <2>2, <2>3, ThreadsStay DEF ContainerInv, Goes
  <2>5. StackInv'
    <3>1. Pushes(r) = Pushes(f)
      BY <1>2, <1>3, <1>5, <1>7 DEF Pushes
    <3>2. QED
      BY <1>1, <2>1, <2>2, <3>1, StackStays DEF ContainerInv
  <2>6. LockInv'
    BY <1>1, <1>5, <2>1, <2>2, LocksStay DEF ContainerInv
  <2>7. BuiltInv'
    <3>1. StoresMore(thread[t].frames, r, {}) /\ {} \cap instances = {}
      BY <1>1, <1>5
    <3>2. QED
      BY <1>6, <2>2, <3>1, BuiltStays DEF ContainerInv
  <2>8. ScopeInv'
    BY <1>2, <1>6, <2>2, ScopesStay DEF ContainerInv, ScopeInv
  <2>9. ContShapes'
    BY <1>6, <2>1, <2>4 DEF ContainerInv, ContShapes
  <2>10. QED
    BY <2>4, <2>5, <2>6, <2>7, <2>8, <2>9 DEF ContainerInv
<1>8. CASE r # <<>>
  <2>0. "raise" \in FrameLabels
    BY DEF FrameLabels
  <2>1. PICK g : g = To(r, "raise")
    OBVIOUS
  <2>2. /\ g \in Seq(Frame) /\ Len(g) = Len(f) - 1 /\ g # <<>> /\ Head(g).at = "raise" /\ Proper(g)
        /\ StoresMore(f, g, {})
    <3>1. g \in Seq(Frame) /\ Len(g) = Len(r) /\ g # <<>> /\ Head(g).at = "raise"
      BY <1>5, <1>8, <2>0, <2>1, ToIs
    <3>2. Proper(g)
      BY <1>2, <1>4, <1>8, <2>1, RaiseProper
    <3>3. StoresMore(r, g, {})
      BY <1>5, <1>8, <2>0, <2>1, StoresTo
    <3>4. StoresMore(f, g, {} \cup {})
      BY <1>5, <3>3, StoresThen
    <3>5. QED
      BY <1>5, <3>1, <3>2, <3>4
  <2>3. thread' = [thread EXCEPT ![t].frames = g] /\ stack' = Front(stack)
    BY <1>1, <1>4, <1>8, <2>1 DEF Raise
  <2>4. Goes(t, g, "making")
    BY <1>1, <1>2, <2>2, <2>3, AtWork, ThreadGoes DEF ContainerInv
  <2>5. ThreadsInv' /\ thread' \in [Threads -> ThreadState]
    BY <2>2, <2>4, ThreadsStay DEF ContainerInv, Goes
  <2>6. StackInv' /\ stack' \in Seq(Services)
    <3>1. Pushes(g) = Len(f) - 1 - 1
      BY <2>2 DEF Pushes
    <3>2. Pushes(thread[t].frames) = Pushes(g) + 1
      BY <1>1, <1>2, <1>3, <3>1
    <3>3. QED
      BY <2>2, <2>3, <2>4, <3>2, StackShrinks DEF ContainerInv
  <2>7. LockInv' /\ held' \in [Locks -> [holder : Threads \cup {Nobody}, depth : Nat]]
    <3>1. CASE Head(r).key \in Singletons \cup Scoped
      <4>1. PICK m : m = LockOf(Head(r).key)
        OBVIOUS
      <4>2. m \in Locks /\ Drops(r, g, m)
        BY <1>5, <1>8, <2>0, <2>1, <3>1, <4>1, GiveTop
      <4>3. Drops(thread[t].frames, g, m)
        BY <1>1, <1>5, <4>2 DEF Drops
      <4>4. Gives(m)
        BY <1>1, <1>4, <1>8, <3>1, <4>1 DEF Gives, Raise
      <4>5. QED
        BY <2>4, <4>2, <4>3, <4>4, LockGiven DEF ContainerInv
    <3>2. CASE Head(r).key \notin Singletons \cup Scoped
      <4>1. \A l \in Locks : HoldSet(g, l) = HoldSet(f, l)
        <5>1. \A l : ~ Holds(Head(r), l) /\ ~ Holds([key |-> Head(r).key, at |-> "raise"], l)
          BY <3>2 DEF Holds
        <5>2. QED
          BY <1>5, <1>8, <2>0, <2>1, <5>1, SameHold
      <4>2. UNCHANGED held
        BY <1>1, <1>4, <1>8, <3>2 DEF Raise
      <4>3. QED
        BY <1>1, <2>4, <4>1, <4>2, LocksStay DEF ContainerInv, ContShapes
    <3>3. QED
      BY <3>1, <3>2
  <2>8. BuiltInv'
    <3>1. StoresMore(thread[t].frames, g, {}) /\ {} \cap instances = {}
      BY <1>1, <2>2
    <3>2. QED
      BY <1>6, <2>4, <3>1, BuiltStays DEF ContainerInv
  <2>9. ScopeInv'
    BY <1>2, <1>6, <2>4, ScopesStay DEF ContainerInv, ScopeInv
  <2>10. ContShapes'
    BY <1>6, <2>5, <2>6, <2>7 DEF ContainerInv, ContShapes
  <2>11. QED
    BY <2>5, <2>6, <2>7, <2>8, <2>9, <2>10 DEF ContainerInv
<1>9. QED
  BY <1>7, <1>8

(* Opening and closing a scope changes no frame but the first. *)
LEMMA OpenKeeps ==
    ASSUME ContainerInv, NEW t \in Threads, NEW k \in Goals, OpenScope(t, k) PROVE ContainerInv'
<1> DEFINE x == [key |-> k, at |-> "make"]
<1>1. k \in Services /\ x \in Frame /\ x.at = "make" /\ <<x>> \in Seq(Frame) /\ Len(<<x>>) = 1 /\ Head(<<x>>) = x
  BY ContainerAssumption DEF Frame
<1>2. thread[t].state = "new" /\ thread[t].frames = <<>>
  BY DEF OpenScope, OpenIn, ContainerInv, ThreadsInv
<1>3. PICK g \in Seq(Frame) : g = <<x>>
  BY <1>1
<1>4. Len(g) = 1 /\ Head(g) = x /\ g # <<>> /\ Len(g) \in Nat
  BY <1>1, <1>3, FrameFacts
<1>4a. Nth(g, 1) = x
  <2>1. g[1] = x /\ 1 + 1 - 1 = 1
    BY <1>3
  <2>2. QED
    BY <1>4, <2>1 DEF Nth
<1> DEFINE w == [goal |-> k, frames |-> g, saved |-> current, state |-> "making"]
<1>5. /\ current' = t /\ thread' = [thread EXCEPT ![t] = w]
      /\ overlapped' = (overlapped \/ \E u \in Threads : thread[u].state \notin {"new", "closed"})
      /\ UNCHANGED <<instances, scopes, stack, held, built, taken>>
  BY <1>3 DEF OpenScope, OpenIn
<1>6. w \in ThreadState /\ w.frames = g /\ w.state = "making" /\ w.saved = current
  BY <1>1 DEF ThreadState, ThreadStates, ContainerInv, ContShapes
<1> HIDE DEF w, x
<1>7. /\ thread' \in [Threads -> ThreadState] /\ thread'[t] = w
      /\ \A u \in Threads : u # t => thread'[u] = thread[u]
  BY <1>5, <1>6 DEF ContainerInv, ContShapes
<1>8. Proper(g)
  <2>1. 1 .. 1 - 1 = {} /\ x.at \notin {"store", "return"}
    BY <1>1
  <2>2. QED
    BY <1>4, <2>1 DEF Proper
<1>9. ThreadsInv'
  BY <1>4, <1>6, <1>7, <1>8 DEF ContainerInv, ThreadsInv
<1>10. StackInv'
  <2>1. Pushes(g) = 0 /\ Pushes(<<>>) = 0
    BY <1>1, <1>4 DEF Pushes
  <2>2. PushedBy' = PushedBy
    BY <1>2, <1>6, <1>7, <2>1 DEF PushedBy
  <2>3. Pairs(PushedBy)' = Pairs(PushedBy)
    BY <2>2 DEF Pairs
  <2>4. QED
    BY <1>5, <2>3 DEF ContainerInv, StackInv
<1>11. \A l : HoldSet(g, l) = {} /\ HoldSet(<<>>, l) = {}
  <2>1. ASSUME NEW l PROVE HoldSet(g, l) = {}
    <3>1. Nth(g, 1) = x /\ 1 .. Len(g) = {1}
      <4>1. 1 .. 1 = {1}
        OBVIOUS
      <4>2. QED
        BY <1>4, <1>4a, <4>1
    <3>2. ~ Holds(x, l)
      BY <1>1 DEF Holds
    <3>3. QED
      BY <3>1, <3>2 DEF HoldSet
  <2>2. ASSUME NEW l PROVE HoldSet(<<>>, l) = {}
    <3>1. Len(<<>>) = 0 /\ 1 .. 0 = {}
      OBVIOUS
    <3>2. QED
      BY <3>1 DEF HoldSet
  <2>3. QED
    BY <2>1, <2>2
<1>12. LockInv'
  <2>1. \A u \in Threads : \A l : HoldSet(thread'[u].frames, l) = HoldSet(thread[u].frames, l)
    BY <1>2, <1>6, <1>7, <1>11
  <2>2. ASSUME NEW l PROVE Pairs(HeldBy(l))' = Pairs(HeldBy(l))
    <3>1. HeldBy(l)' = HeldBy(l)
      BY <2>1 DEF HeldBy
    <3>2. QED
      BY <3>1 DEF Pairs
  <2>3. QED
    BY <1>5, <2>1, <2>2 DEF ContainerInv, LockInv
<1>13. BuiltInv'
  <2>1. ASSUME NEW u \in Threads, NEW n \in 1 .. Len(thread'[u].frames), Nth(thread'[u].frames, n).at = "store"
        PROVE  Nth(thread'[u].frames, n).key \notin instances
    <3>1. CASE u = t
      <4>1. n = 1 /\ Nth(g, n) = x
        <5>1. n \in 1 .. 1
          BY <1>4, <1>6, <1>7, <3>1
        <5>2. n = 1
          BY <5>1
        <5>3. QED
          BY <1>4a, <5>2
      <4>2. QED
        BY <1>1, <1>6, <1>7, <2>1, <3>1, <4>1
    <3>2. CASE u # t
      BY <1>7, <2>1, <3>2 DEF ContainerInv, BuiltInv
    <3>3. QED
      BY <3>1, <3>2
  <2>2. QED
    BY <1>5, <2>1 DEF ContainerInv, BuiltInv
<1>14. ScopeInv'
  <2> SUFFICES ASSUME ~ overlapped'
               PROVE  /\ \A u \in Threads : taken[u] \in {u, Nobody}
                      /\ \A u \in Threads : \A p \in scopes[u] : p[1] = u
                      /\ \A u \in Threads : Open(u)' => t = u /\ thread'[u].saved = Base
                      /\ t # Base => Open(t)'
    BY <1>5 DEF ScopeInv, Open
  <2>1. ~ overlapped /\ \A u \in Threads : ~ Open(u)
    BY <1>5 DEF Open
  <2>2. current = Base
    BY <2>1 DEF ContainerInv, ScopeInv, ContShapes
  <2>3. \A u \in Threads : u # t => ~ Open(u)'
    BY <1>7, <2>1 DEF Open
  <2>4. Open(t)' /\ thread'[t].saved = Base
    BY <1>6, <1>7, <2>2 DEF Open
  <2>5. QED
    BY <2>1, <2>3, <2>4 DEF ContainerInv, ScopeInv
<1>15. ContShapes'
  BY <1>5, <1>7 DEF ContainerInv, ContShapes
<1>16. QED
  BY <1>9, <1>10, <1>12, <1>13, <1>14, <1>15 DEF ContainerInv

LEMMA CloseKeeps == ASSUME ContainerInv, NEW t \in Threads, CloseScope(t) PROVE ContainerInv'
<1>1. thread[t].state \in {"made", "raised"} /\ thread[t].frames = <<>> /\ Open(t)
  BY DEF CloseScope, ContainerInv, ThreadsInv, Open
<1>2. PICK f \in Seq(Frame) : f = thread[t].frames
  BY DEF ContainerInv, ThreadsInv, Proper
<1>3. Goes(t, f, "closed")
  <2>1. thread' = [thread EXCEPT ![t].state = "closed"] /\ "closed" \in ThreadStates
    BY DEF CloseScope, ThreadStates
  <2>2. QED
    BY <1>2, <2>1, ThreadGoes DEF ContainerInv
<1>4. current' = thread[t].saved /\ UNCHANGED <<instances, scopes, stack, held, built, taken, overlapped>>
  BY DEF CloseScope
<1>5. ThreadsInv' /\ thread' \in [Threads -> ThreadState]
  BY <1>1, <1>2, <1>3, ThreadsStay DEF ContainerInv, ThreadsInv, Goes
<1>6. StackInv' /\ LockInv'
  BY <1>2, <1>3, <1>4, StackStays, LocksStay DEF ContainerInv
<1>7. BuiltInv'
  BY <1>2, <1>3, <1>4 DEF ContainerInv, BuiltInv, Goes
<1>8. thread[t].saved \in Threads \cup {Base}
  BY DEF ContainerInv, ContShapes, ThreadState
<1>9. ScopeInv'
  <2> SUFFICES ASSUME ~ overlapped
               PROVE  /\ \A u \in Threads : taken[u] \in {u, Nobody}
                      /\ \A u \in Threads : \A p \in scopes[u] : p[1] = u
                      /\ \A u \in Threads : Open(u)' => current' = u /\ thread'[u].saved = Base
                      /\ current' = Base
    BY <1>4 DEF ScopeInv, Open
  <2>1. current' = Base /\ \A u \in Threads : u # t => ~ Open(u)
    BY <1>1, <1>4 DEF ContainerInv, ScopeInv
  <2>2. \A u \in Threads : ~ Open(u)'
    BY <1>3, <2>1 DEF Open, Goes
  <2>3. QED
    BY <2>1, <2>2 DEF ContainerInv, ScopeInv
<1>10. ContShapes'
  BY <1>4, <1>5, <1>8 DEF ContainerInv, ContShapes
<1>11. QED
  BY <1>5, <1>6, <1>7, <1>9, <1>10 DEF ContainerInv

LEMMA ContainerNextInv == ContainerInv /\ [ContainerNext]_containerVars => ContainerInv'
<1> SUFFICES ASSUME ContainerInv, [ContainerNext]_containerVars PROVE ContainerInv'
  OBVIOUS
<1>1. CASE UNCHANGED containerVars
  BY <1>1 DEF containerVars, ContainerInv, ContShapes, ThreadsInv, StackInv, LockInv, BuiltInv, ScopeInv,
              PushedBy, HeldBy, Pairs, Open
<1>2. CASE ContainerNext
  <2>1. PICK t \in Threads :
           \/ \E k \in Goals : OpenScope(t, k)
           \/ Make(t) \/ LookUp(t) \/ Acquire(t) \/ Recheck(t) \/ Store(t) \/ Return(t) \/ Raise(t) \/ CloseScope(t)
    BY <1>2 DEF ContainerNext
  <2>2. QED
    BY <2>1, OpenKeeps, MakeKeeps, LookUpKeeps, AcquireKeeps, RecheckKeeps, StoreKeeps, ReturnKeeps,
       RaiseKeeps, CloseKeeps
<1>3. QED
  BY <1>1, <1>2

-----------------------------------------------------------------------------
(* Events *)

EventState ==
    [pc: {"new", "run", "forget", "publish", "done", "raised"}, all: SUBSET Listeners,
     todo: SUBSET Listeners, once: SUBSET Listeners, stopped: BOOLEAN]

BusShapes ==
    /\ registered \in [Nodes -> SUBSET Listeners]
    /\ event \in [Events -> EventState]
    /\ called \in [Events -> SUBSET Listeners]
    /\ published \in [Events -> Nat]
    /\ disturbed \in BOOLEAN

(***************************************************************************)
(* A dispatch has called what it has taken off its list, which are the     *)
(* first of it, and comes to its end with the list empty or the event      *)
(* stopped.                                                                *)
(***************************************************************************)
Dispatched(e) ==
    /\ event[e].pc = "new" => event[e].all = {} /\ event[e].todo = {} /\ event[e].once = {}
    /\ event[e].todo \subseteq event[e].all /\ called[e] = event[e].all \ event[e].todo
    /\ \A l \in event[e].todo, k \in called[e] : Priority[l] < Priority[k]
    /\ event[e].pc \in {"forget", "publish", "done"} /\ ~ event[e].stopped => event[e].todo = {}
    /\ event[e].once \subseteq event[e].all \cap Once
    /\ published[e] <= 1
    /\ event[e].pc # "done" => published[e] = 0

Busy(e) == event[e].pc \in {"run", "forget"}

Over(e) == event[e].pc \in {"publish", "done"}

(***************************************************************************)
(* Undisturbed, one dispatch of a process is at work; what it may call     *)
(* once is still registered, and what is over has forgotten what it called *)
(* once.                                                                   *)
(***************************************************************************)
OneByOne ==
    \A e \in Events :
        /\ event[e].pc # "raised"
        /\ Busy(e) => event[e].all \cap Once \subseteq registered[Source[e]]
        /\ Over(e) => event[e].once \cap registered[Source[e]] = {}
        /\ \A f \in Events : e # f /\ Source[e] = Source[f] =>
               ~ (Busy(e) /\ Busy(f)) /\ event[e].once \cap event[f].once = {}

BusInv ==
    /\ BusShapes
    /\ \A e \in Events : Dispatched(e)
    /\ ~ disturbed => OneByOne

LEMMA BusInitInv == BusInit => BusInv
<1> SUFFICES ASSUME BusInit PROVE BusInv
  OBVIOUS
<1> DEFINE u == [pc |-> "new", all |-> {}, todo |-> {}, once |-> {}, stopped |-> FALSE]
<1>1. u \in EventState /\ u.pc = "new" /\ u.all = {} /\ u.todo = {} /\ u.once = {}
  BY DEF EventState
<1>2. event = [e \in Events |-> u]
  BY DEF BusInit
<1> HIDE DEF u
<1>3. BusShapes
  BY <1>1, <1>2 DEF BusInit, BusShapes
<1>4. \A e \in Events : Dispatched(e)
  BY <1>1, <1>2 DEF BusInit, Dispatched
<1>5. OneByOne
  BY <1>1, <1>2 DEF BusInit, OneByOne, Busy, Over
<1>6. QED
  BY <1>3, <1>4, <1>5 DEF BusInv

(***************************************************************************)
(* The dispatch e goes on to the state u.                                  *)
(***************************************************************************)
GoesTo(e, u) ==
    /\ event' \in [Events -> EventState]
    /\ event'[e] = u
    /\ \A f \in Events : f # e => event'[f] = event[f]

LEMMA EventGoes ==
    ASSUME BusShapes, NEW e \in Events, NEW u \in EventState, event' = [event EXCEPT ![e] = u]
    PROVE  GoesTo(e, u)
  BY DEF BusShapes, GoesTo

LEMMA OthersStay ==
    ASSUME NEW e \in Events, NEW u, GoesTo(e, u), \A f \in Events : Dispatched(f),
           \A f \in Events : f # e => called'[f] = called[f] /\ published'[f] = published[f]
    PROVE  \A f \in Events : f # e => Dispatched(f)'
  BY DEF GoesTo, Dispatched

LEMMA DispatchKeeps == ASSUME BusInv, NEW e \in Events, Dispatch(e) PROVE BusInv'
<1> DEFINE r == registered[Source[e]]
           u == [event[e] EXCEPT !.pc = "run", !.all = r, !.todo = r]
<1>1. BusShapes /\ Dispatched(e) /\ event[e] \in EventState /\ Source[e] \in Nodes /\ r \subseteq Listeners
  BY EventBusAssumption DEF BusInv, BusShapes
<1>2. /\ u \in EventState /\ u.pc = "run" /\ u.all = r /\ u.todo = r
      /\ u.once = event[e].once /\ u.stopped = event[e].stopped
  BY <1>1 DEF EventState
<1>3. event' = [event EXCEPT ![e] = u]
  BY <1>1 DEF Dispatch, BusShapes, EventState
<1> HIDE DEF u
<1>4. GoesTo(e, u)
  BY <1>1, <1>2, <1>3, EventGoes
<1>5. UNCHANGED <<registered, called, published>> /\ disturbed' \in BOOLEAN
  BY <1>1 DEF Dispatch, BusShapes
<1>6. event[e].pc = "new" /\ u.once = {} /\ called[e] = {}
  BY <1>1, <1>2 DEF Dispatch, EAt, Dispatched
<1>7. \A f \in Events : Dispatched(f)'
  <2>1. Dispatched(e)'
    BY <1>1, <1>2, <1>4, <1>5, <1>6 DEF Dispatched, GoesTo
  <2>2. QED
    BY <1>4, <1>5, <2>1, OthersStay DEF BusInv
<1>8. ASSUME ~ disturbed' PROVE OneByOne'
  <2>1. OneByOne /\ \A f \in Events : Source[f] = Source[e] => ~ Busy(f)
    BY <1>8 DEF Dispatch, BusInv, Busy
  <2>2. Busy(e)' => u.all \cap Once \subseteq registered[Source[e]]
    BY <1>2
  <2>3. QED
    BY <1>2, <1>4, <1>5, <1>6, <2>1 DEF OneByOne, Busy, Over, GoesTo
<1>9. QED
  BY <1>1, <1>4, <1>5, <1>7, <1>8 DEF BusInv, BusShapes, GoesTo

(***************************************************************************)
(* A listener l has been called.                                           *)
(***************************************************************************)
Called(e, l, u) ==
    /\ u.todo = event[e].todo \ {l} /\ u.all = event[e].all
    /\ u.pc = "run" \/ (u.pc = "raised" /\ disturbed')
    /\ u.once \subseteq event[e].once \cup ({l} \cap Once)
    /\ event[e].once \subseteq u.once
    /\ disturbed' \in BOOLEAN /\ (disturbed => disturbed')

LEMMA CalledKeeps ==
    ASSUME BusInv, NEW e \in Events, NEW l \in NextListener(e), event[e].pc = "run",
           NEW u \in EventState, event' = [event EXCEPT ![e] = u], Called(e, l, u),
           called' = [called EXCEPT ![e] = @ \cup {l}], UNCHANGED <<registered, published>>
    PROVE  BusInv'
<1>1. BusShapes /\ Dispatched(e) /\ event[e] \in EventState /\ Source[e] \in Nodes
  BY EventBusAssumption DEF BusInv, BusShapes
<1>2. /\ event[e].pc = "run" /\ l \in event[e].todo
      /\ \A k \in event[e].todo : Priority[k] <= Priority[l]
      /\ l \in Listeners
  BY <1>1 DEF NextListener, EventState
<1>3. PICK o \in SUBSET {l} : o \subseteq Once /\ u.once = event[e].once \cup o
  <2>1. u.once \ event[e].once \in SUBSET {l} /\ u.once \ event[e].once \subseteq Once
    BY DEF Called
  <2>2. u.once = event[e].once \cup (u.once \ event[e].once)
    BY DEF Called
  <2>3. QED
    BY <2>1, <2>2
<1>5. /\ u.pc \in {"run", "raised"} /\ (u.pc = "raised" => disturbed')
      /\ u.all = event[e].all /\ u.todo = event[e].todo \ {l} /\ u.once = event[e].once \cup o
      /\ disturbed' \in BOOLEAN /\ (disturbed => disturbed')
  BY <1>3 DEF Called
<1>7. GoesTo(e, u)
  BY <1>1, EventGoes
<1>8. called' \in [Events -> SUBSET Listeners] /\ called'[e] = called[e] \cup {l}
      /\ \A f \in Events : f # e => called'[f] = called[f]
  BY <1>1, <1>2 DEF BusShapes
<1>9. Dispatched(e)'
  <2>1. /\ u.todo \subseteq u.all /\ called'[e] = u.all \ u.todo
        /\ u.once \subseteq u.all \cap Once
    BY <1>1, <1>2, <1>3, <1>5, <1>8 DEF Dispatched
  <2>2. \A m \in u.todo, k \in called'[e] : Priority[m] < Priority[k]
    <3> SUFFICES ASSUME NEW m \in u.todo, NEW k \in called'[e] PROVE Priority[m] < Priority[k]
      OBVIOUS
    <3>1. m \in event[e].todo /\ m # l /\ m \in Listeners /\ l \in Listeners
      BY <1>1, <1>2, <1>5 DEF EventState
    <3>2. CASE k = l
      <4>1. Priority[m] <= Priority[l] /\ Priority[m] # Priority[l] /\ Priority[m] \in Nat /\ Priority[l] \in Nat
        BY <1>2, <3>1, EventBusAssumption
      <4>2. QED
        BY <3>2, <4>1
    <3>3. CASE k # l
      BY <1>1, <1>8, <3>1, <3>3 DEF Dispatched
    <3>4. QED
      BY <3>2, <3>3
  <2>3. published[e] = 0
    BY <1>1, <1>2 DEF Dispatched
  <2>4. QED
    BY <1>5, <1>7, <2>1, <2>2, <2>3 DEF Dispatched, GoesTo
<1>10. \A f \in Events : Dispatched(f)'
  BY <1>7, <1>8, <1>9, OthersStay DEF BusInv
<1>11. ASSUME ~ disturbed' PROVE OneByOne'
  <2>1. OneByOne /\ Busy(e)
    BY <1>2, <1>5, <1>11 DEF BusInv, Busy
  <2>2. /\ Busy(e)' /\ ~ Over(e)'
        /\ \A f \in Events : f # e => (Busy(f)' <=> Busy(f)) /\ (Over(f)' <=> Over(f)) /\ event'[f] = event[f]
    BY <1>5, <1>7, <1>11 DEF Busy, Over, GoesTo
  <2>3. event'[e].all = event[e].all /\ event'[e].once = event[e].once \cup o
    BY <1>5, <1>7 DEF GoesTo
  <2>4. \A f \in Events : f # e /\ Source[f] = Source[e] => event[f].once \cap o = {}
    <3> SUFFICES ASSUME NEW f \in Events, f # e, Source[f] = Source[e], l \in event[f].once, l \in o PROVE FALSE
      BY <1>3
    <3>1. ~ Busy(f)
      BY <2>1 DEF OneByOne
    <3>2. event[f].pc # "new"
      BY DEF BusInv, Dispatched
    <3>3. Over(f)
      BY <1>1, <2>1, <3>1, <3>2 DEF Over, Busy, BusShapes, EventState, OneByOne
    <3>4. l \in event[e].all /\ l \in Once
      BY <1>1, <1>2, <1>3 DEF Dispatched
    <3>5. l \in registered[Source[e]]
      BY <2>1, <3>4 DEF OneByOne
    <3>6. QED
      BY <2>1, <3>3, <3>5 DEF OneByOne
  <2>5. QED
    <3>1. \A f \in Events : event'[f].pc # "raised"
      BY <1>5, <1>7, <1>11, <2>1 DEF OneByOne, GoesTo
    <3>2. QED
      BY <2>1, <2>2, <2>3, <2>4, <3>1 DEF OneByOne
<1>12. QED
  BY <1>1, <1>5, <1>7, <1>8, <1>10, <1>11 DEF BusInv, BusShapes, GoesTo

LEMMA CallKeeps == ASSUME BusInv, NEW e \in Events, NEW l \in Listeners, CallListener(e, l) PROVE BusInv'
<1>1. BusShapes /\ event[e] \in EventState
  BY DEF BusInv, BusShapes
<1>2. PICK s \in BOOLEAN : event' = [event EXCEPT ![e].todo = @ \ {l}, ![e].once = @ \cup ({l} \cap Once),
                                                  ![e].stopped = s]
  BY DEF CallListener
<1> DEFINE u == [event[e] EXCEPT !.todo = event[e].todo \ {l}, !.once = event[e].once \cup ({l} \cap Once),
                                 !.stopped = s]
<1>3. event' = [event EXCEPT ![e] = u]
  BY <1>1, <1>2 DEF BusShapes, EventState
<1>4. /\ u \in EventState /\ u.pc = event[e].pc /\ u.all = event[e].all /\ u.todo = event[e].todo \ {l}
      /\ u.once = event[e].once \cup ({l} \cap Once)
  BY <1>1 DEF EventState
<1> HIDE DEF u
<1>5. /\ l \in NextListener(e) /\ event[e].pc = "run" /\ called' = [called EXCEPT ![e] = @ \cup {l}]
      /\ UNCHANGED <<registered, published, disturbed>>
  BY DEF CallListener, EAt
<1>6. Called(e, l, u)
  BY <1>1, <1>4, <1>5 DEF Called, BusShapes
<1>7. QED
  BY <1>3, <1>4, <1>5, <1>6, CalledKeeps

LEMMA RaisesKeeps == ASSUME BusInv, NEW e \in Events, NEW l \in Listeners, ListenerRaises(e, l) PROVE BusInv'
<1>1. BusShapes /\ event[e] \in EventState
  BY DEF BusInv, BusShapes
<1> DEFINE u == [event[e] EXCEPT !.todo = event[e].todo \ {l}, !.pc = IF l \in Nameless THEN "raised" ELSE "run"]
<1>2. event' = [event EXCEPT ![e] = u]
  BY <1>1 DEF ListenerRaises, BusShapes, EventState
<1>3. /\ u \in EventState /\ u.pc = (IF l \in Nameless THEN "raised" ELSE "run")
      /\ u.all = event[e].all /\ u.todo = event[e].todo \ {l} /\ u.once = event[e].once
  BY <1>1 DEF EventState
<1> HIDE DEF u
<1>4. /\ l \in NextListener(e) /\ event[e].pc = "run" /\ called' = [called EXCEPT ![e] = @ \cup {l}]
      /\ UNCHANGED <<registered, published>> /\ disturbed' = (disturbed \/ l \in Nameless)
  BY DEF ListenerRaises, EAt
<1>5. Called(e, l, u)
  BY <1>1, <1>3, <1>4 DEF Called, BusShapes
<1>6. QED
  BY <1>2, <1>3, <1>4, <1>5, CalledKeeps

(***************************************************************************)
(* A dispatch that only changes its place.                                 *)
(***************************************************************************)
LEMMA PlaceMoves ==
    ASSUME BusShapes, NEW e \in Events, NEW k \in {"forget", "publish", "done"}, event' = [event EXCEPT ![e].pc = k]
    PROVE  \E u \in EventState :
               /\ GoesTo(e, u) /\ u.pc = k /\ u.all = event[e].all /\ u.todo = event[e].todo
               /\ u.once = event[e].once /\ u.stopped = event[e].stopped
<1> DEFINE u == [event[e] EXCEPT !.pc = k]
<1>1. event[e] \in EventState
  BY DEF BusShapes
<1>2. /\ u \in EventState /\ u.pc = k /\ u.all = event[e].all /\ u.todo = event[e].todo
      /\ u.once = event[e].once /\ u.stopped = event[e].stopped
  BY <1>1 DEF EventState
<1>3. event' = [event EXCEPT ![e] = u]
  BY DEF BusShapes
<1> HIDE DEF u
<1>4. QED
  BY <1>2, <1>3, EventGoes

LEMMA EndKeeps == ASSUME BusInv, NEW e \in Events, ListenersDone(e) PROVE BusInv'
<1>1. BusShapes /\ Dispatched(e) /\ event[e].pc = "run" /\ UNCHANGED <<registered, called, published, disturbed>>
      /\ (event[e].stopped \/ event[e].todo = {})
  BY DEF BusInv, ListenersDone, EAt
<1>2. PICK u \in EventState :
          /\ GoesTo(e, u) /\ u.pc = "forget" /\ u.all = event[e].all /\ u.todo = event[e].todo
          /\ u.once = event[e].once /\ u.stopped = event[e].stopped
  BY <1>1, PlaceMoves DEF ListenersDone
<1>3. \A f \in Events : Dispatched(f)'
  <2>1. Dispatched(e)'
    BY <1>1, <1>2 DEF Dispatched, GoesTo
  <2>2. QED
    BY <1>1, <1>2, <2>1, OthersStay DEF BusInv
<1>4. ~ disturbed => OneByOne'
  BY <1>1, <1>2 DEF BusInv, OneByOne, Busy, Over, GoesTo
<1>5. QED
  BY <1>1, <1>2, <1>3, <1>4 DEF BusInv, BusShapes, GoesTo

LEMMA ForgetOnceKeeps == ASSUME BusInv, NEW e \in Events, ForgetOnce(e) PROVE BusInv'
<1>1. BusShapes /\ Dispatched(e) /\ event[e].pc = "forget" /\ UNCHANGED <<called, published, disturbed>>
      /\ Source[e] \in Nodes
  BY EventBusAssumption DEF BusInv, ForgetOnce, EAt
<1>2. PICK u \in EventState :
          /\ GoesTo(e, u) /\ u.pc = "publish" /\ u.all = event[e].all /\ u.todo = event[e].todo
          /\ u.once = event[e].once /\ u.stopped = event[e].stopped
  BY <1>1, PlaceMoves DEF ForgetOnce
<1>3. /\ registered' \in [Nodes -> SUBSET Listeners]
      /\ registered'[Source[e]] = registered[Source[e]] \ event[e].once
      /\ \A p \in Nodes : p # Source[e] => registered'[p] = registered[p]
  BY <1>1 DEF ForgetOnce, BusShapes
<1>4. \A f \in Events : Dispatched(f)'
  <2>1. Dispatched(e)'
    BY <1>1, <1>2 DEF Dispatched, GoesTo
  <2>2. QED
    BY <1>1, <1>2, <2>1, OthersStay DEF BusInv
<1>5. ASSUME ~ disturbed PROVE OneByOne'
  <2>1. OneByOne /\ Busy(e)
    BY <1>1, <1>5 DEF BusInv, Busy
  <2>2. \A f \in Events : Source[f] \in Nodes /\ registered'[Source[f]] \subseteq registered[Source[f]]
    BY <1>3, EventBusAssumption
  <2>3. \A f \in Events : f # e /\ Source[f] = Source[e] => ~ Busy(f)
    BY <2>1 DEF OneByOne
  <2>4. \A f \in Events : Busy(f)' => Busy(f) /\ Source[f] # Source[e] /\ event'[f] = event[f]
    BY <1>2, <2>3 DEF Busy, GoesTo
  <2>5. \A f \in Events : Busy(f)' => event'[f].all \cap Once \subseteq registered'[Source[f]]
    BY <1>3, <2>1, <2>2, <2>4 DEF OneByOne
  <2>6. \A f \in Events : Over(f)' => event'[f].once \cap registered'[Source[f]] = {}
    <3> SUFFICES ASSUME NEW f \in Events, Over(f)' PROVE event'[f].once \cap registered'[Source[f]] = {}
      OBVIOUS
    <3>1. CASE f = e
      BY <1>2, <1>3, <3>1 DEF GoesTo
    <3>2. CASE f # e
      BY <1>2, <2>1, <2>2, <3>2 DEF OneByOne, Over, GoesTo
    <3>3. QED
      BY <3>1, <3>2
  <2>7. \A f \in Events : event'[f].once = event[f].once /\ event'[f].pc # "raised"
    BY <1>2, <2>1 DEF GoesTo, OneByOne
  <2>8. QED
    BY <2>1, <2>4, <2>5, <2>6, <2>7 DEF OneByOne
<1>6. QED
  BY <1>1, <1>2, <1>3, <1>4, <1>5 DEF BusInv, BusShapes, GoesTo

LEMMA ForgetKeeps == ASSUME BusInv, NEW p \in Nodes, NEW l \in Listeners, Forget(p, l) PROVE BusInv'
<1>1. BusShapes /\ UNCHANGED <<event, called, published, disturbed>> /\ l \notin Once
  BY DEF BusInv, Forget
<1>2. /\ registered' \in [Nodes -> SUBSET Listeners]
      /\ \A q \in Nodes : registered[q] \ {l} \subseteq registered'[q] /\ registered'[q] \subseteq registered[q]
  BY <1>1 DEF Forget, BusShapes
<1>3. ~ disturbed => OneByOne'
  <2> SUFFICES ASSUME OneByOne PROVE OneByOne'
    BY DEF BusInv
  <2>1. \A e \in Events : Source[e] \in Nodes
    BY EventBusAssumption
  <2>2. \A e \in Events : Busy(e) => event[e].all \cap Once \subseteq registered'[Source[e]]
    BY <1>1, <1>2, <2>1 DEF OneByOne
  <2>3. \A e \in Events : Over(e) => event[e].once \cap registered'[Source[e]] = {}
    BY <1>2, <2>1 DEF OneByOne
  <2>4. QED
    BY <1>1, <2>2, <2>3 DEF OneByOne, Busy, Over
<1>4. QED
  BY <1>1, <1>2, <1>3 DEF BusInv, BusShapes, Dispatched

LEMMA PublishKeeps == ASSUME BusInv, NEW e \in Events, Publish(e) PROVE BusInv'
<1>1. BusShapes /\ Dispatched(e) /\ event[e].pc = "publish" /\ UNCHANGED <<registered, called, disturbed>>
  BY DEF BusInv, Publish, EAt
<1>2. PICK u \in EventState :
          /\ GoesTo(e, u) /\ u.pc = "done" /\ u.all = event[e].all /\ u.todo = event[e].todo
          /\ u.once = event[e].once /\ u.stopped = event[e].stopped
  BY <1>1, PlaceMoves DEF Publish
<1>3. published[e] = 0
  BY <1>1 DEF Dispatched
<1>4. /\ published' \in [Events -> Nat] /\ published'[e] <= 1
      /\ \A f \in Events : f # e => published'[f] = published[f]
  <2>1. CASE published' = [published EXCEPT ![e] = @ + 1]
    BY <1>1, <1>3, <2>1 DEF BusShapes
  <2>2. CASE UNCHANGED published
    BY <1>1, <1>3, <2>2 DEF BusShapes
  <2>3. QED
    BY <2>1, <2>2 DEF Publish
<1>5. \A f \in Events : Dispatched(f)'
  <2>1. Dispatched(e)'
    BY <1>1, <1>2, <1>4 DEF Dispatched, GoesTo
  <2>2. QED
    BY <1>1, <1>2, <1>4, <2>1, OthersStay DEF BusInv
<1>6. ~ disturbed => OneByOne'
  BY <1>1, <1>2 DEF BusInv, OneByOne, Busy, Over, GoesTo
<1>7. QED
  BY <1>1, <1>2, <1>4, <1>5, <1>6 DEF BusInv, BusShapes, GoesTo

LEMMA BridgeKeeps ==
    ASSUME BusInv, UNCHANGED <<registered, event, called, published, disturbed>> PROVE BusInv'
  BY DEF BusInv, BusShapes, Dispatched, OneByOne, Busy, Over

LEMMA BusNextInv == BusInv /\ [BusNext]_busVars => BusInv'
<1> SUFFICES ASSUME BusInv, [BusNext]_busVars PROVE BusInv'
  OBVIOUS
<1>1. CASE UNCHANGED busVars
  BY <1>1, BridgeKeeps DEF busVars
<1>2. ASSUME NEW p \in Nodes, NEW e \in Events, HandleMessage(p, e) PROVE BusInv'
  BY <1>2, BridgeKeeps DEF HandleMessage
<1>3. ASSUME NEW p \in Nodes, Start(p) \/ LoseConnection(p) \/ Resubscribe(p) \/ Stop(p) PROVE BusInv'
  BY <1>3, BridgeKeeps DEF Start, LoseConnection, Resubscribe, Stop
<1>4. QED
  BY <1>1, <1>2, <1>3, DispatchKeeps, CallKeeps, RaisesKeeps, EndKeeps, ForgetOnceKeeps, ForgetKeeps, PublishKeeps DEF BusNext

LEMMA BusInvSafe == BusInv => EventsSafe
<1> SUFFICES ASSUME BusInv PROVE EventsSafe
  OBVIOUS
<1>1. AllCalled /\ NoEcho
  BY DEF BusInv, Dispatched, AllCalled, NoEcho
<1>2. OnceOnly
  <2> SUFFICES ASSUME ~ disturbed, NEW p \in Nodes, NEW l \in Once
               PROVE  Cardinality({e \in Events : Source[e] = p /\ l \in event[e].once}) <= 1
    BY DEF OnceOnly
  <2> DEFINE S == {e \in Events : Source[e] = p /\ l \in event[e].once}
  <2>1. \A e \in S, f \in S : e = f
    BY DEF BusInv, OneByOne
  <2>2. CASE S = {}
    <3>1. Cardinality(S) = 0
      BY <2>2, FS_EmptySet
    <3>2. QED
      BY <3>1
  <2>3. CASE S # {}
    <3>1. PICK e \in S : S = {e}
      BY <2>1, <2>3
    <3>2. Cardinality({e}) = 1
      BY FS_Singleton
    <3>3. QED
      BY <3>1, <3>2
  <2>4. QED
    BY <2>2, <2>3
<1>3. QED
  BY <1>1, <1>2 DEF EventsSafe

(***************************************************************************)
(* A dispatch takes the first of what is left, which is behind all that it *)
(* has called.                                                             *)
(***************************************************************************)
LEMMA PriorityStep ==
    ASSUME BusInv, BusNext
    PROVE  \A e \in Events : \A l \in called'[e] \ called[e], k \in called[e] : Priority[l] < Priority[k]
<1> SUFFICES ASSUME NEW e \in Events, NEW l \in called'[e] \ called[e], NEW k \in called[e]
             PROVE  Priority[l] < Priority[k]
  OBVIOUS
<1>1. PICK m \in Listeners : CallListener(e, m) \/ ListenerRaises(e, m)
  <2>1. called' # called
    OBVIOUS
  <2>2. PICK f \in Events, m \in Listeners : CallListener(f, m) \/ ListenerRaises(f, m)
    BY <2>1 DEF BusNext, Dispatch, ListenersDone, ForgetOnce, Publish, Forget, HandleMessage,
                Start, LoseConnection, Resubscribe, Stop
  <2>3. f = e
    BY <2>2 DEF CallListener, ListenerRaises, BusInv, BusShapes
  <2>4. QED
    BY <2>2, <2>3
<1>2. l = m /\ m \in event[e].todo
  BY <1>1 DEF CallListener, ListenerRaises, NextListener, BusInv, BusShapes
<1>3. QED
  BY <1>2 DEF BusInv, Dispatched

-----------------------------------------------------------------------------
(* Calls of language models *)

Doings == {"idle", "allow", "call", "stream", "first", "good", "bad", "rejected",
           "log", "log failure", "answered", "raised"}

AnyItem == [from : Nat, what : {"answer", "error response", "text", "error", "end"}]

AnyBreaker == [state : {"closed", "open", "half_open"}, failures : Nat, failedAt : Nat]

FallShapes ==
    /\ chained \in BOOLEAN
    /\ second \in Nat
    /\ breaker \in [Chain -> AnyBreaker]
    /\ doing \in [Callers -> Doings]
    /\ trying \in [Callers -> Nat]
    /\ tries \in [Callers -> Nat]
    /\ received \in [Callers -> Seq(AnyItem)]

(***************************************************************************)
(* An open breaker is as full as it can be unless a late success has come. *)
(***************************************************************************)
BreakersFull ==
    \A p \in Chain :
        /\ breaker[p].state # "closed" /\ p \notin overdue => breaker[p].failures >= FailureThreshold
        /\ breaker[p].state = "closed" => breaker[p].failures < FailureThreshold

Switches(s) == \A i \in 1 .. Len(s) - 1 : s[i].from # s[i + 1].from => s[i].what = "error"

LastItem(c) == received[c][Len(received[c])]

Given(c) == received[c] # <<>>

Broke(c) == Given(c) => LastItem(c).what = "error"

(***************************************************************************)
(* A caller that leaves a provider has last been given an error, if        *)
(* anything; and one that has its answer has it as the last thing.         *)
(***************************************************************************)
CallerOK(c) ==
    /\ doing[c] \notin {"idle", "answered", "raised"} => trying[c] \in Chain
    /\ c \in Streaming => doing[c] # "call"
    /\ doing[c] \in {"first", "rejected"} => chained
    /\ c \in Streaming \ logFailed =>
           /\ doing[c] \in {"allow", "bad", "log failure"} => Broke(c)
           /\ Given(c) /\ LastItem(c).from # trying[c] => LastItem(c).what = "error"
           /\ Switches(received[c])
    /\ ~ chained /\ doing[c] \in {"good", "log", "answered"} => Given(c) /\ LastItem(c).what \in {"answer", "end"}

FallInv ==
    /\ FallShapes
    /\ BreakersFull
    /\ \A c \in Callers : CallerOK(c)

LEMMA FallInitInv == FallbackInit => FallInv
<1> SUFFICES ASSUME FallbackInit PROVE FallInv
  OBVIOUS
<1>1. FallShapes
  BY DEF FallbackInit, FallShapes, AnyBreaker, Doings
<1>2. BreakersFull
  BY FallbackAssumption DEF FallbackInit, BreakersFull
<1>3. ASSUME NEW c \in Callers PROVE CallerOK(c)
  <2>1. doing[c] = "idle" /\ received[c] = <<>> /\ ~ Given(c)
    BY DEF FallbackInit, Given
  <2>2. Switches(received[c])
    BY <2>1 DEF Switches
  <2>3. QED
    BY <2>1, <2>2 DEF CallerOK
<1>4. QED
  BY <1>1, <1>2, <1>3 DEF FallInv

LEMMA FallInvSafe == FallInv => FallbackSafe
<1> SUFFICES ASSUME FallInv PROVE FallbackSafe
  OBVIOUS
<1>1. OneFailureReopens
  <2> SUFFICES ASSUME NEW p \in Chain
               PROVE  /\ breaker[p].state = "half_open" /\ p \notin overdue => breaker[p].failures + 1 >= FailureThreshold
                      /\ breaker[p].state = "closed" => breaker[p].failures < FailureThreshold
    BY DEF OneFailureReopens
  <2>1. breaker[p].failures \in Nat /\ FailureThreshold \in Nat
    BY FallbackAssumption DEF FallInv, FallShapes, AnyBreaker
  <2>2. QED
    BY <2>1 DEF FallInv, BreakersFull
<1>2. NoSilentSwitch
  BY FallbackAssumption DEF FallInv, CallerOK, NoSilentSwitch, Switches
<1>3. AnswerEarned
  BY DEF FallInv, CallerOK, AnswerEarned, Given, LastItem
<1>4. QED
  BY <1>1, <1>2, <1>3 DEF FallbackSafe

(***************************************************************************)
(* A step of one caller.                                                   *)
(***************************************************************************)
LEMMA CallerSteps ==
    ASSUME FallInv, NEW c \in Callers, FallShapes', BreakersFull', CallerOK(c)', UNCHANGED chained,
           \A d \in Callers : d # c =>
               doing'[d] = doing[d] /\ trying'[d] = trying[d] /\ received'[d] = received[d]
               /\ (d \in logFailed' <=> d \in logFailed)
    PROVE  FallInv'
<1>1. ASSUME NEW d \in Callers, d # c PROVE CallerOK(d)'
  <2>1. /\ CallerOK(d) /\ doing'[d] = doing[d] /\ trying'[d] = trying[d] /\ received'[d] = received[d]
        /\ (d \in logFailed' <=> d \in logFailed) /\ chained' = chained
    BY <1>1 DEF FallInv
  <2>2. (Given(d)' <=> Given(d)) /\ LastItem(d)' = LastItem(d) /\ (Broke(d)' <=> Broke(d)) /\ (Switches(received[d])' <=> Switches(received[d]))
    BY <2>1 DEF Given, LastItem, Broke
  <2>3. (d \in Streaming \ logFailed)' <=> d \in Streaming \ logFailed
    BY <2>1
  <2>4. LastItem(d)'.from = LastItem(d).from /\ LastItem(d)'.what = LastItem(d).what
    BY <2>2
  <2>5. doing[d]' = doing[d] /\ trying[d]' = trying[d]
    BY <2>1
  <2>6. /\ (doing[d] \notin {"idle", "answered", "raised"} => trying[d] \in Chain)'
        /\ (d \in Streaming => doing[d] # "call")'
        /\ (doing[d] \in {"first", "rejected"} => chained)'
    <3>1. Chain' = Chain
      BY DEF Chain
    <3>2. chained' <=> chained
      BY <2>1
    <3>3. /\ doing[d] \notin {"idle", "answered", "raised"} => trying[d] \in Chain
          /\ d \in Streaming => doing[d] # "call"
          /\ doing[d] \in {"first", "rejected"} => chained
      BY <2>1 DEF CallerOK
    <3>4. trying[d]' \in Chain' <=> trying[d] \in Chain
      BY <2>5, <3>1
    <3>5. QED
      BY <2>5, <3>2, <3>3, <3>4
  <2>9. (~ chained /\ doing[d] \in {"good", "log", "answered"} => Given(d) /\ LastItem(d).what \in {"answer", "end"})'
    <3>1. ~ chained /\ doing[d] \in {"good", "log", "answered"} => Given(d) /\ LastItem(d).what \in {"answer", "end"}
      BY <2>1 DEF CallerOK
    <3>2. QED
      BY <2>1, <2>2, <2>4, <2>5, <3>1
  <2>7. ASSUME (d \in Streaming \ logFailed)'
        PROVE  /\ (doing[d] \in {"allow", "bad", "log failure"} => Broke(d))'
               /\ (Given(d) /\ LastItem(d).from # trying[d] => LastItem(d).what = "error")'
               /\ Switches(received[d])'
    <3>1. /\ doing[d] \in {"allow", "bad", "log failure"} => Broke(d)
          /\ Given(d) /\ LastItem(d).from # trying[d] => LastItem(d).what = "error"
          /\ Switches(received[d])
      BY <2>1, <2>3, <2>7 DEF CallerOK
    <3>2. QED
      BY <2>2, <2>4, <2>5, <3>1
  <2>8. QED
    BY <2>6, <2>7, <2>9 DEF CallerOK
<1>2. QED
  BY <1>1 DEF FallInv

LEMMA WentTo ==
    ASSUME FallShapes, NEW c \in Callers, NEW k \in Doings, Goto(c, k)
    PROVE  doing' \in [Callers -> Doings] /\ doing'[c] = k /\ \A d \in Callers : d # c => doing'[d] = doing[d]
  BY DEF FallShapes, Goto

(***************************************************************************)
(* The next provider, or none.                                             *)
(***************************************************************************)
LEMMA WentNext ==
    ASSUME FallShapes, NEW c \in Callers, trying[c] \in Chain, GoNext(c)
    PROVE  /\ doing' \in [Callers -> Doings] /\ doing'[c] \in {"raised", "allow"}
           /\ trying' \in [Callers -> Nat] /\ (doing'[c] = "allow" => trying'[c] \in Chain)
           /\ tries' \in [Callers -> Nat]
           /\ \A d \in Callers : d # c => doing'[d] = doing[d] /\ trying'[d] = trying[d]
<1>1. Providers \in Nat /\ trying[c] \in Nat /\ trying[c] >= 1 /\ trying[c] <= Providers
  BY FallbackAssumption DEF Chain
<1>2. trying[c] # Providers => trying[c] + 1 \in Chain
  BY <1>1 DEF Chain
<1>3. trying' \in [Callers -> Nat] /\ trying'[c] = trying[c] + 1 /\ \A d \in Callers : d # c => trying'[d] = trying[d]
  BY <1>1 DEF GoNext, FallShapes
<1>4. tries' \in [Callers -> Nat]
  BY DEF GoNext, FallShapes
<1>5. CASE trying[c] = Providers
  <2>1. Goto(c, "raised")
    BY <1>5 DEF GoNext
  <2>2. QED
    BY <1>3, <1>4, <2>1, WentTo DEF Doings
<1>6. CASE trying[c] # Providers
  <2>1. Goto(c, "allow")
    BY <1>6 DEF GoNext
  <2>2. QED
    BY <1>2, <1>3, <1>4, <1>6, <2>1, WentTo DEF Doings
<1>7. QED
  BY <1>5, <1>6

(***************************************************************************)
(* What a caller is given becomes the last of what it has; it may differ   *)
(* in its provider from what was there only behind an error.               *)
(***************************************************************************)
LEMMA LastOfMore ==
    ASSUME NEW s \in Seq(AnyItem), NEW item \in AnyItem
    PROVE  /\ Append(s, item) \in Seq(AnyItem) /\ Append(s, item) # <<>>
           /\ Append(s, item)[Len(Append(s, item))] = item
<1> DEFINE t == Append(s, item)
<1>1. t \in Seq(AnyItem) /\ Len(t) = Len(s) + 1 /\ t[Len(s) + 1] = item
  BY AppendProperties
<1>2. Len(s) \in Nat
  BY LenProperties
<1>3. t # <<>>
  BY <1>1, <1>2, EmptySeq
<1>4. QED
  BY <1>1, <1>2, <1>3

LEMMA SwitchesOfMore ==
    ASSUME NEW s \in Seq(AnyItem), NEW item \in AnyItem, Switches(s),
           s # <<>> /\ s[Len(s)].from # item.from => s[Len(s)].what = "error"
    PROVE  Switches(Append(s, item))
<1> DEFINE t == Append(s, item)
<1>1. Len(t) = Len(s) + 1 /\ t[Len(s) + 1] = item /\ \A i \in 1 .. Len(s) : t[i] = s[i]
  BY AppendProperties
<1>2. Len(s) \in Nat
  BY LenProperties
<1> HIDE DEF t
<1> SUFFICES ASSUME NEW i \in 1 .. Len(t) - 1, t[i].from # t[i + 1].from PROVE t[i].what = "error"
  BY DEF Switches, t
<1>3. i \in 1 .. Len(s) /\ i \in Nat
  BY <1>1, <1>2
<1>4. t[i] = s[i]
  BY <1>1, <1>3
<1>5. CASE i = Len(s)
  <2>1. t[i + 1] = item
    BY <1>1, <1>5
  <2>2. s # <<>>
    BY <1>3, EmptySeq
  <2>3. QED
    BY <1>4, <1>5, <2>1, <2>2
<1>6. CASE i # Len(s)
  <2>1. i \in 1 .. Len(s) - 1 /\ i + 1 \in 1 .. Len(s)
    BY <1>2, <1>3, <1>6
  <2>2. t[i + 1] = s[i + 1]
    BY <1>1, <2>1
  <2>3. QED
    BY <1>4, <2>1, <2>2 DEF Switches
<1>7. QED
  BY <1>5, <1>6

LEMMA WasGiven ==
    ASSUME FallShapes, NEW c \in Callers, NEW w \in {"answer", "error response", "text", "error", "end"}, Give(c, w)
    PROVE  /\ received' \in [Callers -> Seq(AnyItem)]
           /\ \A d \in Callers : d # c => received'[d] = received[d]
           /\ Given(c)' /\ LastItem(c)'.from = trying[c] /\ LastItem(c)'.what = w
           /\ Switches(received[c]) /\ (Given(c) /\ LastItem(c).from # trying[c] => LastItem(c).what = "error")
              => Switches(received[c])'
<1>1. PICK item \in AnyItem : item = [from |-> trying[c], what |-> w]
  BY DEF FallShapes, AnyItem
<1>2. item.from = trying[c] /\ item.what = w
  BY <1>1
<1>3. PICK s \in Seq(AnyItem) : s = received[c]
  BY DEF FallShapes
<1>4. received' = [received EXCEPT ![c] = IF s # <<>> /\ s[Len(s)] = item THEN s ELSE Append(s, item)]
  BY <1>1, <1>3 DEF Give
<1>5. CASE s # <<>> /\ s[Len(s)] = item
  <2>1. /\ received' \in [Callers -> Seq(AnyItem)] /\ received'[c] = s
        /\ \A d \in Callers : d # c => received'[d] = received[d]
    BY <1>4, <1>5 DEF FallShapes
  <2>2. QED
    BY <1>2, <1>3, <1>5, <2>1 DEF Given, LastItem
<1>6. CASE ~ (s # <<>> /\ s[Len(s)] = item)
  <2>1. PICK t \in Seq(AnyItem) : t = Append(s, item)
    BY LastOfMore
  <2>2. received' = [received EXCEPT ![c] = t]
    BY <1>4, <1>6, <2>1
  <2>3. /\ received' \in [Callers -> Seq(AnyItem)] /\ received'[c] = t
        /\ \A d \in Callers : d # c => received'[d] = received[d]
    BY <2>2 DEF FallShapes
  <2>4. t # <<>> /\ t[Len(t)] = item
    BY <2>1, LastOfMore
  <2>5. Switches(s) /\ (s # <<>> /\ s[Len(s)].from # item.from => s[Len(s)].what = "error") => Switches(t)
    BY <2>1, SwitchesOfMore
  <2>6. QED
    BY <1>2, <1>3, <2>3, <2>4, <2>5 DEF Given, LastItem
<1>7. QED
  BY <1>5, <1>6

(***************************************************************************)
(* The breaker keeps its count.                                            *)
(***************************************************************************)
LEMMA BreakerSet ==
    ASSUME FallInv, NEW p \in Chain, NEW u \in AnyBreaker, breaker' = [breaker EXCEPT ![p] = u],
           \A q \in Chain : q # p => (q \in overdue' <=> q \in overdue),
           u.state # "closed" /\ p \notin overdue' => u.failures >= FailureThreshold,
           u.state = "closed" => u.failures < FailureThreshold
    PROVE  breaker' \in [Chain -> AnyBreaker] /\ BreakersFull'
<1>1. breaker' \in [Chain -> AnyBreaker] /\ breaker'[p] = u /\ \A q \in Chain : q # p => breaker'[q] = breaker[q]
  BY DEF FallInv, FallShapes
<1>2. QED
  BY <1>1 DEF FallInv, BreakersFull

LEMMA Allowed ==
    ASSUME FallInv, NEW p \in Chain, AllowRequest(p), UNCHANGED overdue
    PROVE  breaker' \in [Chain -> AnyBreaker] /\ BreakersFull'
<1> DEFINE u == [breaker[p] EXCEPT !.state = IF breaker[p].state = "open" THEN "half_open" ELSE breaker[p].state]
<1>1. breaker[p] \in AnyBreaker
  BY DEF FallInv, FallShapes
<1>2. u \in AnyBreaker /\ u.failures = breaker[p].failures /\ (u.state = "closed" <=> breaker[p].state = "closed")
  BY <1>1 DEF AnyBreaker
<1>3. breaker' = [breaker EXCEPT ![p] = u]
  BY <1>1 DEF AllowRequest, FallInv, FallShapes
<1> HIDE DEF u
<1>4. QED
  BY <1>2, <1>3, BreakerSet DEF FallInv, BreakersFull

LEMMA Succeeded ==
    ASSUME FallInv, NEW p \in Chain, RecordSuccess(p)
    PROVE  breaker' \in [Chain -> AnyBreaker] /\ BreakersFull'
<1> DEFINE u == [breaker[p] EXCEPT !.failures = 0, !.state = IF breaker[p].state = "half_open" THEN "closed" ELSE breaker[p].state]
<1>1. breaker[p] \in AnyBreaker
  BY DEF FallInv, FallShapes
<1>2. u \in AnyBreaker /\ u.failures = 0 /\ (u.state # "closed" <=> breaker[p].state = "open")
  BY <1>1 DEF AnyBreaker
<1>3. breaker' = [breaker EXCEPT ![p] = u]
  BY <1>1 DEF RecordSuccess, FallInv, FallShapes
<1> HIDE DEF u
<1>4. \A q \in Chain : q # p => (q \in overdue' <=> q \in overdue)
  BY DEF RecordSuccess
<1>5. breaker[p].state = "open" => p \in overdue'
  BY DEF RecordSuccess
<1>6. 0 < FailureThreshold
  BY FallbackAssumption
<1>7. QED
  BY <1>2, <1>3, <1>4, <1>5, <1>6, BreakerSet

LEMMA Failed ==
    ASSUME FallInv, NEW p \in Chain, RecordFailure(p)
    PROVE  breaker' \in [Chain -> AnyBreaker] /\ BreakersFull'
<1> DEFINE n == breaker[p].failures + 1
           u == [state |-> IF n >= FailureThreshold THEN "open" ELSE breaker[p].state,
                 failures |-> IF n > FailureThreshold THEN FailureThreshold ELSE n, failedAt |-> second]
<1>1. breaker[p] \in AnyBreaker /\ second \in Nat /\ FailureThreshold \in Nat
  BY FallbackAssumption DEF FallInv, FallShapes
<1>2. n \in Nat /\ breaker[p].failures \in Nat
  BY <1>1 DEF AnyBreaker
<1>3. u \in AnyBreaker /\ u.failures = (IF n > FailureThreshold THEN FailureThreshold ELSE n)
      /\ u.state = (IF n >= FailureThreshold THEN "open" ELSE breaker[p].state)
  BY <1>1, <1>2 DEF AnyBreaker
<1>4. breaker' = [breaker EXCEPT ![p] = u]
  BY <1>1 DEF RecordFailure, FallInv, FallShapes
<1>5. overdue' = IF n >= FailureThreshold THEN overdue \ {p} ELSE overdue
  BY DEF RecordFailure
<1>6. n = breaker[p].failures + 1
  OBVIOUS
<1> HIDE DEF u, n
<1>7. u.state # "closed" /\ p \notin overdue' => u.failures >= FailureThreshold
  <2>1. CASE n >= FailureThreshold
    BY <1>1, <1>2, <1>3, <2>1
  <2>2. CASE ~ (n >= FailureThreshold)
    <3> SUFFICES ASSUME u.state # "closed", p \notin overdue' PROVE FALSE
      OBVIOUS
    <3>1. breaker[p].state # "closed" /\ p \notin overdue
      BY <1>3, <1>5, <2>2
    <3>2. breaker[p].failures >= FailureThreshold
      BY <3>1 DEF FallInv, BreakersFull
    <3>3. QED
      BY <1>1, <1>2, <1>6, <2>2, <3>2
  <2>3. QED
    BY <2>1, <2>2
<1>8. u.state = "closed" => u.failures < FailureThreshold
  <2>1. CASE n >= FailureThreshold
    BY <1>3, <2>1
  <2>2. CASE ~ (n >= FailureThreshold)
    BY <1>1, <1>2, <1>3, <2>2
  <2>3. QED
    BY <2>1, <2>2
<1>9. \A q \in Chain : q # p => (q \in overdue' <=> q \in overdue)
  BY <1>5
<1>10. QED
  BY <1>3, <1>4, <1>7, <1>8, <1>9, BreakerSet

(***************************************************************************)
(* Nothing happens to the breakers.                                        *)
(***************************************************************************)
LEMMA BreakersStay ==
    ASSUME FallInv, UNCHANGED <<breaker, overdue>> PROVE breaker' \in [Chain -> AnyBreaker] /\ BreakersFull'
  BY DEF FallInv, FallShapes, BreakersFull

(***************************************************************************)
(* The steps.                                                              *)
(***************************************************************************)
LEMMA BeginChainKeeps == ASSUME FallInv, NEW c \in Callers, BeginChain(c) PROVE FallInv'
<1>1. doing' \in [Callers -> Doings] /\ doing'[c] = "allow" /\ \A d \in Callers : d # c => doing'[d] = doing[d]
  BY WentTo DEF BeginChain, FallInv, Doings
<1>2. /\ trying' \in [Callers -> Nat] /\ trying'[c] = 1 /\ tries' \in [Callers -> Nat]
      /\ \A d \in Callers : d # c => trying'[d] = trying[d]
  BY DEF BeginChain, FallInv, FallShapes
<1>3. <<>> \in Seq(AnyItem)
  BY EmptySeq
<1>4. /\ received' \in [Callers -> Seq(AnyItem)] /\ received'[c] = <<>>
      /\ \A d \in Callers : d # c => received'[d] = received[d]
  BY <1>3 DEF BeginChain, FallInv, FallShapes
<1>5. FallShapes' /\ BreakersFull'
  BY <1>1, <1>2, <1>4, BreakersStay DEF BeginChain, FallInv, FallShapes
<1>6. ~ Given(c)' /\ Switches(received[c])' /\ 1 \in Chain
  BY <1>4, FallbackAssumption DEF Given, Switches, Chain
<1>7. CallerOK(c)'
  BY <1>1, <1>2, <1>6 DEF CallerOK, Broke
<1>8. \A d \in Callers : d # c => (d \in logFailed' <=> d \in logFailed)
  BY DEF BeginChain
<1>9. QED
  BY <1>1, <1>2, <1>4, <1>5, <1>7, <1>8, CallerSteps DEF BeginChain

(***************************************************************************)
(* A caller that leaves its provider empty-handed.                         *)
(***************************************************************************)
LEMMA NextIsFine ==
    ASSUME FallInv, NEW c \in Callers, doing[c] \in {"allow", "bad", "log failure"}, GoNext(c),
           UNCHANGED <<chained, second, received, logFailed>>, breaker' \in [Chain -> AnyBreaker], BreakersFull'
    PROVE  FallInv'
<1>1. CallerOK(c) /\ trying[c] \in Chain
  BY DEF FallInv, CallerOK
<1>2. /\ doing' \in [Callers -> Doings] /\ doing'[c] \in {"raised", "allow"}
      /\ trying' \in [Callers -> Nat] /\ (doing'[c] = "allow" => trying'[c] \in Chain)
      /\ tries' \in [Callers -> Nat]
      /\ \A d \in Callers : d # c => doing'[d] = doing[d] /\ trying'[d] = trying[d]
  BY <1>1, WentNext DEF FallInv
<1>3. FallShapes'
  BY <1>2 DEF FallInv, FallShapes
<1>4. Given(c)' = Given(c) /\ LastItem(c)' = LastItem(c) /\ Broke(c)' = Broke(c) /\ Switches(received[c])' = Switches(received[c])
  BY DEF Given, LastItem, Broke
<1>5. CallerOK(c)'
  BY <1>1, <1>2, <1>4 DEF CallerOK, Broke
<1>6. QED
  BY <1>2, <1>3, <1>5, CallerSteps

(***************************************************************************)
(* A caller that goes on with its provider, as it is.                      *)
(***************************************************************************)
LEMMA CallerGoes ==
    ASSUME FallInv, NEW c \in Callers, NEW k \in Doings, Goto(c, k), UNCHANGED <<chained, second, trying, received>>,
           tries' \in [Callers -> Nat], breaker' \in [Chain -> AnyBreaker], BreakersFull',
           \A d \in Callers : d # c => (d \in logFailed' <=> d \in logFailed),
           c \in Streaming => k # "call",
           k \in {"first", "rejected"} => chained,
           ~ chained /\ k \in {"good", "log", "answered"} => Given(c) /\ LastItem(c).what \in {"answer", "end"},
           k \notin {"idle", "answered", "raised"} => trying[c] \in Chain,
           c \in Streaming \ logFailed' => c \notin logFailed /\ (k \in {"allow", "bad", "log failure"} => Broke(c))
    PROVE  FallInv'
<1>1. CallerOK(c)
  BY DEF FallInv
<1>2. doing' \in [Callers -> Doings] /\ doing'[c] = k /\ \A d \in Callers : d # c => doing'[d] = doing[d]
  BY WentTo DEF FallInv
<1>3. FallShapes'
  BY <1>2 DEF FallInv, FallShapes
<1>4. Given(c)' = Given(c) /\ LastItem(c)' = LastItem(c) /\ Broke(c)' = Broke(c) /\ Switches(received[c])' = Switches(received[c])
  BY DEF Given, LastItem, Broke
<1>5. CallerOK(c)'
  BY <1>1, <1>2, <1>4 DEF CallerOK
<1>6. QED
  BY <1>2, <1>3, <1>5, CallerSteps

(***************************************************************************)
(* A caller that is given something.                                       *)
(***************************************************************************)
LEMMA IsGiven ==
    ASSUME FallInv, NEW c \in Callers, doing[c] \in {"call", "stream"}, NEW k \in Doings, Goto(c, k),
           NEW w \in {"answer", "error response", "text", "error", "end"}, Give(c, w),
           UNCHANGED <<chained, second, breaker, trying, tries, logFailed, overdue>>,
           k # "call", k \in {"first", "rejected"} => chained,
           ~ chained /\ k \in {"good", "log", "answered"} => w \in {"answer", "end"},
           c \in Streaming /\ k \in {"allow", "bad", "log failure"} => w = "error"
    PROVE  FallInv'
<1>1. CallerOK(c) /\ trying[c] \in Chain
  BY DEF FallInv, CallerOK
<1>2. doing' \in [Callers -> Doings] /\ doing'[c] = k /\ \A d \in Callers : d # c => doing'[d] = doing[d]
  BY WentTo DEF FallInv
<1>3. /\ received' \in [Callers -> Seq(AnyItem)]
      /\ \A d \in Callers : d # c => received'[d] = received[d]
      /\ Given(c)' /\ LastItem(c)'.from = trying[c] /\ LastItem(c)'.what = w
      /\ Switches(received[c]) /\ (Given(c) /\ LastItem(c).from # trying[c] => LastItem(c).what = "error")
         => Switches(received[c])'
  BY WasGiven DEF FallInv
<1>4. FallShapes' /\ BreakersFull'
  BY <1>2, <1>3, BreakersStay DEF FallInv, FallShapes
<1>5. CallerOK(c)'
  BY <1>1, <1>2, <1>3 DEF CallerOK, Broke
<1>6. QED
  BY <1>2, <1>3, <1>4, <1>5, CallerSteps

LEMMA AskKeeps == ASSUME FallInv, NEW c \in Callers, Ask(c) PROVE FallInv'
<1>1. CallerOK(c) /\ trying[c] \in Chain /\ doing[c] = "allow"
  BY DEF FallInv, CallerOK, Ask
<1>2. CASE Allows(trying[c])
  <2>1. breaker' \in [Chain -> AnyBreaker] /\ BreakersFull'
    BY <1>1, <1>2, Allowed DEF Ask
  <2>2. tries' \in [Callers -> Nat]
    <3>1. tries' = [tries EXCEPT ![c] = tries[c] + 1]
      BY <1>2 DEF Ask
    <3>2. QED
      BY <3>1 DEF FallInv, FallShapes
  <2>3. PICK k \in {"stream", "call"} : k = IF c \in Streaming THEN "stream" ELSE "call"
    OBVIOUS
  <2>4. Goto(c, k) /\ UNCHANGED <<chained, second, trying, received, logFailed>>
    BY <1>2, <2>3 DEF Ask
  <2>5. k \in Doings
    BY DEF Doings
  <2>6. QED
    BY <1>1, <2>1, <2>2, <2>3, <2>4, <2>5, CallerGoes
<1>3. CASE ~ Allows(trying[c]) /\ (chained \/ c \in Streaming)
  <2>1. GoNext(c) /\ UNCHANGED <<chained, second, received, logFailed, breaker, overdue>>
    BY <1>3 DEF Ask
  <2>2. QED
    BY <1>1, <2>1, BreakersStay, NextIsFine
<1>4. CASE ~ Allows(trying[c]) /\ ~ (chained \/ c \in Streaming)
  <2>1. Goto(c, "bad") /\ UNCHANGED <<chained, second, trying, tries, received, logFailed, breaker, overdue>>
    BY <1>4 DEF Ask
  <2>2. tries' \in [Callers -> Nat] /\ "bad" \in Doings
    BY <2>1 DEF FallInv, FallShapes, Doings
  <2>3. QED
    BY <1>1, <1>4, <2>1, <2>2, BreakersStay, CallerGoes
<1>5. QED
  BY <1>2, <1>3, <1>4

LEMMA RespondKeeps == ASSUME FallInv, NEW c \in Callers, Respond(c) PROVE FallInv'
<1>1. CallerOK(c) /\ trying[c] \in Chain /\ doing[c] = "call" /\ c \notin Streaming
  BY DEF FallInv, CallerOK, Respond
<1>2. "good" \in Doings /\ "bad" \in Doings
  BY DEF Doings
<1>3. CASE Give(c, "answer") /\ Goto(c, "good")
  BY <1>1, <1>2, <1>3, IsGiven DEF Respond
<1>4. CASE chained /\ Give(c, "error response") /\ Goto(c, "good")
  BY <1>1, <1>2, <1>4, IsGiven DEF Respond
<1>5. CASE ~ chained /\ Goto(c, "bad") /\ UNCHANGED received
  <2>1. tries' \in [Callers -> Nat]
    BY DEF Respond, FallInv, FallShapes
  <2>2. QED
    BY <1>1, <1>2, <1>5, <2>1, BreakersStay, CallerGoes DEF Respond
<1>6. QED
  BY <1>3, <1>4, <1>5 DEF Respond

LEMMA TimeoutKeeps == ASSUME FallInv, NEW c \in Callers, Timeout(c) PROVE FallInv'
<1>1. CallerOK(c) /\ trying[c] \in Chain /\ doing[c] = "call" /\ c \notin Streaming
  BY DEF FallInv, CallerOK, Timeout
<1>2. PICK k \in {"bad", "allow"} : Goto(c, k)
  BY DEF Timeout
<1>3. k \in Doings
  BY DEF Doings
<1>4. tries' \in [Callers -> Nat]
  BY DEF Timeout, FallInv, FallShapes
<1>5. QED
  BY <1>1, <1>2, <1>3, <1>4, BreakersStay, CallerGoes DEF Timeout

LEMMA StreamTextKeeps == ASSUME FallInv, NEW c \in Callers, StreamText(c) PROVE FallInv'
<1>1. PICK k \in {"first", "stream"} : Goto(c, k) /\ (k = "first" => chained)
  BY DEF StreamText
<1>2. k \in Doings
  BY DEF Doings
<1>3. QED
  BY <1>1, <1>2, IsGiven DEF StreamText

LEMMA StreamEndsKeeps == ASSUME FallInv, NEW c \in Callers, StreamEnds(c) PROVE FallInv'
<1>1. PICK k \in {"answered", "good"} : Goto(c, k)
  BY DEF StreamEnds
<1>2. k \in Doings
  BY DEF Doings
<1>3. QED
  BY <1>1, <1>2, IsGiven DEF StreamEnds

LEMMA StreamBreaksKeeps == ASSUME FallInv, NEW c \in Callers, StreamBreaks(c) PROVE FallInv'
<1>1. CallerOK(c) /\ trying[c] \in Chain /\ doing[c] = "stream"
  BY DEF FallInv, CallerOK, StreamBreaks
<1>2. "rejected" \in Doings /\ "bad" \in Doings
  BY DEF Doings
<1>3. CASE chained /\ ~ Started(c)
  <2>1. Goto(c, "bad") /\ UNCHANGED <<chained, second, breaker, trying, tries, received, logFailed, overdue>>
    BY <1>3 DEF StreamBreaks
  <2>2. tries' \in [Callers -> Nat]
    BY <2>1 DEF FallInv, FallShapes
  <2>3. ASSUME Given(c) PROVE LastItem(c).from # trying[c]
    <3>1. PICK s \in Seq(AnyItem) : s = received[c]
      BY DEF FallInv, FallShapes
    <3>2. Len(s) \in 1 .. Len(s)
      BY <2>3, <3>1, EmptySeq, LenProperties DEF Given
    <3>3. QED
      BY <1>3, <3>1, <3>2 DEF Started, LastItem
  <2>4. c \in Streaming \ logFailed => Broke(c)
    BY <1>1, <2>3 DEF CallerOK, Broke
  <2>5. QED
    BY <1>1, <1>2, <2>1, <2>2, <2>4, BreakersStay, CallerGoes
<1>4. CASE ~ (chained /\ ~ Started(c))
  <2>1. PICK k \in {"bad", "rejected"} : Goto(c, k) /\ (k = "rejected" => chained) /\ Give(c, "error")
    BY <1>4 DEF StreamBreaks
  <2>2. k \in Doings
    BY DEF Doings
  <2>3. QED
    BY <2>1, <2>2, <1>1, IsGiven DEF StreamBreaks
<1>5. QED
  BY <1>3, <1>4

LEMMA SucceedKeeps == ASSUME FallInv, NEW c \in Callers, Succeed(c) PROVE FallInv'
<1>1. CallerOK(c) /\ trying[c] \in Chain /\ doing[c] \in {"good", "first", "rejected"}
  BY DEF FallInv, CallerOK, Succeed
<1>2. PICK k \in {"stream", "raised", "answered", "log"} :
          Goto(c, k) /\ (k \in {"answered", "log"} => doing[c] = "good")
  BY <1>1 DEF Succeed
<1>3. k \in Doings
  BY DEF Doings
<1>4. breaker' \in [Chain -> AnyBreaker] /\ BreakersFull'
  BY <1>1, Succeeded DEF Succeed
<1>5. tries' \in [Callers -> Nat]
  BY DEF Succeed, FallInv, FallShapes
<1>6. ~ chained /\ k \in {"good", "log", "answered"} => Given(c) /\ LastItem(c).what \in {"answer", "end"}
  BY <1>1, <1>2 DEF CallerOK
<1>7. QED
  BY <1>1, <1>2, <1>3, <1>4, <1>5, <1>6, CallerGoes DEF Succeed

LEMMA FailOverKeeps == ASSUME FallInv, NEW c \in Callers, FailOver(c) PROVE FallInv'
<1>1. CallerOK(c) /\ trying[c] \in Chain /\ doing[c] = "bad"
  BY DEF FallInv, CallerOK, FailOver
<1>2. breaker' \in [Chain -> AnyBreaker] /\ BreakersFull'
  BY <1>1, Failed DEF FailOver
<1>3. CASE chained
  BY <1>1, <1>2, <1>3, NextIsFine DEF FailOver
<1>4. CASE ~ chained
  <2>1. "log failure" \in Doings
    BY DEF Doings
  <2>2. tries' \in [Callers -> Nat] /\ Goto(c, "log failure") /\ UNCHANGED <<chained, second, trying, received, logFailed>>
    BY <1>4 DEF FailOver, FallInv, FallShapes
  <2>3. c \in Streaming \ logFailed => Broke(c)
    BY <1>1 DEF CallerOK
  <2>4. QED
    BY <1>1, <1>2, <2>1, <2>2, <2>3, CallerGoes
<1>5. QED
  BY <1>3, <1>4

LEMMA LogsKeep == ASSUME FallInv, NEW c \in Callers, LogUsage(c) \/ LogFailure(c) \/ Cancel(c) PROVE FallInv'
<1>1. CallerOK(c) /\ trying[c] \in Chain
  BY DEF FallInv, CallerOK, LogUsage, LogFailure, Cancel, Answered
<1>2. tries \in [Callers -> Nat] /\ {"answered", "bad", "raised"} \subseteq Doings
  BY DEF FallInv, FallShapes, Doings
<1>3. CASE LogUsage(c)
  <2>1. CASE Goto(c, "answered") /\ UNCHANGED logFailed
    <3>1. ~ chained => Given(c) /\ LastItem(c).what \in {"answer", "end"}
      BY <1>1, <1>3 DEF CallerOK, LogUsage
    <3>2. QED
      BY <1>1, <1>2, <1>3, <2>1, <3>1, BreakersStay, CallerGoes DEF LogUsage
  <2>2. CASE Goto(c, "bad") /\ logFailed' = logFailed \cup {c}
    BY <1>1, <1>2, <1>3, <2>2, BreakersStay, CallerGoes DEF LogUsage
  <2>3. QED
    BY <1>3, <2>1, <2>2 DEF LogUsage
<1>4. CASE LogFailure(c)
  <2>1. CASE GoNext(c)
    BY <1>4, <2>1, BreakersStay, NextIsFine DEF LogFailure
  <2>2. CASE Goto(c, "raised") /\ UNCHANGED <<trying, tries>>
    BY <1>1, <1>2, <1>4, <2>2, BreakersStay, CallerGoes DEF LogFailure
  <2>3. QED
    BY <1>4, <2>1, <2>2 DEF LogFailure
<1>5. CASE Cancel(c)
  BY <1>1, <1>2, <1>5, BreakersStay, CallerGoes DEF Cancel
<1>6. QED
  BY <1>3, <1>4, <1>5

LEMMA FallNextInv == FallInv /\ [FallbackNext]_fallbackVars => FallInv'
<1> SUFFICES ASSUME FallInv, [FallbackNext]_fallbackVars PROVE FallInv'
  OBVIOUS
<1>1. CASE UNCHANGED <<chained, breaker, doing, trying, tries, received, logFailed, overdue>> /\ second' \in Nat
  <2>1. FallShapes' /\ BreakersFull'
    BY <1>1, BreakersStay DEF FallInv, FallShapes
  <2>2. \A c \in Callers : CallerOK(c)'
    BY <1>1 DEF FallInv, CallerOK, Given, LastItem, Broke
  <2>3. QED
    BY <2>1, <2>2 DEF FallInv
<1>2. CASE SecondPasses
  BY <1>1, <1>2 DEF SecondPasses, FallInv, FallShapes
<1>3. CASE UNCHANGED fallbackVars
  BY <1>1, <1>3 DEF fallbackVars, FallInv, FallShapes
<1>4. ASSUME NEW c \in Callers,
             \/ BeginChain(c) \/ Ask(c) \/ Respond(c) \/ Timeout(c)
             \/ StreamText(c) \/ StreamEnds(c) \/ StreamBreaks(c)
             \/ Succeed(c) \/ FailOver(c) \/ LogUsage(c) \/ LogFailure(c) \/ Cancel(c)
      PROVE  FallInv'
  BY <1>4, BeginChainKeeps, AskKeeps, RespondKeeps, TimeoutKeeps, StreamTextKeeps, StreamEndsKeeps,
     StreamBreaksKeeps, SucceedKeeps, FailOverKeeps, LogsKeep
<1>5. QED
  BY <1>2, <1>3, <1>4 DEF FallbackNext

-----------------------------------------------------------------------------
(* Types *)

(***************************************************************************)
(* The types that the invariants leave out: what the manager and the       *)
(* scheduler keep for themselves, within their bounds.                     *)
(***************************************************************************)
LifeRest ==
    /\ phase \in {"off", "starting", "on", "stopping", "abandoned"}
    /\ stopFailed \subseteq 1 .. ServiceCount - 1
    /\ taskOf \in [Jobs -> 0 .. LastTask]
    /\ Len(tasks) <= LastTask
    /\ gathers \subseteq SUBSET (1 .. LastTask)
    /\ awaited \subseteq 1 .. LastTask
    /\ freely \in BOOLEAN

LEMMA LifeRestInit == LifeInit => LifeRest
<1> SUFFICES ASSUME LifeInit PROVE LifeRest
  OBVIOUS
<1>1. 0 \in 0 .. LastTask /\ Len(tasks) = 0 /\ LastTask >= 0
  BY LifeAssumption DEF LifeInit
<1>2. phase = "off" /\ stopFailed = {} /\ taskOf = [j \in Jobs |-> 0] /\ awaited = {} /\ gathers = {} /\ freely = FALSE
  BY DEF LifeInit
<1>3. taskOf \in [Jobs -> 0 .. LastTask]
  BY <1>1, <1>2
<1>4. Len(tasks) <= LastTask
  BY <1>1
<1> QED
  BY <1>2, <1>3, <1>4 DEF LifeRest

(***************************************************************************)
(* The manager stops the last service it started, and knows no others.     *)
(***************************************************************************)
LEMMA ManagerRest ==
    ASSUME ManagerInv, LifeRest,
           StartAll \/ StartService \/ StartFails \/ StopAll \/ StopService \/ Stopped \/ UNCHANGED managerVars
    PROVE  /\ phase' \in {"off", "starting", "on", "stopping", "abandoned"}
           /\ stopFailed' \subseteq 1 .. ServiceCount - 1
<1>1. CASE StopService
  <2>1. PICK k \in 0 .. ServiceCount : UpTo(k)
    BY DEF ManagerInv
  <2>2. k # 0 /\ k \in Nat /\ ServiceCount \in Nat
    <3>1. started # {} /\ k \in Nat /\ ServiceCount \in Nat
      BY <1>1, LifeAssumption DEF StopService
    <3>2. k # 0
      BY <2>1, <3>1 DEF UpTo
    <3> QED
      BY <3>1, <3>2
  <2>3. NextToStop = k
    BY <2>1, <2>2, StopsLast DEF UpTo
  <2>4. phase' = phase /\ (stopFailed' = stopFailed \/ (k # ServiceCount /\ stopFailed' = stopFailed \cup {k}))
    BY <1>1, <2>3 DEF StopService, Scheduler
  <2>5. k # ServiceCount => k \in 1 .. ServiceCount - 1
    BY <2>2
  <2> QED
    BY <2>4, <2>5 DEF LifeRest
<1>2. CASE ~ StopService
  <2>1. phase' \in {"off", "starting", "on", "stopping", "abandoned"}
    BY <1>2 DEF StartAll, StartService, StartFails, StopAll, Stopped, managerVars, LifeRest
  <2>2. stopFailed' \subseteq stopFailed
    BY <1>2 DEF StartAll, StartService, StartFails, StopAll, Stopped, managerVars
  <2> QED
    BY <2>1, <2>2 DEF LifeRest
<1> QED
  BY <1>1, <1>2

(***************************************************************************)
(* The places of the new tasks come after those of the old ones.           *)
(***************************************************************************)
LEMMA StartRest ==
    ASSUME SchedulerInv, LifeRest, SchedulerStarts
    PROVE  taskOf' \in [Jobs -> 0 .. LastTask] /\ Len(tasks') <= LastTask /\ gathers' = gathers
<1>1. CASE running
  BY <1>1 DEF SchedulerStarts, LifeRest
<1>2. CASE ~ running
  <2>1. PICK n \in Nat : n = Cardinality(listed)
    BY LifeAssumption, FS_Subset, FS_CardinalityType DEF SchedulerInv, TaskShapes
  <2>2. IsFiniteSet(listed)
    BY LifeAssumption, FS_Subset DEF SchedulerInv, TaskShapes
  <2>3. PICK order : order = CHOOSE f \in [1 .. Cardinality(listed) -> listed] :
                                 \A i, k \in DOMAIN f : i # k => f[i] # f[k]
    OBVIOUS
  <2>4. \E f \in [1 .. n -> listed] : \A i, k \in DOMAIN f : i # k => f[i] # f[k]
    <3>1. ExistsBijection(1 .. n, listed)
      BY <2>1, <2>2, FS_CardinalityType
    <3>2. PICK f \in Injection(1 .. n, listed) : TRUE
      BY <3>1 DEF ExistsBijection, Bijection
    <3>3. f \in [1 .. n -> listed] /\ \A a, b \in 1 .. n : f[a] = f[b] => a = b
      BY <3>2 DEF Injection, IsInjective
    <3> QED
      BY <3>3
  <2>5. order \in [1 .. n -> listed] /\ DOMAIN order = 1 .. n /\ (\A i, k \in 1 .. n : i # k => order[i] # order[k])
    BY <2>1, <2>3, <2>4
  <2>6. \A j \in listed : \E i \in 1 .. n : order[i] = j
    <3>0. order \in [1 .. n -> listed] /\ \A a, b \in 1 .. n : order[a] = order[b] => a = b
      BY <2>5
    <3>1. order \in Injection(1 .. n, listed)
      BY <3>0 DEF Injection, IsInjective
    <3>2. IsFiniteSet(1 .. n) /\ Cardinality(1 .. n) = n
      BY FS_Interval
    <3>3. order \in Surjection(1 .. n, listed)
      BY <2>1, <2>2, <3>1, <3>2, FS_Injection
    <3> QED
      BY <3>3 DEF Surjection
  <2> DEFINE more == [i \in 1 .. n |-> [job |-> order[i], doing |-> "handler"]]
             old == Len(tasks)
             place(j) == CHOOSE i \in 1 .. n : order[i] = j
  <2>7. tasks \in Seq(Task) /\ old \in Nat /\ LastTask \in Nat /\ old + n <= LastTask
    BY <2>1, LifeAssumption, LenProperties DEF SchedulerInv, TaskShapes, SchedulerStarts, Room
  <2>8. /\ tasks' = tasks \o more
        /\ taskOf' = [j \in Jobs |-> IF j \in listed THEN old + place(j) ELSE taskOf[j]]
        /\ gathers' = gathers
    <3>1. /\ tasks' = tasks \o [i \in DOMAIN order |-> [job |-> order[i], doing |-> "handler"]]
          /\ taskOf' = [j \in Jobs |->
                IF j \in listed THEN Len(tasks) + CHOOSE i \in DOMAIN order : order[i] = j ELSE taskOf[j]]
          /\ gathers' = gathers
      BY <1>2, <2>3, Zenon DEF SchedulerStarts
    <3> QED
      BY <2>5, <3>1
  <2>9. \A j \in listed : place(j) \in 1 .. n
    BY <2>6
  <2> HIDE DEF place
  <2>10. \A j \in listed : old + place(j) \in 0 .. LastTask
    <3> HIDE DEF old
    <3> QED
      BY <2>7, <2>9
  <2>11. taskOf' \in [Jobs -> 0 .. LastTask]
    BY <2>8, <2>10 DEF LifeRest
  <2>12. Len(tasks') <= LastTask
    <3>1. more \in Seq(Task) /\ Len(more) = n
      <4>1. \A i \in 1 .. n : [job |-> order[i], doing |-> "handler"] \in Task
        BY <2>5 DEF SchedulerInv, TaskShapes, Task
      <4>2. more \in [1 .. n -> Task]
        BY <4>1
      <4> HIDE DEF more
      <4> QED
        BY <4>2, LenProperties
    <3> HIDE DEF more
    <3>2. Len(tasks \o more) = Len(tasks) + Len(more)
      BY <2>7, <3>1
    <3> QED
      BY <2>7, <2>8, <3>1, <3>2
  <2> QED
    BY <2>8, <2>11, <2>12
<1> QED
  BY <1>1, <1>2

LEMMA CurrentRest == ASSUME SchedulerInv, LifeRest PROVE Current \subseteq 1 .. LastTask
<1>1. Len(tasks) \in Nat /\ Len(tasks) <= LastTask /\ LastTask \in Nat
  BY LifeAssumption, LenProperties DEF SchedulerInv, TaskShapes, LifeRest
<1>2. Living \subseteq 1 .. LastTask
  BY <1>1 DEF Living
<1> QED
  BY <1>2 DEF Current

LEMMA StopRest ==
    ASSUME SchedulerInv, LifeRest, SchedulerStops
    PROVE  taskOf' = taskOf /\ Len(tasks') <= LastTask /\ gathers' \subseteq SUBSET (1 .. LastTask)
<1>1. CASE running /\ Current # {}
  <2>1. gathers' = gathers \cup {Current} /\ tasks' = Cancelled(Current) /\ taskOf' = taskOf
    BY <1>1 DEF SchedulerStops
  <2>2. Len(tasks') = Len(tasks)
    BY <2>1, CancelledAre DEF SchedulerInv
  <2> QED
    BY <2>1, <2>2, CurrentRest DEF LifeRest
<1>2. CASE ~ (running /\ Current # {})
  BY <1>2 DEF SchedulerStops, LifeRest
<1> QED
  BY <1>1, <1>2

LEMMA OthersRest ==
    ASSUME SchedulerInv, LifeRest,
           \/ \E w \in gathers : Gathered(w)
           \/ \E t \in Living : Loop(t)
           \/ \E j \in Jobs : Unregister(j) \/ Register(j)
    PROVE  /\ taskOf' \in [Jobs -> 0 .. LastTask] /\ Len(tasks') <= LastTask
           /\ gathers' \subseteq gathers /\ awaited' \subseteq awaited
<1>1. 0 \in 0 .. LastTask
  BY LifeAssumption
<1> DEFINE Goal == /\ taskOf' \in [Jobs -> 0 .. LastTask] /\ Len(tasks') <= LastTask
                   /\ gathers' \subseteq gathers /\ awaited' \subseteq awaited
<1>2. ASSUME NEW w \in gathers, Gathered(w) PROVE Goal
  BY <1>1, <1>2 DEF Gathered, Forgets, LifeRest
<1>3. ASSUME NEW t \in Living, Loop(t) PROVE Goal
  <2>1. PICK to : tasks' = [tasks EXCEPT ![t].doing = to]
    BY <1>3 DEF Loop
  <2>2. tasks \in Seq(Task) /\ taskOf' = taskOf /\ awaited' = awaited /\ gathers' = gathers
    BY <1>3 DEF Loop, SchedulerInv, TaskShapes
  <2>3. Len(tasks') = Len(tasks)
    <3>1. DOMAIN tasks' = DOMAIN tasks
      BY <2>1
    <3>2. tasks' \in Seq({tasks'[i] : i \in DOMAIN tasks'})
      <4>1. DOMAIN tasks = 1 .. Len(tasks) /\ Len(tasks) \in Nat
        BY <2>2, LenProperties
      <4>2. tasks' = [i \in 1 .. Len(tasks) |-> tasks'[i]]
        BY <2>1, <4>1
      <4> QED
        BY <3>1, <4>1, <4>2
    <3> QED
      BY <2>2, <3>1, <3>2, LenProperties
  <2> QED
    BY <2>2, <2>3 DEF LifeRest
<1>4. ASSUME NEW j \in Jobs, Unregister(j) PROVE Goal
  <2>1. tasks' = Cancelled({taskOf[j]} \cap Living) /\ taskOf' = taskOf /\ awaited' = awaited /\ gathers' = gathers
    BY <1>4 DEF Unregister
  <2>2. Len(tasks') = Len(tasks)
    BY <2>1, CancelledAre DEF SchedulerInv
  <2> QED
    BY <2>1, <2>2 DEF LifeRest
<1>5. ASSUME NEW j \in Jobs, Register(j) PROVE Goal
  BY <1>1, <1>5 DEF Register, LifeRest
<1> QED
  BY <1>2, <1>3, <1>4, <1>5

LEMMA LifeRestNext == LifeInv /\ LifeRest /\ [LifeNext]_lifeVars => LifeRest'
<1> SUFFICES ASSUME LifeInv, LifeRest, [LifeNext]_lifeVars PROVE LifeRest'
  OBVIOUS
<1>1. ManagerInv /\ SchedulerInv
  BY DEF LifeInv
<1>2. /\ phase' \in {"off", "starting", "on", "stopping", "abandoned"}
      /\ stopFailed' \subseteq 1 .. ServiceCount - 1
  <2>1. StartAll \/ StartService \/ StartFails \/ StopAll \/ StopService \/ Stopped \/ UNCHANGED managerVars
    BY DEF LifeNext, lifeVars, managerVars, ApplicationCalls
  <2> QED
    BY <1>1, <2>1, ManagerRest
<1>3. \/ UNCHANGED schedulerVars \/ SchedulerStarts \/ SchedulerStops \/ (\E w \in gathers : Gathered(w))
      \/ (\E t \in Living : Loop(t)) \/ (\E j \in Jobs : Unregister(j) \/ Register(j))
  BY DEF LifeNext, lifeVars, schedulerVars, StartAll, StartService, StartFails, StopAll, StopService, Stopped,
     ApplicationCalls
<1>4. taskOf' \in [Jobs -> 0 .. LastTask] /\ Len(tasks') <= LastTask /\ gathers' \subseteq SUBSET (1 .. LastTask)
  <2>1. CASE UNCHANGED schedulerVars
    BY <2>1 DEF schedulerVars, LifeRest
  <2>2. CASE SchedulerStarts
    BY <1>1, <2>2, StartRest DEF LifeRest
  <2>3. CASE SchedulerStops
    BY <1>1, <2>3, StopRest DEF LifeRest
  <2>4. CASE \/ \E w \in gathers : Gathered(w)
             \/ \E t \in Living : Loop(t)
             \/ \E j \in Jobs : Unregister(j) \/ Register(j)
    BY <1>1, <2>4, OthersRest DEF LifeRest
  <2> QED
    BY <1>3, <2>1, <2>2, <2>3, <2>4
<1>5. awaited' \subseteq 1 .. LastTask /\ freely' \in BOOLEAN
  <2>1. CASE \E w \in gathers : Gathered(w)
    <3>1. PICK w \in gathers : Gathered(w)
      BY <2>1
    <3>2. awaited' \subseteq awaited
      BY <3>1 DEF Gathered, Forgets
    <3>3. freely' \in {freely, TRUE}
      BY DEF LifeNext, lifeVars, StartAll, StartService, StartFails, StopAll, StopService, Stopped, ApplicationCalls
    <3> QED
      BY <3>2, <3>3 DEF LifeRest
  <2>2. CASE ~ \E w \in gathers : Gathered(w)
    <3>1. awaited' \in {awaited, Current, {}} /\ freely' \in {freely, TRUE}
      BY <2>2 DEF LifeNext, lifeVars, StartAll, StartService, StartFails, StopAll, StopService, Stopped,
         ApplicationCalls, Loop, Unregister, Register
    <3> QED
      BY <1>1, <3>1, CurrentRest DEF LifeRest
  <2> QED
    BY <2>1, <2>2
<1> QED
  BY <1>2, <1>4, <1>5 DEF LifeRest

LEMMA LifeTyped == LifeInv /\ LifeRest => LifeTypeOK
<1> SUFFICES ASSUME LifeInv, LifeRest PROVE LifeTypeOK
  OBVIOUS
<1>1. started \subseteq 1 .. ServiceCount /\ on \subseteq 1 .. ServiceCount - 1
  <2>1. PICK k \in 0 .. ServiceCount : UpTo(k)
    BY DEF LifeInv, ManagerInv
  <2>2. started = 1 .. k /\ k \in Nat /\ k <= ServiceCount /\ ServiceCount \in Nat
    BY <2>1, LifeAssumption DEF UpTo
  <2>3. 1 .. k \subseteq 1 .. ServiceCount
    BY <2>2
  <2> QED
    BY <2>2, <2>3 DEF LifeInv, ManagerInv
<1>2. TaskShapes
  BY DEF LifeInv, SchedulerInv
<1>3. \A t \in 1 .. Len(tasks) : tasks[t] \in Task
  BY <1>2, LenProperties, ElementOfSeq DEF TaskShapes
<1>4. lost \subseteq 1 .. LastTask
  <2>1. Len(tasks) \in Nat /\ Len(tasks) <= LastTask /\ LastTask \in Nat /\ lost \subseteq 1 .. Len(tasks)
    BY <1>2, LifeAssumption, LenProperties DEF TaskShapes, LifeRest
  <2> QED
    BY <2>1
<1>5. running \in BOOLEAN /\ mixed \in BOOLEAN /\ listed \subseteq Jobs
  BY <1>2 DEF TaskShapes
<1> QED
  BY <1>1, <1>3, <1>4, <1>5 DEF LifeRest, LifeTypeOK

LEMMA ContainerTyped == ContainerInv => ContainerTypeOK
<1> SUFFICES ASSUME ContainerInv PROVE ContainerTypeOK
  OBVIOUS
<1>1. \A l \in Locks : (held[l].depth = 0) <=> (held[l].holder = Nobody)
  BY DEF ContainerInv, LockInv
<1>2. thread \in [Threads -> [goal: Services \cup {NoService}, frames: Seq(Frame), saved: Threads \cup {Base},
                             state: {"new", "making", "made", "raised", "closed"}]]
  BY DEF ContainerInv, ContShapes, ThreadState, ThreadStates
<1> QED
  BY <1>1, <1>2 DEF ContainerInv, ContShapes, ContainerTypeOK

(***************************************************************************)
(* Only a subscription that is on has messages to come.                    *)
(***************************************************************************)
BusRest ==
    /\ \A e \in Events : event[e].once \subseteq Once
    /\ bridge \in [Nodes -> {"off", "on", "broken", "deaf"}]
    /\ inbox \in [Nodes -> SUBSET Events]
    /\ \A p \in Nodes : inbox[p] # {} => bridge[p] = "on"

LEMMA BusRestInit == BusInit => BusRest
  BY DEF BusInit, BusRest

LEMMA BusRestNext == BusShapes /\ BusRest /\ [BusNext]_busVars => BusRest'
<1> SUFFICES ASSUME BusShapes, BusRest, [BusNext]_busVars PROVE BusRest'
  OBVIOUS
<1>1. CASE UNCHANGED busVars
  BY <1>1 DEF busVars, BusRest
<1>2. ASSUME NEW e \in Events, Dispatch(e) \/ ListenersDone(e) \/ ForgetOnce(e) PROVE BusRest'
  <2>1. bridge' = bridge /\ inbox' = inbox
    BY <1>2 DEF Dispatch, ListenersDone, ForgetOnce
  <2>2. \A f \in Events : event'[f].once = event[f].once
    BY <1>2 DEF Dispatch, ListenersDone, ForgetOnce, BusShapes, EventState
  <2> QED
    BY <2>1, <2>2 DEF BusRest
<1>3. ASSUME NEW e \in Events, NEW l \in Listeners, CallListener(e, l) \/ ListenerRaises(e, l) PROVE BusRest'
  <2>1. bridge' = bridge /\ inbox' = inbox
    BY <1>3 DEF CallListener, ListenerRaises
  <2>2. \A f \in Events : event'[f].once \subseteq event[f].once \cup Once
    BY <1>3 DEF CallListener, ListenerRaises, BusShapes, EventState
  <2> QED
    BY <2>1, <2>2 DEF BusRest
<1>4. ASSUME NEW e \in Events, Publish(e) PROVE BusRest'
  <2>1. bridge' = bridge /\ \A f \in Events : event'[f].once = event[f].once
    BY <1>4 DEF Publish, BusShapes, EventState
  <2>2. inbox' = inbox \/ inbox' = [p \in Nodes |-> IF p \in Subscribed THEN inbox[p] \cup {e} ELSE inbox[p]]
    BY <1>4 DEF Publish
  <2> QED
    BY <2>1, <2>2 DEF BusRest, Subscribed
<1>5. ASSUME NEW p \in Nodes, NEW l \in Listeners, Forget(p, l) PROVE BusRest'
  BY <1>5 DEF Forget, BusRest
<1>6. ASSUME NEW p \in Nodes, NEW e \in Events, HandleMessage(p, e) PROVE BusRest'
  BY <1>6 DEF HandleMessage, BusRest
<1>7. ASSUME NEW p \in Nodes, Start(p) \/ LoseConnection(p) \/ Resubscribe(p) \/ Stop(p) PROVE BusRest'
  BY <1>7 DEF Start, LoseConnection, Resubscribe, Stop, BusRest
<1> QED
  BY <1>1, <1>2, <1>3, <1>4, <1>5, <1>6, <1>7 DEF BusNext

LEMMA BusTyped == BusShapes /\ BusRest => BusTypeOK
<1> SUFFICES ASSUME BusShapes, BusRest PROVE BusTypeOK
  OBVIOUS
<1>1. event \in [Events -> [pc: {"new", "run", "forget", "publish", "done", "raised"},
                            all: SUBSET Listeners, todo: SUBSET Listeners,
                            once: SUBSET Once, stopped: BOOLEAN]]
  <2>1. event \in [Events -> EventState] /\ \A e \in Events : event[e].once \in SUBSET Once
    BY DEF BusShapes, BusRest
  <2> QED
    BY <2>1 DEF EventState
<1> QED
  BY <1>1 DEF BusShapes, BusRest, BusTypeOK

(***************************************************************************)
(* No failure is of the future, no provider is asked too often, and all    *)
(* that was received is of a provider in the chain.                        *)
(***************************************************************************)
FallRest ==
    /\ second <= LastSecond
    /\ \A p \in Chain : breaker[p].failedAt <= second
    /\ trying \in [Callers -> 1 .. Providers + 1]
    /\ \A c \in Callers : /\ tries[c] <= MaxRetries + 1
                          /\ doing[c] = "allow" => tries[c] <= MaxRetries
    /\ \A c \in Callers : \A i \in 1 .. Len(received[c]) : received[c][i].from \in Chain
    /\ logFailed \subseteq Callers
    /\ overdue \subseteq Chain

LEMMA FallRestInit == FallbackInit => FallRest
<1> SUFFICES ASSUME FallbackInit PROVE FallRest
  OBVIOUS
<1>1. 0 <= LastSecond /\ 0 <= MaxRetries + 1 /\ 0 <= MaxRetries /\ 1 \in 1 .. Providers + 1
  BY FallbackAssumption
<1>2. second = 0 /\ \A p \in Chain : breaker[p].failedAt = 0
  BY DEF FallbackInit
<1>3. trying \in [Callers -> 1 .. Providers + 1]
  BY <1>1 DEF FallbackInit
<1>4. \A c \in Callers : received[c] = <<>> /\ tries[c] = 0
  BY DEF FallbackInit
<1>5. logFailed = {} /\ overdue = {}
  BY DEF FallbackInit
<1>6. \A c \in Callers : \A i \in 1 .. Len(received[c]) : FALSE
  BY <1>4
<1> QED
  BY <1>1, <1>2, <1>3, <1>4, <1>5, <1>6 DEF FallRest

CallerMoves(c) ==
    \/ BeginChain(c) \/ Ask(c) \/ Respond(c) \/ Timeout(c)
    \/ StreamText(c) \/ StreamEnds(c) \/ StreamBreaks(c)
    \/ Succeed(c) \/ FailOver(c) \/ LogUsage(c) \/ LogFailure(c) \/ Cancel(c)

(***************************************************************************)
(* A caller that is at work is at a provider of the chain.                 *)
(***************************************************************************)
LEMMA TryingRest ==
    ASSUME FallInv, FallRest, NEW c \in Callers, CallerMoves(c)
    PROVE  trying' \in [Callers -> 1 .. Providers + 1]
<1>1. \/ trying' = trying
      \/ trying' = [trying EXCEPT ![c] = 1]
      \/ doing[c] \in {"allow", "bad", "log failure"} /\ trying' = [trying EXCEPT ![c] = @ + 1]
  BY DEF CallerMoves, BeginChain, Ask, Respond, Timeout, StreamText, StreamEnds, StreamBreaks,
         Succeed, FailOver, LogUsage, LogFailure, Cancel, GoNext
<1>2. doing[c] \in {"allow", "bad", "log failure"} => trying[c] \in 1 .. Providers
  BY DEF FallInv, CallerOK, Chain
<1>3. \A n \in 1 .. Providers : n + 1 \in 1 .. Providers + 1
  BY FallbackAssumption
<1>4. 1 \in 1 .. Providers + 1
  BY FallbackAssumption
<1>5. trying \in [Callers -> 1 .. Providers + 1]
  BY DEF FallRest
<1> QED
  BY <1>1, <1>2, <1>3, <1>4, <1>5

(***************************************************************************)
(* A provider is called at most MaxRetries + 1 times.                      *)
(***************************************************************************)
LEMMA TriesRest ==
    ASSUME FallInv, FallRest, NEW c \in Callers, CallerMoves(c), NEW d \in Callers
    PROVE  /\ tries'[d] <= MaxRetries + 1
           /\ doing'[d] = "allow" => tries'[d] <= MaxRetries
<1>1. /\ tries \in [Callers -> Nat] /\ doing \in [Callers -> Doings] /\ MaxRetries \in Nat
      /\ tries[d] <= MaxRetries + 1 /\ (doing[d] = "allow" => tries[d] <= MaxRetries)
      /\ tries[c] \in Nat /\ (doing[c] = "allow" => tries[c] <= MaxRetries)
  BY FallbackAssumption DEF FallInv, FallShapes, FallRest
<1>2. \/ tries' = [tries EXCEPT ![c] = 0] /\ \E k \in Doings : doing' = [doing EXCEPT ![c] = k]
      \/ /\ doing[c] = "allow" /\ tries' = [tries EXCEPT ![c] = @ + 1]
         /\ \E k \in Doings \ {"allow"} : doing' = [doing EXCEPT ![c] = k]
      \/ tries' = tries /\ \E k \in Doings : doing' = [doing EXCEPT ![c] = k] /\ (k = "allow" => ~ (tries[c] > MaxRetries))
  <2>1. CASE BeginChain(c)
    BY <2>1 DEF BeginChain, Goto, Doings
  <2>2. CASE Ask(c)
    BY <2>2 DEF Ask, GoNext, Goto, Doings
  <2>3. CASE Timeout(c)
    BY <2>3 DEF Timeout, Goto, Doings
  <2>4. CASE Respond(c)
    BY <2>4 DEF Respond, Goto, Doings
  <2>5. CASE StreamText(c) \/ StreamEnds(c) \/ StreamBreaks(c)
    BY <2>5 DEF StreamText, StreamEnds, StreamBreaks, Goto, Doings
  <2>6. CASE Succeed(c)
    <3>1. \E k \in {"stream", "raised", "answered", "log"} : doing' = [doing EXCEPT ![c] = k]
      BY <2>6 DEF Succeed, Goto
    <3> QED
      BY <2>6, <3>1 DEF Succeed, Doings
  <2>7. CASE FailOver(c) \/ LogFailure(c)
    BY <2>7 DEF FailOver, LogFailure, GoNext, Goto, Doings
  <2>8. CASE LogUsage(c) \/ Cancel(c)
    BY <2>8 DEF LogUsage, Cancel, Goto, Doings
  <2> QED
    BY <2>1, <2>2, <2>3, <2>4, <2>5, <2>6, <2>7, <2>8 DEF CallerMoves
<1>3. CASE d # c
  BY <1>1, <1>2, <1>3
<1>4. CASE d = c
  <2>1. PICK k \in Doings : doing' = [doing EXCEPT ![c] = k]
    BY <1>2
  <2>2. doing'[c] = k
    BY <1>1, <2>1
  <2>3. \/ tries'[c] = 0
        \/ k # "allow" /\ tries'[c] = tries[c] + 1 /\ tries[c] <= MaxRetries
        \/ tries'[c] = tries[c] /\ (k = "allow" => ~ (tries[c] > MaxRetries))
    BY <1>1, <1>2, <2>2
  <2> QED
    BY <1>1, <1>4, <2>2, <2>3
<1> QED
  BY <1>3, <1>4

LEMMA FromChain ==
    ASSUME NEW s \in Seq(AnyItem), NEW item \in AnyItem, item.from \in Chain,
           \A i \in 1 .. Len(s) : s[i].from \in Chain
    PROVE  \A i \in 1 .. Len(Append(s, item)) : Append(s, item)[i].from \in Chain
<1> DEFINE t == Append(s, item)
<1>1. Len(t) = Len(s) + 1 /\ t[Len(s) + 1] = item /\ \A i \in 1 .. Len(s) : t[i] = s[i]
  BY AppendProperties
<1>2. Len(s) \in Nat
  BY LenProperties
<1> HIDE DEF t
<1>3. ASSUME NEW i \in 1 .. Len(t) PROVE t[i].from \in Chain
  <2>1. i \in 1 .. Len(s) \/ i = Len(s) + 1
    BY <1>1, <1>2
  <2> QED
    BY <1>1, <2>1
<1> QED
  BY <1>3 DEF t

(***************************************************************************)
(* What a caller is given is from the provider it is at.                   *)
(***************************************************************************)
LEMMA ReceivedRest ==
    ASSUME FallInv, FallRest, NEW c \in Callers, CallerMoves(c), NEW d \in Callers
    PROVE  \A i \in 1 .. Len(received'[d]) : received'[d][i].from \in Chain
<1>0. Chain \subseteq Nat
  BY FallbackAssumption DEF Chain
<1>1. received \in [Callers -> Seq(AnyItem)] /\ \A i \in 1 .. Len(received[d]) : received[d][i].from \in Chain
  BY DEF FallInv, FallShapes, FallRest
<1>2. \/ received' = received
      \/ received' = [received EXCEPT ![c] = <<>>]
      \/ /\ trying[c] \in Chain
         /\ \E what \in {"answer", "error response", "text", "error", "end"} : Give(c, what)
  <2>1. doing[c] \in {"call", "stream"} => trying[c] \in Chain
    BY DEF FallInv, CallerOK
  <2>2. \/ received' = received
        \/ received' = [received EXCEPT ![c] = <<>>]
        \/ doing[c] \in {"call", "stream"} /\ \E what \in {"answer", "error response", "text", "error", "end"} : Give(c, what)
    BY DEF CallerMoves, BeginChain, Ask, Respond, Timeout, StreamText, StreamEnds, StreamBreaks,
           Succeed, FailOver, LogUsage, LogFailure, Cancel
  <2> QED
    BY <2>1, <2>2
<1>3. CASE received' = received \/ received' = [received EXCEPT ![c] = <<>>]
  <2>1. received'[d] = received[d] \/ received'[d] = <<>>
    BY <1>1, <1>3
  <2> QED
    BY <1>1, <2>1
<1>4. ASSUME trying[c] \in Chain, NEW what \in {"answer", "error response", "text", "error", "end"}, Give(c, what)
      PROVE  \A i \in 1 .. Len(received'[d]) : received'[d][i].from \in Chain
  <2> DEFINE item == [from |-> trying[c], what |-> what]
  <2>1. item \in AnyItem /\ item.from \in Chain
    BY <1>0, <1>4 DEF AnyItem
  <2>2. received' = [received EXCEPT ![c] =
            IF @ # <<>> /\ @[Len(@)] = item THEN @ ELSE Append(@, item)]
    BY <1>4, Zenon DEF Give
  <2> HIDE DEF item
  <2>3. received'[d] = received[d] \/ received'[d] = Append(received[d], item)
    BY <1>1, <2>2
  <2>4. received[d] \in Seq(AnyItem)
    BY <1>1
  <2>5. \A i \in 1 .. Len(Append(received[d], item)) : Append(received[d], item)[i].from \in Chain
    BY <1>1, <2>1, <2>4, FromChain
  <2> QED
    BY <1>1, <2>3, <2>5
<1> QED
  BY <1>2, <1>3, <1>4

(***************************************************************************)
(* A breaker notes the second of the failure.                              *)
(***************************************************************************)
LEMMA BreakersRest ==
    ASSUME FallInv, FallRest, NEW c \in Callers, CallerMoves(c)
    PROVE  /\ second' = second
           /\ \A p \in Chain : breaker'[p].failedAt <= second
           /\ overdue' \subseteq Chain /\ logFailed' \subseteq Callers
<1>1. breaker \in [Chain -> AnyBreaker] /\ second \in Nat /\ \A p \in Chain : breaker[p].failedAt <= second
  BY DEF FallInv, FallShapes, FallRest
<1>2. second' = second
  BY DEF CallerMoves, BeginChain, Ask, Respond, Timeout, StreamText, StreamEnds, StreamBreaks,
         Succeed, FailOver, LogUsage, LogFailure, Cancel
<1>3. logFailed' \subseteq Callers
  BY DEF CallerMoves, BeginChain, Ask, Respond, Timeout, StreamText, StreamEnds, StreamBreaks,
         Succeed, FailOver, LogUsage, LogFailure, Cancel, FallRest
<1>4. doing[c] \in {"allow", "good", "first", "rejected", "bad"} => trying[c] \in Chain
  BY DEF FallInv, CallerOK
<1>5. \/ breaker' = breaker /\ overdue' = overdue
      \/ doing[c] = "allow" /\ AllowRequest(trying[c]) /\ overdue' = overdue
      \/ doing[c] \in {"good", "first", "rejected"} /\ RecordSuccess(trying[c])
      \/ doing[c] = "bad" /\ RecordFailure(trying[c])
  BY Zenon DEF CallerMoves, BeginChain, Ask, Respond, Timeout, StreamText, StreamEnds, StreamBreaks,
         Succeed, FailOver, LogUsage, LogFailure, Cancel
<1>6. overdue' \subseteq Chain
  <2>1. overdue' = overdue \/ (trying[c] \in Chain /\ (overdue' = overdue \cup {trying[c]} \/ overdue' = overdue \ {trying[c]}))
    BY <1>4, <1>5 DEF RecordSuccess, RecordFailure
  <2> QED
    BY <2>1 DEF FallRest
<1>7. ASSUME NEW p \in Chain PROVE breaker'[p].failedAt <= second
  <2>1. CASE breaker' = breaker
    BY <1>1, <2>1
  <2>2. CASE doing[c] = "allow" /\ AllowRequest(trying[c])
    <3>1. breaker'[p].failedAt = breaker[p].failedAt
      BY <1>1, <1>4, <2>2 DEF AllowRequest, AnyBreaker
    <3> QED
      BY <1>1, <3>1
  <2>3. CASE RecordSuccess(trying[c])
    <3>1. breaker'[p].failedAt = breaker[p].failedAt
      BY <1>1, <1>4, <2>3 DEF RecordSuccess, AnyBreaker
    <3> QED
      BY <1>1, <3>1
  <2>4. CASE RecordFailure(trying[c])
    <3>1. breaker'[p].failedAt = breaker[p].failedAt \/ breaker'[p].failedAt = second
      BY <1>1, <2>4 DEF RecordFailure, AnyBreaker
    <3> QED
      BY <1>1, <3>1
  <2> QED
    BY <1>5, <2>1, <2>2, <2>3, <2>4
<1> QED
  BY <1>2, <1>3, <1>6, <1>7

LEMMA FallRestNext == FallInv /\ FallRest /\ [FallbackNext]_fallbackVars => FallRest'
<1> SUFFICES ASSUME FallInv, FallRest, [FallbackNext]_fallbackVars PROVE FallRest'
  OBVIOUS
<1>1. CASE UNCHANGED fallbackVars
  BY <1>1 DEF fallbackVars, FallRest
<1>2. CASE SecondPasses
  <2>1. second \in Nat /\ LastSecond \in Nat /\ \A p \in Chain : breaker[p].failedAt \in Nat
    BY FallbackAssumption DEF FallInv, FallShapes, AnyBreaker
  <2>2. second' <= LastSecond /\ \A p \in Chain : breaker'[p].failedAt <= second'
    BY <1>2, <2>1 DEF SecondPasses, FallRest
  <2> QED
    BY <1>2, <2>2 DEF SecondPasses, FallRest
<1>3. ASSUME NEW c \in Callers, CallerMoves(c) PROVE FallRest'
  <2>1. trying' \in [Callers -> 1 .. Providers + 1]
    BY <1>3, TryingRest
  <2>2. \A d \in Callers : tries'[d] <= MaxRetries + 1 /\ (doing'[d] = "allow" => tries'[d] <= MaxRetries)
    BY <1>3, TriesRest
  <2>3. \A d \in Callers : \A i \in 1 .. Len(received'[d]) : received'[d][i].from \in Chain
    BY <1>3, ReceivedRest
  <2>4. /\ second' = second
        /\ \A p \in Chain : breaker'[p].failedAt <= second
        /\ overdue' \subseteq Chain /\ logFailed' \subseteq Callers
    BY <1>3, BreakersRest
  <2> QED
    BY <2>1, <2>2, <2>3, <2>4 DEF FallRest
<1> QED
  BY <1>1, <1>2, <1>3 DEF FallbackNext, CallerMoves

LEMMA FallTyped == FallInv /\ FallRest => FallbackTypeOK
<1> SUFFICES ASSUME FallInv, FallRest PROVE FallbackTypeOK
  OBVIOUS
<1>1. second \in Nat /\ LastSecond \in Nat /\ MaxRetries \in Nat /\ second <= LastSecond
  BY FallbackAssumption DEF FallInv, FallShapes, FallRest
<1>2. breaker \in [Chain -> [state : {"closed", "open", "half_open"}, failures : Nat, failedAt : 0 .. LastSecond]]
  <2>1. breaker \in [Chain -> AnyBreaker] /\ \A p \in Chain : breaker[p].failedAt <= second
    BY DEF FallInv, FallShapes, FallRest
  <2>2. \A p \in Chain : breaker[p] \in [state : {"closed", "open", "half_open"}, failures : Nat, failedAt : 0 .. LastSecond]
    BY <1>1, <2>1 DEF AnyBreaker
  <2> QED
    BY <2>1, <2>2
<1>3. tries \in [Callers -> 0 .. MaxRetries + 1]
  <2>1. tries \in [Callers -> Nat] /\ \A c \in Callers : tries[c] <= MaxRetries + 1
    BY DEF FallInv, FallShapes, FallRest
  <2>2. \A c \in Callers : tries[c] \in 0 .. MaxRetries + 1
    BY <1>1, <2>1
  <2> QED
    BY <2>1, <2>2
<1>4. ASSUME NEW c \in Callers, NEW i \in 1 .. Len(received[c]) PROVE received[c][i] \in Item
  <2>1. received[c] \in Seq(AnyItem)
    BY DEF FallInv, FallShapes
  <2>2. received[c][i] \in AnyItem /\ received[c][i].from \in Chain
    BY <2>1, ElementOfSeq DEF FallRest
  <2> QED
    BY <2>2 DEF AnyItem, Item
<1>5. second \in 0 .. LastSecond
  BY <1>1
<1>6. chained \in BOOLEAN /\ doing \in [Callers -> {"idle", "allow", "call", "stream", "first", "good", "bad", "rejected",
                           "log", "log failure", "answered", "raised"}]
  BY DEF FallInv, FallShapes, Doings
<1> QED
  BY <1>2, <1>3, <1>4, <1>5, <1>6 DEF FallRest, FallbackTypeOK

-----------------------------------------------------------------------------
(* What holds of the components *)

(***************************************************************************)
(* Every listener registered when a dispatch begins is called by the end   *)
(* of it, unless one before it stopped the event; a listener for one       *)
(* occasion is called by one dispatch of its process, where dispatches do  *)
(* not overlap and none breaks off; and nothing is published twice         *)
(* (events/dispatcher.py).                                                 *)
(***************************************************************************)
THEOREM EventsAreSafe == BusSpec => []EventsSafe
<1>1. BusInv => EventsSafe
  BY BusInvSafe
<1>2. QED
  BY <1>1, BusInitInv, BusNextInv, PTL DEF BusSpec

(***************************************************************************)
(* No listener is called after one of lower priority has been.             *)
(***************************************************************************)
THEOREM PriorityKept == BusSpec => ByPriority
<1>1. BusInv /\ [BusNext]_busVars
      => [\A e \in Events : \A l \in called'[e] \ called[e], k \in called[e] : Priority[l] < Priority[k]]_busVars
  BY PriorityStep
<1>2. QED
  BY <1>1, BusInitInv, BusNextInv, PTL DEF BusSpec, ByPriority

(***************************************************************************)
(* A breaker that was open lets a caller try once and opens again when the *)
(* provider fails; a caller goes to the next provider for a reason it was  *)
(* given, and takes no provider's failure for an answer.                   *)
(***************************************************************************)
THEOREM FallbackIsSafe == FallbackSpec => []FallbackSafe
<1>1. FallInv => FallbackSafe
  BY FallInvSafe
<1>2. QED
  BY <1>1, FallInitInv, FallNextInv, PTL DEF FallbackSpec

(***************************************************************************)
(* A step of the whole is a step of one component, or of none.             *)
(***************************************************************************)
LEMMA EachSteps ==
    ASSUME [Next]_<<part, lifeVars, containerVars, busVars, cacheVars, recordVars,
                    listVars, unitVars, fallbackVars>>
    PROVE  /\ [LifeNext]_lifeVars
           /\ [ContainerNext]_containerVars
           /\ [BusNext]_busVars
           /\ [CacheNext]_cacheVars
           /\ [RecordNext]_recordVars
           /\ [ListNext]_listVars
           /\ [UnitNext]_unitVars
           /\ [FallbackNext]_fallbackVars
  BY DEF Next, LifePart, ContainerPart, BusPart, CachePart, RecordPart, ListPart, UnitPart,
         FallbackPart

(***************************************************************************)
(* A service runs only while those it was started after do, but for one    *)
(* whose stop() raised. The services below the scheduler run as long as    *)
(* one of its tasks does, where the manager alone starts and stops the     *)
(* scheduler, and but for a task that unregister() cancelled. When the     *)
(* scheduler has stopped no task is left but such a one, and a job has one *)
(* loop, where no start() ran during a stop() (swx_core/lifecycle.py,      *)
(* swx_core/background.py). A singleton is built once, the container is    *)
(* left as it was found, and a request that no other overlaps gets scoped  *)
(* instances of its own (container/container.py).                          *)
(***************************************************************************)
THEOREM ProcessKept == Spec => []ProcessSafe
<1>1. Init => LifeInv /\ ContainerInv
  BY LifeInitInv, ContainerInitInv DEF Init
<1>2. /\ LifeInv /\ ContainerInv
      /\ [Next]_<<part, lifeVars, containerVars, busVars, cacheVars, recordVars,
                  listVars, unitVars, fallbackVars>>
      => LifeInv' /\ ContainerInv'
  BY EachSteps, LifeNextInv, ContainerNextInv
<1>3. LifeInv /\ ContainerInv => ProcessSafe
  BY LifeInvSafe, ContainerInvSafe DEF ProcessSafe
<1>4. QED
  BY <1>1, <1>2, <1>3, PTL DEF Spec
=============================================================================
