----------------------------- MODULE AuditQueue -----------------------------
(***************************************************************************)
(* The audit event queue (swx_core/services/audit/audit_event_queue.py)    *)
(* in front of the audit trail.  Its drain worker takes a batch from the   *)
(* queue and calls log_event for one event after the other, on one         *)
(* session: the writer Drain.  The other writers are requests.             *)
(***************************************************************************)
EXTENDS AuditTrail

CONSTANTS
    Drain,              \* the worker's session
    MaxQueue,           \* _MAX_QUEUE_SIZE
    BatchSize,          \* _DRAIN_BATCH_SIZE
    MaxRetryCycles,     \* _MAX_RETRY_CYCLES
    MaxPuts             \* bound: calls of put

ASSUME QueueAssumption ==
    /\ Drain \in Writers
    /\ MaxQueue \in Nat \ {0}
    /\ BatchSize \in Nat \ {0}
    /\ MaxRetryCycles \in Nat
    /\ MaxPuts \in Nat

VARIABLES
    queue,      \* events in the order of put, numbered by it
    running,    \* _running
    worker,     \* the drain worker: off, taking a batch, or writing one
    batch,      \* what is left of the batch, the event at work first
    whole,      \* the batch as it was taken
    cycles,     \* _retry_cycles
    puts,       \* the calls of put so far
    written,    \* history: events the worker committed, in order
    flushBy,    \* history: the events put before stop was called last
    putBack     \* history: a batch was put back, or cut off

buffer == <<queue, running, worker, batch, whole, cycles, puts, written, flushBy, putBack>>
queueVars == <<trail, buffer>>

Events == 1..MaxPuts

QueueTypeOK ==
    /\ TrailTypeOK
    /\ queue \in Seq(Events) /\ Len(queue) <= MaxQueue
    /\ running \in BOOLEAN
    /\ worker \in {"off", "take", "write"}
    /\ batch \in Seq(Events)
    /\ whole \in Seq(Events) /\ Len(whole) <= BatchSize
    /\ cycles \in Nat
    /\ puts \in 0..MaxPuts
    /\ written \in Seq(Events)
    /\ flushBy \in 0..MaxPuts
    /\ putBack \in BOOLEAN

QueueInit ==
    /\ TrailInit
    /\ queue = <<>>
    /\ running = FALSE
    /\ worker = "off"
    /\ batch = <<>>
    /\ whole = <<>>
    /\ cycles = 0
    /\ puts = 0
    /\ written = <<>>
    /\ flushBy = 0
    /\ putBack = FALSE

Holds(q, e) == \E i \in DOMAIN q : q[i] = e

Room(q, events) == SubSeq(q \o events, 1, IF Len(q \o events) < MaxQueue THEN Len(q \o events) ELSE MaxQueue)

-----------------------------------------------------------------------------

Put ==
    /\ up
    /\ puts < MaxPuts
    /\ puts' = puts + 1
    /\ queue' = Room(queue, <<puts'>>)
    /\ UNCHANGED <<trail, running, worker, batch, whole, cycles, written, flushBy, putBack>>

StartQueue ==
    /\ up
    /\ ~ running
    /\ worker = "off"
    /\ running' = TRUE
    /\ worker' = "take"
    /\ UNCHANGED <<trail, queue, batch, whole, cycles, puts, written, flushBy, putBack>>

StopQueue ==
    /\ running
    /\ running' = FALSE
    /\ flushBy' = puts
    /\ UNCHANGED <<trail, queue, worker, batch, whole, cycles, puts, written, putBack>>

(***************************************************************************)
(* The timeout of stop cancels the worker wherever it is.                  *)
(***************************************************************************)
StopTimesOut ==
    /\ ~ running
    /\ worker # "off"
    /\ worker' = "off"
    /\ batch' = <<>>
    /\ whole' = <<>>
    /\ putBack' = TRUE
    /\ IF writer[Drain].pc = "idle" THEN UNCHANGED trail ELSE Cancel(Drain)
    /\ UNCHANGED <<queue, running, cycles, puts, written, flushBy>>

(* Mutant: the worker takes the newest event. *)
Take_Newest ==
    /\ worker = "take"
    /\ queue # <<>>
    /\ batch' = <<queue[Len(queue)]>>
    /\ queue' = SubSeq(queue, 1, Len(queue) - 1)
    /\ whole' = batch'
    /\ worker' = "write"
    /\ UNCHANGED <<trail, running, cycles, puts, written, flushBy, putBack>>

(* Mutant: a worker told to stop takes no more. *)
Take_Running ==
    /\ running
    /\ worker = "take"
    /\ queue # <<>>
    /\ LET n == IF Len(queue) < BatchSize THEN Len(queue) ELSE BatchSize IN
        /\ batch' = SubSeq(queue, 1, n)
        /\ queue' = SubSeq(queue, n + 1, Len(queue))
    /\ whole' = batch'
    /\ worker' = "write"
    /\ UNCHANGED <<trail, running, cycles, puts, written, flushBy, putBack>>

Take ==
    /\ worker = "take"
    /\ queue # <<>>
    /\ LET n == IF Len(queue) < BatchSize THEN Len(queue) ELSE BatchSize IN
        /\ batch' = SubSeq(queue, 1, n)
        /\ queue' = SubSeq(queue, n + 1, Len(queue))
    /\ whole' = batch'
    /\ worker' = "write"
    /\ UNCHANGED <<trail, running, cycles, puts, written, flushBy, putBack>>

(* Mutant: the worker ends as soon as it is told to. *)
WorkerEnds_AtOnce ==
    /\ worker = "take"
    /\ ~ running
    /\ worker' = "off"
    /\ UNCHANGED <<trail, queue, running, batch, whole, cycles, puts, written, flushBy, putBack>>

WorkerEnds ==
    /\ worker = "take"
    /\ queue = <<>>
    /\ ~ running
    /\ worker' = "off"
    /\ UNCHANGED <<trail, queue, running, batch, whole, cycles, puts, written, flushBy, putBack>>

LogNext ==
    /\ worker = "write"
    /\ batch # <<>>
    /\ Begin(Drain)
    /\ UNCHANGED buffer

(***************************************************************************)
(* log_event goes on, and returns the same whether it wrote the entry or   *)
(* swallowed an error.                                                     *)
(***************************************************************************)
LogGoesOn ==
    /\ worker = "write"
    /\ LogStep(Drain)
    /\ written' = IF writer'[Drain].pc = "idle" /\ writer[Drain].id \in DOMAIN hash'
                  THEN Append(written, Head(batch)) ELSE written
    /\ batch' = IF writer'[Drain].pc = "idle" THEN Tail(batch) ELSE batch
    /\ UNCHANGED <<queue, running, worker, whole, cycles, puts, flushBy, putBack>>

BatchDone ==
    /\ worker = "write"
    /\ batch = <<>>
    /\ worker' = "take"
    /\ whole' = <<>>
    /\ cycles' = 0
    /\ UNCHANGED <<trail, queue, running, batch, puts, written, flushBy, putBack>>

(***************************************************************************)
(* The rollback in log_event raises as well: the whole batch is put back   *)
(* behind what is queued by now, as far as there is room, or given up.     *)
(***************************************************************************)
BatchFails ==
    /\ worker = "write"
    /\ InsertFails(Drain)
    /\ cycles' = cycles + 1
    /\ queue' = IF cycles' <= MaxRetryCycles THEN Room(queue, whole) ELSE queue
    /\ putBack' = TRUE
    /\ worker' = "take"
    /\ batch' = <<>>
    /\ whole' = <<>>
    /\ UNCHANGED <<running, puts, written, flushBy>>

(***************************************************************************)
(* The process ends, and its memory with it.                               *)
(***************************************************************************)
Down ==
    /\ Crash \/ (Stop /\ ~ running /\ worker = "off")
    /\ queue' = <<>>
    /\ running' = FALSE
    /\ worker' = "off"
    /\ batch' = <<>>
    /\ whole' = <<>>
    /\ cycles' = 0
    /\ UNCHANGED <<puts, written, putBack>>
    /\ flushBy' = puts

Request ==
    \E w \in Writers \ {Drain} :
        \/ clock < MaxEntries /\ Begin(w)
        \/ LogStep(w)
        \/ Cancel(w)

Drains == Take \/ WorkerEnds \/ LogNext \/ LogGoesOn \/ BatchDone \/ BatchFails

QueueNext ==
    \/ Put
    \/ StartQueue
    \/ StopQueue
    \/ StopTimesOut
    \/ Drains
    \/ Down
    \/ (Request \/ Purge \/ Anonymize \/ Start) /\ UNCHANGED buffer

QueueSpec == QueueInit /\ [][QueueNext]_queueVars

(***************************************************************************)
(* The event loop runs the worker.                                         *)
(***************************************************************************)
QueueFairness == WF_queueVars(Drains)

FairQueueSpec == QueueSpec /\ QueueFairness

-----------------------------------------------------------------------------

(***************************************************************************)
(* Until a batch is put back or cut off, events are committed in the order *)
(* of put and none twice.                                                  *)
(***************************************************************************)
WrittenInOrder == ~ putBack => \A i \in 1..Len(written) - 1 : written[i] < written[i + 1]

(***************************************************************************)
(* When the worker ends by itself, nothing that was put before stop was    *)
(* called waits in the queue any more.                                     *)
(***************************************************************************)
FlushedAtStop ==
    (worker = "off" /\ ~ running /\ ~ putBack)
        => \A i \in DOMAIN queue : queue[i] > flushBy

(***************************************************************************)
(* What a caller of put relies on: order, and no silent loss at a clean    *)
(* stop.                                                                   *)
(***************************************************************************)
QueueSafe ==
    /\ WrittenInOrder
    /\ FlushedAtStop

(***************************************************************************)
(* An event in the queue of a running worker leaves it, or the worker ends.*)
(***************************************************************************)
EventsLeave ==
    \A e \in Events :
        (worker # "off" /\ Holds(queue, e)) ~> (worker = "off" \/ ~ Holds(queue \o whole, e))
=============================================================================
