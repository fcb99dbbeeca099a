---------------------------- MODULE StripeEvents ----------------------------
(***************************************************************************)
(* Repeated deliveries of one Stripe event (webhooks/stripe_webhook.py,    *)
(* services/webhook_idempotency_service.py,                                *)
(* repositories/inbound_webhook_delivery_repository.py).  A handler with a *)
(* session factory records the event in a table, with a commit, and in     *)
(* Redis if it has that, before it processes the event.  The one that      *)
(* get_webhook_handler builds has no session factory: it has Redis alone,  *)
(* or nothing.                                                             *)
(***************************************************************************)
EXTENDS Integers, FiniteSets

CONSTANT Deliveries    \* deliveries of one Stripe event

VARIABLES
    keeping,        \* where the handler keeps events: "table", "redis", both or neither
    eventAge,       \* of the event: "new", "old" (past the replay window), "past" (the retention)
    keyed,          \* there is a key of the event in Redis
    recorded,       \* rows of the event in swx_inbound_webhook_delivery
    processed,      \* how often the event was processed
    delivering,     \* delivering[d]: where a delivery is
    hasty           \* history: two deliveries looked for the event at once

eventVars == <<keeping, eventAge, keyed, recorded, processed, delivering, hasty>>

EventTypeOK ==
    /\ keeping \subseteq {"table", "redis"}
    /\ eventAge \in {"new", "old", "past"}
    /\ keyed \in BOOLEAN
    /\ recorded \in Nat
    /\ processed \in Nat
    /\ delivering \in [Deliveries -> {"new", "record", "key", "process", "done", "duplicate", "failed"}]
    /\ hasty \in BOOLEAN

EventInit ==
    /\ keeping \in SUBSET {"table", "redis"}
    /\ eventAge = "new"
    /\ keyed = FALSE
    /\ recorded = 0
    /\ processed = 0
    /\ delivering = [d \in Deliveries |-> "new"]
    /\ hasty = FALSE

Moves(d, label) == delivering' = [delivering EXCEPT ![d] = label]

(* What a new event is noted in first. *)
FirstNote ==
    IF "table" \in keeping THEN "record" ELSE IF "redis" \in keeping THEN "key" ELSE "process"

Known == ("table" \in keeping /\ recorded > 0) \/ ("redis" \in keeping /\ keyed)

(***************************************************************************)
(* The key in Redis or a row makes the delivery a duplicate.               *)
(***************************************************************************)
CheckEvent(d) ==
    /\ delivering[d] = "new"
    /\ Moves(d, IF Known THEN "duplicate" ELSE FirstNote)
    /\ hasty' = (hasty \/ \E e \in Deliveries : delivering[e] = FirstNote)
    /\ UNCHANGED <<keeping, eventAge, keyed, recorded, processed>>

(* Mutant: the event is not recorded. *)
RecordEvent_Forgets(d) ==
    /\ delivering[d] = "record"
    /\ Moves(d, IF "redis" \in keeping THEN "key" ELSE "process")
    /\ UNCHANGED <<keeping, eventAge, keyed, recorded, processed, hasty>>

RecordEvent(d) ==
    /\ delivering[d] = "record"
    /\ recorded' = recorded + 1
    /\ Moves(d, IF "redis" \in keeping THEN "key" ELSE "process")
    /\ UNCHANGED <<keeping, eventAge, keyed, processed, hasty>>

SetKey(d) ==
    /\ delivering[d] = "key"
    /\ keyed' = TRUE
    /\ Moves(d, "process")
    /\ UNCHANGED <<keeping, eventAge, recorded, processed, hasty>>

(* Mutant: the replay window is not looked at. *)
ProcessEvent_AnyAge(d) ==
    /\ delivering[d] = "process"
    /\ \/ Moves(d, "done") /\ processed' = processed + 1
       \/ Moves(d, "failed") /\ UNCHANGED processed
    /\ UNCHANGED <<keeping, eventAge, keyed, recorded, hasty>>

(***************************************************************************)
(* An old event is ignored; another is synchronised or enqueued, or an     *)
(* error keeps it from that and is answered like a success; and so is an   *)
(* event that is to be synchronised where there is no session factory.     *)
(***************************************************************************)
ProcessEvent(d) ==
    /\ delivering[d] = "process"
    /\ \/ eventAge = "new" /\ Moves(d, "done") /\ processed' = processed + 1
       \/ Moves(d, "failed") /\ UNCHANGED processed
    /\ UNCHANGED <<keeping, eventAge, keyed, recorded, hasty>>

(***************************************************************************)
(* The insert or Redis fails, or the process dies.                         *)
(***************************************************************************)
DeliveryDies(d) ==
    /\ delivering[d] \in {"record", "key", "process"}
    /\ Moves(d, "failed")
    /\ UNCHANGED <<keeping, eventAge, keyed, recorded, processed, hasty>>

(***************************************************************************)
(* Time passes: the key expires after a week, which is longer than the     *)
(* replay window, and cleanup_expired deletes rows past the retention.     *)
(***************************************************************************)
EventAges ==
    /\ eventAge # "past"
    /\ eventAge' = IF eventAge = "new" THEN "old" ELSE "past"
    /\ UNCHANGED <<keeping, keyed, recorded, processed, delivering, hasty>>

KeyExpires ==
    /\ keyed /\ eventAge # "new"
    /\ keyed' = FALSE
    /\ UNCHANGED <<keeping, eventAge, recorded, processed, delivering, hasty>>

CleanupExpired ==
    /\ recorded > 0 /\ eventAge = "past"
    /\ recorded' = 0
    /\ UNCHANGED <<keeping, eventAge, keyed, processed, delivering, hasty>>

EventNext ==
    \/ \E d \in Deliveries :
        CheckEvent(d) \/ RecordEvent(d) \/ SetKey(d) \/ ProcessEvent(d) \/ DeliveryDies(d)
    \/ EventAges \/ KeyExpires \/ CleanupExpired

EventSpec == EventInit /\ [][EventNext]_eventVars

-----------------------------------------------------------------------------

(***************************************************************************)
(* A handler that keeps its events anywhere processes one once, for as     *)
(* long as Stripe delivers it, though the key and the row may go before    *)
(* the last delivery; unless two deliveries looked for the event at once,  *)
(* since the index on the row is not unique and the key is not set if it   *)
(* is missing, but looked for and then set.  A handler without session     *)
(* factory and Redis promises nothing.                                     *)
(***************************************************************************)
EventOnce == (keeping # {} /\ ~ hasty) => processed <= 1
=============================================================================
