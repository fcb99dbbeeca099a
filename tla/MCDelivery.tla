----------------------------- MODULE MCDelivery -----------------------------
(***************************************************************************)
(* Instances of AuditQueue and Webhooks for TLC.  The two share no state:  *)
(* a behaviour runs the one that part names.                               *)
(***************************************************************************)
EXTENDS AuditQueue, Webhooks

CONSTANTS drain, request

VARIABLE part

TwoWriters == {drain, request}

all == <<part, queueVars, hookVars>>

Init ==
    /\ part \in {"audit", "webhooks"}
    /\ QueueInit
    /\ HookInit

AuditPart == part = "audit" /\ QueueNext /\ UNCHANGED <<part, hookVars>>
HookPart == part = "webhooks" /\ HookNext /\ UNCHANGED <<part, queueVars>>

Next == AuditPart \/ HookPart

(***************************************************************************)
(* The fairness of FairQueueSpec and HookSpec: the part that does not run  *)
(* has no step of its own enabled.                                         *)
(***************************************************************************)
Spec == Init /\ [][Next]_all /\ QueueFairness /\ HookFairness

(***************************************************************************)
(* The types of both components.                                           *)
(***************************************************************************)
DeliveryTypes ==
    /\ QueueTypeOK
    /\ HookTypeOK

(***************************************************************************)
(* Nothing that was handed on is left lying: an event leaves the queue, a  *)
(* delivery ends delivered or failed or waits as a retry that is due, and  *)
(* ends if due retries are processed.                                      *)
(***************************************************************************)
Settles ==
    /\ EventsLeave
    /\ DeliveriesSettle

(***************************************************************************)
(* What happens to an event in the queue, and how often an endpoint is     *)
(* called with a delivery.                                                 *)
(***************************************************************************)
DeliverySafe ==
    /\ QueueSafe
    /\ CallsBounded
=============================================================================
