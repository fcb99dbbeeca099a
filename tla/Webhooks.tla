------------------------------ MODULE Webhooks ------------------------------
(***************************************************************************)
(* The deliveries to one webhook endpoint (swx_core/services/webhook/      *)
(* webhook_dispatcher.py) behind its circuit breaker (CircuitBreaker of    *)
(* services/llm/resilience.py).                                            *)
(*                                                                         *)
(* A carrier is a session that has taken up one delivery: from a new event,*)
(* from the due retries, or because a user asked for it.  It reads the row *)
(* when it takes it up and writes it three times by id; a batch of due     *)
(* retries is as many carriers.  The breaker's methods are atomic, and the *)
(* events that tell what became of a delivery are dispatched without an    *)
(* exception.                                                              *)
(***************************************************************************)
EXTENDS Integers, FiniteSets

CONSTANTS
    Posts,          \* the deliveries
    Carriers,
    MaxRetries,     \* retry_count of the endpoint
    Threshold,      \* WEBHOOK_CIRCUIT_BREAKER_THRESHOLD
    MaxManual       \* bound: retries that users ask for

ASSUME WebhooksAssumption ==
    /\ Posts # {}
    /\ MaxRetries \in Nat
    /\ Threshold \in Nat \ {0}
    /\ MaxManual \in Nat

VARIABLES
    row,            \* row[d]: status, attempt_count, and whether next_retry_at is past
    active,         \* is_active of the endpoint
    state,          \* the breaker: "closed", "open", "half_open",
    failures,       \*   failure_count,
    cooled,         \*   and whether the recovery timeout is over
    carrier,        \* carrier[w]: where it is, with which delivery, read attempts, tries
    manual,         \* manual[d]: retries of d that users asked for
    doubled,        \* history: deliveries that two carriers had at once
    dropped,        \* history: deliveries whose carrier died
    posted          \* history: calls of the endpoint; 0 for a delivery in either of these

hookVars == <<row, active, state, failures, cooled, carrier, manual, doubled, dropped, posted>>

HookStatus == {"none", "pending", "retrying", "delivered", "failed"}

Settled == {"delivered", "failed"}

HookTypeOK ==
    /\ row \in [Posts -> [status: HookStatus, attempts: Nat, due: BOOLEAN]]
    /\ \A d \in Posts : row[d].due => row[d].status = "retrying"
    /\ active \in BOOLEAN
    /\ state \in {"closed", "open", "half_open"}
    /\ failures \in Nat
    /\ cooled \in BOOLEAN
    /\ carrier \in [Carriers -> [pc: {"idle", "count", "ask", "post", "good", "bad", "gone",
                                    "save", "retry", "close"},
                               post: Posts, attempts: Nat, tries: 0..1]]
    /\ manual \in [Posts -> 0..MaxManual]
    /\ doubled \subseteq Posts
    /\ dropped \subseteq Posts
    /\ posted \in [Posts -> Nat]

HookInit ==
    /\ row = [d \in Posts |-> [status |-> "none", attempts |-> 0, due |-> FALSE]]
    /\ active = TRUE
    /\ state = "closed"
    /\ failures = 0
    /\ cooled = FALSE
    /\ carrier \in [Carriers -> [pc: {"idle"}, post: {CHOOSE d \in Posts : TRUE}, attempts: {0}, tries: {0}]]
    /\ manual = [d \in Posts |-> 0]
    /\ doubled = {}
    /\ dropped = {}
    /\ posted = [d \in Posts |-> 0]

-----------------------------------------------------------------------------

WAt(w, label) == carrier[w].pc = label

WGoto(w, label) == carrier' = [carrier EXCEPT ![w].pc = label]

Vacant(w) == [carrier[w] EXCEPT !.pc = "idle", !.attempts = 0, !.tries = 0]

Has(w, d) == ~ WAt(w, "idle") /\ carrier[w].post = d

TakeUp(w, d) ==
    /\ WAt(w, "idle")
    /\ carrier' = [carrier EXCEPT ![w] = [pc |-> "count", post |-> d, attempts |-> row[d].attempts, tries |-> 0]]
    /\ IF \E x \in Carriers : Has(x, d)
       THEN doubled' = doubled \cup {d} /\ posted' = [posted EXCEPT ![d] = 0]
       ELSE UNCHANGED <<doubled, posted>>

-----------------------------------------------------------------------------
(* Who takes up a delivery *)

DispatchEvent(w, d) ==
    /\ active
    /\ row[d].status = "none"
    /\ row' = [row EXCEPT ![d].status = "pending"]
    /\ TakeUp(w, d)
    /\ UNCHANGED <<active, state, failures, cooled, manual, dropped>>

(***************************************************************************)
(* process_pending_retries: neither locked nor marked, so that another     *)
(* call can take it up as well.                                            *)
(***************************************************************************)
SelectDue(w, d) ==
    /\ row[d].due
    /\ TakeUp(w, d)
    /\ UNCHANGED <<row, active, state, failures, cooled, manual, dropped>>

FailInactive(w) ==
    /\ WAt(w, "count")
    /\ ~ active
    /\ row[carrier[w].post].status # "pending"
    /\ row' = [row EXCEPT ![carrier[w].post].status = "failed", ![carrier[w].post].due = FALSE]
    /\ carrier' = [carrier EXCEPT ![w] = Vacant(w)]
    /\ UNCHANGED <<active, state, failures, cooled, manual, doubled, dropped, posted>>

(* Mutant: the status is not looked at. *)
RetryDelivery_Any(w, d) ==
    /\ row[d].status # "none"
    /\ manual[d] < MaxManual
    /\ manual' = [manual EXCEPT ![d] = @ + 1]
    /\ TakeUp(w, d)
    /\ UNCHANGED <<row, active, state, failures, cooled, dropped>>

RetryDelivery(w, d) ==
    /\ row[d].status \in {"failed", "retrying"}
    /\ manual[d] < MaxManual
    /\ manual' = [manual EXCEPT ![d] = @ + 1]
    /\ TakeUp(w, d)
    /\ UNCHANGED <<row, active, state, failures, cooled, dropped>>

RetryDue(d) ==
    /\ row[d].status = "retrying"
    /\ ~ row[d].due
    /\ row' = [row EXCEPT ![d].due = TRUE]
    /\ UNCHANGED <<active, state, failures, cooled, carrier, manual, doubled, dropped, posted>>

Deactivate ==
    /\ active
    /\ active' = FALSE
    /\ UNCHANGED <<row, state, failures, cooled, carrier, manual, doubled, dropped, posted>>

-----------------------------------------------------------------------------
(* deliver_to_endpoint *)

(***************************************************************************)
(* attempt_count is one more than what was read.                           *)
(***************************************************************************)
CountAttempt(w) ==
    LET n == carrier[w].attempts + 1 IN
    /\ WAt(w, "count")
    /\ row' = [row EXCEPT ![carrier[w].post].attempts = n]
    /\ carrier' = [carrier EXCEPT ![w].pc = "ask", ![w].attempts = n]
    /\ UNCHANGED <<active, state, failures, cooled, manual, doubled, dropped, posted>>

(***************************************************************************)
(* allow_request.  An open breaker is a failed attempt like any other.     *)
(***************************************************************************)
AllowRequest(w) ==
    /\ WAt(w, "ask")
    /\ WGoto(w, IF state = "open" /\ ~ cooled THEN "bad" ELSE "post")
    /\ state' = IF state = "open" /\ cooled THEN "half_open" ELSE state
    /\ UNCHANGED <<row, active, failures, cooled, manual, doubled, dropped, posted>>

(***************************************************************************)
(* The answer: good, one to retry, one not to retry; or an exception,      *)
(* after which retry_with_backoff asks and posts once more.                *)
(***************************************************************************)
Answer(w) ==
    LET d == carrier[w].post IN
    /\ WAt(w, "post")
    /\ posted' = IF d \in doubled \cup dropped THEN posted ELSE [posted EXCEPT ![d] = @ + 1]
    /\ \/ \E label \in {"good", "bad", "gone"} : WGoto(w, label)
       \/ carrier[w].tries = 0 /\ carrier' = [carrier EXCEPT ![w].pc = "ask", ![w].tries = 1]
    /\ UNCHANGED <<row, active, state, failures, cooled, manual, doubled, dropped>>

RecordSuccess(w) ==
    /\ WAt(w, "good")
    /\ failures' = 0
    /\ state' = IF state = "half_open" THEN "closed" ELSE state
    /\ WGoto(w, "save")
    /\ UNCHANGED <<row, active, cooled, manual, doubled, dropped, posted>>

RecordFailure(w) ==
    /\ carrier[w].pc \in {"bad", "gone"}
    /\ failures' = failures + 1
    /\ cooled' = FALSE
    /\ state' = IF failures' >= Threshold THEN "open" ELSE state
    /\ WGoto(w, IF WAt(w, "bad") THEN "retry" ELSE "close")
    /\ UNCHANGED <<row, active, manual, doubled, dropped, posted>>

RecoveryTimeout ==
    /\ state = "open"
    /\ ~ cooled
    /\ cooled' = TRUE
    /\ UNCHANGED <<row, active, state, failures, carrier, manual, doubled, dropped, posted>>

(* Mutant: what was delivered waits for a retry. *)
Save_Due(w) ==
    /\ WAt(w, "save")
    /\ row' = [row EXCEPT ![carrier[w].post].status = "delivered"]
    /\ carrier' = [carrier EXCEPT ![w] = Vacant(w)]
    /\ UNCHANGED <<active, state, failures, cooled, manual, doubled, dropped, posted>>

Save(w) ==
    /\ WAt(w, "save")
    /\ row' = [row EXCEPT ![carrier[w].post].status = "delivered", ![carrier[w].post].due = FALSE]
    /\ carrier' = [carrier EXCEPT ![w] = Vacant(w)]
    /\ UNCHANGED <<active, state, failures, cooled, manual, doubled, dropped, posted>>

(* Mutant: one retry too many. *)
ScheduleRetry_OffByOne(w) ==
    LET again == WAt(w, "retry") /\ carrier[w].attempts <= MaxRetries IN
    /\ carrier[w].pc \in {"retry", "close"}
    /\ row' = [row EXCEPT ![carrier[w].post].status = IF again THEN "retrying" ELSE "failed",
                          ![carrier[w].post].due = FALSE]
    /\ carrier' = [carrier EXCEPT ![w] = Vacant(w)]
    /\ UNCHANGED <<active, state, failures, cooled, manual, doubled, dropped, posted>>

(* Mutant: a delivery to be retried is pending again. *)
ScheduleRetry_Pending(w) ==
    LET again == WAt(w, "retry") /\ carrier[w].attempts < MaxRetries IN
    /\ carrier[w].pc \in {"retry", "close"}
    /\ row' = [row EXCEPT ![carrier[w].post].status = IF again THEN "pending" ELSE "failed",
                          ![carrier[w].post].due = FALSE]
    /\ carrier' = [carrier EXCEPT ![w] = Vacant(w)]
    /\ UNCHANGED <<active, state, failures, cooled, manual, doubled, dropped, posted>>

ScheduleRetry(w) ==
    LET again == WAt(w, "retry") /\ carrier[w].attempts < MaxRetries IN
    /\ carrier[w].pc \in {"retry", "close"}
    /\ row' = [row EXCEPT ![carrier[w].post].status = IF again THEN "retrying" ELSE "failed",
                          ![carrier[w].post].due = FALSE]
    /\ carrier' = [carrier EXCEPT ![w] = Vacant(w)]
    /\ UNCHANGED <<active, state, failures, cooled, manual, doubled, dropped, posted>>

(***************************************************************************)
(* The process dies, or a write to the database raises; once for each      *)
(* delivery, which keeps the attempts finite.                              *)
(***************************************************************************)
CarrierDies(w) ==
    /\ ~ WAt(w, "idle")
    /\ carrier[w].post \notin dropped
    /\ carrier' = [carrier EXCEPT ![w] = Vacant(w)]
    /\ posted' = [posted EXCEPT ![carrier[w].post] = 0]
    /\ dropped' = dropped \cup {carrier[w].post}
    /\ UNCHANGED <<row, active, state, failures, cooled, manual, doubled>>

Deliver(w) ==
    \/ FailInactive(w)
    \/ CountAttempt(w)
    \/ AllowRequest(w)
    \/ Answer(w)
    \/ RecordSuccess(w)
    \/ RecordFailure(w)
    \/ Save(w)
    \/ ScheduleRetry(w)

HookNext ==
    \/ \E w \in Carriers, d \in Posts : DispatchEvent(w, d) \/ SelectDue(w, d) \/ RetryDelivery(w, d)
    \/ \E d \in Posts : RetryDue(d)
    \/ \E w \in Carriers : Deliver(w) \/ CarrierDies(w)
    \/ Deactivate
    \/ RecoveryTimeout

(***************************************************************************)
(* Sessions run on and time passes.  Nothing in the code calls             *)
(* process_pending_retries: that it is called is no part of the fairness.  *)
(***************************************************************************)
HookFairness ==
    /\ \A w \in Carriers : WF_hookVars(Deliver(w))
    /\ \A d \in Posts : WF_hookVars(RetryDue(d))

HookSpec == HookInit /\ [][HookNext]_hookVars /\ HookFairness

-----------------------------------------------------------------------------

(***************************************************************************)
(* A delivery is attempted at most retry_count times, and once more for    *)
(* each retry a user asks for; the endpoint is called at most twice for    *)
(* each, as retry_with_backoff repeats a call that raised.  Unless two     *)
(* carriers have the delivery at once or one dies with it.                 *)
(***************************************************************************)
CallsBounded ==
    \A d \in Posts \ (doubled \cup dropped) :
        LET most == (IF MaxRetries = 0 THEN 1 ELSE MaxRetries) + manual[d] IN
        /\ row[d].attempts <= most
        /\ posted[d] <= 2 * most

(***************************************************************************)
(* What was delivered stays so, unless two carriers had the delivery.      *)
(***************************************************************************)
DeliveredStays ==
    [][\A d \in Posts : row[d].status = "delivered" /\ row'[d].status # "delivered" => d \in doubled]_hookVars

(***************************************************************************)
(* A delivery does not hang: it ends delivered or failed, or waits as a    *)
(* retry that is due, unless its carrier died.  It ends delivered or       *)
(* failed in every behaviour in which the application keeps calling        *)
(* process_pending_retries.                                                *)
(***************************************************************************)
RetriesProcessed(d) == SF_hookVars(\E w \in Carriers : SelectDue(w, d))

DeliveriesSettle ==
    \A d \in Posts :
        /\ row[d].status # "none" ~> row[d].status \in Settled \/ row[d].due \/ d \in dropped
        /\ RetriesProcessed(d) =>
              (row[d].status # "none" ~> row[d].status \in Settled \/ d \in dropped)
=============================================================================
