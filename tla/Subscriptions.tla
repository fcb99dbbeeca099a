--------------------------- MODULE Subscriptions ---------------------------
(***************************************************************************)
(* The subscriptions of one billing account (swx_core/services/billing/    *)
(* subscription_service.py): rows created by users, payments and Stripe,   *)
(* edited by renewals, cancellations and Stripe.                           *)
(*                                                                         *)
(* Each call has a session of its own at READ COMMITTED.  Creating locks   *)
(* the live rows, so it waits for whoever holds them and then sees what    *)
(* they committed; rows that were inserted in the meantime it does not     *)
(* see.  Editing reads the row, and later writes it without a lock; the    *)
(* ORM writes the status only if it differs from the one that was read.    *)
(***************************************************************************)
EXTENDS Integers, FiniteSets

CONSTANTS
    Creates,        \* calls of create_subscription
    Trials,         \* those that are calls of create_trial_subscription
    StripeIds,      \* subscriptions known to Stripe, by stripe_subscription_id
    Syncs,          \* calls of sync_stripe_subscription
    Edits           \* calls that change the status of a row

ASSUME SubscriptionsAssumption ==
    /\ Trials \subseteq Creates
    /\ Creates \cap (StripeIds \cup Syncs \cup Edits) = {}
    /\ Syncs \cap Edits = {}

VARIABLES
    sub,            \* sub[r]: the status of row r, "none" if there is no row
    call,           \* call[c]: where the session is and what it has read
    overlapped,     \* history: two calls were creating at once
    revived,        \* history: a row that had ended was written live again
    ended           \* history: a live row was ended by an edit or by Stripe

subVars == <<sub, call, overlapped, revived, ended>>

(* A row that a call creates bears the name of the call. *)
Rows == Creates \cup StripeIds
SubCalls == Creates \cup Syncs \cup Edits

LiveStatus == {"active", "trialing", "past_due"}
TerminalStatus == {"canceled", "expired"}
SubStatus == LiveStatus \cup TerminalStatus \cup {"unpaid"}

Fresh == [pc |-> "new", row |-> "none", seen |-> "none", status |-> "none", held |-> {}]

SubTypeOK ==
    /\ sub \in [Rows -> SubStatus \cup {"none"}]
    /\ call \in [SubCalls -> [pc: {"new", "select", "lock", "insert", "save", "done", "failed"},
                              row: Rows \cup {"none"}, seen: SubStatus \cup {"none"},
                              status: SubStatus \cup {"none"}, held: SUBSET Rows]]
    /\ overlapped \in BOOLEAN
    /\ revived \in BOOLEAN
    /\ ended \in BOOLEAN
    /\ \A c, d \in SubCalls :
        (c # d /\ call[c].pc = "insert" /\ call[d].pc = "insert") => call[c].held \cap call[d].held = {}

SubInit ==
    /\ sub = [r \in Rows |-> "none"]
    /\ call = [c \in SubCalls |-> Fresh]
    /\ overlapped = FALSE
    /\ revived = FALSE
    /\ ended = FALSE

Live == {r \in Rows : sub[r] \in LiveStatus}

CAt(c, label) == call[c].pc = label

LockedByOthers(c) == UNION {call[d].held : d \in {x \in SubCalls \ {c} : CAt(x, "insert")}}

-----------------------------------------------------------------------------

ToCreate(c, row, status) ==
    call' = [call EXCEPT ![c] = [Fresh EXCEPT !.pc = "select", !.row = row, !.status = status]]

ToSave(c, row, status) ==
    call' = [call EXCEPT ![c] = [Fresh EXCEPT !.pc = "save", !.row = row, !.status = status,
                                              !.seen = sub[row]]]

CreateSubscription(c) ==
    /\ CAt(c, "new")
    /\ ToCreate(c, c, "active")
    /\ UNCHANGED <<sub, overlapped, revived, ended>>

SyncStripeSubscription(c) ==
    /\ CAt(c, "new")
    /\ \E s \in StripeIds, status \in SubStatus :
        CASE sub[s] # "none" -> ToSave(c, s, status)
          [] sub[s] = "none" /\ status \notin TerminalStatus -> ToCreate(c, s, status)
          [] OTHER -> call' = [call EXCEPT ![c].pc = "done"]
    /\ UNCHANGED <<sub, overlapped, revived, ended>>

(***************************************************************************)
(* enter_grace_period, retry_renewal, and expire_grace, an immediate       *)
(* cancel_subscription or Stripe's deletion.                               *)
(***************************************************************************)
LoadForEdit(c) ==
    /\ CAt(c, "new")
    /\ \E r \in Rows, status \in {"past_due", "active", "canceled"} :
        /\ sub[r] # "none"
        /\ ToSave(c, r, status)
    /\ UNCHANGED <<sub, overlapped, revived, ended>>

(***************************************************************************)
(* SELECT ... FOR UPDATE: the snapshot of the statement, and then, when    *)
(* nobody else has them locked, those of its rows that are still live.     *)
(***************************************************************************)
Select(c) ==
    /\ CAt(c, "select")
    /\ call' = [call EXCEPT ![c].pc = "lock", ![c].held = Live]
    /\ overlapped' = (overlapped \/ \E d \in SubCalls \ {c} : call[d].pc \in {"lock", "insert"})
    /\ UNCHANGED <<sub, revived, ended>>

Lock(c) ==
    /\ CAt(c, "lock")
    /\ call[c].held \cap LockedByOthers(c) = {}
    /\ call' = [call EXCEPT ![c].pc = "insert", ![c].held = @ \cap Live]
    /\ UNCHANGED <<sub, overlapped, revived, ended>>

Inserted(c) ==
    call' = [call EXCEPT ![c] = IF c \in Trials
                                THEN [Fresh EXCEPT !.pc = "save", !.row = c, !.seen = "active",
                                                   !.status = "trialing"]
                                ELSE [Fresh EXCEPT !.pc = "done"]]

(* Mutant: the new row is inserted beside the old ones. *)
Insert_Beside(c) ==
    /\ CAt(c, "insert")
    /\ sub[call[c].row] = "none"
    /\ sub' = [sub EXCEPT ![call[c].row] = call[c].status]
    /\ ended' = (ended \/ call[c].status = "unpaid")
    /\ Inserted(c)
    /\ UNCHANGED <<overlapped, revived>>

(***************************************************************************)
(* One commit ends the old rows and inserts the new one.                   *)
(***************************************************************************)
Insert(c) ==
    /\ CAt(c, "insert")
    /\ sub[call[c].row] = "none"
    /\ sub' = [r \in Rows |-> IF r = call[c].row THEN call[c].status
                              ELSE IF r \in call[c].held THEN "canceled" ELSE sub[r]]
    /\ ended' = (ended \/ call[c].status = "unpaid")
    /\ Inserted(c)
    /\ UNCHANGED <<overlapped, revived>>

(* Mutant: the old rows are ended although the insertion failed. *)
CreateFails_KeepsCancel(c) ==
    /\ call[c].pc \in {"select", "lock", "insert"}
    /\ sub' = [r \in Rows |-> IF CAt(c, "insert") /\ r \in call[c].held THEN "canceled" ELSE sub[r]]
    /\ call' = [call EXCEPT ![c] = [Fresh EXCEPT !.pc = "failed"]]
    /\ UNCHANGED <<overlapped, revived, ended>>

CreateFails(c) ==
    /\ call[c].pc \in {"select", "lock", "insert"}
    /\ call' = [call EXCEPT ![c] = [Fresh EXCEPT !.pc = "failed"]]
    /\ UNCHANGED <<sub, overlapped, revived, ended>>

Save(c) ==
    LET r == call[c].row
        status == IF call[c].seen = call[c].status THEN sub[r] ELSE call[c].status
    IN
    /\ CAt(c, "save")
    /\ r \notin LockedByOthers(c)
    /\ sub' = [sub EXCEPT ![r] = status]
    /\ revived' = (revived \/ (r \notin Live /\ status \in LiveStatus))
    /\ ended' = (ended \/ (r \in Live /\ status \notin LiveStatus))
    /\ call' = [call EXCEPT ![c] = [Fresh EXCEPT !.pc = "done"]]
    /\ UNCHANGED overlapped

SaveFails(c) ==
    /\ CAt(c, "save")
    /\ call' = [call EXCEPT ![c] = [Fresh EXCEPT !.pc = "failed"]]
    /\ UNCHANGED <<sub, overlapped, revived, ended>>

SubNext ==
    \/ \E c \in Creates : CreateSubscription(c)
    \/ \E c \in Syncs : SyncStripeSubscription(c)
    \/ \E c \in Edits : LoadForEdit(c)
    \/ \E c \in Creates \cup Syncs : Select(c) \/ Lock(c) \/ Insert(c) \/ CreateFails(c)
    \/ \E c \in SubCalls : Save(c) \/ SaveFails(c)

SubSpec == SubInit /\ [][SubNext]_subVars

-----------------------------------------------------------------------------

(***************************************************************************)
(* get_active_subscription raises MultipleResultsFound on two live rows.   *)
(* There is at most one unless two calls were creating at once or a row    *)
(* that had ended was written live again.                                  *)
(***************************************************************************)
OneLive == (~ overlapped /\ ~ revived) => Cardinality(Live) <= 1

(***************************************************************************)
(* Changing the plan never leaves the account without one, whatever fails: *)
(* once it has a row it has a live one until an edit or Stripe ends it.    *)
(***************************************************************************)
PlanSurvives == (~ ended /\ \E r \in Rows : sub[r] # "none") => Live # {}

(***************************************************************************)
(* An account with a plan has one live row: never two, and none is lost by *)
(* a change of plan that fails halfway.                                    *)
(***************************************************************************)
SubscriptionsSafe ==
    /\ OneLive
    /\ PlanSurvives
=============================================================================
