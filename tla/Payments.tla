------------------------------ MODULE Payments ------------------------------
(***************************************************************************)
(* Payments that come in twice: by the user's confirmation and by the      *)
(* provider's webhook (services/billing/payment_confirmation_service.py,   *)
(* webhooks/paystack_webhook.py and flutterwave_webhook.py).               *)
(*                                                                         *)
(* A payment is marked in Redis after it was applied.  A plan is applied   *)
(* by create_subscription, anything else by a ledger entry keyed with the  *)
(* reference.                                                              *)
(***************************************************************************)
EXTENDS Integers, FiniteSets

CONSTANTS
    References,     \* payments of one user
    Plans,          \* those whose reference says plan-...
    Attempts,       \* confirmations and webhook calls
    ReferenceOf     \* ReferenceOf[a]

ASSUME PaymentsAssumption ==
    /\ Plans \subseteq References
    /\ ReferenceOf \in [Attempts -> References]

VARIABLES
    marked,         \* references with a dedup key in Redis
    accounts,       \* the user's rows in swx_billing_account
    applied,        \* applied[r]: how often the payment had its effect
    at,             \* at[a]: where an attempt is
    crossed,        \* history: references tried again by an attempt that could not know
    rushed          \* history: two attempts looked for the account at once

payVars == <<marked, accounts, applied, at, crossed, rushed>>

PayTypeOK ==
    /\ marked \subseteq References
    /\ accounts \in Nat
    /\ applied \in [References -> Nat]
    /\ \A r \in References \ Plans : applied[r] <= 1
    /\ at \in [Attempts ->
                {"new", "account", "create", "apply", "mark", "done", "duplicate", "failed"}]
    /\ crossed \subseteq References
    /\ rushed \in BOOLEAN

PayInit ==
    /\ marked = {}
    /\ accounts = 0
    /\ applied = [r \in References |-> 0]
    /\ at = [a \in Attempts |-> "new"]
    /\ crossed = {}
    /\ rushed = FALSE

PGoto(a, label) == at' = [at EXCEPT ![a] = label]

Others(a) == {b \in Attempts \ {a} : at[b] \in {"account", "create", "apply", "mark"}}

-----------------------------------------------------------------------------
(* confirm_payment, PaystackWebhookHandler.handle and Flutterwave's *)

(* Mutant: the dedup key is not looked up. *)
CheckDedup_Skipped(a) ==
    LET r == ReferenceOf[a] IN
    /\ at[a] = "new"
    /\ PGoto(a, "account")
    /\ crossed' = IF \E b \in Others(a) : ReferenceOf[b] = r THEN crossed \cup {r} ELSE crossed
    /\ UNCHANGED <<marked, accounts, applied, rushed>>

CheckDedup(a) ==
    LET r == ReferenceOf[a] IN
    /\ at[a] = "new"
    /\ PGoto(a, IF r \in marked THEN "duplicate" ELSE "account")
    /\ crossed' = IF \E b \in Others(a) : ReferenceOf[b] = r THEN crossed \cup {r} ELSE crossed
    /\ UNCHANGED <<marked, accounts, applied, rushed>>

(* Mutant: the account is created without looking for one. *)
FindAccount_Always(a) ==
    /\ at[a] = "account"
    /\ PGoto(a, "create")
    /\ rushed' = (rushed \/ \E b \in Attempts : at[b] = "create")
    /\ UNCHANGED <<marked, accounts, applied, crossed>>

(***************************************************************************)
(* get_or_create_account.  Two rows make the query raise.                  *)
(***************************************************************************)
FindAccount(a) ==
    /\ at[a] = "account"
    /\ PGoto(a, CASE accounts = 0 -> "create"
                  [] accounts = 1 -> "apply"
                  [] OTHER -> "failed")
    /\ rushed' = (rushed \/ (accounts = 0 /\ \E b \in Attempts : at[b] = "create"))
    /\ UNCHANGED <<marked, accounts, applied, crossed>>

CreateAccount(a) ==
    /\ at[a] = "create"
    /\ accounts' = accounts + 1
    /\ PGoto(a, "apply")
    /\ UNCHANGED <<marked, applied, crossed, rushed>>

(* Mutant: the ledger entry has no idempotency key. *)
ApplyPayment_Unkeyed(a) ==
    /\ at[a] = "apply"
    /\ applied' = [applied EXCEPT ![ReferenceOf[a]] = @ + 1]
    /\ PGoto(a, "mark")
    /\ UNCHANGED <<marked, accounts, crossed, rushed>>

ApplyPayment(a) ==
    LET r == ReferenceOf[a] IN
    /\ at[a] = "apply"
    /\ applied' = [applied EXCEPT ![r] = IF r \in Plans THEN @ + 1 ELSE 1]
    /\ PGoto(a, "mark")
    /\ UNCHANGED <<marked, accounts, crossed, rushed>>

SetDedup(a) ==
    /\ at[a] = "mark"
    /\ marked' = marked \cup {ReferenceOf[a]}
    /\ PGoto(a, "done")
    /\ UNCHANGED <<accounts, applied, crossed, rushed>>

(* Mutant: the dedup key is set on every way out of the handler. *)
AttemptFails_Marks(a) ==
    /\ at[a] \in {"account", "create", "apply", "mark"}
    /\ PGoto(a, "failed")
    /\ marked' = marked \cup {ReferenceOf[a]}
    /\ crossed' = IF at[a] = "mark" THEN crossed \cup {ReferenceOf[a]} ELSE crossed
    /\ UNCHANGED <<accounts, applied, rushed>>

(***************************************************************************)
(* An error is rolled back and answered, by a webhook as a success; or the *)
(* process dies.  What was committed stays.                                *)
(***************************************************************************)
AttemptFails(a) ==
    /\ at[a] \in {"account", "create", "apply", "mark"}
    /\ PGoto(a, "failed")
    /\ crossed' = IF at[a] = "mark" THEN crossed \cup {ReferenceOf[a]} ELSE crossed
    /\ UNCHANGED <<marked, accounts, applied, rushed>>

(***************************************************************************)
(* WEBHOOK_IDEMPOTENCY_TTL passes.                                         *)
(***************************************************************************)
DedupExpires(r) ==
    /\ r \in marked
    /\ marked' = marked \ {r}
    /\ crossed' = crossed \cup {r}
    /\ UNCHANGED <<accounts, applied, at, rushed>>

PayNext ==
    \/ \E a \in Attempts :
        \/ CheckDedup(a)
        \/ FindAccount(a)
        \/ CreateAccount(a)
        \/ ApplyPayment(a)
        \/ SetDedup(a)
        \/ AttemptFails(a)
    \/ \E r \in References : DedupExpires(r)

PaySpec == PayInit /\ [][PayNext]_payVars

-----------------------------------------------------------------------------

(***************************************************************************)
(* A payment answered as "Already processed" had its effect, whatever died *)
(* in between.                                                             *)
(***************************************************************************)
MarkedWasApplied ==
    /\ \A r \in marked : applied[r] > 0
    /\ \A a \in Attempts : at[a] = "duplicate" => applied[ReferenceOf[a]] > 0

(***************************************************************************)
(* A plan is applied once unless the key could not be seen: two attempts   *)
(* overlapped, one died before it set the key, or the key expired.         *)
(***************************************************************************)
AppliedOnce == \A r \in References \ crossed : applied[r] <= 1

(***************************************************************************)
(* A second row makes every later payment of the user fail: there is none  *)
(* unless two attempts looked for the account at once.                     *)
(***************************************************************************)
OneAccount == ~ rushed => accounts <= 1

(***************************************************************************)
(* Money that comes in twice has its effect, and has it once.              *)
(***************************************************************************)
PaymentsSafe ==
    /\ MarkedWasApplied
    /\ AppliedOnce
    /\ OneAccount
=============================================================================
