---------------------------- MODULE Adjustments ----------------------------
(***************************************************************************)
(* Dual control over manual changes of a balance                           *)
(* (swx_core/services/billing/wallet_adjustment_service.py): one admin     *)
(* proposes, another approves, and only then the money moves, under an     *)
(* idempotency key of the request.  Approving and rejecting read the row   *)
(* and write it later, without a lock.                                     *)
(***************************************************************************)
EXTENDS Integers, FiniteSets

CONSTANTS
    Admins,
    Reviews,        \* calls of approve and reject for one request
    Approving       \* those that are calls of approve

ASSUME AdjustmentsAssumption ==
    /\ Approving \subseteq Reviews
    /\ "none" \notin Admins

VARIABLES
    request,        \* the row: status, proposed_by, approved_by
    review,         \* review[q]: where the call is, and its admin
    paid,           \* the ledger has the entry adjustment-{id}
    contended,      \* history: two calls read the row as proposed
    broken          \* history: an approval failed after its first commit

adjVars == <<request, review, paid, contended, broken>>

AdjTypeOK ==
    /\ request \in [status: {"none", "proposed", "approved", "rejected", "executed"},
                    proposer: Admins, approver: Admins \cup {"none"}]
    /\ review \in [Reviews -> [pc: {"new", "save", "execute", "close", "done", "refused", "failed"},
                               admin: Admins]]
    /\ paid \in BOOLEAN
    /\ contended \in BOOLEAN
    /\ broken \in BOOLEAN
    /\ request.status \in {"none", "proposed"} <=> request.approver = "none"

AdjInit ==
    /\ request \in [status: {"none"}, proposer: Admins, approver: {"none"}]
    /\ review \in [Reviews -> [pc: {"new"}, admin: Admins]]
    /\ paid = FALSE
    /\ contended = FALSE
    /\ broken = FALSE

-----------------------------------------------------------------------------

Propose ==
    /\ request.status = "none"
    /\ request' = [request EXCEPT !.status = "proposed"]
    /\ UNCHANGED <<review, paid, contended, broken>>

RGoto(q, label) == review' = [review EXCEPT ![q].pc = label]

(* Mutant: the approver may be the proposer. *)
Load_OwnProposal(q) ==
    /\ review[q].pc = "new"
    /\ request.status # "none"
    /\ RGoto(q, IF request.status = "proposed" THEN "save" ELSE "refused")
    /\ contended' = (contended \/ \E p \in Reviews : review[p].pc = "save")
    /\ UNCHANGED <<request, paid, broken>>

Load(q) ==
    /\ review[q].pc = "new"
    /\ request.status # "none"
    /\ RGoto(q, IF /\ request.status = "proposed"
                   /\ q \in Approving => review[q].admin # request.proposer
                THEN "save" ELSE "refused")
    /\ contended' = (contended \/ \E p \in Reviews : review[p].pc = "save")
    /\ UNCHANGED <<request, paid, broken>>

Approve(q) ==
    /\ review[q].pc = "save"
    /\ request' = [request EXCEPT !.status = "approved", !.approver = review[q].admin]
    /\ RGoto(q, "execute")
    /\ UNCHANGED <<paid, contended, broken>>

Reject(q) ==
    /\ review[q].pc = "save"
    /\ request' = [request EXCEPT !.status = "rejected", !.approver = review[q].admin]
    /\ RGoto(q, "done")
    /\ UNCHANGED <<paid, contended, broken>>

(***************************************************************************)
(* credit_wallet or debit_wallet commits on its own.                       *)
(***************************************************************************)
Execute(q) ==
    /\ review[q].pc = "execute"
    /\ paid' = TRUE
    /\ RGoto(q, "close")
    /\ UNCHANGED <<request, contended, broken>>

(* Mutant: the row is not marked as executed. *)
MarkExecuted_Forgets(q) ==
    /\ review[q].pc = "close"
    /\ RGoto(q, "done")
    /\ UNCHANGED <<request, paid, contended, broken>>

MarkExecuted(q) ==
    /\ review[q].pc = "close"
    /\ request' = [request EXCEPT !.status = "executed"]
    /\ RGoto(q, "done")
    /\ UNCHANGED <<paid, contended, broken>>

(* Mutant: whatever goes wrong, the adjustment ends as rejected. *)
ReviewFails_Rejects(q) ==
    /\ review[q].pc \in {"save", "execute", "close"}
    /\ RGoto(q, "failed")
    /\ request' = [request EXCEPT !.status = "rejected", !.approver = review[q].admin]
    /\ broken' = (broken \/ review[q].pc # "save")
    /\ UNCHANGED <<paid, contended>>

(***************************************************************************)
(* The wallet refuses, the database raises, or the process dies.           *)
(***************************************************************************)
ReviewFails(q) ==
    /\ review[q].pc \in {"save", "execute", "close"}
    /\ RGoto(q, "failed")
    /\ broken' = (broken \/ review[q].pc # "save")
    /\ UNCHANGED <<request, paid, contended>>

AdjNext ==
    \/ Propose
    \/ \E q \in Reviews : Load(q) \/ ReviewFails(q)
    \/ \E q \in Approving : Approve(q) \/ Execute(q) \/ MarkExecuted(q)
    \/ \E q \in Reviews \ Approving : Reject(q)

AdjSpec == AdjInit /\ [][AdjNext]_adjVars

-----------------------------------------------------------------------------

(***************************************************************************)
(* No admin moves money alone: what was paid somebody approved who did not *)
(* propose it, and the row says so, unless two decisions crossed.          *)
(***************************************************************************)
FourEyes == (paid /\ ~ contended) => request.approver \notin {"none", request.proposer}

(***************************************************************************)
(* A rejected adjustment moved no money, unless it was approved at once.   *)
(***************************************************************************)
RejectedUnpaid == (request.status = "rejected" /\ ~ contended) => ~ paid

(***************************************************************************)
(* A row stays approved only while its approval is at work, or after that  *)
(* has failed: nothing else ever takes it up again.                        *)
(***************************************************************************)
ApprovedMovesOn ==
    (request.status = "approved" /\ ~ broken)
        => \E q \in Approving : review[q].pc \in {"execute", "close"}

(***************************************************************************)
(* Dual control: two admins stand behind what was paid, nothing rejected   *)
(* was paid, and nothing approved is left lying.                           *)
(***************************************************************************)
AdjustmentsSafe ==
    /\ FourEyes
    /\ RejectedUnpaid
    /\ ApprovedMovesOn
=============================================================================
