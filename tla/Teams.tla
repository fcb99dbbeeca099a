------------------------------- MODULE Teams -------------------------------
(***************************************************************************)
(* Invitations of one person to one team                                   *)
(* (swx_core/services/team_invitation_service.py, team_service.py).        *)
(*                                                                         *)
(* Each call reads in one statement and writes in a later transaction, by  *)
(* id: the row may have changed in between.  An invitation is named by the *)
(* call that created it.                                                   *)
(***************************************************************************)
EXTENDS Integers, FiniteSets

CONSTANTS
    Invites,        \* calls of create_invitation
    Accepts,        \* calls of accept_invitation
    Declines,       \* calls of reject_invitation
    Withdrawals     \* calls of revoke_invitation

VARIABLES
    invitation,     \* invitation[i]: status and whether expires_at is past
    member,         \* the TeamMember row: "no", "added", or an invitation
    answering,      \* answering[c]: where a call is, and its invitation
    doubled,        \* history: two creations overlapped
    removed,        \* history: the member was removed
    overtaken         \* history: invitations written by overlapping calls

teamVars == <<invitation, member, answering, doubled, removed, overtaken>>

Answers == Accepts \cup Declines \cup Withdrawals

ASSUME TeamsAssumption ==
    /\ Invites \cap Answers = {}
    /\ Invites \cap {"no", "added"} = {}

TeamTypeOK ==
    /\ invitation \in [Invites -> [status: {"none", "pending", "accepted", "rejected", "expired", "revoked"},
                                   old: BOOLEAN]]
    /\ member \in Invites \cup {"no", "added"}
    /\ answering \in [Invites \cup Answers ->
                        [pc: {"new", "insert", "look", "expire", "join", "accept", "reject", "revoke", "done"},
                         of: Invites]]
    /\ doubled \in BOOLEAN
    /\ removed \in BOOLEAN
    /\ overtaken \subseteq Invites
    /\ \A a \in Answers : answering[a].pc # "new" => invitation[answering[a].of].status # "none"

TeamInit ==
    /\ invitation = [i \in Invites |-> [status |-> "none", old |-> FALSE]]
    /\ member = "no"
    /\ \E i \in Invites : answering = [c \in Invites \cup Answers |-> [pc |-> "new", of |-> i]]
    /\ doubled = FALSE
    /\ removed = FALSE
    /\ overtaken = {}

TGoto(c, label) == answering' = [answering EXCEPT ![c].pc = label]

Pending == {i \in Invites : invitation[i].status = "pending"}

Answering(a, i) == answering[a].of = i /\ answering[a].pc \notin {"new", "done"}

-----------------------------------------------------------------------------

(* Mutant: a pending invitation does not keep from creating another. *)
CheckPending_Skipped(c) ==
    /\ answering[c].pc = "new"
    /\ member = "no"
    /\ TGoto(c, "insert")
    /\ doubled' = (doubled \/ \E d \in Invites : answering[d].pc = "insert")
    /\ UNCHANGED <<invitation, member, removed, overtaken>>

CheckPending(c) ==
    /\ answering[c].pc = "new"
    /\ member = "no"
    /\ Pending = {}
    /\ TGoto(c, "insert")
    /\ doubled' = (doubled \/ \E d \in Invites : answering[d].pc = "insert")
    /\ UNCHANGED <<invitation, member, removed, overtaken>>

InsertInvitation(c) ==
    /\ answering[c].pc = "insert"
    /\ invitation' = [invitation EXCEPT ![c].status = "pending"]
    /\ TGoto(c, "done")
    /\ UNCHANGED <<member, doubled, removed, overtaken>>

Lapse(i) ==
    /\ i \in Pending
    /\ ~ invitation[i].old
    /\ invitation' = [invitation EXCEPT ![i].old = TRUE]
    /\ UNCHANGED <<member, answering, doubled, removed, overtaken>>

FirstStep(a, i) ==
    IF a \in Declines THEN "reject"
    ELSE IF a \in Withdrawals THEN "revoke"
    ELSE IF invitation[i].old THEN "expire" ELSE "look"

TakeUp(a, i) ==
    /\ answering' = [answering EXCEPT ![a] = [pc |-> FirstStep(a, i), of |-> i]]
    /\ overtaken' = IF \E b \in Answers : Answering(b, i) THEN overtaken \cup {i} ELSE overtaken
    /\ UNCHANGED <<invitation, member, doubled, removed>>

(* Mutant: a decline does not look at the status. *)
LoadInvitation_AnyStatus(a, i) ==
    /\ answering[a].pc = "new"
    /\ invitation[i].status = "pending" \/ (a \in Declines /\ invitation[i].status # "none")
    /\ TakeUp(a, i)

(***************************************************************************)
(* All three refuse an invitation that is not pending.                     *)
(***************************************************************************)
LoadInvitation(a, i) ==
    /\ answering[a].pc = "new"
    /\ i \in Pending
    /\ TakeUp(a, i)

(* Mutant: everybody is taken for a member. *)
LookForMember_Never(a) ==
    /\ answering[a].pc = "look"
    /\ TGoto(a, "accept")
    /\ UNCHANGED <<invitation, member, doubled, removed, overtaken>>

LookForMember(a) ==
    /\ answering[a].pc = "look"
    /\ TGoto(a, IF member = "no" THEN "join" ELSE "accept")
    /\ UNCHANGED <<invitation, member, doubled, removed, overtaken>>

Settle(a, status) ==
    /\ invitation' = [invitation EXCEPT ![answering[a].of].status = status]
    /\ TGoto(a, "done")

(***************************************************************************)
(* Member and status in one transaction, which the unique constraint on    *)
(* team and user refuses if there is a member by now.                      *)
(***************************************************************************)
Join(a) ==
    /\ answering[a].pc = "join"
    /\ member = "no"
    /\ member' = answering[a].of
    /\ Settle(a, "accepted")
    /\ UNCHANGED <<doubled, removed, overtaken>>

(***************************************************************************)
(* The member may be removed after the call has seen it.                   *)
(***************************************************************************)
AcceptMember(a) ==
    /\ answering[a].pc = "accept"
    /\ Settle(a, "accepted")
    /\ UNCHANGED <<member, doubled, removed, overtaken>>

Answer(a, label, status) ==
    /\ answering[a].pc = label
    /\ Settle(a, status)
    /\ UNCHANGED <<member, doubled, removed, overtaken>>

AddTeamMember ==
    /\ member = "no"
    /\ member' = "added"
    /\ UNCHANGED <<invitation, answering, doubled, removed, overtaken>>

RemoveTeamMember ==
    /\ member # "no"
    /\ member' = "no"
    /\ removed' = TRUE
    /\ UNCHANGED <<invitation, answering, doubled, overtaken>>

(***************************************************************************)
(* A call dies, or its transaction is refused.                             *)
(***************************************************************************)
AnswerFails(c) ==
    /\ answering[c].pc \notin {"new", "done"}
    /\ TGoto(c, "done")
    /\ UNCHANGED <<invitation, member, doubled, removed, overtaken>>

TeamNext ==
    \/ \E c \in Invites : CheckPending(c) \/ InsertInvitation(c)
    \/ \E i \in Invites : Lapse(i) \/ \E a \in Answers : LoadInvitation(a, i)
    \/ \E a \in Accepts : LookForMember(a) \/ Join(a) \/ AcceptMember(a) \/ Answer(a, "expire", "expired")
    \/ \E a \in Declines : Answer(a, "reject", "rejected")
    \/ \E a \in Withdrawals : Answer(a, "revoke", "revoked")
    \/ AddTeamMember
    \/ RemoveTeamMember
    \/ \E c \in Invites \cup Answers : AnswerFails(c)

TeamSpec == TeamInit /\ [][TeamNext]_teamVars

-----------------------------------------------------------------------------

(***************************************************************************)
(* A membership that goes back to an invitation goes with its acceptance,  *)
(* and an acceptance with a membership: the one is not written without the *)
(* other, unless two answers to the invitation overlap or the member was   *)
(* removed.                                                                *)
(***************************************************************************)
JoinedByAcceptance ==
    \A i \in Invites \ overtaken :
        /\ member = i => invitation[i].status = "accepted"
        /\ (invitation[i].status = "accepted" /\ ~ removed) => member # "no"

(***************************************************************************)
(* A person has one pending invitation to a team, unless two were created  *)
(* at the same time.  (With two, every further creation fails, because     *)
(* _get_pending_invitation expects at most one row.)                       *)
(***************************************************************************)
OnePending == ~ doubled => Cardinality(Pending) <= 1

(***************************************************************************)
(* Members of a team and its invitations agree.                            *)
(***************************************************************************)
TeamsSafe ==
    /\ JoinedByAcceptance
    /\ OnePending

(***************************************************************************)
(* An answered invitation keeps its answer, unless two answers were under  *)
(* way at the same time.                                                   *)
(***************************************************************************)
AnswerStays ==
    [][\A i \in Invites \ overtaken :
        invitation[i].status \notin {"none", "pending"} => invitation'[i] = invitation[i]]_teamVars
=============================================================================
