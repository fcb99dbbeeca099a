--------------------------- MODULE Organizations ---------------------------
(***************************************************************************)
(* Membership of one organization (swx_core/services/                      *)
(* organization_service.py, repositories/organization_repository.py).      *)
(*                                                                         *)
(* Unlike a team's, an organization's invitation may be sent while others  *)
(* are pending, its member and its status are written in separate          *)
(* transactions, and a rejection does not look at the status.              *)
(***************************************************************************)
EXTENDS Integers, FiniteSets

CONSTANTS
    Users,
    Owner,
    OrgInvites,     \* calls of invite_member
    OrgAccepts,     \* calls of accept_invitation
    AcceptsFor,     \* AcceptsFor[a]: the user who makes the call
    OrgRejects,     \* calls of reject_invitation
    MaxMembers      \* ORGANIZATION_MAX_MEMBERS, not 0

ASSUME OrganizationsAssumption ==
    /\ Owner \in Users
    /\ AcceptsFor \in [OrgAccepts -> Users]
    /\ MaxMembers \in Nat \ {0}

VARIABLES
    members,
    invited,        \* invited[i]: status and whether expires_at is past
    joining,        \* joining[c]: where a call is, and its invitation
    let,            \* history: let[i]: users who became members by i
    torn,           \* history: invitations taken up by overlapping calls,
                    \* or by one that died between its two transactions
    ahead           \* history: invited with another invitation still open

orgVars == <<members, invited, joining, let, torn, ahead>>

OrgAnswers == OrgAccepts \cup OrgRejects
OrgCalls == OrgInvites \cup OrgAnswers

ASSUME CallsAssumption ==
    /\ OrgInvites \cap OrgAnswers = {}
    /\ OrgAccepts \cap OrgRejects = {}

OrgTypeOK ==
    /\ members \subseteq Users
    /\ invited \in [OrgInvites -> [status: {"none", "pending", "accepted", "rejected", "expired"},
                                   old: BOOLEAN]]
    /\ joining \in [OrgCalls -> [pc: {"new", "insert", "look", "add", "expire", "accept", "reject", "done"},
                                 of: OrgInvites]]
    /\ let \in [OrgInvites -> SUBSET Users]
    /\ torn \subseteq OrgInvites
    /\ ahead \in BOOLEAN
    /\ \A i \in OrgInvites : joining[i].pc = "insert" => invited[i].status = "none"
    /\ \A i \in OrgInvites : invited[i].status = "expired" => invited[i].old

OrgInit ==
    /\ members = {Owner}
    /\ invited = [i \in OrgInvites |-> [status |-> "none", old |-> FALSE]]
    /\ \E i \in OrgInvites : joining = [c \in OrgCalls |-> [pc |-> "new", of |-> i]]
    /\ let = [i \in OrgInvites |-> {}]
    /\ torn = {}
    /\ ahead = FALSE

OGoto(c, label) == joining' = [joining EXCEPT ![c].pc = label]

AtWork(a, i) == joining[a].of = i /\ joining[a].pc \notin {"new", "done"}

Open(i) ==
    \/ joining[i].pc = "insert"
    \/ invited[i].status = "pending"
    \/ \E a \in OrgAccepts : AtWork(a, i)

-----------------------------------------------------------------------------

(* Mutant: one more member than the limit is let in. *)
CountMembers_OffByOne(c) ==
    /\ joining[c].pc = "new"
    /\ Cardinality(members) <= MaxMembers
    /\ OGoto(c, "insert")
    /\ ahead' = (ahead \/ \E i \in OrgInvites : Open(i))
    /\ UNCHANGED <<members, invited, let, torn>>

(***************************************************************************)
(* invite_member: pending invitations are not counted.                     *)
(***************************************************************************)
CountMembers(c) ==
    /\ joining[c].pc = "new"
    /\ Cardinality(members) < MaxMembers
    /\ OGoto(c, "insert")
    /\ ahead' = (ahead \/ \E i \in OrgInvites : Open(i))
    /\ UNCHANGED <<members, invited, let, torn>>

CreateInvitation(c) ==
    /\ joining[c].pc = "insert"
    /\ invited' = [invited EXCEPT ![c].status = "pending"]
    /\ OGoto(c, "done")
    /\ UNCHANGED <<members, let, torn, ahead>>

InvitationLapses(i) ==
    /\ invited[i].status = "pending"
    /\ ~ invited[i].old
    /\ invited' = [invited EXCEPT ![i].old = TRUE]
    /\ UNCHANGED <<members, joining, let, torn, ahead>>

TakeUpInvitation(a, i, label) ==
    /\ joining[a].pc = "new"
    /\ joining' = [joining EXCEPT ![a] = [pc |-> label, of |-> i]]
    /\ torn' = IF \E b \in OrgAnswers : AtWork(b, i) THEN torn \cup {i} ELSE torn
    /\ UNCHANGED <<members, invited, let, ahead>>

(* Mutant: an invitation can be accepted until it expires. *)
GetInvitation_AnyStatus(a, i) ==
    /\ invited[i].status # "none"
    /\ TakeUpInvitation(a, i, IF invited[i].old THEN "expire" ELSE "look")

(* Mutant: the comparison with expires_at is turned round. *)
GetInvitation_Expires(a, i) ==
    /\ invited[i].status = "pending"
    /\ TakeUpInvitation(a, i, IF invited[i].old THEN "look" ELSE "expire")

GetInvitation(a, i) ==
    /\ invited[i].status = "pending"
    /\ TakeUpInvitation(a, i, IF invited[i].old THEN "expire" ELSE "look")

GetMember(a) ==
    /\ joining[a].pc = "look"
    /\ OGoto(a, IF AcceptsFor[a] \in members THEN "accept" ELSE "add")
    /\ UNCHANGED <<members, invited, let, torn, ahead>>

AddMember(a) ==
    /\ joining[a].pc = "add"
    /\ AcceptsFor[a] \notin members
    /\ members' = members \cup {AcceptsFor[a]}
    /\ let' = [let EXCEPT ![joining[a].of] = @ \cup {AcceptsFor[a]}]
    /\ OGoto(a, "accept")
    /\ UNCHANGED <<invited, torn, ahead>>

UpdateInvitationStatus(a, label, status) ==
    /\ joining[a].pc = label
    /\ invited' = [invited EXCEPT ![joining[a].of].status = status]
    /\ OGoto(a, "done")
    /\ UNCHANGED <<members, let, torn, ahead>>

(***************************************************************************)
(* reject_invitation: an accepted invitation can still be rejected.        *)
(***************************************************************************)
GetAnyInvitation(r, i) ==
    /\ invited[i].status # "none"
    /\ TakeUpInvitation(r, i, "reject")

(***************************************************************************)
(* remove_member and leave_organization, by the owner as well.             *)
(***************************************************************************)
RemoveMember(u) ==
    /\ u \in members
    /\ members' = members \ {u}
    /\ UNCHANGED <<invited, joining, let, torn, ahead>>

JoiningFails(c) ==
    /\ joining[c].pc \notin {"new", "done"}
    /\ OGoto(c, "done")
    /\ torn' = IF joining[c].pc = "accept" THEN torn \cup {joining[c].of} ELSE torn
    /\ UNCHANGED <<members, invited, let, ahead>>

OrgNext ==
    \/ \E c \in OrgInvites : CountMembers(c) \/ CreateInvitation(c) \/ InvitationLapses(c)
    \/ \E a \in OrgAccepts :
        \/ \E i \in OrgInvites : GetInvitation(a, i)
        \/ GetMember(a)
        \/ AddMember(a)
        \/ UpdateInvitationStatus(a, "expire", "expired")
        \/ UpdateInvitationStatus(a, "accept", "accepted")
    \/ \E r \in OrgRejects :
        \/ \E i \in OrgInvites : GetAnyInvitation(r, i)
        \/ UpdateInvitationStatus(r, "reject", "rejected")
    \/ \E u \in Users : RemoveMember(u)
    \/ \E c \in OrgCalls : JoiningFails(c)

OrgSpec == OrgInit /\ [][OrgNext]_orgVars

-----------------------------------------------------------------------------

(***************************************************************************)
(* An invitation lets one user in, unless it is taken up by overlapping    *)
(* calls, or a call dies when the member is in and the status not written. *)
(***************************************************************************)
OneJoinEach == \A i \in OrgInvites \ torn : Cardinality(let[i]) <= 1

(***************************************************************************)
(* The organization stays within ORGANIZATION_MAX_MEMBERS, unless it       *)
(* invited with an invitation still open: the limit is checked when        *)
(* inviting, and not when joining.                                         *)
(***************************************************************************)
WithinLimit == (~ ahead /\ torn = {}) => Cardinality(members) <= MaxMembers

(***************************************************************************)
(* An organization lets in one user for each invitation, and no more than  *)
(* it may have.                                                            *)
(***************************************************************************)
OrganizationsSafe ==
    /\ OneJoinEach
    /\ WithinLimit
=============================================================================
