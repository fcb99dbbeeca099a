------------------------------ MODULE Erasure ------------------------------
(***************************************************************************)
(* The erasure of one user's data                                          *)
(* (swx_core/services/compliance/erasure_service.py,                       *)
(* erasure_scheduler_service.py and repositories/erasure_repository.py),   *)
(* with GDPR_ANONYMIZE_ON_DELETE set, as it is by default, on PostgreSQL.  *)
(*                                                                         *)
(* Each step below is one transaction.  The tables with related data are   *)
(* numbered in the order delete_user_related_data takes them; holds says   *)
(* which of them have rows of the user.  Refusing are tables whose rows a  *)
(* foreign key keeps from being deleted.                                   *)
(*                                                                         *)
(* A call works on the row as its session loaded it, and of the columns it *)
(* assigns the session sends those only that differ from that.  A request  *)
(* of the user is let in once, when it begins, and writes later.           *)
(***************************************************************************)
EXTENDS Integers, FiniteSets

CONSTANTS
    Tables,         \* numbers of tables
    TokenTable,     \* the table of refresh tokens, found by e-mail address
    Refusing,
    Requests,       \* calls of request_erasure
    Executions,     \* calls of execute_erasure
    Verified,       \* those made for a verified data subject request
    Cancellations,  \* calls of cancel_erasure
    Visits          \* other requests of the user

ASSUME ErasureAssumption ==
    /\ Tables \subseteq Nat
    /\ TokenTable \in Tables
    /\ Refusing \subseteq Tables \ {TokenTable}
    /\ Verified \subseteq Executions
    /\ Requests \cap Executions = {}
    /\ Cancellations \cap (Requests \cup Executions) = {}

VARIABLES
    user,           \* the row of the user; its deadline is gdpr_deleted_at
    holds,
    cert,           \* cert[c]: the certificate of a call, and its tables
    erasing,        \* erasing[c]: where a call is, the row it loaded, whether
                    \* its e-mail is the user's own, and its results
    visit,          \* visit[v]: where a request of the user is
    profile,        \* the user is cached, as active, under the own e-mail
    late,           \* history: the tables written since they were emptied
    cancelled,      \* history: a deletion was cancelled
    metExecution,   \* history: cancelled or marked with an execution at work
    failedOnce      \* history: an execution died, or its batch was refused

erasureVars ==
    <<user, holds, cert, erasing, visit, profile, late, cancelled, metExecution, failedOnce>>

visitVars == <<visit, profile, late>>

ErasureCalls == Requests \cup Executions \cup Cancellations

ErasureTypeOK ==
    /\ user \in [active: BOOLEAN, anonymous: BOOLEAN, deadline: {"none", "future", "past"}]
    /\ holds \subseteq Tables
    /\ cert \in [ErasureCalls -> [status: {"none", "pending", "completed"}, tables: SUBSET Tables]]
    /\ erasing \in [ErasureCalls -> [pc: {"new", "open", "mark", "revoke", "email", "anonymize",
                                          "delete", "certify", "cancel", "done", "dead"},
                                     active: BOOLEAN, marked: BOOLEAN,
                                     own: BOOLEAN, erased: SUBSET Tables]]
    /\ visit \in [Visits -> {"new", "found", "in"}]
    /\ profile \in BOOLEAN
    /\ late \subseteq Tables
    /\ cancelled \in BOOLEAN
    /\ metExecution \in BOOLEAN
    /\ failedOnce \in BOOLEAN

ErasureInit ==
    /\ user = [active |-> TRUE, anonymous |-> FALSE, deadline |-> "none"]
    /\ holds \in SUBSET Tables
    /\ cert = [c \in ErasureCalls |-> [status |-> "none", tables |-> {}]]
    /\ erasing = [c \in ErasureCalls |->
                     [pc |-> "new", active |-> TRUE, marked |-> FALSE, own |-> FALSE, erased |-> {}]]
    /\ visit = [v \in Visits |-> "new"]
    /\ profile = FALSE
    /\ late = {}
    /\ cancelled = FALSE
    /\ metExecution = FALSE
    /\ failedOnce = FALSE

EGoto(c, label) == erasing' = [erasing EXCEPT ![c].pc = label]

Due == ~ user.active /\ user.deadline = "past"

(* What the session of a call loads of the user. *)
GetUser(c, label) ==
    erasing' = [erasing EXCEPT ![c].pc = label, ![c].active = user.active,
                               ![c].marked = user.deadline # "none"]

(* What a call makes of is_active: sent if it is not what was loaded. *)
Activated(c, active) == IF erasing[c].active = active THEN user.active ELSE active

Executing == {c \in Executions : erasing[c].pc \notin {"new", "done", "dead"}}

-----------------------------------------------------------------------------
(* Requests and executions begin with the check for a sole owner. *)

OpenCertificate(c, next) ==
    /\ erasing[c].pc = "open"
    /\ cert' = [cert EXCEPT ![c].status = "pending"]
    /\ EGoto(c, next)
    /\ UNCHANGED <<user, holds, visitVars, cancelled, metExecution, failedOnce>>

SoleOwner(c) ==
    /\ erasing[c].pc = "open"
    /\ EGoto(c, "done")
    /\ UNCHANGED <<user, holds, cert, visitVars, cancelled, metExecution, failedOnce>>

(***************************************************************************)
(* The request's session has the row since get_current_user looked it up.  *)
(***************************************************************************)
Ask(c, next) ==
    /\ erasing[c].pc = "new"
    /\ GetUser(c, next)
    /\ UNCHANGED <<user, holds, cert, visitVars, cancelled, metExecution, failedOnce>>

(***************************************************************************)
(* A session without the row loads it when it is about to be written: that *)
(* of a request let in on a cached profile, and that of the job for a      *)
(* verified request.                                                       *)
(***************************************************************************)
LoadUser(c) ==
    /\ erasing[c].pc \in {"mark", "cancel"} \/ (c \in Verified /\ erasing[c].pc = "anonymize")
    /\ GetUser(c, erasing[c].pc)
    /\ UNCHANGED <<user, holds, cert, visitVars, cancelled, metExecution, failedOnce>>

(***************************************************************************)
(* The row is read again after the commit, with the address it has then.   *)
(***************************************************************************)
MarkUserForDeletion(r) ==
    /\ erasing[r].pc = "mark"
    /\ user' = [user EXCEPT !.active = Activated(r, FALSE), !.deadline = "future"]
    /\ metExecution' = (metExecution \/ Executing # {})
    /\ erasing' = [erasing EXCEPT ![r].pc = "revoke", ![r].own = ~ user.anonymous]
    /\ UNCHANGED <<holds, cert, visitVars, cancelled, failedOnce>>

(***************************************************************************)
(* _revoke_auth_session, with that address.  What fails in it is only      *)
(* logged, and another process keeps the profile it has cached itself.     *)
(* The certificate of a request stays pending.                             *)
(***************************************************************************)
RevokeAuthSession(r) ==
    /\ erasing[r].pc = "revoke"
    /\ holds' \in {holds, IF erasing[r].own THEN holds \ {TokenTable} ELSE holds}
    /\ profile' \in {profile, profile /\ ~ erasing[r].own}
    /\ EGoto(r, "done")
    /\ UNCHANGED <<user, cert, visit, late, cancelled, metExecution, failedOnce>>

GraceEnds ==
    /\ user.deadline = "future"
    /\ user' = [user EXCEPT !.deadline = "past"]
    /\ UNCHANGED <<holds, cert, erasing, visitVars, cancelled, metExecution, failedOnce>>

(***************************************************************************)
(* cancel_deletion looks at nothing but the user's id.                     *)
(***************************************************************************)
CancelDeletion(k) ==
    /\ erasing[k].pc = "cancel"
    /\ user' = [user EXCEPT !.active = Activated(k, TRUE),
                            !.deadline = IF erasing[k].marked THEN "none" ELSE @]
    /\ cancelled' = TRUE
    /\ metExecution' = (metExecution \/ Executing # {})
    /\ EGoto(k, "done")
    /\ UNCHANGED <<holds, cert, visitVars, failedOnce>>

-----------------------------------------------------------------------------
(* execute_erasure *)

(* Mutant: the scheduler does not look at the deadline. *)
SelectDue_Marked(e) ==
    /\ erasing[e].pc = "new"
    /\ e \in Verified \/ (~ user.active /\ user.deadline # "none")
    /\ GetUser(e, "open")
    /\ UNCHANGED <<user, holds, cert, visitVars, cancelled, metExecution, failedOnce>>

(***************************************************************************)
(* The scheduler lists the users that are due, and its session keeps their *)
(* rows; a verified request does not wait for the end of the grace period. *)
(***************************************************************************)
SelectDue(e) ==
    /\ erasing[e].pc = "new"
    /\ e \in Verified \/ Due
    /\ GetUser(e, "open")
    /\ UNCHANGED <<user, holds, cert, visitVars, cancelled, metExecution, failedOnce>>

(* Mutant: the address is read from the anonymized row. *)
GetUserEmail_After(e) ==
    /\ erasing[e].pc = "email"
    /\ erasing' = [erasing EXCEPT ![e].pc = "anonymize", ![e].own = FALSE]
    /\ UNCHANGED <<user, holds, cert, visitVars, cancelled, metExecution, failedOnce>>

GetUserEmail(e) ==
    /\ erasing[e].pc = "email"
    /\ erasing' = [erasing EXCEPT ![e].pc = "anonymize", ![e].own = ~ user.anonymous]
    /\ UNCHANGED <<user, holds, cert, visitVars, cancelled, metExecution, failedOnce>>

(* Mutant: an anonymized user is no longer marked for deletion. *)
AnonymizeUser_Clears(e) ==
    /\ erasing[e].pc = "anonymize"
    /\ user' = [active |-> Activated(e, FALSE), anonymous |-> TRUE, deadline |-> "none"]
    /\ EGoto(e, "delete")
    /\ UNCHANGED <<holds, cert, visitVars, cancelled, metExecution, failedOnce>>

AnonymizeUser(e) ==
    /\ erasing[e].pc = "anonymize"
    /\ user' = [active |-> Activated(e, FALSE), anonymous |-> TRUE, deadline |-> "past"]
    /\ EGoto(e, "delete")
    /\ UNCHANGED <<holds, cert, visitVars, cancelled, metExecution, failedOnce>>

(***************************************************************************)
(* delete_user_related_data: one transaction over all tables.              *)
(***************************************************************************)
DeleteRelatedData(e) ==
    LET kept == IF erasing[e].own THEN {} ELSE {TokenTable}
    IN  /\ erasing[e].pc = "delete"
        /\ Refusing \cap holds = {}
        /\ holds' = holds \cap kept
        /\ late' = late \cap kept
        /\ erasing' = [erasing EXCEPT ![e].pc = "certify", ![e].erased = Tables]
        /\ UNCHANGED <<user, cert, visit, profile, cancelled, metExecution, failedOnce>>

(***************************************************************************)
(* A statement fails: the later ones fail as well, since the transaction   *)
(* is aborted, and the commit rolls back what the earlier ones did.  Their *)
(* results are kept.                                                       *)
(***************************************************************************)
StatementFails(e, t) ==
    /\ erasing[e].pc = "delete"
    /\ \A r \in Refusing \cap holds : t <= r
    /\ erasing' = [erasing EXCEPT ![e].pc = "certify", ![e].erased = {s \in Tables : s < t}]
    /\ failedOnce' = TRUE
    /\ UNCHANGED <<user, holds, cert, visitVars, cancelled, metExecution>>

(***************************************************************************)
(* The session revoked before this is that of the anonymous address, which *)
(* has neither tokens nor a profile.                                       *)
(***************************************************************************)
UpdateCertificate(e) ==
    /\ erasing[e].pc = "certify"
    /\ cert' = [cert EXCEPT ![e] = [status |-> "completed", tables |-> erasing[e].erased]]
    /\ EGoto(e, "done")
    /\ UNCHANGED <<user, holds, visitVars, cancelled, metExecution, failedOnce>>

ErasureDies(c) ==
    /\ erasing[c].pc \notin {"new", "done", "dead"}
    /\ EGoto(c, "dead")
    /\ failedOnce' = (failedOnce \/ c \in Executions)
    /\ UNCHANGED <<user, holds, cert, visitVars, cancelled, metExecution>>

-----------------------------------------------------------------------------
(* What the user does: get_current_user, and then rows in the tables. *)

(***************************************************************************)
(* The token has the address, under which an anonymized row is not found.  *)
(***************************************************************************)
FindActive(v) ==
    /\ visit[v] = "new"
    /\ user.active
    /\ ~ user.anonymous
    /\ visit' = [visit EXCEPT ![v] = "found"]
    /\ UNCHANGED <<user, holds, cert, erasing, profile, late, cancelled, metExecution, failedOnce>>

(* The profile is cached; or the cache is off, or refuses. *)
CacheProfile(v) ==
    /\ visit[v] = "found"
    /\ profile' \in {profile, TRUE}
    /\ visit' = [visit EXCEPT ![v] = "in"]
    /\ UNCHANGED <<user, holds, cert, erasing, late, cancelled, metExecution, failedOnce>>

FindProfile(v) ==
    /\ visit[v] = "new"
    /\ profile
    /\ visit' = [visit EXCEPT ![v] = "in"]
    /\ UNCHANGED <<user, holds, cert, erasing, profile, late, cancelled, metExecution, failedOnce>>

ProfileExpires ==
    /\ profile
    /\ profile' = FALSE
    /\ UNCHANGED <<user, holds, cert, erasing, visit, late, cancelled, metExecution, failedOnce>>

UseAccount(v, t) ==
    /\ visit[v] = "in"
    /\ holds' = holds \cup {t}
    /\ late' = IF user.anonymous THEN late \cup {t} ELSE late
    /\ UNCHANGED <<user, cert, erasing, visit, profile, cancelled, metExecution, failedOnce>>

ErasureNext ==
    \/ \E r \in Requests :
        \/ Ask(r, "open")
        \/ OpenCertificate(r, "mark")
        \/ MarkUserForDeletion(r)
        \/ RevokeAuthSession(r)
    \/ \E e \in Executions :
        \/ SelectDue(e)
        \/ OpenCertificate(e, "email")
        \/ GetUserEmail(e)
        \/ AnonymizeUser(e)
        \/ DeleteRelatedData(e)
        \/ \E t \in Tables : StatementFails(e, t)
        \/ UpdateCertificate(e)
    \/ \E k \in Cancellations : Ask(k, "cancel") \/ CancelDeletion(k)
    \/ \E c \in ErasureCalls : LoadUser(c) \/ SoleOwner(c) \/ ErasureDies(c)
    \/ GraceEnds
    \/ \E v \in Visits :
        \/ FindActive(v)
        \/ CacheProfile(v)
        \/ FindProfile(v)
        \/ \E t \in Tables : UseAccount(v, t)
    \/ ProfileExpires

ErasureSpec == ErasureInit /\ [][ErasureNext]_erasureVars

-----------------------------------------------------------------------------

(***************************************************************************)
(* Once an erasure is certified and none is at work, the tables hold       *)
(* nothing of the user, the refresh tokens found by the e-mail address     *)
(* included, but what requests of the user have written since: they were   *)
(* let in before the account was closed, or on a profile that was cached   *)
(* before; and unless an execution died or one of its statements failed.   *)
(***************************************************************************)
ErasedWhole ==
    (~ failedOnce /\ Executing = {} /\ \E e \in Executions : cert[e].status = "completed") =>
        holds \subseteq late

(***************************************************************************)
(* An account is anonymized for a verified request or after its grace      *)
(* period, in which the user may take the deletion back; unless that       *)
(* happens with the execution already under way.                           *)
(***************************************************************************)
GraceRespected ==
    [][user'.anonymous /\ ~ user.anonymous =>
        metExecution \/ Due \/ \E e \in Verified : erasing[e].pc = "anonymize"]_erasureVars

(***************************************************************************)
(* An account that was anonymized stays marked, so that the scheduler      *)
(* completes an erasure that was cut short; unless the deletion was        *)
(* cancelled.                                                              *)
(***************************************************************************)
StaysMarked == (user.anonymous /\ ~ cancelled) => (~ user.active /\ user.deadline # "none")

(***************************************************************************)
(* An erasure is whole when it is certified, and until then it can be      *)
(* taken up again.                                                         *)
(***************************************************************************)
ErasureSafe ==
    /\ ErasedWhole
    /\ StaysMarked

(***************************************************************************)
(* "Creates an ErasureCertificate record documenting which tables were     *)
(* affected ..., providing compliance proof" (CHANGELOG.md): the tables of *)
(* a completed certificate hold nothing of the user any more, but what     *)
(* came in since.                                                          *)
(***************************************************************************)
CertificateHonest ==
    \A e \in Executions :
        (cert[e].status = "completed" /\ erasing[e].own) => cert[e].tables \cap holds \subseteq late
=============================================================================
