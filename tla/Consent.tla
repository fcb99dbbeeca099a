------------------------------- MODULE Consent -------------------------------
(***************************************************************************)
(* The consent of one user of one type (services/consent_service.py,       *)
(* services/consent_enforcement_service.py,                                *)
(* repositories/consent_repository.py): a grant appends a row, a           *)
(* withdrawal and the expiry pass change a row's status, and the row with  *)
(* the latest updated_at decides.  Each process keeps the decision for a   *)
(* while; only grants and withdrawals clear that cache, and only that of   *)
(* their own process.                                                      *)
(***************************************************************************)
EXTENDS Integers, FiniteSets

CONSTANTS
    Grants, Withdrawals, Passes, Checks,
    Processes,
    ProcessOf,   \* the process that serves a call
    Ttl,         \* _CONSENT_TTL
    LastMoment   \* bound on the clock

ASSUME ConsentAssumption ==
    /\ Ttl \in Nat /\ LastMoment \in Nat
    /\ Grants \cap (Withdrawals \cup Passes \cup Checks) = {}
    /\ Withdrawals \cap (Passes \cup Checks) = {}
    /\ Passes \cap Checks = {}
    /\ ProcessOf \in [Grants \cup Withdrawals \cup Passes \cup Checks -> Processes]

VARIABLES
    moment,
    stamp,      \* the latest updated_at given out
    rows,       \* swx_user_consent
    reached,      \* where a call stands
    stamped,    \* the updated_at of a grant's new row
    picked,     \* the rows a withdrawal or a pass has read
    found,      \* the cache entry a check is making
    cached,     \* _consent_cache of a process
    heldAt,     \* history: when each answer was last the right one
    overtaken     \* history: calls that met one of the opposite kind

consentVars == <<moment, stamp, rows, reached, stamped, picked, found, cached, heldAt, overtaken>>

ConsentCalls == Grants \cup Withdrawals \cup Passes \cup Checks
Over == {"done", "refused", "failed"}
Row == [by : Grants, status : {"granted", "withdrawn", "expired"}, updated : Nat, expires : 0 .. LastMoment + 1]
Never == LastMoment + 1
Answers == {"yes", "no"}
Nothing == [answer |-> "no", since |-> - Ttl]

ConsentTypeOK ==
    /\ moment \in 0 .. LastMoment
    /\ stamp \in Nat
    /\ rows \subseteq Row
    /\ reached \in [ConsentCalls -> {"start", "write", "clear", "read", "store"} \cup Over]
    /\ stamped \in [Grants -> Nat]
    /\ picked \in [Withdrawals \cup Passes -> SUBSET Grants]
    /\ found \in [Checks -> [answer : Answers, since : Int]]
    /\ cached \in [Processes -> [answer : Answers, since : Int]]
    /\ heldAt \in [Answers -> -1 .. LastMoment]
    /\ overtaken \subseteq Grants \cup Withdrawals

ConsentInit ==
    /\ moment = 0
    /\ stamp = 0
    /\ rows = {}
    /\ reached = [c \in ConsentCalls |-> "start"]
    /\ stamped = [g \in Grants |-> 0]
    /\ picked = [c \in Withdrawals \cup Passes |-> {}]
    /\ found = [q \in Checks |-> Nothing]
    /\ cached = [p \in Processes |-> Nothing]
    /\ heldAt = [a \in Answers |-> IF a = "yes" THEN -1 ELSE 0]
    /\ overtaken = {}

-----------------------------------------------------------------------------

Latest == {r \in rows : \A s \in rows : s.updated <= r.updated}

Lapsed(r) == r.expires <= moment

(* Mutant: any granted row will do. *)
Consented_Any == \E r \in rows : r.status = "granted" /\ ~ Lapsed(r)

(***************************************************************************)
(* has_consent: the latest row is granted and has not expired.             *)
(***************************************************************************)
Consented == \E r \in Latest : r.status = "granted" /\ ~ Lapsed(r)

Answer == IF Consented THEN "yes" ELSE "no"

(***************************************************************************)
(* History: the answer that is right after the step is right now.          *)
(***************************************************************************)
Noted == heldAt' = [heldAt EXCEPT ![Answer'] = moment']

Meets(c, opposite) ==
    overtaken' = overtaken \cup {d \in opposite : reached[d] # "start"}
                       \cup (IF \E d \in opposite : reached[d] \notin Over \cup {"start"} THEN {c} ELSE {})

Grant(g) ==
    /\ reached[g] = "start"
    /\ stamp' = stamp + 1
    /\ stamped' = [stamped EXCEPT ![g] = stamp + 1]
    /\ reached' = [reached EXCEPT ![g] = "write"]
    /\ Meets(g, Withdrawals)
    /\ UNCHANGED <<moment, rows, picked, found, cached, heldAt>>

Record(g) ==
    /\ g \in Grants /\ reached[g] = "write"
    /\ rows' = rows \cup {[by |-> g, status |-> "granted", updated |-> stamped[g], expires |-> Never]}
    /\ reached' = [reached EXCEPT ![g] = "clear"]
    /\ UNCHANGED <<moment, stamp, stamped, picked, found, cached, overtaken>>
    /\ Noted

Withdraw(w) ==
    /\ w \in Withdrawals /\ reached[w] = "start"
    /\ picked' = [picked EXCEPT ![w] = {r.by : r \in Latest}]
    /\ reached' = [reached EXCEPT ![w] = IF rows = {} THEN "refused" ELSE "write"]
    /\ Meets(w, Grants)
    /\ UNCHANGED <<moment, stamp, rows, stamped, found, cached, heldAt>>

(***************************************************************************)
(* update_user_consent_status: the row becomes the latest.                 *)
(***************************************************************************)
Change(g, status) ==
    /\ stamp' = stamp + 1
    /\ rows' = {IF r.by = g THEN [r EXCEPT !.status = status, !.updated = stamp + 1] ELSE r : r \in rows}

WriteWithdrawn(w) ==
    /\ w \in Withdrawals /\ reached[w] = "write"
    /\ \E g \in picked[w] : Change(g, "withdrawn")
    /\ reached' = [reached EXCEPT ![w] = "clear"]
    /\ UNCHANGED <<moment, stamped, picked, found, cached, overtaken>>
    /\ Noted

ClearCache(c) ==
    /\ reached[c] = "clear"
    /\ cached' = [cached EXCEPT ![ProcessOf[c]] = Nothing]
    /\ reached' = [reached EXCEPT ![c] = "done"]
    /\ UNCHANGED <<moment, stamp, rows, stamped, picked, found, heldAt, overtaken>>

(***************************************************************************)
(* check_expired_consents: read the granted rows, then expire one by one.  *)
(***************************************************************************)
Pass(e) ==
    /\ e \in Passes /\ reached[e] = "start"
    /\ picked' = [picked EXCEPT ![e] = {r.by : r \in {q \in rows : q.status = "granted" /\ Lapsed(q)}}]
    /\ reached' = [reached EXCEPT ![e] = "write"]
    /\ UNCHANGED <<moment, stamp, rows, stamped, found, cached, heldAt, overtaken>>

Expire(e) ==
    /\ e \in Passes /\ reached[e] = "write"
    /\ IF picked[e] = {}
       THEN reached' = [reached EXCEPT ![e] = "done"] /\ UNCHANGED <<stamp, rows, picked>>
       ELSE \E g \in picked[e] :
               /\ Change(g, "expired")
               /\ picked' = [picked EXCEPT ![e] = @ \ {g}]
               /\ UNCHANGED reached
    /\ UNCHANGED <<moment, stamped, found, cached, overtaken>>
    /\ Noted

(***************************************************************************)
(* has_consent_cached: the time is read first, and goes with the answer.   *)
(***************************************************************************)
Check(q) ==
    /\ q \in Checks /\ reached[q] = "start"
    /\ IF moment - cached[ProcessOf[q]].since < Ttl
       THEN reached' = [reached EXCEPT ![q] = "done"] /\ UNCHANGED found
       ELSE /\ reached' = [reached EXCEPT ![q] = "read"]
            /\ found' = [found EXCEPT ![q].since = moment]
    /\ UNCHANGED <<moment, stamp, rows, stamped, picked, cached, heldAt, overtaken>>

ReadConsent(q) ==
    /\ reached[q] = "read"
    /\ found' = [found EXCEPT ![q].answer = Answer]
    /\ reached' = [reached EXCEPT ![q] = "store"]
    /\ UNCHANGED <<moment, stamp, rows, stamped, picked, cached, heldAt, overtaken>>

(* Mutant: the entry is as old as its storing. *)
Store_Now(q) ==
    /\ reached[q] = "store"
    /\ cached' = [cached EXCEPT ![ProcessOf[q]] = [found[q] EXCEPT !.since = moment]]
    /\ reached' = [reached EXCEPT ![q] = "done"]
    /\ UNCHANGED <<moment, stamp, rows, stamped, picked, found, heldAt, overtaken>>

Store(q) ==
    /\ reached[q] = "store"
    /\ cached' = [cached EXCEPT ![ProcessOf[q]] = found[q]]
    /\ reached' = [reached EXCEPT ![q] = "done"]
    /\ UNCHANGED <<moment, stamp, rows, stamped, picked, found, heldAt, overtaken>>

(***************************************************************************)
(* The service never gives a row an end: an application does.              *)
(***************************************************************************)
SetExpiry ==
    /\ \E r \in rows :
          /\ r.expires = Never /\ r.status = "granted"
          /\ rows' = (rows \ {r}) \cup {[r EXCEPT !.expires = moment + 1]}
    /\ UNCHANGED <<moment, stamp, reached, stamped, picked, found, cached, heldAt, overtaken>>

TimePasses ==
    /\ moment < LastMoment
    /\ moment' = moment + 1
    /\ UNCHANGED <<stamp, rows, reached, stamped, picked, found, cached, overtaken>>
    /\ Noted

(***************************************************************************)
(* The database or a listener raises, or the request is cut off.           *)
(***************************************************************************)
ConsentFails(c) ==
    /\ reached[c] \notin Over \cup {"start"}
    /\ reached' = [reached EXCEPT ![c] = "failed"]
    /\ UNCHANGED <<moment, stamp, rows, stamped, picked, found, cached, heldAt, overtaken>>

ConsentNext ==
    \/ \E g \in Grants : Grant(g) \/ Record(g)
    \/ \E w \in Withdrawals : Withdraw(w) \/ WriteWithdrawn(w)
    \/ \E e \in Passes : Pass(e) \/ Expire(e)
    \/ \E q \in Checks : Check(q) \/ ReadConsent(q) \/ Store(q)
    \/ \E c \in ConsentCalls : ClearCache(c) \/ ConsentFails(c)
    \/ SetExpiry
    \/ TimePasses

ConsentSpec == ConsentInit /\ [][ConsentNext]_consentVars

-----------------------------------------------------------------------------

(***************************************************************************)
(* Whatever overlaps or fails, an answer served from a cache was the right *)
(* one at some moment since its entry was asked for, so at most the time   *)
(* to live ago.                                                            *)
(***************************************************************************)
AnswerWasTrue ==
    \A p \in Processes :
        moment - cached[p].since < Ttl => heldAt[cached[p].answer] >= cached[p].since

(***************************************************************************)
(* After a withdrawal that was answered there is no consent, unless a      *)
(* grant overlapped it or came later.                                      *)
(***************************************************************************)
WithdrawalStands ==
    \A w \in Withdrawals : reached[w] = "done" /\ w \notin overtaken => ~ Consented

(***************************************************************************)
(* After a grant that was answered the deciding row is a granted one,      *)
(* unless a withdrawal overlapped or came later, or the row that decides   *)
(* has lapsed, as one does that an expiry pass stamps above a newer row.   *)
(***************************************************************************)
GrantStands ==
    \A g \in Grants :
        reached[g] = "done" /\ g \notin overtaken =>
            \A r \in Latest : r.status = "granted" \/ Lapsed(r)

ConsentSafe ==
    /\ AnswerWasTrue
    /\ WithdrawalStands
    /\ GrantStands
=============================================================================
