----------------------------- MODULE RateWindow -----------------------------
(***************************************************************************)
(* The sliding window of one rate limit key (swx_core/services/rate_limit/ *)
(* rate_limiter.py) and the counter of refusals behind it                  *)
(* (check_burst_abuse of abuse_detector.py).                               *)
(*                                                                         *)
(* The limit is a sorted set in Redis of the times of the requests.  A     *)
(* request takes its time first; the pipeline that drops old times, counts *)
(* the others and adds its own is atomic and runs later.  Times are as     *)
(* fine as the clock's: two requests may have the same, and then are one   *)
(* member.  The counter of refusals is an INCR and, if it gave 1, an       *)
(* EXPIRE in a call of its own.                                            *)
(***************************************************************************)
EXTENDS Integers, FiniteSets

CONSTANTS
    Checks,         \* calls of check_limit for the key
    Limit,          \* requests per window
    Span,           \* the window in ticks
    Violations,     \* refusals that raise the alarm
    AbuseSpan,      \* seconds the counter lives, in ticks
    LastTick        \* bound: ticks until time stands still

ASSUME RateAssumption ==
    /\ IsFiniteSet(Checks)
    /\ Limit \in Nat \ {0}
    /\ Span \in Nat \ {0}
    /\ Violations \in Nat \ {0}
    /\ AbuseSpan \in Nat \ {0}
    /\ LastTick \in Nat

Ticks == 0..LastTick
Never == -1

VARIABLES
    now,        \* the clock
    times,      \* the members of the sorted set
    check,      \* check[q]: where the request is, and its time
    count,      \* the counter of refusals
    dies,       \* when the counter expires, Never if it does not
    muddled,    \* history: pipelines ran out of order, or at one time
    orphaned    \* history: a call died between INCR and EXPIRE

rateVars == <<now, times, check, count, dies, muddled, orphaned>>

RateTypeOK ==
    /\ now \in Ticks
    /\ times \subseteq Ticks
    /\ check \in [Checks -> [pc: {"new", "sent", "passed", "incr", "expire", "refused", "alarm", "failed"},
                             at: Ticks]]
    /\ count \in 0..Cardinality(Checks)
    /\ dies \in Nat \cup {Never}
    /\ muddled \in BOOLEAN
    /\ orphaned \in BOOLEAN

RateInit ==
    /\ now = 0
    /\ times = {}
    /\ check = [q \in Checks |-> [pc |-> "new", at |-> 0]]
    /\ count = 0
    /\ dies = Never
    /\ muddled = FALSE
    /\ orphaned = FALSE

-----------------------------------------------------------------------------

(***************************************************************************)
(* Redis drops the counter when its time has come.  It drops the sorted    *)
(* set as well, a window after the last request; by then zremrangebyscore  *)
(* would drop each of its members.                                         *)
(***************************************************************************)
Tick ==
    /\ now < LastTick
    /\ now' = now + 1
    /\ count' = IF dies # Never /\ dies <= now' THEN 0 ELSE count
    /\ dies' = IF dies # Never /\ dies <= now' THEN Never ELSE dies
    /\ UNCHANGED <<times, check, muddled, orphaned>>

Send(q) ==
    /\ check[q].pc = "new"
    /\ check' = [check EXCEPT ![q] = [pc |-> "sent", at |-> now]]
    /\ UNCHANGED <<now, times, count, dies, muddled, orphaned>>

(* Mutant: nothing is dropped from the window. *)
Kept_All(t) == {x \in times : x > t - LastTick - Span}

Kept(t) == {x \in times : x > t - Span}

(* Mutant: one more than the limit. *)
Pipeline_OffByOne(q) ==
    LET t == check[q].at IN
    /\ check[q].pc = "sent"
    /\ times' = Kept(t) \cup {t}
    /\ check' = [check EXCEPT ![q].pc = IF Cardinality(Kept(t)) <= Limit THEN "passed" ELSE "incr"]
    /\ muddled' = (muddled \/ \E x \in times : x >= t)
    /\ UNCHANGED <<now, count, dies, orphaned>>

(***************************************************************************)
(* A refused request is added as well.                                     *)
(***************************************************************************)
Pipeline(q) ==
    LET t == check[q].at IN
    /\ check[q].pc = "sent"
    /\ times' = Kept(t) \cup {t}
    /\ check' = [check EXCEPT ![q].pc = IF Cardinality(Kept(t)) < Limit THEN "passed" ELSE "incr"]
    /\ muddled' = (muddled \/ \E x \in times : x >= t)
    /\ UNCHANGED <<now, count, dies, orphaned>>

(* Mutant: the first refusal sets no expiry. *)
Increment_NoExpire(q) ==
    /\ check[q].pc = "incr"
    /\ count' = count + 1
    /\ check' = [check EXCEPT ![q].pc = IF count' >= Violations THEN "alarm" ELSE "refused"]
    /\ UNCHANGED <<now, times, dies, muddled, orphaned>>

Increment(q) ==
    /\ check[q].pc = "incr"
    /\ count' = count + 1
    /\ check' = [check EXCEPT ![q].pc = CASE count' = 1 -> "expire"
                                          [] count' # 1 /\ count' >= Violations -> "alarm"
                                          [] OTHER -> "refused"]
    /\ UNCHANGED <<now, times, dies, muddled, orphaned>>

Expire(q) ==
    /\ check[q].pc = "expire"
    /\ dies' = IF count > 0 THEN now + AbuseSpan ELSE dies
    /\ check' = [check EXCEPT ![q].pc = IF Violations = 1 THEN "alarm" ELSE "refused"]
    /\ UNCHANGED <<now, times, count, muddled, orphaned>>

(***************************************************************************)
(* Redis is away or the process dies.  Before the pipeline the answer is   *)
(* that of RATE_LIMIT_FAIL_OPEN, by default a refusal that leaves no trace.*)
(***************************************************************************)
RateFails(q) ==
    /\ check[q].pc \in {"sent", "incr", "expire"}
    /\ check' = [check EXCEPT ![q].pc = "failed"]
    /\ orphaned' = (orphaned \/ check[q].pc = "expire")
    /\ UNCHANGED <<now, times, count, dies, muddled>>

RateStep(q) == Send(q) \/ Pipeline(q) \/ Increment(q) \/ Expire(q) \/ RateFails(q)

RateNext == Tick \/ \E q \in Checks : RateStep(q)

RateSpec == RateInit /\ [][RateNext]_rateVars

-----------------------------------------------------------------------------

Passed == {q \in Checks : check[q].pc = "passed"}

(***************************************************************************)
(* No stretch of a window's length holds more admitted requests than the   *)
(* limit, as long as the requests reach Redis one after the other in the   *)
(* order of their times.                                                   *)
(***************************************************************************)
LimitHolds ==
    ~ muddled => \A t \in Ticks : Cardinality({q \in Passed : check[q].at \in t..(t + Span - 1)}) <= Limit

(***************************************************************************)
(* A client that was silent for a window is admitted again: a request is   *)
(* refused only if Limit others were sent within its window.               *)
(***************************************************************************)
QuietClientsPass ==
    \A q \in Checks :
        check[q].pc \in {"incr", "expire", "refused", "alarm"}
            => Cardinality({r \in Checks \ {q} : /\ check[r].pc # "new"
                                                 /\ check[r].at > check[q].at - Span}) >= Limit

(***************************************************************************)
(* The counter of refusals is one that will expire, unless a call died     *)
(* between counting and setting the expiry, or is just there.              *)
(***************************************************************************)
CounterExpires ==
    (count > 0 /\ ~ orphaned /\ \A q \in Checks : check[q].pc # "expire") => dies # Never

(***************************************************************************)
(* The window admits no more than the limit and no less than it must, and  *)
(* what counts the refusals does not count for ever.                       *)
(***************************************************************************)
RateSafe ==
    /\ LimitHolds
    /\ QuietClientsPass
    /\ CounterExpires
=============================================================================
