------------------------------- MODULE Usage -------------------------------
(***************************************************************************)
(* Metered usage of one account (swx_core/services/billing/                *)
(* usage_metering_service.py over usage_window_service.py).                *)
(*                                                                         *)
(* The counters are keys in Redis: tokens used in the month and in each    *)
(* window, resets of each window and of the day.  A call reads and writes  *)
(* them one by one; each of these is a step and is atomic, nothing else    *)
(* is.  Windows are consecutive: a key names the window it counts for.     *)
(* All windows of the model lie in one day of one month.                   *)
(***************************************************************************)
EXTENDS Integers, FiniteSets

CONSTANTS
    Charges,        \* calls of record_and_charge
    Tokens,         \* Tokens[q]: input_tokens + output_tokens
    Resets,         \* calls of reset_window
    WindowQuota,    \* QUOTA_WINDOW_DEFAULT_TOKENS
    MonthQuota,     \* QUOTA_MONTHLY_DEFAULT_TOKENS
    WindowResets,   \* QUOTA_WINDOW_MAX_RESETS
    DayResets,      \* QUOTA_DAILY_MAX_RESETS
    LastWindow      \* bound: windows until time stands still

ASSUME UsageAssumption ==
    /\ Tokens \in [Charges -> Nat \ {0}]
    /\ {WindowQuota, MonthQuota, WindowResets, DayResets, LastWindow} \subseteq Nat
    /\ Charges \cap Resets = {}

VARIABLES
    window,     \* the current window
    month,      \* tokens counted in the month
    used,       \* used[w]: tokens counted in window w
    resets,     \* resets[w]: resets counted in window w
    day,        \* resets counted in the day
    usage,      \* usage[q]: where the call is, and its window
    charged,    \* history: charged[w]: tokens counted in w, seen in w and paid
    zeroed,     \* history: how often the counter of w was set to zero
    crowded     \* history: two resets ran at once

usageVars == <<window, month, used, resets, day, usage, charged, zeroed, crowded>>

Windows == 0..LastWindow

Zeros == [w \in Windows |-> 0]

(***************************************************************************)
(* The sum of what the counters of f show: a pair for each unit.           *)
(***************************************************************************)
Singly(f) == UNION {{x} \X (1..f[x]) : x \in DOMAIN f}

Total(f) == Cardinality(Singly(f))

Calls == Charges \cup Resets

UsagePC == {"new", "window", "status", "check", "other", "charge", "daily", "count", "day", "zero",
            "done", "refused", "failed"}

UsageTypeOK ==
    /\ window \in Windows
    /\ month \in Nat
    /\ used \in [Windows -> Nat]
    /\ resets \in [Windows -> Nat]
    /\ day \in Nat
    /\ usage \in [Calls -> [pc: UsagePC, at: Windows]]
    /\ charged \in [Windows -> Nat]
    /\ zeroed \in [Windows -> Nat]
    /\ crowded \in BOOLEAN

UsageInit ==
    /\ window = 0
    /\ month = 0
    /\ used = Zeros
    /\ resets = Zeros
    /\ day = 0
    /\ usage = [q \in Calls |-> [pc |-> "new", at |-> 0]]
    /\ charged = Zeros
    /\ zeroed = Zeros
    /\ crowded = FALSE

-----------------------------------------------------------------------------

UAt(q, label) == usage[q].pc = label

UGoto(q, label) == usage' = [usage EXCEPT ![q].pc = label]

UGotoAt(q, label, w) == usage' = [usage EXCEPT ![q] = [pc |-> label, at |-> w]]

UGotoNow(q, label) == UGotoAt(q, label, window)

NextWindow ==
    /\ window < LastWindow
    /\ window' = window + 1
    /\ UNCHANGED <<month, used, resets, day, usage, charged, zeroed, crowded>>

(* Mutant: only the window is counted. *)
CountMonth_WindowOnly(q) ==
    /\ UAt(q, "new")
    /\ UGoto(q, "window")
    /\ UNCHANGED <<window, month, used, resets, day, charged, zeroed, crowded>>

(***************************************************************************)
(* record_usage counts before anybody asks whether there is any quota left.*)
(***************************************************************************)
CountMonth(q) ==
    /\ UAt(q, "new")
    /\ month' = month + Tokens[q]
    /\ UGoto(q, "window")
    /\ UNCHANGED <<window, used, resets, day, charged, zeroed, crowded>>

CountWindow(q) ==
    /\ UAt(q, "window")
    /\ used' = [used EXCEPT ![window] = @ + Tokens[q]]
    /\ UGotoNow(q, "status")
    /\ UNCHANGED <<window, month, resets, day, charged, zeroed, crowded>>

(***************************************************************************)
(* get_status names the window anew, and reads the month first.  It may be *)
(* a later window than the one the call was counted in.                    *)
(***************************************************************************)
ReadMonth(q) ==
    /\ UAt(q, "status")
    /\ \E w \in usage[q].at .. window :
          UGotoAt(q, IF month >= MonthQuota THEN "refused"
                     ELSE IF w = usage[q].at THEN "check" ELSE "other", w)
    /\ UNCHANGED <<window, month, used, resets, day, charged, zeroed, crowded>>

(* Mutant: the last token of the quota passes. *)
ReadWindow_Inclusive(q) ==
    /\ UAt(q, "check")
    /\ UGoto(q, IF used[usage[q].at] > WindowQuota THEN "refused" ELSE "charge")
    /\ charged' = IF used[usage[q].at] <= WindowQuota
                  THEN [charged EXCEPT ![usage[q].at] = @ + Tokens[q]] ELSE charged
    /\ UNCHANGED <<window, month, used, resets, day, zeroed, crowded>>

ReadWindow(q) ==
    /\ UAt(q, "check")
    /\ UGoto(q, IF used[usage[q].at] >= WindowQuota THEN "refused" ELSE "charge")
    /\ charged' = IF used[usage[q].at] < WindowQuota
                  THEN [charged EXCEPT ![usage[q].at] = @ + Tokens[q]] ELSE charged
    /\ UNCHANGED <<window, month, used, resets, day, zeroed, crowded>>

(* In a later window the call has not been counted, and is not charged to. *)
ReadOtherWindow(q) ==
    /\ UAt(q, "other")
    /\ UGoto(q, IF used[usage[q].at] >= WindowQuota THEN "refused" ELSE "charge")
    /\ UNCHANGED <<window, month, used, resets, day, charged, zeroed, crowded>>

(***************************************************************************)
(* debit_wallet takes the money or raises.                                 *)
(***************************************************************************)
Debit(q) ==
    /\ UAt(q, "charge")
    /\ \/ UGoto(q, "done")
       \/ UGoto(q, "failed")
    /\ UNCHANGED <<window, month, used, resets, day, charged, zeroed, crowded>>

-----------------------------------------------------------------------------

Resetting == {q \in Resets : usage[q].pc \in {"daily", "count", "day", "zero"}}

CheckWindowResets(q) ==
    /\ UAt(q, "new")
    /\ UGotoNow(q, IF resets[window] >= WindowResets THEN "refused" ELSE "daily")
    /\ crowded' = (crowded \/ Resetting # {})
    /\ UNCHANGED <<window, month, used, resets, day, charged, zeroed>>

(* Mutant: one reset more than the day allows. *)
CheckDayResets_OffByOne(q) ==
    /\ UAt(q, "daily")
    /\ UGoto(q, IF day > DayResets THEN "refused" ELSE "count")
    /\ UNCHANGED <<window, month, used, resets, day, charged, zeroed, crowded>>

CheckDayResets(q) ==
    /\ UAt(q, "daily")
    /\ UGoto(q, IF day >= DayResets THEN "refused" ELSE "count")
    /\ UNCHANGED <<window, month, used, resets, day, charged, zeroed, crowded>>

(* Mutant: the day is not counted. *)
CountReset_SkipsDay(q) ==
    /\ UAt(q, "count")
    /\ resets' = [resets EXCEPT ![usage[q].at] = @ + 1]
    /\ UGoto(q, "zero")
    /\ UNCHANGED <<window, month, used, day, charged, zeroed, crowded>>

CountReset(q) ==
    /\ UAt(q, "count")
    /\ resets' = [resets EXCEPT ![usage[q].at] = @ + 1]
    /\ UGoto(q, "day")
    /\ UNCHANGED <<window, month, used, day, charged, zeroed, crowded>>

CountDay(q) ==
    /\ UAt(q, "day")
    /\ day' = day + 1
    /\ UGoto(q, "zero")
    /\ UNCHANGED <<window, month, used, resets, charged, zeroed, crowded>>

SetZero(q) ==
    /\ UAt(q, "zero")
    /\ used' = [used EXCEPT ![usage[q].at] = 0]
    /\ zeroed' = [zeroed EXCEPT ![usage[q].at] = @ + 1]
    /\ UGoto(q, "done")
    /\ UNCHANGED <<window, month, resets, day, charged, crowded>>

(***************************************************************************)
(* Redis raises, or the process dies, before the next step of the call.    *)
(***************************************************************************)
UsageFails(q) ==
    /\ usage[q].pc \notin {"done", "refused", "failed"}
    /\ UGoto(q, "failed")
    /\ UNCHANGED <<window, month, used, resets, day, charged, zeroed, crowded>>

UsageNext ==
    \/ NextWindow
    \/ \E q \in Charges :
        \/ CountMonth(q)
        \/ CountWindow(q)
        \/ ReadMonth(q)
        \/ ReadWindow(q)
        \/ ReadOtherWindow(q)
        \/ Debit(q)
    \/ \E q \in Resets :
        CheckWindowResets(q) \/ CheckDayResets(q) \/ CountReset(q) \/ CountDay(q) \/ SetZero(q)
    \/ \E q \in Calls : UsageFails(q)

UsageSpec == UsageInit /\ [][UsageNext]_usageVars

-----------------------------------------------------------------------------

(***************************************************************************)
(* Counting comes before checking, so calls that run together cannot all   *)
(* pass on the last tokens: what is paid in a window whose counter nobody  *)
(* reset stays below its quota.                                            *)
(***************************************************************************)
ChargedWithinQuota == \A w \in Windows : zeroed[w] = 0 /\ charged[w] > 0 => charged[w] < WindowQuota

(***************************************************************************)
(* Whatever fails in between, a window is never reset without the reset    *)
(* being counted against the window and the day.                           *)
(***************************************************************************)
ResetsCounted ==
    /\ \A w \in Windows : zeroed[w] <= resets[w]
    /\ Total(zeroed) <= day

(***************************************************************************)
(* "guardrails: max 1/window, max 3/day" (docs BILLING.md): they hold as   *)
(* long as one reset at a time is running.                                 *)
(***************************************************************************)
ResetsLimited ==
    ~ crowded => /\ \A w \in Windows : resets[w] <= WindowResets
                 /\ day <= DayResets

(***************************************************************************)
(* The month has counted at least what its windows show.                   *)
(***************************************************************************)
MonthCoversWindows == Total(used) <= month

(***************************************************************************)
(* The counters of a window, of the month and of the resets stay           *)
(* consistent with what was charged and reset.                             *)
(***************************************************************************)
UsageSafe ==
    /\ ChargedWithinQuota
    /\ ResetsCounted
    /\ ResetsLimited
    /\ MonthCoversWindows
=============================================================================
