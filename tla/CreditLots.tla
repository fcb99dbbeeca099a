----------------------------- MODULE CreditLots -----------------------------
(***************************************************************************)
(* Credit lots of one account (swx_core/services/billing/                  *)
(* credit_expiry_service.py): tokens bought or granted, spent in FIFO      *)
(* order and written off when they expire.                                 *)
(*                                                                         *)
(* A session reads the lots with something left, computes on what it has   *)
(* read and commits the new values of tokens_consumed.  No row is locked   *)
(* between the two.                                                        *)
(***************************************************************************)
EXTENDS Integers, FiniteSets

CONSTANTS
    Lots,           \* numbered in the order of (source, created_at)
    LotTokens,      \* LotTokens[l]: tokens_total
    Expiring,       \* the lots with an expires_at
    Consumers,      \* calls of consume_fifo
    Wanted,         \* Wanted[q]: the tokens asked for
    Sweeps          \* calls of expire_stale_lots

ASSUME LotsAssumption ==
    /\ Lots \subseteq Nat
    /\ LotTokens \in [Lots -> Nat \ {0}]
    /\ Expiring \subseteq Lots
    /\ Wanted \in [Consumers -> Nat]
    /\ Consumers \cap Sweeps = {}

VARIABLES
    lots,       \* the lots created so far
    consumed,   \* consumed[l]: tokens_consumed
    stale,      \* the lots whose expires_at has passed
    job,        \* job[q]: where the session is, and the lots it has read
    granted,    \* history: tokens handed out from a lot
    expired,    \* history: tokens written off from a lot
    raced       \* history: lots written from a value that was no longer theirs

lotsVars == <<lots, consumed, stale, job, granted, expired, raced>>

Sessions == Consumers \cup Sweeps

None == [l \in Lots |-> 0]

LotsTypeOK ==
    /\ lots \subseteq Lots
    /\ consumed \in [Lots -> Nat]
    /\ \A l \in Lots : consumed[l] <= LotTokens[l]
    /\ stale \subseteq Expiring
    /\ job \in [Sessions -> [pc: {"new", "read", "done"}, seen: SUBSET Lots, value: [Lots -> Nat]]]
    /\ granted \in [Lots -> Nat]
    /\ expired \in [Lots -> Nat]
    /\ raced \subseteq Lots

LotsInit ==
    /\ lots = {}
    /\ consumed = None
    /\ stale = {}
    /\ job = [q \in Sessions |-> [pc |-> "new", seen |-> {}, value |-> None]]
    /\ granted = None
    /\ expired = None
    /\ raced = {}

-----------------------------------------------------------------------------

CreateLot(l) ==
    /\ l \notin lots
    /\ lots' = lots \cup {l}
    /\ UNCHANGED <<consumed, stale, job, granted, expired, raced>>

LotExpires(l) ==
    /\ l \in lots \cap Expiring
    /\ l \notin stale
    /\ stale' = stale \cup {l}
    /\ UNCHANGED <<lots, consumed, job, granted, expired, raced>>

Read(q, rows) ==
    /\ job[q].pc = "new"
    /\ job' = [job EXCEPT ![q] = [pc |-> "read",
                                  seen |-> {l \in rows : consumed[l] < LotTokens[l]},
                                  value |-> consumed]]
    /\ UNCHANGED <<lots, consumed, stale, granted, expired, raced>>

ReadForConsumer(q) == Read(q, lots)

ReadForSweep(q) == Read(q, lots \cap stale)

Available(q, l) == LotTokens[l] - job[q].value[l]

(***************************************************************************)
(* What the lots of S have left, a pair for each token.                    *)
(***************************************************************************)
TokensIn(q, S) == Cardinality(UNION {{l} \X (1..Available(q, l)) : l \in S})

(* Mutant: the newest lot gives first. *)
TakeFrom_Newest(q, l) ==
    LET earlier == TokensIn(q, {k \in job[q].seen : k > l})
        missing == IF earlier < Wanted[q] THEN Wanted[q] - earlier ELSE 0
    IN  IF l \notin job[q].seen THEN 0
        ELSE IF missing < Available(q, l) THEN missing ELSE Available(q, l)

(***************************************************************************)
(* Each lot in turn gives what it has left, as far as tokens are missing.  *)
(***************************************************************************)
TakeFrom(q, l) ==
    LET earlier == TokensIn(q, {k \in job[q].seen : k < l})
        missing == IF earlier < Wanted[q] THEN Wanted[q] - earlier ELSE 0
    IN  IF l \notin job[q].seen THEN 0
        ELSE IF missing < Available(q, l) THEN missing ELSE Available(q, l)

(* Mutant: tokens_consumed is set instead of added to. *)
Write_Overwrites(q, take) ==
    LET written == {l \in Lots : take[l] > 0} IN
    /\ consumed' = [l \in Lots |-> IF l \in written THEN take[l] ELSE consumed[l]]
    /\ raced' = raced \cup {l \in written : consumed[l] # job[q].value[l]}
    /\ job' = [job EXCEPT ![q].pc = "done"]
    /\ UNCHANGED <<lots, stale>>

Write(q, take) ==
    LET written == {l \in Lots : take[l] > 0} IN
    /\ consumed' = [l \in Lots |-> IF l \in written THEN job[q].value[l] + take[l] ELSE consumed[l]]
    /\ raced' = raced \cup {l \in written : consumed[l] # job[q].value[l]}
    /\ job' = [job EXCEPT ![q].pc = "done"]
    /\ UNCHANGED <<lots, stale>>

Consume(q) ==
    LET take == [l \in Lots |-> TakeFrom(q, l)] IN
    /\ job[q].pc = "read"
    /\ Write(q, take)
    /\ granted' = [l \in Lots |-> granted[l] + take[l]]
    /\ UNCHANGED expired

ExpireStale(q) ==
    LET take == [l \in Lots |-> IF l \in job[q].seen THEN Available(q, l) ELSE 0] IN
    /\ job[q].pc = "read"
    /\ Write(q, take)
    /\ expired' = [l \in Lots |-> expired[l] + take[l]]
    /\ UNCHANGED granted

LotsJobFails(q) ==
    /\ job[q].pc = "read"
    /\ job' = [job EXCEPT ![q].pc = "done"]
    /\ UNCHANGED <<lots, consumed, stale, granted, expired, raced>>

LotsNext ==
    \/ \E l \in Lots : CreateLot(l) \/ LotExpires(l)
    \/ \E q \in Consumers : ReadForConsumer(q) \/ Consume(q)
    \/ \E q \in Sweeps : ReadForSweep(q) \/ ExpireStale(q)
    \/ \E q \in Sessions : LotsJobFails(q)

LotsSpec == LotsInit /\ [][LotsNext]_lotsVars

-----------------------------------------------------------------------------

(***************************************************************************)
(* Every token of a lot is handed out or written off at most once, unless  *)
(* two sessions wrote the lot from the same reading.                       *)
(***************************************************************************)
TokensOnce ==
    \A l \in Lots \ raced : consumed[l] = granted[l] + expired[l]

(***************************************************************************)
(* "Consume tokens from credit lots in FIFO order": a session hands out    *)
(* tokens of a lot only if it leaves nothing in the earlier lots it saw.   *)
(***************************************************************************)
FifoOrder ==
    [][\A q \in Consumers, l \in Lots :
        (job'[q].pc = "done" /\ job[q].pc = "read" /\ granted'[l] > granted[l])
            => \A k \in job[q].seen : k < l => consumed'[k] = LotTokens[k]]_lotsVars
=============================================================================
