----------------------------- MODULE AuditTrail -----------------------------
(***************************************************************************)
(* The audit log and its hash chain (swx_core/services/audit_logger.py,    *)
(* services/compliance/audit_integrity_service.py over                     *)
(* repositories/audit_integrity_repository.py).                            *)
(*                                                                         *)
(* Every entry carries a SHA-256 of its own fields and of its              *)
(* predecessor's hash; the application refuses to start when a walk        *)
(* through the log in the order of (timestamp, id) finds one that does not *)
(* match.  An entry is named by its place in that order, which is given    *)
(* when it is constructed, not when it is committed.  Its hash is the      *)
(* sequence of the entries it was computed over: equal hashes are equal    *)
(* sequences.  An empty sequence is a NULL.                                *)
(*                                                                         *)
(* A writer is a database session in log_event: the entry is committed     *)
(* first, then its predecessor is read and locked, then the hash written   *)
(* and committed.  Sessions run at the same time, in one process or many.  *)
(***************************************************************************)
EXTENDS Integers, Sequences, FiniteSets

CONSTANTS
    Writers,
    MaxEntries      \* bound: entries the log may get before writers rest

ASSUME EntriesAssumption == MaxEntries \in Nat

VARIABLES
    hash,       \* hash[e]: the column log_hash of the committed row e
    altered,    \* rows whose other columns changed after they were hashed
    writer,     \* writer[w]: where the session is
    clock,      \* the entries constructed so far
    up,         \* the application runs
    disturbed   \* history: entries overlapped, were abandoned or removed

trail == <<hash, altered, writer, clock, up, disturbed>>

Ids == Nat \ {0}

Idle == [pc |-> "idle", id |-> 0, previous |-> <<>>, locked |-> {}]

Writer == [pc: {"idle", "insert", "read", "hash", "remove"}, id: Nat,
           previous: Seq(Ids), locked: SUBSET Ids]

Stored == DOMAIN hash

Busy == {w \in Writers : writer[w].pc # "idle"}

(***************************************************************************)
(* Committed rows without a hash, whose writer is still at work.           *)
(***************************************************************************)
InFlight == {writer[w].id : w \in {v \in Writers : writer[v].pc \in {"read", "hash", "remove"}}}

TrailTypeOK ==
    /\ Stored \subseteq Ids
    /\ hash \in [Stored -> Seq(Ids)]
    /\ altered \subseteq Ids
    /\ writer \in [Writers -> Writer]
    /\ clock \in Nat
    /\ up \in BOOLEAN
    /\ disturbed \in BOOLEAN

TrailInit ==
    /\ hash = [e \in {} |-> <<>>]
    /\ altered = {}
    /\ writer = [w \in Writers |-> Idle]
    /\ clock = 0
    /\ up = TRUE
    /\ disturbed = FALSE

-----------------------------------------------------------------------------
(* The walk through the chain *)

Before(e) == {x \in Stored : x < e}

IsLast(p, S) == p \in S /\ \A x \in S : x <= p

(***************************************************************************)
(* The hash of e computed anew over the predecessor's stored hash is the   *)
(* stored one.                                                             *)
(***************************************************************************)
Matches(e) ==
    \/ Before(e) = {} /\ hash[e] = <<e>>
    \/ \E p \in Before(e) : IsLast(p, Before(e)) /\ hash[e] = Append(hash[p], e)

Tampered == {e \in Stored : e \in altered \/ ~ Matches(e)}

-----------------------------------------------------------------------------
(* log_event *)

Become(w, state) == writer' = [writer EXCEPT ![w] = state]

Rest(w) == Become(w, Idle)

Begin(w) ==
    /\ up
    /\ writer[w].pc = "idle"
    /\ clock' = clock + 1
    /\ Become(w, [Idle EXCEPT !.pc = "insert", !.id = clock'])
    /\ disturbed' = (disturbed \/ Busy # {})
    /\ UNCHANGED <<hash, altered, up>>

Insert(w) ==
    /\ writer[w].pc = "insert"
    /\ hash' = [e \in Stored \cup {writer[w].id} |->
                    IF e = writer[w].id THEN <<>> ELSE hash[e]]
    /\ Become(w, [writer[w] EXCEPT !.pc = "read"])
    /\ UNCHANGED <<altered, clock, up, disturbed>>

(***************************************************************************)
(* Any error before the first commit is logged and rolled back: the caller *)
(* does not learn of it.                                                   *)
(***************************************************************************)
InsertFails(w) ==
    /\ writer[w].pc = "insert"
    /\ Rest(w)
    /\ UNCHANGED <<hash, altered, clock, up, disturbed>>

(* Mutant: the query forgets AuditLog.id != current_log_id. *)
Unlocked_Self(w) == {e \in Stored : \A v \in Writers \ {w} : e \notin writer[v].locked}

(***************************************************************************)
(* SELECT ... FOR UPDATE SKIP LOCKED: rows another session holds are       *)
(* passed over, rows not yet hashed are not.                               *)
(***************************************************************************)
Unlocked(w) ==
    {e \in Stored \ {writer[w].id} : \A v \in Writers \ {w} : e \notin writer[v].locked}

ReadPrevious(w) ==
    /\ writer[w].pc = "read"
    /\ \/ /\ Unlocked(w) = {}
          /\ Become(w, [writer[w] EXCEPT !.pc = "hash"])
       \/ \E p \in Unlocked(w) :
            /\ IsLast(p, Unlocked(w))
            /\ Become(w, [writer[w] EXCEPT !.pc = "hash", !.previous = hash[p], !.locked = {p}])
    /\ UNCHANGED <<hash, altered, clock, up, disturbed>>

WriteHash(w) ==
    /\ writer[w].pc = "hash"
    /\ hash' = [hash EXCEPT ![writer[w].id] = Append(writer[w].previous, writer[w].id)]
    /\ Rest(w)
    /\ UNCHANGED <<altered, clock, up, disturbed>>

HashFails(w) ==
    /\ writer[w].pc \in {"read", "hash"}
    /\ Become(w, [writer[w] EXCEPT !.pc = "remove"])
    /\ UNCHANGED <<hash, altered, clock, up, disturbed>>

RemoveUnhashed(w) ==
    /\ writer[w].pc = "remove"
    /\ hash' = [e \in Stored \ {writer[w].id} |-> hash[e]]
    /\ Rest(w)
    /\ UNCHANGED <<altered, clock, up, disturbed>>

RemoveFails(w) ==
    /\ writer[w].pc = "remove"
    /\ Rest(w)
    /\ disturbed' = TRUE
    /\ UNCHANGED <<hash, altered, clock, up>>

(***************************************************************************)
(* The task is cancelled, which no handler of log_event catches.           *)
(***************************************************************************)
Cancel(w) ==
    /\ writer[w].pc # "idle"
    /\ Rest(w)
    /\ disturbed' = (disturbed \/ writer[w].pc # "insert")
    /\ UNCHANGED <<hash, altered, clock, up>>

-----------------------------------------------------------------------------
(* Retention *)

Expired(c) == {e \in Stored : e <= c /\ \A w \in Busy : c < writer[w].id}

(***************************************************************************)
(* One batch of run_retention, which selects expired rows in no order, or  *)
(* the whole of delete_expired_audit_logs.                                 *)
(***************************************************************************)
Purge ==
    /\ up
    /\ \E c \in 1..clock : \E S \in SUBSET Expired(c) \ {{}} :
            hash' = [e \in Stored \ S |-> hash[e]]
    /\ disturbed' = TRUE
    /\ UNCHANGED <<altered, writer, clock, up>>

Anonymize ==
    /\ up
    /\ \E c \in 1..clock :
            /\ Expired(c) \ altered # {}
            /\ altered' = altered \cup Expired(c)
    /\ disturbed' = TRUE
    /\ UNCHANGED <<hash, writer, clock, up>>

-----------------------------------------------------------------------------
(* The process *)

Stop ==
    /\ up
    /\ Busy = {}
    /\ up' = FALSE
    /\ UNCHANGED <<hash, altered, writer, clock, disturbed>>

Crash ==
    /\ up
    /\ up' = FALSE
    /\ writer' = [w \in Writers |-> Idle]
    /\ disturbed' = (disturbed \/ InFlight # {})
    /\ UNCHANGED <<hash, altered, clock>>

(***************************************************************************)
(* check_startup_integrity raises, and nothing starts, when an entry does  *)
(* not match.                                                              *)
(***************************************************************************)
Start ==
    /\ ~ up
    /\ Tampered = {}
    /\ up' = TRUE
    /\ UNCHANGED <<hash, altered, writer, clock, disturbed>>

LogStep(w) ==
    \/ Insert(w)
    \/ InsertFails(w)
    \/ ReadPrevious(w)
    \/ WriteHash(w)
    \/ HashFails(w)
    \/ RemoveUnhashed(w)
    \/ RemoveFails(w)

TrailNext ==
    \/ \E w \in Writers : Begin(w) \/ LogStep(w) \/ Cancel(w)
    \/ Purge
    \/ Anonymize
    \/ Stop
    \/ Crash
    \/ Start

TrailSpec == TrailInit /\ [][TrailNext]_trail

-----------------------------------------------------------------------------

(***************************************************************************)
(* What the chain is worth: as long as entries are written one at a time,  *)
(* none is abandoned between its commit and its hash, and none is removed  *)
(* or anonymized, the walk of get_integrity_report finds at most the entry *)
(* that is being written.                                                  *)
(***************************************************************************)
SerialChainMatches == ~ disturbed => Tampered \subseteq InFlight
=============================================================================
