------------------------------ MODULE ApiKeys ------------------------------
(***************************************************************************)
(* The API keys of one user (services/auth/api_key_service.py,             *)
(* repositories/api_key_scope_repository.py, guards/api_key_guard.py, and  *)
(* the expiry job services/compliance/api_key_lifecycle_service.py).       *)
(*                                                                         *)
(* Every call has a session of its own; each commit is a step, and the     *)
(* session writes only the columns it changed.  Time counts in periods: a  *)
(* new key lives KeyLife of them, and a key unused for IdleLimit is taken  *)
(* away.                                                                   *)
(***************************************************************************)
EXTENDS Naturals, FiniteSets

CONSTANTS
    Keys,           \* rows a call may insert
    Scopes,         \* resource:action pairs
    Creators,       \* calls of create_api_key
    Rotations,      \* calls of rotate_api_key
    Revocations,    \* calls of revoke_api_key, and of the guard's revoke_token
    Requests,       \* requests that carry a key
    ScopeEdits,     \* calls of update_scopes
    KeyLife,        \* API_KEY_DEFAULT_EXPIRY_DAYS
    IdleLimit,      \* API_KEY_MAX_INACTIVE_DAYS
    LastPeriod      \* bound on the clock

NoKey == "no key"

ASSUME KeysAssumption ==
    /\ KeyLife \in Nat /\ IdleLimit \in Nat /\ LastPeriod \in Nat
    /\ NoKey \notin Keys

VARIABLES
    period,         \* the clock
    key,            \* key[k]: a row of swx_api_key, with its scopes
    keyCall,        \* keyCall[c]: where a call is, its key and what it has read
    keySweep,       \* the expiry job: where it is and the rows it has read
    offAt,          \* history: offAt[k]: the period k was first turned off in
    letIn,          \* history: letIn[k]: the period k was last accepted in
    could,          \* history: could[k]: every scope k ever had
    reread          \* history: keys whose scopes were edited, or given to a key turned off

keyVars == <<period, key, keyCall, keySweep, offAt, letIn, could, reread>>

KeyCalls == Creators \cup Rotations \cup Revocations \cup Requests \cup ScopeEdits
NoPeriod == LastPeriod + KeyLife + 1

KeyTypeOK ==
    /\ period \in 0 .. LastPeriod
    /\ key \in [Keys -> [row : {"none", "active", "off"}, expires : 0 .. NoPeriod,
                         used : 0 .. NoPeriod, scopes : SUBSET Scopes, from : Keys \cup {NoKey}]]
    /\ keyCall \in [KeyCalls -> [pc : {"new", "off", "scopes", "insert", "grant", "link", "use", "remove", "over"},
                                 old : Keys \cup {NoKey}, made : Keys \cup {NoKey}, scopes : SUBSET Scopes]]
    /\ keySweep \in [pc : {"idle", "expired", "find", "inactive"}, rows : SUBSET Keys]
    /\ offAt \in [Keys -> 0 .. NoPeriod]
    /\ letIn \in [Keys -> 0 .. NoPeriod]
    /\ could \in [Keys -> SUBSET Scopes]
    /\ reread \subseteq Keys

KeyInit ==
    /\ period = 0
    /\ key = [k \in Keys |-> [row |-> "none", expires |-> 0, used |-> NoPeriod, scopes |-> {}, from |-> NoKey]]
    /\ keyCall = [c \in KeyCalls |-> [pc |-> "new", old |-> NoKey, made |-> NoKey, scopes |-> {}]]
    /\ keySweep = [pc |-> "idle", rows |-> {}]
    /\ offAt = [k \in Keys |-> NoPeriod]
    /\ letIn = [k \in Keys |-> NoPeriod]
    /\ could = [k \in Keys |-> {}]
    /\ reread = {}

-----------------------------------------------------------------------------

At(c, pc) == keyCall[c].pc = pc

Goes(c, pc) == keyCall' = [keyCall EXCEPT ![c].pc = pc]

Ends(c) == keyCall' = [keyCall EXCEPT ![c] = [pc |-> "over", old |-> NoKey, made |-> NoKey, scopes |-> {}]]

Rows == {k \in Keys : key[k].row # "none"}

(***************************************************************************)
(* create_api_key inserts the key and commits, and gives it its scopes in  *)
(* a second transaction; a rotation does the same for the new key.         *)
(***************************************************************************)
StartCreate(c, scopes) ==
    /\ At(c, "new")
    /\ keyCall' = [keyCall EXCEPT ![c] = [@ EXCEPT !.pc = "insert", !.scopes = scopes]]
    /\ UNCHANGED <<period, key, keySweep, offAt, letIn, could, reread>>

InsertKey(c, k) ==
    /\ At(c, "insert")
    /\ key[k].row = "none"
    /\ key' = [key EXCEPT ![k] = [@ EXCEPT !.row = "active", !.expires = period + KeyLife]]
    /\ keyCall' = [keyCall EXCEPT ![c] = [@ EXCEPT !.pc = "grant", !.made = k]]
    /\ UNCHANGED <<period, keySweep, offAt, letIn, could, reread>>

(* Mutant: a rotated key gets every scope. *)
AddScopes_All(c) ==
    LET k == keyCall[c].made IN
    /\ At(c, "grant")
    /\ key' = [key EXCEPT ![k].scopes = IF c \in Rotations THEN Scopes ELSE @ \cup keyCall[c].scopes]
    /\ could' = [could EXCEPT ![k] = @ \cup key'[k].scopes]
    /\ IF c \in Rotations THEN Goes(c, "link") ELSE Ends(c)
    /\ reread' = IF offAt[k] # NoPeriod THEN reread \cup {k} ELSE reread
    /\ UNCHANGED <<period, keySweep, offAt, letIn>>

AddScopes(c) ==
    LET k == keyCall[c].made IN
    /\ At(c, "grant")
    /\ key' = [key EXCEPT ![k].scopes = @ \cup keyCall[c].scopes]
    /\ could' = [could EXCEPT ![k] = @ \cup keyCall[c].scopes]
    /\ IF c \in Rotations THEN Goes(c, "link") ELSE Ends(c)
    /\ reread' = IF offAt[k] # NoPeriod THEN reread \cup {k} ELSE reread
    /\ UNCHANGED <<period, keySweep, offAt, letIn>>

-----------------------------------------------------------------------------

(***************************************************************************)
(* rotate_api_key: the key is loaded whatever its state, then turned off   *)
(* and its expiry moved a grace period ahead, before its scopes are read   *)
(* and the new key is made.                                                *)
(***************************************************************************)
StartRotation(c, k) ==
    /\ At(c, "new")
    /\ k \in Rows
    /\ keyCall' = [keyCall EXCEPT ![c] = [@ EXCEPT !.pc = "off", !.old = k]]
    /\ UNCHANGED <<period, key, keySweep, offAt, letIn, could, reread>>

(* Mutant: the old key stays. *)
DeactivateAndExtend_Grace(c) ==
    LET k == keyCall[c].old IN
    /\ At(c, "off") /\ c \in Rotations
    /\ key' = [key EXCEPT ![k].expires = period + 1]
    /\ Goes(c, "scopes")
    /\ UNCHANGED <<period, keySweep, offAt, letIn, could, reread>>

DeactivateAndExtend(c) ==
    LET k == keyCall[c].old IN
    /\ At(c, "off") /\ c \in Rotations
    /\ key' = [key EXCEPT ![k].row = "off", ![k].expires = period + 1]
    /\ offAt' = [offAt EXCEPT ![k] = IF @ = NoPeriod THEN period ELSE @]
    /\ Goes(c, "scopes")
    /\ UNCHANGED <<period, keySweep, letIn, could, reread>>

(* Mutant: the scopes are not read. *)
ReadScopes_None(c) ==
    /\ At(c, "scopes")
    /\ Goes(c, "insert")
    /\ UNCHANGED <<period, key, keySweep, offAt, letIn, could, reread>>

ReadScopes(c) ==
    /\ At(c, "scopes")
    /\ keyCall' = [keyCall EXCEPT ![c] = [@ EXCEPT !.pc = "insert", !.scopes = key[keyCall[c].old].scopes]]
    /\ UNCHANGED <<period, key, keySweep, offAt, letIn, could, reread>>

SetRotatedFrom(c) ==
    /\ At(c, "link")
    /\ key' = [key EXCEPT ![keyCall[c].made].from = keyCall[c].old]
    /\ Ends(c)
    /\ UNCHANGED <<period, keySweep, offAt, letIn, could, reread>>

(***************************************************************************)
(* revoke_api_key; the guard's revoke_token validates the key first.       *)
(***************************************************************************)
StartRevoke(c, k) ==
    /\ At(c, "new")
    /\ k \in Rows
    /\ keyCall' = [keyCall EXCEPT ![c] = [@ EXCEPT !.pc = "off", !.old = k]]
    /\ UNCHANGED <<period, key, keySweep, offAt, letIn, could, reread>>

Revoke(c) ==
    LET k == keyCall[c].old IN
    /\ At(c, "off") /\ c \in Revocations
    /\ key' = [key EXCEPT ![k].row = "off"]
    /\ offAt' = [offAt EXCEPT ![k] = IF @ = NoPeriod THEN period ELSE @]
    /\ Ends(c)
    /\ UNCHANGED <<period, keySweep, letIn, could, reread>>

-----------------------------------------------------------------------------

(* Mutant: only the expiry is looked at. *)
Validate_Expiry(c, k) ==
    /\ At(c, "new")
    /\ k \in Rows /\ key[k].expires >= period
    /\ keyCall' = [keyCall EXCEPT ![c] = [@ EXCEPT !.pc = "use", !.old = k]]
    /\ letIn' = [letIn EXCEPT ![k] = period]
    /\ UNCHANGED <<period, key, keySweep, offAt, could, reread>>

(***************************************************************************)
(* validate_api_key: the key is accepted as it is read, and its last use   *)
(* written in a commit of its own.                                         *)
(***************************************************************************)
Validate(c, k) ==
    /\ At(c, "new")
    /\ key[k].row = "active" /\ key[k].expires >= period
    /\ keyCall' = [keyCall EXCEPT ![c] = [@ EXCEPT !.pc = "use", !.old = k]]
    /\ letIn' = [letIn EXCEPT ![k] = period]
    /\ UNCHANGED <<period, key, keySweep, offAt, could, reread>>

(* Mutant: the row is written back as it was read. *)
UpdateLastUsed_Row(c) ==
    /\ At(c, "use")
    /\ key' = [key EXCEPT ![keyCall[c].old] = [@ EXCEPT !.used = period, !.row = "active"]]
    /\ Ends(c)
    /\ UNCHANGED <<period, keySweep, offAt, letIn, could, reread>>

UpdateLastUsed(c) ==
    /\ At(c, "use")
    /\ key' = [key EXCEPT ![keyCall[c].old].used = period]
    /\ Ends(c)
    /\ UNCHANGED <<period, keySweep, offAt, letIn, could, reread>>

(***************************************************************************)
(* update_scopes adds, and removes in a second transaction.                *)
(***************************************************************************)
AddToKey(c, k, added, removed) ==
    /\ At(c, "new")
    /\ k \in Rows
    /\ added # removed
    /\ key' = [key EXCEPT ![k].scopes = @ \cup added]
    /\ could' = [could EXCEPT ![k] = @ \cup added]
    /\ reread' = reread \cup {k}
    /\ keyCall' = [keyCall EXCEPT ![c] = [@ EXCEPT !.pc = "remove", !.old = k, !.scopes = removed]]
    /\ UNCHANGED <<period, keySweep, offAt, letIn>>

RemoveFromKey(c) ==
    LET k == keyCall[c].old IN
    /\ At(c, "remove")
    /\ key' = [key EXCEPT ![k].scopes = @ \ keyCall[c].scopes]
    /\ reread' = reread \cup {k}
    /\ Ends(c)
    /\ UNCHANGED <<period, keySweep, offAt, letIn, could>>

-----------------------------------------------------------------------------

(***************************************************************************)
(* revoke_expired_api_keys: two batches, each read and then written with   *)
(* one commit.  A key never used is never idle.                            *)
(***************************************************************************)
FindExpired ==
    /\ keySweep.pc = "idle"
    /\ keySweep' = [pc |-> "expired", rows |-> {k \in Keys : key[k].row = "active" /\ key[k].expires < period}]
    /\ UNCHANGED <<period, key, keyCall, offAt, letIn, could, reread>>

FindInactive ==
    /\ keySweep.pc = "find"
    /\ keySweep' = [pc |-> "inactive",
                    rows |-> {k \in Keys : key[k].row = "active" /\ key[k].used # NoPeriod /\ key[k].used + IdleLimit < period}]
    /\ UNCHANGED <<period, key, keyCall, offAt, letIn, could, reread>>

DeactivateBatch ==
    /\ keySweep.pc \in {"expired", "inactive"}
    /\ key' = [k \in Keys |-> IF k \in keySweep.rows THEN [key[k] EXCEPT !.row = "off"] ELSE key[k]]
    /\ offAt' = [k \in Keys |-> IF k \in keySweep.rows /\ offAt[k] = NoPeriod THEN period ELSE offAt[k]]
    /\ keySweep' = [pc |-> IF keySweep.pc = "expired" THEN "find" ELSE "idle", rows |-> {}]
    /\ UNCHANGED <<period, keyCall, letIn, could, reread>>

(***************************************************************************)
(* The loop catches what a pass raises.                                    *)
(***************************************************************************)
SweepRaises ==
    /\ keySweep.pc # "idle"
    /\ keySweep' = [pc |-> "idle", rows |-> {}]
    /\ UNCHANGED <<period, key, keyCall, offAt, letIn, could, reread>>

KeyCallFails(c) ==
    /\ ~ At(c, "new") /\ ~ At(c, "over")
    /\ Ends(c)
    /\ UNCHANGED <<period, key, keySweep, offAt, letIn, could, reread>>

PeriodPasses ==
    /\ period < LastPeriod
    /\ period' = period + 1
    /\ UNCHANGED <<key, keyCall, keySweep, offAt, letIn, could, reread>>

KeyNext ==
    \/ \E c \in Creators, s \in SUBSET Scopes : StartCreate(c, s)
    \/ \E c \in Creators \cup Rotations : AddScopes(c) \/ \E k \in Keys : InsertKey(c, k)
    \/ \E c \in Rotations : \/ DeactivateAndExtend(c) \/ ReadScopes(c) \/ SetRotatedFrom(c)
                            \/ \E k \in Keys : StartRotation(c, k)
    \/ \E c \in Revocations : Revoke(c) \/ \E k \in Keys : StartRevoke(c, k)
    \/ \E c \in Requests : UpdateLastUsed(c) \/ \E k \in Keys : Validate(c, k)
    \/ \E c \in ScopeEdits : \/ RemoveFromKey(c)
                             \/ \E k \in Keys, a, r \in SUBSET Scopes : AddToKey(c, k, a, r)
    \/ FindExpired \/ FindInactive \/ DeactivateBatch \/ SweepRaises
    \/ \E c \in KeyCalls : KeyCallFails(c)
    \/ PeriodPasses

KeySpec == KeyInit /\ [][KeyNext]_keyVars

-----------------------------------------------------------------------------

(***************************************************************************)
(* A key that was turned off, by whichever call, is off for good: no call  *)
(* that read it before brings it back.                                     *)
(***************************************************************************)
OffForGood == \A k \in Keys : offAt[k] # NoPeriod => key[k].row = "off"

(***************************************************************************)
(* A rotated key opens what the key it replaces opened at some time, and   *)
(* exactly what that key opens if nobody edited the two since; once it is  *)
(* there the old key lets nobody in.                                       *)
(***************************************************************************)
RotationKeepsScope ==
    \A k \in Keys : key[k].from # NoKey =>
        /\ key[key[k].from].row = "off"
        /\ k \notin reread => key[k].scopes \subseteq could[key[k].from]
        /\ {k, key[k].from} \cap reread = {} => key[k].scopes = key[key[k].from].scopes

(***************************************************************************)
(* A key lets nobody in past its life, nor, once it was revoked, rotated   *)
(* or found idle or expired by the job, in any later period.               *)
(***************************************************************************)
NoLateUse ==
    \A k \in Keys : letIn[k] # NoPeriod =>
        /\ letIn[k] <= offAt[k]
        /\ offAt[k] = NoPeriod => letIn[k] <= key[k].expires

KeysSafe ==
    /\ OffForGood
    /\ RotationKeepsScope
    /\ NoLateUse
=============================================================================
