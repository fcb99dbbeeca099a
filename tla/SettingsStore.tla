--------------------------- MODULE SettingsStore ---------------------------
(***************************************************************************)
(* One runtime setting (services/settings_service.py and                   *)
(* services/settings_crud_service.py): its row, the history of its         *)
(* changes, and the two caches a read goes through - one per process, one  *)
(* in Redis - which only time empties: create and update call the          *)
(* coroutine that would clear them without awaiting it, so it never runs.  *)
(*                                                                         *)
(* A value is named by the call that wrote it.  Time counts in ticks, all  *)
(* calls being shorter than one.                                           *)
(***************************************************************************)
EXTENDS Naturals, Sequences

CONSTANTS
    Workers,
    Reads,          \* calls of get
    ReaderOf,       \* ReaderOf[c]: the process call c runs in
    Writes,         \* calls of create_setting_service and update_setting_service;
                    \* numbers from 1
    CacheTtl,       \* _cache_ttl
    LastTick        \* bound on the clock

ASSUME StoreAssumption ==
    /\ ReaderOf \in [Reads -> Workers]
    /\ Writes \subseteq Nat \ {0}
    /\ CacheTtl \in Nat \ {0}
    /\ LastTick \in Nat

Fallback == 0       \* the environment's value, or the default

VARIABLES
    tick,
    row,            \* the row: whether there is one, whether active, its value
    past,           \* its history: pairs of old and new value
    local,          \* local[p]: _settings_cache[key] of a process
    shared,         \* the entry in Redis
    reading,        \* reading[c]: where a read is, and the value it has
    writing,        \* writing[c]: where a write is, and the old value it has
    replaced,       \* history: replaced[v]: when v ceased to be the setting, or
                    \* was last answered in its place because a read failed
    told,           \* history: told[v]: when v was last returned
    values,         \* history: what the row's value was after each write
    overlap         \* history: two writes were at work at a time

storeVars == <<tick, row, past, local, shared, reading, writing, replaced, told, values, overlap>>

SettingValues == Writes \cup {Fallback}
Unset == [v |-> Fallback, at |-> LastTick + CacheTtl, set |-> FALSE]
Moments == 0 .. (LastTick + CacheTtl)
CacheEntry == [v : SettingValues, at : Moments, set : BOOLEAN]

StoreTypeOK ==
    /\ tick \in 0 .. LastTick
    /\ row \in [there : BOOLEAN, active : BOOLEAN, value : SettingValues]
    /\ past \in Seq(SettingValues \X SettingValues)
    /\ local \in [Workers -> CacheEntry]
    /\ shared \in CacheEntry
    /\ reading \in [Reads -> [pc : {"new", "redis", "db", "set", "over"}, v : SettingValues]]
    /\ writing \in [Writes -> [pc : {"new", "create", "update", "over"}, old : SettingValues]]
    /\ replaced \in [SettingValues -> Moments \cup {LastTick + CacheTtl + 1}]
    /\ told \in [SettingValues -> Moments]
    /\ values \in Seq(SettingValues)
    /\ overlap \in BOOLEAN

Current == LastTick + CacheTtl + 1

StoreInit ==
    /\ tick = 0
    /\ row = [there |-> FALSE, active |-> FALSE, value |-> Fallback]
    /\ past = <<>>
    /\ local = [p \in Workers |-> Unset]
    /\ shared = Unset
    /\ reading = [c \in Reads |-> [pc |-> "new", v |-> Fallback]]
    /\ writing = [c \in Writes |-> [pc |-> "new", old |-> Fallback]]
    /\ replaced = [v \in SettingValues |-> Current]
    /\ told = [v \in SettingValues |-> 0]
    /\ values = <<>>
    /\ overlap = FALSE

-----------------------------------------------------------------------------

Effective(r) == IF r.active THEN r.value ELSE Fallback

(* Mutant: the age of the entry is not looked at. *)
StillFresh_Any(e) == e.set

StillFresh(e) == e.set /\ tick - e.at < CacheTtl

Returns(c, v) ==
    /\ reading' = [reading EXCEPT ![c] = [pc |-> "over", v |-> Fallback]]
    /\ told' = [told EXCEPT ![v] = tick]

(***************************************************************************)
(* get looks into the process's own cache first.                           *)
(***************************************************************************)
GetLocal(c) ==
    /\ reading[c].pc = "new"
    /\ IF StillFresh(local[ReaderOf[c]])
       THEN Returns(c, local[ReaderOf[c]].v)
       ELSE reading' = [reading EXCEPT ![c].pc = "redis"] /\ UNCHANGED told
    /\ UNCHANGED <<tick, row, past, local, shared, writing, replaced, values, overlap>>

(***************************************************************************)
(* What Redis has, or may answer if it can be reached, starts a new life   *)
(* in the process's cache.                                                 *)
(***************************************************************************)
GetShared(c) ==
    /\ reading[c].pc = "redis"
    /\ \/ /\ StillFresh(shared)
          /\ local' = [local EXCEPT ![ReaderOf[c]] = [shared EXCEPT !.at = tick]]
          /\ Returns(c, shared.v)
       \/ /\ reading' = [reading EXCEPT ![c].pc = "db"]
          /\ UNCHANGED <<local, told>>
    /\ UNCHANGED <<tick, row, past, shared, writing, replaced, values, overlap>>

(***************************************************************************)
(* What the environment supplies is cached in the process; a default of    *)
(* the caller is not.                                                      *)
(***************************************************************************)
FallsBack(c) ==
    /\ \/ local' = [local EXCEPT ![ReaderOf[c]] = [v |-> Fallback, at |-> tick, set |-> TRUE]]
       \/ UNCHANGED local
    /\ Returns(c, Fallback)

(***************************************************************************)
(* _get_from_db finds the setting, or it is not there or off.              *)
(***************************************************************************)
GetFromDb(c) ==
    /\ reading[c].pc = "db"
    /\ IF row.active
       THEN /\ local' = [local EXCEPT ![ReaderOf[c]] = [v |-> row.value, at |-> tick, set |-> TRUE]]
            /\ reading' = [reading EXCEPT ![c] = [pc |-> "set", v |-> row.value]]
            /\ UNCHANGED told
       ELSE FallsBack(c)
    /\ UNCHANGED <<tick, row, past, shared, writing, replaced, values, overlap>>

(***************************************************************************)
(* _get_from_db fails: this is logged, and answered like a setting that is *)
(* not there.                                                              *)
(***************************************************************************)
DbFails(c) ==
    /\ reading[c].pc = "db"
    /\ FallsBack(c)
    /\ replaced' = [replaced EXCEPT ![Fallback] = IF @ = Current THEN @ ELSE tick]
    /\ UNCHANGED <<tick, row, past, shared, writing, values, overlap>>

(***************************************************************************)
(* setex, which may fail; the value is returned in any case.               *)
(***************************************************************************)
SetShared(c) ==
    /\ reading[c].pc = "set"
    /\ \/ shared' = [v |-> reading[c].v, at |-> tick, set |-> TRUE]
       \/ UNCHANGED shared
    /\ Returns(c, reading[c].v)
    /\ UNCHANGED <<tick, row, past, local, writing, replaced, values, overlap>>

-----------------------------------------------------------------------------

Busy(c) == writing[c].pc \in {"create", "update"}

(***************************************************************************)
(* Both writes begin with the active row.                                  *)
(***************************************************************************)
Look(c) ==
    /\ writing[c].pc = "new"
    /\ writing' = [writing EXCEPT ![c] = [pc |-> IF row.active THEN "update" ELSE "create",
                                          old |-> row.value]]
    /\ overlap' = (overlap \/ \E d \in Writes : Busy(d))
    /\ UNCHANGED <<tick, row, past, local, shared, reading, replaced, told, values>>

Wrote(r) ==
    /\ row' = r
    /\ values' = Append(values, r.value)
    /\ replaced' = IF Effective(r) = Effective(row) THEN replaced
                   ELSE [replaced EXCEPT ![Effective(row)] = tick, ![Effective(r)] = Current]

(***************************************************************************)
(* The insert meets the unique key if a row is there, active or not.       *)
(***************************************************************************)
Create(c) ==
    /\ writing[c].pc = "create"
    /\ IF row.there
       THEN UNCHANGED <<row, replaced, values>>
       ELSE Wrote([there |-> TRUE, active |-> TRUE, value |-> c])
    /\ writing' = [writing EXCEPT ![c].pc = "over"]
    /\ UNCHANGED <<tick, past, local, shared, reading, told, overlap>>

(* Mutant: the old value is taken after the new one is set. *)
Update_LateOld(c) ==
    /\ writing[c].pc = "update"
    /\ Wrote([row EXCEPT !.value = c])
    /\ past' = Append(past, <<c, c>>)
    /\ writing' = [writing EXCEPT ![c].pc = "over"]
    /\ UNCHANGED <<tick, local, shared, reading, told, overlap>>

(***************************************************************************)
(* update_setting_service writes the row and its history in one commit;    *)
(* an update without a value may turn the setting off.                     *)
(***************************************************************************)
Update(c) ==
    /\ writing[c].pc = "update"
    /\ \/ /\ Wrote([row EXCEPT !.value = c])
          /\ past' = Append(past, <<writing[c].old, c>>)
       \/ /\ \E on \in BOOLEAN : Wrote([row EXCEPT !.active = @ /\ on])
          /\ past' = Append(past, <<writing[c].old, writing[c].old>>)
    /\ writing' = [writing EXCEPT ![c].pc = "over"]
    /\ UNCHANGED <<tick, local, shared, reading, told, overlap>>

WriteFails(c) ==
    /\ Busy(c)
    /\ writing' = [writing EXCEPT ![c].pc = "over"]
    /\ UNCHANGED <<tick, row, past, local, shared, reading, replaced, told, values, overlap>>

-----------------------------------------------------------------------------

(***************************************************************************)
(* Time passes between calls; Redis drops the entry when its time is over. *)
(***************************************************************************)
Tick ==
    /\ tick < LastTick
    /\ \A c \in Reads : reading[c].pc \in {"new", "over"}
    /\ tick' = tick + 1
    /\ shared' = IF shared.set /\ tick' - shared.at >= CacheTtl THEN Unset ELSE shared
    /\ UNCHANGED <<row, past, local, reading, writing, replaced, told, values, overlap>>

StoreNext ==
    \/ \E c \in Reads : GetLocal(c) \/ GetShared(c) \/ GetFromDb(c) \/ DbFails(c) \/ SetShared(c)
    \/ \E c \in Writes : Look(c) \/ Create(c) \/ Update(c) \/ WriteFails(c)
    \/ Tick

StoreSpec == StoreInit /\ [][StoreNext]_storeVars

-----------------------------------------------------------------------------

(***************************************************************************)
(* No read returns a value later than the lives of the two caches, one     *)
(* behind the other, allow: a process may take it from Redis in its last   *)
(* tick and keep it for a life of its own.  They count from when it ceased *)
(* to be the setting; those of the environment's value, from the last read *)
(* of the database that failed, too.                                       *)
(***************************************************************************)
StaleIsBounded == \A v \in SettingValues : told[v] <= replaced[v] + 2 * (CacheTtl - 1)

(***************************************************************************)
(* The history tells every change of the row's value, from the value it    *)
(* was created with, unless two writes were at work at a time.             *)
(***************************************************************************)
HistoryTells ==
    ~ overlap => past = [i \in 1 .. Len(values) - 1 |-> <<values[i], values[i + 1]>>]

SettingsSafe ==
    /\ StaleIsBounded
    /\ HistoryTells
=============================================================================
