------------------------------- MODULE Caches -------------------------------
(***************************************************************************)
(* One entry of the two-level cache of users and permissions               *)
(* (swx_core/auth/auth_cache.py): a dictionary in each process over a key  *)
(* in Redis over the database.                                             *)
(*                                                                         *)
(* A lookup asks one level after the other and fills the levels above on   *)
(* its way back (get_user_permissions, get_current_user); a change commits *)
(* and then drops the entry from its own process and from Redis.  Each     *)
(* access to a level is a step.  A value is the number of the version it   *)
(* was loaded from.                                                        *)
(***************************************************************************)
EXTENDS Integers

CONSTANTS
    Processes,
    Lookups,        \* calls of get_user_permissions
    Changes,        \* calls of assign_role_to_user_service
    Home,           \* Home[c]: the process of a call
    Ttl,            \* USER_PERMISSIONS_CACHE_TTL, in ticks
    LastTime        \* bound: ticks until time stands still

ASSUME CachesAssumption ==
    /\ Home \in [Lookups \cup Changes -> Processes]
    /\ Lookups \cap Changes = {}
    /\ Ttl \in Nat \ {0}
    /\ LastTime \in Nat

VARIABLES
    time,           \* the clock
    version,        \* the version in the database
    local,          \* local[p]: the entry of process p: a version and its expiry
    shared,         \* the entry in Redis
    cache,          \* cache[c]: where the call is, and the version it holds
    replaced,       \* history: replaced[v]: when version v was
    slow,           \* history: time went by while a call held a version
    late,           \* history: a lookup held an older version from the database
                    \* when Redis was told to drop it
    met             \* history: a lookup and a change overlapped, or a change failed

cacheVars == <<time, version, local, shared, cache, replaced, slow, late, met>>

CacheCalls == Lookups \cup Changes

Times == 0..LastTime

Absent == [version |-> 0, expires |-> -1]

CacheTypeOK ==
    /\ time \in Times
    /\ version \in Nat
    /\ {shared} \cup {local[p] : p \in Processes} \subseteq [version: 0..version, expires: Int]
    /\ cache \in [CacheCalls -> [pc: {"new", "redis", "database", "fill", "load", "store",
                                      "local", "drop", "done", "failed"},
                                 version: 0..version]]
    /\ replaced \in [0..(version - 1) -> Times]
    /\ slow \in BOOLEAN
    /\ late \in BOOLEAN
    /\ met \in BOOLEAN

CacheInit ==
    /\ time = 0
    /\ version = 0
    /\ local = [p \in Processes |-> Absent]
    /\ shared = Absent
    /\ cache = [c \in CacheCalls |-> [pc |-> "new", version |-> 0]]
    /\ replaced = [v \in {} |-> 0]
    /\ slow = FALSE
    /\ late = FALSE
    /\ met = FALSE

-----------------------------------------------------------------------------

CGoto(c, label) == cache' = [cache EXCEPT ![c].pc = label]

CHold(c, label, v) == cache' = [cache EXCEPT ![c] = [pc |-> label, version |-> v]]

Fresh(v) == [version |-> v, expires |-> time + Ttl]

Underway(C) == {c \in C : cache[c].pc \notin {"new", "done", "failed"}}

Holding == {c \in Lookups : cache[c].pc \in {"fill", "load", "store"}}

(***************************************************************************)
(* Redis drops what has expired; an expired entry of a dictionary is a     *)
(* miss and is popped by whoever asks for it.                              *)
(***************************************************************************)
Clock ==
    /\ time < LastTime
    /\ time' = time + 1
    /\ shared' = IF shared.expires <= time' THEN Absent ELSE shared
    /\ local' = [p \in Processes |-> IF local[p].expires < time' THEN Absent ELSE local[p]]
    /\ slow' = (slow \/ Holding # {} \/ Underway(Changes) # {})
    /\ UNCHANGED <<version, cache, replaced, late, met>>

ReadLocal(c) ==
    /\ cache[c].pc = "new"
    /\ CGoto(c, IF time <= local[Home[c]].expires THEN "done" ELSE "redis")
    /\ met' = (met \/ Underway(Changes) # {})
    /\ UNCHANGED <<time, version, local, shared, replaced, slow, late>>

ReadShared(c) ==
    /\ cache[c].pc = "redis"
    /\ time < shared.expires
    /\ CHold(c, "fill", shared.version)
    /\ UNCHANGED <<time, version, local, shared, replaced, slow, late, met>>

(***************************************************************************)
(* The key is not there, or Redis is not: both are a miss.                 *)
(***************************************************************************)
MissShared(c) ==
    /\ cache[c].pc = "redis"
    /\ CGoto(c, "database")
    /\ UNCHANGED <<time, version, local, shared, replaced, slow, late, met>>

Fill(c) ==
    /\ cache[c].pc = "fill"
    /\ local' = [local EXCEPT ![Home[c]] = Fresh(cache[c].version)]
    /\ CGoto(c, "done")
    /\ UNCHANGED <<time, version, shared, replaced, slow, late, met>>

ReadDatabase(c) ==
    /\ cache[c].pc = "database"
    /\ CHold(c, "load", version)
    /\ UNCHANGED <<time, version, local, shared, replaced, slow, late, met>>

SetLocal(c) ==
    /\ cache[c].pc = "load"
    /\ local' = [local EXCEPT ![Home[c]] = Fresh(cache[c].version)]
    /\ CGoto(c, "store")
    /\ UNCHANGED <<time, version, shared, replaced, slow, late, met>>

(* Mutant: an entry lives longer in Redis than in a dictionary. *)
SetShared_Longer(c) ==
    /\ cache[c].pc = "store"
    /\ shared' = [version |-> cache[c].version, expires |-> time + 2 * Ttl]
    /\ CGoto(c, "done")
    /\ UNCHANGED <<time, version, local, replaced, slow, late, met>>

SetShared(c) ==
    /\ cache[c].pc = "store"
    /\ shared' = Fresh(cache[c].version)
    /\ CGoto(c, "done")
    /\ UNCHANGED <<time, version, local, replaced, slow, late, met>>

(***************************************************************************)
(* Another key takes the place of the oldest one.                          *)
(***************************************************************************)
EvictLocal(p) ==
    /\ local[p] # Absent
    /\ local' = [local EXCEPT ![p] = Absent]
    /\ UNCHANGED <<time, version, shared, cache, replaced, slow, late, met>>

-----------------------------------------------------------------------------

CommitChange(c) ==
    /\ cache[c].pc = "new"
    /\ version' = version + 1
    /\ replaced' = [v \in 0..version |-> IF v = version THEN time ELSE replaced[v]]
    /\ CGoto(c, "local")
    /\ met' = (met \/ Underway(Lookups) # {})
    /\ UNCHANGED <<time, local, shared, slow, late>>

(* Mutant: the process keeps its own entry. *)
DropLocal_Keeps(c) ==
    /\ cache[c].pc = "local"
    /\ CGoto(c, "drop")
    /\ UNCHANGED <<time, version, local, shared, replaced, slow, late, met>>

DropLocal(c) ==
    /\ cache[c].pc = "local"
    /\ local' = [local EXCEPT ![Home[c]] = Absent]
    /\ CGoto(c, "drop")
    /\ UNCHANGED <<time, version, shared, replaced, slow, late, met>>

(* Mutant: what Redis holds is taken for current if it is young. *)
DropShared_Keeps(c) ==
    /\ cache[c].pc = "drop"
    /\ shared' = IF time + Ttl = shared.expires THEN shared ELSE Absent
    /\ late' = (late \/ \E d \in Lookups : cache[d].pc \in {"load", "store"} /\ cache[d].version < version)
    /\ CGoto(c, "done")
    /\ UNCHANGED <<time, version, local, replaced, slow, met>>

DropShared(c) ==
    /\ cache[c].pc = "drop"
    /\ shared' = Absent
    /\ late' = (late \/ \E d \in Lookups : cache[d].pc \in {"load", "store"} /\ cache[d].version < version)
    /\ CGoto(c, "done")
    /\ UNCHANGED <<time, version, local, replaced, slow, met>>

(***************************************************************************)
(* The call dies, or Redis does not take the write or the delete.          *)
(***************************************************************************)
CacheFails(c) ==
    /\ c \in Underway(CacheCalls)
    /\ CGoto(c, "failed")
    /\ met' = (met \/ c \in Changes)
    /\ late' = (late \/ c \in Changes)
    /\ UNCHANGED <<time, version, local, shared, replaced, slow>>

CacheNext ==
    \/ Clock
    \/ \E c \in Lookups :
        \/ ReadLocal(c) \/ ReadShared(c) \/ MissShared(c) \/ Fill(c)
        \/ ReadDatabase(c) \/ SetLocal(c) \/ SetShared(c)
    \/ \E p \in Processes : EvictLocal(p)
    \/ \E c \in Changes : CommitChange(c) \/ DropLocal(c) \/ DropShared(c)
    \/ \E c \in CacheCalls : CacheFails(c)

CacheSpec == CacheInit /\ [][CacheNext]_cacheVars

-----------------------------------------------------------------------------

(***************************************************************************)
(* An entry in Redis can fill the dictionary of a process in its last      *)
(* moment: a version lives on for up to two times to live after it was     *)
(* replaced, if calls are short, whatever invalidation is lost or late.    *)
(***************************************************************************)
StaleBounded ==
    ~ slow => \A p \in Processes :
        local[p].version < version /\ local[p] # Absent
            => local[p].expires < replaced[local[p].version] + 2 * Ttl

(***************************************************************************)
(* When the changes are through, Redis has nothing older than the database *)
(* unless a lookup that had read the database before was still to write.   *)
(***************************************************************************)
RedisFresh ==
    (~ late /\ Underway(Changes) = {}) => shared = Absent \/ shared.version = version

(***************************************************************************)
(* A process that has changed the user does not serve the old version, if  *)
(* it did not look the user up meanwhile; others may, for a time to live.  *)
(***************************************************************************)
ChangeSeen ==
    (~ met /\ Underway(Changes) = {}) =>
        /\ \A c \in Changes : (cache[c].pc = "done" /\ \A d \in Changes \ {c} : cache[d].pc = "new") =>
                local[Home[c]] = Absent \/ local[Home[c]].version = version
        /\ \A p \in Processes :
                local[p].version < version /\ local[p] # Absent
                    => local[p].expires <= replaced[local[p].version] + Ttl

(***************************************************************************)
(* How old a user or a permission may be that a process, or Redis, still   *)
(* serves.                                                                 *)
(***************************************************************************)
CachesSafe ==
    /\ StaleBounded
    /\ RedisFresh
    /\ ChangeSeen
=============================================================================
