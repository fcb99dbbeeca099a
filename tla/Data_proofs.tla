---------------------------- MODULE Data_proofs ---------------------------
(***************************************************************************)
(* Proofs about caches, rows, pages and units of work, for every value of  *)
(* their constants.                                                        *)
(***************************************************************************)
EXTENDS Process_proofs

-----------------------------------------------------------------------------
(* Two caches in front of the database *)

CacheLabels == {"new", "redis", "database", "fill", "load", "store", "local", "drop", "done", "failed"}

LookupState == [pc : CacheLabels, version : Nat]

AnyEntry == [version : Nat, expires : Int]

CacheShapes ==
    /\ time \in Nat
    /\ version \in Nat
    /\ local \in [Processes -> AnyEntry]
    /\ shared \in AnyEntry
    /\ cache \in [CacheCalls -> LookupState]
    /\ replaced \in [0 .. (version - 1) -> Nat]
    /\ slow \in BOOLEAN /\ late \in BOOLEAN /\ met \in BOOLEAN

(***************************************************************************)
(* No entry is of the future, and none has more than a life before it.     *)
(***************************************************************************)
NoneAhead ==
    /\ shared.version <= version /\ shared.expires <= time + Ttl
    /\ \A p \in Processes : local[p].version <= version /\ local[p].expires <= time + Ttl
    /\ \A c \in CacheCalls : cache[c].version <= version
    /\ \A c \in Lookups : cache[c].pc \notin {"local", "drop"}
    /\ \A c \in Changes : cache[c].pc \in {"new", "local", "drop", "done", "failed"}

(***************************************************************************)
(* When calls are short: what a lookup has from the database was replaced  *)
(* this moment if at all, and an old entry in Redis ends a life after its  *)
(* version did.                                                            *)
(***************************************************************************)
ShortCalls ==
    /\ \A c \in Lookups :
           /\ cache[c].pc \in {"load", "store"} /\ cache[c].version < version => replaced[cache[c].version] = time
           /\ cache[c].pc = "fill" /\ cache[c].version < version => time < replaced[cache[c].version] + Ttl
    /\ shared # Absent /\ shared.version < version => shared.expires <= replaced[shared.version] + Ttl
    /\ \A p \in Processes :
           local[p] # Absent /\ local[p].version < version => local[p].expires < replaced[local[p].version] + 2 * Ttl

Quiet == \A c \in Changes : cache[c].pc \notin {"local", "drop"}

(***************************************************************************)
(* When no drop came too early, Redis and whoever is about to write to it  *)
(* have the newest version between changes.                                *)
(***************************************************************************)
DropsInTime ==
    Quiet =>
        /\ shared = Absent \/ shared.version = version
        /\ \A c \in Lookups : cache[c].pc \in {"load", "store"} => cache[c].version = version

(***************************************************************************)
(* When lookups and changes do not meet.                                   *)
(***************************************************************************)
Apart ==
    /\ Quiet \/ \A c \in Lookups : cache[c].pc \in {"new", "done", "failed"}
    /\ Quiet =>
           /\ shared = Absent \/ shared.version = version
           /\ \A c \in Lookups : cache[c].pc \in {"fill", "load", "store"} => cache[c].version = version
    /\ \A p \in Processes :
           local[p] # Absent /\ local[p].version < version => local[p].expires <= replaced[local[p].version] + Ttl
    /\ \A c \in Changes :
           cache[c].pc \in {"drop", "done"} /\ (\A d \in Changes \ {c} : cache[d].pc = "new") =>
               local[Home[c]] = Absent \/ local[Home[c]].version = version

CacheInv ==
    /\ CacheShapes /\ NoneAhead
    /\ ~ slow => ShortCalls
    /\ ~ late => DropsInTime
    /\ ~ met => Apart

LEMMA CacheNumbers ==
    ASSUME CacheShapes
    PROVE  /\ time \in Nat /\ version \in Nat /\ Ttl \in Nat /\ Ttl >= 1
           /\ \A v \in Nat : v < version => replaced[v] \in Nat
           /\ shared.version \in Nat /\ shared.expires \in Int
           /\ \A p \in Processes : local[p].version \in Nat /\ local[p].expires \in Int
           /\ \A c \in CacheCalls : cache[c] \in LookupState /\ cache[c].version \in Nat /\ Home[c] \in Processes
           /\ Absent \in AnyEntry /\ Absent.version = 0 /\ Absent.expires = - 1
  BY CachesAssumption DEF CacheShapes, AnyEntry, LookupState, CacheCalls, Absent

LEMMA CacheInitInv == CacheInit => CacheInv
<1> SUFFICES ASSUME CacheInit PROVE CacheInv
  OBVIOUS
<1>1. Absent \in AnyEntry /\ Absent.version = 0 /\ Absent.expires = - 1 /\ Ttl \in Nat
  BY CachesAssumption DEF AnyEntry, Absent
<1>2. 0 .. (0 - 1) = {}
  OBVIOUS
<1>3. [v \in {} |-> 0] \in [0 .. (0 - 1) -> Nat]
  BY <1>2
<1>4. CacheShapes
  BY <1>1, <1>3 DEF CacheInit, CacheShapes, LookupState, CacheLabels
<1>5. NoneAhead
  BY <1>1 DEF CacheInit, NoneAhead, CacheCalls
<1>6. ShortCalls /\ DropsInTime /\ Apart
  BY DEF CacheInit, ShortCalls, DropsInTime, Apart, Quiet, CacheCalls
<1>7. QED
  BY <1>4, <1>5, <1>6 DEF CacheInv

(***************************************************************************)
(* One call goes to the state u.                                           *)
(***************************************************************************)
CallGoes(c, u) ==
    /\ cache' \in [CacheCalls -> LookupState]
    /\ cache'[c] = u
    /\ \A d \in CacheCalls : d # c => cache'[d] = cache[d]

LEMMA GoesOn ==
    ASSUME CacheShapes, NEW c \in CacheCalls, NEW k \in CacheLabels, CGoto(c, k)
    PROVE  \E u \in LookupState : CallGoes(c, u) /\ u.pc = k /\ u.version = cache[c].version
<1> DEFINE u == [cache[c] EXCEPT !.pc = k]
<1>1. cache[c] \in LookupState
  BY CacheNumbers
<1>2. u \in LookupState /\ u.pc = k /\ u.version = cache[c].version
  BY <1>1 DEF LookupState
<1>3. cache' = [cache EXCEPT ![c] = u]
  BY DEF CGoto, CacheShapes
<1> HIDE DEF u
<1>4. CallGoes(c, u)
  BY <1>2, <1>3 DEF CallGoes, CacheShapes
<1>5. QED
  BY <1>2, <1>4

LEMMA HoldsNow ==
    ASSUME CacheShapes, NEW c \in CacheCalls, NEW k \in CacheLabels, NEW v \in Nat, CHold(c, k, v)
    PROVE  \E u \in LookupState : CallGoes(c, u) /\ u.pc = k /\ u.version = v
<1> DEFINE u == [pc |-> k, version |-> v]
<1>1. u \in LookupState /\ u.pc = k /\ u.version = v
  BY DEF LookupState
<1>2. cache' = [cache EXCEPT ![c] = u]
  BY DEF CHold
<1> HIDE DEF u
<1>3. CallGoes(c, u)
  BY <1>1, <1>2 DEF CallGoes, CacheShapes
<1>4. QED
  BY <1>1, <1>3

(***************************************************************************)
(* Entries that are only dropped.                                          *)
(***************************************************************************)
LEMMA DroppedIsFine ==
    ASSUME CacheInv, UNCHANGED <<version, cache, replaced>>,
           time' \in Nat, time' >= time,
           \A c \in Lookups : time' = time \/ slow' \/ cache[c].pc \notin {"fill", "load", "store"},
           shared' \in {shared, Absent},
           local' \in [Processes -> AnyEntry], \A p \in Processes : local'[p] \in {local[p], Absent},
           slow' \in BOOLEAN, slow => slow', late' = late, met' = met
    PROVE  CacheInv'
<1>1. CacheShapes /\ NoneAhead
  BY DEF CacheInv
<1>2. CacheShapes'
  BY <1>1, CacheNumbers DEF CacheShapes
<1>3. NoneAhead'
  <2>1. \A e \in AnyEntry : e.expires <= time + Ttl => e.expires <= time' + Ttl
    BY <1>1, CacheNumbers DEF AnyEntry
  <2>2. Absent.version <= version /\ Absent.expires <= time + Ttl
    BY <1>1, CacheNumbers
  <2>3. shared'.version <= version /\ shared'.expires <= time' + Ttl
    BY <1>1, <1>2, <2>1, <2>2 DEF NoneAhead, CacheShapes
  <2>4. \A p \in Processes : local'[p].version <= version /\ local'[p].expires <= time' + Ttl
    BY <1>1, <1>2, <2>1, <2>2 DEF NoneAhead, CacheShapes
  <2>5. QED
    BY <1>1, <2>3, <2>4 DEF NoneAhead
<1>4. ~ slow' => ShortCalls'
  <2> SUFFICES ASSUME ~ slow' PROVE ShortCalls'
    OBVIOUS
  <2>1. ShortCalls /\ \A c \in Lookups : time' = time \/ cache[c].pc \notin {"fill", "load", "store"}
    BY DEF CacheInv
  <2>2. QED
    BY <2>1 DEF ShortCalls, Absent
<1>5. ~ late' => DropsInTime'
  BY DEF CacheInv, DropsInTime, Quiet, Absent
<1>6. ASSUME ~ met' PROVE Apart'
  <2>1. Apart
    BY <1>6 DEF CacheInv
  <2>2. \A c \in Changes : Home[c] \in Processes
    BY <1>1, CacheNumbers DEF CacheCalls
  <2>3. \A c \in Changes : local'[Home[c]] = local[Home[c]] \/ local'[Home[c]] = Absent
    BY <2>2
  <2>4. \A p \in Processes : local'[p] # Absent => local'[p] = local[p]
    OBVIOUS
  <2>5. Quiet' <=> Quiet
    BY DEF Quiet
  <2>6. QED
    BY <2>1, <2>3, <2>4, <2>5 DEF Apart, Absent
<1>7. QED
  BY <1>2, <1>3, <1>4, <1>5, <1>6 DEF CacheInv

LEMMA CacheClockKeeps == ASSUME CacheInv, Clock \/ (\E p \in Processes : EvictLocal(p)) PROVE CacheInv'
<1>1. CacheShapes
  BY DEF CacheInv
<1>2. CASE Clock
  <2>1. /\ time' \in Nat /\ time' >= time /\ UNCHANGED <<version, cache, replaced, late, met>>
        /\ shared' \in {shared, Absent}
    BY <1>1, <1>2, CacheNumbers DEF Clock
  <2>2. /\ local' \in [Processes -> AnyEntry] /\ \A p \in Processes : local'[p] \in {local[p], Absent}
    BY <1>1, <1>2, CacheNumbers DEF Clock, CacheShapes
  <2>3. slow' \in BOOLEAN /\ (slow => slow')
    BY <1>1, <1>2 DEF Clock, CacheShapes
  <2>4. \A c \in Lookups : slow' \/ cache[c].pc \notin {"fill", "load", "store"}
    BY <1>2 DEF Clock, Holding
  <2>5. QED
    BY <2>1, <2>2, <2>3, <2>4, DroppedIsFine
<1>3. CASE \E p \in Processes : EvictLocal(p)
  <2>1. PICK p \in Processes : EvictLocal(p)
    BY <1>3
  <2>2. /\ local' \in [Processes -> AnyEntry] /\ \A q \in Processes : local'[q] \in {local[q], Absent}
    BY <1>1, <2>1, CacheNumbers DEF EvictLocal, CacheShapes
  <2>3. /\ time' \in Nat /\ time' >= time /\ UNCHANGED <<time, version, cache, replaced, shared, slow, late, met>>
        /\ slow \in BOOLEAN
    BY <1>1, <2>1, CacheNumbers DEF EvictLocal, CacheShapes
  <2>4. QED
    BY <2>2, <2>3, DroppedIsFine
<1>4. QED
  BY <1>2, <1>3

(***************************************************************************)
(* A lookup that takes a step without touching an entry.                   *)
(***************************************************************************)
LEMMA LookupGoes ==
    ASSUME CacheInv, NEW c \in Lookups, NEW u \in LookupState, CallGoes(c, u),
           UNCHANGED <<time, version, local, shared, replaced, slow, late>>,
           met' \in BOOLEAN, met => met',
           u.version <= version, u.pc \notin {"local", "drop"},
           u.pc \in {"load", "store"} =>
               u.version = version \/ (cache[c].pc \in {"load", "store"} /\ u.version = cache[c].version),
           u.pc = "fill" => time < shared.expires /\ shared # Absent /\ u.version = shared.version,
           cache[c].pc \notin {"done", "failed"}, cache[c].pc = "new" => met' \/ Quiet
    PROVE  CacheInv'
<1>1. CacheShapes /\ NoneAhead /\ c \in CacheCalls /\ \A d \in Changes : d \in CacheCalls /\ d # c
  BY CachesAssumption DEF CacheInv, CacheCalls
<1>2. CacheShapes' /\ \A d \in Changes : cache'[d] = cache[d]
  BY <1>1 DEF CacheShapes, CallGoes
<1>3. NoneAhead'
  BY <1>1, <1>2 DEF NoneAhead, CallGoes, CacheCalls
<1>4. ASSUME ~ slow PROVE ShortCalls'
  <2>1. ShortCalls
    BY <1>4 DEF CacheInv
  <2>2. u.pc \in {"load", "store"} /\ u.version < version => replaced[u.version] = time
    BY <1>1, <2>1, CacheNumbers DEF ShortCalls, LookupState
  <2>3. u.pc = "fill" /\ u.version < version => time < replaced[u.version] + Ttl
    <3> SUFFICES ASSUME u.pc = "fill", u.version < version PROVE time < replaced[u.version] + Ttl
      OBVIOUS
    <3>1. time < shared.expires /\ shared.expires <= replaced[shared.version] + Ttl /\ u.version = shared.version
      BY <2>1 DEF ShortCalls
    <3>2. replaced[u.version] \in Nat /\ shared.expires \in Int /\ time \in Nat /\ Ttl \in Nat
      BY <1>1, CacheNumbers DEF LookupState
    <3>3. QED
      BY <3>1, <3>2
  <2>4. \A d \in Lookups : cache'[d] = u \/ cache'[d] = cache[d]
    BY DEF CallGoes, CacheCalls
  <2>5. QED
    BY <2>1, <2>2, <2>3, <2>4 DEF ShortCalls, Absent
<1>5. Quiet' <=> Quiet
  BY <1>2 DEF Quiet
<1>6. \A d \in Lookups : (cache'[d] = u /\ d = c) \/ cache'[d] = cache[d]
  BY DEF CallGoes, CacheCalls
<1>7. ASSUME ~ late PROVE DropsInTime'
  BY <1>5, <1>6, <1>7 DEF CacheInv, DropsInTime, Absent
<1>8. ASSUME ~ met' PROVE Apart'
  <2>1. Apart
    BY <1>8 DEF CacheInv
  <2>2. Quiet
    <3>1. cache[c].pc \in CacheLabels
      BY <1>1 DEF CacheShapes, LookupState
    <3>2. CASE cache[c].pc = "new"
      BY <1>8, <3>2
    <3>3. CASE cache[c].pc # "new" /\ ~ Quiet
      <4>1. cache[c].pc \in {"done", "failed"}
        BY <2>1, <3>3 DEF Apart
      <4>2. QED
        BY <4>1, <3>3
    <3>4. QED
      BY <3>2, <3>3
  <2>3. QED
    BY <1>2, <1>5, <1>6, <2>1, <2>2 DEF Apart, Absent
<1>9. QED
  BY <1>2, <1>3, <1>4, <1>7, <1>8 DEF CacheInv

LEMMA ReadsKeep ==
    ASSUME CacheInv, NEW c \in Lookups, ReadLocal(c) \/ ReadShared(c) \/ MissShared(c) \/ ReadDatabase(c)
    PROVE  CacheInv'
<1>1. /\ CacheShapes /\ NoneAhead /\ c \in CacheCalls /\ cache[c].version <= version
      /\ version \in Nat /\ shared.version \in Nat /\ shared.version <= version /\ met \in BOOLEAN
      /\ time \in Nat
  BY CacheNumbers DEF CacheInv, CacheCalls, CacheShapes, NoneAhead
<1>2. CASE ReadLocal(c)
  <2>1. PICK k \in {"done", "redis"} : CGoto(c, k)
    BY <1>2 DEF ReadLocal
  <2>2. PICK u \in LookupState : CallGoes(c, u) /\ u.pc = k /\ u.version = cache[c].version
    BY <1>1, <2>1, GoesOn DEF CacheLabels
  <2>3. met' \/ Quiet
    BY <1>2 DEF ReadLocal, Underway, Quiet
  <2>4. met' \in BOOLEAN /\ (met => met') /\ cache[c].pc = "new"
    BY <1>1, <1>2 DEF ReadLocal
  <2>5. QED
    BY <1>1, <1>2, <2>2, <2>3, <2>4, LookupGoes DEF ReadLocal
<1>3. CASE ReadShared(c)
  <2>1. PICK u \in LookupState : CallGoes(c, u) /\ u.pc = "fill" /\ u.version = shared.version
    BY <1>1, <1>3, HoldsNow DEF ReadShared, CacheLabels
  <2>2. shared # Absent
    BY <1>1, <1>3, CacheNumbers DEF ReadShared
  <2>3. QED
    BY <1>1, <1>3, <2>1, <2>2, LookupGoes DEF ReadShared
<1>4. CASE MissShared(c)
  <2>1. PICK u \in LookupState : CallGoes(c, u) /\ u.pc = "database" /\ u.version = cache[c].version
    BY <1>1, <1>4, GoesOn DEF MissShared, CacheLabels
  <2>2. QED
    BY <1>1, <1>4, <2>1, LookupGoes DEF MissShared
<1>5. CASE ReadDatabase(c)
  <2>1. PICK u \in LookupState : CallGoes(c, u) /\ u.pc = "load" /\ u.version = version
    BY <1>1, <1>5, HoldsNow DEF ReadDatabase, CacheLabels
  <2>2. version <= version
    BY <1>1
  <2>3. QED
    BY <1>1, <1>5, <2>1, <2>2, LookupGoes DEF ReadDatabase
<1>6. QED
  BY <1>2, <1>3, <1>4, <1>5

LEMMA LookupFails == ASSUME CacheInv, NEW c \in Lookups, CacheFails(c) PROVE CacheInv'
<1>1. CacheShapes /\ NoneAhead /\ c \in CacheCalls /\ cache[c].version <= version /\ c \notin Changes
      /\ met \in BOOLEAN /\ late \in BOOLEAN
  BY CachesAssumption DEF CacheInv, CacheCalls, NoneAhead, CacheShapes
<1>2. PICK u \in LookupState : CallGoes(c, u) /\ u.pc = "failed" /\ u.version = cache[c].version
  BY <1>1, GoesOn DEF CacheFails, CacheLabels
<1>3. /\ UNCHANGED <<time, version, local, shared, replaced, slow>> /\ met' = met /\ late' = late
      /\ cache[c].pc \notin {"new", "done", "failed"}
  BY <1>1 DEF CacheFails, Underway
<1>4. QED
  BY <1>1, <1>2, <1>3, LookupGoes

(***************************************************************************)
(* A lookup gives its version a new life in the process's cache.           *)
(***************************************************************************)
LEMMA KeepsLocally ==
    ASSUME CacheInv, NEW c \in Lookups, cache[c].pc \in {"fill", "load"},
           local' = [local EXCEPT ![Home[c]] = Fresh(cache[c].version)],
           CGoto(c, IF cache[c].pc = "fill" THEN "done" ELSE "store"),
           UNCHANGED <<time, version, shared, replaced, slow, late, met>>
    PROVE  CacheInv'
<1>1. /\ CacheShapes /\ NoneAhead /\ c \in CacheCalls /\ cache[c].version \in Nat /\ cache[c].version <= version
      /\ Home[c] \in Processes /\ \A d \in Changes : d \in CacheCalls /\ d # c
  BY CacheNumbers, CachesAssumption DEF CacheInv, CacheCalls, NoneAhead
<1>2. PICK u \in LookupState : /\ CallGoes(c, u) /\ u.version = cache[c].version
                             /\ u.pc = IF cache[c].pc = "fill" THEN "done" ELSE "store"
  BY <1>1, GoesOn DEF CacheLabels
<1>3. PICK e \in AnyEntry : e = Fresh(cache[c].version) /\ e.version = cache[c].version /\ e.expires = time + Ttl
  BY <1>1, CacheNumbers DEF Fresh, AnyEntry
<1>4. /\ local' \in [Processes -> AnyEntry] /\ local'[Home[c]] = e
      /\ \A p \in Processes : p # Home[c] => local'[p] = local[p]
  BY <1>1, <1>3 DEF CacheShapes
<1>5. \A d \in CacheCalls : cache'[d] = cache[d] \/ (d = c /\ cache'[d] = u)
  BY <1>2 DEF CallGoes
<1>6. CacheShapes'
  BY <1>1, <1>2, <1>4 DEF CacheShapes, CallGoes
<1>7. NoneAhead'
  <2>1. e.expires <= time + Ttl
    BY <1>1, <1>3, CacheNumbers
  <2>2. \A p \in Processes : local'[p].version <= version /\ local'[p].expires <= time + Ttl
    BY <1>1, <1>3, <1>4, <2>1 DEF NoneAhead
  <2>3. \A d \in CacheCalls : cache'[d].version <= version
    BY <1>1, <1>2, <1>5 DEF NoneAhead
  <2>4. \A d \in Lookups : cache'[d].pc \notin {"local", "drop"}
    BY <1>1, <1>2, <1>5 DEF NoneAhead, CacheCalls
  <2>5. \A d \in Changes : cache'[d] = cache[d]
    BY <1>1, <1>5
  <2>6. QED
    BY <1>1, <2>2, <2>3, <2>4, <2>5 DEF NoneAhead
<1>8. ASSUME ~ slow PROVE ShortCalls'
  <2>1. ShortCalls
    BY <1>8 DEF CacheInv
  <2>2. e.version < version => e.expires < replaced[e.version] + 2 * Ttl
    <3> SUFFICES ASSUME e.version < version PROVE e.expires < replaced[e.version] + 2 * Ttl
      OBVIOUS
    <3>1. /\ time \in Nat /\ Ttl \in Nat /\ Ttl >= 1 /\ replaced[e.version] \in Nat
      BY <1>1, <1>3, CacheNumbers
    <3>2. time < replaced[e.version] + Ttl
      BY <1>3, <2>1, <3>1 DEF ShortCalls
    <3>3. QED
      BY <1>3, <3>1, <3>2
  <2>3. \A p \in Processes : local'[p] # Absent /\ local'[p].version < version
                              => local'[p].expires < replaced[local'[p].version] + 2 * Ttl
    BY <1>4, <2>1, <2>2 DEF ShortCalls
  <2>4. \A d \in Lookups :
           /\ cache'[d].pc \in {"load", "store"} /\ cache'[d].version < version => replaced[cache'[d].version] = time
           /\ cache'[d].pc = "fill" /\ cache'[d].version < version => time < replaced[cache'[d].version] + Ttl
    BY <1>2, <1>5, <2>1 DEF ShortCalls, CacheCalls
  <2>5. QED
    BY <2>1, <2>3, <2>4 DEF ShortCalls, Absent
<1>9. Quiet' <=> Quiet
  BY <1>1, <1>5 DEF Quiet
<1>10. ASSUME ~ late PROVE DropsInTime'
  BY <1>2, <1>5, <1>9, <1>10 DEF CacheInv, DropsInTime, Absent, CacheCalls
<1>11. ASSUME ~ met PROVE Apart'
  <2>1. Apart
    BY <1>11 DEF CacheInv
  <2>2. Quiet
    BY <2>1 DEF Apart
  <2>3. e.version = version
    BY <1>3, <2>1, <2>2 DEF Apart
  <2>4. \A p \in Processes : local'[p] = local[p] \/ local'[p].version = version
    BY <1>4, <2>3
  <2>5. \A d \in Lookups : cache'[d].pc \in {"fill", "load", "store"} => cache'[d].version = version
    BY <1>2, <1>5, <2>1, <2>2 DEF Apart, CacheCalls
  <2>6. \A p \in Processes : local'[p] # Absent /\ local'[p].version < version
                              => local'[p].expires <= replaced[local'[p].version] + Ttl
    <3> SUFFICES ASSUME NEW p \in Processes, local'[p] # Absent, local'[p].version < version
                 PROVE  local'[p].expires <= replaced[local'[p].version] + Ttl
      OBVIOUS
    <3>1. local'[p] = local[p]
      BY <1>1, <2>4, CacheNumbers
    <3>2. QED
      BY <2>1, <3>1 DEF Apart
  <2>7. \A d \in Changes : cache'[d] = cache[d] /\ Home[d] \in Processes
    BY <1>1, <1>5, CacheNumbers
  <2>8. \A d \in Changes :
           cache'[d].pc \in {"drop", "done"} /\ (\A f \in Changes \ {d} : cache'[f].pc = "new") =>
               local'[Home[d]] = Absent \/ local'[Home[d]].version = version
    BY <2>1, <2>4, <2>7 DEF Apart
  <2>9. QED
    BY <1>9, <2>1, <2>2, <2>5, <2>6, <2>8 DEF Apart, Absent
<1>12. QED
  BY <1>6, <1>7, <1>8, <1>10, <1>11 DEF CacheInv

LEMMA SetSharedKeeps == ASSUME CacheInv, NEW c \in Lookups, SetShared(c) PROVE CacheInv'
<1>1. /\ CacheShapes /\ NoneAhead /\ c \in CacheCalls /\ cache[c].version \in Nat /\ cache[c].version <= version
      /\ \A d \in Changes : d \in CacheCalls /\ d # c
      /\ cache[c].pc = "store" /\ UNCHANGED <<time, version, local, replaced, slow, late, met>>
  BY CacheNumbers, CachesAssumption DEF CacheInv, CacheCalls, NoneAhead, SetShared
<1>2. PICK u \in LookupState : CallGoes(c, u) /\ u.version = cache[c].version /\ u.pc = "done"
  BY <1>1, GoesOn DEF SetShared, CacheLabels
<1>3. shared' \in AnyEntry /\ shared'.version = cache[c].version /\ shared'.expires = time + Ttl
  BY <1>1, CacheNumbers DEF SetShared, Fresh, AnyEntry
<1>4. \A d \in CacheCalls : cache'[d] = cache[d] \/ (d = c /\ cache'[d] = u)
  BY <1>2 DEF CallGoes
<1>5. CacheShapes'
  BY <1>1, <1>2, <1>3 DEF CacheShapes, CallGoes
<1>6. NoneAhead'
  <2>1. shared'.expires <= time + Ttl
    BY <1>1, <1>3, CacheNumbers
  <2>2. \A d \in CacheCalls : cache'[d].version <= version
    BY <1>1, <1>2, <1>4 DEF NoneAhead
  <2>3. \A d \in Lookups : cache'[d].pc \notin {"local", "drop"}
    BY <1>1, <1>2, <1>4 DEF NoneAhead, CacheCalls
  <2>4. \A d \in Changes : cache'[d] = cache[d]
    BY <1>1, <1>4
  <2>5. QED
    BY <1>1, <1>3, <2>1, <2>2, <2>3, <2>4 DEF NoneAhead
<1>7. ASSUME ~ slow PROVE ShortCalls'
  <2>1. ShortCalls
    BY <1>7 DEF CacheInv
  <2>2. shared'.version < version => shared'.expires <= replaced[shared'.version] + Ttl
    <3>1. shared'.version < version => replaced[shared'.version] = time
      BY <1>1, <1>3, <2>1 DEF ShortCalls
    <3>2. time \in Nat /\ Ttl \in Nat
      BY <1>1, CacheNumbers
    <3>3. QED
      BY <1>3, <3>1, <3>2
  <2>3. QED
    BY <1>1, <1>2, <1>4, <2>1, <2>2 DEF ShortCalls, Absent, CacheCalls
<1>8. Quiet' <=> Quiet
  BY <1>1, <1>4 DEF Quiet
<1>9. ASSUME ~ late PROVE DropsInTime'
  BY <1>1, <1>2, <1>3, <1>4, <1>8, <1>9 DEF CacheInv, DropsInTime, Absent, CacheCalls
<1>10. ASSUME ~ met PROVE Apart'
  <2>1. Apart
    BY <1>10 DEF CacheInv
  <2>2. Quiet
    BY <1>1, <2>1 DEF Apart
  <2>3. shared'.version = version
    BY <1>1, <1>3, <2>1, <2>2 DEF Apart
  <2>4. \A d \in Lookups : cache'[d].pc \in {"fill", "load", "store"} => cache'[d].version = version
    BY <1>2, <1>4, <2>1, <2>2 DEF Apart, CacheCalls
  <2>5. \A d \in Changes : cache'[d] = cache[d]
    BY <1>1, <1>4
  <2>6. QED
    BY <1>1, <1>8, <2>1, <2>2, <2>3, <2>4, <2>5 DEF Apart, Absent
<1>11. QED
  BY <1>1, <1>5, <1>6, <1>7, <1>9, <1>10 DEF CacheInv

(***************************************************************************)
(* A change that goes on is another change's, or nobody's, concern.        *)
(***************************************************************************)
LEMMA ChangeGoes ==
    ASSUME CacheInv, NEW c \in Changes, NEW u \in LookupState, CallGoes(c, u)
    PROVE  /\ c \in CacheCalls /\ Home[c] \in Processes
           /\ \A d \in Lookups : cache'[d] = cache[d]
           /\ \A d \in Changes : cache'[d] = cache[d] \/ (d = c /\ cache'[d] = u)
           /\ u.pc \in {"local", "drop"} => ~ Quiet'
  BY CachesAssumption DEF CallGoes, CacheCalls, Quiet

LEMMA CommitKeeps == ASSUME CacheInv, NEW c \in Changes, CommitChange(c) PROVE CacheInv'
<1>1. /\ CacheShapes /\ NoneAhead /\ c \in CacheCalls /\ cache[c].version \in Nat /\ cache[c].version <= version
      /\ UNCHANGED <<time, local, shared, slow, late>> /\ cache[c].pc = "new" /\ version' = version + 1
      /\ time \in Nat /\ version \in Nat /\ Ttl \in Nat /\ Ttl >= 1 /\ met' \in BOOLEAN /\ (met => met')
  BY CacheNumbers DEF CacheInv, CacheCalls, NoneAhead, CommitChange, CacheShapes
<1>2. PICK u \in LookupState : CallGoes(c, u) /\ u.version = cache[c].version /\ u.pc = "local"
  BY <1>1, GoesOn DEF CommitChange, CacheLabels
<1>3. /\ \A d \in Lookups : cache'[d] = cache[d]
      /\ \A d \in Changes : cache'[d] = cache[d] \/ (d = c /\ cache'[d] = u)
      /\ ~ Quiet'
  BY <1>2, ChangeGoes
<1>4. \A v \in Nat : v < version => v \in 0 .. (version - 1)
  BY <1>1
<1>5. /\ replaced' \in [0 .. (version' - 1) -> Nat] /\ replaced'[version] = time
      /\ \A v \in Nat : v < version => replaced'[v] = replaced[v]
  <2>1. 0 .. (version' - 1) = 0 .. version
    BY <1>1
  <2>2. \A v \in 0 .. version : v = version \/ v \in 0 .. (version - 1)
    BY <1>1
  <2>3. replaced' = [v \in 0 .. version |-> IF v = version THEN time ELSE replaced[v]]
    BY DEF CommitChange
  <2>4. replaced' \in [0 .. version -> Nat]
    BY <1>1, <2>2, <2>3 DEF CacheShapes
  <2>5. version \in 0 .. version /\ \A v \in Nat : v < version => v \in 0 .. version /\ v # version
    BY <1>1
  <2>6. QED
    BY <2>1, <2>3, <2>4, <2>5
<1>6. \A v \in Nat : v < version' => v = version \/ v < version
  BY <1>1
<1>7. CacheShapes'
  BY <1>1, <1>2, <1>5 DEF CacheShapes, CallGoes
<1>8. NoneAhead'
  <2>1. \A v \in Nat : v <= version => v <= version'
    BY <1>1
  <2>2. shared.version <= version' /\ \A p \in Processes : local[p].version <= version'
    BY <1>1, <2>1, CacheNumbers DEF NoneAhead
  <2>3. \A d \in CacheCalls : cache'[d].version = cache[d].version
    BY <1>2 DEF CallGoes
  <2>4. \A d \in CacheCalls : cache'[d].version <= version'
    BY <1>1, <2>1, <2>3, CacheNumbers DEF NoneAhead
  <2>5. QED
    BY <1>1, <1>2, <1>3, <2>2, <2>4 DEF NoneAhead
<1>9. ASSUME ~ slow PROVE ShortCalls'
  <2>1. ShortCalls
    BY <1>9 DEF CacheInv
  <2>2. ASSUME NEW d \in Lookups
        PROVE  /\ cache[d].pc \in {"load", "store"} /\ cache[d].version < version' => replaced'[cache[d].version] = time
               /\ cache[d].pc = "fill" /\ cache[d].version < version' => time < replaced'[cache[d].version] + Ttl
    <3>1. cache[d].version \in Nat
      BY <1>1, CacheNumbers DEF CacheCalls
    <3>2. CASE cache[d].version < version
      BY <1>5, <2>1, <3>1, <3>2 DEF ShortCalls
    <3>3. CASE cache[d].version = version
      BY <1>1, <1>5, <3>3
    <3>4. QED
      BY <1>6, <3>1, <3>2, <3>3
  <2>3. shared # Absent /\ shared.version < version' => shared.expires <= replaced'[shared.version] + Ttl
    <3>1. shared.version \in Nat
      BY <1>1, CacheNumbers
    <3>2. CASE shared.version < version
      BY <1>5, <2>1, <3>1, <3>2 DEF ShortCalls
    <3>3. CASE shared.version = version
      BY <1>1, <1>5, <3>3 DEF NoneAhead
    <3>4. QED
      BY <1>6, <3>1, <3>2, <3>3
  <2>4. ASSUME NEW p \in Processes, local[p] # Absent, local[p].version < version'
        PROVE  local[p].expires < replaced'[local[p].version] + 2 * Ttl
    <3>1. local[p].version \in Nat /\ local[p].expires \in Int
      BY <1>1, CacheNumbers
    <3>2. CASE local[p].version < version
      BY <1>5, <2>1, <2>4, <3>1, <3>2 DEF ShortCalls
    <3>3. CASE local[p].version = version
      <4>1. local[p].expires <= time + Ttl
        BY <1>1 DEF NoneAhead
      <4>2. QED
        BY <1>1, <1>5, <3>1, <3>3, <4>1
    <3>4. QED
      BY <1>6, <2>4, <3>1, <3>2, <3>3
  <2>5. QED
    BY <1>1, <1>3, <2>2, <2>3, <2>4 DEF ShortCalls, Absent
<1>10. DropsInTime'
  BY <1>3 DEF DropsInTime
<1>11. ASSUME ~ met' PROVE Apart'
  <2>1. Apart
    BY <1>1, <1>11 DEF CacheInv
  <2>2. \A d \in Lookups : cache[d].pc \in {"new", "done", "failed"}
    BY <1>11 DEF CommitChange, Underway
  <2>3. ASSUME NEW p \in Processes, local[p] # Absent, local[p].version < version'
        PROVE  local[p].expires <= replaced'[local[p].version] + Ttl
    <3>1. local[p].version \in Nat /\ local[p].expires \in Int
      BY <1>1, CacheNumbers
    <3>2. CASE local[p].version < version
      BY <1>5, <2>1, <2>3, <3>1, <3>2 DEF Apart
    <3>3. CASE local[p].version = version
      BY <1>1, <1>5, <3>3 DEF NoneAhead
    <3>4. QED
      BY <1>6, <2>3, <3>1, <3>2, <3>3
  <2>4. ASSUME NEW d \in Changes, cache'[d].pc \in {"drop", "done"}, \A f \in Changes \ {d} : cache'[f].pc = "new"
        PROVE  FALSE
    <3>1. d # c
      BY <1>2, <2>4 DEF CallGoes
    <3>2. cache'[c].pc = "new"
      BY <2>4, <3>1
    <3>3. QED
      BY <1>2, <3>2 DEF CallGoes
  <2>5. QED
    BY <1>1, <1>3, <2>2, <2>3, <2>4 DEF Apart, Absent
<1>12. QED
  BY <1>1, <1>7, <1>8, <1>9, <1>10, <1>11 DEF CacheInv

LEMMA DropLocalKeeps == ASSUME CacheInv, NEW c \in Changes, DropLocal(c) PROVE CacheInv'
<1>1. /\ CacheShapes /\ NoneAhead /\ c \in CacheCalls /\ cache[c].version \in Nat /\ cache[c].version <= version
      /\ UNCHANGED <<time, version, shared, replaced, slow, late, met>> /\ cache[c].pc = "local"
      /\ Absent.version <= version /\ Absent.expires <= time + Ttl /\ Absent \in AnyEntry
  BY CacheNumbers DEF CacheInv, CacheCalls, NoneAhead, DropLocal, CacheShapes
<1>2. PICK u \in LookupState : CallGoes(c, u) /\ u.version = cache[c].version /\ u.pc = "drop"
  BY <1>1, GoesOn DEF DropLocal, CacheLabels
<1>3. /\ \A d \in Lookups : cache'[d] = cache[d]
      /\ \A d \in Changes : cache'[d] = cache[d] \/ (d = c /\ cache'[d] = u)
      /\ ~ Quiet' /\ ~ Quiet
  BY <1>1, <1>2, ChangeGoes DEF Quiet
<1>4. /\ local' \in [Processes -> AnyEntry] /\ local'[Home[c]] = Absent
      /\ \A p \in Processes : local'[p] = local[p] \/ local'[p] = Absent
  BY <1>1, CacheNumbers DEF DropLocal, CacheShapes
<1>5. CacheShapes'
  BY <1>1, <1>2, <1>4 DEF CacheShapes, CallGoes
<1>6. NoneAhead'
  <2>1. \A p \in Processes : local'[p].version <= version /\ local'[p].expires <= time + Ttl
    BY <1>1, <1>4 DEF NoneAhead
  <2>2. \A d \in CacheCalls : cache'[d].version = cache[d].version
    BY <1>2 DEF CallGoes
  <2>3. QED
    BY <1>1, <1>2, <1>3, <2>1, <2>2 DEF NoneAhead
<1>7. ~ slow => ShortCalls'
  BY <1>1, <1>3, <1>4 DEF CacheInv, ShortCalls, Absent
<1>8. DropsInTime'
  BY <1>3 DEF DropsInTime
<1>9. ASSUME ~ met PROVE Apart'
  <2>1. Apart /\ Home[c] \in Processes
    BY <1>1, <1>9, CacheNumbers DEF CacheInv
  <2>2. ASSUME NEW d \in Changes, cache'[d].pc \in {"drop", "done"}, \A f \in Changes \ {d} : cache'[f].pc = "new"
        PROVE  d = c
    <3>1. CASE d # c
      <4>1. cache'[c].pc = "new"
        BY <2>2, <3>1
      <4>2. QED
        BY <1>2, <4>1 DEF CallGoes
    <3>2. QED
      BY <3>1
  <2>3. \A p \in Processes : local'[p] # Absent => local'[p] = local[p]
    BY <1>4
  <2>4. \A p \in Processes : local'[p] # Absent /\ local'[p].version < version
                              => local'[p].expires <= replaced[local'[p].version] + Ttl
    BY <2>1, <2>3 DEF Apart
  <2>5. \A d \in Lookups : cache'[d].pc \in {"new", "done", "failed"}
    BY <1>3, <2>1 DEF Apart
  <2>6. \A d \in Changes :
           cache'[d].pc \in {"drop", "done"} /\ (\A f \in Changes \ {d} : cache'[f].pc = "new") =>
               local'[Home[d]] = Absent \/ local'[Home[d]].version = version
    BY <1>4, <2>2
  <2>7. QED
    BY <1>1, <1>3, <2>4, <2>5, <2>6 DEF Apart, Absent
<1>10. QED
  BY <1>1, <1>5, <1>6, <1>7, <1>8, <1>9 DEF CacheInv

LEMMA DropSharedKeeps == ASSUME CacheInv, NEW c \in Changes, DropShared(c) PROVE CacheInv'
<1>1. /\ CacheShapes /\ NoneAhead /\ c \in CacheCalls /\ cache[c].version \in Nat /\ cache[c].version <= version
      /\ UNCHANGED <<time, version, local, replaced, slow, met>> /\ cache[c].pc = "drop"
      /\ shared' = Absent /\ late' \in BOOLEAN /\ (late => late')
      /\ Absent.version <= version /\ Absent.expires <= time + Ttl /\ Absent \in AnyEntry
  BY CacheNumbers DEF CacheInv, CacheCalls, NoneAhead, DropShared, CacheShapes
<1>2. PICK u \in LookupState : CallGoes(c, u) /\ u.version = cache[c].version /\ u.pc = "done"
  BY <1>1, GoesOn DEF DropShared, CacheLabels
<1>3. /\ \A d \in Lookups : cache'[d] = cache[d]
      /\ \A d \in Changes : cache'[d] = cache[d] \/ (d = c /\ cache'[d] = u)
      /\ ~ Quiet
  BY <1>1, <1>2, ChangeGoes DEF Quiet
<1>4. CacheShapes'
  BY <1>1, <1>2 DEF CacheShapes, CallGoes
<1>5. NoneAhead'
  <2>1. \A d \in CacheCalls : cache'[d].version = cache[d].version
    BY <1>2 DEF CallGoes
  <2>2. QED
    BY <1>1, <1>2, <1>3, <2>1 DEF NoneAhead
<1>6. ~ slow => ShortCalls'
  BY <1>1, <1>3 DEF CacheInv, ShortCalls, Absent
<1>7. ASSUME ~ late' PROVE DropsInTime'
  <2>1. \A d \in Lookups : cache[d].pc \in {"load", "store"} => ~ (cache[d].version < version)
    BY <1>7 DEF DropShared
  <2>2. \A d \in Lookups : cache[d].version \in Nat /\ cache[d].version <= version /\ version \in Nat
    BY <1>1, CacheNumbers DEF CacheCalls, NoneAhead
  <2>3. \A d \in Lookups : cache[d].pc \in {"load", "store"} => cache[d].version = version
    BY <2>1, <2>2
  <2>4. QED
    BY <1>1, <1>3, <2>3 DEF DropsInTime, Absent
<1>8. ASSUME ~ met PROVE Apart'
  <2>1. Apart
    BY <1>8 DEF CacheInv
  <2>2. \A d \in Lookups : cache'[d].pc \in {"new", "done", "failed"}
    BY <1>3, <2>1 DEF Apart
  <2>3. ASSUME NEW d \in Changes, cache'[d].pc \in {"drop", "done"}, \A f \in Changes \ {d} : cache'[f].pc = "new"
        PROVE  local[Home[d]] = Absent \/ local[Home[d]].version = version
    <3>1. d = c
      <4>1. CASE d # c
        <5>1. cache'[c].pc = "new"
          BY <2>3, <4>1
        <5>2. QED
          BY <1>2, <5>1 DEF CallGoes
      <4>2. QED
        BY <4>1
    <3>2. \A f \in Changes \ {c} : cache[f].pc = "new"
      BY <1>3, <2>3, <3>1
    <3>3. QED
      BY <1>1, <2>1, <3>1, <3>2 DEF Apart
  <2>4. QED
    BY <1>1, <2>1, <2>2, <2>3 DEF Apart, Absent
<1>9. QED
  BY <1>1, <1>4, <1>5, <1>6, <1>7, <1>8 DEF CacheInv

LEMMA ChangeFails == ASSUME CacheInv, NEW c \in Changes, CacheFails(c) PROVE CacheInv'
<1>1. /\ CacheShapes /\ NoneAhead /\ c \in CacheCalls /\ cache[c].version \in Nat /\ cache[c].version <= version
      /\ UNCHANGED <<time, version, local, shared, replaced, slow>> /\ late' = TRUE /\ met' = TRUE
  BY CacheNumbers DEF CacheInv, CacheCalls, NoneAhead, CacheFails, CacheShapes
<1>2. PICK u \in LookupState : CallGoes(c, u) /\ u.version = cache[c].version /\ u.pc = "failed"
  BY <1>1, GoesOn DEF CacheFails, CacheLabels
<1>3. /\ \A d \in Lookups : cache'[d] = cache[d]
      /\ \A d \in Changes : cache'[d] = cache[d] \/ (d = c /\ cache'[d] = u)
  BY <1>1, <1>2, ChangeGoes
<1>4. CacheShapes'
  BY <1>1, <1>2 DEF CacheShapes, CallGoes
<1>5. NoneAhead'
  <2>1. \A d \in CacheCalls : cache'[d].version = cache[d].version
    BY <1>2 DEF CallGoes
  <2>2. QED
    BY <1>1, <1>2, <1>3, <2>1 DEF NoneAhead
<1>6. ~ slow => ShortCalls'
  BY <1>1, <1>3 DEF CacheInv, ShortCalls, Absent
<1>7. QED
  BY <1>1, <1>4, <1>5, <1>6 DEF CacheInv

LEMMA CacheNextInv == CacheInv /\ [CacheNext]_cacheVars => CacheInv'
<1> SUFFICES ASSUME CacheInv, [CacheNext]_cacheVars PROVE CacheInv'
  OBVIOUS
<1>1. CASE UNCHANGED cacheVars
  BY <1>1 DEF cacheVars, CacheInv, CacheShapes, NoneAhead, ShortCalls, DropsInTime, Apart, Quiet, Absent
<1>2. ASSUME NEW c \in Lookups, Fill(c) PROVE CacheInv'
  <2>1. CGoto(c, IF cache[c].pc = "fill" THEN "done" ELSE "store") /\ cache[c].pc \in {"fill", "load"}
    BY <1>2 DEF Fill
  <2>2. QED
    BY <1>2, <2>1, KeepsLocally DEF Fill
<1>3. ASSUME NEW c \in Lookups, SetLocal(c) PROVE CacheInv'
  <2>1. CGoto(c, IF cache[c].pc = "fill" THEN "done" ELSE "store") /\ cache[c].pc \in {"fill", "load"}
    BY <1>3 DEF SetLocal
  <2>2. QED
    BY <1>3, <2>1, KeepsLocally DEF SetLocal
<1>4. ASSUME NEW c \in CacheCalls, CacheFails(c) PROVE CacheInv'
  BY <1>4, LookupFails, ChangeFails DEF CacheCalls
<1>5. QED
  BY <1>1, <1>2, <1>3, <1>4, CacheClockKeeps, ReadsKeep, SetSharedKeeps, CommitKeeps, DropLocalKeeps, DropSharedKeeps
     DEF CacheNext

LEMMA CacheInvSafe == CacheInv => CachesSafe
<1> SUFFICES ASSUME CacheInv PROVE CachesSafe
  OBVIOUS
<1>1. Quiet <=> Underway(Changes) = {}
  BY DEF CacheInv, NoneAhead, Quiet, Underway
<1>2. StaleBounded
  BY DEF CacheInv, ShortCalls, StaleBounded
<1>3. RedisFresh
  BY <1>1 DEF CacheInv, DropsInTime, RedisFresh
<1>4. ChangeSeen
  BY DEF CacheInv, Apart, ChangeSeen
<1>5. QED
  BY <1>2, <1>3, <1>4 DEF CachesSafe

-----------------------------------------------------------------------------
(* Rows and the requests for them *)

RecordShapes ==
    /\ stored \subseteq Ids
    /\ removed \subseteq Ids
    /\ row \in [Ids -> RowType]
    /\ requests \in [RecordCalls -> CallState]

Known == stored \cup removed

Begun(c) == requests[c].pc # "new"

Ahead(s) == {s[n] : n \in DOMAIN s}

Different(s) == \A m, n \in DOMAIN s : m # n => s[m] # s[n]

(***************************************************************************)
(* What a request is at is one of its rows; the rows it is to create are   *)
(* not there yet, all others are or were.                                  *)
(***************************************************************************)
PlaceOK(c) ==
    /\ requests[c].left # <<>> /\ Ahead(requests[c].left) \subseteq RowsOf(c)
    /\ ~ Work[c].bulk => requests[c].left = Work[c].ids
    /\ ~ CreatesRow(c) => requests[c].pc # "insert" /\ (Begun(c) => RowsOf(c) \subseteq Known)
    /\ CreatesRow(c) =>
          /\ requests[c].pc \in {"new", "insert", "refresh", "emit", "done"}
          /\ Different(requests[c].left)
          /\ requests[c].pc \in {"new", "insert"} => Ahead(requests[c].left) \cap Known = {}
          /\ requests[c].pc \in {"refresh", "emit"} =>
                Target(c) \in Known /\ Ahead(Tail(requests[c].left)) \cap Known = {}
    /\ Work[c].kind = "remove" =>
          requests[c].pc # "refresh" /\ (requests[c].pc = "emit" => Target(c) \in removed)

(***************************************************************************)
(* A request for one row is refused when that row is gone, and a request   *)
(* in bulk never succeeds.                                                 *)
(***************************************************************************)
AnswerOK(c) ==
    /\ requests[c].pc # "done" => requests[c].answer = "none"
    /\ Work[c].bulk => requests[c].answer # "ok"
    /\ ~ Work[c].bulk /\ requests[c].answer \in {"notfound", "failed"} => RowsOf(c) \subseteq removed

Alone(c, k) ==
    \A d \in RecordCalls : d # c /\ Begun(d) /\ Target(c) \in RowsOf(d) => k \notin DOMAIN Work[d].sets

(***************************************************************************)
(* A column nobody else edits is as the request loaded it until it writes, *)
(* and as the request wants it from then on.                               *)
(***************************************************************************)
EditOK(c) ==
    Work[c].kind = "edit" /\ ~ Work[c].bulk => \A k \in DOMAIN Work[c].sets : Alone(c, k) =>
        /\ requests[c].pc = "write" => requests[c].loaded[k] = row[Target(c)][k]
        /\ Target(c) \in stored /\ (requests[c].pc \in {"refresh", "emit"} \/ requests[c].answer = "ok") =>
               row[Target(c)][k] = Work[c].sets[k]

ToldOK ==
    \A ev \in told : IF ev[1] = "deleted" THEN ev[2] \in removed ELSE ev[2] \in Known

RecordInv ==
    /\ RecordShapes
    /\ stored \cap removed = {}
    /\ ToldOK
    /\ \A c \in RecordCalls : PlaceOK(c) /\ AnswerOK(c) /\ EditOK(c)

(***************************************************************************)
(* Sequences of rows.                                                      *)
(***************************************************************************)
LEMMA FirstAndRest ==
    ASSUME NEW s \in Seq(Ids), s # <<>>
    PROVE  /\ Head(s) \in Ids /\ Head(s) \in Ahead(s)
           /\ Tail(s) \in Seq(Ids) /\ Ahead(Tail(s)) \subseteq Ahead(s)
           /\ Len(s) # 1 => Tail(s) # <<>>
           /\ Different(s) => Head(s) \notin Ahead(Tail(s)) /\ Different(Tail(s))
<1>1. Len(s) \in Nat /\ Len(s) >= 1 /\ DOMAIN s = 1 .. Len(s)
  BY EmptySeq, LenProperties
<1>2. Head(s) = s[1] /\ 1 \in DOMAIN s /\ s[1] \in Ids
  BY <1>1, ElementOfSeq
<1>3. Tail(s) \in Seq(Ids) /\ Len(Tail(s)) = Len(s) - 1 /\ \A n \in 1 .. Len(Tail(s)) : Tail(s)[n] = s[n + 1]
  BY HeadTailProperties
<1>4. DOMAIN Tail(s) = 1 .. Len(s) - 1
  BY <1>3, LenProperties
<1>5. \A n \in DOMAIN Tail(s) : n + 1 \in DOMAIN s /\ n + 1 # 1 /\ Tail(s)[n] = s[n + 1]
  BY <1>1, <1>3, <1>4
<1>6. Head(s) \in Ahead(s) /\ Ahead(Tail(s)) \subseteq Ahead(s)
  BY <1>2, <1>5 DEF Ahead
<1>7. Len(s) # 1 => Tail(s) # <<>>
  <2>1. Len(<<>>) = 0
    BY EmptySeq
  <2>2. Len(s) # 1 => Len(Tail(s)) # 0
    BY <1>1, <1>3
  <2>3. QED
    BY <2>1, <2>2
<1>8. ASSUME Different(s) PROVE Head(s) \notin Ahead(Tail(s)) /\ Different(Tail(s))
  <2>1. Head(s) \notin Ahead(Tail(s))
    BY <1>2, <1>5, <1>8 DEF Ahead, Different
  <2>2. \A m, n \in DOMAIN Tail(s) : m # n => m + 1 # n + 1
    BY <1>1, <1>4
  <2>3. Different(Tail(s))
    BY <1>5, <1>8, <2>2 DEF Different
  <2>4. QED
    BY <2>1, <2>3
<1>9. QED
  BY <1>2, <1>3, <1>6, <1>7, <1>8

LEMMA WorkIsGiven ==
    ASSUME NEW c \in RecordCalls
    PROVE  /\ Work[c].ids \in Seq(Ids) /\ Work[c].ids # <<>> /\ RowsOf(c) = Ahead(Work[c].ids)
           /\ DOMAIN Work[c].sets \subseteq Columns /\ (\A k \in DOMAIN Work[c].sets : Work[c].sets[k] \in Values)
           /\ ~ Work[c].bulk => RowsOf(c) = {Head(Work[c].ids)}
           /\ CreatesRow(c) => Different(Work[c].ids) /\ DOMAIN Work[c].sets = {}
           /\ \A d \in RecordCalls : CreatesRow(c) /\ CreatesRow(d) /\ c # d => RowsOf(c) \cap RowsOf(d) = {}
<1>1. Work[c] \in Request
  BY WorkAssumption
<1>2. Work[c].ids \in Seq(Ids) /\ Work[c].ids # <<>> /\ RowsOf(c) = Ahead(Work[c].ids)
  BY <1>1, WorkAssumption DEF Request, RowsOf, Ahead
<1>3. PICK S \in SUBSET Columns : Work[c].sets \in [S -> Values]
  BY <1>1 DEF Request
<1>4. ASSUME ~ Work[c].bulk PROVE RowsOf(c) = {Head(Work[c].ids)}
  <2>1. Len(Work[c].ids) = 1
    BY <1>4, WorkAssumption
  <2>2. DOMAIN Work[c].ids = {1} /\ Head(Work[c].ids) = Work[c].ids[1]
    BY <1>2, <2>1, LenProperties, HeadTailProperties
  <2>3. QED
    BY <2>2 DEF RowsOf
<1>5. CreatesRow(c) => Different(Work[c].ids) /\ DOMAIN Work[c].sets = {}
  BY WorkAssumption DEF CreatesRow, Different
<1>6. \A d \in RecordCalls : CreatesRow(c) /\ CreatesRow(d) /\ c # d => RowsOf(c) \cap RowsOf(d) = {}
  BY WorkAssumption DEF CreatesRow, RowsOf
<1>7. QED
  BY <1>2, <1>3, <1>4, <1>5, <1>6

LEMMA RecordInitInv == RecordInit => RecordInv
<1> SUFFICES ASSUME RecordInit PROVE RecordInv
  OBVIOUS
<1>1. ASSUME NEW c \in RecordCalls
      PROVE  /\ requests[c].pc = "new" /\ requests[c].left = Work[c].ids /\ requests[c].answer = "none"
             /\ requests[c] \in CallState
  <2>1. Work[c].ids \in Seq(Ids) /\ Blank \in RowType
    BY WorkIsGiven, WorkAssumption DEF RowType
  <2>2. requests[c] = [pc |-> "new", left |-> Work[c].ids, loaded |-> Blank, answer |-> "none"]
    BY DEF RecordInit
  <2>3. QED
    BY <2>1, <2>2 DEF CallState, Stage
<1>2. RecordShapes
  <2>1. Blank \in RowType
    BY WorkAssumption DEF RowType
  <2>2. requests \in [RecordCalls -> CallState]
    BY <1>1 DEF RecordInit
  <2>3. QED
    BY <2>1, <2>2 DEF RecordInit, RecordShapes
<1>3. stored \cap removed = {} /\ ToldOK
  BY DEF RecordInit, ToldOK
<1>4. ASSUME NEW c \in RecordCalls PROVE PlaceOK(c) /\ AnswerOK(c) /\ EditOK(c)
  <2>1. CreatesRow(c) => RowsOf(c) \cap Known = {}
    BY <1>4 DEF RecordInit, Known
  <2>2. PlaceOK(c)
    BY <1>1, <2>1, WorkIsGiven DEF PlaceOK, Begun
  <2>3. AnswerOK(c) /\ EditOK(c)
    BY <1>1 DEF AnswerOK, EditOK
  <2>4. QED
    BY <2>2, <2>3
<1>5. QED
  BY <1>2, <1>3, <1>4 DEF RecordInv

LEMMA RecordInvSafe == RecordInv => RecordsSafe
<1> SUFFICES ASSUME RecordInv PROVE RecordsSafe
  OBVIOUS
<1>1. OnlyEditStands
  <2> SUFFICES ASSUME NEW c \in RecordCalls, NEW i \in RowsOf(c) \cap stored, NEW k \in DOMAIN Work[c].sets,
                      requests[c].answer = "ok",
                      ~ \E d \in RecordCalls \ {c} : ~ Reached(d, "new") /\ i \in RowsOf(d) /\ k \in DOMAIN Work[d].sets
               PROVE  row[i][k] = Work[c].sets[k]
    BY DEF OnlyEditStands
  <2>1. PlaceOK(c) /\ AnswerOK(c) /\ EditOK(c)
    BY DEF RecordInv
  <2>2. ~ Work[c].bulk /\ Work[c].kind = "edit"
    BY <2>1, WorkAssumption DEF AnswerOK
  <2>3. i = Target(c)
    BY <2>1, <2>2, WorkIsGiven DEF PlaceOK, Target
  <2>4. Alone(c, k)
    BY <2>3 DEF Alone, Reached, Begun
  <2>5. QED
    BY <2>1, <2>2, <2>3, <2>4 DEF EditOK
<1>2. RefusedOnlyWhenGone
  BY DEF RecordInv, AnswerOK, RefusedOnlyWhenGone
<1>3. EventsAreTrue
  BY DEF RecordInv, ToldOK, Known, EventsAreTrue
<1>4. QED
  BY <1>1, <1>2, <1>3 DEF RecordsSafe

(***************************************************************************)
(* What one request may do to the table that others rely on.               *)
(***************************************************************************)
TableMoves(c) ==
    /\ stored' \subseteq Ids /\ removed' \subseteq Ids /\ row' \in [Ids -> RowType]
    /\ stored' \cap removed' = {}
    /\ removed \subseteq removed' /\ Known \subseteq Known'
    /\ Known' \ Known \subseteq IF CreatesRow(c) THEN RowsOf(c) ELSE {}
    /\ stored' \cap Known \subseteq stored
    /\ \A i \in Known, k \in Columns :
          row'[i][k] # row[i][k] => i \in RowsOf(c) /\ k \in DOMAIN Work[c].sets

LEMMA OthersStandBy ==
    ASSUME RecordInv, NEW c \in RecordCalls, TableMoves(c), requests' \in [RecordCalls -> CallState],
           \A d \in RecordCalls : d # c => requests'[d] = requests[d],
           Begun(c)', NEW d \in RecordCalls, d # c
    PROVE  PlaceOK(d)' /\ AnswerOK(d)' /\ EditOK(d)'
<1>1. PlaceOK(d) /\ AnswerOK(d) /\ EditOK(d) /\ requests'[d] = requests[d]
  BY DEF RecordInv
<1>2. requests[d].left \in Seq(Ids) /\ requests[d].left # <<>>
  BY <1>1 DEF RecordInv, RecordShapes, CallState, PlaceOK
<1>3. PlaceOK(d)'
  <2>1. /\ requests'[d].left # <<>> /\ Ahead(requests'[d].left) \subseteq RowsOf(d)
        /\ ~ Work[d].bulk => requests'[d].left = Work[d].ids
    BY <1>1 DEF PlaceOK
  <2>2. ~ CreatesRow(d) => requests'[d].pc # "insert" /\ (Begun(d)' => RowsOf(d) \subseteq Known')
    BY <1>1 DEF PlaceOK, Begun, TableMoves
  <2>3. ASSUME CreatesRow(d)
        PROVE  /\ requests'[d].pc \in {"new", "insert", "refresh", "emit", "done"}
               /\ Different(requests'[d].left)
               /\ requests'[d].pc \in {"new", "insert"} => Ahead(requests'[d].left) \cap Known' = {}
               /\ requests'[d].pc \in {"refresh", "emit"} =>
                     Target(d)' \in Known' /\ Ahead(Tail(requests'[d].left)) \cap Known' = {}
    <3>1. (Known' \ Known) \cap RowsOf(d) = {}
      BY <2>3, WorkIsGiven DEF TableMoves
    <3>2. Ahead(Tail(requests[d].left)) \subseteq RowsOf(d)
      BY <1>1, <1>2, FirstAndRest DEF PlaceOK
    <3>3. Known \subseteq Known'
      BY DEF TableMoves
    <3>4. QED
      BY <1>1, <2>3, <3>1, <3>2, <3>3 DEF PlaceOK, Target
  <2>4. Work[d].kind = "remove" => requests'[d].pc # "refresh" /\ (requests'[d].pc = "emit" => Target(d)' \in removed')
    BY <1>1 DEF PlaceOK, Target, TableMoves
  <2>5. QED
    BY <2>1, <2>2, <2>3, <2>4 DEF PlaceOK, CreatesRow, RowsOf
<1>4. AnswerOK(d)'
  BY <1>1 DEF AnswerOK, TableMoves, RowsOf
<1>5. ASSUME Work[d].kind = "edit", ~ Work[d].bulk, NEW k \in DOMAIN Work[d].sets, Alone(d, k)'
      PROVE  /\ requests'[d].pc = "write" => requests'[d].loaded[k] = row'[Target(d)'][k]
             /\ Target(d)' \in stored' /\ (requests'[d].pc \in {"refresh", "emit"} \/ requests'[d].answer = "ok") =>
                   row'[Target(d)'][k] = Work[d].sets[k]
  <2>1. Target(d)' = Target(d) /\ k \in Columns
    BY <1>1, WorkIsGiven DEF Target
  <2>2. Alone(d, k)
    <3> SUFFICES ASSUME NEW e \in RecordCalls, e # d, Begun(e), Target(d) \in RowsOf(e) PROVE k \notin DOMAIN Work[e].sets
      BY DEF Alone
    <3>1. Begun(e)'
      BY DEF Begun
    <3>2. QED
      BY <1>5, <2>1, <3>1 DEF Alone, RowsOf
  <2>3. ~ (Target(d) \in RowsOf(c) /\ k \in DOMAIN Work[c].sets)
    BY <1>5, <2>1 DEF Alone, RowsOf
  <2>4. Begun(d) => Target(d) \in Known
    BY <1>1, <1>2, <1>5, FirstAndRest DEF PlaceOK, CreatesRow, Target
  <2>5. Begun(d) => row'[Target(d)][k] = row[Target(d)][k] /\ (Target(d) \in stored' => Target(d) \in stored)
    BY <2>1, <2>3, <2>4 DEF TableMoves
  <2>6. requests[d].answer = "ok" => Begun(d)
    BY <1>1 DEF AnswerOK, Begun
  <2>7. /\ requests[d].pc = "write" => requests[d].loaded[k] = row[Target(d)][k]
        /\ Target(d) \in stored /\ (requests[d].pc \in {"refresh", "emit"} \/ requests[d].answer = "ok") =>
               row[Target(d)][k] = Work[d].sets[k]
    BY <1>1, <1>5, <2>2 DEF EditOK
  <2>8. QED
    BY <1>1, <2>1, <2>5, <2>6, <2>7 DEF Begun
<1>6. EditOK(d)'
  BY <1>5 DEF EditOK
<1>7. QED
  BY <1>3, <1>4, <1>6

LEMMA RequestMoves ==
    ASSUME RecordInv, NEW c \in RecordCalls, TableMoves(c), requests' \in [RecordCalls -> CallState],
           \A d \in RecordCalls : d # c => requests'[d] = requests[d],
           Begun(c)', ToldOK', PlaceOK(c)', AnswerOK(c)', EditOK(c)'
    PROVE  RecordInv'
<1>1. \A d \in RecordCalls : d # c => PlaceOK(d)' /\ AnswerOK(d)' /\ EditOK(d)'
  BY OthersStandBy
<1>2. RecordShapes' /\ (stored \cap removed = {})'
  BY DEF TableMoves, RecordShapes
<1>3. QED
  BY <1>1, <1>2 DEF RecordInv

LEMMA TableStays ==
    ASSUME RecordInv, NEW c \in RecordCalls, UNCHANGED <<stored, removed, row>>
    PROVE  TableMoves(c) /\ Known' = Known
  BY DEF RecordInv, RecordShapes, TableMoves, Known

(***************************************************************************)
(* What others do is not changed by a request that moves on.               *)
(***************************************************************************)
LEMMA AloneStays ==
    ASSUME RecordInv, NEW c \in RecordCalls, requests' \in [RecordCalls -> CallState],
           \A d \in RecordCalls : d # c => requests'[d] = requests[d], Target(c)' = Target(c), NEW k
    PROVE  Alone(c, k)' <=> Alone(c, k)
  BY DEF Alone, Begun, RowsOf

LEMMA TargetIs ==
    ASSUME RecordInv, NEW c \in RecordCalls
    PROVE  /\ requests[c].left \in Seq(Ids) /\ requests[c].left # <<>>
           /\ Target(c) \in Ids /\ Target(c) \in RowsOf(c) /\ Target(c) \in Ahead(requests[c].left)
           /\ ~ Work[c].bulk => RowsOf(c) = {Target(c)}
           /\ requests[c].left = Work[c].ids => RowsOf(c) = Ahead(requests[c].left)
<1>1. PlaceOK(c)
  BY DEF RecordInv
<1>2. requests[c].left \in Seq(Ids) /\ requests[c].left # <<>>
  BY <1>1 DEF RecordInv, RecordShapes, CallState, PlaceOK
<1>3. Target(c) \in Ids /\ Target(c) \in Ahead(requests[c].left)
  BY <1>2, FirstAndRest DEF Target
<1>4. QED
  BY <1>1, <1>2, <1>3, WorkIsGiven DEF PlaceOK, Target

LEMMA ComesTo ==
    ASSUME RecordInv, NEW c \in RecordCalls, NEW stage \in Stage, Proceed(c, stage)
    PROVE  /\ requests' \in [RecordCalls -> CallState] /\ \A d \in RecordCalls : d # c => requests'[d] = requests[d]
           /\ requests'[c].pc = stage /\ requests'[c].left = requests[c].left
           /\ requests'[c].loaded = requests[c].loaded /\ requests'[c].answer = requests[c].answer
           /\ Target(c)' = Target(c)
<1>1. requests[c] \in CallState
  BY DEF RecordInv, RecordShapes
<1> DEFINE u == [requests[c] EXCEPT !.pc = stage]
<1>2. u \in CallState /\ u.pc = stage /\ u.left = requests[c].left /\ u.loaded = requests[c].loaded /\ u.answer = requests[c].answer
  BY <1>1 DEF CallState
<1>3. requests' = [requests EXCEPT ![c] = u]
  BY DEF Proceed
<1> HIDE DEF u
<1>4. requests' \in [RecordCalls -> CallState] /\ requests'[c] = u /\ \A d \in RecordCalls : d # c => requests'[d] = requests[d]
  BY <1>2, <1>3 DEF RecordInv, RecordShapes
<1>5. QED
  BY <1>2, <1>4 DEF Target

(***************************************************************************)
(* A request goes on, the table and the events being as they were.         *)
(***************************************************************************)
LEMMA ProceedKeeps ==
    ASSUME RecordInv, NEW c \in RecordCalls, NEW stage \in Stage, Proceed(c, stage),
           UNCHANGED <<stored, removed, row, told>>, requests[c].pc # "done",
           ~ CreatesRow(c) => RowsOf(c) \subseteq Known,
           \/ CreatesRow(c) /\ requests[c].pc = "new" /\ stage = "insert"
           \/ ~ CreatesRow(c) /\ stage \in {"exists", "find", "load"}
           \/ requests[c].pc = "refresh" /\ stage = "emit"
    PROVE  RecordInv'
<1>1. PlaceOK(c) /\ AnswerOK(c) /\ EditOK(c)
  BY DEF RecordInv
<1>2. /\ requests' \in [RecordCalls -> CallState] /\ \A d \in RecordCalls : d # c => requests'[d] = requests[d]
      /\ requests'[c].pc = stage /\ requests'[c].left = requests[c].left
      /\ requests'[c].loaded = requests[c].loaded /\ requests'[c].answer = requests[c].answer
      /\ Target(c)' = Target(c)
  BY ComesTo
<1>3. TableMoves(c) /\ Known' = Known /\ (ToldOK' <=> ToldOK) /\ ToldOK
  BY TableStays DEF ToldOK, RecordInv
<1>4. stage \notin {"new", "done", "write", "refresh"}
  OBVIOUS
<1>5. Begun(c)'
  BY <1>2, <1>4 DEF Begun
<1>6. PlaceOK(c)'
  BY <1>1, <1>2, <1>3, <1>4 DEF PlaceOK, RowsOf, CreatesRow, Begun
<1>7. AnswerOK(c)'
  BY <1>1, <1>2 DEF AnswerOK
<1>8. \A k : Alone(c, k)' <=> Alone(c, k)
  BY <1>2, AloneStays
<1>9. EditOK(c)'
  BY <1>1, <1>2, <1>4, <1>8 DEF EditOK, AnswerOK, CreatesRow
<1>10. QED
  BY <1>2, <1>3, <1>5, <1>6, <1>7, <1>9, RequestMoves

(***************************************************************************)
(* A request is answered.                                                  *)
(***************************************************************************)
LEMMA AnswerKeeps ==
    ASSUME RecordInv, NEW c \in RecordCalls, NEW a \in {"ok", "notfound", "failed", "rejected"}, Answer(c, a), TableMoves(c), ToldOK',
           ~ CreatesRow(c) => RowsOf(c) \subseteq Known,
           a = "ok" => ~ Work[c].bulk,
           ~ Work[c].bulk /\ a \in {"notfound", "failed"} => RowsOf(c) \subseteq removed',
           a = "ok" /\ Work[c].kind = "edit" => \A k \in DOMAIN Work[c].sets : Alone(c, k) =>
               (Target(c) \in stored' => row'[Target(c)][k] = Work[c].sets[k])
    PROVE  RecordInv'
<1>1. PlaceOK(c) /\ requests[c] \in CallState
  BY DEF RecordInv, RecordShapes
<1> DEFINE u == [requests[c] EXCEPT !.pc = "done", !.answer = a]
<1>2. u \in CallState /\ u.pc = "done" /\ u.left = requests[c].left /\ u.answer = a
  BY <1>1 DEF CallState, Stage
<1>3. requests' = [requests EXCEPT ![c] = u]
  BY DEF Answer
<1> HIDE DEF u
<1>4. requests' \in [RecordCalls -> CallState] /\ requests'[c] = u /\ \A d \in RecordCalls : d # c => requests'[d] = requests[d]
  BY <1>2, <1>3 DEF RecordInv, RecordShapes
<1>5. Target(c)' = Target(c)
  BY <1>2, <1>4 DEF Target
<1>6. \A k : Alone(c, k)' <=> Alone(c, k)
  BY <1>4, <1>5, AloneStays
<1>7. PlaceOK(c)'
  BY <1>1, <1>2, <1>4 DEF PlaceOK, CreatesRow, RowsOf, Begun, TableMoves
<1>8. AnswerOK(c)'
  BY <1>2, <1>4 DEF AnswerOK, RowsOf
<1>9. EditOK(c)'
  BY <1>2, <1>4, <1>5, <1>6 DEF EditOK
<1>10. Begun(c)'
  BY <1>2, <1>4 DEF Begun
<1>11. QED
  BY <1>4, <1>7, <1>8, <1>9, <1>10, RequestMoves

(***************************************************************************)
(* One row is dealt with.                                                  *)
(***************************************************************************)
LEMMA FinishKeeps ==
    ASSUME RecordInv, NEW c \in RecordCalls, Finish(c), requests[c].pc # "done", TableMoves(c), ToldOK',
           ~ CreatesRow(c) => RowsOf(c) \subseteq Known,
           CreatesRow(c) => Ahead(Tail(requests[c].left)) \cap Known' = {},
           ~ Work[c].bulk /\ Work[c].kind = "edit" => \A k \in DOMAIN Work[c].sets : Alone(c, k) =>
               (Target(c) \in stored' => row'[Target(c)][k] = Work[c].sets[k])
    PROVE  RecordInv'
<1>1. CASE ~ Work[c].bulk
  BY <1>1, AnswerKeeps DEF Finish
<1>2. CASE Work[c].bulk /\ Len(requests[c].left) = 1
  BY <1>2, AnswerKeeps DEF Finish
<1>3. CASE Work[c].bulk /\ Len(requests[c].left) # 1
  <2>1. PlaceOK(c) /\ AnswerOK(c) /\ requests[c] \in CallState
    BY DEF RecordInv, RecordShapes
  <2>2. requests[c].left \in Seq(Ids) /\ requests[c].left # <<>>
    BY TargetIs
  <2>3. PICK s \in Seq(Ids) : s = Tail(requests[c].left)
    BY <2>2, FirstAndRest
  <2>4. /\ s # <<>> /\ Ahead(s) \subseteq Ahead(requests[c].left)
        /\ Different(requests[c].left) => Different(s)
    BY <1>3, <2>2, <2>3, FirstAndRest
  <2>5. PICK stage \in {"insert", "exists", "find"} : stage = FirstStage(c)
    BY DEF FirstStage
  <2> DEFINE u == [requests[c] EXCEPT !.pc = stage, !.left = s]
  <2>6. u \in CallState /\ u.pc = stage /\ u.left = s /\ u.answer = requests[c].answer
    BY <2>1 DEF CallState, Stage
  <2>7. requests' = [requests EXCEPT ![c] = u]
    BY <1>3, <2>3, <2>5 DEF Finish
  <2> HIDE DEF u
  <2>8. requests' \in [RecordCalls -> CallState] /\ requests'[c] = u /\ \A d \in RecordCalls : d # c => requests'[d] = requests[d]
    BY <2>6, <2>7 DEF RecordInv, RecordShapes
  <2>9. CreatesRow(c) <=> stage = "insert"
    BY <2>5 DEF FirstStage
  <2>10. PlaceOK(c)'
    BY <1>3, <2>1, <2>3, <2>4, <2>6, <2>8, <2>9 DEF PlaceOK, CreatesRow, RowsOf, Begun, TableMoves
  <2>11. AnswerOK(c)'
    BY <1>3, <2>1, <2>6, <2>8 DEF AnswerOK
  <2>12. EditOK(c)'
    BY <1>3 DEF EditOK
  <2>13. Begun(c)'
    BY <2>6, <2>8 DEF Begun
  <2>14. QED
    BY <2>8, <2>10, <2>11, <2>12, <2>13, RequestMoves
<1>4. QED
  BY <1>1, <1>2, <1>3

LEMMA MissingKeeps ==
    ASSUME RecordInv, NEW c \in RecordCalls, Missing(c), requests[c].pc \in {"find", "load"},
           Target(c) \notin stored, UNCHANGED <<stored, removed, row, told>>
    PROVE  RecordInv'
<1>1. PlaceOK(c) /\ ~ CreatesRow(c)
  BY DEF RecordInv, PlaceOK
<1>2. RowsOf(c) \subseteq Known
  BY <1>1 DEF PlaceOK, Begun
<1>3. TableMoves(c) /\ (ToldOK' <=> ToldOK) /\ ToldOK
  BY TableStays DEF ToldOK, RecordInv
<1>4. CASE Finish(c)
  BY <1>1, <1>2, <1>3, <1>4, FinishKeeps
<1>5. CASE ~ Work[c].bulk /\ Answer(c, "notfound")
  <2>1. RowsOf(c) \subseteq removed
    BY <1>2, <1>5, TargetIs DEF Known
  <2>2. QED
    BY <1>1, <1>2, <1>3, <1>5, <2>1, AnswerKeeps
<1>6. QED
  BY <1>4, <1>5 DEF Missing

(***************************************************************************)
(* The steps.                                                              *)
(***************************************************************************)
LEMMA FindingKeeps ==
    ASSUME RecordInv, NEW c \in RecordCalls, BeginWork(c) \/ Exists(c) \/ FindById(c)
    PROVE  RecordInv'
<1>1. PlaceOK(c) /\ AnswerOK(c)
  BY DEF RecordInv
<1>2. {"insert", "exists", "find", "load"} \subseteq Stage
  BY DEF Stage
<1>3. CASE BeginWork(c)
  <2>1. PICK stage \in {"insert", "exists", "find"} : stage = FirstStage(c)
    BY DEF FirstStage
  <2>2. CreatesRow(c) <=> stage = "insert"
    BY <2>1 DEF FirstStage
  <2>3. ~ CreatesRow(c) => RowsOf(c) \subseteq Known
    BY <1>3 DEF BeginWork, Known
  <2>4. QED
    BY <1>2, <1>3, <2>1, <2>2, <2>3, ProceedKeeps DEF BeginWork, Reached
<1>4. ASSUME Exists(c) \/ FindById(c)
      PROVE  requests[c].pc \in {"exists", "find"} /\ ~ CreatesRow(c) /\ RowsOf(c) \subseteq Known
  <2>1. requests[c].pc \in {"exists", "find"}
    BY <1>4 DEF Exists, FindById, Reached
  <2>2. QED
    BY <1>1, <2>1 DEF PlaceOK, Begun
<1>5. CASE Exists(c)
  <2>1. CASE Target(c) \in stored
    BY <1>2, <1>4, <1>5, <2>1, ProceedKeeps DEF Exists
  <2>2. CASE Target(c) \notin stored
    <3>1. ~ Work[c].bulk => RowsOf(c) \subseteq removed
      BY <1>4, <1>5, <2>2, TargetIs DEF Known
    <3>2. TableMoves(c) /\ (ToldOK' <=> ToldOK) /\ ToldOK
      BY <1>5, TableStays DEF ToldOK, RecordInv, Exists
    <3>3. QED
      BY <1>4, <1>5, <2>2, <3>1, <3>2, AnswerKeeps DEF Exists
  <2>3. QED
    BY <2>1, <2>2
<1>6. CASE FindById(c)
  <2>1. CASE Target(c) \in stored
    BY <1>2, <1>4, <1>6, <2>1, ProceedKeeps DEF FindById
  <2>2. CASE Target(c) \notin stored
    BY <1>6, <2>2, MissingKeeps DEF FindById, Reached
  <2>3. QED
    BY <2>1, <2>2
<1>7. QED
  BY <1>3, <1>5, <1>6

LEMMA LoadKeeps == ASSUME RecordInv, NEW c \in RecordCalls, LoadRow(c) PROVE RecordInv'
<1>1. PlaceOK(c) /\ AnswerOK(c) /\ requests[c].pc = "load" /\ requests[c] \in CallState
  BY DEF RecordInv, RecordShapes, LoadRow, Reached
<1>2. ~ CreatesRow(c) /\ RowsOf(c) \subseteq Known
  BY <1>1 DEF PlaceOK, Begun
<1>3. CASE Target(c) \notin stored
  BY <1>1, <1>3, MissingKeeps DEF LoadRow
<1>4. CASE Target(c) \in stored
  <2>1. PICK r \in RowType : r = row[Target(c)]
    BY <1>4 DEF RecordInv, RecordShapes
  <2> DEFINE u == [requests[c] EXCEPT !.pc = "write", !.loaded = r]
  <2>2. /\ u \in CallState /\ u.pc = "write" /\ u.left = requests[c].left /\ u.loaded = r
        /\ u.answer = requests[c].answer
    BY <1>1, <2>1 DEF CallState, Stage
  <2>3. requests' = [requests EXCEPT ![c] = u]
    BY <1>4, <2>1 DEF LoadRow
  <2> HIDE DEF u
  <2>4. requests' \in [RecordCalls -> CallState] /\ requests'[c] = u /\ \A d \in RecordCalls : d # c => requests'[d] = requests[d]
    BY <2>2, <2>3 DEF RecordInv, RecordShapes
  <2>5. UNCHANGED <<stored, removed, row, told>>
    BY DEF LoadRow
  <2>6. TableMoves(c) /\ Known' = Known /\ (ToldOK' <=> ToldOK) /\ ToldOK
    BY <2>5, TableStays DEF ToldOK, RecordInv
  <2>7. Target(c)' = Target(c)
    BY <2>2, <2>4 DEF Target
  <2>8. PlaceOK(c)'
    BY <1>1, <1>2, <2>2, <2>4, <2>6 DEF PlaceOK, CreatesRow, RowsOf, Begun
  <2>9. AnswerOK(c)' /\ requests[c].answer = "none"
    BY <1>1, <2>2, <2>4 DEF AnswerOK
  <2>10. \A k \in DOMAIN Work[c].sets : requests'[c].loaded[k] = row'[Target(c)'][k]
    BY <2>1, <2>2, <2>4, <2>5, <2>7
  <2>11. EditOK(c)'
    BY <2>2, <2>4, <2>9, <2>10 DEF EditOK
  <2>12. Begun(c)'
    BY <2>2, <2>4 DEF Begun
  <2>13. QED
    BY <2>4, <2>6, <2>8, <2>9, <2>11, <2>12, RequestMoves
<1>5. QED
  BY <1>3, <1>4

LEMMA InsertKeeps == ASSUME RecordInv, NEW c \in RecordCalls, InsertRow(c) PROVE RecordInv'
<1>1. PlaceOK(c) /\ AnswerOK(c) /\ requests[c].pc = "insert"
  BY DEF RecordInv, InsertRow, Reached
<1>2. CreatesRow(c)
  BY <1>1 DEF PlaceOK
<1>3. /\ requests[c].left \in Seq(Ids) /\ requests[c].left # <<>>
      /\ Target(c) \in Ids /\ Target(c) \in RowsOf(c) /\ Target(c) \in Ahead(requests[c].left)
  BY TargetIs
<1>4. Target(c) \notin Known /\ Blank \in RowType
  BY <1>1, <1>2, <1>3, WorkAssumption DEF PlaceOK, RowType
<1>5. stored' = stored \cup {Target(c)} /\ removed' = removed /\ row' = [row EXCEPT ![Target(c)] = Blank] /\ told' = told
  BY DEF InsertRow
<1>6. Known' = Known \cup {Target(c)}
  BY <1>5 DEF Known
<1>7. TableMoves(c)
  <2>1. stored' \subseteq Ids /\ removed' \subseteq Ids /\ row' \in [Ids -> RowType]
    BY <1>3, <1>4, <1>5 DEF RecordInv, RecordShapes
  <2>2. stored' \cap removed' = {} /\ stored' \cap Known \subseteq stored
    BY <1>4, <1>5 DEF RecordInv, Known
  <2>3. \A i \in Known, k \in Columns : row'[i][k] = row[i][k]
    BY <1>4, <1>5 DEF RecordInv, RecordShapes, Known
  <2>4. QED
    BY <1>2, <1>3, <1>5, <1>6, <2>1, <2>2, <2>3 DEF TableMoves
<1>8. ToldOK'
  BY <1>5, <1>6 DEF RecordInv, ToldOK
<1>9. "refresh" \in Stage
  BY DEF Stage
<1>10. /\ requests' \in [RecordCalls -> CallState] /\ \A d \in RecordCalls : d # c => requests'[d] = requests[d]
       /\ requests'[c].pc = "refresh" /\ requests'[c].left = requests[c].left
       /\ requests'[c].answer = requests[c].answer /\ Target(c)' = Target(c)
  BY <1>9, ComesTo DEF InsertRow
<1>11. Ahead(Tail(requests[c].left)) \cap Known' = {}
  <2>1. Target(c) \notin Ahead(Tail(requests[c].left)) /\ Ahead(Tail(requests[c].left)) \subseteq Ahead(requests[c].left)
    BY <1>1, <1>2, <1>3, FirstAndRest DEF PlaceOK, Target
  <2>2. QED
    BY <1>1, <1>2, <1>6, <2>1 DEF PlaceOK
<1>12. PlaceOK(c)'
  BY <1>1, <1>2, <1>6, <1>10, <1>11 DEF PlaceOK, CreatesRow, RowsOf, Begun
<1>13. AnswerOK(c)' /\ Begun(c)'
  BY <1>1, <1>10 DEF AnswerOK, Begun
<1>14. EditOK(c)'
  BY <1>2 DEF EditOK, CreatesRow
<1>15. QED
  BY <1>7, <1>8, <1>10, <1>12, <1>13, <1>14, RequestMoves

LEMMA UpdateKeeps == ASSUME RecordInv, NEW c \in RecordCalls, Update(c) PROVE RecordInv'
<1>1. PlaceOK(c) /\ AnswerOK(c) /\ EditOK(c) /\ requests[c].pc = "write" /\ Work[c].kind = "edit"
  BY DEF RecordInv, Update, Reached
<1>2. ~ CreatesRow(c)
  BY <1>1 DEF CreatesRow
<1>3. RowsOf(c) \subseteq Known /\ Target(c) \in RowsOf(c) /\ Target(c) \in Ids
  BY <1>1, <1>2, TargetIs DEF PlaceOK, Begun
<1>4. CASE Target(c) \notin stored
  <2>1. ~ Work[c].bulk => RowsOf(c) \subseteq removed
    BY <1>3, <1>4, TargetIs DEF Known
  <2>2. UNCHANGED <<stored, removed, row, told>> /\ Answer(c, "failed")
    BY <1>4 DEF Update
  <2>3. TableMoves(c) /\ (ToldOK' <=> ToldOK) /\ ToldOK
    BY <2>2, TableStays DEF ToldOK, RecordInv
  <2>4. QED
    BY <1>2, <1>3, <2>1, <2>2, <2>3, AnswerKeeps
<1>5. CASE Target(c) \in stored
  <2>1. PICK r : r = [k \in Columns |-> Written(c, k)]
    OBVIOUS
  <2>2. row[Target(c)] \in RowType
    BY <1>3 DEF RecordInv, RecordShapes
  <2>3. \A k \in Columns : Written(c, k) \in Values
    BY <2>2, WorkIsGiven DEF Written, RowType
  <2>4. r \in RowType /\ \A k \in Columns : r[k] = Written(c, k)
    BY <2>1, <2>3 DEF RowType
  <2>5. row' = [row EXCEPT ![Target(c)] = r] /\ UNCHANGED <<stored, removed, told>> /\ Proceed(c, "refresh")
    BY <1>5, <2>1 DEF Update
  <2>6. row' \in [Ids -> RowType] /\ row'[Target(c)] = r /\ \A i \in Ids : i # Target(c) => row'[i] = row[i]
    BY <1>3, <2>4, <2>5 DEF RecordInv, RecordShapes
  <2>7. Known' = Known /\ Known \subseteq Ids
    BY <2>5 DEF Known, RecordInv, RecordShapes
  <2>8. ASSUME NEW i \in Known, NEW k \in Columns, row'[i][k] # row[i][k]
        PROVE  i \in RowsOf(c) /\ k \in DOMAIN Work[c].sets
    <3>1. i = Target(c)
      BY <2>6, <2>7, <2>8
    <3>2. Written(c, k) # row[Target(c)][k]
      BY <2>4, <2>6, <2>8, <3>1
    <3>3. QED
      BY <1>3, <3>1, <3>2 DEF Written
  <2>9. TableMoves(c)
    BY <2>5, <2>6, <2>7, <2>8 DEF TableMoves, RecordInv, RecordShapes
  <2>10. ToldOK'
    BY <2>5, <2>7 DEF RecordInv, ToldOK
  <2>11. "refresh" \in Stage
    BY DEF Stage
  <2>12. /\ requests' \in [RecordCalls -> CallState] /\ \A d \in RecordCalls : d # c => requests'[d] = requests[d]
         /\ requests'[c].pc = "refresh" /\ requests'[c].left = requests[c].left
         /\ requests'[c].answer = requests[c].answer /\ Target(c)' = Target(c)
    BY <2>5, <2>11, ComesTo
  <2>13. PlaceOK(c)'
    BY <1>1, <1>2, <1>3, <2>7, <2>12 DEF PlaceOK, CreatesRow, RowsOf, Begun
  <2>14. AnswerOK(c)' /\ Begun(c)'
    BY <1>1, <2>12 DEF AnswerOK, Begun
  <2>15. \A k : Alone(c, k)' <=> Alone(c, k)
    BY <2>12, AloneStays
  <2>16. ASSUME ~ Work[c].bulk, NEW k \in DOMAIN Work[c].sets, Alone(c, k) PROVE row'[Target(c)][k] = Work[c].sets[k]
    <3>1. requests[c].loaded[k] = row[Target(c)][k]
      BY <1>1, <2>16 DEF EditOK
    <3>2. k \in Columns
      BY <2>16, WorkIsGiven
    <3>3. Written(c, k) = Work[c].sets[k]
      BY <2>16, <3>1 DEF Written
    <3>4. QED
      BY <2>4, <2>6, <3>2, <3>3
  <2>17. EditOK(c)'
    BY <2>12, <2>15, <2>16 DEF EditOK
  <2>18. QED
    BY <2>9, <2>10, <2>12, <2>13, <2>14, <2>17, RequestMoves
<1>6. QED
  BY <1>4, <1>5

LEMMA RejectKeeps == ASSUME RecordInv, NEW c \in RecordCalls, RejectWrite(c) PROVE RecordInv'
<1>1. PlaceOK(c) /\ requests[c].pc \in {"insert", "write"}
  BY DEF RecordInv, RejectWrite, Reached
<1>2. ~ CreatesRow(c) => RowsOf(c) \subseteq Known
  BY <1>1 DEF PlaceOK, Begun
<1>3. UNCHANGED <<stored, removed, row, told>> /\ Answer(c, "rejected")
  BY DEF RejectWrite
<1>4. TableMoves(c) /\ (ToldOK' <=> ToldOK) /\ ToldOK
  BY <1>3, TableStays DEF ToldOK, RecordInv
<1>5. QED
  BY <1>2, <1>3, <1>4, AnswerKeeps

LEMMA DeleteKeeps == ASSUME RecordInv, NEW c \in RecordCalls, DeleteLoaded(c) PROVE RecordInv'
<1>1. PlaceOK(c) /\ AnswerOK(c) /\ requests[c].pc = "write" /\ Work[c].kind = "remove"
  BY DEF RecordInv, DeleteLoaded, Reached
<1>2. ~ CreatesRow(c)
  BY <1>1 DEF CreatesRow
<1>3. RowsOf(c) \subseteq Known /\ Target(c) \in RowsOf(c) /\ Target(c) \in Ids
  BY <1>1, <1>2, TargetIs DEF PlaceOK, Begun
<1>4. stored' = stored \ {Target(c)} /\ removed' = removed \cup {Target(c)} /\ UNCHANGED <<row, told>>
  BY DEF DeleteLoaded
<1>5. Known' = Known
  BY <1>3, <1>4 DEF Known
<1>6. TableMoves(c)
  BY <1>3, <1>4, <1>5 DEF TableMoves, RecordInv, RecordShapes
<1>7. ToldOK'
  BY <1>4, <1>5 DEF RecordInv, ToldOK
<1>8. CASE Work[c].bulk
  BY <1>1, <1>2, <1>3, <1>6, <1>7, <1>8, FinishKeeps DEF DeleteLoaded
<1>9. CASE ~ Work[c].bulk
  <2>1. Proceed(c, "emit") /\ "emit" \in Stage
    BY <1>9 DEF DeleteLoaded, Stage
  <2>2. /\ requests' \in [RecordCalls -> CallState] /\ \A d \in RecordCalls : d # c => requests'[d] = requests[d]
        /\ requests'[c].pc = "emit" /\ requests'[c].left = requests[c].left
        /\ requests'[c].answer = requests[c].answer /\ Target(c)' = Target(c)
    BY <2>1, ComesTo
  <2>3. PlaceOK(c)'
    BY <1>1, <1>2, <1>3, <1>4, <1>5, <2>2 DEF PlaceOK, CreatesRow, RowsOf, Begun
  <2>4. AnswerOK(c)' /\ Begun(c)'
    BY <1>1, <2>2 DEF AnswerOK, Begun
  <2>5. EditOK(c)'
    BY <1>1 DEF EditOK
  <2>6. QED
    BY <1>6, <1>7, <2>2, <2>3, <2>4, <2>5, RequestMoves
<1>10. QED
  BY <1>8, <1>9

LEMMA RefreshKeeps == ASSUME RecordInv, NEW c \in RecordCalls, Refresh(c) PROVE RecordInv'
<1>1. PlaceOK(c) /\ AnswerOK(c) /\ EditOK(c) /\ requests[c].pc = "refresh" /\ UNCHANGED <<stored, removed, row, told>>
  BY DEF RecordInv, Refresh, Reached
<1>2. TableMoves(c) /\ Known' = Known /\ (ToldOK' <=> ToldOK) /\ ToldOK
  BY <1>1, TableStays DEF ToldOK, RecordInv
<1>3. ~ CreatesRow(c) => RowsOf(c) \subseteq Known
  BY <1>1 DEF PlaceOK, Begun
<1>4. Target(c) \in Known
  BY <1>1, <1>3, TargetIs DEF PlaceOK
<1>5. CASE Target(c) \notin stored
  <2>1. ~ Work[c].bulk => RowsOf(c) \subseteq removed
    BY <1>4, <1>5, TargetIs DEF Known
  <2>2. QED
    BY <1>1, <1>2, <1>3, <1>5, <2>1, AnswerKeeps DEF Refresh
<1>6. CASE Target(c) \in stored /\ Work[c].bulk
  <2>1. CreatesRow(c) => Ahead(Tail(requests[c].left)) \cap Known' = {}
    BY <1>1, <1>2 DEF PlaceOK
  <2>2. QED
    BY <1>1, <1>2, <1>3, <1>6, <2>1, FinishKeeps DEF Refresh
<1>7. CASE Target(c) \in stored /\ ~ Work[c].bulk
  <2>1. "emit" \in Stage
    BY DEF Stage
  <2>2. QED
    BY <1>1, <1>3, <1>7, <2>1, ProceedKeeps DEF Refresh
<1>8. QED
  BY <1>5, <1>6, <1>7

LEMMA EmitKeeps == ASSUME RecordInv, NEW c \in RecordCalls, Emit(c) PROVE RecordInv'
<1>1. PlaceOK(c) /\ AnswerOK(c) /\ EditOK(c) /\ requests[c].pc = "emit" /\ UNCHANGED <<stored, removed, row>>
  BY DEF RecordInv, Emit, Reached
<1>2. TableMoves(c) /\ Known' = Known
  BY <1>1, TableStays
<1>3. ~ CreatesRow(c) => RowsOf(c) \subseteq Known
  BY <1>1 DEF PlaceOK, Begun
<1>4. Target(c) \in Known /\ (Work[c].kind = "remove" => Target(c) \in removed)
  BY <1>1, <1>3, TargetIs DEF PlaceOK
<1>5. EventName(c) = "deleted" => Work[c].kind = "remove"
  <2>1. Work[c].kind \in {"create", "edit", "remove"}
    BY WorkAssumption DEF Request
  <2>2. QED
    BY <2>1 DEF EventName, CreatesRow
<1>6. ToldOK'
  <2> SUFFICES ASSUME NEW ev \in told'
               PROVE  IF ev[1] = "deleted" THEN ev[2] \in removed' ELSE ev[2] \in Known'
    BY DEF ToldOK
  <2>1. CASE ev \in told
    BY <1>1, <1>2, <2>1 DEF RecordInv, ToldOK
  <2>2. CASE ev = <<EventName(c), Target(c)>>
    BY <1>1, <1>2, <1>4, <1>5, <2>2
  <2>3. QED
    BY <2>1, <2>2 DEF Emit
<1>7. CreatesRow(c) => Ahead(Tail(requests[c].left)) \cap Known' = {}
  BY <1>1, <1>2 DEF PlaceOK
<1>8. ~ Work[c].bulk /\ Work[c].kind = "edit" => \A k \in DOMAIN Work[c].sets : Alone(c, k) =>
          (Target(c) \in stored' => row'[Target(c)][k] = Work[c].sets[k])
  BY <1>1 DEF EditOK
<1>9. Finish(c)
  BY DEF Emit
<1>10. QED
  BY <1>1, <1>2, <1>3, <1>6, <1>7, <1>8, <1>9, FinishKeeps

LEMMA RecordNextInv == RecordInv /\ [RecordNext]_recordVars => RecordInv'
<1> SUFFICES ASSUME RecordInv, [RecordNext]_recordVars PROVE RecordInv'
  OBVIOUS
<1>1. CASE UNCHANGED recordVars
  BY <1>1 DEF recordVars, RecordInv, RecordShapes, ToldOK, PlaceOK, AnswerOK, EditOK, Alone, Target, Known, Begun,
              RowsOf, CreatesRow
<1>2. ASSUME NEW c \in RecordCalls,
             \/ BeginWork(c) \/ Exists(c) \/ FindById(c) \/ LoadRow(c) \/ InsertRow(c)
             \/ Update(c) \/ DeleteLoaded(c) \/ RejectWrite(c) \/ Refresh(c) \/ Emit(c)
      PROVE  RecordInv'
  BY <1>2, FindingKeeps, LoadKeeps, InsertKeeps, UpdateKeeps, DeleteKeeps, RejectKeeps, RefreshKeeps, EmitKeeps
<1>3. QED
  BY <1>1, <1>2 DEF RecordNext

-----------------------------------------------------------------------------
(* Pages *)

ListShapes ==
    /\ created \in [Items -> Nat]
    /\ visible \subseteq Items /\ (\A r \in visible : created[r] # 0)
    /\ writing \subseteq Items /\ (\A r \in writing : created[r] # 0)
    /\ descending \in BOOLEAN
    /\ now \in Nat \ {0} /\ (\A r \in Items : created[r] <= now)
    /\ page \in Nat \ {0}
    /\ pc \in {"rows", "count", "end"}
    /\ present \subseteq visible

(***************************************************************************)
(* The rows before r.                                                      *)
(***************************************************************************)
Before(r) == {q \in visible : Precedes(q, r)}

(***************************************************************************)
(* A row that was there all the time and has not been given to the client  *)
(* has all the pages so far before it.                                     *)
(***************************************************************************)
StillAhead ==
    "deletion" \notin changes /\ ~ Tied =>
        /\ pc = "rows" => \A r \in present \ seen : Cardinality(Before(r)) >= (page - 1) * PerPage
        /\ pc = "count" => \A r \in present \ (seen \cup items) : Cardinality(Before(r)) >= page * PerPage
        /\ pc = "end" => present \subseteq seen

(***************************************************************************)
(* When rows are only added, each after the older ones, what the client    *)
(* was given is on the pages it has been at.                               *)
(***************************************************************************)
AlreadyBehind ==
    changes = {} /\ ~ Tied /\ ~ descending =>
        /\ repeated = {}
        /\ pc # "end" => seen \subseteq visible /\ \A r \in seen : Cardinality(Before(r)) < (page - 1) * PerPage
        /\ pc = "count" => /\ items \subseteq visible /\ seen \cap items = {}
                           /\ \A r \in items : Cardinality(Before(r)) < page * PerPage

ListInv ==
    /\ ListShapes
    /\ StillAhead
    /\ AlreadyBehind

LEMMA ListInvSafe == ListInv => ListingSafe
  BY DEF ListInv, StillAhead, AlreadyBehind, ListingSafe, NothingMissed, NothingTwice

LEMMA ListInitInv == ListInit => ListInv
<1> SUFFICES ASSUME ListInit PROVE ListInv
  OBVIOUS
<1>1. ListShapes
  <2>1. 0 .. LastItemTime \subseteq Nat
    BY PageAssumption
  <2>2. now \in Nat \ {0}
    BY PageAssumption DEF ListInit
  <2>3. QED
    BY <2>1, <2>2 DEF ListInit, ListShapes
<1>2. (page - 1) * PerPage = 0
  BY PageAssumption DEF ListInit
<1>3. ASSUME NEW r \in present PROVE Cardinality(Before(r)) \in Nat
  <2>1. IsFiniteSet(visible)
    BY PageAssumption, FS_Subset, <1>1 DEF ListShapes
  <2>2. IsFiniteSet(Before(r))
    BY <2>1, FS_Subset DEF Before
  <2>3. QED
    BY <2>2, FS_CardinalityType
<1>4. StillAhead
  BY <1>2, <1>3 DEF ListInit, StillAhead
<1>5. AlreadyBehind
  BY DEF ListInit, AlreadyBehind
<1>6. QED
  BY <1>1, <1>4, <1>5 DEF ListInv

-----------------------------------------------------------------------------
(* The order of the rows *)

LEMMA CountsAreFinite ==
    ASSUME ListShapes
    PROVE  /\ IsFiniteSet(visible) /\ Cardinality(visible) \in Nat
           /\ \A r : IsFiniteSet(Before(r)) /\ Cardinality(Before(r)) \in Nat
<1>1. IsFiniteSet(visible) /\ Cardinality(visible) \in Nat
  BY PageAssumption, FS_Subset, FS_CardinalityType DEF ListShapes
<1>2. ASSUME NEW r PROVE IsFiniteSet(Before(r)) /\ Cardinality(Before(r)) \in Nat
  <2>1. Before(r) \subseteq visible
    BY DEF Before
  <2>2. IsFiniteSet(Before(r))
    BY <1>1, <2>1, FS_Subset
  <2>3. QED
    BY <2>2, FS_CardinalityType
<1>3. QED
  BY <1>1, <1>2

LEMMA OneFirst ==
    ASSUME ListShapes, ~ Tied, NEW q \in visible, NEW r \in visible, q # r
    PROVE  Precedes(q, r) \/ Precedes(r, q)
<1>1. created[q] # created[r] /\ created[q] \in Nat /\ created[r] \in Nat
  BY DEF ListShapes, Tied
<1>2. QED
  BY <1>1 DEF Precedes

LEMMA NotBeforeItself == ASSUME ListShapes, NEW r \in visible PROVE r \notin Before(r)
<1>1. created[r] \in Nat
  BY DEF ListShapes
<1>2. QED
  BY <1>1 DEF Before, Precedes

(***************************************************************************)
(* Rows that lead the others are before them, and have nothing but each    *)
(* other before them.                                                      *)
(***************************************************************************)
LEMMA LeadersAreBefore ==
    ASSUME ListShapes, ~ Tied, NEW T \in SUBSET visible, Leading(T), NEW r \in visible
    PROVE  /\ r \notin T => Cardinality(T) <= Cardinality(Before(r))
           /\ r \in T => Cardinality(Before(r)) + 1 <= Cardinality(T)
           /\ Cardinality(Before(r)) + 1 <= Cardinality(visible)
<1>1. /\ IsFiniteSet(visible) /\ IsFiniteSet(Before(r)) /\ IsFiniteSet(T)
      /\ Cardinality(Before(r)) \in Nat /\ Cardinality(T) \in Nat
  BY CountsAreFinite, FS_Subset, FS_CardinalityType
<1>2. ASSUME r \notin T PROVE Cardinality(T) <= Cardinality(Before(r))
  <2>1. T \subseteq Before(r)
    <3> SUFFICES ASSUME NEW q \in T PROVE q \in Before(r)
      OBVIOUS
    <3>1. ~ Precedes(r, q)
      BY <1>2 DEF Leading
    <3>2. QED
      BY <1>2, <3>1, OneFirst DEF Before
  <2>2. QED
    BY <1>1, <2>1, FS_Subset
<1>3. IsFiniteSet(Before(r) \cup {r}) /\ Cardinality(Before(r) \cup {r}) = Cardinality(Before(r)) + 1
  BY <1>1, NotBeforeItself, FS_AddElement
<1>4. ASSUME r \in T PROVE Cardinality(Before(r)) + 1 <= Cardinality(T)
  <2>1. Before(r) \cup {r} \subseteq T
    BY <1>4 DEF Before, Leading
  <2>2. QED
    BY <1>1, <1>3, <2>1, FS_Subset
<1>5. Cardinality(Before(r)) + 1 <= Cardinality(visible)
  <2>1. Before(r) \cup {r} \subseteq visible
    BY DEF Before
  <2>2. QED
    BY <1>1, <1>3, <2>1, FS_Subset
<1>6. QED
  BY <1>2, <1>4, <1>5

LEMMA PageNumbers ==
    ASSUME ListShapes
    PROVE  /\ (page - 1) * PerPage \in Nat /\ page * PerPage = (page - 1) * PerPage + PerPage /\ PerPage \in Nat \ {0}
           /\ ((page + 1) - 1) * PerPage = page * PerPage /\ page * PerPage \in Nat
<1>1. page - 1 \in Nat /\ PerPage \in Nat \ {0}
  BY PageAssumption DEF ListShapes
<1>2. (page - 1) * PerPage \in Nat
  BY <1>1
<1>3. page = (page - 1) + 1
  BY DEF ListShapes
<1>4. ((page - 1) + 1) * PerPage = (page - 1) * PerPage + PerPage
  BY <1>1
<1>5. (page + 1) - 1 = page
  BY DEF ListShapes
<1>6. QED
  BY <1>1, <1>2, <1>3, <1>4, <1>5

(***************************************************************************)
(* The rows of a page have the pages before it before them, and no more    *)
(* than this one.                                                          *)
(***************************************************************************)
LEMMA PageHasItsRows ==
    ASSUME ListShapes, ~ Tied, NEW S \in Pages, NEW r \in visible
    PROVE  /\ S \subseteq visible
           /\ r \notin S /\ Cardinality(Before(r)) >= (page - 1) * PerPage => Cardinality(Before(r)) >= page * PerPage
           /\ r \in S => /\ Cardinality(Before(r)) >= (page - 1) * PerPage
                         /\ Cardinality(Before(r)) < page * PerPage
<1>1. PICK a \in Nat : a = (page - 1) * PerPage /\ page * PerPage = a + PerPage
  BY PageNumbers
<1>2. PICK total \in Nat : total = Cardinality(visible)
  BY CountsAreFinite
<1>3. PICK skip \in Nat : skip = AtMost(a, total)
  BY DEF AtMost
<1>4. PICK B \in SUBSET (visible \ S) :
          /\ S \subseteq visible /\ Cardinality(S) = AtMost(PerPage, total - skip)
          /\ Cardinality(B) = skip /\ Leading(B) /\ Leading(B \cup S)
  BY <1>1, <1>2, <1>3 DEF Pages
<1>5. IsFiniteSet(S) /\ IsFiniteSet(B) /\ Cardinality(S) \in Nat /\ Cardinality(B) \in Nat
  BY <1>4, CountsAreFinite, FS_Subset, FS_CardinalityType
<1>6. Cardinality(B \cup S) = skip + Cardinality(S)
  <2>1. B \cap S = {}
    BY <1>4
  <2>2. Cardinality(B \cup S) = Cardinality(B) + Cardinality(S) - Cardinality(B \cap S)
    BY <1>5, FS_Union
  <2>3. QED
    BY <1>4, <1>5, <2>1, <2>2, FS_EmptySet
<1>7. PICK n \in Nat : n = Cardinality(Before(r))
  BY CountsAreFinite
<1>8. PICK m \in Nat : m = Cardinality(S)
  BY <1>5
<1>9. /\ r \notin B => skip <= n
      /\ r \in B => n + 1 <= skip
      /\ r \notin B \cup S => skip + m <= n
      /\ r \in B \cup S => n + 1 <= skip + m
      /\ n + 1 <= total
  <2>1. B \in SUBSET visible /\ B \cup S \in SUBSET visible
    BY <1>4
  <2>2. /\ r \notin B => Cardinality(B) <= n
        /\ r \in B => n + 1 <= Cardinality(B)
        /\ n + 1 <= total
    BY <1>2, <1>4, <1>7, <2>1, LeadersAreBefore
  <2>3. /\ r \notin B \cup S => Cardinality(B \cup S) <= n
        /\ r \in B \cup S => n + 1 <= Cardinality(B \cup S)
    BY <1>4, <1>7, <2>1, LeadersAreBefore
  <2>4. QED
    BY <1>4, <1>6, <1>8, <2>2, <2>3
<1>10. /\ skip <= a /\ skip <= total /\ (skip < total => skip = a)
       /\ m <= PerPage /\ m <= total - skip /\ (m < total - skip => m = PerPage)
  BY <1>1, <1>2, <1>3, <1>4, <1>8, PageAssumption DEF AtMost
<1>11. ASSUME r \notin S, n >= a PROVE n >= a + PerPage
  <2>1. r \notin B \cup S
    BY <1>9, <1>10, <1>11
  <2>2. QED
    BY <1>9, <1>10, <2>1, PageAssumption
<1>12. ASSUME r \in S PROVE n >= a /\ n < a + PerPage
  <2>1. r \notin B /\ r \in B \cup S
    BY <1>4, <1>12
  <2>2. QED
    BY <1>9, <1>10, <2>1, PageAssumption
<1>13. QED
  BY <1>1, <1>4, <1>7, <1>11, <1>12

-----------------------------------------------------------------------------
(* Rows come and go *)

(***************************************************************************)
(* More rows before a row keep it ahead of the pages.                      *)
(***************************************************************************)
LEMMA MoreBefore ==
    ASSUME ListShapes, ListShapes', NEW r, Before(r) \subseteq Before(r)'
    PROVE  /\ Cardinality(Before(r)) \in Nat /\ Cardinality(Before(r))' \in Nat
           /\ Cardinality(Before(r)) <= Cardinality(Before(r))'
<1>1. IsFiniteSet(Before(r)) /\ Cardinality(Before(r)) \in Nat
  BY CountsAreFinite
<1>2. IsFiniteSet(visible')
  BY PageAssumption, FS_Subset DEF ListShapes
<1>3. Before(r)' \subseteq visible'
  BY DEF Before
<1>4. IsFiniteSet(Before(r)') /\ Cardinality(Before(r)') \in Nat
  BY <1>2, <1>3, FS_Subset, FS_CardinalityType
<1>5. QED
  BY <1>1, <1>4, FS_Subset

LEMMA AheadStays ==
    ASSUME ListInv, ListShapes', UNCHANGED <<page, pc, seen, items>>, present' = present,
           "deletion" \notin changes' /\ ~ Tied' => "deletion" \notin changes /\ ~ Tied,
           \A r \in present : Before(r) \subseteq Before(r)'
    PROVE  StillAhead'
<1> SUFFICES ASSUME "deletion" \notin changes /\ ~ Tied
             PROVE  /\ pc = "rows" => \A r \in present \ seen : Cardinality(Before(r))' >= (page - 1) * PerPage
                    /\ pc = "count" => \A r \in present \ (seen \cup items) : Cardinality(Before(r))' >= page * PerPage
                    /\ pc = "end" => present \subseteq seen
  BY DEF StillAhead
<1>1. \A r \in present : /\ Cardinality(Before(r)) \in Nat /\ Cardinality(Before(r))' \in Nat
                         /\ Cardinality(Before(r)) <= Cardinality(Before(r))'
  BY MoreBefore DEF ListInv
<1>2. (page - 1) * PerPage \in Nat /\ page * PerPage \in Nat
  BY PageNumbers DEF ListInv
<1>3. QED
  BY <1>1, <1>2 DEF ListInv, StillAhead

LEMMA BehindStays ==
    ASSUME ListInv, UNCHANGED <<page, pc, seen, items, repeated, descending>>,
           changes' = {} => changes = {}, ~ Tied' => ~ Tied, visible \subseteq visible',
           \A r \in visible : Before(r)' = Before(r)
    PROVE  AlreadyBehind'
<1> SUFFICES ASSUME changes = {}, ~ Tied, ~ descending PROVE AlreadyBehind'
  BY DEF AlreadyBehind
<1>1. /\ repeated = {}
      /\ pc # "end" => seen \subseteq visible /\ \A r \in seen : Cardinality(Before(r)) < (page - 1) * PerPage
      /\ pc = "count" => /\ items \subseteq visible /\ seen \cap items = {}
                         /\ \A r \in items : Cardinality(Before(r)) < page * PerPage
  BY DEF ListInv, AlreadyBehind
<1>2. /\ repeated' = {}
      /\ pc' # "end" => seen' \subseteq visible' /\ \A r \in seen' : Cardinality(Before(r)') < (page' - 1) * PerPage
      /\ pc' = "count" => /\ items' \subseteq visible' /\ seen' \cap items' = {}
                          /\ \A r \in items' : Cardinality(Before(r)') < page' * PerPage
  BY <1>1
<1>3. QED
  BY <1>2 DEF AlreadyBehind

LEMMA TickKeeps == ASSUME ListInv, Tick PROVE ListInv'
<1>1. ListShapes'
  BY DEF ListInv, ListShapes, Tick, reading
<1>2. \A r : Before(r)' = Before(r)
  BY DEF Tick, reading, Before, Precedes
<1>3. Tied' <=> Tied
  BY DEF Tick, Tied
<1>4. StillAhead'
  BY <1>1, <1>2, <1>3, AheadStays DEF Tick, reading
<1>5. AlreadyBehind'
  BY <1>2, <1>3 DEF ListInv, AlreadyBehind, Tick, reading
<1>6. QED
  BY <1>1, <1>4, <1>5 DEF ListInv

LEMMA AddKeeps == ASSUME ListInv, NEW n \in Items, AddRow(n) PROVE ListInv'
<1>1. /\ created[n] = 0 /\ created' = [created EXCEPT ![n] = now] /\ writing' = writing \cup {n}
      /\ UNCHANGED <<now, visible, present, changes, descending, page, items, pc, seen, repeated>>
  BY DEF AddRow, reading
<1>2. /\ created' \in [Items -> Nat] /\ created'[n] = now /\ \A r \in Items : r # n => created'[r] = created[r]
      /\ now \in Nat \ {0} /\ n \notin visible /\ visible \subseteq Items /\ n \notin writing /\ writing \subseteq Items
      /\ \A r \in Items : created[r] \in Nat /\ created[r] <= now
  BY <1>1 DEF ListInv, ListShapes
<1>3. ListShapes'
  BY <1>1, <1>2 DEF ListInv, ListShapes
<1>4. ~ Tied' => ~ Tied
  <2> SUFFICES ASSUME Tied PROVE Tied'
    OBVIOUS
  <2>1. PICK q \in Items, r \in Items : q # r /\ created[q] # 0 /\ created[q] = created[r]
    BY DEF Tied
  <2>2. q # n /\ r # n
    BY <1>1, <2>1
  <2>3. created'[q] = created[q] /\ created'[r] = created[r]
    BY <1>2, <2>2
  <2>4. QED
    BY <2>1, <2>3 DEF Tied
<1>5. ASSUME NEW r \in visible PROVE Before(r)' = Before(r)
  <2>1. ASSUME NEW q \in visible PROVE Precedes(q, r)' <=> Precedes(q, r)
    <3>1. created'[q] = created[q] /\ created'[r] = created[r] /\ descending' = descending
      BY <1>1, <1>2
    <3>2. QED
      BY <3>1 DEF Precedes
  <2>2. QED
    BY <1>1, <2>1 DEF Before
<1>6. present \subseteq visible
  BY DEF ListInv, ListShapes
<1>7. StillAhead'
  BY <1>1, <1>3, <1>4, <1>5, <1>6, AheadStays
<1>8. AlreadyBehind'
  BY <1>1, <1>4, <1>5, BehindStays
<1>9. QED
  BY <1>3, <1>7, <1>8 DEF ListInv

(***************************************************************************)
(* A row that is committed comes after the visible ones when it is younger *)
(* than they are.                                                          *)
(***************************************************************************)
LEMMA UnitCommitKeeps == ASSUME ListInv, NEW n \in Items, CommitRow(n) PROVE ListInv'
<1>1. /\ n \in writing /\ visible' = visible \cup {n} /\ writing' = writing \ {n}
      /\ UNCHANGED <<created, now, present, descending, page, items, pc, seen, repeated>>
  BY DEF CommitRow, reading
<1>0. changes \subseteq changes' /\ ((\E q \in visible : created[q] > created[n]) => changes' # {})
  BY DEF CommitRow
<1>2. ListShapes'
  BY <1>1 DEF ListInv, ListShapes
<1>3. Tied' <=> Tied
  BY <1>1 DEF Tied
<1>4. \A q, r : Precedes(q, r)' <=> Precedes(q, r)
  BY <1>1 DEF Precedes
<1>5. \A r : Before(r) \subseteq Before(r)'
  BY <1>1, <1>4 DEF Before
<1>6. changes \subseteq changes'
  BY <1>0
<1>7. StillAhead'
  BY <1>1, <1>2, <1>3, <1>5, <1>6, AheadStays
<1>8. AlreadyBehind'
  <2> SUFFICES ASSUME changes' = {}, ~ descending PROVE AlreadyBehind'
    BY <1>1 DEF AlreadyBehind
  <2>1. ASSUME NEW r \in visible PROVE Before(r)' = Before(r)
    <3>1. ~ (created[r] > created[n])
      BY <1>0, <2>1
    <3>2. created[r] \in Nat /\ created[n] \in Nat
      BY DEF ListInv, ListShapes
    <3>3. ~ (created[n] < created[r])
      BY <3>1, <3>2
    <3>4. ~ Precedes(n, r)
      BY <3>3 DEF Precedes
    <3>5. QED
      BY <1>1, <1>4, <3>4 DEF Before
  <2>2. changes = {} /\ visible \subseteq visible'
    BY <1>1, <1>6
  <2>3. QED
    BY <1>1, <1>3, <2>1, <2>2, BehindStays
<1>9. QED
  BY <1>2, <1>7, <1>8 DEF ListInv

LEMMA DeleteKeepsPages == ASSUME ListInv, NEW n \in Items, DeleteRow(n) PROVE ListInv'
<1>1. ListShapes'
  BY DEF ListInv, ListShapes, DeleteRow, reading
<1>2. "deletion" \in changes'
  BY DEF DeleteRow
<1>3. StillAhead' /\ AlreadyBehind'
  BY <1>2 DEF StillAhead, AlreadyBehind
<1>4. QED
  BY <1>1, <1>3 DEF ListInv

LEMMA RestoreKeepsPages == ASSUME ListInv, NEW n \in Items, RestoreRow(n) PROVE ListInv'
<1>1. ListShapes'
  BY DEF ListInv, ListShapes, RestoreRow, reading
<1>2. \A r : Before(r) \subseteq Before(r)'
  BY DEF RestoreRow, reading, Before, Precedes
<1>3. (Tied' <=> Tied) /\ ("deletion" \notin changes' => "deletion" \notin changes) /\ changes' # {}
  BY DEF RestoreRow, Tied
<1>4. StillAhead'
  BY <1>1, <1>2, <1>3, AheadStays DEF RestoreRow, reading
<1>5. AlreadyBehind'
  BY <1>3 DEF AlreadyBehind
<1>6. QED
  BY <1>1, <1>4, <1>5 DEF ListInv

-----------------------------------------------------------------------------
(* The client *)

LEMMA FindKeeps == ASSUME ListInv, FindAll PROVE ListInv'
<1>1. /\ pc = "rows" /\ items' \in Pages /\ pc' = "count"
      /\ UNCHANGED <<created, writing, visible, descending, now, page, seen, repeated, present, changes>>
  BY DEF FindAll
<1>2. ListShapes' /\ ListShapes
  BY <1>1 DEF ListInv, ListShapes
<1>3. (\A r : Before(r)' = Before(r)) /\ (Tied' <=> Tied)
  BY <1>1 DEF Before, Precedes, Tied
<1>4. PICK S \in Pages : S = items'
  BY <1>1
<1>5. ~ Tied => \A r \in visible :
          /\ S \subseteq visible
          /\ r \notin S /\ Cardinality(Before(r)) >= (page - 1) * PerPage => Cardinality(Before(r)) >= page * PerPage
          /\ r \in S => /\ Cardinality(Before(r)) >= (page - 1) * PerPage
                        /\ Cardinality(Before(r)) < page * PerPage
  BY <1>2, PageHasItsRows
<1>6. present \subseteq visible /\ S \subseteq visible
  BY <1>2, <1>4 DEF ListShapes, Pages
<1>7. StillAhead'
  <2> SUFFICES ASSUME "deletion" \notin changes, ~ Tied, NEW r \in present \ (seen \cup S)
               PROVE  Cardinality(Before(r)) >= page * PerPage
    BY <1>1, <1>3, <1>4 DEF StillAhead
  <2>1. Cardinality(Before(r)) >= (page - 1) * PerPage
    BY <1>1 DEF ListInv, StillAhead
  <2>2. QED
    BY <1>5, <1>6, <2>1
<1>8. AlreadyBehind'
  <2> SUFFICES ASSUME changes = {}, ~ Tied, ~ descending PROVE AlreadyBehind'
    BY <1>1, <1>3 DEF AlreadyBehind
  <2>1. repeated = {} /\ seen \subseteq visible /\ \A r \in seen : Cardinality(Before(r)) < (page - 1) * PerPage
    BY <1>1 DEF ListInv, AlreadyBehind
  <2>2. ASSUME NEW r \in seen \cap S PROVE FALSE
    <3>1. Cardinality(Before(r)) >= (page - 1) * PerPage /\ Cardinality(Before(r)) < (page - 1) * PerPage
      BY <1>5, <1>6, <2>1, <2>2
    <3>2. Cardinality(Before(r)) \in Nat /\ (page - 1) * PerPage \in Nat
      BY <1>2, CountsAreFinite, PageNumbers
    <3>3. QED
      BY <3>1, <3>2
  <2>3. seen \cap S = {}
    BY <2>2
  <2>4. \A r \in S : Cardinality(Before(r)) < page * PerPage
    BY <1>5, <1>6
  <2>5. QED
    BY <1>1, <1>3, <1>4, <1>6, <2>1, <2>3, <2>4 DEF AlreadyBehind
<1>9. QED
  BY <1>2, <1>7, <1>8 DEF ListInv

LEMMA CountKeeps == ASSUME ListInv, Count PROVE ListInv'
<1>1. /\ pc = "count" /\ seen' = seen \cup items /\ repeated' = repeated \cup (seen \cap items)
      /\ UNCHANGED <<created, writing, visible, descending, now, present, changes>>
  BY DEF Count
<1>2. \/ HasNext /\ page' = page + 1 /\ pc' = "rows"
      \/ ~ HasNext /\ page' = page /\ pc' = "end"
  BY DEF Count
<1>3. ListShapes' /\ ListShapes
  BY <1>1, <1>2 DEF ListInv, ListShapes
<1>4. (\A r : Before(r)' = Before(r)) /\ (Tied' <=> Tied)
  BY <1>1 DEF Before, Precedes, Tied
<1>5. PICK b \in Nat : b = page * PerPage /\ ((page + 1) - 1) * PerPage = b /\ (page - 1) * PerPage <= b /\ (page - 1) * PerPage \in Nat
  BY <1>3, PageNumbers
<1>6. StillAhead'
  <2> SUFFICES ASSUME "deletion" \notin changes, ~ Tied PROVE StillAhead'
    BY <1>1, <1>4 DEF StillAhead
  <2>1. \A r \in present \ (seen \cup items) : Cardinality(Before(r)) >= b
    BY <1>1, <1>5 DEF ListInv, StillAhead
  <2>2. CASE pc' = "rows"
    BY <1>1, <1>2, <1>4, <1>5, <2>1, <2>2 DEF StillAhead
  <2>3. CASE pc' = "end"
    <3>1. PICK total \in Nat : total = Cardinality(visible)
      BY <1>3, CountsAreFinite
    <3>2. total <= page * PerPage
      <4>1. ~ (page < (total + PerPage - 1) \div PerPage)
        BY <1>2, <2>3, <3>1 DEF HasNext
      <4>2. page \in Nat /\ PerPage \in Nat \ {0}
        BY <1>3, PageAssumption DEF ListShapes
      <4>3. QED
        BY <4>1, <4>2
    <3>3. ASSUME NEW r \in present \ (seen \cup items) PROVE FALSE
      <4>1. r \in visible
        BY <1>3 DEF ListShapes
      <4>2. PICK n \in Nat : n = Cardinality(Before(r))
        BY <1>3, CountsAreFinite
      <4>3. n + 1 <= total
        <5>1. Leading({})
          BY DEF Leading
        <5>2. QED
          BY <1>3, <3>1, <4>1, <4>2, <5>1, LeadersAreBefore
      <4>4. n >= b
        BY <2>1, <3>3, <4>2
      <4>5. QED
        BY <1>5, <3>2, <4>3, <4>4
    <3>4. QED
      BY <1>1, <2>3, <3>3 DEF StillAhead
  <2>4. QED
    BY <1>2, <2>2, <2>3
<1>7. AlreadyBehind'
  <2> SUFFICES ASSUME changes = {}, ~ Tied, ~ descending PROVE AlreadyBehind'
    BY <1>1, <1>4 DEF AlreadyBehind
  <2>1. /\ repeated = {} /\ seen \subseteq visible /\ \A r \in seen : Cardinality(Before(r)) < (page - 1) * PerPage
        /\ items \subseteq visible /\ seen \cap items = {} /\ \A r \in items : Cardinality(Before(r)) < b
    BY <1>1, <1>5 DEF ListInv, AlreadyBehind
  <2>2. \A r \in seen : Cardinality(Before(r)) < b
    <3>1. \A r : Cardinality(Before(r)) \in Nat
      BY <1>3, CountsAreFinite
    <3>2. QED
      BY <1>5, <2>1, <3>1
  <2>3. pc' # "end" => (page' - 1) * PerPage = b
    BY <1>2, <1>5
  <2>4. pc' # "count"
    BY <1>2
  <2>5. QED
    BY <1>1, <1>4, <2>1, <2>2, <2>3, <2>4 DEF AlreadyBehind
<1>8. QED
  BY <1>3, <1>6, <1>7 DEF ListInv

LEMMA ListNextInv == ListInv /\ [ListNext]_listVars => ListInv'
<1> SUFFICES ASSUME ListInv, [ListNext]_listVars PROVE ListInv'
  OBVIOUS
<1>1. CASE UNCHANGED listVars
  BY <1>1 DEF listVars, ListInv, ListShapes, StillAhead, AlreadyBehind, Before, Precedes, Tied
<1>2. QED
  BY <1>1, TickKeeps, AddKeeps, UnitCommitKeeps, DeleteKeepsPages, RestoreKeepsPages, FindKeeps, CountKeeps DEF ListNext

-----------------------------------------------------------------------------
(* Units of work *)

(***************************************************************************)
(* Before it is left: what a unit that was ended by its block still holds  *)
(* was added later; what was dropped, a rollback of the unit or a failure  *)
(* took back, and a session is broken by a failure, that the block caught  *)
(* or that is on its way; what is saved without a commit, repositories     *)
(* saved.  A unit is open only over a given session.                       *)
(***************************************************************************)
Outcome ==
    /\ ~ (committed /\ rolledBack)
    /\ committed \/ rolledBack => pending \subseteq addedLate
    /\ dropped # {} => rolledBack \/ caught \/ error = "database"
    /\ broken => caught \/ error = "database"
    /\ ~ committed => saved = kept
    /\ kept = {} /\ addedLate = {} /\ ~ caught => saved = {} \/ dropped = {}

Passage ==
    /\ unit = "new" => ~ committed /\ ~ rolledBack /\ ~ broken /\ error = "none"
                        /\ pending = {} /\ dropped = {} /\ saved = {} /\ kept = {}
    /\ unit = "open" => given
    /\ unit # "left" => Outcome

UnitInv ==
    /\ UnitTypeOK
    /\ Passage
    /\ UnitsSafe

LEMMA UnitInitially == UnitInit => UnitInv
  BY DEF UnitInit, UnitInv, UnitTypeOK, Outcome, Passage, UnitsSafe, NothingForgotten, OutcomeTells,
         OnlyRepositoriesSplit

-----------------------------------------------------------------------------

LEMMA EnterStep ==
    ASSUME UnitInv, Enter
    PROVE  UnitInv'
  BY DEF UnitInv, UnitTypeOK, Outcome, Passage, UnitsSafe, NothingForgotten, OutcomeTells, OnlyRepositoriesSplit, Enter

(***************************************************************************)
(* What happens inside the block leaves the unit open.                     *)
(***************************************************************************)
LEMMA BlockStep ==
    ASSUME UnitInv,
           \/ \E w \in Writes : Add(w) \/ RepositoryCreate(w) \/ WriteFails(w)
           \/ Commit \/ Catch \/ SessionRollback \/ Rollback \/ RaiseInBlock
    PROVE  UnitInv'
<1>1. /\ unit = "open" /\ unit' = "open" /\ given' = given
      /\ UnitTypeOK /\ Outcome /\ given
  BY DEF UnitInv, Passage, Add, RepositoryCreate, WriteFails, Commit, Catch, SessionRollback, Rollback,
     RaiseInBlock, Running
<1>2. UnitsSafe'
  BY <1>1 DEF UnitsSafe, NothingForgotten, OutcomeTells, OnlyRepositoriesSplit
<1>3. UnitTypeOK' /\ Outcome'
  <2>1. ASSUME NEW w \in Writes, Add(w) PROVE UnitTypeOK' /\ Outcome'
    BY <1>1, <2>1 DEF Add, Late, Running, UnitTypeOK, Outcome
  <2>2. ASSUME NEW w \in Writes, RepositoryCreate(w) PROVE UnitTypeOK' /\ Outcome'
    <3>1. kept' # {} /\ kept' = kept \cup pending \cup {w} /\ saved' = saved \cup pending \cup {w}
      BY <2>2 DEF RepositoryCreate
    <3>2. UnitTypeOK'
      BY <1>1, <2>2 DEF RepositoryCreate, Late, UnitTypeOK
    <3>3. Outcome'
      BY <1>1, <2>2, <3>1 DEF RepositoryCreate, Running, Outcome
    <3> QED
      BY <3>2, <3>3
  <2>3. ASSUME NEW w \in Writes, WriteFails(w) PROVE UnitTypeOK' /\ Outcome'
    <3>1. UnitTypeOK'
      BY <1>1, <2>3 DEF WriteFails, CommitFails, Late, UnitTypeOK
    <3>2. /\ error' = "database" /\ broken' = TRUE /\ pending' \in {{}, pending \cup {w}}
          /\ addedLate' = (IF committed \/ rolledBack THEN addedLate \cup {w} ELSE addedLate)
          /\ UNCHANGED <<saved, committed, rolledBack, kept, caught>>
      BY <2>3 DEF WriteFails, CommitFails, Late
    <3>3. Outcome'
      BY <1>1, <3>2 DEF Outcome
    <3> QED
      BY <3>1, <3>3
  <2>4. CASE Commit
    <3>1. UnitTypeOK'
      BY <1>1, <2>4 DEF Commit, SaveAll, CommitFails, UnitTypeOK
    <3>2. Outcome'
      BY <1>1, <2>4 DEF Commit, SaveAll, CommitFails, Running, Outcome
    <3> QED
      BY <3>1, <3>2
  <2>5. CASE Catch
    BY <1>1, <2>5 DEF Catch, UnitTypeOK, Outcome
  <2>6. CASE SessionRollback
    BY <1>1, <2>6 DEF SessionRollback, Running, UnitTypeOK, Outcome
  <2>7. CASE Rollback
    <3>1. UnitTypeOK'
      BY <1>1, <2>7 DEF Rollback, DropAll, UnitTypeOK
    <3>2. Outcome'
      BY <1>1, <2>7 DEF Rollback, DropAll, Running, Outcome
    <3> QED
      BY <3>1, <3>2
  <2>8. CASE RaiseInBlock
    BY <1>1, <2>8 DEF RaiseInBlock, Running, UnitTypeOK, Outcome
  <2> QED
    BY <2>1, <2>2, <2>3, <2>4, <2>5, <2>6, <2>7, <2>8
<1> QED
  BY <1>1, <1>2, <1>3 DEF UnitInv, Passage

(***************************************************************************)
(* The end of the block, by the ways out of __aexit__.                     *)
(***************************************************************************)
LEMMA ExitStep ==
    ASSUME UnitInv, Exit
    PROVE  UnitInv'
<1>1. unit' = "left" /\ given' = given /\ given /\ Outcome /\ UnitTypeOK /\ UNCHANGED <<addedLate, kept, caught>>
  BY DEF UnitInv, Passage, Exit
<1>2. UnitTypeOK'
  BY <1>1 DEF Exit, DropAll, SaveAll, CommitFails, UnitTypeOK
<1>3. UnitsSafe'
  <2>1. CASE /\ error # "none" /\ committed
             /\ error' = "unit"
             /\ UNCHANGED <<pending, broken, saved, committed, rolledBack, dropped>>
    BY <1>1, <2>1 DEF Outcome, UnitsSafe, NothingForgotten, OutcomeTells, OnlyRepositoriesSplit
  <2>2. CASE /\ error # "none" /\ ~ committed /\ ~ rolledBack
             /\ DropAll
             /\ UNCHANGED <<saved, committed, error>>
    BY <1>1, <2>2 DEF DropAll, Outcome, UnitsSafe, NothingForgotten, OutcomeTells, OnlyRepositoriesSplit
  <2>3. CASE /\ error = "none" /\ ~ committed /\ ~ rolledBack
             /\ SaveAll /\ UNCHANGED <<broken, dropped, error, rolledBack>>
    BY <1>1, <2>3 DEF SaveAll, Outcome, UnitsSafe, NothingForgotten, OutcomeTells, OnlyRepositoriesSplit
  <2>4. CASE /\ error = "none" /\ ~ committed /\ ~ rolledBack
             /\ CommitFails(pending) /\ UNCHANGED <<saved, committed, rolledBack>>
    BY <1>1, <2>4 DEF CommitFails, Outcome, UnitsSafe, NothingForgotten, OutcomeTells, OnlyRepositoriesSplit
  <2>5. CASE /\ (error = "none" /\ committed) \/ (~ committed /\ rolledBack)
             /\ UNCHANGED <<pending, broken, saved, committed, rolledBack, dropped, error>>
    BY <1>1, <2>5 DEF Outcome, UnitsSafe, NothingForgotten, OutcomeTells, OnlyRepositoriesSplit
  <2> QED
    BY <2>1, <2>2, <2>3, <2>4, <2>5 DEF Exit
<1> QED
  BY <1>1, <1>2, <1>3 DEF UnitInv, Passage

LEMMA UnitPreserved ==
    ASSUME UnitInv, [UnitNext]_unitVars
    PROVE  UnitInv'
<1>1. CASE UNCHANGED unitVars
  BY <1>1 DEF unitVars, UnitInv, UnitTypeOK, Outcome, Passage, UnitsSafe, NothingForgotten, OutcomeTells,
              OnlyRepositoriesSplit
<1> QED
  BY <1>1, EnterStep, BlockStep, ExitStep DEF UnitNext

(***************************************************************************)
(* Whatever the block calls and catches and wherever it raises, a unit of  *)
(* work that was entered is left committed or rolled back by its flags, or *)
(* with the failure of its last commit; it forgets nothing in its session, *)
(* loses a write in silence only when the block caught the failure, and is *)
(* split only by what repositories in it commit on their own               *)
(* (utils/unit_of_work.py).                                                *)
(***************************************************************************)
THEOREM UnitsAreSafe == UnitSpec => []UnitsSafe
<1>1. UnitInv => UnitsSafe
  BY DEF UnitInv
<1> QED
  BY <1>1, UnitInitially, UnitPreserved, PTL DEF UnitSpec

-----------------------------------------------------------------------------
(* Types *)

(***************************************************************************)
(* The clock of the caches stops at its bound.                             *)
(***************************************************************************)
CacheRest ==
    /\ time <= LastTime
    /\ \A v \in 0 .. (version - 1) : replaced[v] <= LastTime

LEMMA CacheRestInit == CacheInit => CacheRest
<1>1. 0 <= LastTime /\ 0 .. (0 - 1) = {}
  BY CachesAssumption
<1> QED
  BY <1>1 DEF CacheInit, CacheRest

LEMMA CacheRestNext == CacheShapes /\ CacheRest /\ [CacheNext]_cacheVars => CacheRest'
<1> SUFFICES ASSUME CacheShapes, CacheRest, [CacheNext]_cacheVars PROVE CacheRest'
  OBVIOUS
<1>1. time \in Nat /\ version \in Nat /\ LastTime \in Nat
  BY CachesAssumption DEF CacheShapes
<1>2. CASE Clock
  <2>1. time < LastTime /\ time' = time + 1 /\ version' = version /\ replaced' = replaced
    BY <1>2 DEF Clock
  <2> QED
    BY <1>1, <2>1 DEF CacheRest
<1>3. ASSUME NEW c \in Changes, CommitChange(c) PROVE CacheRest'
  <2>1. time' = time /\ version' = version + 1 /\ replaced' = [v \in 0 .. version |-> IF v = version THEN time ELSE replaced[v]]
    BY <1>3 DEF CommitChange
  <2>2. \A v \in 0 .. version : v = version \/ v \in 0 .. (version - 1)
    BY <1>1
  <2>3. 0 .. (version' - 1) = 0 .. version
    BY <1>1, <2>1
  <2>4. \A v \in 0 .. version : replaced'[v] <= LastTime
    BY <2>1, <2>2 DEF CacheRest
  <2> QED
    BY <2>1, <2>3, <2>4 DEF CacheRest
<1>4. CASE UNCHANGED <<time, version, replaced>>
  BY <1>4 DEF CacheRest
<1>5. Clock \/ (\E c \in Changes : CommitChange(c)) \/ UNCHANGED <<time, version, replaced>>
  BY DEF CacheNext, cacheVars, ReadLocal, ReadShared, MissShared, Fill, ReadDatabase, SetLocal, SetShared,
         EvictLocal, DropLocal, DropShared, CacheFails
<1> QED
  BY <1>2, <1>3, <1>4, <1>5

LEMMA CacheTyped == CacheInv /\ CacheRest => CacheTypeOK
<1> SUFFICES ASSUME CacheInv, CacheRest PROVE CacheTypeOK
  OBVIOUS
<1>1. time \in Nat /\ version \in Nat /\ LastTime \in Nat
  BY CachesAssumption DEF CacheInv, CacheShapes
<1>2. time \in Times
  BY <1>1 DEF CacheRest, Times
<1>3. shared \in [version : 0 .. version, expires : Int]
  <2>1. shared \in AnyEntry /\ shared.version <= version
    BY DEF CacheInv, CacheShapes, NoneAhead
  <2>2. shared.version \in 0 .. version
    BY <1>1, <2>1 DEF AnyEntry
  <2> QED
    BY <2>1, <2>2 DEF AnyEntry
<1>4. \A p \in Processes : local[p] \in [version : 0 .. version, expires : Int]
  <2> TAKE p \in Processes
  <2>1. local[p] \in AnyEntry /\ local[p].version <= version
    BY DEF CacheInv, CacheShapes, NoneAhead
  <2>2. local[p].version \in 0 .. version
    BY <1>1, <2>1 DEF AnyEntry
  <2> QED
    BY <2>1, <2>2 DEF AnyEntry
<1>5. cache \in [CacheCalls -> [pc : CacheLabels, version : 0 .. version]]
  <2>1. cache \in [CacheCalls -> LookupState] /\ \A c \in CacheCalls : cache[c].version <= version
    BY DEF CacheInv, CacheShapes, NoneAhead
  <2>2. ASSUME NEW c \in CacheCalls PROVE cache[c] \in [pc : CacheLabels, version : 0 .. version]
    <3>1. cache[c] \in LookupState /\ cache[c].version <= version
      BY <2>1
    <3>2. cache[c].version \in 0 .. version
      BY <1>1, <3>1 DEF LookupState
    <3> QED
      BY <3>1, <3>2 DEF LookupState
  <2> QED
    BY <2>1, <2>2
<1>6. replaced \in [0 .. (version - 1) -> Times]
  <2>1. replaced \in [0 .. (version - 1) -> Nat] /\ \A v \in 0 .. (version - 1) : replaced[v] <= LastTime
    BY DEF CacheInv, CacheShapes, CacheRest
  <2>2. \A v \in 0 .. (version - 1) : replaced[v] \in Times
    BY <1>1, <2>1 DEF Times
  <2> QED
    BY <2>1, <2>2
<1>7. {shared} \cup {local[p] : p \in Processes} \subseteq [version : 0 .. version, expires : Int]
  BY <1>3, <1>4
<1>8. cache \in [CacheCalls -> [pc: {"new", "redis", "database", "fill", "load", "store",
                                      "local", "drop", "done", "failed"},
                                 version: 0..version]]
  BY <1>5 DEF CacheLabels
<1>9. slow \in BOOLEAN /\ late \in BOOLEAN /\ met \in BOOLEAN
  BY DEF CacheInv, CacheShapes
<1> QED
  BY <1>1, <1>2, <1>6, <1>7, <1>8, <1>9 DEF CacheTypeOK

ToldRest == told \subseteq {"created", "updated", "deleted"} \X Ids

LEMMA ToldRestInit == RecordInit => ToldRest
  BY DEF RecordInit, ToldRest

LEMMA ToldRestNext == RecordInv /\ ToldRest /\ [RecordNext]_recordVars => ToldRest'
<1> SUFFICES ASSUME RecordInv, ToldRest, [RecordNext]_recordVars PROVE ToldRest'
  OBVIOUS
<1>1. CASE told' = told
  BY <1>1 DEF ToldRest
<1>2. ASSUME NEW c \in RecordCalls, Emit(c) PROVE ToldRest'
  <2>1. Target(c) \in Ids
    BY TargetIs DEF RecordInv
  <2>2. EventName(c) \in {"created", "updated", "deleted"}
    BY DEF EventName
  <2>3. told' = told \cup {<<EventName(c), Target(c)>>}
    BY <1>2 DEF Emit
  <2> QED
    BY <2>1, <2>2, <2>3 DEF ToldRest
<1>3. told' = told \/ \E c \in RecordCalls : Emit(c)
  BY DEF RecordNext, recordVars, BeginWork, Exists, FindById, LoadRow, InsertRow, Update, DeleteLoaded, Refresh,
            RejectWrite
<1> QED
  BY <1>1, <1>2, <1>3

LEMMA RecordTyped == RecordInv /\ ToldRest => RecordTypeOK
  BY DEF RecordInv, RecordShapes, ToldRest, RecordTypeOK

ListRest ==
    /\ now <= LastItemTime
    /\ items \subseteq Items /\ seen \subseteq Items /\ repeated \subseteq Items
    /\ changes \subseteq {"deletion", "restoration", "overtaking"}

LEMMA ListRestInit == ListInit => ListRest
<1> SUFFICES ASSUME ListInit PROVE ListRest
  OBVIOUS
<1>1. now <= LastItemTime
  BY PageAssumption DEF ListInit
<1> QED
  BY <1>1 DEF ListInit, ListRest

LEMMA ListRestNext == ListShapes /\ ListRest /\ [ListNext]_listVars => ListRest'
<1> SUFFICES ASSUME ListShapes, ListRest, [ListNext]_listVars PROVE ListRest'
  OBVIOUS
<1>1. now' <= LastItemTime
  <2>1. now' = now \/ (now < LastItemTime /\ now' = now + 1)
    BY DEF ListNext, listVars, Tick, AddRow, CommitRow, DeleteRow, RestoreRow, FindAll, Count
  <2>2. now \in Nat /\ LastItemTime \in Nat /\ now <= LastItemTime
    BY PageAssumption DEF ListShapes, ListRest
  <2> QED
    BY <2>1, <2>2
<1>2. changes' \subseteq {"deletion", "restoration", "overtaking"}
  BY DEF ListNext, listVars, Tick, AddRow, CommitRow, DeleteRow, RestoreRow, FindAll, Count, ListRest
<1>3. items' \subseteq Items /\ seen' \subseteq Items /\ repeated' \subseteq Items
  <2>1. CASE FindAll
    <3>1. items' \in SUBSET visible
      BY <2>1 DEF FindAll, Pages
    <3> QED
      BY <2>1, <3>1 DEF FindAll, ListShapes, ListRest
  <2>2. CASE Count
    BY <2>2 DEF Count, ListRest
  <2>3. CASE UNCHANGED <<items, seen, repeated>>
    BY <2>3 DEF ListRest
  <2>4. FindAll \/ Count \/ UNCHANGED <<items, seen, repeated>>
    BY DEF ListNext, listVars, Tick, AddRow, CommitRow, DeleteRow, RestoreRow, reading
  <2> QED
    BY <2>1, <2>2, <2>3, <2>4
<1> QED
  BY <1>1, <1>2, <1>3 DEF ListRest

LEMMA ListTyped == ListShapes /\ ListRest => ListTypeOK
<1> SUFFICES ASSUME ListShapes, ListRest PROVE ListTypeOK
  OBVIOUS
<1>1. now \in Nat \ {0} /\ LastItemTime \in Nat /\ now <= LastItemTime
  BY PageAssumption DEF ListShapes, ListRest
<1>2. created \in [Items -> 0 .. LastItemTime]
  <2>1. created \in [Items -> Nat] /\ \A r \in Items : created[r] <= now
    BY DEF ListShapes
  <2>2. \A r \in Items : created[r] \in 0 .. LastItemTime
    BY <1>1, <2>1
  <2> QED
    BY <2>1, <2>2
<1>3. now \in 1 .. LastItemTime
  BY <1>1
<1>4. present \subseteq Items
  BY DEF ListShapes
<1> QED
  BY <1>2, <1>3, <1>4 DEF ListShapes, ListRest, ListTypeOK

-----------------------------------------------------------------------------
(* What holds of the components *)

(***************************************************************************)
(* Whatever invalidations are lost or late: if calls take no time, no      *)
(* process serves a user or a permission for longer after it was replaced  *)
(* than the lives of the two caches; when the changes are through, Redis   *)
(* has nothing older than the database unless a lookup that had read the   *)
(* database before was still to write; and unless a lookup and a change    *)
(* overlapped or a change failed, the process that made the only change    *)
(* serves nothing older (auth/auth_cache.py).                              *)
(***************************************************************************)
THEOREM CachesAreSafe == CacheSpec => []CachesSafe
<1>1. CacheInv => CachesSafe
  BY CacheInvSafe
<1>2. QED
  BY <1>1, CacheInitInv, CacheNextInv, PTL DEF CacheSpec

(***************************************************************************)
(* An edit of a column nobody else writes stands; a request for one row    *)
(* whose values break no constraint is refused only when somebody removed  *)
(* the row; and events tell the truth.  Who follows the pages to the end   *)
(* misses no row unless one was deleted meanwhile, and in ascending order  *)
(* is given none twice unless something else happened to the rows or one   *)
(* was overtaken on its way to the commit; both where no two rows have one *)
(* time (repositories/base.py, controllers/base.py).                       *)
(***************************************************************************)
THEOREM DataKept == Spec => []DataSafe
<1>1. Init => RecordInv /\ ListInv
  BY RecordInitInv, ListInitInv DEF Init
<1>2. /\ RecordInv /\ ListInv
      /\ [Next]_<<part, lifeVars, containerVars, busVars, cacheVars, recordVars,
                  listVars, unitVars, fallbackVars>>
      => RecordInv' /\ ListInv'
  BY EachSteps, RecordNextInv, ListNextInv
<1>3. RecordInv /\ ListInv => DataSafe
  BY RecordInvSafe, ListInvSafe DEF DataSafe
<1>4. QED
  BY <1>1, <1>2, <1>3, PTL DEF Spec

(***************************************************************************)
(* Every component of a process keeps its types, for any values of its     *)
(* constants.                                                              *)
(***************************************************************************)
THEOREM RuntimeTyped == Spec => []RuntimeTypes
<1> DEFINE Process ==
              /\ LifeInv /\ LifeRest
              /\ ContainerInv
              /\ BusInv /\ BusRest
              /\ FallInv /\ FallRest
           Data ==
              /\ CacheInv /\ CacheRest
              /\ RecordInv /\ ToldRest
              /\ ListInv /\ ListRest
              /\ UnitInv
           steps == [Next]_<<part, lifeVars, containerVars, busVars, cacheVars, recordVars,
                             listVars, unitVars, fallbackVars>>
<1>1. Init => Process /\ Data
  BY LifeInitInv, LifeRestInit, ContainerInitInv, BusInitInv, BusRestInit, FallInitInv, FallRestInit,
     CacheInitInv, CacheRestInit, RecordInitInv, ToldRestInit, ListInitInv, ListRestInit, UnitInitially DEF Init
<1>2. Process /\ steps => Process'
  <2> SUFFICES ASSUME Process, steps PROVE Process'
    OBVIOUS
  <2>1. LifeInv' /\ LifeRest' /\ ContainerInv'
    BY EachSteps, LifeNextInv, LifeRestNext, ContainerNextInv
  <2>2. BusInv' /\ BusRest'
    BY EachSteps, BusNextInv, BusRestNext DEF BusInv
  <2>3. FallInv' /\ FallRest'
    BY EachSteps, FallNextInv, FallRestNext
  <2> QED
    BY <2>1, <2>2, <2>3
<1>3. Data /\ steps => Data'
  <2> SUFFICES ASSUME Data, steps PROVE Data'
    OBVIOUS
  <2>1. CacheInv' /\ CacheRest'
    BY EachSteps, CacheNextInv, CacheRestNext DEF CacheInv
  <2>2. RecordInv' /\ ToldRest'
    BY EachSteps, RecordNextInv, ToldRestNext
  <2>3. ListInv' /\ ListRest'
    BY EachSteps, ListNextInv, ListRestNext DEF ListInv
  <2>4. UnitInv'
    BY EachSteps, UnitPreserved
  <2> QED
    BY <2>1, <2>2, <2>3, <2>4
<1>4. Process /\ Data => RuntimeTypes
  <2> SUFFICES ASSUME Process, Data PROVE RuntimeTypes
    OBVIOUS
  <2>1. LifeTypeOK /\ ContainerTypeOK
    BY LifeTyped, ContainerTyped
  <2>2. BusTypeOK /\ FallbackTypeOK
    BY BusTyped, FallTyped DEF BusInv
  <2>3. CacheTypeOK /\ RecordTypeOK /\ ListTypeOK
    BY CacheTyped, RecordTyped, ListTyped DEF ListInv
  <2>4. UnitTypeOK
    BY DEF UnitInv
  <2> QED
    BY <2>1, <2>2, <2>3, <2>4 DEF RuntimeTypes
<1> HIDE DEF Process, Data, steps
<1>5. Process /\ Data /\ steps => (Process /\ Data)'
  BY <1>2, <1>3
<1> QED
  BY <1>1, <1>4, <1>5, PTL DEF Spec, steps
=============================================================================
