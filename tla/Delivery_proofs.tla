-------------------------- MODULE Delivery_proofs --------------------------
(***************************************************************************)
(* Proofs about what is handed on to be written or sent, for any number of *)
(* writers, entries, events, deliveries and carriers: the audit trail, the *)
(* queue in front of it, and the webhooks.                                 *)
(***************************************************************************)
EXTENDS MCDelivery, SequenceTheorems, TLAPS

AtWork(w) == writer[w].pc # "idle"

HasRow(w) == writer[w].pc \in {"read", "hash", "remove"}

(***************************************************************************)
(* The hash a writer is about to write is over the last entry before its   *)
(* own.                                                                    *)
(***************************************************************************)
Follows(w) ==
    \/ Before(writer[w].id) = {} /\ writer[w].previous = <<>>
    \/ \E p \in Before(writer[w].id) :
          IsLast(p, Before(writer[w].id)) /\ writer[w].previous = hash[p]

(***************************************************************************)
(* What holds of every writer at any time.                                 *)
(***************************************************************************)
Standing ==
    \A w \in Writers :
        /\ AtWork(w) => writer[w].id > 0
        /\ writer[w].pc \in {"idle", "insert", "read"} => writer[w].previous = <<>> /\ writer[w].locked = {}

(***************************************************************************)
(* As long as nothing was disturbed one writer is at work at a time, on    *)
(* the youngest entry, and every entry but the one it is writing matches.  *)
(***************************************************************************)
Alone == \A v, w \in Writers : AtWork(v) /\ AtWork(w) => v = w

Youngest ==
    /\ \A e \in Stored : e <= clock
    /\ \A w \in Writers :
          /\ AtWork(w) => writer[w].id = clock
          /\ writer[w].pc = "insert" => writer[w].id \notin Stored
          /\ HasRow(w) => writer[w].id \in Stored
          /\ writer[w].pc = "hash" => Follows(w)

Chained == \A e \in Stored : Matches(e) \/ \E w \in Writers : HasRow(w) /\ e = writer[w].id

Serial == altered = {} /\ Alone /\ Youngest /\ Chained

TrailInv == TrailTypeOK /\ Standing /\ (~ disturbed => Serial)

LEMMA TrailInitially == TrailInit => TrailInv
<1> SUFFICES ASSUME TrailInit PROVE TrailInv
  OBVIOUS
<1>1. Idle \in Writer /\ Idle.pc = "idle" /\ Idle.previous = <<>> /\ Idle.locked = {}
  BY DEF Idle, Writer
<1>2. TrailTypeOK
  BY <1>1 DEF TrailInit, TrailTypeOK, Stored
<1>3. \A w \in Writers : ~ AtWork(w) /\ ~ HasRow(w) /\ writer[w].pc = "idle"
  BY <1>1 DEF TrailInit, AtWork, HasRow
<1> QED
  BY <1>1, <1>2, <1>3 DEF TrailInit, TrailInv, Standing, Serial, Alone, Youngest, Chained, Stored

-----------------------------------------------------------------------------

LEMMA BecomeEffect ==
    ASSUME writer \in [Writers -> Writer], NEW w \in Writers, NEW s \in Writer, Become(w, s)
    PROVE  /\ writer' \in [Writers -> Writer]
           /\ writer'[w] = s
           /\ \A v \in Writers \ {w} : writer'[v] = writer[v]
  BY DEF Become

LEMMA RestEffect ==
    ASSUME writer \in [Writers -> Writer], NEW w \in Writers, Rest(w)
    PROVE  /\ writer' \in [Writers -> Writer]
           /\ writer'[w] = Idle
           /\ ~ AtWork(w)' /\ ~ HasRow(w)'
           /\ \A v \in Writers \ {w} : writer'[v] = writer[v]
<1>1. Idle \in Writer /\ Idle.pc = "idle"
  BY DEF Idle, Writer
<1> QED
  BY <1>1, BecomeEffect DEF Rest, AtWork, HasRow

(***************************************************************************)
(* An entry still matches when nothing at or before it has changed.        *)
(***************************************************************************)
LEMMA MatchesKept ==
    ASSUME Stored \subseteq Ids, Stored' \subseteq Ids,
           NEW e \in Stored, Matches(e),
           \A x \in Ids : x <= e => /\ x \in Stored' <=> x \in Stored
                                    /\ x \in Stored => hash'[x] = hash[x]
    PROVE  Matches(e)'
<1>1. e \in Ids /\ \A x \in Ids : x < e => x <= e
  BY DEF Ids
<1>2. Before(e)' = Before(e)
  BY <1>1 DEF Before, Ids
<1>3. hash'[e] = hash[e]
  BY <1>1 DEF Ids
<1>4. \A p \in Before(e) : hash'[p] = hash[p]
  BY <1>1 DEF Before
<1> QED
  BY <1>2, <1>3, <1>4 DEF Matches, IsLast

(***************************************************************************)
(* A step of one writer that leaves the log and its own entry alone.       *)
(***************************************************************************)
LEMMA SerialKept ==
    ASSUME TrailTypeOK, Serial, UNCHANGED <<hash, altered, clock>>,
           \A v \in Writers :
              /\ AtWork(v)' => AtWork(v) /\ writer'[v].id = writer[v].id
              /\ HasRow(v)' <=> HasRow(v)
              /\ writer'[v].pc = "insert" => writer[v].pc = "insert"
              /\ writer'[v].pc = "hash" => Follows(v)'
    PROVE  Serial'
<1>1. Stored' = Stored /\ \A e \in Stored : Matches(e)' = Matches(e)
  BY DEF Stored, Matches, Before
<1>2. \A v \in Writers : HasRow(v)' => AtWork(v)'
  BY DEF HasRow, AtWork
<1>3. Alone'
  BY DEF Serial, Alone
<1>4. Youngest'
  BY <1>1, <1>2 DEF Serial, Youngest, AtWork
<1>5. Chained'
  BY <1>1, <1>2 DEF Serial, Chained
<1> QED
  BY <1>3, <1>4, <1>5 DEF Serial

-----------------------------------------------------------------------------
(* Types *)

(***************************************************************************)
(* The state a writer goes to is one it may be in.                         *)
(***************************************************************************)
StandingOf(s) ==
    /\ s.pc # "idle" => s.id > 0
    /\ s.pc \in {"idle", "insert", "read"} => s.previous = <<>> /\ s.locked = {}

LEMMA StandingKept ==
    ASSUME writer \in [Writers -> Writer], Standing,
           NEW w \in Writers, NEW s \in Writer, StandingOf(s), Become(w, s)
    PROVE  writer' \in [Writers -> Writer] /\ Standing'
<1>1. /\ writer' \in [Writers -> Writer]
      /\ writer'[w] = s
      /\ \A v \in Writers \ {w} : writer'[v] = writer[v]
  BY BecomeEffect
<1>2. ASSUME NEW v \in Writers PROVE StandingOf(writer'[v])
  <2>1. CASE v = w
    BY <1>1, <2>1
  <2>2. CASE v # w
    BY <1>1, <2>2 DEF Standing, AtWork, StandingOf
  <2> QED
    BY <2>1, <2>2
<1> QED
  BY <1>1, <1>2 DEF Standing, AtWork, StandingOf

LEMMA IdleStands == Idle \in Writer /\ StandingOf(Idle) /\ Idle.pc = "idle" /\ Idle.id = 0
  BY DEF Idle, Writer, StandingOf

LEMMA StepStands ==
    ASSUME TrailTypeOK, Standing, NEW w \in Writers, Begin(w) \/ LogStep(w) \/ Cancel(w)
    PROVE  writer' \in [Writers -> Writer] /\ Standing'
<1> DEFINE Goes(s) == Become(w, s) /\ s \in Writer /\ StandingOf(s)
<1>0. writer[w] \in Writer /\ StandingOf(writer[w]) /\ writer \in [Writers -> Writer]
  BY DEF TrailTypeOK, Standing, AtWork, StandingOf
<1>1. CASE Begin(w)
  <2> DEFINE s == [Idle EXCEPT !.pc = "insert", !.id = clock']
  <2>1. clock' \in Nat /\ clock' > 0 /\ Become(w, s)
    BY <1>1 DEF Begin, TrailTypeOK
  <2>2. /\ s.pc = "insert" /\ s.id = clock'
        /\ s.previous = <<>> /\ s.locked = {}
    BY DEF Idle
  <2>3. <<>> \in Seq(Ids) /\ {} \in SUBSET Ids
    OBVIOUS
  <2>4. s \in Writer
    BY <2>1, <2>3 DEF Idle, Writer
  <2>5. StandingOf(s)
    BY <2>1, <2>2 DEF StandingOf
  <2> QED
    BY <1>0, <2>1, <2>4, <2>5, StandingKept
<1>2. CASE Insert(w)
  <2> DEFINE s == [writer[w] EXCEPT !.pc = "read"]
  <2>1. Become(w, s) /\ writer[w].pc = "insert"
    BY <1>2 DEF Insert
  <2>2. s \in Writer /\ StandingOf(s)
    BY <1>0, <2>1 DEF Writer, StandingOf
  <2> QED
    BY <1>0, <2>1, <2>2, StandingKept
<1>3. CASE InsertFails(w) \/ WriteHash(w) \/ RemoveUnhashed(w) \/ RemoveFails(w) \/ Cancel(w)
  BY <1>0, <1>3, StandingKept, IdleStands DEF InsertFails, WriteHash, RemoveUnhashed, RemoveFails, Cancel, Rest
<1>4. CASE ReadPrevious(w)
  <2>1. CASE Unlocked(w) = {} /\ Become(w, [writer[w] EXCEPT !.pc = "hash"])
    <3> DEFINE s == [writer[w] EXCEPT !.pc = "hash"]
    <3>1. s \in Writer /\ StandingOf(s)
      BY <1>0, <1>4 DEF Writer, StandingOf, ReadPrevious
    <3> QED
      BY <1>0, <2>1, <3>1, StandingKept
  <2>2. ASSUME NEW p \in Unlocked(w),
               Become(w, [writer[w] EXCEPT !.pc = "hash", !.previous = hash[p], !.locked = {p}])
        PROVE  writer' \in [Writers -> Writer] /\ Standing'
    <3> DEFINE s == [writer[w] EXCEPT !.pc = "hash", !.previous = hash[p], !.locked = {p}]
    <3>1. hash[p] \in Seq(Ids) /\ {p} \in SUBSET Ids
      BY DEF Unlocked, TrailTypeOK
    <3>2. s \in Writer /\ StandingOf(s)
      BY <1>0, <1>4, <3>1 DEF Writer, StandingOf, ReadPrevious
    <3> QED
      BY <1>0, <2>2, <3>2, StandingKept
  <2> QED
    BY <1>4, <2>1, <2>2 DEF ReadPrevious
<1>5. CASE HashFails(w)
  <2> DEFINE s == [writer[w] EXCEPT !.pc = "remove"]
  <2>1. Become(w, s) /\ writer[w].pc \in {"read", "hash"}
    BY <1>5 DEF HashFails
  <2>2. s \in Writer /\ StandingOf(s)
    BY <1>0, <2>1 DEF Writer, StandingOf
  <2> QED
    BY <1>0, <2>1, <2>2, StandingKept
<1> QED
  BY <1>1, <1>2, <1>3, <1>4, <1>5 DEF LogStep

LEMMA WriterType ==
    ASSUME TrailTypeOK, Standing, NEW w \in Writers
    PROVE  /\ writer[w].id \in Nat
           /\ writer[w].previous \in Seq(Ids)
           /\ AtWork(w) => writer[w].id \in Ids
<1>1. writer[w] \in Writer
  BY DEF TrailTypeOK
<1>2. writer[w].id \in Nat /\ writer[w].previous \in Seq(Ids)
  BY <1>1 DEF Writer
<1>3. AtWork(w) => writer[w].id > 0
  BY DEF Standing
<1> QED
  BY <1>2, <1>3 DEF Ids

LEMMA StepTypes ==
    ASSUME TrailTypeOK, Standing, NEW w \in Writers, Begin(w) \/ LogStep(w) \/ Cancel(w)
    PROVE  TrailTypeOK'
<1>0. writer' \in [Writers -> Writer]
  BY StepStands
<1>1. CASE Insert(w)
  <2>1. writer[w].id \in Ids /\ <<>> \in Seq(Ids)
    BY <1>1, WriterType DEF Insert, AtWork
  <2> QED
    BY <1>0, <1>1, <2>1 DEF Insert, TrailTypeOK, Stored
<1>2. CASE WriteHash(w)
  <2>1. writer[w].id \in Ids /\ writer[w].previous \in Seq(Ids)
    BY <1>2, WriterType DEF WriteHash, AtWork
  <2>2. Append(writer[w].previous, writer[w].id) \in Seq(Ids)
    BY <2>1
  <2>3. hash' = [hash EXCEPT ![writer[w].id] = Append(writer[w].previous, writer[w].id)]
    BY <1>2 DEF WriteHash
  <2>4. Stored' = Stored /\ hash' \in [Stored -> Seq(Ids)]
    BY <2>2, <2>3 DEF TrailTypeOK, Stored
  <2> QED
    BY <1>0, <1>2, <2>4 DEF WriteHash, TrailTypeOK
<1>3. CASE RemoveUnhashed(w)
  BY <1>0, <1>3 DEF RemoveUnhashed, TrailTypeOK, Stored
<1>4. CASE Begin(w) \/ InsertFails(w) \/ ReadPrevious(w) \/ HashFails(w) \/ RemoveFails(w) \/ Cancel(w)
  <2>1. UNCHANGED <<hash, altered, up>> /\ clock' \in Nat
    <3>1. CASE Begin(w)
      <4>1. UNCHANGED <<hash, altered, up>> /\ clock' = clock + 1
        BY <3>1 DEF Begin
      <4> QED
        BY <4>1 DEF TrailTypeOK
    <3>2. CASE InsertFails(w) \/ ReadPrevious(w) \/ HashFails(w) \/ RemoveFails(w) \/ Cancel(w)
      BY <3>2 DEF InsertFails, ReadPrevious, HashFails, RemoveFails, Cancel, TrailTypeOK
    <3> QED
      BY <1>4, <3>1, <3>2
  <2>2. disturbed' \in BOOLEAN
    <3>1. \/ disturbed' = disturbed
          \/ disturbed' = (disturbed \/ Busy # {})
          \/ disturbed' = TRUE
          \/ disturbed' = (disturbed \/ writer[w].pc # "insert")
      BY <1>4 DEF Begin, InsertFails, ReadPrevious, HashFails, RemoveFails, Cancel
    <3> QED
      BY <3>1, Zenon DEF TrailTypeOK
  <2> QED
    BY <1>0, <2>1, <2>2 DEF TrailTypeOK, Stored
<1> QED
  BY <1>1, <1>2, <1>3, <1>4 DEF LogStep

LEMMA OtherTypes ==
    ASSUME TrailTypeOK, Standing, Purge \/ Anonymize \/ Stop \/ Crash \/ Start \/ UNCHANGED trail
    PROVE  TrailTypeOK' /\ Standing'
<1>1. CASE Purge
  <2>1. PICK S : hash' = [e \in Stored \ S |-> hash[e]]
    BY <1>1 DEF Purge
  <2>2. Stored' = Stored \ S /\ hash' \in [Stored' -> Seq(Ids)]
    BY <2>1 DEF Stored, TrailTypeOK
  <2> QED
    BY <1>1, <2>2 DEF Purge, TrailTypeOK, Standing, AtWork
<1>2. CASE Anonymize
  <2>1. altered' \subseteq Ids
    BY <1>2 DEF Anonymize, Expired, TrailTypeOK
  <2> QED
    BY <1>2, <2>1 DEF Anonymize, TrailTypeOK, Standing, AtWork, Stored
<1>3. CASE Crash
  <2>1. writer' \in [Writers -> Writer] /\ \A w \in Writers : writer'[w] = Idle
    BY <1>3, IdleStands DEF Crash
  <2>2. Standing'
    BY <2>1, IdleStands DEF Standing, AtWork, StandingOf
  <2> QED
    BY <1>3, <2>1, <2>2 DEF Crash, TrailTypeOK, Stored
<1>4. CASE Stop \/ Start \/ UNCHANGED trail
  BY <1>4 DEF Stop, Start, trail, TrailTypeOK, Standing, AtWork, Stored
<1> QED
  BY <1>1, <1>2, <1>3, <1>4

-----------------------------------------------------------------------------
(* The chain *)

(***************************************************************************)
(* Of a writer at work while nothing was disturbed: it is alone, on the    *)
(* youngest entry.                                                         *)
(***************************************************************************)
LEMMA WorkerAlone ==
    ASSUME TrailTypeOK, Standing, Serial, NEW w \in Writers, AtWork(w)
    PROVE  /\ \A v \in Writers \ {w} : ~ AtWork(v) /\ ~ HasRow(v) /\ writer[v].pc = "idle" /\ writer[v].locked = {}
           /\ writer[w].id = clock /\ clock \in Ids
           /\ \A e \in Stored : e \in Ids /\ e <= clock
           /\ \A e \in Stored \ {clock} : Matches(e) /\ e < clock
           /\ HasRow(w) => clock \in Stored
<1>1. \A v \in Writers \ {w} : ~ AtWork(v) /\ writer[v].pc = "idle" /\ ~ HasRow(v)
  BY DEF Serial, Alone, AtWork, HasRow
<1>2. \A v \in Writers \ {w} : writer[v].locked = {}
  BY <1>1 DEF Standing
<1>3. writer[w].id = clock
  BY DEF Serial, Youngest
<1>4. clock \in Ids
  BY <1>3, WriterType
<1>5. \A e \in Stored : e \in Ids /\ e <= clock
  BY DEF Serial, Youngest, TrailTypeOK
<1>6. \A e \in Stored \ {clock} : e < clock
  BY <1>4, <1>5 DEF Ids
<1>7. \A e \in Stored \ {clock} : Matches(e)
  BY <1>1, <1>3 DEF Serial, Chained
<1>8. HasRow(w) => clock \in Stored
  BY <1>3 DEF Serial, Youngest
<1> QED
  BY <1>1, <1>2, <1>3, <1>4, <1>5, <1>6, <1>7, <1>8

(***************************************************************************)
(* Entries before the one at work still match when the others are left     *)
(* alone.                                                                  *)
(***************************************************************************)
LEMMA OlderMatch ==
    ASSUME TrailTypeOK, Standing, Serial, NEW w \in Writers, AtWork(w),
           Stored \ {clock} = Stored' \ {clock},
           \A x \in Stored \ {clock} : hash'[x] = hash[x]
    PROVE  \A e \in Stored' \ {clock} : Matches(e)'
<1> SUFFICES ASSUME NEW e \in Stored' \ {clock} PROVE Matches(e)'
  OBVIOUS
<1>1. e \in Stored /\ e \in Ids /\ e < clock /\ Matches(e) /\ clock \in Ids
  BY WorkerAlone
<1>2. Stored \subseteq Ids /\ Stored' \subseteq Ids
  BY WorkerAlone
<1>3. ASSUME NEW x \in Ids, x <= e
      PROVE  (x \in Stored' <=> x \in Stored) /\ (x \in Stored => hash'[x] = hash[x])
  <2>1. x # clock
    BY <1>1, <1>3 DEF Ids
  <2> QED
    BY <2>1
<1> QED
  BY <1>1, <1>2, <1>3, MatchesKept

LEMMA BeginSerial ==
    ASSUME TrailTypeOK, Standing, Serial, NEW w \in Writers, Begin(w), ~ disturbed'
    PROVE  Serial'
<1>1. \A v \in Writers : writer[v].pc = "idle" /\ ~ HasRow(v)
  BY DEF Begin, Busy, HasRow
<1>2. clock' \in Nat /\ clock' = clock + 1 /\ clock \in Nat
  BY DEF Begin, TrailTypeOK
<1> DEFINE s == [Idle EXCEPT !.pc = "insert", !.id = clock']
<1>3. s.pc = "insert" /\ s.id = clock'
  BY DEF Idle
<1>4. writer'[w] = s /\ \A v \in Writers \ {w} : writer'[v] = writer[v]
  BY DEF Begin, Become, TrailTypeOK
<1>5. /\ AtWork(w)' /\ ~ HasRow(w)'
      /\ \A v \in Writers \ {w} : ~ AtWork(v)' /\ ~ HasRow(v)'
  BY <1>1, <1>3, <1>4 DEF AtWork, HasRow
<1>6. /\ Stored' = Stored /\ hash' = hash /\ altered' = altered
      /\ \A e \in Stored : Matches(e)' = Matches(e)
  BY DEF Begin, Stored, Matches, Before
<1>7. Alone'
  BY <1>5 DEF Alone
<1>8. \A e \in Stored : e \in Nat /\ e <= clock
  BY DEF Serial, Youngest, TrailTypeOK, Ids
<1>9. Youngest'
  <2>1. \A e \in Stored' : e <= clock' /\ e # clock'
    BY <1>2, <1>6, <1>8
  <2>2. /\ writer'[w].id = clock' /\ writer'[w].pc = "insert"
        /\ \A v \in Writers \ {w} : writer'[v].pc = "idle"
    BY <1>1, <1>3, <1>4
  <2> QED
    BY <1>5, <2>1, <2>2 DEF Youngest
<1>10. Chained'
  BY <1>1, <1>6 DEF Serial, Chained
<1> QED
  BY <1>6, <1>7, <1>9, <1>10 DEF Serial

LEMMA InsertSerial ==
    ASSUME TrailTypeOK, Standing, Serial, NEW w \in Writers, Insert(w)
    PROVE  Serial'
<1>0. AtWork(w) /\ writer[w].pc = "insert"
  BY DEF Insert, AtWork
<1>1. writer[w].id = clock /\ clock \notin Stored /\ clock \in Ids
  BY <1>0, WorkerAlone DEF Serial, Youngest
<1>2. Stored' = Stored \cup {clock} /\ \A x \in Stored : hash'[x] = hash[x]
  BY <1>1 DEF Insert, Stored
<1> DEFINE s == [writer[w] EXCEPT !.pc = "read"]
<1>3. writer[w] \in Writer
  BY DEF TrailTypeOK
<1>4. s.pc = "read" /\ s.id = clock
  BY <1>1, <1>3 DEF Writer
<1>5. writer'[w] = s /\ \A v \in Writers \ {w} : writer'[v] = writer[v]
  BY DEF Insert, Become, TrailTypeOK
<1>6. /\ AtWork(w)' /\ HasRow(w)' /\ writer'[w].pc = "read" /\ writer'[w].id = clock
      /\ \A v \in Writers \ {w} : ~ AtWork(v)' /\ ~ HasRow(v)' /\ writer'[v].pc = "idle"
  BY <1>0, <1>4, <1>5, WorkerAlone DEF AtWork, HasRow
<1>7. clock' = clock /\ altered' = altered
  BY DEF Insert
<1>8. \A e \in Stored' : e <= clock
  BY <1>0, <1>1, <1>2, WorkerAlone DEF Ids
<1>9. \A e \in Stored' \ {clock} : Matches(e)'
  BY <1>0, <1>1, <1>2, OlderMatch
<1>10. Alone'
  BY <1>6 DEF Alone
<1>11. Youngest'
  BY <1>2, <1>6, <1>7, <1>8 DEF Youngest
<1>12. Chained'
  BY <1>6, <1>9 DEF Chained
<1> QED
  BY <1>7, <1>10, <1>11, <1>12 DEF Serial

(***************************************************************************)
(* Nobody else holds a lock, so the writer sees the entry before its own.  *)
(***************************************************************************)
LEMMA ReadSerial ==
    ASSUME TrailTypeOK, Standing, Serial, NEW w \in Writers, ReadPrevious(w)
    PROVE  Serial'
<1>0. AtWork(w) /\ HasRow(w) /\ writer[w].pc = "read" /\ writer[w] \in Writer /\ writer[w].previous = <<>>
  BY DEF ReadPrevious, AtWork, HasRow, TrailTypeOK, Standing
<1>1. writer[w].id = clock /\ Unlocked(w) = Before(clock)
  <2>1. Unlocked(w) = Stored \ {clock} /\ writer[w].id = clock
    BY <1>0, WorkerAlone DEF Unlocked
  <2>2. clock \notin Before(clock)
    BY <1>0, WorkerAlone DEF Before, Ids
  <2>3. Stored \ {clock} = Before(clock)
    BY <1>0, <2>2, WorkerAlone DEF Before
  <2> QED
    BY <2>1, <2>3
<1>2. UNCHANGED <<hash, altered, clock>> /\ \A e \in Ids : Before(e)' = Before(e)
  BY DEF ReadPrevious, Before, Stored
<1>3. ASSUME NEW s, Become(w, s), s.pc = "hash", s.id = clock,
             \/ Before(clock) = {} /\ s.previous = <<>>
             \/ \E p \in Before(clock) : IsLast(p, Before(clock)) /\ s.previous = hash[p]
      PROVE  Serial'
  <2>1. writer'[w] = s /\ \A v \in Writers \ {w} : writer'[v] = writer[v]
    BY <1>3 DEF Become, TrailTypeOK
  <2>2. AtWork(w)' /\ HasRow(w)' /\ writer'[w].id = clock
    BY <1>3, <2>1 DEF AtWork, HasRow
  <2>3. Follows(w)'
    BY <1>0, <1>2, <1>3, <2>1, WorkerAlone DEF Follows, IsLast
  <2>4. \A v \in Writers \ {w} : /\ ~ AtWork(v)' /\ ~ HasRow(v)' /\ writer'[v].pc = "idle"
                                /\ ~ AtWork(v) /\ ~ HasRow(v)
    BY <1>0, <2>1, WorkerAlone DEF AtWork, HasRow
  <2>5. \A v \in Writers :
              /\ AtWork(v)' => AtWork(v) /\ writer'[v].id = writer[v].id
              /\ HasRow(v)' <=> HasRow(v)
              /\ writer'[v].pc = "insert" => writer[v].pc = "insert"
              /\ writer'[v].pc = "hash" => Follows(v)'
    <3> SUFFICES ASSUME NEW v \in Writers
                 PROVE  /\ AtWork(v)' => AtWork(v) /\ writer'[v].id = writer[v].id
                        /\ HasRow(v)' <=> HasRow(v)
                        /\ writer'[v].pc = "insert" => writer[v].pc = "insert"
                        /\ writer'[v].pc = "hash" => Follows(v)'
      OBVIOUS
    <3>1. CASE v = w
      BY <1>0, <1>1, <1>3, <2>1, <2>2, <2>3, <3>1
    <3>2. CASE v # w
      BY <2>4, <3>2
    <3> QED
      BY <3>1, <3>2
  <2> QED
    BY <1>2, <2>5, SerialKept
<1>4. CASE Unlocked(w) = {} /\ Become(w, [writer[w] EXCEPT !.pc = "hash"])
  <2> DEFINE s == [writer[w] EXCEPT !.pc = "hash"]
  <2>1. s.pc = "hash" /\ s.id = clock /\ s.previous = <<>>
    BY <1>0, <1>1 DEF Writer
  <2> QED
    BY <1>1, <1>3, <1>4, <2>1
<1>5. ASSUME NEW p \in Unlocked(w), IsLast(p, Unlocked(w)),
             Become(w, [writer[w] EXCEPT !.pc = "hash", !.previous = hash[p], !.locked = {p}])
      PROVE  Serial'
  <2> DEFINE s == [writer[w] EXCEPT !.pc = "hash", !.previous = hash[p], !.locked = {p}]
  <2>1. s.pc = "hash" /\ s.id = clock /\ s.previous = hash[p]
    BY <1>0, <1>1 DEF Writer
  <2> QED
    BY <1>1, <1>3, <1>5, <2>1
<1> QED
  BY <1>4, <1>5 DEF ReadPrevious

(***************************************************************************)
(* The writer is at rest again and its entry, if there still is one,       *)
(* matches.                                                                *)
(***************************************************************************)
LEMMA RestSerial ==
    ASSUME TrailTypeOK, Standing, Serial, NEW w \in Writers, AtWork(w), Rest(w),
           UNCHANGED <<altered, clock>>,
           Stored' \subseteq Stored \cup {clock},
           \A e \in Stored' : Matches(e)'
    PROVE  Serial'
<1>1. \A v \in Writers : ~ AtWork(v)' /\ ~ HasRow(v)' /\ writer'[v].pc = "idle"
  <2>1. /\ ~ AtWork(w)' /\ ~ HasRow(w)' /\ writer'[w].pc = "idle"
        /\ \A v \in Writers \ {w} : writer'[v] = writer[v]
    BY RestEffect, IdleStands DEF TrailTypeOK
  <2>2. \A v \in Writers \ {w} : ~ AtWork(v)' /\ ~ HasRow(v)' /\ writer'[v].pc = "idle"
    BY <2>1, WorkerAlone DEF AtWork, HasRow
  <2> QED
    BY <2>1, <2>2
<1>2. \A e \in Stored' : e <= clock'
  BY WorkerAlone DEF Ids
<1>3. Alone' /\ Youngest'
  BY <1>1, <1>2 DEF Alone, Youngest
<1>4. Chained'
  BY DEF Chained
<1> QED
  BY <1>3, <1>4 DEF Serial

LEMMA WriteSerial ==
    ASSUME TrailTypeOK, Standing, Serial, NEW w \in Writers, WriteHash(w)
    PROVE  Serial'
<1>0. AtWork(w) /\ HasRow(w) /\ Follows(w)
  BY DEF WriteHash, AtWork, HasRow, Serial, Youngest
<1>1. writer[w].id = clock /\ clock \in Stored /\ clock \in Ids
  BY <1>0, WorkerAlone
<1>2. hash' = [hash EXCEPT ![clock] = Append(writer[w].previous, clock)]
  BY <1>1 DEF WriteHash
<1>3. /\ Stored' = Stored
      /\ hash'[clock] = Append(writer[w].previous, clock)
      /\ \A x \in Stored \ {clock} : hash'[x] = hash[x]
  BY <1>1, <1>2 DEF Stored, TrailTypeOK
<1>4. \A e \in Stored' \ {clock} : Matches(e)'
  BY <1>0, <1>3, OlderMatch
<1>5. Matches(clock)'
  <2>0. clock' = clock
    BY DEF WriteHash
  <2>1. Before(clock)' = Before(clock) /\ clock \notin Before(clock)
    BY <1>1, <1>3, <2>0 DEF Before, Ids
  <2>2. CASE Before(clock) = {} /\ writer[w].previous = <<>>
    <3>1. Append(<<>>, clock) = <<clock>>
      OBVIOUS
    <3> QED
      BY <1>3, <2>0, <2>1, <2>2, <3>1 DEF Matches
  <2>3. ASSUME NEW p \in Before(clock), IsLast(p, Before(clock)), writer[w].previous = hash[p]
        PROVE  Matches(clock)'
    <3>1. hash'[p] = hash[p]
      BY <1>3, <2>1, <2>3 DEF Before
    <3> QED
      BY <1>3, <2>0, <2>1, <2>3, <3>1 DEF Matches, IsLast
  <2> QED
    BY <1>0, <1>1, <2>2, <2>3 DEF Follows
<1>6. clock' = clock /\ altered' = altered /\ Rest(w)
  BY DEF WriteHash
<1> QED
  BY <1>0, <1>3, <1>4, <1>5, <1>6, RestSerial

LEMMA RemoveSerial ==
    ASSUME TrailTypeOK, Standing, Serial, NEW w \in Writers, RemoveUnhashed(w)
    PROVE  Serial'
<1>0. AtWork(w) /\ HasRow(w)
  BY DEF RemoveUnhashed, AtWork, HasRow
<1>1. writer[w].id = clock /\ clock \in Stored
  BY <1>0, WorkerAlone
<1>2. Stored' = Stored \ {clock} /\ \A x \in Stored \ {clock} : hash'[x] = hash[x]
  BY <1>1 DEF RemoveUnhashed, Stored
<1>3. \A e \in Stored' \ {clock} : Matches(e)'
  BY <1>0, <1>2, OlderMatch
<1>4. clock' = clock /\ altered' = altered /\ Rest(w)
  BY DEF RemoveUnhashed
<1> QED
  BY <1>0, <1>2, <1>3, <1>4, RestSerial

LEMMA QuietSerial ==
    ASSUME TrailTypeOK, Standing, Serial, NEW w \in Writers, ~ disturbed',
           InsertFails(w) \/ HashFails(w) \/ RemoveFails(w) \/ Cancel(w)
    PROVE  Serial'
<1>0. UNCHANGED <<hash, altered, clock>> /\ AtWork(w) /\ writer \in [Writers -> Writer]
  BY DEF InsertFails, HashFails, RemoveFails, Cancel, AtWork, TrailTypeOK
<1>1. CASE InsertFails(w) \/ Cancel(w)
  <2>1. writer[w].pc = "insert" /\ Rest(w)
    BY <1>1 DEF InsertFails, Cancel
  <2>2. clock \notin Stored
    BY <1>0, <2>1, WorkerAlone DEF Serial, Youngest
  <2>3. Stored' = Stored
    BY <1>0 DEF Stored
  <2>4. \A e \in Stored' : Matches(e)'
    BY <1>0, <2>2, <2>3, OlderMatch
  <2> QED
    BY <1>0, <2>1, <2>3, <2>4, RestSerial
<1>2. CASE HashFails(w)
  <2> DEFINE s == [writer[w] EXCEPT !.pc = "remove"]
  <2>1. s.pc = "remove" /\ s.id = writer[w].id /\ writer[w].pc \in {"read", "hash"}
    BY <1>0, <1>2 DEF HashFails, Writer
  <2>2. writer'[w] = s /\ \A v \in Writers \ {w} : writer'[v] = writer[v]
    BY <1>0, <1>2 DEF HashFails, Become
  <2>3. \A v \in Writers :
              /\ AtWork(v)' => AtWork(v) /\ writer'[v].id = writer[v].id
              /\ HasRow(v)' <=> HasRow(v)
              /\ writer'[v].pc = "insert" => writer[v].pc = "insert"
              /\ writer'[v].pc = "hash" => Follows(v)'
    <3> SUFFICES ASSUME NEW v \in Writers
                 PROVE  /\ AtWork(v)' => AtWork(v) /\ writer'[v].id = writer[v].id
                        /\ HasRow(v)' <=> HasRow(v)
                        /\ writer'[v].pc = "insert" => writer[v].pc = "insert"
                        /\ writer'[v].pc = "hash" => Follows(v)'
      OBVIOUS
    <3>1. CASE v = w
      BY <1>0, <2>1, <2>2, <3>1 DEF AtWork, HasRow
    <3>2. CASE v # w
      BY <1>0, <2>2, <3>2, WorkerAlone DEF AtWork, HasRow
    <3> QED
      BY <3>1, <3>2
  <2> QED
    BY <1>0, <2>3, SerialKept
<1>3. CASE RemoveFails(w)
  BY <1>3 DEF RemoveFails
<1> QED
  BY <1>1, <1>2, <1>3

LEMMA CrashSerial ==
    ASSUME TrailTypeOK, Standing, Serial, Crash, ~ disturbed'
    PROVE  Serial'
<1>1. \A v \in Writers : ~ HasRow(v)
  BY DEF Crash, InFlight, HasRow
<1>2. \A v \in Writers : writer'[v].pc = "idle" /\ ~ AtWork(v)' /\ ~ HasRow(v)'
  BY IdleStands DEF Crash, AtWork, HasRow
<1>3. UNCHANGED <<hash, altered, clock>>
  BY DEF Crash
<1> QED
  BY <1>1, <1>2, <1>3, SerialKept

(***************************************************************************)
(* The history is not forgotten.                                           *)
(***************************************************************************)
LEMMA DisturbedStays ==
    ASSUME disturbed, [TrailNext]_trail
    PROVE  disturbed'
<1>1. ASSUME NEW w \in Writers, Begin(w) PROVE disturbed'
  BY <1>1, Zenon DEF Begin
<1>2. ASSUME NEW w \in Writers, LogStep(w) PROVE disturbed'
  BY <1>2, Zenon DEF LogStep, Insert, InsertFails, ReadPrevious, WriteHash, HashFails, RemoveUnhashed, RemoveFails
<1>3. ASSUME NEW w \in Writers, Cancel(w) PROVE disturbed'
  BY <1>3, Zenon DEF Cancel
<1>4. CASE Purge \/ Anonymize \/ Stop \/ Start
  BY <1>4, Zenon DEF Purge, Anonymize, Stop, Start
<1>5. CASE Crash
  BY <1>5, Zenon DEF Crash
<1>6. CASE UNCHANGED trail
  BY <1>6, Zenon DEF trail
<1> QED
  BY <1>1, <1>2, <1>3, <1>4, <1>5, <1>6 DEF TrailNext

LEMMA TrailStep == TrailInv /\ [TrailNext]_trail => TrailInv'
<1> SUFFICES ASSUME TrailTypeOK, Standing, ~ disturbed => Serial, [TrailNext]_trail
             PROVE  TrailInv'
  BY DEF TrailInv
<1>1. TrailTypeOK' /\ Standing'
  BY StepStands, StepTypes, OtherTypes DEF TrailNext
<1>2. ASSUME ~ disturbed' PROVE Serial'
  <2>1. ~ disturbed /\ Serial
    BY <1>2, DisturbedStays
  <2>2. ASSUME NEW w \in Writers, Begin(w) \/ LogStep(w) \/ Cancel(w)
        PROVE  Serial'
    BY <1>2, <2>1, <2>2, BeginSerial, InsertSerial, ReadSerial, WriteSerial, RemoveSerial, QuietSerial DEF LogStep
  <2>3. CASE Purge \/ Anonymize
    BY <1>2, <2>3 DEF Purge, Anonymize
  <2>4. CASE Crash
    BY <1>2, <2>1, <2>4, CrashSerial
  <2>5. CASE Stop \/ Start \/ UNCHANGED trail
    <3>1. UNCHANGED <<hash, altered, clock, writer>>
      BY <2>5 DEF Stop, Start, trail
    <3>2. \A v \in Writers : Follows(v)' = Follows(v)
      BY <3>1 DEF Follows, Before, Stored, IsLast
    <3> QED
      BY <2>1, <3>1, <3>2, SerialKept DEF AtWork, HasRow, Serial, Youngest
  <2> QED
    BY <2>2, <2>3, <2>4, <2>5 DEF TrailNext
<1> QED
  BY <1>1, <1>2 DEF TrailInv

-----------------------------------------------------------------------------

(***************************************************************************)
(* The log, the hashes and the sessions keep their types, for any number   *)
(* of writers.                                                             *)
(***************************************************************************)
THEOREM TrailTypes == TrailSpec => []TrailTypeOK
<1>1. TrailInv => TrailTypeOK
  BY DEF TrailInv
<1> QED
  BY <1>1, TrailInitially, TrailStep, PTL DEF TrailSpec

(***************************************************************************)
(* While entries are written one at a time and none is abandoned, removed  *)
(* or anonymized, the walk through the chain finds nothing but the entry   *)
(* that is being written.                                                  *)
(***************************************************************************)
THEOREM SerialChain == TrailSpec => []SerialChainMatches
<1>1. TrailInv => SerialChainMatches
  <2> SUFFICES ASSUME Serial PROVE Tampered \subseteq InFlight
    BY DEF TrailInv, SerialChainMatches
  <2> QED
    BY DEF Serial, Chained, Tampered, InFlight, HasRow
<1> QED
  BY <1>1, TrailInitially, TrailStep, PTL DEF TrailSpec
-----------------------------------------------------------------------------
(* The audit queue *)

(***************************************************************************)
(* The worker writes an event only while it has one in hand, and a queue   *)
(* that runs has a worker.                                                 *)
(***************************************************************************)
DrainInPlace ==
    /\ writer[Drain].pc # "idle" => worker = "write" /\ batch # <<>>
    /\ running => worker # "off"
    /\ flushBy <= puts

Rising(s) == \A i, j \in DOMAIN s : i < j => s[i] < s[j]

Below(s, t) == \A i \in DOMAIN s, j \in DOMAIN t : s[i] < t[j]

Upto(s, n) == \A i \in DOMAIN s : s[i] <= n

(***************************************************************************)
(* What is committed, in hand and waiting is one sequence in the order of  *)
(* put.                                                                    *)
(***************************************************************************)
InLine ==
    /\ Rising(written) /\ Rising(batch) /\ Rising(queue)
    /\ Below(written, batch) /\ Below(written, queue) /\ Below(batch, queue)
    /\ Upto(written, puts) /\ Upto(batch, puts) /\ Upto(queue, puts)

(***************************************************************************)
(* Once a batch was put back or cut off only the types are kept.           *)
(***************************************************************************)
QueueInv ==
    /\ TrailInv
    /\ QueueTypeOK
    /\ DrainInPlace
    /\ ~ putBack => InLine /\ FlushedAtStop

(***************************************************************************)
(* The first m elements of a sequence, and those from m on.                *)
(***************************************************************************)
LEMMA Front ==
    ASSUME NEW S, NEW s \in Seq(S), NEW m \in Nat, m <= Len(s)
    PROVE  /\ SubSeq(s, 1, m) \in Seq(S)
           /\ DOMAIN SubSeq(s, 1, m) = 1..m
           /\ Len(SubSeq(s, 1, m)) = m
           /\ \A i \in 1..m : SubSeq(s, 1, m)[i] = s[i]
<1>1. Len(s) \in Nat /\ \A i \in 1..m : s[i] \in S
  BY LenProperties, ElementOfSeq
<1>2. 1 \in Int /\ m \in Int
  OBVIOUS
<1>3. /\ SubSeq(s, 1, m) \in Seq(S)
      /\ Len(SubSeq(s, 1, m)) = IF 1 <= m THEN m - 1 + 1 ELSE 0
      /\ \A i \in 1..m - 1 + 1 : SubSeq(s, 1, m)[i] = s[1 + i - 1]
  BY <1>1, <1>2, SubSeqProperties
<1>4. Len(SubSeq(s, 1, m)) = m
  BY <1>3
<1>5. DOMAIN SubSeq(s, 1, m) = 1..m
  BY <1>3, <1>4, LenProperties
<1> QED
  BY <1>3, <1>4, <1>5

LEMMA Back ==
    ASSUME NEW S, NEW s \in Seq(S), NEW m \in Nat, m <= Len(s)
    PROVE  /\ SubSeq(s, m + 1, Len(s)) \in Seq(S)
           /\ DOMAIN SubSeq(s, m + 1, Len(s)) = 1..Len(s) - m
           /\ Len(SubSeq(s, m + 1, Len(s))) = Len(s) - m
           /\ \A i \in 1..Len(s) - m : SubSeq(s, m + 1, Len(s))[i] = s[m + i]
<1>1. Len(s) \in Nat /\ \A i \in m + 1..Len(s) : s[i] \in S
  BY LenProperties, ElementOfSeq
<1>2. m + 1 \in Int /\ Len(s) \in Int
  BY <1>1
<1>3. /\ SubSeq(s, m + 1, Len(s)) \in Seq(S)
      /\ Len(SubSeq(s, m + 1, Len(s))) = IF m + 1 <= Len(s) THEN Len(s) - (m + 1) + 1 ELSE 0
      /\ \A i \in 1..Len(s) - (m + 1) + 1 : SubSeq(s, m + 1, Len(s))[i] = s[m + 1 + i - 1]
  BY <1>1, <1>2, SubSeqProperties
<1>4. Len(SubSeq(s, m + 1, Len(s))) = Len(s) - m
  BY <1>1, <1>3
<1>5. DOMAIN SubSeq(s, m + 1, Len(s)) = 1..Len(s) - m
  BY <1>3, <1>4, LenProperties
<1> QED
  BY <1>1, <1>3, <1>4, <1>5

(***************************************************************************)
(* What is put behind a queue takes the places that are left.              *)
(***************************************************************************)
LEMMA RoomLeft ==
    ASSUME NEW S, NEW q \in Seq(S), NEW s \in Seq(S), QueueAssumption
    PROVE  /\ Room(q, s) \in Seq(S)
           /\ Len(Room(q, s)) <= MaxQueue
           /\ DOMAIN Room(q, s) = 1..Len(Room(q, s))
           /\ Len(Room(q, s)) \in Nat
           /\ Len(Room(q, s)) <= Len(q) + Len(s)
           /\ \A i \in DOMAIN Room(q, s) :
                 Room(q, s)[i] = IF i <= Len(q) THEN q[i] ELSE s[i - Len(q)]
<1>1. /\ q \o s \in Seq(S)
      /\ Len(q \o s) = Len(q) + Len(s)
      /\ \A i \in 1..Len(q) + Len(s) : (q \o s)[i] = IF i <= Len(q) THEN q[i] ELSE s[i - Len(q)]
  BY ConcatProperties
<1>2. Len(q) \in Nat /\ Len(s) \in Nat /\ MaxQueue \in Nat
  BY LenProperties DEF QueueAssumption
<1> DEFINE m == IF Len(q \o s) < MaxQueue THEN Len(q \o s) ELSE MaxQueue
<1>3. m \in Nat /\ m <= Len(q \o s) /\ m <= MaxQueue
  BY <1>1, <1>2
<1>4. Room(q, s) = SubSeq(q \o s, 1, m)
  BY DEF Room
<1> HIDE DEF m
<1>5. /\ SubSeq(q \o s, 1, m) \in Seq(S)
      /\ DOMAIN SubSeq(q \o s, 1, m) = 1..m
      /\ Len(SubSeq(q \o s, 1, m)) = m
      /\ \A i \in 1..m : SubSeq(q \o s, 1, m)[i] = (q \o s)[i]
  BY <1>1, <1>3, Front
<1>6. \A i \in 1..m : i \in 1..Len(q) + Len(s)
  BY <1>1, <1>2, <1>3
<1> QED
  BY <1>1, <1>3, <1>4, <1>5, <1>6

LEMMA LogStepBusy ==
    ASSUME NEW w, LogStep(w)
    PROVE  writer[w].pc # "idle"
  BY DEF LogStep, Insert, InsertFails, ReadPrevious, WriteHash, HashFails, RemoveUnhashed, RemoveFails

(***************************************************************************)
(* The worker is one of the writers of the trail: a step of the queue is a *)
(* step of the trail or leaves it alone.                                   *)
(***************************************************************************)
LEMMA TrailBelow ==
    ASSUME QueueAssumption, QueueNext \/ UNCHANGED queueVars
    PROVE  [TrailNext]_trail
<1>1. Drain \in Writers
  BY DEF QueueAssumption
<1>2. CASE Put \/ StartQueue \/ StopQueue \/ Take \/ WorkerEnds \/ BatchDone \/ UNCHANGED queueVars
  BY <1>2, Zenon DEF Put, StartQueue, StopQueue, Take, WorkerEnds, BatchDone, queueVars
<1>3. CASE StopTimesOut
  <2>1. UNCHANGED trail \/ Cancel(Drain)
    BY <1>3, Zenon DEF StopTimesOut
  <2> QED
    BY <1>1, <2>1, Zenon DEF TrailNext
<1>4. CASE LogNext \/ LogGoesOn
  BY <1>1, <1>4, Zenon DEF LogNext, LogGoesOn, TrailNext
<1>5. CASE BatchFails
  BY <1>1, <1>5, Zenon DEF BatchFails, LogStep, TrailNext
<1>6. CASE Down
  BY <1>6, Zenon DEF Down, TrailNext
<1>7. CASE (Request \/ Purge \/ Anonymize \/ Start) /\ UNCHANGED buffer
  <2>1. ASSUME NEW w \in Writers \ {Drain},
               (clock < MaxEntries /\ Begin(w)) \/ LogStep(w) \/ Cancel(w)
        PROVE  TrailNext
    BY <2>1, Zenon DEF TrailNext
  <2> QED
    BY <1>7, <2>1, Zenon DEF Request, TrailNext
<1> QED
  BY <1>2, <1>3, <1>4, <1>5, <1>6, <1>7, Zenon DEF QueueNext, Drains

LEMMA DrainOnItsOwn ==
    ASSUME QueueAssumption, TrailInv, Request \/ Purge \/ Anonymize \/ Start
    PROVE  writer'[Drain] = writer[Drain]
<1>1. Drain \in Writers /\ writer \in [Writers -> Writer]
  BY DEF QueueAssumption, TrailInv, TrailTypeOK
<1>2. ASSUME NEW w \in Writers \ {Drain}, NEW s, Become(w, s) PROVE writer'[Drain] = writer[Drain]
  BY <1>1, <1>2 DEF Become
<1>3. ASSUME NEW w \in Writers \ {Drain}, Begin(w) \/ LogStep(w) \/ Cancel(w)
      PROVE  writer'[Drain] = writer[Drain]
  BY <1>2, <1>3, Zenon DEF Begin, LogStep, Insert, InsertFails, ReadPrevious, WriteHash, HashFails,
        RemoveUnhashed, RemoveFails, Cancel, Rest
<1>4. CASE Purge \/ Anonymize \/ Start
  BY <1>4, Zenon DEF Purge, Anonymize, Start
<1> QED
  BY <1>3, <1>4, Zenon DEF Request

LEMMA QueueTypes ==
    ASSUME QueueAssumption, QueueTypeOK, DrainInPlace, TrailTypeOK', QueueNext
    PROVE  QueueTypeOK'
<1> USE DEF QueueTypeOK
<1>0. /\ Drain \in Writers /\ MaxQueue \in Nat /\ BatchSize \in Nat \ {0}
      /\ MaxRetryCycles \in Nat /\ MaxPuts \in Nat
  BY DEF QueueAssumption
<1>1. <<>> \in Seq(Events) /\ Len(<<>>) = 0
  BY EmptySeq
<1>2. CASE Put
  <2>1. puts' = puts + 1 /\ puts' \in 1..MaxPuts
    BY <1>0, <1>2 DEF Put
  <2>2. <<puts'>> \in Seq(Events) /\ queue' = Room(queue, <<puts'>>)
    BY <1>2, <2>1 DEF Put, Events
  <2>3. queue' \in Seq(Events) /\ Len(queue') <= MaxQueue
    BY <2>2, RoomLeft
  <2> QED
    BY <1>2, <2>1, <2>3 DEF Put
<1>3. CASE StartQueue \/ StopQueue \/ WorkerEnds \/ BatchDone
  <2>1. UNCHANGED <<queue, batch, puts, written, putBack>>
    BY <1>3, Zenon DEF StartQueue, StopQueue, WorkerEnds, BatchDone
  <2>2. running' \in BOOLEAN /\ worker' \in {"off", "take", "write"}
    BY <1>3 DEF StartQueue, StopQueue, WorkerEnds, BatchDone
  <2>3. whole' = whole \/ whole' = <<>>
    BY <1>3, Zenon DEF StartQueue, StopQueue, WorkerEnds, BatchDone
  <2>4. flushBy' \in 0..MaxPuts
    BY <1>3 DEF StartQueue, StopQueue, WorkerEnds, BatchDone
  <2>5. cycles' \in Nat
    BY <1>3 DEF StartQueue, StopQueue, WorkerEnds, BatchDone
  <2>6. whole' \in Seq(Events) /\ Len(whole') <= BatchSize
    <3>1. CASE whole' = whole
      BY <3>1
    <3>2. CASE whole' = <<>>
      BY <1>0, <1>1, <3>2
    <3> QED
      BY <2>3, <3>1, <3>2
  <2> QED
    BY <2>1, <2>2, <2>4, <2>5, <2>6
<1>4. CASE StopTimesOut
  BY <1>0, <1>1, <1>4 DEF StopTimesOut
<1>5. CASE Take
  <2>1. PICK n \in Nat : /\ n <= Len(queue) /\ n <= BatchSize
                         /\ batch' = SubSeq(queue, 1, n)
                         /\ queue' = SubSeq(queue, n + 1, Len(queue))
    <3> DEFINE n == IF Len(queue) < BatchSize THEN Len(queue) ELSE BatchSize
    <3>1. Len(queue) \in Nat
      BY LenProperties
    <3>2. n \in Nat /\ n <= Len(queue) /\ n <= BatchSize
      BY <1>0, <3>1
    <3>3. batch' = SubSeq(queue, 1, n) /\ queue' = SubSeq(queue, n + 1, Len(queue))
      BY <1>5 DEF Take
    <3> QED
      BY <3>2, <3>3, Zenon
  <2>2. batch' \in Seq(Events) /\ Len(batch') = n
    BY <2>1, Front
  <2>3. queue' \in Seq(Events) /\ Len(queue') = Len(queue) - n
    BY <2>1, Back
  <2>4. Len(queue') <= MaxQueue
    <3>1. Len(queue) \in Nat
      BY LenProperties
    <3> QED
      BY <1>0, <2>3, <3>1
  <2> QED
    BY <1>5, <2>1, <2>2, <2>3, <2>4 DEF Take
<1>6. CASE LogNext
  BY <1>6 DEF LogNext, buffer
<1>7. CASE LogGoesOn
  <2>1. batch # <<>>
    BY <1>7, LogStepBusy DEF LogGoesOn, DrainInPlace
  <2>2. Head(batch) \in Events /\ Tail(batch) \in Seq(Events)
    BY <2>1, HeadTailProperties
  <2>3. Append(written, Head(batch)) \in Seq(Events)
    BY <2>2, AppendProperties
  <2> QED
    BY <1>7, <2>2, <2>3 DEF LogGoesOn
<1>8. CASE BatchFails
  <2>1. cycles' \in Nat
    BY <1>8 DEF BatchFails
  <2>2. Room(queue, whole) \in Seq(Events) /\ Len(Room(queue, whole)) <= MaxQueue
    BY RoomLeft
  <2> QED
    BY <1>0, <1>1, <1>8, <2>1, <2>2 DEF BatchFails
<1>9. CASE Down
  <2>1. /\ queue' = <<>> /\ batch' = <<>> /\ whole' = <<>>
        /\ running' = FALSE /\ worker' = "off" /\ cycles' = 0 /\ flushBy' = puts
        /\ UNCHANGED <<puts, written, putBack>>
    BY <1>9, Zenon DEF Down
  <2>2. /\ queue' \in Seq(Events) /\ Len(queue') <= MaxQueue
        /\ batch' \in Seq(Events)
        /\ whole' \in Seq(Events) /\ Len(whole') <= BatchSize
    BY <1>0, <1>1, <2>1
  <2>3. /\ running' \in BOOLEAN /\ worker' \in {"off", "take", "write"}
        /\ cycles' \in Nat /\ flushBy' \in 0..MaxPuts
    BY <2>1
  <2> QED
    BY <2>1, <2>2, <2>3
<1>10. CASE UNCHANGED buffer
  BY <1>10 DEF buffer
<1> QED
  BY <1>2, <1>3, <1>4, <1>5, <1>6, <1>7, <1>8, <1>9, <1>10 DEF QueueNext, Drains

LEMMA DrainStep ==
    ASSUME QueueAssumption, TrailInv, QueueTypeOK, DrainInPlace, QueueNext
    PROVE  DrainInPlace'
<1>0. /\ Drain \in Writers /\ puts \in Nat /\ flushBy \in Nat
      /\ writer \in [Writers -> Writer] /\ Idle.pc = "idle"
  BY DEF QueueAssumption, QueueTypeOK, TrailInv, TrailTypeOK, Idle
<1>1. Rest(Drain) => writer'[Drain].pc = "idle"
  BY <1>0, RestEffect
<1>2. CASE Put \/ StartQueue \/ StopQueue \/ BatchDone
  BY <1>0, <1>2 DEF Put, StartQueue, StopQueue, BatchDone, DrainInPlace, trail
<1>3. CASE StopTimesOut
  <2>1. writer'[Drain].pc = "idle"
    BY <1>1, <1>3 DEF StopTimesOut, Cancel, trail
  <2> QED
    BY <1>3, <2>1 DEF StopTimesOut, DrainInPlace
<1>4. CASE Take \/ WorkerEnds
  <2>1. worker = "take"
    BY <1>4, Zenon DEF Take, WorkerEnds
  <2>2. writer' = writer
    BY <1>4, Zenon DEF Take, WorkerEnds, trail
  <2>3. UNCHANGED <<running, flushBy, puts>> /\ (worker' = "write" \/ ~ running)
    BY <1>4, Zenon DEF Take, WorkerEnds
  <2> QED
    BY <2>1, <2>2, <2>3 DEF DrainInPlace
<1>5. CASE LogNext
  BY <1>5 DEF LogNext, DrainInPlace, buffer
<1>6. CASE LogGoesOn
  <2>1. batch # <<>> /\ worker = "write"
    BY <1>6, LogStepBusy DEF LogGoesOn, DrainInPlace
  <2> QED
    BY <1>6, <2>1 DEF LogGoesOn, DrainInPlace
<1>7. CASE BatchFails
  <2>1. writer'[Drain].pc = "idle"
    BY <1>1, <1>7 DEF BatchFails, InsertFails
  <2> QED
    BY <1>7, <2>1 DEF BatchFails, DrainInPlace
<1>8. CASE Down
  <2>1. writer'[Drain].pc = "idle"
    <3>1. CASE Crash
      BY <1>0, <3>1 DEF Crash
    <3>2. CASE Stop
      BY <1>0, <3>2 DEF Stop, Busy
    <3> QED
      BY <1>8, <3>1, <3>2 DEF Down
  <2> QED
    BY <1>0, <1>8, <2>1 DEF Down, DrainInPlace
<1>9. CASE (Request \/ Purge \/ Anonymize \/ Start) /\ UNCHANGED buffer
  <2>1. writer'[Drain] = writer[Drain]
    BY <1>9, DrainOnItsOwn
  <2> QED
    BY <1>9, <2>1 DEF DrainInPlace, buffer
<1> QED
  BY <1>2, <1>3, <1>4, <1>5, <1>6, <1>7, <1>8, <1>9 DEF QueueNext, Drains

-----------------------------------------------------------------------------
(* The order of the events *)

(***************************************************************************)
(* An event is put last, and is the youngest.                              *)
(***************************************************************************)
LEMMA PutInLine ==
    ASSUME QueueAssumption, QueueTypeOK, InLine, Put
    PROVE  InLine'
<1> USE DEF QueueTypeOK
<1>1. puts \in Nat /\ puts' = puts + 1 /\ puts' \in Events /\ MaxPuts \in Nat
  BY DEF QueueAssumption, Put, Events
<1>2. UNCHANGED <<written, batch>> /\ queue' = Room(queue, <<puts'>>)
  BY DEF Put
<1>3. /\ DOMAIN queue = 1..Len(queue) /\ Len(queue) \in Nat
      /\ \A i \in DOMAIN queue : queue[i] \in Nat
      /\ \A i \in DOMAIN batch : batch[i] \in Nat
      /\ \A i \in DOMAIN written : written[i] \in Nat
  BY <1>1, LenProperties, ElementOfSeq DEF Events
<1>4. <<puts'>> \in Seq(Events) /\ Len(<<puts'>>) = 1 /\ <<puts'>>[1] = puts'
  BY <1>1
<1> DEFINE r == Room(queue, <<puts'>>)
<1>5. /\ DOMAIN r = 1..Len(r) /\ Len(r) \in Nat /\ Len(r) <= Len(queue) + 1
      /\ \A i \in DOMAIN r : r[i] = IF i <= Len(queue) THEN queue[i] ELSE <<puts'>>[i - Len(queue)]
  BY <1>4, RoomLeft
<1> HIDE DEF r
<1>6. \A i \in DOMAIN r :
         \/ i \in DOMAIN queue /\ r[i] = queue[i]
         \/ i = Len(queue) + 1 /\ r[i] = puts'
  <2> SUFFICES ASSUME NEW i \in DOMAIN r
               PROVE  \/ i \in DOMAIN queue /\ r[i] = queue[i]
                      \/ i = Len(queue) + 1 /\ r[i] = puts'
    OBVIOUS
  <2>1. i \in Nat /\ i >= 1 /\ i <= Len(queue) + 1
    BY <1>3, <1>5
  <2>2. CASE i <= Len(queue)
    BY <1>3, <1>5, <2>1, <2>2
  <2>3. CASE i = Len(queue) + 1
    <3>1. i - Len(queue) = 1 /\ ~ (i <= Len(queue))
      BY <1>3, <2>3
    <3> QED
      BY <1>4, <1>5, <2>3, <3>1
  <2> QED
    BY <1>3, <2>1, <2>2, <2>3
<1>7. Upto(written, puts') /\ Upto(batch, puts')
  BY <1>1, <1>3 DEF InLine, Upto
<1>10. Upto(r, puts')
  <2> SUFFICES ASSUME NEW i \in DOMAIN r PROVE r[i] <= puts'
    BY DEF Upto
  <2>1. CASE i \in DOMAIN queue /\ r[i] = queue[i]
    BY <1>1, <1>3, <2>1 DEF InLine, Upto
  <2>2. CASE r[i] = puts'
    BY <1>1, <2>2
  <2> QED
    BY <1>6, <2>1, <2>2
<1>8. Rising(r)
  BY <1>1, <1>3, <1>6 DEF InLine, Upto, Rising
<1>9. ASSUME NEW s, Below(s, queue), Upto(s, puts), \A i \in DOMAIN s : s[i] \in Nat
      PROVE  Below(s, r)
  <2> SUFFICES ASSUME NEW i \in DOMAIN s, NEW j \in DOMAIN r PROVE s[i] < r[j]
    BY DEF Below
  <2>1. CASE j \in DOMAIN queue /\ r[j] = queue[j]
    BY <1>9, <2>1 DEF Below
  <2>2. CASE r[j] = puts'
    BY <1>1, <1>9, <2>2 DEF Upto
  <2> QED
    BY <1>6, <2>1, <2>2
<1>11. Below(written, r) /\ Below(batch, r)
  BY <1>3, <1>9 DEF InLine
<1> QED
  BY <1>2, <1>7, <1>10, <1>8, <1>11 DEF InLine, Below, Rising, Upto, r

(***************************************************************************)
(* The batch is taken from the front of the queue.                         *)
(***************************************************************************)
LEMMA TakeInLine ==
    ASSUME QueueAssumption, QueueTypeOK, InLine, Take
    PROVE  InLine'
<1> USE DEF QueueTypeOK
<1> DEFINE n == IF Len(queue) < BatchSize THEN Len(queue) ELSE BatchSize
<1>1. Len(queue) \in Nat /\ DOMAIN queue = 1..Len(queue) /\ \A i \in DOMAIN queue : queue[i] \in Nat
  BY LenProperties, ElementOfSeq DEF Events
<1>2. n \in Nat /\ n <= Len(queue)
  BY <1>1 DEF QueueAssumption
<1>3. batch' = SubSeq(queue, 1, n) /\ queue' = SubSeq(queue, n + 1, Len(queue)) /\ UNCHANGED <<written, puts>>
  BY DEF Take
<1> HIDE DEF n
<1>4. DOMAIN batch' = 1..n /\ \A i \in 1..n : batch'[i] = queue[i]
  BY <1>2, <1>3, Front
<1>5. DOMAIN queue' = 1..Len(queue) - n /\ \A i \in 1..Len(queue) - n : queue'[i] = queue[n + i]
  BY <1>2, <1>3, Back
<1>6. \A i \in DOMAIN batch' : i \in DOMAIN queue /\ i <= n
  BY <1>1, <1>2, <1>4
<1>7. \A i \in DOMAIN queue' : i \in Nat /\ n + i \in DOMAIN queue /\ n + i > n
  BY <1>1, <1>2, <1>5
<1>8. Rising(batch') /\ Below(written, batch') /\ Upto(batch', puts)
  BY <1>4, <1>6 DEF InLine, Rising, Below, Upto
<1>9. Rising(queue') /\ Below(written, queue') /\ Upto(queue', puts)
  <2>1. \A i, j \in DOMAIN queue' : i < j => n + i < n + j
    BY <1>2, <1>7
  <2> QED
    BY <1>5, <1>7, <2>1 DEF InLine, Rising, Below, Upto
<1>10. Below(batch', queue')
  <2> SUFFICES ASSUME NEW i \in DOMAIN batch', NEW j \in DOMAIN queue'
               PROVE  batch'[i] < queue'[j]
    BY DEF Below
  <2>1. i \in DOMAIN queue /\ n + j \in DOMAIN queue /\ i < n + j
    BY <1>1, <1>2, <1>6, <1>7
  <2>2. batch'[i] = queue[i] /\ queue'[j] = queue[n + j]
    BY <1>4, <1>5
  <2> QED
    BY <2>1, <2>2 DEF InLine, Rising
<1> QED
  BY <1>3, <1>8, <1>9, <1>10 DEF InLine, Rising, Below, Upto

(***************************************************************************)
(* The event at work is the next to be committed.                          *)
(***************************************************************************)
LEMMA LogInLine ==
    ASSUME QueueAssumption, QueueTypeOK, DrainInPlace, InLine, LogGoesOn
    PROVE  InLine'
<1> USE DEF QueueTypeOK
<1>1. batch # <<>> /\ batch \in Seq(Events)
  BY LogStepBusy DEF LogGoesOn, DrainInPlace
<1>2. /\ Len(batch) \in Nat /\ DOMAIN batch = 1..Len(batch) /\ Len(batch) >= 1
      /\ Len(written) \in Nat /\ DOMAIN written = 1..Len(written)
      /\ \A i \in DOMAIN batch : batch[i] \in Nat
      /\ \A i \in DOMAIN written : written[i] \in Nat
      /\ \A i \in DOMAIN queue : queue[i] \in Nat
  BY <1>1, LenProperties, ElementOfSeq, EmptySeq DEF Events
<1>3. UNCHANGED <<queue, puts>>
  BY DEF LogGoesOn
<1>4. CASE UNCHANGED <<written, batch>>
  BY <1>3, <1>4 DEF InLine, Rising, Below, Upto
<1> DEFINE t == Tail(batch)
<1>5. /\ t \in Seq(Events) /\ Len(t) = Len(batch) - 1 /\ Head(batch) = batch[1] /\ Head(batch) \in Events
      /\ \A i \in 1..Len(t) : t[i] = batch[i + 1]
  BY <1>1, HeadTailProperties
<1> HIDE DEF t
<1>6. \A i \in DOMAIN t : i \in Nat /\ i + 1 \in DOMAIN batch /\ i + 1 > 1 /\ t[i] = batch[i + 1]
  BY <1>2, <1>5, LenProperties
<1>7. 1 \in DOMAIN batch
  BY <1>2
<1>8. /\ Rising(t) /\ Below(written, t) /\ Below(t, queue) /\ Upto(t, puts)
      /\ \A i \in DOMAIN t : batch[1] < t[i]
  <2>1. \A i, j \in DOMAIN t : i < j => i + 1 < j + 1
    BY <1>6
  <2> QED
    BY <1>6, <1>7, <2>1 DEF InLine, Rising, Below, Upto
<1>9. CASE batch' = t /\ UNCHANGED written
  BY <1>3, <1>8, <1>9 DEF InLine, Rising, Below, Upto
<1>10. CASE batch' = t /\ written' = Append(written, Head(batch))
  <2>1. /\ DOMAIN written' = 1..Len(written) + 1
        /\ \A i \in 1..Len(written) : written'[i] = written[i]
        /\ written'[Len(written) + 1] = batch[1]
    BY <1>5, <1>10, AppendProperties, LenProperties
  <2>2. \A i \in DOMAIN written' :
           \/ i \in DOMAIN written /\ written'[i] = written[i]
           \/ i = Len(written) + 1 /\ written'[i] = batch[1]
    BY <1>2, <2>1
  <2>3. Rising(written')
    <3> SUFFICES ASSUME NEW i \in DOMAIN written', NEW j \in DOMAIN written', i < j
                 PROVE  written'[i] < written'[j]
      BY DEF Rising
    <3>1. i \in DOMAIN written /\ written'[i] = written[i]
      BY <1>2, <2>1, <2>2
    <3>2. CASE j \in DOMAIN written /\ written'[j] = written[j]
      BY <3>1, <3>2 DEF InLine, Rising
    <3>3. CASE written'[j] = batch[1]
      BY <1>7, <3>1, <3>3 DEF InLine, Below
    <3> QED
      BY <2>2, <3>2, <3>3
  <2>5. Upto(written', puts)
    BY <1>7, <2>2 DEF InLine, Upto
  <2>4. Below(written', t) /\ Below(written', queue)
    BY <1>7, <1>8, <2>2 DEF InLine, Below
  <2> QED
    BY <1>3, <1>8, <1>10, <2>3, <2>4, <2>5 DEF InLine, Rising, Below, Upto
<1> QED
  BY <1>4, <1>9, <1>10 DEF LogGoesOn, t

(***************************************************************************)
(* What is not in the way of a clean stop.                                 *)
(***************************************************************************)
LEMMA QueueOrder ==
    ASSUME QueueAssumption, QueueInv, QueueNext, ~ putBack'
    PROVE  ~ putBack /\ InLine' /\ FlushedAtStop'
<1> USE DEF QueueInv
<1>0. QueueTypeOK /\ DrainInPlace /\ puts \in Nat /\ flushBy \in Nat
  BY DEF QueueTypeOK
<1>1. ~ putBack
  BY Zenon DEF QueueNext, Put, StartQueue, StopQueue, StopTimesOut, Drains, Take, WorkerEnds, LogNext,
        LogGoesOn, BatchDone, BatchFails, Down, buffer
<1>2. InLine /\ FlushedAtStop
  BY <1>1
<1>3. CASE Put
  <2>1. InLine'
    BY <1>0, <1>2, <1>3, PutInLine
  <2>2. FlushedAtStop'
    <3> SUFFICES ASSUME worker = "off", ~ running, NEW i \in DOMAIN queue' PROVE queue'[i] > flushBy
      BY <1>3 DEF Put, FlushedAtStop
    <3>1. puts' = puts + 1 /\ puts' \in Events /\ queue' = Room(queue, <<puts'>>)
      BY <1>0, <1>3 DEF Put, Events, QueueTypeOK, QueueAssumption
    <3>2. queue \in Seq(Events) /\ <<puts'>> \in Seq(Events) /\ Len(<<puts'>>) = 1 /\ <<puts'>>[1] = puts'
      BY <1>0, <3>1 DEF QueueTypeOK
    <3>3. Len(queue) \in Nat /\ DOMAIN queue = 1..Len(queue)
      BY <3>2, LenProperties
    <3>4. /\ i \in 1..Len(queue) + 1
          /\ queue'[i] = IF i <= Len(queue) THEN queue[i] ELSE <<puts'>>[i - Len(queue)]
      <4>1. /\ DOMAIN Room(queue, <<puts'>>) = 1..Len(Room(queue, <<puts'>>))
            /\ Len(Room(queue, <<puts'>>)) \in Nat
            /\ Len(Room(queue, <<puts'>>)) <= Len(queue) + Len(<<puts'>>)
            /\ \A k \in DOMAIN Room(queue, <<puts'>>) :
                  Room(queue, <<puts'>>)[k] = IF k <= Len(queue) THEN queue[k] ELSE <<puts'>>[k - Len(queue)]
        BY <3>2, RoomLeft
      <4>2. i \in DOMAIN Room(queue, <<puts'>>)
        BY <3>1
      <4> QED
        BY <3>1, <3>2, <3>3, <4>1, <4>2
    <3>5. CASE i <= Len(queue)
      BY <1>1, <1>2, <3>3, <3>4, <3>5 DEF FlushedAtStop
    <3>6. CASE i = Len(queue) + 1
      <4>1. i - Len(queue) = 1 /\ ~ (i <= Len(queue))
        BY <3>3, <3>6
      <4>2. queue'[i] = puts'
        BY <3>2, <3>4, <4>1
      <4> QED
        BY <1>0, <3>1, <4>2 DEF DrainInPlace
    <3> QED
      BY <3>3, <3>4, <3>5, <3>6
  <2> QED
    BY <1>1, <2>1, <2>2
<1>4. CASE StartQueue \/ BatchDone \/ LogNext \/ ((Request \/ Purge \/ Anonymize \/ Start) /\ UNCHANGED buffer)
  <2>1. UNCHANGED <<written, batch, queue, puts, flushBy>> /\ (worker' = "off" /\ ~ running' => worker = "off" /\ ~ running)
    BY <1>4 DEF StartQueue, BatchDone, LogNext, buffer
  <2> QED
    BY <1>1, <1>2, <2>1 DEF InLine, Rising, Below, Upto, FlushedAtStop
<1>5. CASE StopQueue
  <2>1. UNCHANGED <<written, batch, queue, puts, worker>> /\ worker # "off"
    BY <1>0, <1>5 DEF StopQueue, DrainInPlace
  <2> QED
    BY <1>1, <1>2, <2>1 DEF InLine, Rising, Below, Upto, FlushedAtStop
<1>6. CASE WorkerEnds
  <2>1. UNCHANGED <<written, batch, queue, puts>> /\ queue = <<>>
    BY <1>6 DEF WorkerEnds
  <2>2. DOMAIN queue' = {}
    BY <2>1
  <2> QED
    BY <1>1, <1>2, <2>1, <2>2 DEF InLine, Rising, Below, Upto, FlushedAtStop
<1>7. CASE Take
  <2>1. worker' = "write"
    BY <1>7 DEF Take
  <2> QED
    BY <1>0, <1>1, <1>2, <1>7, <2>1, TakeInLine DEF FlushedAtStop
<1>8. CASE LogGoesOn
  <2>1. worker' = "write"
    BY <1>8 DEF LogGoesOn
  <2> QED
    BY <1>0, <1>1, <1>2, <1>8, <2>1, LogInLine DEF FlushedAtStop
<1>9. CASE Down
  <2>1. queue' = <<>> /\ batch' = <<>> /\ UNCHANGED <<written, puts>>
    BY <1>9, Zenon DEF Down
  <2>2. DOMAIN queue' = {} /\ DOMAIN batch' = {}
    BY <2>1
  <2> QED
    BY <1>1, <1>2, <2>1, <2>2 DEF InLine, Rising, Below, Upto, FlushedAtStop
<1>10. CASE StopTimesOut \/ BatchFails
  BY <1>10, Zenon DEF StopTimesOut, BatchFails
<1> QED
  BY <1>3, <1>4, <1>5, <1>6, <1>7, <1>8, <1>9, <1>10, Zenon DEF QueueNext, Drains

LEMMA QueueInitially == QueueAssumption /\ QueueInit => QueueInv
<1> SUFFICES ASSUME QueueAssumption, QueueInit PROVE QueueInv
  OBVIOUS
<1>1. TrailInit /\ TrailInv
  BY TrailInitially DEF QueueInit
<1>2. TrailTypeOK /\ <<>> \in Seq(Events) /\ Len(<<>>) = 0
  BY <1>1, EmptySeq DEF TrailInv
<1>3. QueueTypeOK
  <2>1. /\ queue \in Seq(Events) /\ Len(queue) <= MaxQueue
        /\ batch \in Seq(Events) /\ written \in Seq(Events)
        /\ whole \in Seq(Events) /\ Len(whole) <= BatchSize
    <3>1. queue = <<>> /\ batch = <<>> /\ written = <<>> /\ whole = <<>>
      BY DEF QueueInit
    <3>2. 0 <= MaxQueue /\ 0 <= BatchSize
      BY DEF QueueAssumption
    <3> QED
      BY <1>2, <3>1, <3>2
  <2>2. running \in BOOLEAN /\ worker \in {"off", "take", "write"} /\ putBack \in BOOLEAN
    BY DEF QueueInit
  <2>3. cycles \in Nat /\ puts \in 0..MaxPuts /\ flushBy \in 0..MaxPuts
    <3>1. cycles = 0 /\ puts = 0 /\ flushBy = 0
      BY DEF QueueInit
    <3>2. MaxPuts \in Nat
      BY DEF QueueAssumption
    <3> QED
      BY <3>1, <3>2
  <2> QED
    BY <1>2, <2>1, <2>2, <2>3 DEF QueueTypeOK
<1>4. writer[Drain].pc = "idle"
  BY <1>1 DEF TrailInit, Idle, QueueAssumption
<1>5. DrainInPlace
  BY <1>4 DEF QueueInit, DrainInPlace
<1>6. DOMAIN written = {} /\ DOMAIN batch = {} /\ DOMAIN queue = {}
  BY DEF QueueInit
<1>7. InLine /\ FlushedAtStop
  BY <1>6 DEF InLine, Rising, Below, Upto, FlushedAtStop
<1> QED
  BY <1>1, <1>3, <1>5, <1>7 DEF QueueInv

LEMMA QueueStep == QueueAssumption /\ QueueInv /\ (QueueNext \/ UNCHANGED queueVars) => QueueInv'
<1> SUFFICES ASSUME QueueAssumption, QueueInv, QueueNext \/ UNCHANGED queueVars PROVE QueueInv'
  OBVIOUS
<1>1. TrailInv' /\ TrailTypeOK'
  BY TrailBelow, TrailStep DEF QueueInv, TrailInv
<1>2. CASE QueueNext
  <2>1. QueueTypeOK' /\ DrainInPlace'
    BY <1>1, <1>2, QueueTypes, DrainStep DEF QueueInv
  <2> QED
    BY <1>1, <1>2, <2>1, QueueOrder DEF QueueInv
<1>3. CASE UNCHANGED queueVars
  BY <1>1, <1>3 DEF queueVars, trail, buffer, QueueInv, QueueTypeOK, TrailTypeOK, Stored, DrainInPlace, InLine,
     Rising, Below, Upto, FlushedAtStop
<1> QED
  BY <1>2, <1>3

LEMMA QueueIsSafe == QueueAssumption /\ QueueInv => QueueSafe
<1> SUFFICES ASSUME QueueAssumption, QueueInv PROVE QueueSafe
  OBVIOUS
<1>1. FlushedAtStop
  BY DEF QueueInv, FlushedAtStop
<1>2. ASSUME ~ putBack, NEW i \in 1..Len(written) - 1 PROVE written[i] < written[i + 1]
  <2>1. Len(written) \in Nat /\ DOMAIN written = 1..Len(written)
    BY LenProperties DEF QueueInv, QueueTypeOK
  <2>2. i \in DOMAIN written /\ i + 1 \in DOMAIN written /\ i < i + 1
    BY <2>1
  <2> QED
    BY <1>2, <2>2 DEF QueueInv, InLine, Rising
<1> QED
  BY <1>1, <1>2 DEF QueueSafe, WrittenInOrder

-----------------------------------------------------------------------------
(* The webhooks *)

Attempts == IF MaxRetries = 0 THEN 1 ELSE MaxRetries

(***************************************************************************)
(* Nobody has a delivery that does not exist yet.                          *)
(***************************************************************************)
FromDispatch ==
    \A d \in Posts :
        row[d].status = "none" => row[d].attempts = 0 /\ \A w \in Carriers : ~ Has(w, d)

(***************************************************************************)
(* One carrier has a delivery, and none has one that was delivered.        *)
(***************************************************************************)
OneCarrier ==
    \A d \in Posts \ doubled : \A w \in Carriers :
        Has(w, d) =>
            /\ row[d].status # "delivered"
            /\ \A x \in Carriers : Has(x, d) => x = w

(***************************************************************************)
(* A carrier knows how often its delivery was tried, and may try it once   *)
(* more when it is about to.  A row that waits may be tried again.         *)
(***************************************************************************)
Counted ==
    \A d \in Posts \ (doubled \cup dropped) :
        /\ row[d].attempts <= Attempts + manual[d]
        /\ \A w \in Carriers :
              Has(w, d) =>
                /\ carrier[w].attempts = row[d].attempts
                /\ WAt(w, "count") => row[d].attempts < Attempts + manual[d]
        /\ row[d].status = "retrying" /\ (\A w \in Carriers : ~ Has(w, d)) => row[d].attempts < Attempts

HookInv ==
    /\ HookTypeOK
    /\ FromDispatch
    /\ OneCarrier
    /\ Counted

Pc == {"idle", "count", "ask", "post", "good", "bad", "gone", "save", "retry", "close"}

CarrierRecord == [pc: Pc, post: Posts, attempts: Nat, tries: 0..1]

RowRecord == [status: HookStatus, attempts: Nat, due: BOOLEAN]

(***************************************************************************)
(* What one step does to one carrier and to the row of its delivery, e.    *)
(***************************************************************************)
OneRow(e) ==
    /\ row' \in [Posts -> RowRecord]
    /\ \A d \in Posts \ {e} : row'[d] = row[d]

OneMoves(w) ==
    /\ carrier' \in [Carriers -> CarrierRecord]
    /\ \A x \in Carriers \ {w} : carrier'[x] = carrier[x]

(***************************************************************************)
(* A free carrier takes up e, which may be tried once more.                *)
(***************************************************************************)
LEMMA TakenUp ==
    ASSUME HookInv, WebhooksAssumption, NEW w \in Carriers, NEW e \in Posts, TakeUp(w, e),
           OneRow(e), row'[e].attempts = row[e].attempts,
           row'[e].status \notin {"none", "delivered"},
           manual' \in [Posts -> Nat],
           \A d \in Posts \ {e} : manual'[d] = manual[d],
           manual'[e] >= manual[e],
           e \notin doubled' \cup dropped => row[e].attempts < Attempts + manual'[e],
           UNCHANGED dropped
    PROVE  FromDispatch' /\ OneCarrier' /\ Counted'
<1> USE DEF HookInv, OneRow, RowRecord
<1>1. /\ carrier' = [carrier EXCEPT ![w] = [pc |-> "count", post |-> e, attempts |-> row[e].attempts, tries |-> 0]]
      /\ carrier[w].pc = "idle"
      /\ carrier \in [Carriers -> CarrierRecord]
  BY DEF TakeUp, WAt, HookTypeOK, CarrierRecord, Pc
<1>2. /\ carrier'[w].pc = "count" /\ carrier'[w].post = e /\ carrier'[w].attempts = row[e].attempts
      /\ \A x \in Carriers \ {w} : carrier'[x] = carrier[x]
  BY <1>1
<1>3. /\ Has(w, e)' /\ ~ Has(w, e) /\ \A d \in Posts : Has(w, d)' => d = e
      /\ \A x \in Carriers \ {w}, d \in Posts : Has(x, d)' <=> Has(x, d)
      /\ \A x \in Carriers \ {w} : WAt(x, "count")' <=> WAt(x, "count")
  BY <1>1, <1>2 DEF Has, WAt
<1>4. doubled \subseteq doubled' /\ ((\E x \in Carriers : Has(x, e)) => e \in doubled')
  BY DEF TakeUp, HookTypeOK
<1>5. FromDispatch'
  BY <1>3 DEF FromDispatch
<1>6. OneCarrier'
  BY <1>3, <1>4 DEF OneCarrier
<1>7. Counted'
  <2> SUFFICES ASSUME NEW d \in Posts \ (doubled' \cup dropped)
               PROVE  /\ row'[d].attempts <= Attempts + manual'[d]
                      /\ \A x \in Carriers :
                            Has(x, d)' =>
                              /\ carrier'[x].attempts = row'[d].attempts
                              /\ WAt(x, "count")' => row'[d].attempts < Attempts + manual'[d]
                      /\ row'[d].status = "retrying" /\ (\A x \in Carriers : ~ Has(x, d)')
                            => row'[d].attempts < Attempts
    BY DEF Counted
  <2>0. Attempts \in Nat /\ d \in Posts \ (doubled \cup dropped) /\ row[d].attempts \in Nat /\ manual'[d] \in Nat
    BY <1>4 DEF Attempts, WebhooksAssumption, HookTypeOK
  <2>1. CASE d = e
    <3>1. \A x \in Carriers : ~ Has(x, e)
      BY <1>4, <2>1
    <3>2. \A x \in Carriers : Has(x, e)' => x = w
      BY <1>3, <3>1
    <3>3. row[e].attempts < Attempts + manual'[e]
      BY <1>4, <2>0, <2>1
    <3>4. row'[e].attempts < Attempts + manual'[e] /\ row'[e].attempts \in Nat
      BY <2>0, <2>1, <3>3
    <3>5. carrier'[w].attempts = row'[e].attempts
      BY <1>2
    <3> QED
      BY <1>3, <2>0, <2>1, <3>2, <3>4, <3>5
  <2>2. CASE d # e
    <3>1. row'[d] = row[d] /\ manual'[d] = manual[d]
      BY <2>2
    <3>2. ~ Has(w, d) /\ ~ Has(w, d)'
      BY <1>1, <1>3, <2>2 DEF Has, WAt
    <3>3. \A x \in Carriers :
             Has(x, d)' => /\ Has(x, d) /\ carrier'[x] = carrier[x]
                           /\ WAt(x, "count")' => WAt(x, "count")
      BY <1>2, <1>3, <3>2
    <3>4. (\A x \in Carriers : ~ Has(x, d)') => \A x \in Carriers : ~ Has(x, d)
      BY <1>3, <3>2
    <3> QED
      BY <2>0, <3>1, <3>3, <3>4 DEF Counted
  <2> QED
    BY <2>1, <2>2
<1> QED
  BY <1>5, <1>6, <1>7

(***************************************************************************)
(* A carrier goes on with its delivery, or leaves it.                      *)
(***************************************************************************)
LEMMA CarriedOn ==
    ASSUME HookInv, WebhooksAssumption, NEW w \in Carriers, NEW e \in Posts, Has(w, e),
           OneRow(e), OneMoves(w), carrier'[w].post = e, ~ WAt(w, "count")',
           row'[e].status # "none",
           UNCHANGED <<manual, doubled, dropped>>,
           ~ WAt(w, "idle")' => /\ row'[e].status = row[e].status
                                /\ carrier'[w].attempts = row'[e].attempts
                                   \/ (carrier'[w].attempts = carrier[w].attempts /\ row'[e].attempts = row[e].attempts),
           row'[e].attempts = row[e].attempts
              \/ (WAt(w, "count") /\ row'[e].attempts = carrier[w].attempts + 1 /\ ~ WAt(w, "idle")'),
           WAt(w, "idle")' /\ row'[e].status = "retrying" => carrier[w].attempts < Attempts
    PROVE  FromDispatch' /\ OneCarrier' /\ Counted'
<1> USE DEF HookInv, OneRow, OneMoves, RowRecord
<1>1. /\ \A d \in Posts : Has(w, d) => d = e
      /\ \A d \in Posts : Has(w, d)' => d = e /\ ~ WAt(w, "idle")'
      /\ ~ WAt(w, "idle")' => Has(w, e)'
      /\ \A x \in Carriers \ {w}, d \in Posts : Has(x, d)' <=> Has(x, d)
      /\ \A x \in Carriers \ {w} : WAt(x, "count")' <=> WAt(x, "count")
  BY DEF Has, WAt
<1>2. FromDispatch'
  BY <1>1 DEF FromDispatch
<1>3. OneCarrier'
  BY <1>1 DEF OneCarrier
<1>4. Counted'
  <2> SUFFICES ASSUME NEW d \in Posts \ (doubled \cup dropped)
               PROVE  /\ row'[d].attempts <= Attempts + manual[d]
                      /\ \A x \in Carriers :
                            Has(x, d)' =>
                              /\ carrier'[x].attempts = row'[d].attempts
                              /\ WAt(x, "count")' => row'[d].attempts < Attempts + manual[d]
                      /\ row'[d].status = "retrying" /\ (\A x \in Carriers : ~ Has(x, d)')
                            => row'[d].attempts < Attempts
    BY DEF Counted
  <2>0. Attempts \in Nat /\ row[d].attempts \in Nat /\ manual[d] \in Nat
    BY DEF Attempts, WebhooksAssumption, HookTypeOK
  <2>1. CASE d = e
    <3>1. \A x \in Carriers : Has(x, e) => x = w
      BY <2>1 DEF OneCarrier
    <3>2. carrier[w].attempts = row[e].attempts /\ row[e].attempts <= Attempts + manual[e]
          /\ (WAt(w, "count") => row[e].attempts < Attempts + manual[e])
      BY <2>1 DEF Counted
    <3>3. row'[e].attempts <= Attempts + manual[e]
      BY <2>0, <2>1, <3>2
    <3>4. \A x \in Carriers : Has(x, e)' => x = w /\ carrier'[x].attempts = row'[e].attempts /\ ~ WAt(x, "count")'
      BY <1>1, <3>1, <3>2
    <3>5. (\A x \in Carriers : ~ Has(x, e)') => WAt(w, "idle")'
      BY <1>1
    <3>6. WAt(w, "idle")' => row'[e].attempts = row[e].attempts
      OBVIOUS
    <3> QED
      BY <2>1, <3>2, <3>3, <3>4, <3>5, <3>6
  <2>2. CASE d # e
    BY <1>1, <2>0, <2>2 DEF Counted
  <2> QED
    BY <2>1, <2>2
<1> QED
  BY <1>2, <1>3, <1>4

LEMMA PostedTyped ==
    ASSUME HookTypeOK, HookNext \/ UNCHANGED hookVars
    PROVE  posted' \in [Posts -> Nat]
<1>1. posted \in [Posts -> Nat] /\ 0 \in Nat
  BY DEF HookTypeOK
<1>2. ASSUME NEW d, posted' = [posted EXCEPT ![d] = 0] PROVE posted' \in [Posts -> Nat]
  BY <1>1, <1>2
<1>3. ASSUME NEW d, posted' = [posted EXCEPT ![d] = @ + 1] PROVE posted' \in [Posts -> Nat]
  <2>1. \A x \in Posts : posted'[x] = posted[x] \/ posted'[x] = posted[x] + 1
    BY <1>1, <1>3
  <2>2. \A x \in Posts : posted'[x] \in Nat
    BY <1>1, <2>1
  <2>3. DOMAIN posted' = Posts /\ posted' = [x \in Posts |-> posted'[x]]
    BY <1>1, <1>3
  <2> QED
    BY <2>2, <2>3
<1>4. ASSUME NEW w, NEW d, TakeUp(w, d) PROVE posted' \in [Posts -> Nat]
  BY <1>1, <1>2, <1>4 DEF TakeUp
<1>5. ASSUME NEW w, Deliver(w) PROVE posted' \in [Posts -> Nat]
  <2>1. CASE Answer(w)
    BY <1>1, <1>3, <2>1 DEF Answer
  <2>2. CASE UNCHANGED posted
    BY <1>1, <2>2
  <2> QED
    BY <1>5, <2>1, <2>2, Zenon DEF Deliver, FailInactive, CountAttempt, AllowRequest, RecordSuccess, RecordFailure,
       Save, ScheduleRetry
<1>6. ASSUME NEW w, CarrierDies(w) PROVE posted' \in [Posts -> Nat]
  BY <1>2, <1>6 DEF CarrierDies
<1>7. CASE UNCHANGED posted
  BY <1>1, <1>7
<1> QED
  BY <1>4, <1>5, <1>6, <1>7, Zenon DEF HookNext, DispatchEvent, SelectDue, RetryDelivery, RetryDue, Deactivate,
     RecoveryTimeout, hookVars

LEMMA DispatchSafe ==
    ASSUME HookInv, WebhooksAssumption, NEW w \in Carriers, NEW e \in Posts,
           DispatchEvent(w, e) \/ SelectDue(w, e) \/ RetryDelivery(w, e),
           posted' \in [Posts -> Nat]
    PROVE  HookInv'
<1> USE DEF HookInv
<1>1. /\ row \in [Posts -> RowRecord] /\ row[e] \in RowRecord
      /\ manual \in [Posts -> 0..MaxManual] /\ MaxManual \in Nat
      /\ carrier \in [Carriers -> CarrierRecord]
      /\ row[e].due => row[e].status = "retrying"
  BY DEF HookTypeOK, RowRecord, CarrierRecord, Pc, WebhooksAssumption
<1>2. TakeUp(w, e) /\ UNCHANGED <<active, state, failures, cooled, dropped>>
  BY Zenon DEF DispatchEvent, SelectDue, RetryDelivery
<1>3. /\ row'[e].attempts = row[e].attempts /\ row'[e].due = row[e].due
      /\ row'[e].status \in {"pending", "failed", "retrying"}
      /\ row[e].due => row'[e].status = "retrying"
      /\ OneRow(e)
  <2>1. CASE DispatchEvent(w, e)
    <3>1. row' = [row EXCEPT ![e].status = "pending"] /\ row[e].status = "none"
      BY <2>1 DEF DispatchEvent
    <3> QED
      BY <1>1, <3>1 DEF OneRow, RowRecord, HookStatus
  <2>2. CASE SelectDue(w, e) \/ RetryDelivery(w, e)
    <3>1. row' = row /\ (row[e].due \/ row[e].status \in {"failed", "retrying"})
      BY <2>2 DEF SelectDue, RetryDelivery
    <3> QED
      BY <1>1, <3>1 DEF OneRow
  <2> QED
    BY <2>1, <2>2
<1>4. /\ manual' \in [Posts -> 0..MaxManual]
      /\ \A d \in Posts \ {e} : manual'[d] = manual[d]
      /\ manual'[e] = manual[e] \/ (RetryDelivery(w, e) /\ manual'[e] = manual[e] + 1)
  <2>1. CASE DispatchEvent(w, e) \/ SelectDue(w, e)
    BY <1>1, <2>1 DEF DispatchEvent, SelectDue
  <2>2. CASE RetryDelivery(w, e)
    <3>1. manual' = [manual EXCEPT ![e] = @ + 1] /\ manual[e] < MaxManual
      BY <2>2 DEF RetryDelivery
    <3> QED
      BY <1>1, <2>2, <3>1
  <2> QED
    BY <2>1, <2>2
<1>5. manual' \in [Posts -> Nat] /\ manual'[e] >= manual[e] /\ manual[e] \in Nat
  BY <1>1, <1>4
<1>6. doubled' \subseteq Posts /\ doubled \subseteq doubled'
      /\ (e \notin doubled' => \A x \in Carriers : ~ Has(x, e))
  BY <1>2 DEF TakeUp, HookTypeOK
<1>7. e \notin doubled' \cup dropped => row[e].attempts < Attempts + manual'[e]
  <2> SUFFICES ASSUME e \notin doubled' \cup dropped PROVE row[e].attempts < Attempts + manual'[e]
    OBVIOUS
  <2>1. Attempts \in Nat \ {0} /\ row[e].attempts \in Nat
    BY <1>1 DEF Attempts, WebhooksAssumption, RowRecord
  <2>2. e \in Posts \ (doubled \cup dropped) /\ \A x \in Carriers : ~ Has(x, e)
    BY <1>6
  <2>3. row[e].attempts <= Attempts + manual[e] /\ (row[e].status = "retrying" => row[e].attempts < Attempts)
    BY <2>2 DEF Counted
  <2>4. CASE DispatchEvent(w, e)
    <3>1. row[e].attempts = 0
      BY <2>4 DEF DispatchEvent, FromDispatch
    <3> QED
      BY <1>5, <2>1, <3>1
  <2>5. CASE SelectDue(w, e)
    <3>1. row[e].status = "retrying"
      BY <1>1, <2>5 DEF SelectDue
    <3> QED
      BY <1>5, <2>1, <2>3, <3>1
  <2>6. CASE RetryDelivery(w, e)
    <3>1. manual'[e] = manual[e] + 1
      BY <1>1, <2>6 DEF RetryDelivery
    <3> QED
      BY <1>5, <2>1, <2>3, <3>1
  <2> QED
    BY <2>4, <2>5, <2>6
<1>8. FromDispatch' /\ OneCarrier' /\ Counted'
  BY <1>2, <1>3, <1>4, <1>5, <1>7, TakenUp
<1>9. HookTypeOK'
  <2>1. carrier' = [carrier EXCEPT ![w] = [pc |-> "count", post |-> e, attempts |-> row[e].attempts, tries |-> 0]]
    BY <1>2 DEF TakeUp
  <2>2. [pc |-> "count", post |-> e, attempts |-> row[e].attempts, tries |-> 0] \in CarrierRecord
    BY <1>1 DEF CarrierRecord, Pc, RowRecord
  <2>3. carrier' \in [Carriers -> CarrierRecord]
    BY <1>1, <2>1, <2>2
  <2>4. row' \in [Posts -> RowRecord] /\ \A d \in Posts : row'[d].due => row'[d].status = "retrying"
    BY <1>3 DEF OneRow, HookTypeOK
  <2> QED
    BY <1>2, <1>4, <1>6, <2>3, <2>4 DEF HookTypeOK, RowRecord, CarrierRecord, Pc
<1> QED
  BY <1>8, <1>9

(***************************************************************************)
(* A step of one carrier that leaves the rows alone and does not leave its *)
(* delivery.                                                               *)
(***************************************************************************)
LEMMA AskedOn ==
    ASSUME HookInv, WebhooksAssumption, NEW w \in Carriers, NEW label \in Pc \ {"idle", "count"},
           ~ WAt(w, "idle"), NEW n \in 0..1,
           carrier' = [carrier EXCEPT ![w].pc = label, ![w].tries = n] \/ WGoto(w, label),
           UNCHANGED <<row, manual, doubled, dropped>>
    PROVE  FromDispatch' /\ OneCarrier' /\ Counted' /\ carrier' \in [Carriers -> CarrierRecord]
<1> DEFINE e == carrier[w].post
<1>1. /\ carrier \in [Carriers -> CarrierRecord] /\ row \in [Posts -> RowRecord]
      /\ carrier[w] \in CarrierRecord
  BY DEF HookInv, HookTypeOK, RowRecord, CarrierRecord, Pc
<1>2. e \in Posts /\ Has(w, e)
  BY <1>1 DEF CarrierRecord, Has
<1>3. /\ carrier' \in [Carriers -> CarrierRecord]
      /\ \A x \in Carriers \ {w} : carrier'[x] = carrier[x]
      /\ carrier'[w].pc = label /\ carrier'[w].post = e /\ carrier'[w].attempts = carrier[w].attempts
  BY <1>1 DEF CarrierRecord, WGoto, Pc
<1>4. OneRow(e) /\ OneMoves(w) /\ row' = row
  BY <1>1, <1>3 DEF OneRow, OneMoves
<1>5. ~ WAt(w, "count")' /\ ~ WAt(w, "idle")'
  BY <1>3 DEF WAt
<1>6. row[e].status # "none"
  BY <1>2 DEF HookInv, FromDispatch
<1> HIDE DEF e
<1> QED
  BY <1>2, <1>3, <1>4, <1>5, <1>6, CarriedOn

LEMMA VacantIsFree ==
    ASSUME NEW w, carrier[w] \in CarrierRecord
    PROVE  Vacant(w) \in CarrierRecord /\ Vacant(w).pc = "idle" /\ Vacant(w).post = carrier[w].post
<1>1. PICK c \in CarrierRecord : c = carrier[w]
  OBVIOUS
<1>2. Vacant(w) = [c EXCEPT !.pc = "idle", !.attempts = 0, !.tries = 0]
  BY <1>1 DEF Vacant
<1>3. 0 \in 0..1 /\ "idle" \in Pc
  BY DEF Pc
<1>4. /\ [c EXCEPT !.pc = "idle", !.attempts = 0, !.tries = 0].pc = "idle"
      /\ [c EXCEPT !.pc = "idle", !.attempts = 0, !.tries = 0].post = c.post
      /\ [c EXCEPT !.pc = "idle", !.attempts = 0, !.tries = 0] \in CarrierRecord
  BY <1>3 DEF CarrierRecord
<1> QED
  BY <1>1, <1>2, <1>4

(***************************************************************************)
(* A carrier leaves its delivery, with the status to find it by.           *)
(***************************************************************************)
LEMMA LeftAlone ==
    ASSUME HookInv, WebhooksAssumption, NEW w \in Carriers, ~ WAt(w, "idle"),
           NEW s \in {"retrying", "delivered", "failed"},
           s = "retrying" => carrier[w].attempts < Attempts,
           row' = [row EXCEPT ![carrier[w].post].status = s, ![carrier[w].post].due = FALSE],
           carrier' = [carrier EXCEPT ![w] = Vacant(w)],
           UNCHANGED <<active, state, failures, cooled, manual, doubled, dropped>>,
           posted' \in [Posts -> Nat]
    PROVE  HookInv'
<1> DEFINE e == carrier[w].post
<1>1. /\ carrier \in [Carriers -> CarrierRecord] /\ row \in [Posts -> RowRecord]
      /\ carrier[w] \in CarrierRecord
  BY DEF HookInv, HookTypeOK, RowRecord, CarrierRecord, Pc
<1>2. e \in Posts /\ Has(w, e)
  BY <1>1 DEF CarrierRecord, Has
<1>3. Vacant(w) \in CarrierRecord /\ Vacant(w).pc = "idle" /\ Vacant(w).post = e
  BY <1>1, VacantIsFree
<1>4. /\ carrier' \in [Carriers -> CarrierRecord]
      /\ \A x \in Carriers \ {w} : carrier'[x] = carrier[x]
      /\ carrier'[w].pc = "idle" /\ carrier'[w].post = e
  BY <1>1, <1>3
<1>5. /\ OneRow(e) /\ row'[e].status = s /\ row'[e].attempts = row[e].attempts /\ row'[e].due = FALSE
  BY <1>1, <1>2 DEF OneRow, RowRecord, HookStatus
<1>6. OneMoves(w) /\ ~ WAt(w, "count")' /\ WAt(w, "idle")' /\ row'[e].status # "none"
  BY <1>4, <1>5 DEF OneMoves, WAt
<1> HIDE DEF e
<1>7. FromDispatch' /\ OneCarrier' /\ Counted'
  BY <1>2, <1>4, <1>5, <1>6, CarriedOn
<1>8. HookTypeOK'
  <2>1. \A d \in Posts : row'[d].due => row'[d].status = "retrying"
    BY <1>5 DEF HookInv, HookTypeOK, OneRow
  <2> QED
    BY <1>4, <1>5, <2>1 DEF HookInv, HookTypeOK, RowRecord, CarrierRecord, Pc, OneRow
<1> QED
  BY <1>7, <1>8 DEF HookInv

LEMMA DeliverSafe ==
    ASSUME HookInv, WebhooksAssumption, NEW w \in Carriers, Deliver(w), posted' \in [Posts -> Nat]
    PROVE  HookInv'
<1>1. /\ carrier \in [Carriers -> CarrierRecord] /\ row \in [Posts -> RowRecord]
      /\ carrier[w] \in CarrierRecord /\ failures \in Nat /\ MaxRetries \in Nat
      /\ state \in {"closed", "open", "half_open"} /\ cooled \in BOOLEAN
  BY DEF HookInv, HookTypeOK, RowRecord, CarrierRecord, Pc, WebhooksAssumption
<1>2. CASE FailInactive(w)
  <2>1. ~ WAt(w, "idle")
    BY <1>2 DEF FailInactive, WAt
  <2> QED
    BY <1>2, <2>1, LeftAlone DEF FailInactive
<1>3. CASE CountAttempt(w)
  <2> DEFINE e == carrier[w].post
             n == carrier[w].attempts + 1
  <2>1. /\ WAt(w, "count") /\ row' = [row EXCEPT ![e].attempts = n]
        /\ carrier' = [carrier EXCEPT ![w].pc = "ask", ![w].attempts = n]
        /\ UNCHANGED <<active, state, failures, cooled, manual, doubled, dropped>>
    BY <1>3 DEF CountAttempt
  <2>2. e \in Posts /\ Has(w, e) /\ n \in Nat
    BY <1>1, <2>1 DEF CarrierRecord, Has, WAt
  <2> HIDE DEF e, n
  <2>3. /\ OneRow(e) /\ row'[e].attempts = n
        /\ row'[e].status = row[e].status /\ row'[e].due = row[e].due
    BY <1>1, <2>1, <2>2 DEF OneRow, RowRecord
  <2>4. OneMoves(w) /\ carrier'[w].post = e /\ carrier'[w].attempts = n /\ carrier'[w].pc = "ask"
    BY <1>1, <2>1, <2>2 DEF OneMoves, CarrierRecord, Pc, e
  <2>5. ~ WAt(w, "count")' /\ ~ WAt(w, "idle")'
    BY <2>4 DEF WAt
  <2>6. row'[e].status # "none"
    BY <2>2, <2>3 DEF HookInv, FromDispatch
  <2>7. FromDispatch' /\ OneCarrier' /\ Counted'
    BY <2>1, <2>2, <2>3, <2>4, <2>5, <2>6, CarriedOn DEF n
  <2>8. \A d \in Posts : row'[d].due => row'[d].status = "retrying"
    BY <2>3 DEF HookInv, HookTypeOK, OneRow
  <2>9. HookTypeOK'
    BY <2>1, <2>3, <2>4, <2>8 DEF HookInv, HookTypeOK, RowRecord, CarrierRecord, Pc, OneRow, OneMoves
  <2> QED
    BY <2>7, <2>9 DEF HookInv
<1>4. CASE AllowRequest(w) \/ Answer(w) \/ RecordSuccess(w) \/ RecordFailure(w)
  <2>1. ~ WAt(w, "idle") /\ UNCHANGED <<row, active, manual, doubled, dropped>>
    BY <1>4 DEF AllowRequest, Answer, RecordSuccess, RecordFailure, WAt
  <2>2. /\ state' \in {"closed", "open", "half_open"} /\ failures' \in Nat /\ cooled' \in BOOLEAN
    <3>1. CASE AllowRequest(w)
      BY <1>1, <3>1 DEF AllowRequest
    <3>2. CASE Answer(w)
      BY <1>1, <3>2 DEF Answer
    <3>3. CASE RecordSuccess(w)
      BY <1>1, <3>3 DEF RecordSuccess
    <3>4. CASE RecordFailure(w)
      <4>1. failures' = failures + 1 /\ cooled' = FALSE /\ (state' = "open" \/ state' = state)
        <5>1. state' = IF failures' >= Threshold THEN "open" ELSE state
          BY <3>4 DEF RecordFailure
        <5>2. failures' = failures + 1 /\ cooled' = FALSE
          BY <3>4 DEF RecordFailure
        <5> QED
          BY <5>1, <5>2, Zenon
      <4>2. failures' \in Nat
        BY <1>1, <4>1
      <4>3. state' \in {"closed", "open", "half_open"}
        BY <1>1, <4>1, Zenon
      <4> QED
        BY <4>1, <4>2, <4>3
    <3> QED
      BY <1>4, <3>1, <3>2, <3>3, <3>4
  <2>3. \/ \E label \in Pc \ {"idle", "count"} : WGoto(w, label)
        \/ carrier' = [carrier EXCEPT ![w].pc = "ask", ![w].tries = 1]
    <3>1. {"bad", "post", "good", "gone", "save", "retry", "close"} \subseteq Pc \ {"idle", "count"}
      BY DEF Pc
    <3>2. CASE AllowRequest(w)
      BY <3>1, <3>2 DEF AllowRequest
    <3>3. CASE Answer(w)
      BY <3>1, <3>3 DEF Answer
    <3>4. CASE RecordSuccess(w)
      BY <3>1, <3>4 DEF RecordSuccess
    <3>5. CASE RecordFailure(w)
      BY <3>1, <3>5 DEF RecordFailure
    <3> QED
      BY <1>4, <3>2, <3>3, <3>4, <3>5
  <2>4. FromDispatch' /\ OneCarrier' /\ Counted' /\ carrier' \in [Carriers -> CarrierRecord]
    <3>1. "ask" \in Pc \ {"idle", "count"} /\ 0 \in 0..1 /\ 1 \in 0..1
      BY DEF Pc
    <3>2. CASE carrier' = [carrier EXCEPT ![w].pc = "ask", ![w].tries = 1]
      BY <2>1, <3>1, <3>2, AskedOn
    <3>3. ASSUME NEW label \in Pc \ {"idle", "count"}, WGoto(w, label)
          PROVE  FromDispatch' /\ OneCarrier' /\ Counted' /\ carrier' \in [Carriers -> CarrierRecord]
      BY <2>1, <3>1, <3>3, AskedOn
    <3> QED
      BY <2>3, <3>2, <3>3
  <2> QED
    BY <2>1, <2>2, <2>4 DEF HookInv, HookTypeOK, CarrierRecord, Pc
<1>5. CASE Save(w)
  <2>1. ~ WAt(w, "idle")
    BY <1>5 DEF Save, WAt
  <2> QED
    BY <1>5, <2>1, LeftAlone DEF Save
<1>6. CASE ScheduleRetry(w)
  <2> DEFINE again == WAt(w, "retry") /\ carrier[w].attempts < MaxRetries
             s == IF again THEN "retrying" ELSE "failed"
  <2>1. /\ row' = [row EXCEPT ![carrier[w].post].status = s, ![carrier[w].post].due = FALSE]
        /\ carrier' = [carrier EXCEPT ![w] = Vacant(w)]
        /\ UNCHANGED <<active, state, failures, cooled, manual, doubled, dropped>>
        /\ ~ WAt(w, "idle")
    BY <1>6 DEF ScheduleRetry, WAt
  <2>2. s \in {"retrying", "delivered", "failed"} /\ (s = "retrying" => carrier[w].attempts < Attempts)
    BY <1>1 DEF Attempts, CarrierRecord
  <2> HIDE DEF s
  <2> QED
    BY <2>1, <2>2, LeftAlone
<1> QED
  BY <1>2, <1>3, <1>4, <1>5, <1>6 DEF Deliver

LEMMA DiesSafe ==
    ASSUME HookInv, WebhooksAssumption, NEW w \in Carriers, CarrierDies(w), posted' \in [Posts -> Nat]
    PROVE  HookInv'
<1> DEFINE e == carrier[w].post
<1>1. /\ carrier \in [Carriers -> CarrierRecord] /\ carrier[w] \in CarrierRecord
      /\ dropped \subseteq Posts
  BY DEF HookInv, HookTypeOK, CarrierRecord, Pc
<1>2. /\ ~ WAt(w, "idle") /\ carrier' = [carrier EXCEPT ![w] = Vacant(w)] /\ dropped' = dropped \cup {e}
      /\ UNCHANGED <<row, active, state, failures, cooled, manual, doubled>>
  BY DEF CarrierDies
<1>3. Vacant(w) \in CarrierRecord /\ Vacant(w).pc = "idle" /\ Vacant(w).post = e
  BY <1>1, VacantIsFree
<1>4. /\ carrier' \in [Carriers -> CarrierRecord]
      /\ \A x \in Carriers \ {w} : carrier'[x] = carrier[x]
      /\ carrier'[w].pc = "idle"
  BY <1>1, <1>2, <1>3
<1>5. e \in Posts /\ Has(w, e)
  BY <1>1, <1>2 DEF CarrierRecord, Has
<1> HIDE DEF e
<1>6. /\ \A d \in Posts : ~ Has(w, d)' /\ (Has(w, d) => d = e)
      /\ \A x \in Carriers \ {w}, d \in Posts : Has(x, d)' <=> Has(x, d)
      /\ \A x \in Carriers \ {w} : WAt(x, "count")' <=> WAt(x, "count")
  BY <1>4, <1>5 DEF Has, WAt
<1>7. FromDispatch'
  BY <1>2, <1>6 DEF HookInv, FromDispatch
<1>8. OneCarrier'
  BY <1>2, <1>6 DEF HookInv, OneCarrier
<1>9. Counted'
  <2> SUFFICES ASSUME NEW d \in Posts \ (doubled \cup dropped'),
                      \A x \in Carriers : Has(x, d)' => Has(x, d) /\ carrier'[x] = carrier[x]
                                                        /\ (WAt(x, "count")' => WAt(x, "count")),
                      (\A x \in Carriers : ~ Has(x, d)') => \A x \in Carriers : ~ Has(x, d)
               PROVE  /\ row[d].attempts <= Attempts + manual[d]
                      /\ \A x \in Carriers :
                            Has(x, d)' =>
                              /\ carrier'[x].attempts = row[d].attempts
                              /\ WAt(x, "count")' => row[d].attempts < Attempts + manual[d]
                      /\ row[d].status = "retrying" /\ (\A x \in Carriers : ~ Has(x, d)')
                            => row[d].attempts < Attempts
    BY <1>2, <1>4, <1>6 DEF Counted
  <2>1. d \in Posts \ (doubled \cup dropped)
    BY <1>2
  <2> QED
    BY <2>1 DEF HookInv, Counted
<1>10. HookTypeOK'
  BY <1>1, <1>2, <1>4, <1>5 DEF HookInv, HookTypeOK, CarrierRecord, Pc
<1> QED
  BY <1>7, <1>8, <1>9, <1>10 DEF HookInv

(***************************************************************************)
(* The breaker's time and the endpoint's owner do not touch a delivery;    *)
(* the time of a retry comes.                                              *)
(***************************************************************************)
LEMMA OutsideSafe ==
    ASSUME HookInv, (\E d \in Posts : RetryDue(d)) \/ Deactivate \/ RecoveryTimeout \/ UNCHANGED hookVars,
           posted' \in [Posts -> Nat]
    PROVE  HookInv'
<1>1. /\ row \in [Posts -> RowRecord] /\ HookTypeOK
  BY DEF HookInv, HookTypeOK, RowRecord
<1>2. UNCHANGED <<carrier, manual, doubled, dropped>>
  BY Zenon DEF RetryDue, Deactivate, RecoveryTimeout, hookVars
<1>3. /\ row' \in [Posts -> RowRecord]
      /\ \A d \in Posts : /\ row'[d].status = row[d].status /\ row'[d].attempts = row[d].attempts
                          /\ row'[d].due => row'[d].status = "retrying"
  <2>1. CASE UNCHANGED row
    BY <1>1, <2>1 DEF HookTypeOK
  <2>2. ASSUME NEW e \in Posts, RetryDue(e)
        PROVE  /\ row' \in [Posts -> RowRecord]
               /\ \A d \in Posts : /\ row'[d].status = row[d].status /\ row'[d].attempts = row[d].attempts
                                   /\ row'[d].due => row'[d].status = "retrying"
    <3>1. row' = [row EXCEPT ![e].due = TRUE] /\ row[e].status = "retrying"
      BY <2>2 DEF RetryDue
    <3> QED
      BY <1>1, <3>1 DEF RowRecord, HookTypeOK
  <2> QED
    BY <2>1, <2>2, Zenon DEF Deactivate, RecoveryTimeout, hookVars
<1>4. active' \in BOOLEAN /\ state' = state /\ failures' = failures /\ cooled' \in BOOLEAN
  BY <1>1, Zenon DEF HookTypeOK, RetryDue, Deactivate, RecoveryTimeout, hookVars
<1>5. HookTypeOK'
  BY <1>1, <1>2, <1>3, <1>4 DEF HookTypeOK, RowRecord
<1>6. \A w \in Carriers : (\A d \in Posts : Has(w, d)' = Has(w, d)) /\ WAt(w, "count")' = WAt(w, "count")
  BY <1>2 DEF Has, WAt
<1>7. FromDispatch' /\ OneCarrier' /\ Counted'
  BY <1>2, <1>3, <1>6 DEF HookInv, FromDispatch, OneCarrier, Counted
<1> QED
  BY <1>5, <1>7 DEF HookInv

LEMMA HookInitially == WebhooksAssumption /\ HookInit => HookInv
<1> SUFFICES ASSUME WebhooksAssumption, HookInit PROVE HookInv
  OBVIOUS
<1>1. (CHOOSE d \in Posts : TRUE) \in Posts
  BY DEF WebhooksAssumption
<1> DEFINE first == CHOOSE d \in Posts : TRUE
<1> HIDE DEF first
<1>2. first \in Posts /\ carrier \in [Carriers -> [pc: {"idle"}, post: {first}, attempts: {0}, tries: {0}]]
  BY <1>1 DEF HookInit, first
<1>3. carrier \in [Carriers -> CarrierRecord] /\ \A w \in Carriers : carrier[w].pc = "idle"
  BY <1>2 DEF CarrierRecord, Pc
<1>4. row \in [Posts -> RowRecord]
  BY DEF HookInit, RowRecord, HookStatus
<1>5. \A d \in Posts : row[d].status = "none" /\ row[d].attempts = 0 /\ row[d].due = FALSE /\ manual[d] = 0
  BY DEF HookInit
<1>6. /\ active \in BOOLEAN /\ state \in {"closed", "open", "half_open"} /\ failures \in Nat /\ cooled \in BOOLEAN
      /\ manual \in [Posts -> 0..MaxManual] /\ doubled \subseteq Posts /\ dropped \subseteq Posts
      /\ posted \in [Posts -> Nat]
  <2>1. 0 \in 0..MaxManual
    BY DEF WebhooksAssumption
  <2> QED
    BY <2>1 DEF HookInit
<1>7. HookTypeOK
  BY <1>3, <1>4, <1>5, <1>6 DEF HookTypeOK, CarrierRecord, Pc, RowRecord
<1>8. \A w \in Carriers, d \in Posts : ~ Has(w, d)
  BY <1>3 DEF Has, WAt
<1>9. Attempts \in Nat \ {0}
  BY DEF Attempts, WebhooksAssumption
<1> QED
  BY <1>5, <1>7, <1>8, <1>9 DEF HookInv, FromDispatch, OneCarrier, Counted

LEMMA HookStep == WebhooksAssumption /\ HookInv /\ (HookNext \/ UNCHANGED hookVars) => HookInv'
<1>1. HookInv /\ (HookNext \/ UNCHANGED hookVars) => posted' \in [Posts -> Nat]
  BY PostedTyped DEF HookInv
<1> QED
  BY <1>1, DispatchSafe, DeliverSafe, DiesSafe, OutsideSafe DEF HookNext

(***************************************************************************)
(* The endpoint was called at most twice for each attempt that is counted; *)
(* a carrier that is about to ask or to call has calls of its attempt left.*)
(***************************************************************************)
CallsOf(d) ==
    /\ posted[d] <= 2 * row[d].attempts
    /\ \A w \in Carriers :
          Has(w, d) /\ carrier[w].pc \in {"ask", "post"} =>
             posted[d] + 2 - carrier[w].tries <= 2 * row[d].attempts

CallsCounted == \A d \in Posts \ (doubled \cup dropped) : CallsOf(d)

(***************************************************************************)
(* A step that neither counts nor calls, and brings no carrier nearer to   *)
(* the endpoint.                                                           *)
(***************************************************************************)
LEMMA CallsRest ==
    ASSUME NEW d \in Posts, CallsOf(d), posted'[d] = posted[d], row'[d].attempts = row[d].attempts,
           \A x \in Carriers :
              Has(x, d)' /\ carrier'[x].pc \in {"ask", "post"} =>
                /\ Has(x, d) /\ carrier[x].pc \in {"ask", "post"}
                /\ carrier'[x].tries = carrier[x].tries
    PROVE  CallsOf(d)'
  BY DEF CallsOf

LEMMA CallsDelivered ==
    ASSUME HookInv, WebhooksAssumption, NEW w \in Carriers, Deliver(w),
           NEW d \in Posts \ (doubled \cup dropped), CallsOf(d)
    PROVE  CallsOf(d)'
<1> DEFINE e == carrier[w].post
<1>1. /\ carrier \in [Carriers -> CarrierRecord] /\ carrier[w] \in CarrierRecord
      /\ row \in [Posts -> RowRecord] /\ row[d] \in RowRecord /\ posted \in [Posts -> Nat]
  BY DEF HookInv, HookTypeOK, RowRecord, CarrierRecord, Pc
<1>2. e \in Posts /\ row[d].attempts \in Nat /\ posted[d] \in Nat /\ carrier[w].tries \in 0..1
  BY <1>1 DEF CarrierRecord, RowRecord
<1>3. ASSUME NEW c \in CarrierRecord, c.post = e, c.pc \notin {"ask", "post"} \/ (WAt(w, "ask") /\ c.tries = carrier[w].tries),
             carrier' = [carrier EXCEPT ![w] = c], posted' = posted,
             row'[d].attempts = row[d].attempts
      PROVE  CallsOf(d)'
  <2>1. \A x \in Carriers : carrier'[x] = IF x = w THEN c ELSE carrier[x]
    BY <1>1, <1>3
  <2>2. \A x \in Carriers :
           Has(x, d)' /\ carrier'[x].pc \in {"ask", "post"} =>
             /\ Has(x, d) /\ carrier[x].pc \in {"ask", "post"}
             /\ carrier'[x].tries = carrier[x].tries
    BY <1>3, <2>1 DEF Has, WAt
  <2> QED
    BY <1>3, <2>2, CallsRest
<1>4. ASSUME NEW label \in Pc, WGoto(w, label), label \in {"ask", "post"} => WAt(w, "ask"),
             UNCHANGED <<posted, row>>
      PROVE  CallsOf(d)'
  <2>1. [carrier[w] EXCEPT !.pc = label] \in CarrierRecord
    BY <1>1 DEF CarrierRecord
  <2>2. carrier' = [carrier EXCEPT ![w] = [carrier[w] EXCEPT !.pc = label]]
    BY <1>4 DEF WGoto
  <2>3. /\ [carrier[w] EXCEPT !.pc = label].pc = label
        /\ [carrier[w] EXCEPT !.pc = label].post = e
        /\ [carrier[w] EXCEPT !.pc = label].tries = carrier[w].tries
    BY <1>1 DEF CarrierRecord
  <2> QED
    BY <1>3, <1>4, <2>1, <2>2, <2>3
<1>5. CASE FailInactive(w) \/ Save(w) \/ ScheduleRetry(w)
  <2>1. carrier' = [carrier EXCEPT ![w] = Vacant(w)] /\ posted' = posted
    BY <1>5 DEF FailInactive, Save, ScheduleRetry
  <2>2. row'[d].attempts = row[d].attempts
    BY <1>1, <1>5 DEF FailInactive, Save, ScheduleRetry, RowRecord
  <2>3. Vacant(w) \in CarrierRecord /\ Vacant(w).pc = "idle" /\ Vacant(w).post = e
    BY <1>1, VacantIsFree
  <2> QED
    BY <1>3, <2>1, <2>2, <2>3
<1>6. CASE AllowRequest(w) \/ RecordSuccess(w) \/ RecordFailure(w)
  <2>1. UNCHANGED <<posted, row>>
    BY <1>6 DEF AllowRequest, RecordSuccess, RecordFailure
  <2>2. \E label \in Pc : WGoto(w, label) /\ (label \in {"ask", "post"} => WAt(w, "ask"))
    BY <1>6 DEF AllowRequest, RecordSuccess, RecordFailure, Pc
  <2> QED
    BY <1>4, <2>1, <2>2
<1>7. CASE CountAttempt(w)
  <2>1. /\ row' = [row EXCEPT ![e].attempts = carrier[w].attempts + 1] /\ posted' = posted /\ WAt(w, "count")
        /\ carrier' = [carrier EXCEPT ![w].pc = "ask", ![w].attempts = carrier[w].attempts + 1]
    BY <1>7 DEF CountAttempt
  <2>2. \A x \in Carriers \ {w} : carrier'[x] = carrier[x]
    BY <1>1, <2>1
  <2>3. carrier'[w].post = e /\ carrier'[w].tries = carrier[w].tries
    BY <1>1, <2>1 DEF CarrierRecord
  <2>4. CASE d = e
    <3>1. Has(w, d)
      BY <2>1, <2>4 DEF Has, WAt
    <3>2. carrier[w].attempts = row[d].attempts /\ \A x \in Carriers : Has(x, d) => x = w
      BY <3>1 DEF HookInv, Counted, OneCarrier
    <3>3. row'[d].attempts = row[d].attempts + 1
      BY <1>1, <1>2, <2>1, <2>4, <3>2 DEF RowRecord
    <3>4. \A x \in Carriers : Has(x, d)' => carrier'[x].tries = carrier[w].tries
      BY <2>2, <2>3, <3>2 DEF Has, WAt
    <3>5. posted[d] + 2 - carrier[w].tries <= 2 * row'[d].attempts /\ posted[d] <= 2 * row'[d].attempts
      BY <1>2, <3>3 DEF CallsOf
    <3> QED
      BY <2>1, <3>4, <3>5 DEF CallsOf
  <2>5. CASE d # e
    <3>1. row'[d].attempts = row[d].attempts
      BY <1>1, <2>1, <2>5
    <3>2. ~ Has(w, d)'
      BY <2>3, <2>5 DEF Has
    <3> QED
      BY <2>1, <2>2, <3>1, <3>2, CallsRest DEF Has, WAt
  <2> QED
    BY <2>4, <2>5
<1>8. CASE Answer(w)
  <2>1. /\ posted' = IF e \in doubled \cup dropped THEN posted ELSE [posted EXCEPT ![e] = @ + 1]
        /\ UNCHANGED row /\ WAt(w, "post")
    BY <1>8 DEF Answer
  <2>2. \/ \E label \in {"good", "bad", "gone"} : WGoto(w, label)
        \/ carrier[w].tries = 0 /\ carrier' = [carrier EXCEPT ![w].pc = "ask", ![w].tries = 1]
    BY <1>8 DEF Answer
  <2>3. /\ \A x \in Carriers \ {w} : carrier'[x] = carrier[x]
        /\ carrier'[w].post = e
        /\ carrier'[w].pc \notin {"ask", "post"} \/ (carrier[w].tries = 0 /\ carrier'[w].tries = 1)
    BY <1>1, <2>2 DEF WGoto, CarrierRecord
  <2>4. CASE d = e
    <3>1. Has(w, d) /\ carrier[w].pc = "post"
      BY <2>1, <2>4 DEF Has, WAt
    <3>2. posted[d] + 2 - carrier[w].tries <= 2 * row[d].attempts
      BY <3>1 DEF CallsOf
    <3>3. posted'[d] = posted[d] + 1 /\ row'[d].attempts = row[d].attempts
      BY <1>1, <2>1, <2>4
    <3>4. posted'[d] <= 2 * row'[d].attempts
      BY <1>2, <3>2, <3>3
    <3>5. carrier[w].tries = 0 => posted'[d] + 2 - 1 <= 2 * row'[d].attempts
      BY <1>2, <3>2, <3>3
    <3>6. \A x \in Carriers : Has(x, d) => x = w
      BY <3>1 DEF HookInv, OneCarrier
    <3>7. \A x \in Carriers : Has(x, d)' /\ carrier'[x].pc \in {"ask", "post"} =>
             carrier[w].tries = 0 /\ carrier'[x].tries = 1
      BY <2>3, <3>6 DEF Has, WAt
    <3> QED
      BY <3>4, <3>5, <3>7 DEF CallsOf
  <2>5. CASE d # e
    <3>1. posted'[d] = posted[d] /\ row'[d].attempts = row[d].attempts
      BY <1>1, <2>1, <2>5
    <3>2. ~ Has(w, d)'
      BY <2>3, <2>5 DEF Has
    <3> QED
      BY <2>3, <3>1, <3>2, CallsRest DEF Has, WAt
  <2> QED
    BY <2>4, <2>5
<1> QED
  BY <1>5, <1>6, <1>7, <1>8 DEF Deliver

LEMMA CallsStep ==
    ASSUME WebhooksAssumption, HookInv, CallsCounted, HookNext \/ UNCHANGED hookVars
    PROVE  CallsCounted'
<1> SUFFICES ASSUME NEW d \in Posts \ (doubled' \cup dropped') PROVE CallsOf(d)'
  BY DEF CallsCounted
<1>1. /\ carrier \in [Carriers -> CarrierRecord] /\ row \in [Posts -> RowRecord]
      /\ posted \in [Posts -> Nat] /\ doubled \subseteq Posts /\ dropped \subseteq Posts
  BY DEF HookInv, HookTypeOK, RowRecord, CarrierRecord, Pc
<1>2. ASSUME NEW w \in Carriers, NEW e \in Posts,
             DispatchEvent(w, e) \/ SelectDue(w, e) \/ RetryDelivery(w, e)
      PROVE  CallsOf(d)'
  <2>1. TakeUp(w, e) /\ UNCHANGED dropped
    BY <1>2, Zenon DEF DispatchEvent, SelectDue, RetryDelivery
  <2>2. d \notin doubled \cup dropped /\ posted'[d] = posted[d]
    BY <1>1, <2>1 DEF TakeUp
  <2>3. row'[d].attempts = row[d].attempts
    BY <1>1, <1>2 DEF DispatchEvent, SelectDue, RetryDelivery, RowRecord
  <2>4. /\ carrier'[w].pc = "count"
        /\ \A x \in Carriers \ {w} : carrier'[x] = carrier[x]
    BY <1>1, <2>1 DEF TakeUp
  <2>5. CallsOf(d)
    BY <2>2 DEF CallsCounted
  <2> QED
    BY <2>2, <2>3, <2>4, <2>5, CallsRest DEF Has, WAt
<1>3. ASSUME NEW w \in Carriers, Deliver(w) PROVE CallsOf(d)'
  <2>1. UNCHANGED <<doubled, dropped>>
    BY <1>3, Zenon DEF Deliver, FailInactive, CountAttempt, AllowRequest, Answer, RecordSuccess, RecordFailure,
       Save, ScheduleRetry
  <2>2. d \in Posts \ (doubled \cup dropped) /\ CallsOf(d)
    BY <2>1 DEF CallsCounted
  <2> QED
    BY <1>3, <2>2, CallsDelivered
<1>4. ASSUME NEW w \in Carriers, CarrierDies(w) PROVE CallsOf(d)'
  <2>1. /\ carrier' = [carrier EXCEPT ![w] = Vacant(w)] /\ UNCHANGED <<row, doubled>>
        /\ dropped' = dropped \cup {carrier[w].post} /\ posted' = [posted EXCEPT ![carrier[w].post] = 0]
    BY <1>4 DEF CarrierDies
  <2>2. d \notin doubled \cup dropped /\ posted'[d] = posted[d]
    BY <1>1, <2>1
  <2>3. carrier[w] \in CarrierRecord
    BY <1>1
  <2>4. carrier'[w].pc = "idle" /\ \A x \in Carriers \ {w} : carrier'[x] = carrier[x]
    BY <1>1, <2>1, <2>3, VacantIsFree
  <2>5. CallsOf(d) /\ row'[d].attempts = row[d].attempts
    BY <2>1, <2>2 DEF CallsCounted
  <2> QED
    BY <2>2, <2>4, <2>5, CallsRest DEF Has, WAt
<1>5. ASSUME (\E e \in Posts : RetryDue(e)) \/ Deactivate \/ RecoveryTimeout \/ UNCHANGED hookVars
      PROVE  CallsOf(d)'
  <2>1. UNCHANGED <<carrier, doubled, dropped, posted>>
    BY <1>5, Zenon DEF RetryDue, Deactivate, RecoveryTimeout, hookVars
  <2>2. row'[d].attempts = row[d].attempts
    <3>1. CASE row' = row
      BY <3>1
    <3>2. ASSUME NEW e \in Posts, RetryDue(e) PROVE row'[d].attempts = row[d].attempts
      BY <1>1, <3>2 DEF RetryDue, RowRecord
    <3> QED
      BY <1>5, <3>1, <3>2, Zenon DEF Deactivate, RecoveryTimeout, hookVars
  <2>3. CallsOf(d)
    BY <2>1 DEF CallsCounted
  <2> QED
    BY <2>1, <2>2, <2>3, CallsRest DEF Has, WAt
<1> QED
  BY <1>2, <1>3, <1>4, <1>5 DEF HookNext

(***************************************************************************)
(* Who writes the status of a delivered row has taken up the row as well   *)
(* as another carrier.                                                     *)
(***************************************************************************)
LEMMA DeliveredOnce ==
    ASSUME HookInv, WebhooksAssumption, HookNext \/ UNCHANGED hookVars,
           NEW d \in Posts, row[d].status = "delivered", row'[d].status # "delivered"
    PROVE  d \in doubled
<1>1. /\ carrier \in [Carriers -> CarrierRecord] /\ row \in [Posts -> RowRecord]
  BY DEF HookInv, HookTypeOK, CarrierRecord, Pc, RowRecord
<1>2. ASSUME NEW w \in Carriers, ~ WAt(w, "idle"),
             \A x \in Posts \ {carrier[w].post} : row'[x] = row[x]
      PROVE  d \in doubled
  <2>1. d = carrier[w].post
    BY <1>2
  <2> QED
    BY <1>2, <2>1 DEF HookInv, OneCarrier, Has
<1>3. ASSUME NEW w \in Carriers, Deliver(w) PROVE d \in doubled
  <2>1. ~ WAt(w, "idle")
    BY <1>3 DEF Deliver, FailInactive, CountAttempt, AllowRequest, Answer, RecordSuccess, RecordFailure,
       Save, ScheduleRetry, WAt
  <2>2. \A x \in Posts \ {carrier[w].post} : row'[x] = row[x]
    BY <1>1, <1>3 DEF Deliver, FailInactive, CountAttempt, AllowRequest, Answer, RecordSuccess, RecordFailure,
       Save, ScheduleRetry
  <2> QED
    BY <1>2, <2>1, <2>2
<1>4. ASSUME NEW w \in Carriers, NEW e \in Posts, DispatchEvent(w, e) PROVE FALSE
  <2>1. row[e].status = "none" /\ row' = [row EXCEPT ![e].status = "pending"]
    BY <1>4 DEF DispatchEvent
  <2> QED
    BY <1>1, <2>1
<1>5. ASSUME NEW e \in Posts, RetryDue(e) PROVE FALSE
  <2>1. row' = [row EXCEPT ![e].due = TRUE]
    BY <1>5 DEF RetryDue
  <2> QED
    BY <1>1, <2>1 DEF RowRecord
<1>6. CASE row' = row
  BY <1>6
<1> QED
  BY <1>3, <1>4, <1>5, <1>6, Zenon DEF HookNext, SelectDue, RetryDelivery, CarrierDies, Deactivate, RecoveryTimeout,
     hookVars

-----------------------------------------------------------------------------
(* Both together *)

DeliveryInv == QueueInv /\ HookInv /\ CallsCounted

LEMMA DeliveryInitially == Init => DeliveryInv
<1>1. HookInit => CallsCounted
  BY DEF HookInit, CallsCounted, CallsOf, Has, WAt
<1> QED
  BY <1>1, QueueInitially, HookInitially, QueueAssumption, WebhooksAssumption DEF Init, DeliveryInv

LEMMA DeliveryStep == DeliveryInv /\ [Next]_all => DeliveryInv'
<1> SUFFICES ASSUME DeliveryInv, [Next]_all PROVE DeliveryInv'
  OBVIOUS
<1>1. (QueueNext \/ UNCHANGED queueVars) /\ (HookNext \/ UNCHANGED hookVars)
  BY Zenon DEF Next, AuditPart, HookPart, all
<1> QED
  BY <1>1, QueueStep, HookStep, CallsStep, QueueAssumption, WebhooksAssumption DEF DeliveryInv

LEMMA DeliveryInvAlways == Spec => []DeliveryInv
  BY DeliveryInitially, DeliveryStep, PTL DEF Spec

(***************************************************************************)
(* The queue, the trail behind it and the webhooks keep their types, for   *)
(* any sizes of queue and batch, any writers, deliveries and carriers.     *)
(***************************************************************************)
THEOREM DeliveryTyped == Spec => []DeliveryTypes
<1>1. DeliveryInv => DeliveryTypes
  BY DEF DeliveryInv, QueueInv, HookInv, DeliveryTypes
<1> QED
  BY <1>1, DeliveryInvAlways, PTL

(***************************************************************************)
(* Until a batch is put back or cut off, events are committed in the order *)
(* of put and once, and a worker that ends leaves nothing behind that was  *)
(* put before the stop.  A delivery that one carrier had at a time, and    *)
(* none died with, is attempted no oftener than configured and asked for,  *)
(* and the endpoint called at most twice for each attempt.                 *)
(***************************************************************************)
THEOREM DeliveryKept == Spec => []DeliverySafe
<1>1. HookInv /\ CallsCounted => CallsBounded
  <2> SUFFICES ASSUME HookInv, CallsCounted, NEW d \in Posts \ (doubled \cup dropped)
               PROVE  /\ row[d].attempts <= Attempts + manual[d]
                      /\ posted[d] <= 2 * (Attempts + manual[d])
    BY DEF CallsBounded, Attempts
  <2>1. row[d].attempts <= Attempts + manual[d]
    BY DEF HookInv, Counted
  <2>2. posted[d] <= 2 * row[d].attempts
    BY DEF CallsCounted, CallsOf
  <2>3. row[d].attempts \in Nat /\ posted[d] \in Nat /\ manual[d] \in Nat /\ Attempts \in Nat
    BY WebhooksAssumption DEF HookInv, HookTypeOK, Attempts, WebhooksAssumption
  <2> QED
    BY <2>1, <2>2, <2>3
<1>2. DeliveryInv => DeliverySafe
  BY <1>1, QueueIsSafe, QueueAssumption DEF DeliveryInv, DeliverySafe
<1> QED
  BY <1>2, DeliveryInvAlways, PTL

(***************************************************************************)
(* What was delivered stays so, unless two carriers had the delivery: no   *)
(* step of deliver_to_endpoint writes another status over it.              *)
(***************************************************************************)
THEOREM DeliveredKept == Spec => DeliveredStays
<1>1. DeliveryInv /\ [Next]_all =>
         [\A d \in Posts : row[d].status = "delivered" /\ row'[d].status # "delivered" => d \in doubled]_hookVars
  <2> SUFFICES ASSUME DeliveryInv, [Next]_all, NEW d \in Posts,
                      row[d].status = "delivered", row'[d].status # "delivered"
               PROVE  d \in doubled
    OBVIOUS
  <2>1. HookNext \/ UNCHANGED hookVars
    BY Zenon DEF Next, AuditPart, HookPart, all
  <2> QED
    BY <2>1, DeliveredOnce, WebhooksAssumption DEF DeliveryInv
<1> QED
  BY <1>1, DeliveryInvAlways, PTL DEF Spec, DeliveredStays

(***************************************************************************)
(* The queue and its worker are writers of the trail like any other: what  *)
(* is proved of the trail holds behind the queue.                          *)
(***************************************************************************)
THEOREM QueueWritesTrail == QueueSpec => TrailSpec
<1>1. QueueInit => TrailInit
  BY DEF QueueInit
<1>2. [QueueNext]_queueVars => [TrailNext]_trail
  BY TrailBelow, QueueAssumption
<1> QED
  BY <1>1, <1>2, PTL DEF QueueSpec, TrailSpec
=============================================================================
