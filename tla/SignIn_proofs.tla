--------------------------- MODULE SignIn_proofs ----------------------------
(***************************************************************************)
(* Proofs about signing in, for every value of the constants: the sliding  *)
(* window of requests, the sessions of a user, the second factor, and the  *)
(* ways into an account.  For each an inductive invariant, whose named     *)
(* parts say what the code relies on, and a lemma per operation.           *)
(***************************************************************************)
EXTENDS RateWindow, Sessions, Mfa, Accounts, FiniteSetTheorems, TLAPS

-----------------------------------------------------------------------------
(* The sliding window *)

(***************************************************************************)
(* The calls that the counter has counted, or that have failed.            *)
(***************************************************************************)
Told == {q \in Checks : check[q].pc \in {"expire", "refused", "alarm", "failed"}}

Refused(q) == check[q].pc \in {"incr", "expire", "refused", "alarm"}

(* The requests sent within the window of q. *)
Near(q) == {r \in Checks \ {q} : check[r].pc # "new" /\ check[r].at > check[q].at - Span}

(* The requests that were admitted within a window's length from t on. *)
Admitted(t) == {q \in Passed : check[q].at \in t..(t + Span - 1)}

RateTypes ==
    /\ now \in Ticks
    /\ times \subseteq Ticks
    /\ check \in [Checks -> [pc: {"new", "sent", "passed", "incr", "expire", "refused", "alarm", "failed"},
                             at: Ticks]]
    /\ count \in Nat
    /\ dies \in Nat \cup {Never}
    /\ muddled \in BOOLEAN
    /\ orphaned \in BOOLEAN

(***************************************************************************)
(* Every member of the sorted set is the time of a request that has been   *)
(* through the pipeline; every admitted request is a member, or a window   *)
(* older than one; and no two of them have one time.                       *)
(***************************************************************************)
TimesAreSent == \A x \in times : \E r \in Checks : check[r].pc \notin {"new", "sent"} /\ check[r].at = x

PassedAreKept ==
    ~ muddled =>
        /\ \A r \in Passed : \E x \in times : check[r].at = x \/ check[r].at <= x - Span
        /\ \A q, r \in Passed : check[q].at = check[r].at => q = r

RateInv ==
    /\ RateTypes
    /\ count <= Cardinality(Told)
    /\ TimesAreSent
    /\ PassedAreKept
    /\ \A t \in Ticks : ~ muddled => Cardinality(Admitted(t)) <= Limit
    /\ \A q \in Checks : Refused(q) => Cardinality(Near(q)) >= Limit
    /\ CounterExpires

(***************************************************************************)
(* A set that another one covers is no larger.                             *)
(***************************************************************************)
LEMMA Covered ==
    ASSUME NEW S, NEW T, IsFiniteSet(T), NEW f, \A s \in S : \E t \in T : f[t] = s
    PROVE  IsFiniteSet(S) /\ Cardinality(S) <= Cardinality(T)
<1> DEFINE g == [s \in S |-> CHOOSE t \in T : f[t] = s]
<1>1. ASSUME NEW s \in S
      PROVE  g[s] \in T /\ f[g[s]] = s
  <2>1. \E t \in T : f[t] = s
    OBVIOUS
  <2>2. g[s] = CHOOSE t \in T : f[t] = s
    OBVIOUS
  <2>3. QED
    BY <2>1, <2>2
<1>2. g \in [S -> T]
  BY <1>1
<1>3. \A a, b \in S : a # b => g[a] # g[b]
  BY <1>1
<1> HIDE DEF g
<1>4. g \in Injection(S, T)
  BY <1>2, <1>3 DEF Injection, IsInjective
<1>5. QED
  BY <1>4, FS_Injection

(***************************************************************************)
(* A set that maps into another one, no two members to one, is no larger.  *)
(***************************************************************************)
LEMMA Spread ==
    ASSUME NEW S, NEW T, IsFiniteSet(T), NEW f, \A s \in S : f[s] \in T,
           \A a, b \in S : f[a] = f[b] => a = b
    PROVE  IsFiniteSet(S) /\ Cardinality(S) <= Cardinality(T)
<1> DEFINE g == [s \in S |-> f[s]]
<1>1. g \in [S -> T]
  OBVIOUS
<1>2. \A a, b \in S : a # b => g[a] # g[b]
  OBVIOUS
<1> HIDE DEF g
<1>3. g \in Injection(S, T)
  BY <1>1, <1>2 DEF Injection, IsInjective
<1>4. QED
  BY <1>3, FS_Injection

LEMMA RateTypesInit == RateInit => RateTypes
<1> SUFFICES ASSUME RateInit PROVE RateTypes
  OBVIOUS
<1>1. now \in Ticks /\ 0 \in Ticks
  BY RateAssumption DEF RateInit, Ticks
<1>2. QED
  BY <1>1 DEF RateInit, RateTypes

LEMMA RateTypesNext == RateTypes /\ [RateNext]_rateVars => RateTypes'
<1> SUFFICES ASSUME RateTypes, [RateNext]_rateVars
             PROVE  RateTypes'
  OBVIOUS
<1> USE DEF RateTypes
<1>1. CASE Tick
  BY <1>1, RateAssumption DEF Tick, Ticks
<1>2. ASSUME NEW q \in Checks, RateStep(q)
      PROVE  RateTypes'
  <2>1. CASE Send(q)
    BY <2>1 DEF Send
  <2>2. CASE Pipeline(q)
    <3>1. times' \subseteq Ticks
      BY <2>2 DEF Pipeline, Kept, Ticks
    <3>2. QED
      BY <2>2, <3>1 DEF Pipeline
  <2>3. CASE Increment(q)
    <3>1. count' \in Nat
      BY <2>3 DEF Increment
    <3>2. check' \in [Checks -> [pc: {"new", "sent", "passed", "incr", "expire", "refused", "alarm", "failed"},
                                 at: Ticks]]
      BY <2>3 DEF Increment
    <3>3. QED
      BY <2>3, <3>1, <3>2 DEF Increment
  <2>4. CASE Expire(q)
    <3>1. dies' \in Nat \cup {Never}
      BY <2>4, RateAssumption DEF Expire, Ticks
    <3>2. QED
      BY <2>4, <3>1 DEF Expire
  <2>5. CASE RateFails(q)
    BY <2>5 DEF RateFails
  <2>6. QED
    BY <1>2, <2>1, <2>2, <2>3, <2>4, <2>5 DEF RateStep
<1>3. CASE UNCHANGED rateVars
  BY <1>3 DEF rateVars
<1>4. QED
  BY <1>1, <1>2, <1>3 DEF RateNext

(***************************************************************************)
(* What a step does to a request, in the terms of the invariant.           *)
(***************************************************************************)
RateGoes(q, to) ==
    /\ check'[q].pc = to
    /\ check'[q].at = check[q].at
    /\ \A r \in Checks \ {q} : check'[r] = check[r]

(***************************************************************************)
(* A set of calls that gains at most one member grows by one at most.      *)
(***************************************************************************)
LEMMA OneMore ==
    ASSUME NEW S, NEW T, NEW q, IsFiniteSet(S), T \subseteq S \cup {q}
    PROVE  /\ IsFiniteSet(T)
           /\ Cardinality(T) <= Cardinality(S) + 1
<1>1. IsFiniteSet(S \cup {q}) /\ Cardinality(S \cup {q}) <= Cardinality(S) + 1
  <2>1. Cardinality(S) \in Nat
    BY FS_CardinalityType
  <2>2. /\ IsFiniteSet(S \cup {q})
        /\ Cardinality(S \cup {q}) = IF q \in S THEN Cardinality(S) ELSE Cardinality(S) + 1
    BY FS_AddElement
  <2>3. QED
    BY <2>1, <2>2
<1>2. IsFiniteSet(T) /\ Cardinality(T) <= Cardinality(S \cup {q})
  BY <1>1, FS_Subset
<1>3. Cardinality(T) \in Nat /\ Cardinality(S \cup {q}) \in Nat /\ Cardinality(S) \in Nat
  BY <1>1, <1>2, FS_CardinalityType
<1>4. QED
  BY <1>1, <1>2, <1>3

LEMMA Finitely ==
    /\ \A S : S \subseteq Checks => IsFiniteSet(S) /\ Cardinality(S) \in Nat
    /\ \A S, T : S \subseteq T /\ T \subseteq Checks => Cardinality(S) <= Cardinality(T)
<1>1. ASSUME NEW S, S \subseteq Checks
      PROVE  IsFiniteSet(S) /\ Cardinality(S) \in Nat
  BY <1>1, RateAssumption, FS_Subset, FS_CardinalityType
<1>2. ASSUME NEW S, NEW T, S \subseteq T, T \subseteq Checks
      PROVE  Cardinality(S) <= Cardinality(T)
  <2>1. IsFiniteSet(T)
    BY <1>1, <1>2
  <2>2. QED
    BY <2>1, <1>2, FS_Subset
<1>3. QED
  BY <1>1, <1>2

(***************************************************************************)
(* A step that takes nothing out of the sorted set, sends nothing back and *)
(* admits nobody leaves what was said of times and windows as it was.      *)
(***************************************************************************)
LEMMA KeepWindows ==
    ASSUME RateInv, NEW q \in Checks,
           times' = times, muddled' = muddled,
           \A r \in Checks : r # q => check'[r] = check[r],
           check[q].pc # "passed", check'[q].pc # "passed",
           check[q].pc \notin {"new", "sent"} =>
               check'[q].pc \notin {"new", "sent"} /\ check'[q].at = check[q].at
    PROVE  /\ TimesAreSent'
           /\ PassedAreKept'
           /\ \A t \in Ticks : ~ muddled' => Cardinality(Admitted(t))' <= Limit
<1>1. Passed' = Passed /\ \A r \in Passed : check'[r] = check[r]
  BY DEF Passed
<1>2. \A t \in Ticks : Admitted(t)' = Admitted(t)
  BY <1>1 DEF Admitted
<1>3. \A t \in Ticks : ~ muddled' => Cardinality(Admitted(t))' <= Limit
  BY <1>2 DEF RateInv
<1>4. PassedAreKept'
  BY <1>1 DEF RateInv, PassedAreKept
<1>5. ASSUME NEW x \in times
      PROVE  \E r \in Checks : check'[r].pc \notin {"new", "sent"} /\ check'[r].at = x
  <2>1. PICK r \in Checks : check[r].pc \notin {"new", "sent"} /\ check[r].at = x
    BY <1>5 DEF RateInv, TimesAreSent
  <2>2. CASE r = q
    BY <2>1, <2>2
  <2>3. CASE r # q
    BY <2>1, <2>3
  <2>4. QED
    BY <2>2, <2>3
<1>6. TimesAreSent'
  BY <1>5 DEF TimesAreSent
<1>7. QED
  BY <1>3, <1>4, <1>6

(***************************************************************************)
(* Once sent, a request keeps its time: the refused ones keep the others   *)
(* that were sent within their window.                                     *)
(***************************************************************************)
LEMMA KeepRefused ==
    ASSUME RateInv, NEW q \in Checks,
           \A r \in Checks : r # q => check'[r] = check[r],
           check[q].pc # "new" => check'[q].pc # "new" /\ check'[q].at = check[q].at,
           check'[q].pc \in {"incr", "expire", "refused", "alarm"} => Refused(q)
    PROVE  \A r \in Checks : Refused(r)' => Cardinality(Near(r))' >= Limit
<1> SUFFICES ASSUME NEW r \in Checks, Refused(r)'
             PROVE  Cardinality(Near(r))' >= Limit
  OBVIOUS
<1>1. Refused(r) /\ check[r].pc # "new"
  BY DEF Refused
<1>2. check'[r].at = check[r].at
  BY <1>1
<1>3. Near(r) \subseteq Near(r)'
  BY <1>2 DEF Near
<1>4. Near(r) \subseteq Checks /\ Near(r)' \subseteq Checks
  BY DEF Near
<1>5. Cardinality(Near(r)) <= Cardinality(Near(r)') /\ Cardinality(Near(r)) \in Nat
      /\ Cardinality(Near(r)') \in Nat
  BY <1>3, <1>4, Finitely
<1>6. Cardinality(Near(r)) >= Limit
  BY <1>1 DEF RateInv
<1>7. QED
  BY <1>5, <1>6, RateAssumption

LEMMA SendKeeps ==
    ASSUME RateInv, NEW q \in Checks, Send(q), RateTypes'
    PROVE  RateInv'
<1>1. /\ check[q].pc = "new" /\ check'[q].pc = "sent"
      /\ \A r \in Checks : r # q => check'[r] = check[r]
      /\ times' = times /\ muddled' = muddled /\ count' = count /\ dies' = dies
      /\ orphaned' = orphaned
  BY DEF Send, RateInv, RateTypes
<1>2. Told' = Told
  BY <1>1 DEF Told
<1>3. (count <= Cardinality(Told))'
  BY <1>1, <1>2 DEF RateInv
<1>4. CounterExpires'
  BY <1>1 DEF RateInv, CounterExpires
<1>5. \A r \in Checks : Refused(r)' => Cardinality(Near(r))' >= Limit
  BY <1>1, KeepRefused
<1>6. QED
  BY <1>1, <1>3, <1>4, <1>5, KeepWindows DEF RateInv

LEMMA IncrementKeeps ==
    ASSUME RateInv, NEW q \in Checks, Increment(q), RateTypes'
    PROVE  RateInv'
<1>1. /\ check[q].pc = "incr" /\ check'[q].pc \in {"expire", "alarm", "refused"}
      /\ count' = 1 => check'[q].pc = "expire"
      /\ check'[q].at = check[q].at
      /\ \A r \in Checks : r # q => check'[r] = check[r]
      /\ times' = times /\ muddled' = muddled /\ count' = count + 1 /\ dies' = dies
      /\ orphaned' = orphaned
  BY DEF Increment, RateInv, RateTypes
<1>2. q \notin Told /\ Told' = Told \cup {q} /\ Told \subseteq Checks /\ Told' \subseteq Checks
  BY <1>1 DEF Told
<1>3. Cardinality(Told') = Cardinality(Told) + 1
  <2>1. IsFiniteSet(Told)
    BY <1>2, Finitely
  <2>2. QED
    BY <2>1, <1>2, FS_AddElement
<1>4. (count <= Cardinality(Told))'
  BY <1>1, <1>2, <1>3, Finitely DEF RateInv, RateTypes
<1>5. CounterExpires'
  BY <1>1 DEF RateInv, RateTypes, CounterExpires
<1>6. Refused(q)
  BY <1>1 DEF Refused
<1>7. \A r \in Checks : Refused(r)' => Cardinality(Near(r))' >= Limit
  BY <1>1, <1>6, KeepRefused
<1>8. QED
  BY <1>1, <1>4, <1>5, <1>7, KeepWindows DEF RateInv

LEMMA ExpireKeeps ==
    ASSUME RateInv, NEW q \in Checks, Expire(q), RateTypes'
    PROVE  RateInv'
<1>1. /\ check[q].pc = "expire" /\ check'[q].pc \in {"alarm", "refused"}
      /\ check'[q].at = check[q].at
      /\ \A r \in Checks : r # q => check'[r] = check[r]
      /\ times' = times /\ muddled' = muddled /\ count' = count
      /\ dies' = IF count > 0 THEN now + AbuseSpan ELSE dies
      /\ orphaned' = orphaned
  BY DEF Expire, RateInv, RateTypes
<1>2. Told' = Told
  BY <1>1 DEF Told
<1>3. (count <= Cardinality(Told))'
  BY <1>1, <1>2 DEF RateInv
<1>4. count' > 0 => dies' # Never
  BY <1>1, RateAssumption DEF RateInv, RateTypes, Ticks, Never
<1>5. CounterExpires'
  BY <1>4 DEF CounterExpires
<1>6. Refused(q)
  BY <1>1 DEF Refused
<1>7. \A r \in Checks : Refused(r)' => Cardinality(Near(r))' >= Limit
  BY <1>1, <1>6, KeepRefused
<1>8. QED
  BY <1>1, <1>3, <1>5, <1>7, KeepWindows DEF RateInv

LEMMA RateFailsKeeps ==
    ASSUME RateInv, NEW q \in Checks, RateFails(q), RateTypes'
    PROVE  RateInv'
<1>1. /\ check[q].pc \in {"sent", "incr", "expire"} /\ check'[q].pc = "failed"
      /\ check'[q].at = check[q].at
      /\ \A r \in Checks : r # q => check'[r] = check[r]
      /\ times' = times /\ muddled' = muddled /\ count' = count /\ dies' = dies
      /\ orphaned' = (orphaned \/ check[q].pc = "expire")
  BY DEF RateFails, RateInv, RateTypes
<1>2. Told \subseteq Told' /\ Told' \subseteq Checks /\ Told \subseteq Checks
  BY <1>1 DEF Told
<1>3. Cardinality(Told) <= Cardinality(Told') /\ Cardinality(Told) \in Nat
      /\ Cardinality(Told') \in Nat
  BY <1>2, Finitely
<1>4. (count <= Cardinality(Told))'
  BY <1>1, <1>3 DEF RateInv, RateTypes
<1>5. CounterExpires'
  BY <1>1 DEF RateInv, CounterExpires
<1>6. \A r \in Checks : Refused(r)' => Cardinality(Near(r))' >= Limit
  BY <1>1, KeepRefused
<1>7. QED
  BY <1>1, <1>4, <1>5, <1>6, KeepWindows DEF RateInv

LEMMA TickKeeps ==
    ASSUME RateInv, Tick, RateTypes'
    PROVE  RateInv'
<1>1. /\ check' = check /\ times' = times /\ muddled' = muddled /\ orphaned' = orphaned
      /\ count' = 0 \/ (count' = count /\ dies' = dies)
      /\ count' <= count
  BY DEF Tick, RateInv, RateTypes
<1>2. Told' = Told /\ Told \subseteq Checks
  BY <1>1 DEF Told
<1>3. (count <= Cardinality(Told))'
  BY <1>1, <1>2, Finitely DEF RateInv, RateTypes
<1>4. CounterExpires'
  BY <1>1 DEF RateInv, CounterExpires
<1>5. Passed' = Passed
  BY <1>1 DEF Passed
<1>6. \A t \in Ticks : Admitted(t)' = Admitted(t)
  BY <1>1, <1>5 DEF Admitted
<1>7. \A q \in Checks : Near(q)' = Near(q) /\ (Refused(q)' <=> Refused(q))
  BY <1>1 DEF Near, Refused
<1>8. PassedAreKept' /\ TimesAreSent'
  BY <1>1, <1>5 DEF RateInv, PassedAreKept, TimesAreSent
<1>9. QED
  BY <1>1, <1>3, <1>4, <1>6, <1>7, <1>8 DEF RateInv

(***************************************************************************)
(* The pipeline runs after whatever has the members: in order if nothing   *)
(* is muddled afterwards.                                                  *)
(***************************************************************************)
LEMMA PipelineWindows ==
    ASSUME RateInv, NEW q \in Checks, Pipeline(q), RateTypes'
    PROVE  /\ TimesAreSent'
           /\ PassedAreKept'
           /\ \A s \in Ticks : ~ muddled' => Cardinality(Admitted(s))' <= Limit
<1> DEFINE t == check[q].at
<1>1. /\ check[q].pc = "sent" /\ check'[q].at = t /\ t \in Ticks
      /\ check'[q].pc = IF Cardinality(Kept(t)) < Limit THEN "passed" ELSE "incr"
      /\ \A r \in Checks : r # q => check'[r] = check[r]
      /\ times' = Kept(t) \cup {t}
      /\ muddled' = (muddled \/ \E x \in times : x >= t)
  BY DEF Pipeline, RateInv, RateTypes
<1> HIDE DEF t
<1>2. /\ times \subseteq Ticks /\ \A r \in Checks : check[r].at \in Ticks
      /\ Span \in Nat \ {0} /\ Limit \in Nat \ {0} /\ \A x \in Ticks : x \in Int
  BY RateAssumption DEF RateInv, RateTypes, Ticks
<1>3. TimesAreSent'
  <2>1. ASSUME NEW x \in times
        PROVE  \E r \in Checks : check'[r].pc \notin {"new", "sent"} /\ check'[r].at = x
    <3>1. PICK r \in Checks : check[r].pc \notin {"new", "sent"} /\ check[r].at = x
      BY <2>1 DEF RateInv, TimesAreSent
    <3>2. QED
      BY <1>1, <3>1
  <2>2. QED
    BY <1>1, <2>1 DEF TimesAreSent, Kept
<1>4. Passed \subseteq Passed' /\ Passed' \subseteq Passed \cup {q} /\ q \notin Passed
      /\ \A r \in Passed : check'[r] = check[r]
  BY <1>1 DEF Passed
<1>5. CASE muddled'
  BY <1>3, <1>5 DEF PassedAreKept
<1>6. CASE ~ muddled'
  <2>1. ~ muddled /\ \A x \in times : x < t
    <3>1. ~ muddled /\ \A x \in times : ~ x >= t
      BY <1>1, <1>6
    <3>2. \A x \in times : x \in Int /\ t \in Int
      BY <1>1, <1>2
    <3>3. QED
      BY <3>1, <3>2
  <2>2. ASSUME NEW r \in Passed
        PROVE  /\ check[r].at < t
               /\ check[r].at > t - Span => check[r].at \in Kept(t)
               /\ \E x \in times' : check'[r].at = x \/ check'[r].at <= x - Span
    <3>1. PICK x \in times : check[r].at = x \/ check[r].at <= x - Span
      BY <2>1 DEF RateInv, PassedAreKept
    <3>2. check[r].at \in Ticks /\ x \in Ticks /\ x < t
      BY <1>2, <2>1, <3>1 DEF Passed
    <3>3. check[r].at < t /\ (check[r].at > t - Span => check[r].at = x)
      BY <1>1, <1>2, <3>1, <3>2
    <3>4. check[r].at > t - Span => check[r].at \in Kept(t)
      BY <3>3 DEF Kept
    <3>5. t \in times' /\ (check[r].at > t - Span => check[r].at \in times')
      BY <1>1, <3>4
    <3>6. ~ check[r].at > t - Span => check[r].at <= t - Span
      <4>1. check[r].at \in Int /\ t \in Int /\ Span \in Int
        BY <1>1, <1>2, <3>2
      <4>2. QED
        BY <4>1
    <3>7. QED
      BY <1>4, <3>3, <3>4, <3>5, <3>6
  <2>3. PassedAreKept'
    <3>1. ASSUME NEW r \in Passed'
          PROVE  \E x \in times' : check'[r].at = x \/ check'[r].at <= x - Span
      <4>1. CASE r = q
        BY <1>1, <4>1
      <4>2. CASE r \in Passed
        BY <2>2, <4>2
      <4>3. QED
        BY <1>4, <3>1, <4>1, <4>2
    <3>2. ASSUME NEW r \in Passed', NEW u \in Passed', check'[r].at = check'[u].at
          PROVE  r = u
      <4>1. CASE r \in Passed /\ u \in Passed
        BY <1>4, <2>1, <3>2, <4>1 DEF RateInv, PassedAreKept
      <4>2. CASE r \in Passed /\ u = q
        BY <1>1, <1>2, <1>4, <2>2, <3>2, <4>2 DEF Passed
      <4>3. CASE r = q /\ u \in Passed
        BY <1>1, <1>2, <1>4, <2>2, <3>2, <4>3 DEF Passed
      <4>4. QED
        BY <1>4, <3>2, <4>1, <4>2, <4>3
    <3>3. QED
      BY <3>1, <3>2 DEF PassedAreKept
  <2>4. ASSUME NEW s \in Ticks
        PROVE  Cardinality(Admitted(s))' <= Limit
    <3>1. /\ Admitted(s) \subseteq Checks /\ Admitted(s)' \subseteq Checks
          /\ Admitted(s)' \subseteq Admitted(s) \cup {q}
      BY <1>4 DEF Admitted, Passed
    <3>2. Cardinality(Admitted(s)) <= Limit
      BY <2>1 DEF RateInv
    <3>3. /\ Cardinality(Admitted(s)) \in Nat /\ Cardinality(Admitted(s)') \in Nat
          /\ IsFiniteSet(Admitted(s))
      BY <3>1, Finitely
    <3>4. CASE q \notin Admitted(s)'
      <4>1. Admitted(s)' \subseteq Admitted(s)
        BY <3>1, <3>4
      <4>2. Cardinality(Admitted(s)') <= Cardinality(Admitted(s))
        BY <3>1, <4>1, Finitely
      <4>3. QED
        BY <1>2, <3>2, <3>3, <4>2
    <3>5. CASE q \in Admitted(s)'
      <4>1. /\ t \in s..(s + Span - 1)
            /\ Cardinality(Kept(t)) < Limit
        BY <1>1, <3>5 DEF Admitted, Passed
      <4>2. ASSUME NEW r \in Admitted(s)
            PROVE  check[r].at \in Kept(t)
        <5>1. r \in Passed /\ check[r].at >= s /\ check[r].at \in Ticks
          BY <1>2, <4>2 DEF Admitted, Passed
        <5>2. check[r].at > t - Span
          <6>1. check[r].at \in Int /\ t \in Int /\ Span \in Int /\ s \in Int
            BY <1>1, <1>2, <5>1
          <6>2. t <= s + Span - 1
            BY <4>1, <6>1
          <6>3. QED
            BY <5>1, <6>1, <6>2
        <5>3. QED
          BY <2>2, <5>1, <5>2
      <4>3. \A r, u \in Admitted(s) : check[r].at = check[u].at => r = u
        BY <2>1 DEF Admitted, RateInv, PassedAreKept
      <4>4. IsFiniteSet(Kept(t)) /\ Cardinality(Kept(t)) \in Nat
        <5>1. IsFiniteSet(Ticks)
          BY RateAssumption, FS_Interval DEF Ticks
        <5>2. Kept(t) \subseteq Ticks
          BY <1>2 DEF Kept
        <5>3. QED
          BY <5>1, <5>2, FS_Subset, FS_CardinalityType
      <4>5. Cardinality(Admitted(s)) <= Cardinality(Kept(t))
        <5> DEFINE f == [r \in Admitted(s) |-> check[r].at]
        <5>1. /\ \A r \in Admitted(s) : f[r] \in Kept(t)
              /\ \A r, u \in Admitted(s) : f[r] = f[u] => r = u
          BY <4>2, <4>3
        <5> HIDE DEF f
        <5>2. QED
          BY <4>4, <5>1, Spread
      <4>6. Cardinality(Admitted(s)') <= Cardinality(Admitted(s)) + 1
        BY <3>1, <3>3, OneMore
      <4>7. QED
        BY <1>2, <3>3, <4>1, <4>4, <4>5, <4>6
    <3>6. QED
      BY <3>4, <3>5
  <2>5. QED
    BY <1>3, <2>3, <2>4
<1>7. QED
  BY <1>5, <1>6

LEMMA PipelineKeeps ==
    ASSUME RateInv, NEW q \in Checks, Pipeline(q), RateTypes'
    PROVE  RateInv'
<1> DEFINE t == check[q].at
<1>1. /\ check[q].pc = "sent" /\ check'[q].at = t
      /\ check'[q].pc = IF Cardinality(Kept(t)) < Limit THEN "passed" ELSE "incr"
      /\ \A r \in Checks : r # q => check'[r] = check[r]
      /\ count' = count /\ dies' = dies /\ orphaned' = orphaned
  BY DEF Pipeline, RateInv, RateTypes
<1> HIDE DEF t
<1>2. Told' = Told
  BY <1>1 DEF Told
<1>3. (count <= Cardinality(Told))'
  BY <1>1, <1>2 DEF RateInv
<1>4. CounterExpires'
  BY <1>1 DEF RateInv, CounterExpires
<1>5. ASSUME NEW r \in Checks, Refused(r)'
      PROVE  Cardinality(Near(r))' >= Limit
  <2>1. Near(r) \subseteq Checks /\ Near(r)' \subseteq Checks
    BY DEF Near
  <2>2. \A u \in Checks : /\ check'[u].at = check[u].at
                          /\ check[u].pc # "new" => check'[u].pc # "new"
    BY <1>1 DEF t
  <2>3. Near(r) \subseteq Near(r)'
    <3>1. check'[r].at = check[r].at
      BY <2>2
    <3>2. ASSUME NEW u \in Near(r)
          PROVE  u \in Near(r)'
      <4>1. u \in Checks \ {r} /\ check[u].pc # "new" /\ check[u].at > check[r].at - Span
        BY <3>2 DEF Near
      <4>2. check'[u].pc # "new" /\ check'[u].at > check'[r].at - Span
        BY <2>2, <3>1, <4>1
      <4>3. QED
        BY <4>1, <4>2 DEF Near
    <3>3. QED
      BY <3>2
  <2>4. Cardinality(Near(r)) <= Cardinality(Near(r)') /\ Cardinality(Near(r)) \in Nat
        /\ Cardinality(Near(r)') \in Nat
    BY <2>1, <2>3, Finitely
  <2>5. CASE r # q
    <3>1. Refused(r)
      BY <1>1, <1>5, <2>5 DEF Refused
    <3>2. Cardinality(Near(r)) >= Limit
      BY <3>1 DEF RateInv
    <3>3. QED
      BY <2>4, <3>2, RateAssumption
  <2>6. CASE r = q
    <3>1. ~ Cardinality(Kept(t)) < Limit
      BY <1>1, <1>5, <2>6 DEF Refused
    <3>2. ASSUME NEW x \in Kept(t)
          PROVE  \E u \in Near(q) : check[u].at = x
      <4>1. x \in times /\ x > t - Span
        BY <3>2 DEF Kept
      <4>2. PICK u \in Checks : check[u].pc \notin {"new", "sent"} /\ check[u].at = x
        BY <4>1 DEF RateInv, TimesAreSent
      <4>3. u \in Near(q)
        BY <1>1, <4>1, <4>2 DEF Near, t
      <4>4. QED
        BY <4>2, <4>3
    <3>3. IsFiniteSet(Kept(t)) /\ Cardinality(Kept(t)) <= Cardinality(Near(q))
      <4> DEFINE f == [u \in Near(q) |-> check[u].at]
      <4>1. \A x \in Kept(t) : \E u \in Near(q) : f[u] = x
        BY <3>2
      <4>2. IsFiniteSet(Near(q))
        BY <2>1, <2>6, Finitely
      <4> HIDE DEF f
      <4>3. QED
        BY <4>1, <4>2, Covered
    <3>4. Cardinality(Kept(t)) \in Nat
      BY <3>3, FS_CardinalityType
    <3>5. QED
      BY <2>4, <2>6, <3>1, <3>3, <3>4, RateAssumption
  <2>7. QED
    BY <2>5, <2>6
<1>6. QED
  BY <1>3, <1>4, <1>5, PipelineWindows DEF RateInv

LEMMA RateInvInit == RateInit => RateInv
<1> SUFFICES ASSUME RateInit PROVE RateInv
  OBVIOUS
<1>1. RateTypes
  BY RateTypesInit
<1>2. \A q \in Checks : check[q].pc = "new"
  BY DEF RateInit
<1>3. times = {} /\ count = 0
  BY DEF RateInit
<1>4. Passed = {}
  BY <1>2 DEF Passed
<1>5. \A t \in Ticks : Admitted(t) = {}
  BY <1>4 DEF Admitted
<1>6. \A t \in Ticks : Cardinality(Admitted(t)) <= Limit
  BY <1>5, FS_EmptySet, RateAssumption
<1>7. Told = {}
  BY <1>2 DEF Told
<1>8. count <= Cardinality(Told)
  BY <1>3, <1>7, FS_EmptySet
<1>9. PassedAreKept /\ TimesAreSent /\ CounterExpires
  BY <1>3, <1>4 DEF PassedAreKept, TimesAreSent, CounterExpires
<1>10. \A q \in Checks : ~ Refused(q)
  BY <1>2 DEF Refused
<1>11. QED
  BY <1>1, <1>6, <1>8, <1>9, <1>10 DEF RateInv

LEMMA RateInvNext == RateInv /\ [RateNext]_rateVars => RateInv'
<1> SUFFICES ASSUME RateInv, [RateNext]_rateVars
             PROVE  RateInv'
  OBVIOUS
<1>1. RateTypes'
  BY RateTypesNext DEF RateInv
<1>2. CASE UNCHANGED rateVars
  <2>1. Passed' = Passed /\ Told' = Told /\ \A q \in Checks : Near(q)' = Near(q) /\ (Refused(q)' <=> Refused(q))
    BY <1>2 DEF rateVars, Passed, Told, Near, Refused
  <2>2. \A t \in Ticks : Admitted(t)' = Admitted(t)
    BY <1>2, <2>1 DEF rateVars, Admitted
  <2>3. PassedAreKept' /\ TimesAreSent' /\ CounterExpires'
    BY <1>2, <2>1 DEF rateVars, RateInv, PassedAreKept, TimesAreSent, CounterExpires
  <2>4. QED
    BY <1>1, <1>2, <2>1, <2>2, <2>3 DEF rateVars, RateInv
<1>3. QED
  BY <1>1, <1>2, TickKeeps, SendKeeps, PipelineKeeps, IncrementKeeps, ExpireKeeps, RateFailsKeeps
     DEF RateNext, RateStep

LEMMA RateInvMeans == RateInv => RateSafe /\ RateTypeOK
<1> SUFFICES ASSUME RateInv PROVE RateSafe /\ RateTypeOK
  OBVIOUS
<1>1. LimitHolds
  BY DEF RateInv, LimitHolds, Admitted
<1>2. QuietClientsPass
  BY DEF RateInv, QuietClientsPass, Near, Refused
<1>3. CounterExpires
  BY DEF RateInv
<1>4. count \in 0..Cardinality(Checks)
  <2>1. Told \subseteq Checks
    BY DEF Told
  <2>2. Cardinality(Told) <= Cardinality(Checks) /\ Cardinality(Told) \in Nat
        /\ Cardinality(Checks) \in Nat
    BY <2>1, Finitely
  <2>3. QED
    BY <2>2 DEF RateInv, RateTypes
<1>5. RateTypeOK
  BY <1>4 DEF RateInv, RateTypes, RateTypeOK
<1>6. QED
  BY <1>1, <1>2, <1>3, <1>5 DEF RateSafe

(***************************************************************************)
(* No stretch of a window's length holds more admitted requests than the   *)
(* limit, unless one overtook another on its way to Redis; a request is    *)
(* refused only if the limit of others was sent within its window; and the *)
(* counter of refusals expires unless a call died between counting and     *)
(* setting the expiry (services/rate_limit/rate_limiter.py,                *)
(* abuse_detector.py).                                                     *)
(***************************************************************************)
THEOREM WindowKept == RateSpec => []RateSafe
<1>1. RateInv => RateSafe
  BY RateInvMeans
<1>2. QED
  BY <1>1, RateInvInit, RateInvNext, PTL DEF RateSpec

-----------------------------------------------------------------------------
(* The second factor *)

MfaTypes ==
    /\ secret \in Enrolments \cup {0}
    /\ enabled \in BOOLEAN /\ stamped \in BOOLEAN /\ crossed \in BOOLEAN
    /\ codes \in [Code -> {"none", "unused", "used"}]
    /\ factor \in [MfaCalls -> [pc : {"new", "code", "passed", "drop", "codes", "stamp", "over"},
                                secret : Enrolments \cup {0}, enabled : BOOLEAN, stamped : BOOLEAN]]
    /\ proof \in [FactorChecks -> {<<s, 0>> : s \in Enrolments \cup {0}} \cup Code]
    /\ taken \in [Code -> Nat]
    /\ asked \subseteq Enrolments
    /\ twin \subseteq Code

(* Who stands where. *)
Places ==
    /\ \A c \in MfaCalls : factor[c].pc = "drop" => c \in Removals
    /\ \A c \in MfaCalls : factor[c].pc = "code" => c \in FactorChecks /\ proof[c] \in Code
    /\ \A c \in MfaCalls : factor[c].pc = "codes" => c \in Enrolments \cup Renewals
    /\ \A c \in MfaCalls : factor[c].pc = "passed" => c \in Confirmations \cup FactorChecks
    /\ \A c \in MfaCalls : factor[c].pc = "stamp" => c \in Confirmations
    /\ \A c \in Confirmations : factor[c].pc = "passed" => factor[c].secret # 0
    /\ \A c \in asked : factor[c].pc # "new"
    /\ secret # 0 => factor[secret].pc # "new"

InHand(c, k) == factor[c].pc = "code" /\ proof[c] = k

(***************************************************************************)
(* A code comes from one call, is not there before, and not unused again;  *)
(* while one call has it in hand nobody has had it.                        *)
(***************************************************************************)
CodesAreOnce ==
    /\ \A k \in Code :
           /\ factor[k[1]].pc # "over" => codes[k] = "none" /\ taken[k] = 0
           /\ codes[k] = "unused" => taken[k] = 0
           /\ k \notin twin => taken[k] <= 1
    /\ \A c \in FactorChecks, k \in Code :
           InHand(c, k) /\ k \notin twin =>
               /\ taken[k] = 0
               /\ factor[k[1]].pc = "over"
               /\ \A d \in FactorChecks : InHand(d, k) => d = c

Dropping == \E c \in MfaCalls : factor[c].pc = "drop"

(***************************************************************************)
(* As long as no call wrote over another.                                  *)
(***************************************************************************)
InOrder ==
    /\ enabled => secret # 0
    /\ secret # 0 => (\E k \in Code : codes[k] # "none") \/ \E c \in MfaCalls : factor[c].pc = "codes"
    /\ Dropping => secret = 0 /\ ~ enabled
    /\ \A c \in MfaCalls : factor[c].pc = "stamp" => factor[c].enabled
    /\ stamped => enabled
    /\ ~ enabled => secret \notin asked
    /\ ~ enabled /\ ~ Dropping =>
           /\ \A k \in Code : codes[k] # "none" => k[1] \in Enrolments \ asked
           /\ \A c \in FactorChecks : ~ UnderWay(c)
           /\ \A c \in Enrolments : factor[c].pc = "codes" => c \notin asked

(* A recovery code has been taken by calls that are past the comparison. *)
Takers == {c \in FactorChecks : factor[c].pc \notin {"new", "code"}}

MfaInv ==
    /\ MfaTypes
    /\ Places
    /\ CodesAreOnce
    /\ ~ crossed => InOrder
    /\ \A k \in Code : taken[k] <= Cardinality(Takers)

Marks == {"new", "code", "passed", "drop", "codes", "stamp", "over"}

CallRecord == [pc : Marks, secret : Enrolments \cup {0}, enabled : BOOLEAN, stamped : BOOLEAN]

(***************************************************************************)
(* The call c stands at the mark pc and the others are where they were.    *)
(***************************************************************************)
Steps(c, pc) ==
    /\ factor' \in [MfaCalls -> CallRecord]
    /\ factor'[c].pc = pc
    /\ \A d \in MfaCalls : d # c => factor'[d] = factor[d]

LEMMA CallsAre ==
    /\ \A k \in Code : k[1] \in Enrolments \cup Renewals /\ k[1] \in MfaCalls
    /\ Enrolments \subseteq MfaCalls /\ Confirmations \subseteq MfaCalls
    /\ FactorChecks \subseteq MfaCalls /\ Removals \subseteq FactorChecks
    /\ Renewals \subseteq FactorChecks /\ Entries \subseteq FactorChecks
    /\ Enrolments \cap FactorChecks = {} /\ Confirmations \cap FactorChecks = {}
    /\ Enrolments \cap Confirmations = {}
    /\ 0 \notin Enrolments
    /\ \A s : <<s, 0>> \notin Code
<1>1. \A k \in Code : k[1] \in Enrolments \cup Renewals
  BY DEF Code
<1>2. \A s : <<s, 0>> \notin Code
  BY DEF Code
<1>3. 0 \notin Enrolments
  BY MfaAssumption
<1>4. Enrolments \cap FactorChecks = {} /\ Confirmations \cap FactorChecks = {}
  BY MfaAssumption, Zenon DEF FactorChecks
<1>5. Enrolments \cap Confirmations = {}
  BY MfaAssumption, Zenon
<1>6. QED
  BY <1>1, <1>2, <1>3, <1>4, <1>5 DEF MfaCalls, FactorChecks

LEMMA Moves ==
  ASSUME MfaTypes, NEW c \in MfaCalls, NEW pc \in Marks
  PROVE  /\ Step(c, pc) => Steps(c, pc) /\ factor'[c].secret = factor[c].secret
                                        /\ factor'[c].enabled = factor[c].enabled
         /\ Loaded(c, pc) => Steps(c, pc) /\ factor'[c].secret = secret /\ factor'[c].enabled = enabled
         /\ Over(c) => Steps(c, "over")
<1>1. factor \in [MfaCalls -> CallRecord]
  BY DEF MfaTypes, CallRecord, Marks
<1>2. factor[c] \in CallRecord
  BY <1>1
<1>3. ASSUME Step(c, pc)
      PROVE  Steps(c, pc) /\ factor'[c].secret = factor[c].secret /\ factor'[c].enabled = factor[c].enabled
  <2>1. factor' = [factor EXCEPT ![c] = [factor[c] EXCEPT !.pc = pc]]
    BY <1>3 DEF Step
  <2>2. [factor[c] EXCEPT !.pc = pc] \in CallRecord
    BY <1>2 DEF CallRecord
  <2>3. factor'[c] = [factor[c] EXCEPT !.pc = pc]
    BY <2>1, <1>1
  <2>4. /\ [factor[c] EXCEPT !.pc = pc].pc = pc
        /\ [factor[c] EXCEPT !.pc = pc].secret = factor[c].secret
        /\ [factor[c] EXCEPT !.pc = pc].enabled = factor[c].enabled
    BY <1>2 DEF CallRecord
  <2>5. QED
    BY <2>1, <2>2, <2>3, <2>4, <1>1 DEF Steps
<1>4. ASSUME Loaded(c, pc)
      PROVE  Steps(c, pc) /\ factor'[c].secret = secret /\ factor'[c].enabled = enabled
  <2> DEFINE r == [pc |-> pc, secret |-> secret, enabled |-> enabled, stamped |-> stamped]
  <2>1. r \in CallRecord /\ r.pc = pc /\ r.secret = secret /\ r.enabled = enabled
    BY DEF CallRecord, MfaTypes
  <2>2. factor' = [factor EXCEPT ![c] = r]
    BY <1>4 DEF Loaded
  <2> HIDE DEF r
  <2>3. QED
    BY <2>1, <2>2, <1>1 DEF Steps
<1>5. ASSUME Over(c)
      PROVE  Steps(c, "over")
  <2> DEFINE r == [pc |-> "over", secret |-> 0, enabled |-> FALSE, stamped |-> FALSE]
  <2>1. r \in CallRecord /\ r.pc = "over"
    BY DEF CallRecord, Marks
  <2>2. factor' = [factor EXCEPT ![c] = r]
    BY <1>5 DEF Over
  <2> HIDE DEF r
  <2>3. QED
    BY <2>1, <2>2, <1>1 DEF Steps
<1>6. QED
  BY <1>3, <1>4, <1>5

(***************************************************************************)
(* enable writes what it loads, and that the factor is on.                 *)
(***************************************************************************)
LEMMA Enabling ==
  ASSUME MfaTypes, NEW c \in Confirmations, Enable(c)
  PROVE  Steps(c, "stamp") /\ factor'[c].secret = secret /\ factor'[c].enabled = enabled'
                           /\ enabled' \in BOOLEAN
<1>1. factor \in [MfaCalls -> CallRecord] /\ c \in MfaCalls
  BY CallsAre DEF MfaTypes, CallRecord, Marks
<1>2. PICK e \in BOOLEAN : e = enabled'
  BY <1>1 DEF Enable, MfaTypes, CallRecord
<1> DEFINE r == [pc |-> "stamp", secret |-> secret, enabled |-> e, stamped |-> stamped]
<1>3. r \in CallRecord /\ r.pc = "stamp" /\ r.secret = secret /\ r.enabled = e
  BY DEF CallRecord, MfaTypes, Marks
<1>4. factor' = [factor EXCEPT ![c] = r]
  BY <1>2 DEF Enable
<1> HIDE DEF r
<1>5. QED
  BY <1>1, <1>2, <1>3, <1>4 DEF Steps

LEMMA MfaTypesNext == MfaTypes /\ [MfaNext]_mfaVars => MfaTypes'
<1> SUFFICES ASSUME MfaTypes, [MfaNext]_mfaVars
             PROVE  MfaTypes'
  OBVIOUS
<1> USE CallsAre DEF MfaTypes
<1>0. \A c \in MfaCalls, pc \in Marks : Steps(c, pc) =>
          factor' \in [MfaCalls -> [pc : {"new", "code", "passed", "drop", "codes", "stamp", "over"},
                                    secret : Enrolments \cup {0}, enabled : BOOLEAN, stamped : BOOLEAN]]
  BY DEF Steps, CallRecord, Marks
<1>m. {"new", "code", "passed", "drop", "codes", "stamp", "over"} = Marks
  BY DEF Marks
<1>1. ASSUME NEW c \in Enrolments, SetSecret(c)
      PROVE  MfaTypes'
  <2>1. Steps(c, "codes")
    BY <1>1, Moves DEF SetSecret, Marks
  <2>2. asked' \subseteq Enrolments
    BY <1>1 DEF SetSecret
  <2>3. QED
    BY <1>1, <2>1, <2>2, <1>0 DEF SetSecret, Marks
<1>2. ASSUME NEW c \in Enrolments \cup Renewals, CreateCodes(c)
      PROVE  MfaTypes'
  <2>1. codes' \in [Code -> {"none", "unused", "used"}]
    BY <1>2 DEF CreateCodes
  <2>2. Steps(c, "over")
    BY <1>2, Moves DEF CreateCodes, Marks
  <2>3. QED
    BY <1>2, <2>1, <2>2, <1>0 DEF CreateCodes, Marks
<1>3. ASSUME NEW c \in Confirmations, ConfirmLoad(c) \/ Enable(c) \/ SetVerifiedAt(c)
      PROVE  MfaTypes'
  <2>1. CASE ConfirmLoad(c)
    <3>1. Steps(c, "passed")
      BY <2>1, Moves DEF ConfirmLoad, Marks
    <3>2. QED
      BY <2>1, <3>1, <1>0 DEF ConfirmLoad, Marks
  <2>2. CASE Enable(c)
    <3>1. Steps(c, "stamp") /\ enabled' \in BOOLEAN
      BY <2>2, Enabling
    <3>2. asked' \subseteq Enrolments /\ crossed' \in BOOLEAN
      BY <2>2 DEF Enable
    <3>3. QED
      BY <2>2, <3>1, <3>2, <1>0 DEF Enable, Marks
  <2>3. CASE SetVerifiedAt(c)
    <3>1. Steps(c, "over")
      BY <2>3, Moves DEF SetVerifiedAt, Marks
    <3>2. QED
      BY <2>3, <3>1, <1>0 DEF SetVerifiedAt, Marks, Changed
  <2>4. QED
    BY <1>3, <2>1, <2>2, <2>3
<1>4. ASSUME NEW c \in FactorChecks, CheckLoad(c)
      PROVE  MfaTypes'
  <2>1. PICK pc \in Marks : Steps(c, pc)
    BY <1>4, Moves DEF CheckLoad, Marks
  <2>2. proof' \in [FactorChecks -> {<<s, 0>> : s \in Enrolments \cup {0}} \cup Code]
    BY <1>4 DEF CheckLoad
  <2>3. twin' \subseteq Code
    BY <1>4 DEF CheckLoad
  <2>4. QED
    BY <1>4, <2>1, <2>2, <2>3, <1>0 DEF CheckLoad
<1>5. ASSUME NEW c \in FactorChecks, UseCode(c)
      PROVE  MfaTypes'
  <2>1. codes' \in [Code -> {"none", "unused", "used"}] /\ taken' \in [Code -> Nat]
    BY <1>5 DEF UseCode
  <2>2. PICK pc \in Marks : Steps(c, pc)
    BY <1>5, Moves DEF UseCode, Marks
  <2>3. QED
    BY <1>5, <2>1, <2>2, <1>0 DEF UseCode
<1>6. ASSUME NEW c \in FactorChecks, Enter(c) \/ Disable(c) \/ DeleteCodes(c)
      PROVE  MfaTypes'
  <2>1. CASE Enter(c)
    <3>1. Steps(c, "over")
      BY <2>1, Moves DEF Enter, Marks
    <3>2. QED
      BY <2>1, <3>1, <1>0 DEF Enter, Marks
  <2>2. CASE Disable(c)
    <3>1. Steps(c, "drop")
      BY <2>2, Moves DEF Disable, Marks
    <3>2. QED
      BY <2>2, <3>1, <1>0 DEF Disable, Marks, Changed
  <2>3. CASE DeleteCodes(c)
    <3>1. PICK pc \in Marks : Steps(c, pc)
      BY <2>3, Moves DEF DeleteCodes, Marks
    <3>2. codes' \in [Code -> {"none", "unused", "used"}]
      BY <2>3 DEF DeleteCodes
    <3>3. QED
      BY <2>3, <3>1, <3>2, <1>0 DEF DeleteCodes
  <2>4. QED
    BY <1>6, <2>1, <2>2, <2>3
<1>7. ASSUME NEW c \in MfaCalls, MfaFails(c)
      PROVE  MfaTypes'
  <2>1. Steps(c, "over")
    BY <1>7, Moves DEF MfaFails, Marks
  <2>2. QED
    BY <1>7, <2>1, <1>0 DEF MfaFails, Marks
<1>8. CASE UNCHANGED mfaVars
  BY <1>8 DEF mfaVars
<1>9. QED
  BY <1>1, <1>2, <1>3, <1>4, <1>5, <1>6, <1>7, <1>8 DEF MfaNext

(***************************************************************************)
(* Every step of the model moves one call, or none.                        *)
(***************************************************************************)
Moved(c) ==
    /\ c \in MfaCalls
    /\ factor[c].pc # "over"
    /\ factor'[c].pc # "new"
    /\ \A d \in MfaCalls : d # c => factor'[d] = factor[d]

LEMMA PlacesNext ==
  ASSUME MfaTypes, MfaTypes', Places, MfaNext
  PROVE  Places' /\ \E c \in MfaCalls : Moved(c)
<1> USE CallsAre
<1>a. secret \in Enrolments \cup {0} /\ asked \subseteq Enrolments
  BY DEF MfaTypes
<1>1. ASSUME NEW c \in Enrolments, SetSecret(c)
      PROVE  Places' /\ Moved(c)
  <2>1. Steps(c, "codes")
    BY <1>1, Moves DEF SetSecret, Marks
  <2>2. QED
    BY <1>1, <2>1, <1>a DEF SetSecret, Steps, Moved, Places
<1>2. ASSUME NEW c \in Enrolments \cup Renewals, CreateCodes(c)
      PROVE  Places' /\ Moved(c)
  <2>1. Steps(c, "over")
    BY <1>2, Moves DEF CreateCodes, Marks
  <2>2. QED
    BY <1>2, <2>1, <1>a DEF CreateCodes, Steps, Moved, Places
<1>3. ASSUME NEW c \in Confirmations, ConfirmLoad(c)
      PROVE  Places' /\ Moved(c)
  <2>1. Steps(c, "passed") /\ factor'[c].secret = secret
    BY <1>3, Moves DEF ConfirmLoad, Marks
  <2>2. QED
    BY <1>3, <2>1, <1>a DEF ConfirmLoad, Steps, Moved, Places
<1>4. ASSUME NEW c \in Confirmations, Enable(c)
      PROVE  Places' /\ Moved(c)
  <2>1. Steps(c, "stamp")
    BY <1>4, Enabling
  <2>2. QED
    BY <1>4, <2>1, <1>a DEF Enable, Steps, Moved, Places
<1>5. ASSUME NEW c \in Confirmations, SetVerifiedAt(c)
      PROVE  Places' /\ Moved(c)
  <2>1. Steps(c, "over")
    BY <1>5, Moves DEF SetVerifiedAt, Marks
  <2>2. QED
    BY <1>5, <2>1, <1>a DEF SetVerifiedAt, Steps, Moved, Places
<1>6. ASSUME NEW c \in FactorChecks, CheckLoad(c)
      PROVE  Places' /\ Moved(c)
  <2>1. CASE secret # 0 /\ Loaded(c, "passed")
               /\ proof' = [proof EXCEPT ![c] = <<secret, 0>>]
    <3>1. Steps(c, "passed")
      BY <2>1, Moves DEF Marks
    <3>2. \A d \in FactorChecks : d # c => proof'[d] = proof[d]
      BY <2>1 DEF MfaTypes
    <3>3. QED
      BY <1>6, <3>1, <3>2, <1>a DEF CheckLoad, Steps, Moved, Places
  <2>2. ASSUME NEW k \in Code, Loaded(c, "code"), proof' = [proof EXCEPT ![c] = k]
        PROVE  Places' /\ Moved(c)
    <3>1. Steps(c, "code")
      BY <2>2, Moves DEF Marks
    <3>2. proof'[c] = k /\ \A d \in FactorChecks : d # c => proof'[d] = proof[d]
      BY <2>2 DEF MfaTypes
    <3>3. QED
      BY <1>6, <3>1, <3>2, <1>a DEF CheckLoad, Steps, Moved, Places
  <2>3. QED
    BY <1>6, <2>1, <2>2 DEF CheckLoad
<1>7. ASSUME NEW c \in FactorChecks, UseCode(c)
      PROVE  Places' /\ Moved(c)
  <2>1. Steps(c, "passed") \/ Steps(c, "over")
    BY <1>7, Moves DEF UseCode, Marks
  <2>2. QED
    BY <1>7, <2>1, <1>a DEF UseCode, Steps, Moved, Places
<1>8. ASSUME NEW c \in FactorChecks, Enter(c)
      PROVE  Places' /\ Moved(c)
  <2>1. Steps(c, "over")
    BY <1>8, Moves DEF Enter, Marks
  <2>2. QED
    BY <1>8, <2>1, <1>a DEF Enter, Steps, Moved, Places
<1>9. ASSUME NEW c \in FactorChecks, Disable(c)
      PROVE  Places' /\ Moved(c)
  <2>1. Steps(c, "drop")
    BY <1>9, Moves DEF Disable, Marks
  <2>2. QED
    BY <1>9, <2>1, <1>a DEF Disable, Steps, Moved, Places
<1>10. ASSUME NEW c \in FactorChecks, DeleteCodes(c)
       PROVE  Places' /\ Moved(c)
  <2>1. CASE c \in Removals /\ factor[c].pc = "drop" /\ Over(c)
    <3>1. Steps(c, "over")
      BY <2>1, Moves DEF Marks
    <3>2. QED
      BY <1>10, <2>1, <3>1, <1>a DEF DeleteCodes, Steps, Moved, Places
  <2>2. CASE c \in Renewals /\ factor[c].pc = "passed" /\ Step(c, "codes")
    <3>1. Steps(c, "codes")
      BY <2>2, Moves DEF Marks
    <3>2. QED
      BY <1>10, <2>2, <3>1, <1>a DEF DeleteCodes, Steps, Moved, Places
  <2>3. QED
    BY <1>10, <2>1, <2>2 DEF DeleteCodes
<1>11. ASSUME NEW c \in MfaCalls, MfaFails(c)
       PROVE  Places' /\ Moved(c)
  <2>1. Steps(c, "over")
    BY <1>11, Moves DEF MfaFails, Marks
  <2>2. QED
    BY <1>11, <2>1, <1>a DEF MfaFails, UnderWay, Steps, Moved, Places
<1>12. QED
  BY <1>1, <1>2, <1>3, <1>4, <1>5, <1>6, <1>7, <1>8, <1>9, <1>10, <1>11 DEF MfaNext

-----------------------------------------------------------------------------

(***************************************************************************)
(* A step that leaves the codes and the proofs alone, and takes no code    *)
(* in hand, keeps what is known of the codes.                              *)
(***************************************************************************)
LEMMA CodesRest ==
  ASSUME MfaTypes, CodesAreOnce, NEW c, Moved(c), factor'[c].pc # "code",
         UNCHANGED <<codes, taken, proof, twin>>
  PROVE  CodesAreOnce'
<1> USE CallsAre
<1>1. \A k \in Code : factor'[k[1]].pc # "over" => factor[k[1]].pc # "over"
  BY DEF Moved
<1>2. \A k \in Code : factor[k[1]].pc = "over" => factor'[k[1]].pc = "over"
  BY DEF Moved
<1>3. \A d \in FactorChecks, k \in Code : InHand(d, k)' => InHand(d, k)
  BY DEF Moved, InHand
<1>4. QED
  BY <1>1, <1>2, <1>3 DEF CodesAreOnce

LEMMA CodesNext ==
  ASSUME MfaTypes, MfaTypes', Places, CodesAreOnce, MfaNext
  PROVE  CodesAreOnce'
<1> USE CallsAre
<1>0. PICK c0 \in MfaCalls : Moved(c0)
  BY PlacesNext
<1>m. \A c \in MfaCalls : factor'[c] # factor[c] => c = c0
  BY <1>0 DEF Moved
<1>1. ASSUME NEW c \in Enrolments, SetSecret(c)
      PROVE  CodesAreOnce'
  <2>1. Steps(c, "codes")
    BY <1>1, Moves DEF SetSecret, Marks
  <2>2. Moved(c)
    BY <1>1, <2>1 DEF SetSecret, Steps, Moved
  <2>3. QED
    BY <1>1, <2>1, <2>2, CodesRest DEF SetSecret, Steps
<1>2. ASSUME NEW c \in Enrolments \cup Renewals, CreateCodes(c)
      PROVE  CodesAreOnce'
  <2>1. Steps(c, "over")
    BY <1>2, Moves DEF CreateCodes, Marks
  <2>2. \A k \in Code : codes'[k] = IF k[1] = c THEN "unused" ELSE codes[k]
    BY <1>2 DEF CreateCodes, CodesOf
  <2>3. \A k \in Code : factor'[k[1]].pc # "over" => k[1] # c /\ factor[k[1]].pc # "over"
    BY <2>1 DEF Steps
  <2>4. \A k \in Code : factor[k[1]].pc = "over" => factor'[k[1]].pc = "over"
    BY <2>1 DEF Steps
  <2>5. \A d \in FactorChecks, k \in Code : InHand(d, k)' => InHand(d, k)
    BY <1>2, <2>1 DEF CreateCodes, Steps, InHand
  <2>6. taken' = taken /\ twin' = twin /\ factor[c].pc = "codes"
    BY <1>2 DEF CreateCodes
  <2>7. QED
    BY <2>2, <2>3, <2>4, <2>5, <2>6 DEF CodesAreOnce
<1>3. ASSUME NEW c \in Confirmations, ConfirmLoad(c) \/ Enable(c) \/ SetVerifiedAt(c)
      PROVE  CodesAreOnce'
  <2>1. Steps(c, "passed") \/ Steps(c, "stamp") \/ Steps(c, "over")
    BY <1>3, Moves, Enabling DEF ConfirmLoad, SetVerifiedAt, Marks
  <2>2. Moved(c) /\ factor'[c].pc # "code"
    BY <1>3, <2>1 DEF ConfirmLoad, Enable, SetVerifiedAt, Steps, Moved
  <2>3. UNCHANGED <<codes, taken, proof, twin>>
    BY <1>3 DEF ConfirmLoad, Enable, SetVerifiedAt
  <2>4. QED
    BY <2>2, <2>3, CodesRest
<1>4. ASSUME NEW c \in FactorChecks, CheckLoad(c)
      PROVE  CodesAreOnce'
  <2>a. codes' = codes /\ taken' = taken /\ factor[c].pc = "new"
    BY <1>4 DEF CheckLoad
  <2>1. CASE Loaded(c, "passed") /\ proof' = [proof EXCEPT ![c] = <<secret, 0>>] /\ UNCHANGED twin
    <3>1. Steps(c, "passed")
      BY <2>1, Moves DEF Marks
    <3>2. \A d \in FactorChecks : d # c => proof'[d] = proof[d]
      BY <2>1 DEF MfaTypes
    <3>3. \A d \in FactorChecks, k \in Code : InHand(d, k)' => InHand(d, k)
      BY <3>1, <3>2 DEF InHand, Steps
    <3>4. \A d \in MfaCalls : (factor'[d].pc = "over") <=> (factor[d].pc = "over")
      BY <3>1, <2>a DEF Steps
    <3>5. QED
      BY <2>a, <2>1, <3>3, <3>4 DEF CodesAreOnce
  <2>2. ASSUME NEW k \in Code, codes[k] = "unused", Loaded(c, "code"), proof' = [proof EXCEPT ![c] = k],
               twin' = IF \E d \in FactorChecks \ {c} : factor[d].pc = "code" /\ proof[d] = k
                       THEN twin \cup {k} ELSE twin
        PROVE  CodesAreOnce'
    <3>1. Steps(c, "code")
      BY <2>2, Moves DEF Marks
    <3>2. proof'[c] = k /\ \A d \in FactorChecks : d # c => proof'[d] = proof[d]
      BY <2>2 DEF MfaTypes
    <3>3. \A d \in FactorChecks, j \in Code : InHand(d, j)' <=> (d = c /\ j = k) \/ (d # c /\ InHand(d, j))
      BY <3>1, <3>2 DEF InHand, Steps
    <3>4. \A d \in MfaCalls : (factor'[d].pc = "over") <=> (factor[d].pc = "over")
      BY <3>1, <2>a DEF Steps
    <3>5. \A j \in Code : j \notin twin' => j \notin twin
      BY <2>2
    <3>6. k \notin twin' => \A d \in FactorChecks : d # c => ~ InHand(d, k)
      BY <2>2 DEF InHand
    <3>7. taken[k] = 0 /\ factor[k[1]].pc = "over"
      BY <2>2 DEF CodesAreOnce
    <3>8. \A d \in FactorChecks, j \in Code :
             InHand(d, j)' /\ j \notin twin' =>
               /\ taken'[j] = 0
               /\ factor'[j[1]].pc = "over"
               /\ \A e \in FactorChecks : InHand(e, j)' => e = d
      BY <2>a, <3>3, <3>4, <3>5, <3>6, <3>7 DEF CodesAreOnce
    <3>9. QED
      BY <2>a, <3>4, <3>5, <3>8 DEF CodesAreOnce
  <2>3. QED
    BY <1>4, <2>1, <2>2 DEF CheckLoad
<1>5. ASSUME NEW c \in FactorChecks, UseCode(c)
      PROVE  CodesAreOnce'
  <2>a. PICK k \in Code : k = proof[c]
    BY <1>5 DEF UseCode, Places
  <2>b. factor[c].pc = "code" /\ proof' = proof /\ twin' = twin
    BY <1>5 DEF UseCode
  <2>c. InHand(c, k)
    BY <2>a, <2>b DEF InHand
  <2>1. CASE codes[k] = "none"
    <3>1. Over(c) /\ UNCHANGED <<codes, taken>>
      BY <1>5, <2>a, <2>1 DEF UseCode
    <3>2. Steps(c, "over")
      BY <3>1, Moves DEF Marks
    <3>3. Moved(c) /\ factor'[c].pc # "code"
      BY <2>b, <3>2 DEF Steps, Moved
    <3>4. QED
      BY <2>b, <3>1, <3>3, CodesRest
  <2>2. CASE codes[k] # "none"
    <3>1. Step(c, "passed") /\ codes' = [codes EXCEPT ![k] = "used"] /\ taken' = [taken EXCEPT ![k] = @ + 1]
      BY <1>5, <2>a, <2>2 DEF UseCode
    <3>2. Steps(c, "passed")
      BY <3>1, Moves DEF Marks
    <3>3. \A j \in Code : codes'[j] = (IF j = k THEN "used" ELSE codes[j])
                       /\ taken'[j] = (IF j = k THEN taken[k] + 1 ELSE taken[j])
      BY <3>1 DEF MfaTypes
    <3>4. \A d \in FactorChecks, j \in Code : InHand(d, j)' => d # c /\ InHand(d, j)
      BY <2>b, <3>2 DEF InHand, Steps
    <3>5. \A d \in MfaCalls : (factor'[d].pc = "over") <=> (factor[d].pc = "over")
      BY <3>2, <2>b DEF Steps
    <3>6. factor[k[1]].pc = "over"
      BY <2>2 DEF CodesAreOnce
    <3>7. k \notin twin => taken[k] = 0 /\ \A d \in FactorChecks : InHand(d, k) => d = c
      BY <2>c DEF CodesAreOnce
    <3>8. \A j \in Code :
             /\ factor'[j[1]].pc # "over" => codes'[j] = "none" /\ taken'[j] = 0
             /\ codes'[j] = "unused" => taken'[j] = 0
      BY <3>3, <3>5, <3>6 DEF CodesAreOnce
    <3>9. \A j \in Code : j \notin twin => taken'[j] <= 1
      BY <3>3, <3>7 DEF CodesAreOnce
    <3>10. \A d \in FactorChecks, j \in Code :
             InHand(d, j)' /\ j \notin twin =>
               /\ taken'[j] = 0
               /\ factor'[j[1]].pc = "over"
               /\ \A e \in FactorChecks : InHand(e, j)' => e = d
      <4>1. \A d \in FactorChecks : k \notin twin => ~ InHand(d, k)'
        BY <3>4, <3>7
      <4>2. QED
        BY <3>3, <3>4, <3>5, <4>1 DEF CodesAreOnce
    <3>11. QED
      BY <2>b, <3>8, <3>9, <3>10 DEF CodesAreOnce
  <2>3. QED
    BY <2>1, <2>2
<1>6. ASSUME NEW c \in FactorChecks, Enter(c) \/ Disable(c)
      PROVE  CodesAreOnce'
  <2>1. Steps(c, "over") \/ Steps(c, "drop")
    BY <1>6, Moves DEF Enter, Disable, Marks
  <2>2. Moved(c) /\ factor'[c].pc # "code"
    BY <1>6, <2>1 DEF Enter, Disable, Steps, Moved
  <2>3. UNCHANGED <<codes, taken, proof, twin>>
    BY <1>6 DEF Enter, Disable
  <2>4. QED
    BY <2>2, <2>3, CodesRest
<1>7. ASSUME NEW c \in FactorChecks, DeleteCodes(c)
      PROVE  CodesAreOnce'
  <2>1. Steps(c, "over") \/ Steps(c, "codes")
    BY <1>7, Moves DEF DeleteCodes, Marks
  <2>2. factor[c].pc # "over" /\ taken' = taken /\ proof' = proof /\ twin' = twin
    BY <1>7 DEF DeleteCodes
  <2>3. \A k \in Code : codes'[k] = "none"
    BY <1>7 DEF DeleteCodes
  <2>4. \A k \in Code : factor'[k[1]].pc # "over" => factor[k[1]].pc # "over"
    BY <2>1, <2>2 DEF Steps
  <2>5. \A k \in Code : factor[k[1]].pc = "over" => factor'[k[1]].pc = "over"
    BY <2>1, <2>2 DEF Steps
  <2>6. \A d \in FactorChecks, k \in Code : InHand(d, k)' => InHand(d, k)
    BY <2>1, <2>2 DEF Steps, InHand
  <2>7. QED
    BY <2>2, <2>3, <2>4, <2>5, <2>6 DEF CodesAreOnce
<1>8. ASSUME NEW c \in MfaCalls, MfaFails(c)
      PROVE  CodesAreOnce'
  <2>1. Steps(c, "over")
    BY <1>8, Moves DEF MfaFails, Marks
  <2>2. Moved(c)
    BY <1>8, <2>1 DEF MfaFails, UnderWay, Steps, Moved
  <2>3. QED
    BY <1>8, <2>1, <2>2, CodesRest DEF MfaFails, Steps
<1>9. QED
  BY <1>1, <1>2, <1>3, <1>4, <1>5, <1>6, <1>7, <1>8 DEF MfaNext

-----------------------------------------------------------------------------

LEMMA OrderNext ==
  ASSUME MfaTypes, MfaTypes', Places, crossed \/ InOrder, MfaNext, ~ crossed'
  PROVE  InOrder'
<1> USE CallsAre
<1>a. secret \in Enrolments \cup {0} /\ asked \subseteq Enrolments /\ enabled \in BOOLEAN
  BY DEF MfaTypes
<1>1. ASSUME NEW c \in Enrolments, SetSecret(c)
      PROVE  InOrder'
  <2>1. Steps(c, "codes")
    BY <1>1, Moves DEF SetSecret, Marks
  <2>2. InOrder /\ \A d \in MfaCalls : ~ UnderWay(d)
    BY <1>1 DEF SetSecret
  <2>3. \A d \in MfaCalls : d # c => factor'[d].pc \in {"new", "over"}
    BY <2>1, <2>2 DEF Steps, UnderWay
  <2>4. ~ Dropping /\ ~ Dropping'
    BY <2>1, <2>2, <2>3 DEF Dropping, UnderWay, Steps
  <2>5. c \notin asked /\ factor[c].pc = "new" /\ secret' = c /\ enabled' = enabled /\ stamped' = stamped
        /\ codes' = codes /\ (~ enabled => asked' = asked)
    BY <1>1 DEF SetSecret, Places
  <2>6. factor'[c].pc = "codes"
    BY <2>1 DEF Steps
  <2>7. \A d \in FactorChecks : ~ UnderWay(d)'
    BY <1>1, <2>3 DEF UnderWay
  <2>8. \A d \in MfaCalls : factor'[d].pc # "stamp"
    BY <2>3, <2>6
  <2>9. \A d \in Enrolments : factor'[d].pc = "codes" => d = c
    BY <2>3
  <2>10. QED
    BY <1>1, <2>2, <2>4, <2>5, <2>6, <2>7, <2>8, <2>9 DEF InOrder
<1>2. ASSUME NEW c \in Enrolments \cup Renewals, CreateCodes(c)
      PROVE  InOrder'
  <2>1. Steps(c, "over")
    BY <1>2, Moves DEF CreateCodes, Marks
  <2>2. InOrder /\ factor[c].pc = "codes" /\ secret' = secret /\ enabled' = enabled
        /\ stamped' = stamped /\ asked' = asked
    BY <1>2 DEF CreateCodes
  <2>3. \A k \in Code : codes'[k] = IF k[1] = c THEN "unused" ELSE codes[k]
    BY <1>2 DEF CreateCodes, CodesOf
  <2>4. \E k \in Code : codes'[k] # "none"
    <3>1. <<c, 1>> \in Code
      BY <1>2, MfaAssumption DEF Code
    <3>2. QED
      BY <3>1, <2>3
  <2>5. Dropping' <=> Dropping
    BY <2>1, <2>2 DEF Dropping, Steps
  <2>6. ~ enabled /\ ~ Dropping => c \in Enrolments \ asked
    BY <2>2 DEF InOrder, UnderWay
  <2>7. ~ enabled /\ ~ Dropping => \A d \in FactorChecks : ~ UnderWay(d)'
    BY <2>1, <2>2 DEF InOrder, UnderWay, Steps
  <2>8. \A d \in MfaCalls : factor'[d].pc \in {"codes", "stamp"} => factor'[d] = factor[d]
    BY <2>1 DEF Steps
  <2>9. QED
    BY <2>2, <2>3, <2>4, <2>5, <2>6, <2>7, <2>8 DEF InOrder
<1>3. ASSUME NEW c \in Confirmations, ConfirmLoad(c)
      PROVE  InOrder'
  <2>1. Steps(c, "passed")
    BY <1>3, Moves DEF ConfirmLoad, Marks
  <2>2. InOrder /\ factor[c].pc = "new" /\ UNCHANGED <<secret, enabled, stamped, codes, asked>>
    BY <1>3 DEF ConfirmLoad
  <2>3. Dropping' <=> Dropping
    BY <2>1, <2>2 DEF Dropping, Steps
  <2>4. \A d \in MfaCalls : factor'[d].pc \in {"codes", "stamp"} => factor'[d] = factor[d]
    BY <2>1 DEF Steps
  <2>5. \A d \in MfaCalls : factor[d].pc = "codes" => factor'[d].pc = "codes"
    BY <2>1, <2>2 DEF Steps
  <2>6. \A d \in FactorChecks : UnderWay(d)' <=> UnderWay(d)
    BY <2>1 DEF Steps, UnderWay
  <2>7. QED
    BY <2>2, <2>3, <2>4, <2>5, <2>6 DEF InOrder
<1>4. ASSUME NEW c \in Confirmations, Enable(c)
      PROVE  InOrder'
  <2>1. Steps(c, "stamp") /\ factor'[c].enabled = enabled'
    BY <1>4, Enabling
  <2>2. InOrder /\ factor[c].pc = "passed" /\ ~ Changed(c)
    BY <1>4 DEF Enable
  <2>3. secret # 0 /\ secret' = secret /\ stamped' = stamped /\ codes' = codes
    BY <1>4, <2>2 DEF Changed, Places, Enable
  <2>4. enabled' = TRUE
    <3>1. enabled' = (enabled \/ ~ factor[c].enabled)
      BY <1>4 DEF Enable
    <3>2. factor[c].enabled = enabled
      BY <2>2 DEF Changed
    <3>3. QED
      BY <3>1, <3>2
  <2>5. ~ Dropping /\ ~ Dropping'
    BY <2>1, <2>2, <2>3 DEF InOrder, Dropping, Steps
  <2>6. \A d \in MfaCalls : factor[d].pc = "codes" => factor'[d].pc = "codes"
    BY <2>1, <2>2 DEF Steps
  <2>7. \A d \in MfaCalls : factor'[d].pc = "stamp" => factor'[d].enabled
    BY <2>1, <2>2, <2>4 DEF Steps, InOrder
  <2>8. QED
    BY <2>2, <2>3, <2>4, <2>5, <2>6, <2>7 DEF InOrder
<1>5. ASSUME NEW c \in Confirmations, SetVerifiedAt(c)
      PROVE  InOrder'
  <2>1. Steps(c, "over")
    BY <1>5, Moves DEF SetVerifiedAt, Marks
  <2>2. InOrder /\ factor[c].pc = "stamp" /\ ~ Changed(c) /\ UNCHANGED <<secret, enabled, codes, asked>>
    BY <1>5 DEF SetVerifiedAt
  <2>3. enabled
    BY <2>2 DEF InOrder, Changed
  <2>4. ~ Dropping' /\ ~ Dropping
    BY <2>1, <2>2, <2>3 DEF InOrder, Dropping, Steps
  <2>5. \A d \in MfaCalls : factor[d].pc = "codes" => factor'[d].pc = "codes"
    BY <2>1, <2>2 DEF Steps
  <2>6. \A d \in MfaCalls : factor'[d].pc = "stamp" => factor'[d].enabled
    BY <2>1, <2>2 DEF Steps, InOrder
  <2>7. QED
    BY <2>2, <2>3, <2>4, <2>5, <2>6 DEF InOrder
<1>6. ASSUME NEW c \in FactorChecks, CheckLoad(c)
      PROVE  InOrder'
  <2>1. Steps(c, "passed") \/ Steps(c, "code")
    BY <1>6, Moves DEF CheckLoad, Marks
  <2>2. InOrder /\ enabled /\ factor[c].pc = "new" /\ UNCHANGED <<secret, enabled, stamped, codes, asked>>
    BY <1>6 DEF CheckLoad
  <2>3. ~ Dropping' /\ ~ Dropping
    BY <2>1, <2>2 DEF InOrder, Dropping, Steps
  <2>4. \A d \in MfaCalls : factor[d].pc = "codes" => factor'[d].pc = "codes"
    BY <2>1, <2>2 DEF Steps
  <2>5. \A d \in MfaCalls : factor'[d].pc = "stamp" => factor'[d].enabled
    BY <2>1, <2>2 DEF Steps, InOrder
  <2>6. QED
    BY <2>2, <2>3, <2>4, <2>5 DEF InOrder
<1>7. ASSUME NEW c \in FactorChecks, UseCode(c) \/ Enter(c)
      PROVE  InOrder'
  <2>1. Steps(c, "passed") \/ Steps(c, "over")
    BY <1>7, Moves DEF UseCode, Enter, Marks
  <2>2. InOrder /\ factor[c].pc \in {"code", "passed"} /\ UNCHANGED <<secret, enabled, stamped, asked>>
    BY <1>7 DEF UseCode, Enter
  <2>3. \A k \in Code : (codes'[k] # "none") <=> (codes[k] # "none")
    <3>1. CASE Enter(c)
      BY <3>1 DEF Enter
    <3>2. CASE UseCode(c)
      BY <3>2 DEF UseCode, MfaTypes
    <3>3. QED
      BY <1>7, <3>1, <3>2
  <2>4. Dropping' <=> Dropping
    BY <2>1, <2>2 DEF Dropping, Steps
  <2>5. \A d \in MfaCalls : factor[d].pc = "codes" <=> factor'[d].pc = "codes"
    BY <2>1, <2>2 DEF Steps
  <2>6. \A d \in MfaCalls : factor'[d].pc = "stamp" => factor'[d].enabled
    BY <2>1, <2>2 DEF Steps, InOrder
  <2>7. enabled \/ Dropping
    BY <2>2 DEF InOrder, UnderWay
  <2>8. QED
    BY <2>2, <2>3, <2>4, <2>5, <2>6, <2>7 DEF InOrder
<1>8. ASSUME NEW c \in FactorChecks, Disable(c)
      PROVE  InOrder'
  <2>1. Steps(c, "drop")
    BY <1>8, Moves DEF Disable, Marks
  <2>2. InOrder /\ factor[c].pc = "passed" /\ ~ Changed(c) /\ UNCHANGED <<codes, asked>>
        /\ enabled' = FALSE /\ factor[c].stamped = stamped
        /\ stamped' = (stamped /\ ~ factor[c].stamped)
    BY <1>8 DEF Disable
  <2>8. stamped' = FALSE
    BY <2>2
  <2>3. secret' = 0
    BY <1>8, <2>2 DEF Disable, Changed
  <2>4. Dropping'
    BY <2>1 DEF Dropping, Steps
  <2>5. \A d \in MfaCalls : factor'[d].pc = "stamp" => factor'[d].enabled
    BY <2>1, <2>2 DEF Steps, InOrder
  <2>6. secret' \notin asked'
    BY <2>2, <2>3, <1>a
  <2>7. QED
    BY <2>2, <2>3, <2>4, <2>5, <2>6, <2>8 DEF InOrder
<1>9. ASSUME NEW c \in FactorChecks, DeleteCodes(c)
      PROVE  InOrder'
  <2>a. InOrder /\ UNCHANGED <<secret, enabled, stamped, asked>>
    BY <1>9 DEF DeleteCodes
  <2>b. \A d \in MfaCalls : d # c => ~ UnderWay(d)
    BY <1>9 DEF DeleteCodes
  <2>c. \A k \in Code : codes'[k] = "none"
    BY <1>9 DEF DeleteCodes
  <2>1. CASE c \in Removals /\ factor[c].pc = "drop" /\ Over(c)
    <3>1. Steps(c, "over")
      BY <2>1, Moves DEF Marks
    <3>2. \A d \in MfaCalls : ~ UnderWay(d)'
      BY <3>1, <2>b DEF Steps, UnderWay
    <3>3. secret = 0 /\ ~ enabled
      BY <2>1, <2>a DEF InOrder, Dropping
    <3>4. ~ Dropping' /\ \A d \in MfaCalls : factor'[d].pc \notin {"stamp", "codes"}
      BY <3>2 DEF Dropping, UnderWay
    <3>5. QED
      BY <2>a, <2>c, <3>2, <3>3, <3>4 DEF InOrder
  <2>2. CASE c \in Renewals /\ factor[c].pc = "passed" /\ Step(c, "codes")
    <3>1. Steps(c, "codes")
      BY <2>2, Moves DEF Marks
    <3>2. ~ Dropping /\ ~ Dropping'
      BY <2>2, <2>b, <3>1 DEF Dropping, UnderWay, Steps
    <3>3. enabled
      BY <2>a, <2>2, <3>2 DEF InOrder, UnderWay
    <3>4. factor'[c].pc = "codes" /\ \A d \in MfaCalls : factor'[d].pc # "stamp"
      BY <3>1, <2>b DEF Steps, UnderWay
    <3>5. QED
      BY <2>a, <2>c, <3>2, <3>3, <3>4 DEF InOrder
  <2>3. QED
    BY <1>9, <2>1, <2>2 DEF DeleteCodes
<1>10. ASSUME NEW c \in MfaCalls, MfaFails(c)
       PROVE  InOrder'
  <2>1. Steps(c, "over")
    BY <1>10, Moves DEF MfaFails, Marks
  <2>2. InOrder /\ factor[c].pc \notin {"codes", "drop"} /\ UNCHANGED <<secret, enabled, stamped, codes, asked>>
    BY <1>10 DEF MfaFails
  <2>3. Dropping' <=> Dropping
    BY <2>1, <2>2 DEF Dropping, Steps
  <2>4. \A d \in MfaCalls : factor[d].pc = "codes" <=> factor'[d].pc = "codes"
    BY <2>1, <2>2 DEF Steps
  <2>5. \A d \in MfaCalls : factor'[d].pc = "stamp" => factor'[d].enabled
    BY <2>1, <2>2 DEF Steps, InOrder
  <2>6. \A d \in FactorChecks : UnderWay(d)' => UnderWay(d)
    BY <2>1 DEF Steps, UnderWay
  <2>7. QED
    BY <2>2, <2>3, <2>4, <2>5, <2>6 DEF InOrder
<1>11. QED
  BY <1>1, <1>2, <1>3, <1>4, <1>5, <1>6, <1>7, <1>8, <1>9, <1>10 DEF MfaNext

-----------------------------------------------------------------------------

(***************************************************************************)
(* A code is taken once by each call at most.                              *)
(***************************************************************************)
LEMMA TakersNext ==
  ASSUME MfaTypes, Places, MfaNext, NEW k \in Code, taken[k] <= Cardinality(Takers)
  PROVE  taken'[k] <= Cardinality(Takers')
<1> USE CallsAre
<1>1. IsFiniteSet(FactorChecks)
  BY MfaAssumption DEF FactorChecks
<1>2. IsFiniteSet(Takers) /\ IsFiniteSet(Takers')
  <2>1. Takers \subseteq FactorChecks /\ Takers' \subseteq FactorChecks
    BY DEF Takers
  <2>2. QED
    BY <1>1, <2>1, FS_Subset
<1>3. Cardinality(Takers) \in Nat /\ Cardinality(Takers') \in Nat /\ taken[k] \in Nat
  BY <1>2, FS_CardinalityType DEF MfaTypes
<1>4. CASE \E c \in FactorChecks : UseCode(c)
  <2>1. PICK c \in FactorChecks : UseCode(c)
    BY <1>4
  <2>2. Steps(c, "passed") \/ Steps(c, "over")
    BY <2>1, Moves DEF UseCode, Marks
  <2>3. Takers' = Takers \cup {c} /\ c \notin Takers
    BY <2>1, <2>2 DEF UseCode, Takers, Steps
  <2>4. Cardinality(Takers') = Cardinality(Takers) + 1
    BY <1>2, <2>3, FS_AddElement
  <2>5. taken'[k] = taken[k] \/ taken'[k] = taken[k] + 1
    BY <2>1 DEF UseCode, MfaTypes
  <2>6. QED
    BY <1>3, <2>4, <2>5
<1>5. CASE ~ \E c \in FactorChecks : UseCode(c)
  <2>1. taken' = taken
    BY <1>5 DEF MfaNext, SetSecret, CreateCodes, ConfirmLoad, Enable, SetVerifiedAt,
                CheckLoad, Enter, Disable, DeleteCodes, MfaFails
  <2>2. Takers \subseteq Takers'
    <3> SUFFICES ASSUME NEW d \in FactorChecks, factor[d].pc \notin {"new", "code"}
                 PROVE  factor'[d].pc \notin {"new", "code"}
      BY DEF Takers
    <3>1. CASE factor'[d] = factor[d]
      BY <3>1
    <3>2. ASSUME NEW c \in FactorChecks, CheckLoad(c)
          PROVE  factor'[d].pc \notin {"new", "code"}
      <4>1. Steps(c, "passed") \/ Steps(c, "code")
        BY <3>2, Moves DEF CheckLoad, Marks
      <4>2. d # c
        BY <3>2 DEF CheckLoad
      <4>3. QED
        BY <4>1, <4>2 DEF Steps
    <3>3. ASSUME NEW c \in MfaCalls, Steps(c, "over") \/ Steps(c, "codes") \/ Steps(c, "drop")
          PROVE  factor'[d].pc \notin {"new", "code"}
      BY <3>3 DEF Steps
    <3>4. ASSUME NEW c \in Confirmations, ConfirmLoad(c) \/ Enable(c)
          PROVE  factor'[d] = factor[d]
      <4>1. Steps(c, "passed") \/ Steps(c, "stamp")
        BY <3>4, Moves, Enabling DEF ConfirmLoad, Marks
      <4>2. QED
        BY <4>1 DEF Steps
    <3>5. \A c \in MfaCalls : Over(c) => Steps(c, "over")
      BY Moves DEF Marks
    <3>6. \A c \in MfaCalls : Step(c, "codes") => Steps(c, "codes")
      BY Moves DEF Marks
    <3>7. \A c \in MfaCalls : Step(c, "drop") => Steps(c, "drop")
      BY Moves DEF Marks
    <3>8. QED
      BY <1>5, <3>1, <3>2, <3>3, <3>4, <3>5, <3>6, <3>7
      DEF MfaNext, SetSecret, CreateCodes, SetVerifiedAt, Enter, Disable, DeleteCodes, MfaFails
  <2>3. Cardinality(Takers) <= Cardinality(Takers')
    BY <1>2, <2>2, FS_Subset
  <2>4. QED
    BY <1>3, <2>1, <2>3
<1>6. QED
  BY <1>4, <1>5

-----------------------------------------------------------------------------

LEMMA MfaInvInit == MfaInit => MfaInv
<1> SUFFICES ASSUME MfaInit PROVE MfaInv
  OBVIOUS
<1> USE CallsAre DEF MfaInit
<1>1. MfaTypes
  BY DEF MfaTypes
<1>2. \A c \in MfaCalls : factor[c].pc = "new"
  OBVIOUS
<1>3. Places
  BY <1>2 DEF Places
<1>4. CodesAreOnce
  BY <1>2 DEF CodesAreOnce, InHand
<1>5. InOrder
  BY <1>2 DEF InOrder, Dropping, UnderWay
<1>6. \A k \in Code : taken[k] <= Cardinality(Takers)
  <2>1. Takers = {}
    BY <1>2 DEF Takers
  <2>2. QED
    BY <2>1, FS_EmptySet
<1>7. QED
  BY <1>1, <1>3, <1>4, <1>5, <1>6 DEF MfaInv

LEMMA MfaInvNext == MfaInv /\ [MfaNext]_mfaVars => MfaInv'
<1> SUFFICES ASSUME MfaInv, [MfaNext]_mfaVars PROVE MfaInv'
  OBVIOUS
<1>1. MfaTypes'
  BY MfaTypesNext DEF MfaInv
<1>2. CASE MfaNext
  <2>1. Places'
    BY <1>1, <1>2, PlacesNext DEF MfaInv
  <2>2. CodesAreOnce'
    BY <1>1, <1>2, CodesNext DEF MfaInv
  <2>3. (~ crossed => InOrder)'
    BY <1>1, <1>2, OrderNext DEF MfaInv
  <2>4. \A k \in Code : taken'[k] <= Cardinality(Takers')
    BY <1>2, TakersNext DEF MfaInv
  <2>5. QED
    BY <1>1, <2>1, <2>2, <2>3, <2>4 DEF MfaInv
<1>3. CASE UNCHANGED mfaVars
  BY <1>3 DEF mfaVars, MfaInv, MfaTypes, Places, CodesAreOnce, InHand, InOrder, Dropping, UnderWay, Takers
<1>4. QED
  BY <1>2, <1>3

LEMMA MfaInvMeans == MfaInv => MfaSafe /\ MfaTypeOK
<1> SUFFICES ASSUME MfaInv PROVE MfaSafe /\ MfaTypeOK
  OBVIOUS
<1> USE CallsAre DEF MfaInv
<1>1. CodeOnce
  BY DEF CodeOnce, CodesAreOnce
<1>2. CanBeMet
  BY DEF CanBeMet, InOrder, UnderWay
<1>3. OffIsOff
  BY DEF OffIsOff, InOrder, UnderWay, Dropping
<1>4. taken \in [Code -> 0 .. Cardinality(FactorChecks)]
  <2>1. IsFiniteSet(FactorChecks) /\ Takers \subseteq FactorChecks
    BY MfaAssumption DEF FactorChecks, Takers
  <2>2. Cardinality(Takers) \in Nat /\ Cardinality(FactorChecks) \in Nat
        /\ Cardinality(Takers) <= Cardinality(FactorChecks)
    BY <2>1, FS_Subset, FS_CardinalityType
  <2>3. \A k \in Code : taken[k] \in 0 .. Cardinality(FactorChecks)
    BY <2>2 DEF MfaTypes
  <2>4. QED
    BY <2>3 DEF MfaTypes
<1>5. MfaTypeOK
  BY <1>4 DEF MfaTypes, MfaTypeOK
<1>6. QED
  BY <1>1, <1>2, <1>3, <1>5 DEF MfaSafe

(***************************************************************************)
(* However enrolments, entries, renewals and removals of the factor        *)
(* interleave: a recovery code lets in once unless two calls compared it   *)
(* at a time; and unless a call wrote a user whom another had just         *)
(* changed, or died half-way, who is asked for a code can answer and       *)
(* nothing is left of a factor that was turned off                         *)
(* (services/auth/mfa_service.py).                                         *)
(***************************************************************************)
THEOREM FactorSafe == MfaSpec => []MfaSafe
<1>1. MfaInv => MfaSafe
  BY MfaInvMeans
<1>2. QED
  BY <1>1, MfaInvInit, MfaInvNext, PTL DEF MfaSpec

-----------------------------------------------------------------------------
(* Tokens and wrong passwords *)

Labels == {"new", "password", "lock", "limit", "trim", "find", "store",
           "clear", "delete", "revoke", "done", "failed"}

AuthRecord == [pc: Labels, seen: Nat, tries: Nat, dirty: BOOLEAN, epoch: Nat]

(* The calls that write tokens, or count. *)
AtTokens == Working \ PasswordResets

RowsAreOnce ==
    /\ \A r \in rows : 1 <= r.n /\ r.n <= made /\ r.epoch <= epoch
    /\ \A c \in AuthCalls : auth[c].epoch <= epoch
    /\ \A e \in challenge : e <= epoch

(***************************************************************************)
(* As long as they do not overlap there is one row at most, a call creates *)
(* one when there is none, and the counter is the one it has loaded.       *)
(***************************************************************************)
Alone ==
    /\ \A c, d \in AtTokens : c = d
    /\ \A r, s \in rows : r = s
    /\ \A c \in AtTokens : auth[c].pc = "store" /\ auth[c].seen = 0 => rows = {}
    /\ wrong <= failed
    /\ \A c \in AtTokens : auth[c].pc = "password" => auth[c].tries = failed
    /\ wrong < Threshold \/ \E c \in Logins : auth[c].pc = "lock"

Resetting == \E c \in PasswordResets : auth[c].pc = "revoke"

(* No session, none on its way and no mfa_token is of an older password. *)
UpToDate ==
    /\ \A r \in rows : r.epoch = epoch
    /\ \A c \in Working \cap Issuers : auth[c].epoch = epoch
    /\ \A e \in challenge : e = epoch

AuthInv ==
    /\ AuthTypeOK
    /\ RowsAreOnce
    /\ ~ entwined => Alone
    /\ ~ outlived /\ ~ Resetting => UpToDate

(***************************************************************************)
(* The call c stands at the label pc, and the others are where they were.  *)
(***************************************************************************)
AuthGoes(c, pc) ==
    /\ auth' \in [AuthCalls -> AuthRecord]
    /\ auth'[c].pc = pc
    /\ \A d \in AuthCalls : d # c => auth'[d] = auth[d]

LEMMA CallsOfAuth ==
    /\ Logins \subseteq Issuers /\ Refreshes \subseteq Issuers /\ Issuers \subseteq AuthCalls
    /\ Challenges \subseteq Issuers /\ SocialLogins \subseteq Issuers
    /\ Logouts \subseteq AuthCalls /\ PasswordResets \subseteq AuthCalls
    /\ Issuers \cap Logouts = {} /\ Issuers \cap PasswordResets = {}
    /\ Logouts \cap PasswordResets = {}
  BY SessionsAssumption, Zenon DEF AuthCalls, Issuers

LEMMA Going ==
  ASSUME AuthTypeOK, NEW c \in AuthCalls, NEW pc \in Labels, AGoto(c, pc)
  PROVE  /\ AuthGoes(c, pc)
         /\ auth'[c].seen = auth[c].seen
         /\ auth'[c].tries = auth[c].tries
         /\ auth'[c].epoch = auth[c].epoch
<1>1. auth \in [AuthCalls -> AuthRecord] /\ auth[c] \in AuthRecord
  BY DEF AuthTypeOK, AuthRecord, Labels
<1>2. auth' = [auth EXCEPT ![c] = [auth[c] EXCEPT !.pc = pc]]
  BY DEF AGoto
<1>3. [auth[c] EXCEPT !.pc = pc] \in AuthRecord
  BY <1>1 DEF AuthRecord
<1>4. auth'[c] = [auth[c] EXCEPT !.pc = pc]
  BY <1>1, <1>2
<1>5. /\ [auth[c] EXCEPT !.pc = pc].pc = pc
      /\ [auth[c] EXCEPT !.pc = pc].seen = auth[c].seen
      /\ [auth[c] EXCEPT !.pc = pc].tries = auth[c].tries
      /\ [auth[c] EXCEPT !.pc = pc].epoch = auth[c].epoch
  BY <1>1 DEF AuthRecord
<1>6. QED
  BY <1>1, <1>2, <1>3, <1>4, <1>5 DEF AuthGoes

LEMMA Loading ==
  ASSUME AuthTypeOK, NEW c \in AuthCalls, LoadUser(c)
  PROVE  AuthGoes(c, "password") /\ auth'[c].tries = failed /\ auth'[c].epoch = epoch
<1>1. auth \in [AuthCalls -> AuthRecord] /\ auth[c] \in AuthRecord /\ failed \in Nat /\ epoch \in Nat
  BY DEF AuthTypeOK, AuthRecord, Labels
<1> DEFINE x == failed # 0 \/ lock # "none"
           r == [auth[c] EXCEPT !.pc = "password", !.tries = failed, !.epoch = epoch, !.dirty = x]
<1>2. x \in BOOLEAN
  OBVIOUS
<1>3. auth' = [auth EXCEPT ![c] = r]
  BY <1>1 DEF LoadUser
<1> HIDE DEF x
<1>4. r \in AuthRecord /\ r.pc = "password" /\ r.tries = failed /\ r.epoch = epoch
  BY <1>1, <1>2 DEF AuthRecord, Labels
<1> HIDE DEF r
<1>5. QED
  BY <1>1, <1>3, <1>4 DEF AuthGoes

LEMMA Finding ==
  ASSUME AuthTypeOK, RowsAreOnce, NEW c \in AuthCalls, FindToken(c)
  PROVE  /\ AuthGoes(c, "store")
         /\ auth'[c].epoch = auth[c].epoch
         /\ auth'[c].seen = 0 => rows = {}
<1>1. auth \in [AuthCalls -> AuthRecord] /\ auth[c] \in AuthRecord
  BY DEF AuthTypeOK, AuthRecord, Labels
<1>2. PICK n \in Nat : /\ n = 0 => rows = {}
                       /\ auth' = [auth EXCEPT ![c].pc = "store", ![c].seen = n]
  <2>1. CASE rows = {} /\ auth' = [auth EXCEPT ![c].pc = "store", ![c].seen = 0]
    BY <2>1
  <2>2. ASSUME NEW r \in Newest(rows), auth' = [auth EXCEPT ![c].pc = "store", ![c].seen = r.n]
        PROVE  \E n \in Nat : /\ n = 0 => rows = {}
                              /\ auth' = [auth EXCEPT ![c].pc = "store", ![c].seen = n]
    <3>1. r \in rows /\ r.n \in Nat /\ 1 <= r.n
      BY <2>2 DEF Newest, AuthTypeOK, Row, RowsAreOnce
    <3>2. r.n # 0
      BY <3>1
    <3>3. QED
      BY <2>2, <3>1, <3>2
  <2>3. QED
    BY <2>1, <2>2 DEF FindToken
<1> DEFINE r == [auth[c] EXCEPT !.pc = "store", !.seen = n]
<1>3. auth' = [auth EXCEPT ![c] = r]
  BY <1>1, <1>2
<1>4. r \in AuthRecord /\ r.pc = "store" /\ r.seen = n /\ r.epoch = auth[c].epoch
  BY <1>1 DEF AuthRecord, Labels
<1> HIDE DEF r
<1>5. QED
  BY <1>1, <1>2, <1>3, <1>4 DEF AuthGoes

(* The calls that issue a token without a password to look at. *)
Enters(c) ==
    \/ c \in Refreshes /\ VerifyRefresh(c)
    \/ c \in Challenges /\ VerifyChallenge(c)
    \/ c \in SocialLogins /\ SocialLogin(c)

LEMMA Entering ==
  ASSUME AuthTypeOK, NEW c, Enters(c)
  PROVE  /\ c \in Issuers /\ auth[c].pc = "new" /\ AuthGoes(c, "limit")
         /\ \/ \E r \in rows : auth'[c].epoch = r.epoch
            \/ auth'[c].epoch \in challenge
            \/ auth'[c].epoch = epoch
         /\ UNCHANGED <<rows, made, epoch, failed, lock, challenge, outlived, wrong>>
         /\ entwined' = (entwined \/ Working # {})
<1>0. c \in Issuers /\ c \in AuthCalls
  BY CallsOfAuth DEF Enters
<1>1. auth \in [AuthCalls -> AuthRecord] /\ auth[c] \in AuthRecord
  BY <1>0 DEF AuthTypeOK, AuthRecord, Labels
<1>2. PICK e \in Nat : /\ (\E r \in rows : e = r.epoch) \/ e \in challenge \/ e = epoch
                       /\ auth' = [auth EXCEPT ![c].pc = "limit", ![c].epoch = e]
  <2>1. CASE VerifyRefresh(c)
    <3>1. PICK r \in rows : auth' = [auth EXCEPT ![c].pc = "limit", ![c].epoch = r.epoch]
      BY <2>1 DEF VerifyRefresh, Newest
    <3>2. r.epoch \in Nat
      BY DEF AuthTypeOK, Row
    <3>3. QED
      BY <3>1, <3>2
  <2>2. CASE VerifyChallenge(c)
    <3>1. PICK e \in challenge : auth' = [auth EXCEPT ![c].pc = "limit", ![c].epoch = e]
      BY <2>2 DEF VerifyChallenge
    <3>2. e \in Nat
      BY DEF AuthTypeOK
    <3>3. QED
      BY <3>1, <3>2
  <2>3. CASE SocialLogin(c)
    BY <2>3 DEF SocialLogin, AuthTypeOK
  <2>4. QED
    BY <2>1, <2>2, <2>3 DEF Enters
<1> DEFINE q == [auth[c] EXCEPT !.pc = "limit", !.epoch = e]
<1>3. auth' = [auth EXCEPT ![c] = q]
  BY <1>0, <1>1, <1>2
<1>4. q \in AuthRecord /\ q.pc = "limit" /\ q.epoch = e
  BY <1>1, <1>2 DEF AuthRecord, Labels
<1> HIDE DEF q
<1>5. AuthGoes(c, "limit") /\ auth'[c].epoch = e
  BY <1>0, <1>1, <1>3, <1>4 DEF AuthGoes
<1>6. /\ auth[c].pc = "new" /\ entwined' = (entwined \/ Working # {})
      /\ UNCHANGED <<rows, made, epoch, failed, lock, challenge, outlived, wrong>>
  BY Zenon DEF Enters, VerifyRefresh, VerifyChallenge, SocialLogin
<1>7. QED
  BY <1>0, <1>2, <1>5, <1>6

LEMMA Leaving ==
  ASSUME AuthTypeOK, NEW c \in AuthCalls, VerifyLogout(c)
  PROVE  AuthGoes(c, "delete") /\ auth'[c].epoch = auth[c].epoch
<1>1. auth \in [AuthCalls -> AuthRecord] /\ auth[c] \in AuthRecord
  BY DEF AuthTypeOK, AuthRecord, Labels
<1>2. PICK r \in rows : auth' = [auth EXCEPT ![c].pc = "delete", ![c].seen = r.n]
  BY DEF VerifyLogout, Newest
<1>3. r.n \in Nat
  BY DEF AuthTypeOK, Row
<1> DEFINE q == [auth[c] EXCEPT !.pc = "delete", !.seen = r.n]
<1>4. auth' = [auth EXCEPT ![c] = q]
  BY <1>1, <1>2
<1>5. q \in AuthRecord /\ q.pc = "delete" /\ q.epoch = auth[c].epoch
  BY <1>1, <1>3 DEF AuthRecord, Labels
<1> HIDE DEF q
<1>6. QED
  BY <1>1, <1>4, <1>5 DEF AuthGoes

-----------------------------------------------------------------------------

(***************************************************************************)
(* Every step moves one call, or none; epochs and numbers stay in bounds.  *)
(***************************************************************************)
LEMMA AuthTypesNext ==
  ASSUME AuthTypeOK, RowsAreOnce, AuthNext
  PROVE  AuthTypeOK' /\ RowsAreOnce'
<1> USE CallsOfAuth
<1>t. /\ rows \subseteq Row /\ made \in Nat /\ epoch \in Nat /\ failed \in Nat /\ wrong \in Nat
      /\ auth \in [AuthCalls -> AuthRecord]
      /\ \A r, s \in rows : r.n = s.n => r = s
      /\ lock \in {"none", "locked", "over"} /\ entwined \in BOOLEAN /\ outlived \in BOOLEAN
      /\ challenge \subseteq Nat /\ \A e \in challenge : e <= epoch
  BY DEF RowsAreOnce, AuthTypeOK, AuthRecord, Labels
<1>a. ASSUME auth' \in [AuthCalls -> AuthRecord], rows' \subseteq Row,
             \A r, s \in rows' : r.n = s.n => r = s,
             made' \in Nat, epoch' \in Nat, failed' \in Nat, wrong' \in Nat,
             lock' \in {"none", "locked", "over"}, entwined' \in BOOLEAN, outlived' \in BOOLEAN,
             challenge' \subseteq Nat
      PROVE  AuthTypeOK'
  BY <1>a DEF AuthTypeOK, AuthRecord, Labels
<1>e. \A c \in AuthCalls : auth[c].epoch \in Nat /\ auth[c].tries \in Nat
  BY <1>t DEF AuthRecord
<1>n. \A r \in rows : r.n \in Nat /\ r.epoch \in Nat /\ r.n <= made /\ 1 <= r.n /\ r.epoch <= epoch
  BY <1>t DEF Row, RowsAreOnce
<1>g. ASSUME NEW c \in AuthCalls, NEW pc, AuthGoes(c, pc), auth'[c].epoch <= epoch', epoch' = epoch
      PROVE  \A d \in AuthCalls : auth'[d].epoch <= epoch'
  BY <1>g DEF AuthGoes, RowsAreOnce
<1>1. ASSUME NEW c \in Logins, LoadUser(c)
      PROVE  AuthTypeOK' /\ RowsAreOnce'
  <2>1. AuthGoes(c, "password") /\ auth'[c].epoch = epoch
    BY <1>1, Loading
  <2>2. UNCHANGED <<rows, made, epoch, failed, lock, outlived, wrong, challenge>> /\ entwined' \in BOOLEAN
    BY <1>1, <1>t DEF LoadUser
  <2>3. \A d \in AuthCalls : auth'[d].epoch <= epoch'
    BY <2>1, <2>2, <1>t, <1>g
  <2>4. QED
    BY <2>1, <2>2, <2>3, <1>t, <1>a, <1>n DEF AuthGoes, RowsAreOnce
<1>2. ASSUME NEW c \in Logins, RightPassword(c) \/ WrongPassword(c) \/ LockUserAccount(c) \/ ResetLoginAttempts(c)
      PROVE  AuthTypeOK' /\ RowsAreOnce'
  <2>1. PICK pc \in Labels : AGoto(c, pc)
    <3>1. WrongPassword(c) => AGoto(c, "lock") \/ AGoto(c, "done")
      BY DEF WrongPassword
    <3>2. QED
      BY <1>2, <3>1 DEF RightPassword, LockUserAccount, ResetLoginAttempts, Labels
  <2>2. AuthGoes(c, pc) /\ auth'[c].epoch = auth[c].epoch
    BY <2>1, Going
  <2>3. UNCHANGED <<rows, made, epoch, entwined, outlived, challenge>>
    BY <1>2 DEF RightPassword, WrongPassword, LockUserAccount, ResetLoginAttempts
  <2>4. failed' \in Nat /\ wrong' \in Nat /\ lock' \in {"none", "locked", "over"}
    BY <1>2, <1>t, <1>e DEF RightPassword, WrongPassword, LockUserAccount, ResetLoginAttempts
  <2>5. \A d \in AuthCalls : auth'[d].epoch <= epoch'
    BY <2>2, <2>3, <1>g DEF RowsAreOnce
  <2>6. QED
    BY <2>2, <2>3, <2>4, <2>5, <1>t, <1>a, <1>n DEF AuthGoes, RowsAreOnce
<1>3. ASSUME NEW c \in Issuers, CountSessions(c) \/ RevokeOldest(c) \/ FindToken(c)
      PROVE  AuthTypeOK' /\ RowsAreOnce'
  <2>1. PICK pc : AuthGoes(c, pc) /\ auth'[c].epoch = auth[c].epoch
    <3>1. CountSessions(c) => AGoto(c, "find") \/ AGoto(c, "trim")
      BY DEF CountSessions
    <3>2. RevokeOldest(c) => AGoto(c, "find")
      BY DEF RevokeOldest
    <3>3. "find" \in Labels /\ "trim" \in Labels
      BY DEF Labels
    <3>4. QED
      BY <1>3, <3>1, <3>2, <3>3, Going, Finding
  <2>2. rows' \subseteq rows
    BY <1>3 DEF CountSessions, RevokeOldest, FindToken
  <2>3. UNCHANGED <<made, epoch, failed, lock, entwined, outlived, wrong, challenge>>
    BY <1>3 DEF CountSessions, RevokeOldest, FindToken
  <2>4. \A d \in AuthCalls : auth'[d].epoch <= epoch'
    BY <2>1, <2>3, <1>g DEF RowsAreOnce
  <2>5. rows' \subseteq Row /\ \A r, s \in rows' : r.n = s.n => r = s
    BY <2>2, <1>t
  <2>6. QED
    BY <2>1, <2>2, <2>3, <2>4, <2>5, <1>t, <1>a, <1>n DEF AuthGoes, RowsAreOnce
<1>4. ASSUME NEW c \in Issuers, CreateToken(c) \/ UpdateExistingToken(c)
      PROVE  AuthTypeOK' /\ RowsAreOnce'
  <2>1. PICK pc \in Labels : AGoto(c, pc)
    BY <1>4 DEF CreateToken, UpdateExistingToken, Stored, Labels
  <2>2. AuthGoes(c, pc) /\ auth'[c].epoch = auth[c].epoch
    BY <2>1, Going
  <2>3. UNCHANGED <<epoch, failed, lock, entwined, outlived, wrong, challenge>>
    BY <1>4 DEF CreateToken, UpdateExistingToken
  <2>4. \A d \in AuthCalls : auth'[d].epoch <= epoch'
    BY <2>2, <2>3, <1>g DEF RowsAreOnce
  <2>5. auth[c].epoch \in Nat /\ auth[c].epoch <= epoch
    BY <1>e DEF RowsAreOnce
  <2>6. made' \in Nat /\ rows' \subseteq Row /\ (\A r, s \in rows' : r.n = s.n => r = s)
        /\ \A r \in rows' : 1 <= r.n /\ r.n <= made' /\ r.epoch <= epoch
    <3>1. CASE CreateToken(c)
      <4> DEFINE q == [n |-> made + 1, token |-> c, epoch |-> auth[c].epoch]
      <4>1. rows' = rows \cup {q} /\ made' = made + 1
        BY <3>1 DEF CreateToken
      <4>2. q \in Row /\ q.n = made + 1 /\ q.epoch = auth[c].epoch
        BY <1>t, <2>5 DEF Row
      <4> HIDE DEF q
      <4>3. \A r \in rows : r.n # q.n
        BY <1>n, <1>t, <4>2
      <4>4. \A r \in rows' : 1 <= r.n /\ r.n <= made' /\ r.epoch <= epoch
        BY <4>1, <4>2, <2>5, <1>n, <1>t
      <4>5. \A r, s \in rows' : r.n = s.n => r = s
        BY <4>1, <4>3, <1>t
      <4>6. QED
        BY <4>1, <4>2, <4>4, <4>5, <1>t
    <3>2. CASE UpdateExistingToken(c)
      <4>1. PICK r0 \in rows : rows' = (rows \ {r0}) \cup {[n |-> r0.n, token |-> c, epoch |-> auth[c].epoch]}
        BY <3>2 DEF UpdateExistingToken
      <4> DEFINE q == [n |-> r0.n, token |-> c, epoch |-> auth[c].epoch]
      <4>2. q \in Row /\ q.n = r0.n /\ q.epoch = auth[c].epoch
        BY <1>t, <1>n, <2>5 DEF Row
      <4>3. rows' = (rows \ {r0}) \cup {q} /\ made' = made
        BY <4>1, <3>2 DEF UpdateExistingToken
      <4> HIDE DEF q
      <4>4. \A r \in rows \ {r0} : r.n # q.n
        BY <1>t, <4>2
      <4>5. \A r \in rows' : 1 <= r.n /\ r.n <= made' /\ r.epoch <= epoch
        BY <4>3, <4>2, <2>5, <1>n, <1>t
      <4>6. \A r, s \in rows' : r.n = s.n => r = s
        BY <4>3, <4>4, <1>t
      <4>7. QED
        BY <4>2, <4>3, <4>5, <4>6, <1>t
    <3>3. QED
      BY <1>4, <3>1, <3>2
  <2>7. QED
    BY <2>2, <2>3, <2>4, <2>6, <1>t, <1>a DEF AuthGoes, RowsAreOnce
<1>5. ASSUME NEW c, Enters(c)
      PROVE  AuthTypeOK' /\ RowsAreOnce'
  <2>1. /\ c \in AuthCalls /\ AuthGoes(c, "limit")
        /\ (\E r \in rows : auth'[c].epoch = r.epoch) \/ auth'[c].epoch \in challenge \/ auth'[c].epoch = epoch
    BY <1>5, Entering
  <2>2. UNCHANGED <<rows, made, epoch, failed, lock, outlived, wrong, challenge>> /\ entwined' \in BOOLEAN
    BY <1>5, <1>t, Entering
  <2>3. auth'[c].epoch <= epoch
    <3> DEFINE e == auth'[c].epoch
    <3>1. (\E r \in rows : e = r.epoch) \/ e \in challenge \/ e = epoch
      BY <2>1
    <3> HIDE DEF e
    <3>2. (\E r \in rows : e = r.epoch) => e <= epoch
      BY <1>n
    <3>3. e \in challenge => e <= epoch
      BY <1>t
    <3>4. epoch <= epoch
      BY <1>t
    <3>5. e <= epoch
      BY <3>1, <3>2, <3>3, <3>4
    <3>6. QED
      BY <3>5 DEF e
  <2>4. \A d \in AuthCalls : auth'[d].epoch <= epoch'
    BY <2>1, <2>2, <2>3, <1>g
  <2>5. QED
    BY <2>1, <2>2, <2>4, <1>t, <1>a, <1>n DEF AuthGoes, RowsAreOnce
<1>6. ASSUME NEW c \in Logouts, VerifyLogout(c)
      PROVE  AuthTypeOK' /\ RowsAreOnce'
  <2>1. AuthGoes(c, "delete") /\ auth'[c].epoch = auth[c].epoch
    BY <1>6, Leaving
  <2>2. UNCHANGED <<rows, made, epoch, failed, lock, outlived, wrong, challenge>> /\ entwined' \in BOOLEAN
    BY <1>6, <1>t DEF VerifyLogout
  <2>3. \A d \in AuthCalls : auth'[d].epoch <= epoch'
    BY <2>1, <2>2, <1>g DEF RowsAreOnce
  <2>4. QED
    BY <2>1, <2>2, <2>3, <1>t, <1>a, <1>n DEF AuthGoes, RowsAreOnce
<1>7. ASSUME NEW c \in AuthCalls, RevokeToken(c) \/ RevokeAllTokens(c)
      PROVE  AuthTypeOK' /\ RowsAreOnce'
  <2>1. AuthGoes(c, "done") /\ auth'[c].epoch = auth[c].epoch
    BY <1>7, Going DEF RevokeToken, RevokeAllTokens, Labels
  <2>2. UNCHANGED <<made, epoch, failed, lock, entwined, wrong, challenge>> /\ outlived' \in BOOLEAN
    BY <1>7, <1>t DEF RevokeToken, RevokeAllTokens
  <2>3. rows' \subseteq rows
    BY <1>7 DEF RevokeToken, RevokeAllTokens
  <2>4. \A d \in AuthCalls : auth'[d].epoch <= epoch'
    BY <2>1, <2>2, <1>g DEF RowsAreOnce
  <2>5. rows' \subseteq Row /\ \A r, s \in rows' : r.n = s.n => r = s
    BY <2>3, <1>t
  <2>6. QED
    BY <2>1, <2>2, <2>3, <2>4, <2>5, <1>t, <1>a, <1>n DEF AuthGoes, RowsAreOnce
<1>8. ASSUME NEW c \in PasswordResets, UpdatePasswordHash(c)
      PROVE  AuthTypeOK' /\ RowsAreOnce'
  <2>1. AuthGoes(c, "revoke") /\ auth'[c].epoch = auth[c].epoch
    BY <1>8, Going DEF UpdatePasswordHash, Labels
  <2>2. UNCHANGED <<rows, made, failed, lock, entwined, outlived, wrong, challenge>> /\ epoch' = epoch + 1
    BY <1>8 DEF UpdatePasswordHash
  <2>3. \A d \in AuthCalls : auth'[d].epoch = auth[d].epoch
    BY <2>1 DEF AuthGoes
  <2>4. \A d \in AuthCalls : auth'[d].epoch <= epoch'
    BY <2>2, <2>3, <1>e, <1>t DEF RowsAreOnce
  <2>5. (\A r \in rows : r.epoch <= epoch') /\ \A e \in challenge : e <= epoch'
    BY <2>2, <1>n, <1>t
  <2>6. QED
    BY <2>1, <2>2, <2>4, <2>5, <1>t, <1>a, <1>n DEF AuthGoes, RowsAreOnce
<1>9. ASSUME NEW c \in AuthCalls, AuthFails(c)
      PROVE  AuthTypeOK' /\ RowsAreOnce'
  <2>1. AuthGoes(c, "failed") /\ auth'[c].epoch = auth[c].epoch
    BY <1>9, Going DEF AuthFails, Labels
  <2>2. UNCHANGED <<rows, made, epoch, failed, lock, wrong, challenge>> /\ entwined' \in BOOLEAN /\ outlived' \in BOOLEAN
    BY <1>9, <1>t DEF AuthFails
  <2>3. \A d \in AuthCalls : auth'[d].epoch <= epoch'
    BY <2>1, <2>2, <1>g DEF RowsAreOnce
  <2>4. QED
    BY <2>1, <2>2, <2>3, <1>t, <1>a, <1>n DEF AuthGoes, RowsAreOnce
<1>10. CASE LockEnds
  BY <1>10, <1>t, <1>a DEF LockEnds, RowsAreOnce
<1>11. CASE RevokeSessions
  BY <1>11, <1>t, <1>a DEF RevokeSessions, RowsAreOnce
<1>12. ASSUME NEW c \in Logins, AskForFactor(c)
       PROVE  AuthTypeOK' /\ RowsAreOnce'
  <2>1. AuthGoes(c, "done") /\ auth'[c].epoch = auth[c].epoch
    BY <1>12, Going DEF AskForFactor, Labels
  <2>2. /\ UNCHANGED <<rows, made, epoch, failed, lock, entwined, outlived, wrong>>
        /\ challenge' = challenge \cup {auth[c].epoch}
    BY <1>12 DEF AskForFactor
  <2>3. \A d \in AuthCalls : auth'[d].epoch <= epoch'
    BY <2>1, <2>2, <1>g DEF RowsAreOnce
  <2>4. challenge' \subseteq Nat /\ \A e \in challenge' : e <= epoch'
    BY <2>2, <1>e, <1>t DEF RowsAreOnce
  <2>5. QED
    BY <2>1, <2>2, <2>3, <2>4, <1>t, <1>a, <1>n DEF AuthGoes, RowsAreOnce
<1>13. ASSUME NEW e \in challenge, ChallengeExpires(e)
       PROVE  AuthTypeOK' /\ RowsAreOnce'
  BY <1>13, <1>t, <1>a DEF ChallengeExpires, RowsAreOnce
<1>14. QED
  BY <1>1, <1>2, <1>3, <1>4, <1>5, <1>6, <1>7, <1>8, <1>9, <1>10, <1>11, <1>12, <1>13 DEF AuthNext, Enters

-----------------------------------------------------------------------------

LEMMA AloneNext ==
  ASSUME AuthTypeOK, RowsAreOnce, entwined \/ Alone, AuthNext, ~ entwined'
  PROVE  Alone'
<1> USE CallsOfAuth
<1>t. /\ failed \in Nat /\ wrong \in Nat /\ Threshold \in Nat /\ 0 < Threshold
      /\ auth \in [AuthCalls -> AuthRecord]
  BY SessionsAssumption DEF AuthTypeOK, AuthRecord, Labels
<1>w. \A c \in AuthCalls : c \in AtTokens <=> /\ auth[c].pc \notin {"new", "done", "failed"}
                                              /\ c \notin PasswordResets
  BY DEF AtTokens, Working
<1>v. \A c \in AuthCalls : c \in AtTokens' <=> /\ auth'[c].pc \notin {"new", "done", "failed"}
                                               /\ c \notin PasswordResets
  BY DEF AtTokens, Working
<1>u. AtTokens \subseteq AuthCalls /\ AtTokens' \subseteq AuthCalls
  BY DEF AtTokens, Working
<1>l. \A c \in Logins : auth[c].pc = "lock" => c \in AtTokens
  BY <1>w
(* A call that starts, alone. *)
<1>s. ASSUME NEW c \in AuthCalls, NEW pc, AuthGoes(c, pc), pc \notin {"store", "lock"}, Alone, Working = {},
             pc = "password" => auth'[c].tries = failed,
             UNCHANGED <<rows, failed, wrong>>
      PROVE  Alone'
  <2>1. AtTokens' \subseteq {c}
    BY <1>s, <1>u, <1>v DEF AuthGoes, Working
  <2>2. wrong < Threshold
    BY <1>s, <1>l DEF Alone, AtTokens
  <2>3. QED
    BY <1>s, <2>1, <2>2 DEF Alone, AuthGoes
(* A call that goes on, alone, where the others look on. *)
<1>g. ASSUME NEW c \in AtTokens, NEW pc, AuthGoes(c, pc), Alone
      PROVE  /\ AtTokens = {c} /\ AtTokens' \subseteq {c}
             /\ auth[c].pc # "lock" => wrong < Threshold
  <2>1. AtTokens = {c}
    BY <1>g DEF Alone
  <2>2. AtTokens' \subseteq {c}
    BY <1>g, <2>1, <1>u, <1>v, <1>w DEF AuthGoes
  <2>3. auth[c].pc # "lock" => \A d \in Logins : auth[d].pc # "lock"
    BY <2>1, <1>l
  <2>4. QED
    BY <1>g, <2>1, <2>2, <2>3 DEF Alone
<1>1. ASSUME NEW c \in Logins, LoadUser(c)
      PROVE  Alone'
  <2>1. AuthGoes(c, "password") /\ auth'[c].tries = failed
    BY <1>1, Loading
  <2>2. Working = {} /\ Alone /\ UNCHANGED <<rows, failed, wrong>>
    BY <1>1 DEF LoadUser
  <2>3. QED
    BY <2>1, <2>2, <1>s
<1>2. ASSUME NEW c, Enters(c)
      PROVE  Alone'
  <2>1. c \in AuthCalls /\ AuthGoes(c, "limit")
    BY <1>2, Entering
  <2>2. Working = {} /\ Alone /\ UNCHANGED <<rows, failed, wrong>>
    BY <1>2, Entering
  <2>3. QED
    BY <2>1, <2>2, <1>s
<1>3. ASSUME NEW c \in Logouts, VerifyLogout(c)
      PROVE  Alone'
  <2>1. AuthGoes(c, "delete")
    BY <1>3, Leaving
  <2>2. Working = {} /\ Alone /\ UNCHANGED <<rows, failed, wrong>>
    BY <1>3 DEF VerifyLogout
  <2>3. QED
    BY <2>1, <2>2, <1>s
<1>4. ASSUME NEW c \in Logins, RightPassword(c) \/ AskForFactor(c)
      PROVE  Alone'
  <2>1. PICK pc \in {"limit", "done"} : AuthGoes(c, pc)
    BY <1>4, Going DEF RightPassword, AskForFactor, Labels
  <2>2. c \in AtTokens /\ auth[c].pc # "lock" /\ Alone /\ UNCHANGED <<rows, failed, wrong>>
    BY <1>4, <1>w DEF RightPassword, AskForFactor
  <2>3. AtTokens' \subseteq {c} /\ wrong < Threshold
    BY <2>1, <2>2, <1>g
  <2>4. QED
    BY <2>1, <2>2, <2>3 DEF Alone, AuthGoes
<1>5. ASSUME NEW c \in Logins, WrongPassword(c)
      PROVE  Alone'
  <2>1. c \in AtTokens /\ auth[c].pc = "password" /\ Alone /\ rows' = rows
    BY <1>5, <1>w DEF WrongPassword
  <2>2. auth[c].tries = failed
    BY <2>1 DEF Alone
  <2>3. failed' = failed + 1 /\ wrong' = wrong + 1 /\ wrong <= failed
    BY <1>5, <2>1, <2>2 DEF WrongPassword, Alone
  <2>4. CASE failed' >= Threshold
    <3>1. AuthGoes(c, "lock")
      BY <1>5, <2>4, Going DEF WrongPassword, Labels
    <3>2. AtTokens' \subseteq {c} /\ auth'[c].pc = "lock"
      BY <2>1, <3>1, <1>g DEF AuthGoes
    <3>3. wrong' <= failed'
      BY <2>3, <1>t
    <3>4. QED
      BY <1>5, <2>1, <3>2, <3>3 DEF Alone
  <2>5. CASE ~ failed' >= Threshold
    <3>1. AuthGoes(c, "done")
      BY <1>5, <2>5, Going DEF WrongPassword, Labels
    <3>2. AtTokens' \subseteq {c} /\ auth'[c].pc = "done"
      BY <2>1, <3>1, <1>g DEF AuthGoes
    <3>3. wrong' <= failed' /\ wrong' < Threshold
      BY <2>3, <2>5, <1>t
    <3>4. QED
      BY <2>1, <3>2, <3>3 DEF Alone
  <2>6. QED
    BY <2>4, <2>5
<1>6. ASSUME NEW c \in Logins, LockUserAccount(c) \/ ResetLoginAttempts(c)
      PROVE  Alone'
  <2>1. AuthGoes(c, "done")
    BY <1>6, Going DEF LockUserAccount, ResetLoginAttempts, Labels
  <2>2. c \in AtTokens /\ Alone /\ rows' = rows /\ wrong' = 0
    BY <1>6, <1>w DEF LockUserAccount, ResetLoginAttempts
  <2>3. failed' \in Nat
    BY <1>6, <1>t DEF LockUserAccount, ResetLoginAttempts
  <2>4. AtTokens' \subseteq {c} /\ auth'[c].pc = "done"
    BY <2>1, <2>2, <1>g DEF AuthGoes
  <2>5. wrong' <= failed' /\ wrong' < Threshold
    BY <2>2, <2>3, <1>t
  <2>6. QED
    BY <2>2, <2>4, <2>5 DEF Alone
<1>7. ASSUME NEW c \in Issuers, CountSessions(c) \/ RevokeOldest(c) \/ FindToken(c)
      PROVE  Alone'
  <2>1. PICK pc : /\ AuthGoes(c, pc) /\ pc \notin {"lock", "password"}
                  /\ pc = "store" /\ auth'[c].seen = 0 => rows' = {}
    <3>1. CountSessions(c) => AuthGoes(c, "find") \/ AuthGoes(c, "trim")
      BY Going DEF CountSessions, Labels
    <3>2. RevokeOldest(c) => AuthGoes(c, "find")
      BY Going DEF RevokeOldest, Labels
    <3>3. FindToken(c) => AuthGoes(c, "store") /\ (auth'[c].seen = 0 => rows' = {})
      BY Finding DEF FindToken
    <3>4. QED
      BY <1>7, <3>1, <3>2, <3>3
  <2>2. c \in AtTokens /\ auth[c].pc # "lock" /\ Alone /\ failed' = failed /\ wrong' = wrong
        /\ rows' \subseteq rows
    BY <1>7, <1>w DEF CountSessions, RevokeOldest, FindToken
  <2>3. AtTokens' \subseteq {c} /\ wrong < Threshold
    BY <2>1, <2>2, <1>g
  <2>4. QED
    BY <2>1, <2>2, <2>3 DEF Alone, AuthGoes
<1>8. ASSUME NEW c \in Issuers, CreateToken(c) \/ UpdateExistingToken(c)
      PROVE  Alone'
  <2>1. PICK pc \in {"clear", "done"} : AuthGoes(c, pc)
    BY <1>8, Going DEF CreateToken, UpdateExistingToken, Stored, Labels
  <2>2. c \in AtTokens /\ auth[c].pc = "store" /\ Alone /\ failed' = failed /\ wrong' = wrong
    BY <1>8, <1>w DEF CreateToken, UpdateExistingToken
  <2>3. AtTokens' \subseteq {c} /\ wrong < Threshold
    BY <2>1, <2>2, <1>g
  <2>4. \A r, s \in rows' : r = s
    <3>1. CASE CreateToken(c)
      <4>1. rows = {}
        BY <2>2, <3>1 DEF CreateToken, Alone
      <4>2. QED
        BY <3>1, <4>1 DEF CreateToken
    <3>2. CASE UpdateExistingToken(c)
      <4>1. PICK r \in rows : rows' = (rows \ {r}) \cup {[n |-> r.n, token |-> c, epoch |-> auth[c].epoch]}
        BY <3>2 DEF UpdateExistingToken
      <4>2. rows \ {r} = {}
        BY <2>2 DEF Alone
      <4>3. QED
        BY <4>1, <4>2
    <3>3. QED
      BY <1>8, <3>1, <3>2
  <2>5. QED
    BY <2>1, <2>2, <2>3, <2>4 DEF Alone, AuthGoes
<1>9. ASSUME NEW c \in Logouts, RevokeToken(c)
      PROVE  Alone'
  <2>1. AuthGoes(c, "done")
    BY <1>9, Going DEF RevokeToken, Labels
  <2>2. c \in AtTokens /\ auth[c].pc # "lock" /\ Alone /\ failed' = failed /\ wrong' = wrong
        /\ rows' \subseteq rows
    BY <1>9, <1>w DEF RevokeToken
  <2>3. AtTokens' \subseteq {c} /\ wrong < Threshold
    BY <2>1, <2>2, <1>g
  <2>4. QED
    BY <2>1, <2>2, <2>3 DEF Alone, AuthGoes
<1>10. ASSUME NEW c \in PasswordResets, UpdatePasswordHash(c) \/ RevokeAllTokens(c)
       PROVE  Alone'
  <2>1. AuthGoes(c, "revoke") \/ AuthGoes(c, "done")
    BY <1>10, Going DEF UpdatePasswordHash, RevokeAllTokens, Labels
  <2>2. Alone /\ failed' = failed /\ wrong' = wrong /\ rows' \subseteq rows
    BY <1>10 DEF UpdatePasswordHash, RevokeAllTokens
  <2>3. AtTokens' = AtTokens /\ \A d \in AtTokens : d # c
    BY <2>1, <1>u, <1>v, <1>w DEF AuthGoes
  <2>4. \A d \in AtTokens : auth'[d] = auth[d]
    BY <2>1, <2>3, <1>u DEF AuthGoes
  <2>5. \A d \in Logins : auth'[d] = auth[d]
    BY <2>1 DEF AuthGoes
  <2>6. QED
    BY <2>2, <2>3, <2>4, <2>5 DEF Alone
<1>11. ASSUME NEW c \in AuthCalls, AuthFails(c)
       PROVE  Alone'
  <2>1. AuthGoes(c, "failed")
    BY <1>11, Going DEF AuthFails, Labels
  <2>2. Alone /\ failed' = failed /\ wrong' = wrong /\ rows' = rows /\ auth[c].pc # "lock"
    BY <1>11 DEF AuthFails
  <2>3. AtTokens' \subseteq AtTokens /\ c \notin AtTokens'
    BY <2>1, <1>u, <1>v, <1>w DEF AuthGoes
  <2>4. \A d \in AuthCalls : d # c => auth'[d] = auth[d]
    BY <2>1 DEF AuthGoes
  <2>5. QED
    BY <2>2, <2>3, <2>4, <1>u DEF Alone
<1>12. CASE LockEnds \/ RevokeSessions \/ \E e \in challenge : ChallengeExpires(e)
  <2>1. Alone /\ auth' = auth /\ failed' = failed /\ wrong' = wrong /\ rows' \subseteq rows
    BY <1>12 DEF LockEnds, RevokeSessions, ChallengeExpires
  <2>2. AtTokens' = AtTokens
    BY <2>1 DEF AtTokens, Working
  <2>3. QED
    BY <2>1, <2>2 DEF Alone
<1>13. QED
  BY <1>1, <1>2, <1>3, <1>4, <1>5, <1>6, <1>7, <1>8, <1>9, <1>10, <1>11, <1>12 DEF AuthNext, Enters

-----------------------------------------------------------------------------

LEMMA UpToDateNext ==
  ASSUME AuthTypeOK, RowsAreOnce, RowsAreOnce', outlived \/ Resetting \/ UpToDate, AuthNext,
         ~ outlived', ~ Resetting'
  PROVE  UpToDate'
<1> USE CallsOfAuth
<1>t. /\ epoch \in Nat
      /\ auth \in [AuthCalls -> AuthRecord]
      /\ \A c \in AuthCalls : auth[c].epoch \in Nat /\ auth[c].epoch <= epoch
      /\ \A e \in challenge : e \in Nat /\ e <= epoch
  BY DEF AuthTypeOK, AuthRecord, Labels, RowsAreOnce
<1>w. \A c \in AuthCalls : c \in Working <=> auth[c].pc \notin {"new", "done", "failed"}
  BY DEF Working
<1>v. \A c \in AuthCalls : c \in Working' <=> auth'[c].pc \notin {"new", "done", "failed"}
  BY DEF Working
(* A call that writes no token. *)
<1>g. ASSUME NEW c \in AuthCalls, NEW pc, AuthGoes(c, pc), epoch' = epoch, UpToDate, rows' \subseteq rows,
             challenge' = challenge, c \in Working \/ c \notin Issuers, auth'[c].epoch = auth[c].epoch
      PROVE  UpToDate'
  <2>1. \A d \in Working' \cap Issuers : d \in Working /\ auth'[d].epoch = auth[d].epoch
    BY <1>g, <1>v, <1>w DEF AuthGoes
  <2>2. QED
    BY <1>g, <2>1 DEF UpToDate
<1>r. ASSUME NEW c \in AuthCalls, NEW pc, AuthGoes(c, pc), auth[c].pc # "revoke"
      PROVE  ~ Resetting
  BY <1>r DEF Resetting, AuthGoes
<1>1. ASSUME NEW c \in Logins, LoadUser(c)
      PROVE  UpToDate'
  <2>1. AuthGoes(c, "password") /\ auth'[c].epoch = epoch
    BY <1>1, Loading
  <2>2. ~ outlived /\ auth[c].pc # "revoke" /\ rows' = rows /\ epoch' = epoch /\ challenge' = challenge
    BY <1>1 DEF LoadUser
  <2>3. UpToDate
    BY <2>1, <2>2, <1>r
  <2>4. \A d \in Working' : d = c \/ (d \in Working /\ auth'[d] = auth[d])
    BY <2>1, <1>v, <1>w DEF AuthGoes, Working
  <2>5. QED
    BY <2>1, <2>2, <2>3, <2>4 DEF UpToDate
<1>2. ASSUME NEW c, Enters(c)
      PROVE  UpToDate'
  <2>1. /\ c \in Issuers /\ auth[c].pc = "new" /\ AuthGoes(c, "limit")
        /\ (\E r \in rows : auth'[c].epoch = r.epoch) \/ auth'[c].epoch \in challenge \/ auth'[c].epoch = epoch
        /\ UNCHANGED <<rows, epoch, challenge, outlived>>
    BY <1>2, Entering
  <2>2. UpToDate
    BY <2>1, <1>r
  <2>3. auth'[c].epoch = epoch
    BY <2>1, <2>2 DEF UpToDate
  <2>4. \A d \in Working' : d = c \/ (d \in Working /\ auth'[d] = auth[d])
    BY <2>1, <1>v, <1>w DEF AuthGoes, Working
  <2>5. QED
    BY <2>1, <2>2, <2>3, <2>4 DEF UpToDate
<1>3. ASSUME NEW c \in Logouts, VerifyLogout(c)
      PROVE  UpToDate'
  <2>1. AuthGoes(c, "delete") /\ auth'[c].epoch = auth[c].epoch
    BY <1>3, Leaving
  <2>2. ~ outlived /\ auth[c].pc # "revoke" /\ rows' = rows /\ epoch' = epoch /\ challenge' = challenge
    BY <1>3 DEF VerifyLogout
  <2>3. QED
    BY <1>3, <2>1, <2>2, <1>r, <1>g
<1>4. ASSUME NEW c \in Logins,
             RightPassword(c) \/ WrongPassword(c) \/ LockUserAccount(c) \/ ResetLoginAttempts(c)
      PROVE  UpToDate'
  <2>1. PICK pc \in Labels : AGoto(c, pc)
    <3>1. WrongPassword(c) => AGoto(c, "lock") \/ AGoto(c, "done")
      BY DEF WrongPassword
    <3>2. QED
      BY <1>4, <3>1 DEF RightPassword, LockUserAccount, ResetLoginAttempts, Labels
  <2>2. AuthGoes(c, pc) /\ auth'[c].epoch = auth[c].epoch
    BY <2>1, Going
  <2>3. ~ outlived /\ auth[c].pc # "revoke" /\ c \in Working /\ rows' = rows /\ epoch' = epoch /\ challenge' = challenge
    BY <1>4, <1>w DEF RightPassword, WrongPassword, LockUserAccount, ResetLoginAttempts
  <2>4. QED
    BY <2>2, <2>3, <1>r, <1>g
<1>5. ASSUME NEW c \in Issuers, CountSessions(c) \/ RevokeOldest(c) \/ FindToken(c)
      PROVE  UpToDate'
  <2>1. PICK pc : AuthGoes(c, pc) /\ auth'[c].epoch = auth[c].epoch
    <3>1. CountSessions(c) => AGoto(c, "find") \/ AGoto(c, "trim")
      BY DEF CountSessions
    <3>2. RevokeOldest(c) => AGoto(c, "find")
      BY DEF RevokeOldest
    <3>3. "find" \in Labels /\ "trim" \in Labels
      BY DEF Labels
    <3>4. QED
      BY <1>5, <3>1, <3>2, <3>3, Going, Finding
  <2>2. ~ outlived /\ auth[c].pc # "revoke" /\ c \in Working /\ rows' \subseteq rows /\ epoch' = epoch /\ challenge' = challenge
    <3>1. auth[c].pc \in {"limit", "trim", "find"}
      BY <1>5 DEF CountSessions, RevokeOldest, FindToken
    <3>2. rows' \subseteq rows /\ epoch' = epoch /\ outlived' = outlived /\ challenge' = challenge
      BY <1>5 DEF CountSessions, RevokeOldest, FindToken
    <3>3. QED
      BY <3>1, <3>2, <1>w
  <2>3. QED
    BY <2>1, <2>2, <1>r, <1>g
<1>6. ASSUME NEW c \in Issuers, CreateToken(c) \/ UpdateExistingToken(c)
      PROVE  UpToDate'
  <2>1. PICK pc \in Labels : AGoto(c, pc)
    BY <1>6 DEF CreateToken, UpdateExistingToken, Stored, Labels
  <2>2. AuthGoes(c, pc) /\ auth'[c].epoch = auth[c].epoch
    BY <2>1, Going
  <2>3. ~ outlived /\ auth[c].pc # "revoke" /\ c \in Working /\ epoch' = epoch /\ challenge' = challenge
    BY <1>6, <1>w DEF CreateToken, UpdateExistingToken
  <2>4. UpToDate
    BY <2>2, <2>3, <1>r
  <2>5. \A r \in rows' : r \in rows \/ r.epoch = auth[c].epoch
    BY <1>6 DEF CreateToken, UpdateExistingToken
  <2>6. \A d \in Working' : d \in Working /\ auth'[d].epoch = auth[d].epoch
    BY <2>2, <2>3, <1>v, <1>w DEF AuthGoes, Working
  <2>7. QED
    BY <2>3, <2>4, <2>5, <2>6 DEF UpToDate
<1>7. ASSUME NEW c \in Logouts, RevokeToken(c)
      PROVE  UpToDate'
  <2>1. AuthGoes(c, "done") /\ auth'[c].epoch = auth[c].epoch
    BY <1>7, Going DEF RevokeToken, Labels
  <2>2. ~ outlived /\ auth[c].pc # "revoke" /\ c \in Working /\ rows' \subseteq rows /\ epoch' = epoch /\ challenge' = challenge
    BY <1>7, <1>w DEF RevokeToken
  <2>3. QED
    BY <2>1, <2>2, <1>r, <1>g
<1>8. ASSUME NEW c \in PasswordResets, UpdatePasswordHash(c)
      PROVE  UpToDate'
  <2>1. AuthGoes(c, "revoke")
    BY <1>8, Going DEF UpdatePasswordHash, Labels
  <2>2. QED
    BY <2>1 DEF Resetting, AuthGoes
<1>9. ASSUME NEW c \in PasswordResets, RevokeAllTokens(c)
      PROVE  UpToDate'
  <2>1. AuthGoes(c, "done")
    BY <1>9, Going DEF RevokeAllTokens, Labels
  <2>2. /\ rows' = {} /\ epoch' = epoch /\ challenge' = challenge
        /\ \A d \in Working \cap Issuers : ~ auth[d].epoch < epoch
        /\ \A e \in challenge : ~ e < epoch
    BY <1>9 DEF RevokeAllTokens, OfOlderPassword
  <2>6. \A e \in challenge : e = epoch
    <3> SUFFICES ASSUME NEW e \in challenge PROVE e = epoch
      OBVIOUS
    <3>1. e \in Nat /\ e <= epoch /\ ~ e < epoch
      BY <2>2, <1>t
    <3>2. QED
      BY <3>1, <1>t
  <2>3. \A d \in Working \cap Issuers : auth[d].epoch = epoch
    <3> SUFFICES ASSUME NEW d \in Working \cap Issuers PROVE auth[d].epoch = epoch
      OBVIOUS
    <3>1. auth[d].epoch \in Nat /\ auth[d].epoch <= epoch /\ ~ auth[d].epoch < epoch
      BY <2>2, <1>t
    <3>2. QED
      BY <3>1, <1>t
  <2>4. \A d \in Working' \cap Issuers : d \in Working /\ auth'[d] = auth[d]
    BY <2>1, <1>v, <1>w DEF AuthGoes
  <2>5. QED
    BY <2>2, <2>3, <2>4, <2>6 DEF UpToDate
<1>10. ASSUME NEW c \in AuthCalls, AuthFails(c)
       PROVE  UpToDate'
  <2>1. AuthGoes(c, "failed") /\ auth'[c].epoch = auth[c].epoch
    BY <1>10, Going DEF AuthFails, Labels
  <2>2. ~ outlived /\ auth[c].pc # "revoke" /\ c \in Working /\ rows' = rows /\ epoch' = epoch /\ challenge' = challenge
    BY <1>10 DEF AuthFails
  <2>3. QED
    BY <2>1, <2>2, <1>r, <1>g
<1>11. CASE LockEnds \/ RevokeSessions \/ \E e \in challenge : ChallengeExpires(e)
  <2>1. ~ outlived /\ auth' = auth /\ epoch' = epoch /\ rows' \subseteq rows /\ challenge' \subseteq challenge
    BY <1>11 DEF LockEnds, RevokeSessions, ChallengeExpires
  <2>2. ~ Resetting /\ Working' = Working
    BY <2>1 DEF Resetting, Working
  <2>3. QED
    BY <2>1, <2>2 DEF UpToDate
<1>12. ASSUME NEW c \in Logins, AskForFactor(c)
       PROVE  UpToDate'
  <2>1. AuthGoes(c, "done") /\ auth'[c].epoch = auth[c].epoch
    BY <1>12, Going DEF AskForFactor, Labels
  <2>2. /\ auth[c].pc = "password" /\ c \in Working /\ UNCHANGED <<rows, epoch, outlived>>
        /\ challenge' = challenge \cup {auth[c].epoch}
    BY <1>12, <1>w DEF AskForFactor
  <2>3. UpToDate
    BY <2>1, <2>2, <1>r
  <2>4. \A e \in challenge' : e = epoch
    BY <2>2, <2>3 DEF UpToDate
  <2>5. \A d \in Working' \cap Issuers : d \in Working /\ auth'[d].epoch = auth[d].epoch
    BY <2>1, <2>2, <1>v, <1>w DEF AuthGoes
  <2>6. QED
    BY <2>2, <2>3, <2>4, <2>5 DEF UpToDate
<1>13. QED
  BY <1>1, <1>2, <1>3, <1>4, <1>5, <1>6, <1>7, <1>8, <1>9, <1>10, <1>11, <1>12 DEF AuthNext, Enters

-----------------------------------------------------------------------------

LEMMA AuthInvInit == AuthInit => AuthInv
<1> SUFFICES ASSUME AuthInit PROVE AuthInv
  OBVIOUS
<1> USE SessionsAssumption DEF AuthInit
<1>0. \A c \in AuthCalls : auth[c].pc = "new" /\ auth[c].epoch = 0
  OBVIOUS
<1>1. AuthTypeOK /\ RowsAreOnce
  <2>1. AuthTypeOK
    BY DEF AuthTypeOK
  <2>2. RowsAreOnce
    BY <1>0 DEF RowsAreOnce
  <2>3. QED
    BY <2>1, <2>2
<1>2. Working = {}
  BY <1>0 DEF Working
<1>3. Alone /\ UpToDate
  BY <1>2 DEF Alone, AtTokens, UpToDate
<1>4. QED
  BY <1>1, <1>3 DEF AuthInv

LEMMA AuthInvNext == AuthInv /\ [AuthNext]_authVars => AuthInv'
<1> SUFFICES ASSUME AuthInv, [AuthNext]_authVars PROVE AuthInv'
  OBVIOUS
<1>1. CASE AuthNext
  <2>1. AuthTypeOK' /\ RowsAreOnce'
    BY <1>1, AuthTypesNext DEF AuthInv
  <2>2. (~ entwined => Alone)'
    BY <1>1, AloneNext DEF AuthInv
  <2>3. (~ outlived /\ ~ Resetting => UpToDate)'
    BY <1>1, <2>1, UpToDateNext DEF AuthInv
  <2>4. QED
    BY <2>1, <2>2, <2>3 DEF AuthInv
<1>2. CASE UNCHANGED authVars
  BY <1>2 DEF authVars, AuthInv, AuthTypeOK, RowsAreOnce, Alone, UpToDate, AtTokens, Working, Resetting
<1>3. QED
  BY <1>1, <1>2

LEMMA AuthInvMeans == AuthInv => SessionsSafe
<1> SUFFICES ASSUME AuthInv PROVE SessionsSafe
  OBVIOUS
<1>1. OneRow
  <2> SUFFICES ASSUME ~ entwined PROVE Cardinality(rows) <= 1
    BY DEF OneRow
  <2>1. \A r, s \in rows : r = s
    BY DEF AuthInv, Alone
  <2>2. CASE rows = {}
    BY <2>2, FS_EmptySet
  <2>3. CASE rows # {}
    <3>1. PICK r \in rows : rows = {r}
      BY <2>1, <2>3
    <3>2. QED
      BY <3>1, FS_Singleton
  <2>4. QED
    BY <2>2, <2>3
<1>2. ResetEndsSessions
  BY DEF ResetEndsSessions, AuthInv, Resetting, UpToDate
<1>3. GuessesBounded
  BY DEF GuessesBounded, AuthInv, Alone
<1>4. QED
  BY <1>1, <1>2, <1>3 DEF SessionsSafe

(***************************************************************************)
(* However logins, second factors, refreshes, logouts and resets           *)
(* interleave: after a reset that met no call at work and no mfa_token     *)
(* from before it, no session goes back to an older password; and calls    *)
(* that do not overlap leave one session and are locked out in time        *)
(* (services/auth_service.py, security/refresh_token_service.py).          *)
(***************************************************************************)
THEOREM SessionsKept == AuthSpec => []SessionsSafe
<1>1. AuthInv => SessionsSafe
  BY AuthInvMeans
<1>2. QED
  BY <1>1, AuthInvInit, AuthInvNext, PTL DEF AuthSpec

-----------------------------------------------------------------------------
(* The ways into an account *)

Stages == {"start", "register", "own", "email", "create", "insert", "bind", "mark", "find", "delete"} \cup Ended

(* Who stands where. *)
CallsInPlace ==
    /\ \A c \in AccountCalls : step[c] = "own" => c \in Links
    /\ \A c \in AccountCalls : step[c] = "email" => c \in SignIns
    /\ \A c \in AccountCalls : step[c] = "create" => c \in SignIns \cup Registrations
    /\ \A c \in AccountCalls : step[c] = "insert" => c \in Linking
    /\ \A c \in AccountCalls : step[c] = "bind" => c \in SignIns
    /\ \A c \in AccountCalls : step[c] = "mark" => c \in SignIns \cup Registrations
    /\ \A c \in AccountCalls : step[c] \in {"find", "delete"} => c \in Unlinks

(* The calls that have looked an identity up and may still bind it. *)
Looking == {"own", "email", "create", "insert", "bind"}

(* Nobody has the identity, or the call knows a rival. *)
FreeToBind ==
    \A c \in Linking :
        step[c] \in Looking /\ c \notin rivals => \A r \in links : r.identity # IdentityOf[c]

(***************************************************************************)
(* An unlink is about a user who has another way in, and deletes one row   *)
(* of that user, whose account is there before it and after it.            *)
(***************************************************************************)
FreeToUnlink ==
    /\ \A c \in Unlinks :
           step[c] \in {"find", "delete"} =>
               /\ account[UserOf[c]].exists
               /\ \/ account[UserOf[c]].password
                  \/ c \in rivals
                  \/ \E r, s \in links : r # s /\ r.user = UserOf[c] /\ s.user = UserOf[c]
    /\ \A c \in Unlinks :
           /\ \A r \in chosen[c] : r.user = UserOf[c]
           /\ \A r, s \in chosen[c] : r = s
    /\ \A c \in Unlinks : step[c] = "done" => account[UserOf[c]].exists

VerifiedFirst ==
    /\ \A u \in Addresses : account[u].verified => account[u].exists
    /\ \A c \in AccountCalls : step[c] = "mark" => account[UserOf[c]].exists
    /\ \A c \in SignIns : step[c] \in {"insert", "bind"} =>
           /\ account[UserOf[c]].exists
           /\ mustVerify => account[UserOf[c]].verified

AccountInv ==
    /\ AccountTypeOK
    /\ IsFiniteSet(links)
    /\ CallsInPlace
    /\ FreeToBind
    /\ FreeToUnlink
    /\ VerifiedFirst
    /\ OneOwner
    /\ WayIn
    /\ AddressProven
    /\ SignUpVerified

(* The call c stands at the stage to, and the others are where they were. *)
Stands(c, to) ==
    /\ step' \in [AccountCalls -> Stages]
    /\ step'[c] = to
    /\ \A d \in AccountCalls : d # c => step'[d] = step[d]

LEMMA CallsApart ==
    /\ Links \subseteq Linking /\ SignIns \subseteq Linking /\ Linking \subseteq AccountCalls
    /\ Unlinks \subseteq AccountCalls /\ Registrations \subseteq AccountCalls
    /\ Verifications \subseteq AccountCalls
    /\ Links \cap SignIns = {} /\ Linking \cap Unlinks = {}
    /\ Linking \cap Registrations = {} /\ Linking \cap Verifications = {}
    /\ Unlinks \cap Registrations = {} /\ Unlinks \cap Verifications = {}
    /\ Registrations \cap Verifications = {} /\ SocialSignUps \subseteq Registrations
    /\ \A c \in Linking : c \in Links \/ c \in SignIns
  BY AccountsAssumption, Zenon DEF AccountCalls, Linking

LEMMA CallsAbout == \A c \in AccountCalls : UserOf[c] \in Addresses /\ IdentityOf[c] \in Identities
  BY AccountsAssumption

LEMMA Standing ==
  ASSUME AccountTypeOK, NEW c \in AccountCalls, NEW to \in Stages, Move(c, to)
  PROVE  Stands(c, to)
<1>1. step \in [AccountCalls -> Stages]
  BY DEF AccountTypeOK, Stages
<1>2. step' = [step EXCEPT ![c] = to]
  BY DEF Move
<1>3. QED
  BY <1>1, <1>2 DEF Stands

(* A query finds nothing, or one row, or raises. *)
LEMMA Asking ==
  ASSUME AccountTypeOK, NEW c \in AccountCalls, NEW S, NEW found \in Stages, NEW missing \in Stages,
         Query(c, S, found, missing)
  PROVE  \/ S = {} /\ Stands(c, missing)
         \/ Cardinality(S) = 1 /\ Stands(c, found)
         \/ Stands(c, "failed")
<1>1. "failed" \in Stages
  BY DEF Stages, Ended
<1>2. CASE S = {}
  <2>1. Move(c, missing)
    BY <1>2, FS_EmptySet DEF Query
  <2>2. QED
    BY <1>2, <2>1, Standing
<1>3. CASE S # {} /\ Cardinality(S) = 1
  <2>1. Move(c, found)
    BY <1>3 DEF Query
  <2>2. QED
    BY <1>3, <2>1, Standing
<1>4. CASE S # {} /\ Cardinality(S) # 1
  <2>1. Move(c, "failed")
    BY <1>4 DEF Query
  <2>2. QED
    BY <1>1, <2>1, Standing
<1>5. QED
  BY <1>2, <1>3, <1>4

(***************************************************************************)
(* What the steps do to a call: where each takes it from, and where to.    *)
(***************************************************************************)
LEMMA StagesOf ==
  ASSUME AccountTypeOK, CallsInPlace, NEW c \in AccountCalls
  PROVE  /\ FindIdentity(c) => /\ c \in Linking /\ step[c] = "start"
                               /\ \/ Stands(c, "refused") \/ Stands(c, "done") \/ Stands(c, "failed")
                                  \/ /\ OfIdentity(IdentityOf[c]) = {}
                                     /\ \/ c \in Links /\ Stands(c, "own")
                                        \/ c \in SignIns /\ Stands(c, "email")
         /\ FindOwn(c) => /\ c \in Links /\ step[c] = "own"
                          /\ Stands(c, "refused") \/ Stands(c, "insert") \/ Stands(c, "failed")
         /\ FindEmail(c) => /\ c \in SignIns /\ step[c] = "email"
                            /\ \/ Stands(c, "refused") \/ Stands(c, "create")
                               \/ /\ Stands(c, "insert")
                                  /\ account[UserOf[c]].exists
                                  /\ mustVerify => account[UserOf[c]].verified
         /\ FindByAddress(c) => /\ c \in Registrations /\ step[c] = "start"
                                /\ Stands(c, "entered") \/ Stands(c, "register")
         /\ FindUser(c) => /\ c \in Registrations /\ step[c] \in {"start", "register"}
                           /\ Stands(c, "refused") \/ Stands(c, "create")
         /\ CreateUser(c) => /\ c \in SignIns \cup Registrations /\ step[c] = "create"
                             /\ \/ account' = account /\ Stands(c, "failed")
                                \/ /\ ~ account[UserOf[c]].exists
                                   /\ \/ c \in SignIns /\ Stands(c, "bind")
                                      \/ c \in Registrations /\ Stands(c, "mark")
         /\ Attach(c) => /\ c \in Linking /\ step[c] \in {"insert", "bind"}
                         /\ \/ Stands(c, "done")
                            \/ c \in SignIns /\ step[c] = "insert" /\ Stands(c, "mark")
         /\ MarkVerified(c) => /\ c \in SignIns \cup Registrations /\ step[c] = "mark" /\ Stands(c, "done")
         /\ VerifyEmail(c) => /\ c \in Verifications /\ step[c] = "start"
                              /\ Stands(c, "done") \/ Stands(c, "refused")
         /\ CountLinks(c) => /\ c \in Unlinks /\ step[c] = "start"
                             /\ \/ Stands(c, "refused")
                                \/ /\ Stands(c, "find")
                                   /\ \/ account[UserOf[c]].password
                                      \/ Cardinality(OfUser(UserOf[c])) > 1
         /\ FindRow(c) => /\ c \in Unlinks /\ step[c] = "find"
                          /\ Stands(c, "refused") \/ Stands(c, "delete") \/ Stands(c, "failed")
         /\ Unlink(c) => c \in Unlinks /\ step[c] = "delete" /\ Stands(c, "done")
         /\ CallFails(c) => step[c] \notin Ended \cup {"start"} /\ Stands(c, "failed")
<1> USE CallsApart
<1>s. {"start", "register", "own", "email", "create", "insert", "bind", "mark", "find", "delete",
       "done", "entered", "refused", "failed"} \subseteq Stages
  BY DEF Stages, Ended
<1>1. ASSUME FindIdentity(c)
      PROVE  /\ c \in Linking /\ step[c] = "start"
             /\ \/ Stands(c, "refused") \/ Stands(c, "done") \/ Stands(c, "failed")
                \/ /\ OfIdentity(IdentityOf[c]) = {}
                   /\ \/ c \in Links /\ Stands(c, "own")
                      \/ c \in SignIns /\ Stands(c, "email")
  <2>1. c \in Linking /\ step[c] = "start"
    BY <1>1 DEF FindIdentity
  <2>2. CASE c \in Links
    <3>1. Query(c, OfIdentity(IdentityOf[c]), "refused", "own")
      BY <1>1, <2>2 DEF FindIdentity
    <3>2. QED
      BY <2>1, <2>2, <3>1, <1>s, Asking
  <2>3. CASE c \notin Links
    <3>1. Query(c, OfIdentity(IdentityOf[c]), "done", "email")
      BY <1>1, <2>3 DEF FindIdentity
    <3>2. QED
      BY <2>1, <2>3, <3>1, <1>s, Asking
  <2>4. QED
    BY <2>2, <2>3
<1>2. ASSUME FindOwn(c)
      PROVE  /\ c \in Links /\ step[c] = "own"
             /\ Stands(c, "refused") \/ Stands(c, "insert") \/ Stands(c, "failed")
  BY <1>2, <1>s, Asking DEF FindOwn
<1>3. ASSUME FindEmail(c)
      PROVE  /\ c \in SignIns /\ step[c] = "email"
             /\ \/ Stands(c, "refused") \/ Stands(c, "create")
                \/ /\ Stands(c, "insert")
                   /\ account[UserOf[c]].exists
                   /\ mustVerify => account[UserOf[c]].verified
  <2>1. c \in SignIns /\ step[c] = "email"
    BY <1>3 DEF FindEmail
  <2>2. CASE account[UserOf[c]].exists /\ mustVerify /\ ~ account[UserOf[c]].verified
    <3>1. Move(c, "refused")
      BY <1>3, <2>2 DEF FindEmail
    <3>2. QED
      BY <2>1, <3>1, <1>s, Standing
  <2>3. CASE account[UserOf[c]].exists /\ ~ (mustVerify /\ ~ account[UserOf[c]].verified)
    <3>1. Move(c, "insert")
      BY <1>3, <2>3 DEF FindEmail
    <3>2. QED
      BY <2>1, <2>3, <3>1, <1>s, Standing
  <2>4. CASE ~ account[UserOf[c]].exists
    <3>1. Move(c, "create")
      BY <1>3, <2>4 DEF FindEmail
    <3>2. QED
      BY <2>1, <3>1, <1>s, Standing
  <2>5. QED
    BY <2>2, <2>3, <2>4
<1>0. ASSUME FindByAddress(c)
      PROVE  /\ c \in Registrations /\ step[c] = "start"
             /\ Stands(c, "entered") \/ Stands(c, "register")
  BY <1>0, <1>s, Standing DEF FindByAddress
<1>4. ASSUME FindUser(c)
      PROVE  /\ c \in Registrations /\ step[c] \in {"start", "register"}
             /\ Stands(c, "refused") \/ Stands(c, "create")
  BY <1>4, <1>s, Standing DEF FindUser
<1>5. ASSUME CreateUser(c)
      PROVE  /\ c \in SignIns \cup Registrations /\ step[c] = "create"
             /\ \/ account' = account /\ Stands(c, "failed")
                \/ /\ ~ account[UserOf[c]].exists
                   /\ \/ c \in SignIns /\ Stands(c, "bind")
                      \/ c \in Registrations /\ Stands(c, "mark")
  <2>1. c \in SignIns \cup Registrations /\ step[c] = "create"
    BY <1>5 DEF CreateUser, CallsInPlace
  <2>2. CASE account[UserOf[c]].exists
    BY <1>5, <2>1, <2>2, <1>s, Standing DEF CreateUser
  <2>3. CASE ~ account[UserOf[c]].exists /\ c \in SignIns
    <3>1. Move(c, "bind")
      BY <1>5, <2>3 DEF CreateUser
    <3>2. QED
      BY <2>1, <2>3, <3>1, <1>s, Standing
  <2>4. CASE ~ account[UserOf[c]].exists /\ c \notin SignIns
    <3>1. Move(c, "mark")
      BY <1>5, <2>4 DEF CreateUser
    <3>2. QED
      BY <2>1, <2>4, <3>1, <1>s, Standing
  <2>5. QED
    BY <2>2, <2>3, <2>4
<1>6. ASSUME Attach(c)
      PROVE  /\ c \in Linking /\ step[c] \in {"insert", "bind"}
             /\ \/ Stands(c, "done")
                \/ c \in SignIns /\ step[c] = "insert" /\ Stands(c, "mark")
  <2>1. c \in Linking /\ step[c] \in {"insert", "bind"}
    BY <1>6 DEF Attach, CallsInPlace
  <2>2. CASE c \in SignIns /\ step[c] = "insert"
    <3>1. Move(c, "mark")
      BY <1>6, <2>2 DEF Attach
    <3>2. QED
      BY <2>1, <2>2, <3>1, <1>s, Standing
  <2>3. CASE ~ (c \in SignIns /\ step[c] = "insert")
    <3>1. Move(c, "done")
      BY <1>6, <2>3 DEF Attach
    <3>2. QED
      BY <2>1, <3>1, <1>s, Standing
  <2>4. QED
    BY <2>2, <2>3
<1>7. ASSUME MarkVerified(c)
      PROVE  c \in SignIns \cup Registrations /\ step[c] = "mark" /\ Stands(c, "done")
  BY <1>7, <1>s, Standing DEF MarkVerified, CallsInPlace
<1>8. ASSUME VerifyEmail(c)
      PROVE  /\ c \in Verifications /\ step[c] = "start"
             /\ Stands(c, "done") \/ Stands(c, "refused")
  BY <1>8, <1>s, Standing DEF VerifyEmail
<1>9. ASSUME CountLinks(c)
      PROVE  /\ c \in Unlinks /\ step[c] = "start"
             /\ \/ Stands(c, "refused")
                \/ /\ Stands(c, "find")
                   /\ \/ account[UserOf[c]].password
                      \/ Cardinality(OfUser(UserOf[c])) > 1
  <2>1. c \in Unlinks /\ step[c] = "start"
    BY <1>9 DEF CountLinks
  <2>2. CASE account[UserOf[c]].password \/ Cardinality(OfUser(UserOf[c])) > 1
    <3>1. Move(c, "find")
      BY <1>9, <2>2 DEF CountLinks
    <3>2. QED
      BY <2>1, <2>2, <3>1, <1>s, Standing
  <2>3. CASE ~ (account[UserOf[c]].password \/ Cardinality(OfUser(UserOf[c])) > 1)
    <3>1. Move(c, "refused")
      BY <1>9, <2>3 DEF CountLinks
    <3>2. QED
      BY <2>1, <3>1, <1>s, Standing
  <2>4. QED
    BY <2>2, <2>3
<1>10. ASSUME FindRow(c)
       PROVE  /\ c \in Unlinks /\ step[c] = "find"
              /\ Stands(c, "refused") \/ Stands(c, "delete") \/ Stands(c, "failed")
  <2>1. c \in Unlinks /\ step[c] = "find"
    BY <1>10 DEF FindRow, CallsInPlace
  <2>2. Query(c, OfProvider(UserOf[c], IdentityOf[c]), "delete", "refused")
    BY <1>10 DEF FindRow
  <2>3. QED
    BY <2>1, <2>2, <1>s, Asking
<1>11. ASSUME Unlink(c)
       PROVE  c \in Unlinks /\ step[c] = "delete" /\ Stands(c, "done")
  BY <1>11, <1>s, Standing DEF Unlink, CallsInPlace
<1>12. ASSUME CallFails(c)
       PROVE  step[c] \notin Ended \cup {"start"} /\ Stands(c, "failed")
  BY <1>12, <1>s, Standing DEF CallFails
<1>13. QED
  BY <1>0, <1>1, <1>2, <1>3, <1>4, <1>5, <1>6, <1>7, <1>8, <1>9, <1>10, <1>11, <1>12

(***************************************************************************)
(* What the steps do to the accounts, the links and the histories.         *)
(***************************************************************************)
Bound(c) == [by |-> c, user |-> UserOf[c], identity |-> IdentityOf[c]]

(* No row of links comes or goes, and nobody is told of a rival. *)
LinksStay == UNCHANGED <<links, rivals>>

LEMMA AccountStepOf ==
  ASSUME AccountTypeOK, NEW c \in AccountCalls,
         \/ FindIdentity(c) \/ FindOwn(c) \/ FindEmail(c) \/ FindByAddress(c) \/ FindUser(c)
         \/ CreateUser(c) \/ Attach(c) \/ MarkVerified(c) \/ VerifyEmail(c)
         \/ CountLinks(c) \/ FindRow(c) \/ Unlink(c) \/ CallFails(c)
  PROVE  /\ mustVerify' = mustVerify
         /\ Attach(c) \/ Unlink(c) \/ LinksStay
         /\ CreateUser(c) \/ MarkVerified(c) \/ VerifyEmail(c) \/ account' = account
         /\ FindRow(c) \/ chosen' = chosen
         /\ CallFails(c) \/ stranded' = stranded
         /\ rivals \subseteq rivals' /\ stranded \subseteq stranded'
  BY DEF FindIdentity, FindOwn, FindEmail, FindByAddress, FindUser, CreateUser, Attach, MarkVerified, VerifyEmail,
         CountLinks, FindRow, Unlink, CallFails, LinksStay

(* The account of u is still there, with what says how to come in. *)
KeepsWays(u) ==
    /\ account'[u].exists
    /\ account'[u].password = account[u].password
    /\ account'[u].callback = account[u].callback

(* An account, once there, stays, with its password, and stays verified. *)
LEMMA AccountsStay ==
  ASSUME AccountTypeOK, NEW c \in AccountCalls,
         VerifiedFirst, CreateUser(c) \/ MarkVerified(c) \/ VerifyEmail(c) \/ account' = account
  PROVE  /\ account' \in [Addresses -> AccountRow]
         /\ \A u \in Addresses :
                /\ account[u].exists => KeepsWays(u)
                /\ account[u].verified => account'[u].verified
                /\ account'[u].verified => account'[u].exists
                /\ account'[u] # account[u] => u = UserOf[c]
         /\ CreateUser(c) /\ ~ account[UserOf[c]].exists =>
                /\ account'[UserOf[c]].exists
                /\ account'[UserOf[c]].password <=> c \in Registrations \ SocialSignUps
                /\ account'[UserOf[c]].verified <=> c \in SignIns
                /\ account'[UserOf[c]].callback <=> c \in SocialSignUps
         /\ MarkVerified(c) => account'[UserOf[c]].exists
                /\ (c \in SignIns \cup SocialSignUps \/ ~ mustVerify => account'[UserOf[c]].verified)
<1> DEFINE A == AccountRow
           u == UserOf[c]
<1>1. u \in Addresses
  BY CallsAbout
<1>2. account \in [Addresses -> A] /\ account[u] \in A
  BY <1>1 DEF AccountTypeOK
<1>3. \A v \in Addresses : account[v].verified => account[v].exists
  BY DEF VerifiedFirst
<1> HIDE DEF A
<1>a. ASSUME NEW a \in A, account' = [account EXCEPT ![u] = a],
             account[u].exists => /\ a.exists /\ a.password = account[u].password
                                  /\ a.callback = account[u].callback,
             account[u].verified => a.verified,
             a.verified => a.exists
      PROVE  /\ account' \in [Addresses -> A]
             /\ account'[u] = a
             /\ \A v \in Addresses :
                /\ account[v].exists => KeepsWays(v)
                /\ account[v].verified => account'[v].verified
                /\ account'[v].verified => account'[v].exists
                /\ account'[v] # account[v] => v = u
  <2>1. account' \in [Addresses -> A] /\ account'[u] = a
    BY <1>a, <1>1, <1>2
  <2>2. \A v \in Addresses : v # u => account'[v] = account[v]
    BY <1>a, <1>2
  <2>3. ASSUME NEW v \in Addresses
        PROVE  /\ account[v].exists => KeepsWays(v)
               /\ account[v].verified => account'[v].verified
               /\ account'[v].verified => account'[v].exists
               /\ account'[v] # account[v] => v = u
    <3>1. CASE v = u
      BY <1>a, <2>1, <3>1 DEF KeepsWays
    <3>2. CASE v # u
      BY <2>2, <3>2, <1>3 DEF KeepsWays
    <3>3. QED
      BY <3>1, <3>2
  <2>4. QED
    BY <2>1, <2>3
<1>b. CASE account' = account
  <2>1. ~ (CreateUser(c) /\ ~ account[u].exists)
    <3> SUFFICES ASSUME CreateUser(c), ~ account[u].exists PROVE FALSE
      OBVIOUS
    <3>1. account' = [account EXCEPT ![u] =
              [exists |-> TRUE, password |-> c \in Registrations \ SocialSignUps,
               verified |-> c \in SignIns, callback |-> c \in SocialSignUps]]
      BY DEF CreateUser
    <3>2. account'[u].exists = TRUE
      BY <3>1, <1>1, <1>2
    <3>3. QED
      BY <3>2, <1>b
  <2>2. MarkVerified(c) => account[u].exists /\ (c \in SignIns \cup SocialSignUps \/ ~ mustVerify => account[u].verified)
    <3> SUFFICES ASSUME MarkVerified(c)
                 PROVE  account[u].exists /\ (c \in SignIns \cup SocialSignUps \/ ~ mustVerify => account[u].verified)
      OBVIOUS
    <3>1. account[u].exists
      BY DEF MarkVerified, VerifiedFirst
    <3>2. account'[u].verified = (account[u].verified \/ c \in SignIns \cup SocialSignUps \/ ~ mustVerify)
      BY <1>1, <1>2 DEF MarkVerified, A, AccountRow
    <3>3. QED
      BY <3>1, <3>2, <1>b
  <2>3. QED
    BY <2>1, <2>2, <1>b, <1>2, <1>3 DEF A, KeepsWays
<1>c. CASE CreateUser(c) /\ account' # account
  <2> DEFINE pw == c \in Registrations \ SocialSignUps
             ok == c \in SignIns
             cb == c \in SocialSignUps
             a == [exists |-> TRUE, password |-> pw, verified |-> ok, callback |-> cb]
  <2>1. ~ account[u].exists /\ account' = [account EXCEPT ![u] = a]
    BY <1>c DEF CreateUser
  <2>p. /\ pw \in BOOLEAN /\ ok \in BOOLEAN /\ cb \in BOOLEAN
        /\ pw <=> c \in Registrations \ SocialSignUps
        /\ ok <=> c \in SignIns
        /\ cb <=> c \in SocialSignUps
    OBVIOUS
  <2> HIDE DEF pw, ok, cb
  <2>q. a \in A /\ a.exists = TRUE /\ a.password = pw /\ a.verified = ok /\ a.callback = cb
    BY <2>p DEF A, AccountRow
  <2>2. /\ a \in A /\ a.exists = TRUE
        /\ a.password <=> c \in Registrations \ SocialSignUps
        /\ a.verified <=> c \in SignIns
        /\ a.callback <=> c \in SocialSignUps
    BY <2>p, <2>q
  <2>3. ~ account[u].verified
    BY <2>1, <1>1, <1>3
  <2> HIDE DEF a
  <2>4. /\ account' \in [Addresses -> A]
        /\ account'[u] = a
        /\ \A v \in Addresses :
                /\ account[v].exists => KeepsWays(v)
                /\ account[v].verified => account'[v].verified
                /\ account'[v].verified => account'[v].exists
                /\ account'[v] # account[v] => v = u
    BY <2>1, <2>2, <2>3, <1>a
  <2>5. ~ MarkVerified(c)
    <3>1. CreateUser(c) => step[c] = "create"
      BY DEF CreateUser
    <3>2. MarkVerified(c) => step[c] = "mark"
      BY DEF MarkVerified
    <3>3. QED
      BY <3>1, <3>2, <1>c
  <2>6. QED
    BY <2>2, <2>4, <2>5 DEF A
<1>d. CASE MarkVerified(c) /\ account' # account
  <2> DEFINE x == account[u].verified \/ c \in SignIns \cup SocialSignUps \/ ~ mustVerify
             a == [account[u] EXCEPT !.verified = x]
  <2>1. account' = [account EXCEPT ![u] = a] /\ account[u].exists
    BY <1>d, <1>1, <1>2 DEF MarkVerified, VerifiedFirst
  <2>2. x \in BOOLEAN
    OBVIOUS
  <2>3. (account[u].verified => x) /\ (c \in SignIns \cup SocialSignUps \/ ~ mustVerify => x)
    OBVIOUS
  <2> HIDE DEF x
  <2>4. /\ a \in A /\ a.exists = account[u].exists /\ a.password = account[u].password
        /\ a.callback = account[u].callback /\ a.verified = x
    BY <1>2, <2>2 DEF A, AccountRow
  <2> HIDE DEF a
  <2>5. /\ account' \in [Addresses -> A]
        /\ account'[u] = a
        /\ \A v \in Addresses :
                /\ account[v].exists => KeepsWays(v)
                /\ account[v].verified => account'[v].verified
                /\ account'[v].verified => account'[v].exists
                /\ account'[v] # account[v] => v = u
    BY <2>1, <2>3, <2>4, <1>a
  <2>6. ~ CreateUser(c)
    <3>1. CreateUser(c) => step[c] = "create"
      BY DEF CreateUser
    <3>2. MarkVerified(c) => step[c] = "mark"
      BY DEF MarkVerified
    <3>3. QED
      BY <3>1, <3>2, <1>d
  <2>7. QED
    BY <2>1, <2>3, <2>4, <2>5, <2>6 DEF A
<1>e. CASE VerifyEmail(c) /\ account' # account
  <2> DEFINE a == [account[u] EXCEPT !.verified = TRUE]
  <2>1. account' = [account EXCEPT ![u] = a] /\ account[u].exists
    BY <1>e, <1>1, <1>2 DEF VerifyEmail
  <2>2. /\ a \in A /\ a.exists = account[u].exists /\ a.password = account[u].password
        /\ a.callback = account[u].callback /\ a.verified = TRUE
    BY <1>2 DEF A, AccountRow
  <2> HIDE DEF a
  <2>3. /\ account' \in [Addresses -> A]
        /\ account'[u] = a
        /\ \A v \in Addresses :
                /\ account[v].exists => KeepsWays(v)
                /\ account[v].verified => account'[v].verified
                /\ account'[v].verified => account'[v].exists
                /\ account'[v] # account[v] => v = u
    BY <2>1, <2>2, <1>a
  <2>4. ~ CreateUser(c) /\ ~ MarkVerified(c)
    <3>1. VerifyEmail(c) => step[c] = "start"
      BY DEF VerifyEmail
    <3>2. MarkVerified(c) => step[c] = "mark"
      BY DEF MarkVerified
    <3>3. CreateUser(c) => step[c] = "create"
      BY DEF CreateUser
    <3>4. QED
      BY <3>1, <3>2, <3>3, <1>e
  <2>5. QED
    BY <2>3, <2>4 DEF A
<1>f. QED
  BY <1>b, <1>c, <1>d, <1>e

-----------------------------------------------------------------------------

Happens(c) ==
    \/ FindIdentity(c) \/ FindOwn(c) \/ FindEmail(c) \/ FindByAddress(c) \/ FindUser(c)
    \/ CreateUser(c) \/ Attach(c) \/ MarkVerified(c) \/ VerifyEmail(c)
    \/ CountLinks(c) \/ FindRow(c) \/ Unlink(c) \/ CallFails(c)

LEMMA AccountTypesNext ==
  ASSUME AccountTypeOK, IsFiniteSet(links), CallsInPlace, VerifiedFirst, NEW c \in AccountCalls, Happens(c)
  PROVE  AccountTypeOK' /\ IsFiniteSet(links') /\ CallsInPlace'
<1> USE CallsApart
<1> DEFINE LinkRow == [by : Linking, user : Addresses, identity : Identities]
<1>1. PICK to \in Stages : Stands(c, to)
  BY StagesOf DEF Happens, Stages, Ended
<1>2. step' \in [AccountCalls -> Stages]
  BY <1>1 DEF Stands
<1>3. account' \in [Addresses -> AccountRow]
  BY AccountStepOf, AccountsStay DEF Happens
<1>4. links' \subseteq LinkRow /\ IsFiniteSet(links')
  <2>1. links \subseteq LinkRow
    BY DEF AccountTypeOK
  <2>2. CASE Attach(c)
    <3>1. links' = links \cup {Bound(c)}
      BY <2>2 DEF Attach, Bound
    <3>2. Bound(c) \in LinkRow
      BY <2>2, StagesOf, CallsAbout DEF Bound
    <3>3. QED
      BY <2>1, <3>1, <3>2, FS_AddElement
  <2>3. CASE Unlink(c)
    <3>1. links' \subseteq links
      BY <2>3 DEF Unlink
    <3>2. QED
      BY <2>1, <3>1, FS_Subset
  <2>4. CASE LinksStay
    BY <2>1, <2>4 DEF LinksStay
  <2>5. QED
    BY <2>2, <2>3, <2>4, AccountStepOf DEF Happens
<1>5. chosen' \in [Unlinks -> SUBSET LinkRow]
  <2>1. chosen \in [Unlinks -> SUBSET LinkRow] /\ links \subseteq LinkRow
    BY DEF AccountTypeOK
  <2>2. CASE FindRow(c)
    <3>1. c \in Unlinks
      BY <2>2, StagesOf
    <3>2. OfProvider(UserOf[c], IdentityOf[c]) \subseteq LinkRow
      BY <2>1 DEF OfProvider, OfUser
    <3> HIDE DEF LinkRow
    <3>3. QED
      BY <2>1, <2>2, <3>1, <3>2 DEF FindRow
  <2>3. CASE chosen' = chosen
    BY <2>1, <2>3
  <2>4. QED
    BY <2>2, <2>3, AccountStepOf DEF Happens
<1>6. rivals' \subseteq AccountCalls
  <2>1. rivals \subseteq AccountCalls
    BY DEF AccountTypeOK
  <2>2. CASE Attach(c) \/ Unlink(c)
    BY <2>1, <2>2 DEF Attach, Unlink
  <2>3. CASE LinksStay
    BY <2>1, <2>3 DEF LinksStay
  <2>4. QED
    BY <2>2, <2>3, AccountStepOf DEF Happens
<1>7. stranded' \subseteq Addresses
  <2>1. stranded \subseteq Addresses
    BY DEF AccountTypeOK
  <2>2. CASE CallFails(c)
    BY <2>1, <2>2, CallsAbout DEF CallFails
  <2>3. CASE stranded' = stranded
    BY <2>1, <2>3
  <2>4. QED
    BY <2>2, <2>3, AccountStepOf DEF Happens
<1>8. mustVerify' \in BOOLEAN
  BY AccountStepOf DEF Happens, AccountTypeOK
<1>9. CallsInPlace'
  <2>1. \A d \in AccountCalls : d # c => step'[d] = step[d]
    BY <1>1 DEF Stands
  <2>2. /\ step'[c] = "own" => c \in Links
        /\ step'[c] = "email" => c \in SignIns
        /\ step'[c] = "create" => c \in SignIns \cup Registrations
        /\ step'[c] = "insert" => c \in Linking
        /\ step'[c] = "bind" => c \in SignIns
        /\ step'[c] = "mark" => c \in SignIns \cup Registrations
        /\ step'[c] \in {"find", "delete"} => c \in Unlinks
    BY StagesOf DEF Happens, Stands
  <2>3. QED
    BY <2>1, <2>2 DEF CallsInPlace
<1>10. QED
  BY <1>2, <1>3, <1>4, <1>5, <1>6, <1>7, <1>8, <1>9 DEF AccountTypeOK, Stages

(***************************************************************************)
(* An identity is bound by who found it free, or knows of a rival.         *)
(***************************************************************************)
LEMMA BindNext ==
  ASSUME AccountTypeOK, CallsInPlace, FreeToBind, OneOwner, NEW c \in AccountCalls, Happens(c)
  PROVE  FreeToBind' /\ OneOwner'
<1> USE CallsApart
<1>1. PICK to \in Stages : Stands(c, to)
  BY StagesOf DEF Happens, Stages, Ended
<1>2. \A d \in AccountCalls : d # c => step'[d] = step[d]
  BY <1>1 DEF Stands
<1>3. CASE Attach(c)
  <2>1. c \in Linking /\ step[c] \in {"insert", "bind"} /\ step'[c] \notin Looking
    BY <1>3, StagesOf DEF Stands, Looking
  <2>2. links' = links \cup {Bound(c)}
    BY <1>3 DEF Attach, Bound
  <2>3. Bound(c).identity = IdentityOf[c] /\ Bound(c).by = c
    BY DEF Bound
  <2>4. \A d \in Linking \ {c} : step[d] \in Looking /\ IdentityOf[d] = IdentityOf[c] => d \in rivals'
    BY <1>3 DEF Attach, Looking, Ended
  <2>5. rivals \subseteq rivals'
    BY <1>3 DEF Attach
  <2>6. FreeToBind'
    <3> SUFFICES ASSUME NEW d \in Linking, step'[d] \in Looking, d \notin rivals', NEW r \in links'
                 PROVE  r.identity # IdentityOf[d]
      BY DEF FreeToBind
    <3>1. d # c /\ step[d] \in Looking /\ d \notin rivals
      BY <2>1, <2>5, <1>2
    <3>2. IdentityOf[d] # IdentityOf[c]
      BY <3>1, <2>4
    <3>3. QED
      BY <2>2, <2>3, <3>1, <3>2 DEF FreeToBind
  <2>7. OneOwner'
    <3>1. c \notin rivals => \A s \in links : s.identity # IdentityOf[c]
      BY <2>1 DEF FreeToBind, Looking
    <3>2. \A r, s \in links' : r # s /\ r.identity = s.identity => r.by \in rivals' \/ s.by \in rivals'
      <4> SUFFICES ASSUME NEW r \in links', NEW s \in links', r # s, r.identity = s.identity
                   PROVE  r.by \in rivals' \/ s.by \in rivals'
        OBVIOUS
      <4>1. CASE r \in links /\ s \in links
        BY <4>1, <2>5 DEF OneOwner
      <4>2. CASE r = Bound(c)
        BY <4>2, <2>2, <2>3, <2>5, <3>1
      <4>3. CASE s = Bound(c)
        BY <4>3, <2>2, <2>3, <2>5, <3>1
      <4>4. QED
        BY <4>1, <4>2, <4>3, <2>2
    <3>3. QED
      BY <3>2 DEF OneOwner
  <2>8. QED
    BY <2>6, <2>7
<1>4. CASE ~ Attach(c)
  <2>1. links' \subseteq links /\ rivals \subseteq rivals'
    BY <1>4, AccountStepOf DEF Happens, LinksStay, Unlink
  <2>2. step'[c] \in Looking =>
            \/ step[c] \in Looking
            \/ OfIdentity(IdentityOf[c]) = {}
            \/ c \notin Linking
    BY <1>4, StagesOf DEF Happens, Stands, Looking, Ended
  <2>3. FreeToBind'
    <3> SUFFICES ASSUME NEW d \in Linking, step'[d] \in Looking, d \notin rivals', NEW r \in links'
                 PROVE  r.identity # IdentityOf[d]
      BY DEF FreeToBind
    <3>1. d \notin rivals /\ r \in links
      BY <2>1
    <3>2. CASE step[d] \in Looking
      BY <3>1, <3>2 DEF FreeToBind
    <3>3. CASE step[d] \notin Looking
      <4>1. d = c /\ OfIdentity(IdentityOf[d]) = {}
        BY <3>3, <1>2, <2>2
      <4>2. QED
        BY <4>1, <3>1 DEF OfIdentity
    <3>4. QED
      BY <3>2, <3>3
  <2>4. OneOwner'
    BY <2>1 DEF OneOwner
  <2>5. QED
    BY <2>3, <2>4
<1>5. QED
  BY <1>3, <1>4

LEMMA TwoRows ==
  ASSUME NEW S, IsFiniteSet(S), Cardinality(S) > 1
  PROVE  \E r, s \in S : r # s
<1> SUFFICES ASSUME \A r, s \in S : r = s PROVE FALSE
  OBVIOUS
<1>1. CASE S = {}
  BY <1>1, FS_EmptySet
<1>2. CASE S # {}
  <2>1. PICK r \in S : S = {r}
    BY <1>2
  <2>2. QED
    BY <2>1, FS_Singleton
<1>3. QED
  BY <1>1, <1>2

(***************************************************************************)
(* Nobody is left without a way in.                                        *)
(***************************************************************************)
LEMMA UnlinkNext ==
  ASSUME AccountTypeOK, IsFiniteSet(links), CallsInPlace, VerifiedFirst, FreeToUnlink, WayIn,
         NEW c \in AccountCalls, Happens(c)
  PROVE  FreeToUnlink' /\ WayIn'
<1> USE CallsApart
<1>1. PICK to \in Stages : Stands(c, to)
  BY StagesOf DEF Happens, Stages, Ended
<1>2. \A d \in AccountCalls : d # c => step'[d] = step[d]
  BY <1>1 DEF Stands
<1>3. \A u \in Addresses : account[u].exists => KeepsWays(u)
  BY AccountStepOf, AccountsStay DEF Happens
<1>4. rivals \subseteq rivals' /\ stranded \subseteq stranded'
  BY AccountStepOf DEF Happens
<1>5. Attach(c) => links' = links \cup {Bound(c)}
  BY DEF Attach, Bound
<1>6. Unlink(c) => c \in Unlinks /\ step[c] = "delete" /\ links' = links \ chosen[c]
  BY StagesOf DEF Unlink
<1>7. ~ Unlink(c) => links \subseteq links'
  BY <1>5, AccountStepOf DEF Happens, LinksStay
<1>8. Unlink(c) => \A r \in links : r \notin links' => r \in chosen[c] /\ r.user = UserOf[c]
  BY <1>6 DEF FreeToUnlink
<1>9. ASSUME NEW d \in Unlinks, step'[d] \in {"find", "delete"}
      PROVE  /\ account'[UserOf[d]].exists
             /\ \/ account'[UserOf[d]].password
                \/ d \in rivals'
                \/ \E r, s \in links' : r # s /\ r.user = UserOf[d] /\ s.user = UserOf[d]
  <2>0. UserOf[d] \in Addresses
    BY CallsAbout
  <2>k. account[UserOf[d]].exists =>
            account'[UserOf[d]].exists /\ account'[UserOf[d]].password = account[UserOf[d]].password
    BY <2>0, <1>3 DEF KeepsWays
  <2>1. CASE d # c /\ Unlink(c)
    <3>1. step[d] \in {"find", "delete"}
      BY <1>9, <2>1, <1>2
    <3>2. CASE UserOf[d] = UserOf[c]
      <4>1. d \in rivals'
        BY <2>1, <3>1, <3>2 DEF Unlink
      <4>2. QED
        BY <4>1, <3>1, <2>k DEF FreeToUnlink
    <3>3. CASE UserOf[d] # UserOf[c]
      <4>1. \A r \in links : r.user = UserOf[d] => r \in links'
        BY <2>1, <3>3, <1>8
      <4>2. QED
        BY <4>1, <3>1, <2>k, <1>4 DEF FreeToUnlink
    <3>4. QED
      BY <3>2, <3>3
  <2>2. CASE d # c /\ ~ Unlink(c)
    <3>1. step[d] \in {"find", "delete"}
      BY <1>9, <2>2, <1>2
    <3>2. QED
      BY <3>1, <2>k, <2>2, <1>4, <1>7 DEF FreeToUnlink
  <2>3. CASE d = c /\ CountLinks(c)
    <3>1. account' = account /\ links' = links /\ account[UserOf[c]].exists
      BY <2>3 DEF CountLinks
    <3>2. account[UserOf[c]].password \/ Cardinality(OfUser(UserOf[c])) > 1
      BY <1>9, <2>3, StagesOf DEF Stands
    <3>3. Cardinality(OfUser(UserOf[c])) > 1 => \E r, s \in OfUser(UserOf[c]) : r # s
      <4>1. OfUser(UserOf[c]) \subseteq links
        BY DEF OfUser
      <4>2. IsFiniteSet(OfUser(UserOf[c]))
        BY <4>1, FS_Subset
      <4>3. QED
        BY <4>2, TwoRows
    <3>4. QED
      BY <2>3, <3>1, <3>2, <3>3 DEF OfUser
  <2>4. CASE d = c /\ FindRow(c)
    <3>1. account' = account /\ links' = links /\ step[c] = "find"
      BY <2>4 DEF FindRow
    <3>2. QED
      BY <2>4, <3>1, <1>4 DEF FreeToUnlink
  <2>5. CASE d = c /\ ~ CountLinks(c) /\ ~ FindRow(c)
    <3>1. step'[c] \notin {"find", "delete"}
      BY <2>5, StagesOf DEF Happens, Stands
    <3>2. QED
      BY <1>9, <2>5, <3>1
  <2>6. QED
    BY <2>1, <2>2, <2>3, <2>4, <2>5
<1>10. ASSUME NEW d \in Unlinks
       PROVE  /\ \A r \in chosen'[d] : r.user = UserOf[d]
              /\ \A r, s \in chosen'[d] : r = s
  <2>1. CASE chosen'[d] = chosen[d]
    BY <2>1 DEF FreeToUnlink
  <2>2. CASE chosen'[d] # chosen[d]
    <3> DEFINE S == OfProvider(UserOf[c], IdentityOf[c])
    <3>1. FindRow(c)
      BY <2>2, AccountStepOf DEF Happens
    <3>2. c \in Unlinks /\ chosen' = [chosen EXCEPT ![c] = IF Cardinality(S) = 1 THEN S ELSE {}]
      BY <3>1, StagesOf DEF FindRow
    <3>3. \A r \in S : r.user = UserOf[c]
      BY DEF OfProvider, OfUser
    <3>4. IsFiniteSet(S)
      <4>1. S \subseteq links
        BY DEF OfProvider, OfUser
      <4>2. QED
        BY <4>1, FS_Subset
    <3>5. Cardinality(S) = 1 => \A r, s \in S : r = s
      BY <3>4, FS_Singleton
    <3> HIDE DEF S
    <3>6. d = c /\ chosen'[c] = IF Cardinality(S) = 1 THEN S ELSE {}
      <4>1. \A e \in Unlinks : e # c => chosen'[e] = chosen[e]
        BY <3>2 DEF AccountTypeOK
      <4>2. chosen'[c] = IF Cardinality(S) = 1 THEN S ELSE {}
        BY <3>2 DEF AccountTypeOK
      <4>3. QED
        BY <2>2, <4>1, <4>2
    <3>7. QED
      BY <3>3, <3>5, <3>6
  <2>3. QED
    BY <2>1, <2>2
<1>15. ASSUME NEW d \in Unlinks, step'[d] = "done"
       PROVE  account'[UserOf[d]].exists
  <2>1. account[UserOf[d]].exists => account'[UserOf[d]].exists
    BY <1>3, CallsAbout DEF KeepsWays
  <2>2. step[d] \in {"delete", "done"}
    <3>1. CASE d # c
      BY <3>1, <1>2, <1>15
    <3>2. CASE d = c
      BY <3>2, <1>15, StagesOf DEF Happens, Stands
    <3>3. QED
      BY <3>1, <3>2
  <2>3. QED
    BY <2>1, <2>2 DEF FreeToUnlink
<1>11. FreeToUnlink'
  BY <1>9, <1>10, <1>15 DEF FreeToUnlink
<1>12. ASSUME NEW u \in Addresses, account'[u].exists, ~ account'[u].password
       PROVE  \/ \E r \in links' : r.user = u
              \/ u \in stranded'
              \/ account'[u].callback /\ \A d \in Unlinks : UserOf[d] = u => step'[d] # "done"
              \/ \E d \in SignIns : UserOf[d] = u /\ step'[d] = "bind"
              \/ \E d \in Unlinks : UserOf[d] = u /\ d \in rivals'
  <2>1. CASE ~ account[u].exists
    <3>1. u = UserOf[c] /\ account' # account
      BY <1>12, <2>1, AccountStepOf, AccountsStay DEF Happens
    <3>2. CreateUser(c)
      <4>1. CreateUser(c) \/ MarkVerified(c) \/ VerifyEmail(c)
        BY <3>1, AccountStepOf DEF Happens
      <4>2. MarkVerified(c) => account[UserOf[c]].exists
        BY DEF MarkVerified, VerifiedFirst
      <4>3. VerifyEmail(c) => account[UserOf[c]].exists
        BY <3>1 DEF VerifyEmail
      <4>4. QED
        BY <2>1, <3>1, <4>1, <4>2, <4>3
    <3>3. c \notin Registrations \ SocialSignUps /\ (c \in SocialSignUps => account'[u].callback)
      BY <1>12, <2>1, <3>1, <3>2, AccountsStay
    <3>4. CASE c \in SignIns
      <4>1. step'[c] = "bind"
        BY <2>1, <3>1, <3>2, <3>4, StagesOf DEF Stands
      <4>2. QED
        BY <3>1, <3>4, <4>1
    <3>5. CASE c \in SocialSignUps
      <4>1. \A d \in Unlinks : UserOf[d] = u => step'[d] # "done"
        BY <2>1, <3>5, <1>2 DEF FreeToUnlink
      <4>2. QED
        BY <3>3, <3>5, <4>1
    <3>6. c \in SignIns \cup Registrations
      BY <3>2, StagesOf
    <3>7. QED
      BY <3>3, <3>4, <3>5, <3>6
  <2>2. CASE account[u].exists
    <3>1. ~ account[u].password /\ account'[u].callback = account[u].callback
      BY <1>12, <2>2, <1>3 DEF KeepsWays
    <3>2. ASSUME NEW r \in links, r.user = u
          PROVE  \/ \E s \in links' : s.user = u
                 \/ \E d \in Unlinks : UserOf[d] = u /\ d \in rivals'
      <4>1. CASE r \in links'
        BY <3>2, <4>1
      <4>2. CASE r \notin links'
        <5>1. Unlink(c) /\ u = UserOf[c]
          BY <3>2, <4>2, <1>7, <1>8
        <5>2. c \in Unlinks /\ step[c] = "delete"
          BY <5>1, <1>6
        <5>3. CASE c \in rivals
          BY <5>1, <5>2, <5>3, <1>4
        <5>4. CASE c \notin rivals
          <6>1. PICK p, q \in links : p # q /\ p.user = u /\ q.user = u
            BY <5>1, <5>2, <5>4, <3>1 DEF FreeToUnlink
          <6>2. p \notin chosen[c] \/ q \notin chosen[c]
            BY <5>2, <6>1 DEF FreeToUnlink
          <6>3. QED
            BY <5>1, <6>1, <6>2, <1>6
        <5>5. QED
          BY <5>3, <5>4
      <4>3. QED
        BY <4>1, <4>2
    <3>3. ASSUME NEW d \in SignIns, UserOf[d] = u, step[d] = "bind", step'[d] # "bind"
          PROVE  \/ \E r \in links' : r.user = u
                 \/ u \in stranded'
      <4>1. d = c
        BY <3>3, <1>2
      <4>2. Attach(c) \/ CallFails(c)
        BY <3>3, <4>1, StagesOf DEF Happens
      <4>3. CASE Attach(c)
        <5>1. Bound(c) \in links' /\ Bound(c).user = UserOf[c]
          BY <4>3, <1>5 DEF Bound
        <5>2. QED
          BY <3>3, <4>1, <5>1
      <4>4. CASE CallFails(c)
        BY <3>3, <4>1, <4>4 DEF CallFails
      <4>5. QED
        BY <4>2, <4>3, <4>4
    <3>7. ASSUME account[u].callback, \A d \in Unlinks : UserOf[d] = u => step[d] # "done"
          PROVE  \/ account'[u].callback /\ \A d \in Unlinks : UserOf[d] = u => step'[d] # "done"
                 \/ \E r \in links' : r.user = u
                 \/ \E d \in Unlinks : UserOf[d] = u /\ d \in rivals'
      <4>1. CASE \A d \in Unlinks : UserOf[d] = u => step'[d] # "done"
        BY <4>1, <3>1, <3>7
      <4>2. CASE \E d \in Unlinks : UserOf[d] = u /\ step'[d] = "done"
        <5>1. PICK d \in Unlinks : UserOf[d] = u /\ step'[d] = "done"
          BY <4>2
        <5>2. d = c
          BY <5>1, <3>7, <1>2
        <5>3. Unlink(c) /\ step[c] = "delete"
          BY <5>1, <5>2, StagesOf DEF Happens, Stands
        <5>4. c \in rivals \/ \E p, q \in links : p # q /\ p.user = u /\ q.user = u
          BY <5>1, <5>2, <5>3, <3>1 DEF FreeToUnlink
        <5>5. CASE c \in rivals
          BY <5>1, <5>2, <5>5, <1>4
        <5>6. CASE \E p, q \in links : p # q /\ p.user = u /\ q.user = u
          <6>1. PICK p, q \in links : p # q /\ p.user = u /\ q.user = u
            BY <5>6
          <6>2. QED
            BY <6>1, <3>2
        <5>7. QED
          BY <5>4, <5>5, <5>6
      <4>3. QED
        BY <4>1, <4>2
    <3>4. \/ OfUser(u) # {}
          \/ u \in stranded
          \/ account[u].callback /\ \A d \in Unlinks : UserOf[d] = u => step[d] # "done"
          \/ \E d \in SignIns : UserOf[d] = u /\ step[d] = "bind"
          \/ \E d \in Unlinks : UserOf[d] = u /\ d \in rivals
      BY <2>2, <3>1 DEF WayIn
    <3>5. OfUser(u) # {} => \E r \in links : r.user = u
      BY DEF OfUser
    <3>6. QED
      BY <3>2, <3>3, <3>4, <3>5, <3>7, <1>4
  <2>3. QED
    BY <2>1, <2>2
<1>13. WayIn'
  BY <1>12 DEF WayIn, OfUser
<1>14. QED
  BY <1>11, <1>13

LEMMA VerifiedNext ==
  ASSUME AccountTypeOK, CallsInPlace, VerifiedFirst, AddressProven, SignUpVerified,
         NEW c \in AccountCalls, Happens(c)
  PROVE  VerifiedFirst' /\ AddressProven' /\ SignUpVerified'
<1> USE CallsApart
<1>1. PICK to \in Stages : Stands(c, to)
  BY StagesOf DEF Happens, Stages, Ended
<1>2. \A d \in AccountCalls : d # c => step'[d] = step[d]
  BY <1>1 DEF Stands
<1>3. \A u \in Addresses :
          /\ account[u].exists => account'[u].exists
          /\ account[u].verified => account'[u].verified
          /\ account'[u].verified => account'[u].exists
  BY AccountStepOf, AccountsStay DEF Happens, KeepsWays
<1>4. mustVerify' = mustVerify
  BY AccountStepOf DEF Happens
<1>5. \A d \in AccountCalls : UserOf[d] \in Addresses
  BY CallsAbout
<1>6. CreateUser(c) /\ ~ account[UserOf[c]].exists =>
          account'[UserOf[c]].exists /\ (c \in SignIns => account'[UserOf[c]].verified)
  BY AccountsStay
<1>7. step'[c] = "mark" => account'[UserOf[c]].exists
  <2> SUFFICES ASSUME step'[c] = "mark" PROVE account'[UserOf[c]].exists
    OBVIOUS
  <2>1. \/ CreateUser(c) /\ ~ account[UserOf[c]].exists
        \/ c \in SignIns /\ step[c] = "insert"
    BY StagesOf DEF Happens, Stands
  <2>2. QED
    BY <2>1, <1>3, <1>5, <1>6 DEF VerifiedFirst
<1>8. c \in SignIns /\ step'[c] \in {"insert", "bind"} =>
          account'[UserOf[c]].exists /\ (mustVerify => account'[UserOf[c]].verified)
  <2> SUFFICES ASSUME c \in SignIns, step'[c] \in {"insert", "bind"}
               PROVE  account'[UserOf[c]].exists /\ (mustVerify => account'[UserOf[c]].verified)
    OBVIOUS
  <2>1. \/ CreateUser(c) /\ ~ account[UserOf[c]].exists
        \/ account[UserOf[c]].exists /\ (mustVerify => account[UserOf[c]].verified)
    BY StagesOf DEF Happens, Stands
  <2>2. QED
    BY <2>1, <1>3, <1>5, <1>6
<1>9. VerifiedFirst'
  <2>1. \A d \in AccountCalls : step'[d] = "mark" => account'[UserOf[d]].exists
    BY <1>2, <1>3, <1>5, <1>7 DEF VerifiedFirst
  <2>2. \A d \in SignIns : step'[d] \in {"insert", "bind"} =>
           account'[UserOf[d]].exists /\ (mustVerify' => account'[UserOf[d]].verified)
    BY <1>2, <1>3, <1>4, <1>5, <1>8 DEF VerifiedFirst
  <2>3. QED
    BY <2>1, <2>2, <1>3 DEF VerifiedFirst
<1>10. AddressProven'
  <2> SUFFICES ASSUME mustVerify, NEW r \in links', r.by \in SignIns
               PROVE  account'[r.user].verified
    BY <1>4 DEF AddressProven
  <2>1. CASE r \in links
    <3>1. account[r.user].verified /\ r.user \in Addresses
      BY <2>1 DEF AddressProven, AccountTypeOK
    <3>2. QED
      BY <3>1, <1>3
  <2>2. CASE r \notin links
    <3>1. Attach(c)
      BY <2>2, AccountStepOf DEF Happens, LinksStay, Unlink
    <3>2. r.by = c /\ r.user = UserOf[c]
      BY <2>2, <3>1 DEF Attach
    <3>3. step[c] \in {"insert", "bind"}
      BY <3>1, StagesOf
    <3>4. account[UserOf[c]].verified
      BY <3>2, <3>3 DEF VerifiedFirst
    <3>5. QED
      BY <3>2, <3>4, <1>3, <1>5
  <2>3. QED
    BY <2>1, <2>2
<1>11. SignUpVerified'
  <2> SUFFICES ASSUME NEW d \in Registrations, step'[d] = "done", d \in SocialSignUps \/ ~ mustVerify
               PROVE  account'[UserOf[d]].verified
    BY <1>4 DEF SignUpVerified
  <2>1. CASE step[d] = "done"
    BY <2>1, <1>3, <1>5 DEF SignUpVerified
  <2>2. CASE step[d] # "done"
    <3>1. d = c
      BY <2>2, <1>2
    <3>2. MarkVerified(c)
      BY <3>1, StagesOf DEF Happens, Stands
    <3>3. QED
      BY <3>1, <3>2, AccountsStay
  <2>3. QED
    BY <2>1, <2>2
<1>12. QED
  BY <1>9, <1>10, <1>11

-----------------------------------------------------------------------------

LEMMA AccountInvInit == AccountInit => AccountInv
<1> SUFFICES ASSUME AccountInit PROVE AccountInv
  OBVIOUS
<1> USE CallsApart
<1> DEFINE Starting == [exists : {TRUE}, password : {TRUE}, verified : BOOLEAN, callback : {FALSE}]
<1>0. account \in [Addresses -> {NoAccount} \cup Starting]
  BY DEF AccountInit
<1>1. links = {} /\ (\A c \in AccountCalls : step[c] = "start") /\ (\A c \in Unlinks : chosen[c] = {})
  BY DEF AccountInit
<1>2. AccountTypeOK
  <2>1. account \in [Addresses -> AccountRow]
    <3>1. NoAccount \in AccountRow
      BY DEF NoAccount, AccountRow
    <3>2. Starting \subseteq AccountRow
      BY DEF Starting, AccountRow
    <3>3. QED
      BY <1>0, <3>1, <3>2
  <2>2. QED
    BY <2>1 DEF AccountInit, AccountTypeOK, Ended
<1>3. IsFiniteSet(links)
  BY <1>1, FS_EmptySet
<1>4. \A u \in Addresses : (account[u].exists => account[u].password) /\ (account[u].verified => account[u].exists)
  <2>1. \A a \in Starting : a.exists = TRUE /\ a.password = TRUE
    BY DEF Starting
  <2>2. NoAccount.exists = FALSE /\ NoAccount.verified = FALSE
    BY DEF NoAccount
  <2> HIDE DEF Starting
  <2>3. QED
    BY <1>0, <2>1, <2>2
<1>5. CallsInPlace /\ FreeToBind /\ FreeToUnlink
  BY <1>1 DEF CallsInPlace, FreeToBind, FreeToUnlink, Looking
<1>6. VerifiedFirst
  BY <1>1, <1>4 DEF VerifiedFirst
<1>7. OneOwner /\ WayIn /\ AddressProven /\ SignUpVerified
  BY <1>1, <1>4 DEF OneOwner, WayIn, AddressProven, SignUpVerified
<1>8. QED
  BY <1>2, <1>3, <1>5, <1>6, <1>7 DEF AccountInv

LEMMA AccountInvNext == AccountInv /\ [AccountNext]_accountVars => AccountInv'
<1> SUFFICES ASSUME AccountInv, [AccountNext]_accountVars PROVE AccountInv'
  OBVIOUS
<1>1. CASE AccountNext
  <2>1. PICK c \in AccountCalls : Happens(c)
    BY <1>1 DEF AccountNext, Happens
  <2>2. AccountTypeOK' /\ IsFiniteSet(links') /\ CallsInPlace'
    BY <2>1, AccountTypesNext DEF AccountInv
  <2>3. FreeToBind' /\ OneOwner'
    BY <2>1, BindNext DEF AccountInv
  <2>4. FreeToUnlink' /\ WayIn'
    BY <2>1, UnlinkNext DEF AccountInv
  <2>5. VerifiedFirst' /\ AddressProven' /\ SignUpVerified'
    BY <2>1, VerifiedNext DEF AccountInv
  <2>6. QED
    BY <2>2, <2>3, <2>4, <2>5 DEF AccountInv
<1>2. CASE UNCHANGED accountVars
  BY <1>2 DEF accountVars, AccountInv, AccountTypeOK, CallsInPlace, FreeToBind, FreeToUnlink, VerifiedFirst,
              OneOwner, WayIn, AddressProven, SignUpVerified, OfUser
<1>3. QED
  BY <1>1, <1>2

LEMMA AccountInvMeans == AccountInv => AccountsSafe /\ AccountTypeOK
  BY DEF AccountInv, AccountsSafe

(***************************************************************************)
(* However the calls that register, verify, link, unlink and sign in with  *)
(* an identity interleave: an identity has one owner unless two calls      *)
(* looked it up at once; a user without a password keeps an identity to    *)
(* come in with, unless two of his calls unlinked at once, his sign-up is  *)
(* under way or was cut off, or a callback made him and he never linked    *)
(* one; and an address is verified before it counts                        *)
(* (services/auth/account_linking_service.py).                             *)
(***************************************************************************)
THEOREM WaysInKept == AccountSpec => []AccountsSafe
<1>1. AccountInv => AccountsSafe
  BY AccountInvMeans
<1>2. QED
  BY <1>1, AccountInvInit, AccountInvNext, PTL DEF AccountSpec

=============================================================================
