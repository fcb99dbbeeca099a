--------------------------- MODULE Access_proofs ----------------------------
(***************************************************************************)
(* Proofs about the modules that decide who gets in, for every value of    *)
(* their constants: policies, API keys, teams, organizations, and the      *)
(* eight modules next to each other.  What is proved of the window, the    *)
(* sessions, the second factor and the accounts is in SignIn_proofs.       *)
(***************************************************************************)
EXTENDS MCAccess, SignIn_proofs, FiniteSetTheorems, TLAPS

(***************************************************************************)
(* Policies: what the loop has seen is what it has taken off left; it goes *)
(* on only while nothing it has seen denies.                               *)
(***************************************************************************)
Seen == {p \in PolicyIds : Found(p)} \ left

PolicyInv ==
    /\ policy \in [PolicyIds -> Configuration]
    /\ left \subseteq {p \in PolicyIds : Found(p)}
    /\ allowed \in BOOLEAN
    /\ decision \in {"none", "allow", "deny"}
    /\ allowed <=> \E p \in Seen : Matched(p) /\ policy[p].effect # "deny"
    /\ decision = "none" => ~ \E p \in Seen : Matched(p) /\ policy[p].effect = "deny"
    /\ DecisionRight

LEMMA PolicyInitially == PolicyInit => PolicyInv
  BY DEF PolicyInit, PolicyInv, Seen, DecisionRight

LEMMA MatchedStays ==
    ASSUME UNCHANGED <<policy, actual>>
    PROVE  /\ \A p \in PolicyIds : Matched(p)' <=> Matched(p)
           /\ \A p \in PolicyIds : Found(p)' <=> Found(p)
  BY DEF Matched, Found, Passes

LEMMA EvaluateStep ==
    ASSUME PolicyInv, NEW p \in PolicyIds, Evaluate(p)
    PROVE  PolicyInv'
<1> USE DEF PolicyInv
<1>1. UNCHANGED <<policy, actual>> /\ decision = "none" /\ p \in left /\ Found(p) /\ left' = left \ {p}
  BY DEF Evaluate, Foremost
<1>2. (Matched(p)' <=> Matched(p)) /\ \A q \in PolicyIds : (Matched(q)' <=> Matched(q)) /\ (Found(q)' <=> Found(q))
  BY <1>1, MatchedStays
<1>3. Seen' = Seen \cup {p}
  BY <1>1, <1>2 DEF Seen
<1>4. \A q \in Seen : q \in PolicyIds
  BY DEF Seen
<1>5. (allowed <=> \E q \in Seen : Matched(q) /\ policy[q].effect # "deny")'
  BY <1>1, <1>2, <1>3, <1>4 DEF Evaluate
<1>6. (decision = "none" => ~ \E q \in Seen : Matched(q) /\ policy[q].effect = "deny")'
  BY <1>1, <1>2, <1>3, <1>4 DEF Evaluate
<1>7. DecisionRight'
  <2>1. CASE Matched(p) /\ policy[p].effect = "deny"
    <3>1. decision' = "deny"
      BY <2>1 DEF Evaluate
    <3>2. Found(p)' /\ Matched(p)' /\ policy'[p].effect \in {"deny"}
      BY <1>1, <1>2, <2>1
    <3> QED
      BY <3>1, <3>2 DEF DecisionRight
  <2>2. CASE ~ (Matched(p) /\ policy[p].effect = "deny")
    BY <2>2 DEF Evaluate, DecisionRight
  <2> QED
    BY <2>1, <2>2
<1>8. (left \subseteq {q \in PolicyIds : Found(q)})'
  BY <1>1, <1>2
<1> QED
  BY <1>1, <1>5, <1>6, <1>7, <1>8 DEF Evaluate

LEMMA DecideStep ==
    ASSUME PolicyInv, Decide
    PROVE  PolicyInv'
<1> USE DEF PolicyInv
<1>1. UNCHANGED <<policy, actual, left, allowed>> /\ decision = "none" /\ left = {}
  BY DEF Decide
<1>2. \A q \in PolicyIds : (Matched(q)' <=> Matched(q)) /\ (Found(q)' <=> Found(q))
  BY <1>1, MatchedStays
<1>3. Seen' = Seen /\ Seen = {p \in PolicyIds : Found(p)}
  BY <1>1, <1>2 DEF Seen
<1>4. \A q \in PolicyIds : policy[q].effect \in {"allow", "conditional", "deny"}
  BY DEF Configuration
<1>5. DecisionRight'
  <2>1. decision' = "allow" <=> allowed
    BY DEF Decide
  <2>2. allowed <=> \E q \in PolicyIds : Found(q) /\ Matched(q) /\ policy[q].effect \in {"allow", "conditional"}
    BY <1>3, <1>4
  <2>3. ~ \E q \in PolicyIds : Found(q) /\ Matched(q) /\ policy[q].effect \in {"deny"}
    BY <1>1, <1>3
  <2> QED
    BY <1>1, <1>2, <2>1, <2>2, <2>3 DEF DecisionRight
<1> QED
  BY <1>1, <1>2, <1>3, <1>5 DEF Decide

LEMMA PolicyPreserved ==
    ASSUME PolicyInv, [PolicyNext]_policyVars
    PROVE  PolicyInv'
<1>1. CASE UNCHANGED policyVars
  BY <1>1, MatchedStays DEF policyVars, PolicyInv, Seen, DecisionRight, Found, Matched, Passes
<1> QED
  BY <1>1, EvaluateStep, DecideStep DEF PolicyNext

(***************************************************************************)
(* Whatever the policies, their priorities and the order in which equal    *)
(* ones are taken, an action is allowed when an applicable policy allows   *)
(* it and none denies it (services/policy/policy_engine.py).               *)
(***************************************************************************)
THEOREM PoliciesDecide == PolicySpec => []DecisionRight
<1>1. PolicyInv => DecisionRight
  BY DEF PolicyInv
<1> QED
  BY <1>1, PolicyInitially, PolicyPreserved, PTL DEF PolicySpec

-----------------------------------------------------------------------------

(***************************************************************************)
(* Keys: a row that was not inserted has no history, and no key has a      *)
(* scope its history lacks.                                                *)
(***************************************************************************)
RowsSound ==
    \A k \in Keys :
        /\ key[k].row = "none" =>
              key[k].scopes = {} /\ key[k].from = NoKey /\ letIn[k] = NoPeriod
        /\ letIn[k] # NoPeriod => letIn[k] <= period
        /\ key[k].scopes \subseteq could[k]
        /\ key[k].row = "off" => offAt[k] # NoPeriod

(***************************************************************************)
(* A rotation past its first commit has turned its key off, and carries    *)
(* the scopes this key had; the key a call made is its own until it is     *)
(* linked, and holds what the call gave it unless somebody edited it.      *)
(***************************************************************************)
Carries(c) ==
    /\ keyCall[c].pc \in {"off", "scopes", "use", "remove"} =>
          keyCall[c].old \in Keys /\ key[keyCall[c].old].row # "none"
    /\ keyCall[c].pc \in {"scopes", "insert", "grant", "link"} /\ keyCall[c].old # NoKey =>
          offAt[keyCall[c].old] # NoPeriod
    /\ keyCall[c].pc \in {"insert", "grant", "link"} /\ keyCall[c].old # NoKey =>
          /\ keyCall[c].scopes \subseteq could[keyCall[c].old]
          /\ keyCall[c].old \notin reread => keyCall[c].scopes = key[keyCall[c].old].scopes

Making(c) == keyCall[c].pc \in {"grant", "link"}

Makes(c) ==
    Making(c) =>
        /\ keyCall[c].made \in Keys
        /\ key[keyCall[c].made].row # "none"
        /\ key[keyCall[c].made].from = NoKey
        /\ keyCall[c].made \notin reread =>
              key[keyCall[c].made].scopes = IF keyCall[c].pc = "grant" THEN {} ELSE keyCall[c].scopes

MadeOnce ==
    \A c, d \in KeyCalls : Making(c) /\ Making(d) /\ keyCall[c].made = keyCall[d].made => c = d

CallsSound ==
    /\ \A c \in KeyCalls : Carries(c)
    /\ \A c \in KeyCalls : Makes(c)
    /\ MadeOnce
    /\ \A c \in KeyCalls : keyCall[c].pc = "new" => keyCall[c].old = NoKey

KeyInv == KeyTypeOK /\ RowsSound /\ CallsSound /\ KeysSafe

(***************************************************************************)
(* What each step does to one call.                                        *)
(***************************************************************************)
KeyRow == [row : {"none", "active", "off"}, expires : 0 .. NoPeriod,
           used : 0 .. NoPeriod, scopes : SUBSET Scopes, from : Keys \cup {NoKey}]
KeyCallType ==
    [pc : {"new", "off", "scopes", "insert", "grant", "link", "use", "remove", "over"},
     old : Keys \cup {NoKey}, made : Keys \cup {NoKey}, scopes : SUBSET Scopes]

LEMMA KeyInitially == KeyInit => KeyInv
<1> SUFFICES ASSUME KeyInit PROVE KeyInv
  OBVIOUS
<1> USE DEF KeyInit
<1>1. KeyTypeOK
  BY KeysAssumption DEF KeyTypeOK, NoPeriod
<1>2. RowsSound
  BY DEF RowsSound
<1>3. CallsSound
  BY DEF CallsSound, Carries, Makes, Making, MadeOnce
<1>4. KeysSafe
  BY DEF KeysSafe, OffForGood, RotationKeepsScope, NoLateUse
<1> QED
  BY <1>1, <1>2, <1>3, <1>4 DEF KeyInv

(***************************************************************************)
(* A step of a call that leaves the rows alone.                            *)
(***************************************************************************)
LEMMA CallOnly ==
    ASSUME KeyInv, NEW c \in KeyCalls, NEW u \in KeyCallType, 
           keyCall' = [keyCall EXCEPT ![c] = u],
           UNCHANGED <<period, key, keySweep, offAt, letIn, could, reread>>,
           Carries(c)', Makes(c)', u.pc # "new",
           Making(c)' => (Making(c) /\ keyCall'[c].made = keyCall[c].made)
    PROVE  KeyInv'
<1> USE DEF KeyInv
<1>1. /\ keyCall'[c] = u
      /\ \A d \in KeyCalls \ {c} : keyCall'[d] = keyCall[d]
      /\ keyCall' \in [KeyCalls -> KeyCallType]
  BY DEF KeyTypeOK, KeyCallType
<1>2. KeyTypeOK'
  BY <1>1 DEF KeyTypeOK, KeyCallType
<1>3. RowsSound' /\ KeysSafe'
  BY DEF RowsSound, KeysSafe, OffForGood, RotationKeepsScope, NoLateUse
<1>4. \A d \in KeyCalls : Carries(d)'
  BY <1>1 DEF CallsSound, Carries
<1>5. \A d \in KeyCalls : Makes(d)'
  BY <1>1 DEF CallsSound, Makes, Making
<1>6. MadeOnce'
  BY <1>1 DEF CallsSound, MadeOnce, Making
<1> QED
  BY <1>1, <1>2, <1>3, <1>4, <1>5, <1>6 DEF CallsSound

LEMMA StartCreateStep ==
    ASSUME KeyInv, NEW c \in Creators, NEW s \in SUBSET Scopes, StartCreate(c, s)
    PROVE  KeyInv'
<1> DEFINE u == [keyCall[c] EXCEPT !.pc = "insert", !.scopes = s]
<1>1. c \in KeyCalls /\ keyCall[c] \in KeyCallType /\ keyCall[c].pc = "new" /\ keyCall[c].old = NoKey
  BY DEF KeyInv, KeyTypeOK, KeyCallType, CallsSound, StartCreate, At, KeyCalls
<1>2. u \in KeyCallType /\ u.pc = "insert" /\ u.old = NoKey
  BY <1>1 DEF KeyCallType
<1>3. keyCall' = [keyCall EXCEPT ![c] = u] /\ UNCHANGED <<period, key, keySweep, offAt, letIn, could, reread>>
  BY DEF StartCreate
<1> HIDE DEF u
<1>4. keyCall'[c] = u
  BY <1>1, <1>3 DEF KeyInv, KeyTypeOK
<1>5. Carries(c)' /\ Makes(c)' /\ ~ Making(c)'
  BY <1>2, <1>4 DEF Carries, Makes, Making
<1> QED
  BY <1>1, <1>2, <1>3, <1>4, <1>5, CallOnly

LEMMA StartOffStep ==
    ASSUME KeyInv, NEW c \in KeyCalls, NEW k \in Keys, StartRotation(c, k) \/ StartRevoke(c, k)
    PROVE  KeyInv'
<1> DEFINE u == [keyCall[c] EXCEPT !.pc = "off", !.old = k]
<1>1. keyCall[c] \in KeyCallType
  BY DEF KeyInv, KeyTypeOK, KeyCallType
<1>2. u \in KeyCallType /\ u.pc = "off" /\ u.old = k
  BY <1>1 DEF KeyCallType
<1>3. keyCall' = [keyCall EXCEPT ![c] = u] /\ UNCHANGED <<period, key, keySweep, offAt, letIn, could, reread>>
  BY DEF StartRotation, StartRevoke
<1> HIDE DEF u
<1>4. keyCall'[c] = u
  BY <1>1, <1>3 DEF KeyInv, KeyTypeOK
<1>5. Carries(c)' /\ Makes(c)' /\ ~ Making(c)'
  BY <1>2, <1>3, <1>4 DEF Carries, Makes, Making, StartRotation, StartRevoke, Rows
<1> QED
  BY <1>1, <1>2, <1>3, <1>4, <1>5, CallOnly

LEMMA ReadScopesStep ==
    ASSUME KeyInv, NEW c \in Rotations, ReadScopes(c)
    PROVE  KeyInv'
<1> DEFINE u == [keyCall[c] EXCEPT !.pc = "insert", !.scopes = key[keyCall[c].old].scopes]
<1>1. c \in KeyCalls /\ keyCall[c] \in KeyCallType /\ keyCall[c].pc = "scopes" /\ keyCall[c].old \in Keys /\ Carries(c)
  BY DEF KeyInv, KeyTypeOK, KeyCallType, CallsSound, Carries, ReadScopes, At, KeyCalls
<1>a. key[keyCall[c].old].scopes \in SUBSET Scopes
  BY <1>1 DEF KeyInv, KeyTypeOK
<1>2. u \in KeyCallType /\ u.pc = "insert" /\ u.old = keyCall[c].old /\ u.scopes = key[keyCall[c].old].scopes
  BY <1>1, <1>a DEF KeyCallType
<1>3. keyCall' = [keyCall EXCEPT ![c] = u] /\ UNCHANGED <<period, key, keySweep, offAt, letIn, could, reread>>
  BY DEF ReadScopes
<1> HIDE DEF u
<1>4. keyCall'[c] = u
  BY <1>1, <1>3 DEF KeyInv, KeyTypeOK
<1>5. Makes(c)' /\ ~ Making(c)'
  BY <1>2, <1>4 DEF Makes, Making
<1>6. Carries(c)'
  BY <1>1, <1>2, <1>3, <1>4 DEF Carries, KeyInv, RowsSound
<1> QED
  BY <1>1, <1>2, <1>3, <1>4, <1>5, <1>6, CallOnly

LEMMA EndStep ==
    ASSUME KeyInv, NEW c \in KeyCalls, Ends(c), UNCHANGED <<period, key, keySweep, offAt, letIn, could, reread>>
    PROVE  KeyInv'
<1> DEFINE u == [pc |-> "over", old |-> NoKey, made |-> NoKey, scopes |-> {}]
<1>2. u \in KeyCallType /\ u.pc = "over"
  BY DEF KeyCallType
<1>3. keyCall' = [keyCall EXCEPT ![c] = u]
  BY DEF Ends
<1> HIDE DEF u
<1>4. keyCall'[c] = u
  BY <1>3 DEF KeyInv, KeyTypeOK
<1>5. Carries(c)' /\ Makes(c)' /\ ~ Making(c)'
  BY <1>2, <1>4 DEF Carries, Makes, Making
<1> QED
  BY <1>2, <1>3, <1>4, <1>5, CallOnly

(***************************************************************************)
(* A step that turns keys off, or only writes when one was used.           *)
(***************************************************************************)
OffStep(R) ==
    /\ key' \in [Keys -> KeyRow]
    /\ \A k \in Keys : /\ key'[k].row = IF k \in R THEN "off" ELSE key[k].row
                       /\ key'[k].scopes = key[k].scopes
                       /\ key'[k].from = key[k].from
                       /\ k \notin R => key'[k].expires = key[k].expires
    /\ offAt' = [k \in Keys |-> IF k \in R /\ offAt[k] = NoPeriod THEN period ELSE offAt[k]]
    /\ UNCHANGED <<period, letIn, could, reread>>

LEMMA OffFrame ==
    ASSUME KeyInv, NEW R \in SUBSET Keys, OffStep(R)
    PROVE  /\ RowsSound' /\ KeysSafe'
           /\ offAt' \in [Keys -> 0 .. NoPeriod]
           /\ \A d \in KeyCalls : keyCall'[d] = keyCall[d] => Carries(d)' /\ Makes(d)'
<1> USE DEF KeyInv
<1>1. /\ period \in 0 .. LastPeriod /\ LastPeriod \in Nat /\ KeyLife \in Nat
      /\ NoPeriod \in Nat /\ NoPeriod > LastPeriod /\ period \in Nat /\ period < NoPeriod
      /\ key \in [Keys -> KeyRow] /\ offAt \in [Keys -> 0 .. NoPeriod] /\ letIn \in [Keys -> 0 .. NoPeriod]
  BY KeysAssumption DEF NoPeriod, KeyTypeOK, KeyRow
<1>2. offAt' \in [Keys -> 0 .. NoPeriod]
  BY <1>1 DEF OffStep
<1>3. \A k \in Keys : /\ offAt[k] # NoPeriod => offAt'[k] = offAt[k]
                      /\ offAt'[k] # NoPeriod => offAt[k] # NoPeriod \/ k \in R
                      /\ k \in R => offAt'[k] # NoPeriod
  BY <1>1 DEF OffStep
<1>4. \A k \in Keys : key[k].row = "off" => key'[k].row = "off"
  BY DEF OffStep
<1>5. \A k \in Keys : key[k].from \in Keys \cup {NoKey}
  BY <1>1 DEF KeyRow
<1>6. RowsSound'
  BY <1>3, <1>4 DEF RowsSound, OffStep
<1>7. OffForGood'
  BY <1>3 DEF KeysSafe, OffForGood, OffStep
<1>8. RotationKeepsScope'
  BY <1>4, <1>5 DEF KeysSafe, RotationKeepsScope, OffStep
<1>9. NoLateUse'
  <2> SUFFICES ASSUME NEW k \in Keys, letIn[k] # NoPeriod
               PROVE  letIn[k] <= offAt'[k] /\ (offAt'[k] = NoPeriod => letIn[k] <= key'[k].expires)
    BY DEF NoLateUse, OffStep
  <2>1. letIn[k] <= period /\ letIn[k] <= offAt[k] /\ (offAt[k] = NoPeriod => letIn[k] <= key[k].expires)
    BY DEF RowsSound, KeysSafe, NoLateUse
  <2>2. offAt'[k] \in {offAt[k], period} /\ (offAt'[k] = NoPeriod => offAt[k] = NoPeriod /\ k \notin R)
    BY <1>1 DEF OffStep
  <2> QED
    BY <2>1, <2>2 DEF OffStep
<1>10. ASSUME NEW d \in KeyCalls, keyCall'[d] = keyCall[d]
       PROVE  Carries(d)' /\ Makes(d)'
  <2>1. Carries(d) /\ Makes(d) /\ keyCall[d].old \in Keys \cup {NoKey}
    BY DEF CallsSound, KeyTypeOK
  <2>2. Carries(d)'
    BY <1>3, <1>10, <2>1 DEF Carries, OffStep
  <2>3. Makes(d)'
    BY <1>10, <2>1 DEF Makes, Making, OffStep
  <2> QED
    BY <2>2, <2>3
<1> QED
  BY <1>2, <1>6, <1>7, <1>8, <1>9, <1>10 DEF KeysSafe

(***************************************************************************)
(* The other calls, beside one that takes a step.                          *)
(***************************************************************************)
LEMMA CallMoves ==
    ASSUME KeyInv, NEW c \in KeyCalls, NEW u \in KeyCallType,
           keyCall' = [keyCall EXCEPT ![c] = u], u.pc # "new",
           Making(c)' => (Making(c) /\ keyCall'[c].made = keyCall[c].made),
           \A d \in KeyCalls \ {c} : Carries(d)' /\ Makes(d)', Carries(c)', Makes(c)'
    PROVE  /\ keyCall' \in [KeyCalls -> KeyCallType]
           /\ CallsSound'
<1> USE DEF KeyInv
<1>1. /\ keyCall'[c] = u
      /\ \A d \in KeyCalls \ {c} : keyCall'[d] = keyCall[d]
      /\ keyCall' \in [KeyCalls -> KeyCallType]
  BY DEF KeyTypeOK, KeyCallType
<1>6. MadeOnce'
  BY <1>1 DEF CallsSound, MadeOnce, Making
<1> QED
  BY <1>1, <1>6 DEF CallsSound

LEMMA EndsFacts ==
    ASSUME KeyInv, NEW c \in KeyCalls, Ends(c)
    PROVE  /\ keyCall' \in [KeyCalls -> KeyCallType]
           /\ Carries(c)' /\ Makes(c)' /\ ~ Making(c)'
           /\ \A d \in KeyCalls \ {c} : keyCall'[d] = keyCall[d]
           /\ (\A d \in KeyCalls \ {c} : Carries(d)' /\ Makes(d)') => CallsSound'
<1> DEFINE u == [pc |-> "over", old |-> NoKey, made |-> NoKey, scopes |-> {}]
<1>2. u \in KeyCallType /\ u.pc = "over"
  BY DEF KeyCallType
<1>3. keyCall' = [keyCall EXCEPT ![c] = u]
  BY DEF Ends
<1> HIDE DEF u
<1>4. /\ keyCall'[c] = u
      /\ \A d \in KeyCalls \ {c} : keyCall'[d] = keyCall[d]
      /\ keyCall' \in [KeyCalls -> KeyCallType]
  BY <1>2, <1>3 DEF KeyInv, KeyTypeOK, KeyCallType
<1>5. Carries(c)' /\ Makes(c)' /\ ~ Making(c)'
  BY <1>2, <1>4 DEF Carries, Makes, Making
<1> QED
  BY <1>2, <1>3, <1>4, <1>5, CallMoves

LEMMA RevokeStep ==
    ASSUME KeyInv, NEW c \in Revocations, Revoke(c)
    PROVE  KeyInv'
<1>1. c \in KeyCalls /\ keyCall[c].old \in Keys
  BY DEF KeyCalls, KeyInv, CallsSound, Carries, Revoke, At
<1> DEFINE R == {keyCall[c].old}
<1>2. key \in [Keys -> KeyRow] /\ offAt \in [Keys -> 0 .. NoPeriod]
  BY DEF KeyInv, KeyTypeOK, KeyRow
<1>3. OffStep(R)
  BY <1>1, <1>2 DEF OffStep, Revoke, KeyRow
<1>4. Ends(c) /\ keySweep' = keySweep /\ R \in SUBSET Keys
  BY <1>1 DEF Revoke
<1> HIDE DEF R
<1> QED
  BY <1>1, <1>3, <1>4, OffFrame, EndsFacts DEF KeyInv, KeyTypeOK, OffStep, KeyRow, KeyCallType

LEMMA UpdateLastUsedStep ==
    ASSUME KeyInv, NEW c \in Requests, UpdateLastUsed(c)
    PROVE  KeyInv'
<1>1. c \in KeyCalls /\ keyCall[c].old \in Keys
  BY DEF KeyCalls, KeyInv, CallsSound, Carries, UpdateLastUsed, At
<1>2. key \in [Keys -> KeyRow] /\ offAt \in [Keys -> 0 .. NoPeriod] /\ period \in 0 .. NoPeriod
  BY KeysAssumption DEF KeyInv, KeyTypeOK, KeyRow, NoPeriod
<1>3. OffStep({})
  BY <1>1, <1>2 DEF OffStep, UpdateLastUsed, KeyRow
<1>4. Ends(c) /\ keySweep' = keySweep /\ {} \in SUBSET Keys
  BY <1>1 DEF UpdateLastUsed
<1> QED
  BY <1>1, <1>3, <1>4, OffFrame, EndsFacts DEF KeyInv, KeyTypeOK, OffStep, KeyRow, KeyCallType

LEMMA DeactivateAndExtendStep ==
    ASSUME KeyInv, NEW c \in Rotations, DeactivateAndExtend(c)
    PROVE  KeyInv'
<1>1. c \in KeyCalls /\ keyCall[c].old \in Keys /\ keyCall[c] \in KeyCallType /\ key[keyCall[c].old].row # "none"
  BY DEF KeyCalls, KeyInv, CallsSound, Carries, DeactivateAndExtend, At, KeyTypeOK, KeyCallType
<1> DEFINE R == {keyCall[c].old}
           u == [keyCall[c] EXCEPT !.pc = "scopes"]
<1>2. /\ key \in [Keys -> KeyRow] /\ offAt \in [Keys -> 0 .. NoPeriod]
      /\ period + 1 \in 0 .. NoPeriod /\ period # NoPeriod
  BY KeysAssumption DEF KeyInv, KeyTypeOK, KeyRow, NoPeriod
<1> DEFINE v == [key[keyCall[c].old] EXCEPT !.row = "off", !.expires = period + 1]
<1>a. key' = [key EXCEPT ![keyCall[c].old] = v]
  BY <1>1, <1>2 DEF DeactivateAndExtend
<1>b. key[keyCall[c].old] \in KeyRow
  BY <1>1, <1>2
<1>c. /\ v \in KeyRow /\ v.row = "off" /\ v.scopes = key[keyCall[c].old].scopes
      /\ v.from = key[keyCall[c].old].from
  BY <1>2, <1>b DEF KeyRow
<1>3. OffStep(R)
  <2> HIDE DEF v
  <2>1. key' \in [Keys -> KeyRow]
    BY <1>1, <1>2, <1>a, <1>c
  <2> QED
    BY <1>1, <1>2, <1>a, <1>c, <2>1 DEF OffStep, DeactivateAndExtend
<1>4. keySweep' = keySweep /\ R \in SUBSET Keys /\ keyCall' = [keyCall EXCEPT ![c] = u]
  BY <1>1 DEF DeactivateAndExtend, Goes
<1>5. u \in KeyCallType /\ u.pc = "scopes" /\ u.old = keyCall[c].old
  BY <1>1 DEF KeyCallType
<1>6. offAt'[keyCall[c].old] # NoPeriod
  BY <1>1, <1>2, <1>3 DEF OffStep
<1> HIDE DEF u, R
<1>7. keyCall'[c] = u /\ \A d \in KeyCalls \ {c} : keyCall'[d] = keyCall[d]
  BY <1>1, <1>4 DEF KeyInv, KeyTypeOK
<1>8. Carries(c)' /\ Makes(c)' /\ ~ Making(c)'
  BY <1>1, <1>3, <1>5, <1>6, <1>7 DEF Carries, Makes, Making, OffStep
<1>9. /\ RowsSound' /\ KeysSafe' /\ offAt' \in [Keys -> 0 .. NoPeriod]
      /\ \A d \in KeyCalls \ {c} : Carries(d)' /\ Makes(d)'
  BY <1>3, <1>4, <1>7, OffFrame
<1>10. CallsSound' /\ keyCall' \in [KeyCalls -> KeyCallType]
  BY <1>1, <1>4, <1>5, <1>8, <1>9, CallMoves
<1> QED
  BY <1>3, <1>4, <1>9, <1>10 DEF KeyInv, KeyTypeOK, OffStep, KeyRow, KeyCallType

LEMMA DeactivateBatchStep ==
    ASSUME KeyInv, DeactivateBatch
    PROVE  KeyInv'
<1> DEFINE R == keySweep.rows
<1>1. R \in SUBSET Keys /\ keySweep' \in [pc : {"idle", "expired", "find", "inactive"}, rows : SUBSET Keys]
  BY DEF KeyInv, KeyTypeOK, DeactivateBatch
<1>2. key \in [Keys -> KeyRow]
  BY DEF KeyInv, KeyTypeOK, KeyRow
<1>3. OffStep(R)
  BY <1>1, <1>2 DEF OffStep, DeactivateBatch, KeyRow
<1>4. keyCall' = keyCall
  BY DEF DeactivateBatch
<1> HIDE DEF R
<1>5. /\ RowsSound' /\ KeysSafe' /\ offAt' \in [Keys -> 0 .. NoPeriod]
      /\ \A d \in KeyCalls : Carries(d)' /\ Makes(d)'
  BY <1>1, <1>3, <1>4, OffFrame
<1>6. CallsSound'
  BY <1>4, <1>5 DEF KeyInv, CallsSound, MadeOnce, Making
<1> QED
  BY <1>1, <1>3, <1>4, <1>5, <1>6 DEF KeyInv, KeyTypeOK, OffStep, KeyRow, KeyCallType

LEMMA KeyTypes ==
    ASSUME KeyInv
    PROVE  /\ period \in Nat /\ period \in 0 .. NoPeriod /\ period + KeyLife \in 0 .. NoPeriod /\ period < NoPeriod
           /\ key \in [Keys -> KeyRow] /\ keyCall \in [KeyCalls -> KeyCallType]
           /\ offAt \in [Keys -> 0 .. NoPeriod] /\ letIn \in [Keys -> 0 .. NoPeriod]
           /\ could \in [Keys -> SUBSET Scopes] /\ reread \in SUBSET Keys
           /\ NoPeriod \in Nat /\ NoKey \notin Keys
  BY KeysAssumption DEF KeyInv, KeyTypeOK, KeyRow, KeyCallType, NoPeriod

(***************************************************************************)
(* Acceptance: the key is on, so it was never turned off.                  *)
(***************************************************************************)
LEMMA ValidateStep ==
    ASSUME KeyInv, NEW c \in Requests, NEW k \in Keys, Validate(c, k)
    PROVE  KeyInv'
<1> DEFINE u == [keyCall[c] EXCEPT !.pc = "use", !.old = k]
<1>1. c \in KeyCalls /\ keyCall[c] \in KeyCallType
  BY KeyTypes DEF KeyCalls
<1>2. u \in KeyCallType /\ u.pc = "use" /\ u.old = k
  BY <1>1 DEF KeyCallType
<1>3. /\ keyCall' = [keyCall EXCEPT ![c] = u] /\ letIn' = [letIn EXCEPT ![k] = period]
      /\ UNCHANGED <<period, key, keySweep, offAt, could, reread>>
      /\ key[k].row = "active" /\ key[k].expires >= period
  BY DEF Validate
<1> HIDE DEF u
<1>4. keyCall'[c] = u /\ \A d \in KeyCalls \ {c} : keyCall'[d] = keyCall[d]
  BY <1>1, <1>3, KeyTypes
<1>5. Carries(c)' /\ Makes(c)' /\ ~ Making(c)'
  BY <1>2, <1>3, <1>4 DEF Carries, Makes, Making
<1>6. \A d \in KeyCalls \ {c} : Carries(d)' /\ Makes(d)'
  BY <1>3, <1>4 DEF KeyInv, CallsSound, Carries, Makes, Making
<1>7. CallsSound' /\ keyCall' \in [KeyCalls -> KeyCallType]
  BY <1>1, <1>2, <1>3, <1>5, <1>6, CallMoves
<1>8. offAt[k] = NoPeriod
  BY <1>3 DEF KeyInv, KeysSafe, OffForGood
<1>9. letIn' \in [Keys -> 0 .. NoPeriod] /\ letIn'[k] = period /\ \A j \in Keys \ {k} : letIn'[j] = letIn[j]
  BY <1>3, KeyTypes
<1>10. RowsSound'
  BY <1>3, <1>9, KeyTypes DEF KeyInv, RowsSound
<1>11. OffForGood' /\ RotationKeepsScope'
  BY <1>3 DEF KeyInv, KeysSafe, OffForGood, RotationKeepsScope
<1>12. NoLateUse'
  <2>1. period <= offAt[k] /\ period <= key[k].expires
    <3>1. period \in Nat /\ NoPeriod \in Nat /\ period < NoPeriod /\ key[k].expires \in Nat
      BY KeyTypes DEF KeyRow
    <3> QED
      BY <1>3, <1>8, <3>1
  <2> QED
    BY <1>3, <1>9, <2>1 DEF KeyInv, KeysSafe, NoLateUse
<1> QED
  BY <1>3, <1>7, <1>9, <1>10, <1>11, <1>12 DEF KeyInv, KeyTypeOK, KeyCallType, KeysSafe

LEMMA SweepReads ==
    ASSUME KeyInv, FindExpired \/ FindInactive \/ SweepRaises
    PROVE  KeyInv'
<1>1. /\ UNCHANGED <<period, key, keyCall, offAt, letIn, could, reread>>
      /\ keySweep' \in [pc : {"idle", "expired", "find", "inactive"}, rows : SUBSET Keys]
  BY DEF FindExpired, FindInactive, SweepRaises
<1>2. KeyTypeOK'
  BY <1>1 DEF KeyInv, KeyTypeOK
<1>3. RowsSound' /\ KeysSafe'
  BY <1>1 DEF KeyInv, RowsSound, KeysSafe, OffForGood, RotationKeepsScope, NoLateUse
<1>4. CallsSound'
  BY <1>1 DEF KeyInv, CallsSound, Carries, Makes, Making, MadeOnce
<1> QED
  BY <1>2, <1>3, <1>4 DEF KeyInv

LEMMA PeriodPassesStep ==
    ASSUME KeyInv, PeriodPasses
    PROVE  KeyInv'
<1>1. /\ UNCHANGED <<key, keyCall, keySweep, offAt, letIn, could, reread>>
      /\ period' = period + 1 /\ period < LastPeriod /\ period \in Nat
  BY KeyTypes DEF PeriodPasses
<1>2. KeyTypeOK'
  BY <1>1, KeysAssumption DEF KeyInv, KeyTypeOK
<1>3. KeysSafe'
  BY <1>1 DEF KeyInv, KeysSafe, OffForGood, RotationKeepsScope, NoLateUse
<1>4. CallsSound'
  BY <1>1 DEF KeyInv, CallsSound, Carries, Makes, Making, MadeOnce
<1>5. RowsSound'
  <2>1. \A k \in Keys : letIn[k] \in Nat
    BY KeyTypes
  <2> QED
    BY <1>1, <2>1 DEF KeyInv, RowsSound
<1> QED
  BY <1>2, <1>3, <1>4, <1>5 DEF KeyInv

(***************************************************************************)
(* A key is made: nobody had its row, so nobody else makes it.             *)
(***************************************************************************)
LEMMA InsertKeyStep ==
    ASSUME KeyInv, NEW c \in KeyCalls, NEW k \in Keys, InsertKey(c, k)
    PROVE  KeyInv'
<1> DEFINE u == [keyCall[c] EXCEPT !.pc = "grant", !.made = k]
           v == [key[k] EXCEPT !.row = "active", !.expires = period + KeyLife]
<1>1. keyCall[c] \in KeyCallType /\ key[k] \in KeyRow /\ period + KeyLife \in 0 .. NoPeriod
  BY KeyTypes
<1>2. u \in KeyCallType /\ u.pc = "grant" /\ u.made = k /\ u.old = keyCall[c].old /\ u.scopes = keyCall[c].scopes
  BY <1>1 DEF KeyCallType
<1>3. v \in KeyRow /\ v.row = "active" /\ v.scopes = key[k].scopes /\ v.from = key[k].from
  BY <1>1 DEF KeyRow
<1>4. /\ keyCall' = [keyCall EXCEPT ![c] = u] /\ key' = [key EXCEPT ![k] = v]
      /\ UNCHANGED <<period, keySweep, offAt, letIn, could, reread>>
      /\ keyCall[c].pc = "insert" /\ key[k].row = "none"
  BY DEF InsertKey, At
<1> HIDE DEF u, v
<1>5. /\ keyCall'[c] = u
      /\ \A d \in KeyCalls \ {c} : keyCall'[d] = keyCall[d]
      /\ keyCall' \in [KeyCalls -> KeyCallType]
  BY <1>2, <1>4, KeyTypes
<1>6. key'[k] = v /\ (\A j \in Keys \ {k} : key'[j] = key[j]) /\ key' \in [Keys -> KeyRow]
  BY <1>3, <1>4, KeyTypes
<1>7. \A j \in Keys : key'[j].scopes = key[j].scopes /\ key'[j].from = key[j].from
  BY <1>3, <1>6
<1>8. \A j \in Keys : key[j].row # "none" => j # k /\ key'[j].row = key[j].row
  BY <1>4, <1>6
<1>9. key[k].scopes = {} /\ key[k].from = NoKey /\ letIn[k] = NoPeriod /\ offAt[k] = NoPeriod
  BY <1>4 DEF KeyInv, RowsSound, KeysSafe, OffForGood
<1>10. RowsSound'
  BY <1>4, <1>3, <1>6, <1>7 DEF KeyInv, RowsSound
<1>11. OffForGood'
  BY <1>4, <1>8 DEF KeyInv, KeysSafe, OffForGood
<1>12. RotationKeepsScope'
  <2>1. \A j \in Keys : key[j].from \in Keys \cup {NoKey}
    BY KeyTypes DEF KeyRow
  <2> QED
    BY <1>4, <1>7, <1>8, <2>1 DEF KeyInv, KeysSafe, RotationKeepsScope
<1>13. NoLateUse'
  BY <1>4, <1>6, <1>9 DEF KeyInv, KeysSafe, NoLateUse
<1>14. ASSUME NEW d \in KeyCalls \ {c}
       PROVE  Carries(d)' /\ Makes(d)' /\ (Making(d)' => keyCall'[d].made # k)
  <2>1. Carries(d) /\ Makes(d) /\ keyCall'[d] = keyCall[d] /\ keyCall[d].old \in Keys \cup {NoKey}
    BY <1>5, KeyTypes DEF KeyInv, CallsSound, KeyCallType
  <2>2. Carries(d)'
    BY <1>4, <1>7, <2>1 DEF Carries
  <2>3. Makes(d)'
    BY <1>4, <1>7, <1>8, <2>1 DEF Makes, Making
  <2>4. Making(d)' => keyCall'[d].made # k
    BY <1>4, <2>1 DEF Makes, Making
  <2> QED
    BY <2>2, <2>3, <2>4
<1>15. Carries(c)'
  <2>1. Carries(c) /\ keyCall[c].old \in Keys \cup {NoKey}
    BY <1>1 DEF KeyInv, CallsSound, KeyCallType
  <2> QED
    BY <1>2, <1>4, <1>5, <1>7, <2>1 DEF Carries
<1>16. Makes(c)'
  BY <1>2, <1>3, <1>5, <1>6, <1>9 DEF Makes, Making
<1>17. MadeOnce'
  BY <1>2, <1>5, <1>14 DEF KeyInv, CallsSound, MadeOnce, Making
<1>18. CallsSound'
  BY <1>2, <1>5, <1>14, <1>15, <1>16, <1>17 DEF KeyInv, CallsSound
<1> QED
  BY <1>4, <1>5, <1>6, <1>10, <1>11, <1>12, <1>13, <1>18 DEF KeyInv, KeyTypeOK, KeyCallType, KeyRow, KeysSafe

(***************************************************************************)
(* A step of call c that writes the scopes of key k: unless it is noted in *)
(* reread, nobody was rotating k, and k itself is not the new key of a     *)
(* rotation.                                                               *)
(***************************************************************************)
ScopesStep(k, scopes) ==
    /\ key' = [key EXCEPT ![k].scopes = scopes]
    /\ could' = [could EXCEPT ![k] = @ \cup scopes]
    /\ reread' \in {reread, reread \cup {k}}
    /\ k \notin reread' => key[k].from = NoKey /\ offAt[k] = NoPeriod
    /\ UNCHANGED <<period, keySweep, offAt, letIn>>

LEMMA ScopesFrame ==
    ASSUME KeyInv, NEW k \in Keys, NEW scopes \in SUBSET Scopes,
           ScopesStep(k, scopes), key[k].row # "none"
    PROVE  /\ RowsSound' /\ KeysSafe'
           /\ key' \in [Keys -> KeyRow] /\ could' \in [Keys -> SUBSET Scopes] /\ reread' \in SUBSET Keys
           /\ key'[k].row # "none" /\ key'[k].scopes = scopes /\ key'[k].from = key[k].from
           /\ \A d \in KeyCalls : keyCall'[d] = keyCall[d] => Carries(d)'
           /\ \A d \in KeyCalls : keyCall'[d] = keyCall[d] /\ (Making(d) => keyCall[d].made # k \/ k \in reread') => Makes(d)'
<1> DEFINE v == [key[k] EXCEPT !.scopes = scopes]
<1>1. key[k] \in KeyRow /\ key' = [key EXCEPT ![k] = v]
  BY KeyTypes DEF ScopesStep
<1>2. v \in KeyRow /\ v.row = key[k].row /\ v.scopes = scopes /\ v.from = key[k].from /\ v.expires = key[k].expires
  BY <1>1 DEF KeyRow
<1> HIDE DEF v
<1>3. key'[k] = v /\ (\A j \in Keys \ {k} : key'[j] = key[j]) /\ key' \in [Keys -> KeyRow]
  BY <1>1, <1>2, KeyTypes
<1>4. /\ could' \in [Keys -> SUBSET Scopes] /\ scopes \subseteq could'[k]
      /\ (\A j \in Keys \ {k} : could'[j] = could[j]) /\ (\A j \in Keys : could[j] \subseteq could'[j])
  BY KeyTypes DEF ScopesStep
<1>5. /\ UNCHANGED <<period, keySweep, offAt, letIn>>
      /\ reread' \in SUBSET Keys /\ reread \subseteq reread' /\ \A j \in Keys \ {k} : j \in reread' <=> j \in reread
      /\ k \notin reread' => key[k].from = NoKey /\ offAt[k] = NoPeriod
  BY KeyTypes DEF ScopesStep
<1>6. \A j \in Keys : /\ key'[j].row = key[j].row /\ key'[j].from = key[j].from /\ key'[j].expires = key[j].expires
                      /\ j # k => key'[j].scopes = key[j].scopes
  BY <1>2, <1>3
<1>7. key'[k].scopes = scopes
  BY <1>2, <1>3
<1> HIDE DEF ScopesStep
<1>8. RowsSound'
  BY <1>4, <1>5, <1>6, <1>7 DEF KeyInv, RowsSound
<1>9. OffForGood' /\ NoLateUse'
  BY <1>5, <1>6 DEF KeyInv, KeysSafe, OffForGood, NoLateUse
<1>10. RotationKeepsScope'
  <2> SUFFICES ASSUME NEW j \in Keys, key[j].from # NoKey
               PROVE  /\ key'[key[j].from].row = "off"
                      /\ j \notin reread' => key'[j].scopes \subseteq could'[key[j].from]
                      /\ {j, key[j].from} \cap reread' = {} => key'[j].scopes = key'[key[j].from].scopes
    BY <1>6 DEF RotationKeepsScope
  <2> DEFINE o == key[j].from
  <2>1. o \in Keys
    BY KeyTypes DEF KeyRow
  <2>2. /\ key[o].row = "off" /\ offAt[o] # NoPeriod
        /\ j \notin reread => key[j].scopes \subseteq could[o]
        /\ {j, o} \cap reread = {} => key[j].scopes = key[o].scopes
    BY <2>1 DEF KeyInv, KeysSafe, RotationKeepsScope, RowsSound
  <2>3. o = k \/ j = k => k \in reread'
    BY <1>5, <2>2
  <2> HIDE DEF o
  <2>4. key'[o].row = "off"
    BY <1>6, <2>1, <2>2
  <2>5. j \notin reread' => key'[j].scopes \subseteq could'[o]
    BY <1>4, <1>5, <1>6, <2>1, <2>2, <2>3
  <2>6. {j, o} \cap reread' = {} => key'[j].scopes = key'[o].scopes
    BY <1>5, <1>6, <2>1, <2>2, <2>3
  <2> QED
    BY <2>4, <2>5, <2>6 DEF o
<1>11. ASSUME NEW d \in KeyCalls, keyCall'[d] = keyCall[d]
       PROVE  Carries(d)'
  <2>1. Carries(d) /\ keyCall[d].old \in Keys \cup {NoKey}
    BY KeyTypes DEF KeyInv, CallsSound, KeyCallType
  <2> QED
    BY <1>4, <1>5, <1>6, <1>11, <2>1 DEF Carries
<1>12. ASSUME NEW d \in KeyCalls, keyCall'[d] = keyCall[d],
              Making(d) => keyCall[d].made # k \/ k \in reread'
       PROVE  Makes(d)'
  <2>1. Makes(d)
    BY DEF KeyInv, CallsSound
  <2> QED
    BY <1>5, <1>6, <1>12, <2>1 DEF Makes, Making
<1>13. key'[k].row # "none" /\ key'[k].from = key[k].from
  BY <1>6
<1> QED
  BY <1>3, <1>4, <1>5, <1>7, <1>8, <1>9, <1>10, <1>11, <1>12, <1>13 DEF KeysSafe

LEMMA RemoveFromKeyStep ==
    ASSUME KeyInv, NEW c \in ScopeEdits, RemoveFromKey(c)
    PROVE  KeyInv'
<1> DEFINE k == keyCall[c].old
           S == key[k].scopes \ keyCall[c].scopes
<1>1. c \in KeyCalls /\ k \in Keys /\ key[k].row # "none"
  BY DEF KeyCalls, KeyInv, CallsSound, Carries, RemoveFromKey, At
<1>2. S \in SUBSET Scopes /\ S \subseteq could[k] /\ key[k].scopes \subseteq could[k]
  BY <1>1, KeyTypes DEF KeyRow, KeyInv, RowsSound
<1>3. ScopesStep(k, S)
  <2>1. could' = [could EXCEPT ![k] = could[k] \cup S]
    BY <1>1, <1>2, KeyTypes DEF RemoveFromKey
  <2> QED
    BY <1>1, <2>1 DEF ScopesStep, RemoveFromKey
<1>4. k \in reread' /\ Ends(c) /\ UNCHANGED <<period, keySweep, offAt, letIn>>
  BY DEF RemoveFromKey
<1> HIDE DEF S, k
<1> QED
  BY <1>1, <1>2, <1>3, <1>4, ScopesFrame, EndsFacts DEF KeyInv, KeyTypeOK, KeyCallType, KeyRow

LEMMA AddToKeyStep ==
    ASSUME KeyInv, NEW c \in ScopeEdits, NEW k \in Keys,
           NEW a \in SUBSET Scopes, NEW r \in SUBSET Scopes, AddToKey(c, k, a, r)
    PROVE  KeyInv'
<1> DEFINE S == key[k].scopes \cup a
           u == [keyCall[c] EXCEPT !.pc = "remove", !.old = k, !.scopes = r]
<1>1. c \in KeyCalls /\ key[k].row # "none" /\ keyCall[c] \in KeyCallType
  BY KeyTypes DEF KeyCalls, AddToKey, Rows
<1>2. S \in SUBSET Scopes /\ key[k].scopes \subseteq could[k]
  BY KeyTypes DEF KeyRow, KeyInv, RowsSound
<1>3. ScopesStep(k, S)
  <2>1. could' = [could EXCEPT ![k] = could[k] \cup S]
    BY <1>1, <1>2, KeyTypes DEF AddToKey
  <2> QED
    BY <1>1, <2>1 DEF ScopesStep, AddToKey
<1>4. k \in reread' /\ UNCHANGED <<period, keySweep, offAt, letIn>> /\ keyCall' = [keyCall EXCEPT ![c] = u]
  BY DEF AddToKey
<1>5. u \in KeyCallType /\ u.pc = "remove" /\ u.old = k
  BY <1>1 DEF KeyCallType
<1> HIDE DEF S, u
<1>6. keyCall'[c] = u /\ \A d \in KeyCalls \ {c} : keyCall'[d] = keyCall[d]
  BY <1>1, <1>4, KeyTypes
<1>7. /\ RowsSound' /\ KeysSafe'
      /\ key' \in [Keys -> KeyRow] /\ could' \in [Keys -> SUBSET Scopes] /\ reread' \in SUBSET Keys
      /\ key'[k].row # "none"
      /\ \A d \in KeyCalls \ {c} : Carries(d)' /\ Makes(d)'
  BY <1>1, <1>2, <1>3, <1>4, <1>6, ScopesFrame
<1>8. Carries(c)' /\ Makes(c)' /\ ~ Making(c)'
  BY <1>5, <1>6, <1>7 DEF Carries, Makes, Making
<1>9. CallsSound' /\ keyCall' \in [KeyCalls -> KeyCallType]
  BY <1>1, <1>4, <1>5, <1>7, <1>8, CallMoves
<1> QED
  BY <1>4, <1>7, <1>9 DEF KeyInv, KeyTypeOK, KeyCallType, KeyRow

LEMMA AddScopesStep ==
    ASSUME KeyInv, NEW c \in KeyCalls, AddScopes(c)
    PROVE  KeyInv'
<1> DEFINE k == keyCall[c].made
           S == key[k].scopes \cup keyCall[c].scopes
           u == [keyCall[c] EXCEPT !.pc = "link"]
<1>1. /\ k \in Keys /\ key[k].row # "none" /\ keyCall[c] \in KeyCallType
      /\ key[k].from = NoKey /\ (k \notin reread => key[k].scopes = {}) /\ Making(c)
  BY KeyTypes DEF KeyInv, CallsSound, Makes, Making, AddScopes, At
<1>2. S \in SUBSET Scopes /\ key[k].scopes \subseteq could[k]
  BY <1>1, KeyTypes DEF KeyRow, KeyInv, RowsSound, KeyCallType
<1>3. ScopesStep(k, S)
  <2>1. could' = [could EXCEPT ![k] = could[k] \cup S]
    BY <1>1, <1>2, KeyTypes DEF AddScopes
  <2>2. /\ key' = [key EXCEPT ![k].scopes = S]
        /\ reread' \in {reread, reread \cup {k}}
        /\ k \notin reread' => offAt[k] = NoPeriod
        /\ UNCHANGED <<period, keySweep, offAt, letIn>>
    BY <1>1, KeyTypes DEF AddScopes
  <2> QED
    BY <1>1, <2>1, <2>2 DEF ScopesStep
<1>4. /\ UNCHANGED <<period, keySweep, offAt, letIn>>
      /\ k \notin reread' => k \notin reread
      /\ Ends(c) \/ keyCall' = [keyCall EXCEPT ![c] = u]
  BY DEF AddScopes, Goes
<1>5. u \in KeyCallType /\ u.pc = "link" /\ u.old = keyCall[c].old /\ u.made = k /\ u.scopes = keyCall[c].scopes
  BY <1>1 DEF KeyCallType
<1>6. k \notin reread' => S = keyCall[c].scopes
  BY <1>1, <1>4
<1> HIDE DEF S, u
<1>7. \A d \in KeyCalls \ {c} : keyCall'[d] = keyCall[d]
  BY <1>4, KeyTypes DEF Ends
<1>8. /\ RowsSound' /\ KeysSafe'
      /\ key' \in [Keys -> KeyRow] /\ could' \in [Keys -> SUBSET Scopes] /\ reread' \in SUBSET Keys
      /\ key'[k].row # "none" /\ key'[k].scopes = S /\ key'[k].from = key[k].from
      /\ \A d \in KeyCalls : keyCall'[d] = keyCall[d] => Carries(d)'
      /\ \A d \in KeyCalls : keyCall'[d] = keyCall[d] /\ (Making(d) => keyCall[d].made # k \/ k \in reread') => Makes(d)'
  BY <1>1, <1>2, <1>3, ScopesFrame
<1>9. \A d \in KeyCalls \ {c} : Carries(d)' /\ Makes(d)'
  <2>1. \A d \in KeyCalls \ {c} : Making(d) => keyCall[d].made # k
    BY <1>1 DEF KeyInv, CallsSound, MadeOnce
  <2> QED
    BY <1>7, <1>8, <2>1
<1>10. CallsSound' /\ keyCall' \in [KeyCalls -> KeyCallType]
  <2>1. CASE Ends(c)
    BY <1>9, <2>1, EndsFacts
  <2>2. CASE keyCall' = [keyCall EXCEPT ![c] = u]
    <3>1. keyCall'[c] = u
      BY <2>2, KeyTypes
    <3>2. Makes(c)'
      BY <1>1, <1>5, <1>6, <1>8, <3>1 DEF Makes, Making
    <3>3. Carries(c)'
      <4>1. Carries(c) /\ keyCall[c].pc = "grant" /\ keyCall[c].old \in Keys \cup {NoKey}
        BY <1>1 DEF KeyInv, CallsSound, AddScopes, At, KeyCallType
      <4>2. \A j \in Keys : /\ could[j] \subseteq could'[j] /\ reread \subseteq reread' /\ offAt' = offAt
                            /\ j # k => key'[j].scopes = key[j].scopes
                            /\ offAt[k] # NoPeriod => k \in reread'
        BY <1>3, KeyTypes DEF ScopesStep
      <4> QED
        BY <1>5, <3>1, <4>1, <4>2 DEF Carries
    <3> QED
      BY <1>5, <1>9, <2>2, <3>1, <3>2, <3>3, <1>1, CallMoves
  <2> QED
    BY <1>4, <2>1, <2>2
<1> QED
  BY <1>4, <1>8, <1>10 DEF KeyInv, KeyTypeOK, KeyCallType, KeyRow

(***************************************************************************)
(* The new key is linked to the one it replaces.                           *)
(***************************************************************************)
LEMMA SetRotatedFromStep ==
    ASSUME KeyInv, NEW c \in Rotations, SetRotatedFrom(c)
    PROVE  KeyInv'
<1> DEFINE k == keyCall[c].made
           o == keyCall[c].old
           v == [key[k] EXCEPT !.from = o]
<1>1. /\ c \in KeyCalls /\ keyCall[c].pc = "link" /\ Making(c) /\ Carries(c) /\ Makes(c)
      /\ k \in Keys /\ key[k] \in KeyRow /\ o \in Keys \cup {NoKey}
  BY KeyTypes DEF KeyInv, KeyCalls, CallsSound, Makes, Making, SetRotatedFrom, At, KeyCallType
<1>2. /\ key' = [key EXCEPT ![k] = v] /\ Ends(c)
      /\ UNCHANGED <<period, keySweep, offAt, letIn, could, reread>>
  BY DEF SetRotatedFrom
<1>3. /\ v \in KeyRow /\ v.row = key[k].row /\ v.scopes = key[k].scopes /\ v.from = o
      /\ v.expires = key[k].expires
  BY <1>1 DEF KeyRow
<1> HIDE DEF v
<1>4. key'[k] = v /\ (\A j \in Keys \ {k} : key'[j] = key[j]) /\ key' \in [Keys -> KeyRow]
  BY <1>1, <1>2, <1>3, KeyTypes
<1>5. \A j \in Keys : /\ key'[j].row = key[j].row /\ key'[j].scopes = key[j].scopes
                      /\ key'[j].expires = key[j].expires /\ (j # k => key'[j].from = key[j].from)
  BY <1>3, <1>4
<1>6. key[k].row # "none"
  BY <1>1 DEF Makes
<1>7. RowsSound'
  BY <1>2, <1>5, <1>6 DEF KeyInv, RowsSound
<1>8. OffForGood' /\ NoLateUse'
  BY <1>2, <1>5 DEF KeyInv, KeysSafe, OffForGood, NoLateUse
<1>9. o # NoKey => /\ o \in Keys /\ key[o].row = "off" /\ (key[k].scopes = keyCall[c].scopes \/ k \in reread)
                   /\ keyCall[c].scopes \subseteq could[o]
                   /\ o \notin reread => keyCall[c].scopes = key[o].scopes
  BY <1>1 DEF Carries, Makes, Making, KeyInv, KeysSafe, OffForGood
<1> HIDE DEF k, o
<1>10. RotationKeepsScope'
  <2> SUFFICES ASSUME NEW j \in Keys, key'[j].from # NoKey
               PROVE  /\ key'[key'[j].from].row = "off"
                      /\ j \notin reread => key'[j].scopes \subseteq could[key'[j].from]
                      /\ {j, key'[j].from} \cap reread = {} => key'[j].scopes = key'[key'[j].from].scopes
    BY <1>2 DEF RotationKeepsScope
  <2>1. CASE j = k
    <3>1. key'[j].from = o /\ o # NoKey /\ o \in Keys
      BY <1>3, <1>4, <1>9, <2>1
    <3>2. key'[o].row = "off" /\ key'[o].scopes = key[o].scopes /\ key'[j].scopes = key[k].scopes
      BY <1>5, <1>9, <2>1, <3>1
    <3> QED
      BY <1>9, <2>1, <3>1, <3>2
  <2>2. CASE j # k
    <3>1. key'[j].from = key[j].from /\ key[j].from \in Keys
      BY <1>5, <2>2, KeyTypes DEF KeyRow
    <3> QED
      BY <1>5, <3>1 DEF KeyInv, KeysSafe, RotationKeepsScope
  <2> QED
    BY <2>1, <2>2
<1>11. ASSUME NEW d \in KeyCalls \ {c}
       PROVE  Carries(d)' /\ Makes(d)'
  <2>1. Carries(d) /\ Makes(d) /\ keyCall'[d] = keyCall[d] /\ keyCall[d].old \in Keys \cup {NoKey}
    BY <1>1, <1>2, EndsFacts, KeyTypes DEF KeyInv, CallsSound, KeyCallType
  <2>2. Making(d) => keyCall[d].made # k
    BY <1>1 DEF KeyInv, CallsSound, MadeOnce, k
  <2>3. Carries(d)'
    BY <1>2, <1>5, <2>1 DEF Carries
  <2>4. Makes(d)'
    BY <1>2, <1>5, <2>1, <2>2 DEF Makes, Making
  <2> QED
    BY <2>3, <2>4
<1>12. CallsSound' /\ keyCall' \in [KeyCalls -> KeyCallType]
  BY <1>1, <1>2, <1>11, EndsFacts
<1> QED
  BY <1>2, <1>4, <1>7, <1>8, <1>10, <1>12 DEF KeyInv, KeyTypeOK, KeyCallType, KeyRow, KeysSafe

LEMMA KeyPreserved ==
    ASSUME KeyInv, [KeyNext]_keyVars
    PROVE  KeyInv'
<1>1. CASE UNCHANGED keyVars
  BY <1>1 DEF keyVars, KeyInv, KeyTypeOK, RowsSound, CallsSound, Carries, Makes, Making, MadeOnce,
              KeysSafe, OffForGood, RotationKeepsScope, NoLateUse
<1>2. CASE KeyNext
  <2>1. Creators \cup Rotations \subseteq KeyCalls /\ Revocations \subseteq KeyCalls
    BY DEF KeyCalls
  <2>2. CASE \E c \in KeyCalls : KeyCallFails(c)
    BY <2>2, EndStep DEF KeyCallFails
  <2>3. CASE \E c \in Creators \cup Rotations : AddScopes(c) \/ \E k \in Keys : InsertKey(c, k)
    BY <2>1, <2>3, AddScopesStep, InsertKeyStep
  <2>4. CASE \E c \in Rotations : \/ DeactivateAndExtend(c) \/ ReadScopes(c) \/ SetRotatedFrom(c)
                                  \/ \E k \in Keys : StartRotation(c, k)
    BY <2>1, <2>4, DeactivateAndExtendStep, ReadScopesStep, SetRotatedFromStep, StartOffStep
  <2>5. CASE \E c \in Revocations : Revoke(c) \/ \E k \in Keys : StartRevoke(c, k)
    BY <2>1, <2>5, RevokeStep, StartOffStep
  <2>6. CASE \E c \in Requests : UpdateLastUsed(c) \/ \E k \in Keys : Validate(c, k)
    BY <2>6, UpdateLastUsedStep, ValidateStep
  <2>7. CASE \E c \in ScopeEdits : \/ RemoveFromKey(c)
                                   \/ \E k \in Keys, a, r \in SUBSET Scopes : AddToKey(c, k, a, r)
    BY <2>7, RemoveFromKeyStep, AddToKeyStep
  <2>8. CASE FindExpired \/ FindInactive \/ DeactivateBatch \/ SweepRaises \/ PeriodPasses
    BY <2>8, SweepReads, DeactivateBatchStep, PeriodPassesStep
  <2>9. CASE \E c \in Creators, s \in SUBSET Scopes : StartCreate(c, s)
    BY <2>9, StartCreateStep
  <2> QED
    BY <1>2, <2>2, <2>3, <2>4, <2>5, <2>6, <2>7, <2>8, <2>9 DEF KeyNext
<1> QED
  BY <1>1, <1>2

(***************************************************************************)
(* However creations, rotations, revocations, edits, requests and the      *)
(* expiry job overlap, a key turned off stays off and lets nobody in       *)
(* later, and a rotated key opens what the key before it opened            *)
(* (services/auth/api_key_service.py).                                     *)
(***************************************************************************)
THEOREM KeysAreSafe == KeySpec => []KeysSafe
<1>1. KeyInv => KeysSafe
  BY DEF KeyInv
<1> QED
  BY <1>1, KeyInitially, KeyPreserved, PTL DEF KeySpec

-----------------------------------------------------------------------------

(***************************************************************************)
(* Teams: an invitation nobody overtook is answered by one call at a time, *)
(* and is pending until that call settles it; a call that found a member   *)
(* found one that joined.                                                  *)
(***************************************************************************)
OneAnswer ==
    \A i \in Invites \ overtaken : \A a \in Answers : Answering(a, i) =>
        /\ i \in Pending
        /\ \A b \in Answers : Answering(b, i) => b = a

Created ==
    \A c \in Invites :
        /\ answering[c].pc \in {"new", "insert", "done"}
        /\ answering[c].pc \in {"new", "insert"} => invitation[c].status = "none"

SawMember == \A a \in Answers : answering[a].pc = "accept" => removed \/ member # "no"

CreatedOnce ==
    ~ doubled =>
        /\ \A c, d \in Invites : answering[c].pc = "insert" /\ answering[d].pc = "insert" => c = d
        /\ \A c \in Invites : answering[c].pc = "insert" => Pending = {}
        /\ \A i, j \in Pending : i = j

TeamInv ==
    /\ TeamTypeOK
    /\ OneAnswer
    /\ Created
    /\ SawMember
    /\ CreatedOnce
    /\ JoinedByAcceptance

Stays(i) == invitation[i].status \notin {"none", "pending"} => invitation'[i] = invitation[i]

TeamStatus == {"none", "pending", "accepted", "rejected", "expired", "revoked"}
TeamPc == {"new", "insert", "look", "expire", "join", "accept", "reject", "revoke", "done"}

LEMMA TeamInitially == TeamInit => TeamInv
<1> SUFFICES ASSUME TeamInit PROVE TeamInv
  OBVIOUS
<1>1. TeamTypeOK
  <2>1. answering \in [Invites \cup Answers -> [pc : TeamPc, of : Invites]]
    BY DEF TeamInit, TeamPc
  <2>2. \A a \in Answers : answering[a].pc = "new"
    BY DEF TeamInit
  <2>3. invitation \in [Invites -> [status : TeamStatus, old : BOOLEAN]]
    BY DEF TeamInit, TeamStatus
  <2> QED
    BY <2>1, <2>2, <2>3 DEF TeamInit, TeamTypeOK, TeamPc, TeamStatus
<1>2. \A c \in Invites \cup Answers : answering[c].pc = "new"
  BY DEF TeamInit
<1>3. Pending = {} /\ \A i \in Invites : invitation[i].status = "none"
  BY DEF TeamInit, Pending
<1>4. OneAnswer /\ Created /\ SawMember /\ CreatedOnce
  BY <1>2, <1>3 DEF OneAnswer, Created, SawMember, CreatedOnce, Answering
<1>5. JoinedByAcceptance
  BY <1>3, TeamsAssumption DEF JoinedByAcceptance, TeamInit
<1> QED
  BY <1>1, <1>4, <1>5 DEF TeamInv

(***************************************************************************)
(* Where the calls are after a step of one of them.                        *)
(***************************************************************************)
LEMMA GotoFacts ==
    ASSUME TeamTypeOK, NEW c \in Invites \cup Answers, NEW label \in TeamPc, TGoto(c, label)
    PROVE  /\ answering' \in [Invites \cup Answers -> [pc : TeamPc, of : Invites]]
           /\ answering'[c].pc = label
           /\ \A d \in Invites \cup Answers : /\ answering'[d].of = answering[d].of
                                              /\ d # c => answering'[d].pc = answering[d].pc
<1> DEFINE u == [answering[c] EXCEPT !.pc = label]
<1>1. answering \in [Invites \cup Answers -> [pc : TeamPc, of : Invites]]
  BY DEF TeamTypeOK, TeamPc
<1>2. u \in [pc : TeamPc, of : Invites] /\ u.pc = label /\ u.of = answering[c].of
  BY <1>1
<1>3. answering' = [answering EXCEPT ![c] = u]
  BY DEF TGoto
<1> HIDE DEF u
<1> QED
  BY <1>1, <1>2, <1>3

LEMMA CheckPendingStep ==
    ASSUME TeamInv, NEW c \in Invites, CheckPending(c)
    PROVE  TeamInv' /\ \A i \in Invites \ overtaken : Stays(i)
<1> USE DEF TeamInv
<1>1. /\ answering[c].pc = "new" /\ Pending = {} /\ TGoto(c, "insert")
      /\ doubled' = (doubled \/ \E d \in Invites : answering[d].pc = "insert")
      /\ UNCHANGED <<invitation, member, removed, overtaken>>
  BY DEF CheckPending
<1>2. /\ answering' \in [Invites \cup Answers -> [pc : TeamPc, of : Invites]]
      /\ answering'[c].pc = "insert"
      /\ \A d \in Invites \cup Answers : /\ answering'[d].of = answering[d].of
                                         /\ d # c => answering'[d].pc = answering[d].pc
  BY <1>1, GotoFacts DEF TeamPc
<1>3. \A a \in Answers : a # c
  BY TeamsAssumption
<1>4. TeamTypeOK'
  BY <1>1, <1>2, <1>3 DEF TeamTypeOK, TeamPc
<1>5. Pending' = Pending
  BY <1>1 DEF Pending
<1>6. OneAnswer'
  BY <1>1, <1>2, <1>3, <1>5 DEF OneAnswer, Answering
<1>7. Created'
  BY <1>1, <1>2 DEF Created
<1>8. SawMember'
  BY <1>1, <1>2, <1>3 DEF SawMember
<1>9. CreatedOnce'
  <2>1. ~ doubled' => ~ doubled /\ \A d \in Invites : answering[d].pc # "insert"
    BY <1>1
  <2>2. ~ doubled' => \A d \in Invites : answering'[d].pc = "insert" => d = c
    BY <1>2, <2>1
  <2> QED
    BY <1>1, <1>5, <2>2 DEF CreatedOnce
<1>10. JoinedByAcceptance'
  BY <1>1 DEF JoinedByAcceptance
<1> QED
  BY <1>1, <1>4, <1>6, <1>7, <1>8, <1>9, <1>10 DEF Stays

LEMMA InsertInvitationStep ==
    ASSUME TeamInv, NEW c \in Invites, InsertInvitation(c)
    PROVE  TeamInv' /\ \A i \in Invites \ overtaken : Stays(i)
<1> USE DEF TeamInv
<1> DEFINE v == [invitation[c] EXCEPT !.status = "pending"]
<1>1. /\ answering[c].pc = "insert" /\ TGoto(c, "done") /\ invitation[c].status = "none"
      /\ invitation' = [invitation EXCEPT ![c] = v]
      /\ UNCHANGED <<member, doubled, removed, overtaken>>
  BY DEF InsertInvitation, Created
<1>2. /\ answering' \in [Invites \cup Answers -> [pc : TeamPc, of : Invites]]
      /\ answering'[c].pc = "done"
      /\ \A d \in Invites \cup Answers : /\ answering'[d].of = answering[d].of
                                         /\ d # c => answering'[d].pc = answering[d].pc
  BY <1>1, GotoFacts DEF TeamPc
<1>3. \A a \in Answers : a # c
  BY TeamsAssumption
<1>4. v \in [status : TeamStatus, old : BOOLEAN] /\ v.status = "pending"
  BY DEF TeamTypeOK, TeamStatus
<1> HIDE DEF v
<1>5. /\ invitation' \in [Invites -> [status : TeamStatus, old : BOOLEAN]]
      /\ invitation'[c].status = "pending" /\ \A i \in Invites \ {c} : invitation'[i] = invitation[i]
  BY <1>1, <1>4 DEF TeamTypeOK, TeamStatus
<1>6. TeamTypeOK'
  <2>1. \A b \in Answers : answering'[b].pc # "new" => invitation'[answering'[b].of].status # "none"
    <3> SUFFICES ASSUME NEW b \in Answers, answering'[b].pc # "new"
                 PROVE  invitation'[answering[b].of].status # "none"
      BY <1>2
    <3>1. answering[b].of \in Invites /\ invitation[answering[b].of].status # "none"
      BY <1>2, <1>3 DEF TeamTypeOK
    <3> QED
      BY <1>5, <3>1
  <2> QED
    BY <1>1, <1>2, <1>5, <2>1 DEF TeamTypeOK, TeamPc, TeamStatus
<1>7. Pending' = Pending \cup {c}
  BY <1>5 DEF Pending
<1>8. OneAnswer'
  BY <1>1, <1>2, <1>3, <1>7 DEF OneAnswer, Answering
<1>9. Created'
  BY <1>2, <1>5 DEF Created
<1>10. SawMember'
  BY <1>1, <1>2, <1>3 DEF SawMember
<1>11. CreatedOnce'
  BY <1>1, <1>2, <1>7 DEF CreatedOnce
<1>12. JoinedByAcceptance'
  BY <1>1, <1>5 DEF JoinedByAcceptance
<1> QED
  BY <1>1, <1>5, <1>6, <1>8, <1>9, <1>10, <1>11, <1>12 DEF Stays

LEMMA LapseStep ==
    ASSUME TeamInv, NEW i \in Invites, Lapse(i)
    PROVE  TeamInv' /\ \A j \in Invites \ overtaken : Stays(j)
<1> USE DEF TeamInv
<1> DEFINE v == [invitation[i] EXCEPT !.old = TRUE]
<1>1. /\ invitation' = [invitation EXCEPT ![i] = v] /\ invitation[i].status = "pending"
      /\ UNCHANGED <<member, answering, doubled, removed, overtaken>>
  BY DEF Lapse, Pending
<1>2. v \in [status : TeamStatus, old : BOOLEAN] /\ v.status = "pending"
  BY <1>1 DEF TeamTypeOK, TeamStatus
<1> HIDE DEF v
<1>3. /\ invitation' \in [Invites -> [status : TeamStatus, old : BOOLEAN]]
      /\ \A j \in Invites : invitation'[j].status = invitation[j].status
      /\ \A j \in Invites \ {i} : invitation'[j] = invitation[j]
  BY <1>1, <1>2 DEF TeamTypeOK, TeamStatus
<1>4. TeamTypeOK'
  BY <1>1, <1>3 DEF TeamTypeOK, TeamStatus
<1>5. Pending' = Pending
  BY <1>3 DEF Pending
<1>6. OneAnswer' /\ CreatedOnce'
  BY <1>1, <1>5 DEF OneAnswer, Answering, CreatedOnce
<1>7. Created' /\ SawMember' /\ JoinedByAcceptance'
  BY <1>1, <1>3 DEF Created, SawMember, JoinedByAcceptance
<1> QED
  BY <1>1, <1>3, <1>4, <1>6, <1>7 DEF Stays

LEMMA LoadInvitationStep ==
    ASSUME TeamInv, NEW i \in Invites, NEW a \in Answers, LoadInvitation(a, i)
    PROVE  TeamInv' /\ \A j \in Invites \ overtaken : Stays(j)
<1> USE DEF TeamInv
<1> DEFINE u == [pc |-> FirstStep(a, i), of |-> i]
<1>1. /\ answering' = [answering EXCEPT ![a] = u] /\ i \in Pending /\ answering[a].pc = "new"
      /\ overtaken' = IF \E b \in Answers : Answering(b, i) THEN overtaken \cup {i} ELSE overtaken
      /\ UNCHANGED <<invitation, member, doubled, removed>>
  BY DEF LoadInvitation, TakeUp
<1>2. u \in [pc : TeamPc, of : Invites] /\ u.pc \notin {"new", "done", "insert", "accept"} /\ u.of = i
  BY DEF FirstStep, TeamPc
<1> HIDE DEF u
<1>3. /\ answering' \in [Invites \cup Answers -> [pc : TeamPc, of : Invites]]
      /\ answering'[a] = u /\ \A d \in (Invites \cup Answers) \ {a} : answering'[d] = answering[d]
  BY <1>1, <1>2 DEF TeamTypeOK, TeamPc
<1>4. \A c \in Invites : c # a
  BY TeamsAssumption
<1>5. invitation[i].status = "pending" /\ Pending' = Pending
  BY <1>1 DEF Pending
<1>6. TeamTypeOK'
  <2>1. overtaken' \subseteq Invites
    BY <1>1 DEF TeamTypeOK
  <2>2. \A b \in Answers : answering'[b].pc # "new" => invitation'[answering'[b].of].status # "none"
    BY <1>1, <1>2, <1>3, <1>5 DEF TeamTypeOK
  <2> QED
    BY <1>1, <1>3, <2>1, <2>2 DEF TeamTypeOK, TeamPc
<1>7. OneAnswer'
  <2> SUFFICES ASSUME NEW j \in Invites \ overtaken', NEW b \in Answers, Answering(b, j)'
               PROVE  j \in Pending /\ \A d \in Answers : Answering(d, j)' => d = b
    BY <1>5 DEF OneAnswer
  <2>1. j \notin overtaken
    BY <1>1
  <2>2. \A d \in Answers \ {a} : Answering(d, j)' <=> Answering(d, j)
    BY <1>3 DEF Answering
  <2>3. Answering(a, j)' <=> j = i
    BY <1>2, <1>3 DEF Answering
  <2>4. CASE j = i
    <3>1. \A d \in Answers : ~ Answering(d, i)
      BY <1>1, <2>4
    <3> QED
      BY <1>1, <2>2, <2>3, <2>4, <3>1
  <2>5. CASE j # i
    BY <2>1, <2>2, <2>3, <2>5 DEF OneAnswer
  <2> QED
    BY <2>4, <2>5
<1>8. Created' /\ CreatedOnce'
  BY <1>1, <1>3, <1>4, <1>5 DEF Created, CreatedOnce
<1>9. SawMember'
  BY <1>1, <1>2, <1>3 DEF SawMember
<1>10. JoinedByAcceptance'
  BY <1>1 DEF JoinedByAcceptance
<1> QED
  BY <1>1, <1>6, <1>7, <1>8, <1>9, <1>10 DEF Stays

LEMMA LookForMemberStep ==
    ASSUME TeamInv, NEW a \in Accepts, LookForMember(a)
    PROVE  TeamInv' /\ \A i \in Invites \ overtaken : Stays(i)
<1> USE DEF TeamInv
<1> DEFINE label == IF member = "no" THEN "join" ELSE "accept"
<1>1. /\ TGoto(a, label) /\ answering[a].pc = "look" /\ a \in Answers
      /\ UNCHANGED <<invitation, member, doubled, removed, overtaken>>
  BY DEF LookForMember, Answers
<1>2. label \in TeamPc \ {"new", "done", "insert"} /\ (label = "accept" => member # "no")
  BY DEF TeamPc
<1> HIDE DEF label
<1>3. /\ answering' \in [Invites \cup Answers -> [pc : TeamPc, of : Invites]]
      /\ answering'[a].pc = label
      /\ \A d \in Invites \cup Answers : /\ answering'[d].of = answering[d].of
                                         /\ d # a => answering'[d].pc = answering[d].pc
  BY <1>1, <1>2, GotoFacts
<1>4. \A c \in Invites : c # a
  BY <1>1, TeamsAssumption
<1>5. TeamTypeOK'
  BY <1>1, <1>2, <1>3 DEF TeamTypeOK, TeamPc
<1>6. OneAnswer'
  <2>1. \A b \in Answers, i \in Invites : Answering(b, i)' <=> Answering(b, i)
    BY <1>1, <1>2, <1>3 DEF Answering
  <2> QED
    BY <1>1, <2>1 DEF OneAnswer, Pending
<1>7. Created' /\ CreatedOnce'
  BY <1>1, <1>3, <1>4 DEF Created, CreatedOnce, Pending
<1>8. SawMember' /\ JoinedByAcceptance'
  BY <1>1, <1>2, <1>3 DEF SawMember, JoinedByAcceptance
<1> QED
  BY <1>1, <1>5, <1>6, <1>7, <1>8 DEF Stays

(***************************************************************************)
(* An answer is written: the invitation was pending, if nobody overtook    *)
(* the call.                                                               *)
(***************************************************************************)
LEMMA SettleStep ==
    ASSUME TeamInv, NEW a \in Answers, NEW status \in TeamStatus \ {"none", "pending"},
           Settle(a, status), answering[a].pc \notin {"new", "done"},
           UNCHANGED <<doubled, removed, overtaken>>,
           \/ member' = member /\ (status = "accepted" => removed \/ member # "no")
           \/ member = "no" /\ member' = answering[a].of /\ status = "accepted"
    PROVE  TeamInv' /\ \A i \in Invites \ overtaken : Stays(i)
<1> USE DEF TeamInv
<1> DEFINE k == answering[a].of
           v == [invitation[k] EXCEPT !.status = status]
<1>1. TGoto(a, "done") /\ invitation' = [invitation EXCEPT ![k] = v] /\ k \in Invites
  BY DEF Settle, TeamTypeOK
<1>2. v \in [status : TeamStatus, old : BOOLEAN] /\ v.status = status
  BY <1>1 DEF TeamTypeOK, TeamStatus
<1> HIDE DEF v
<1>3. /\ invitation' \in [Invites -> [status : TeamStatus, old : BOOLEAN]]
      /\ invitation'[k].status = status
      /\ \A i \in Invites \ {k} : invitation'[i] = invitation[i]
  BY <1>1, <1>2 DEF TeamTypeOK, TeamStatus
<1>4. /\ answering' \in [Invites \cup Answers -> [pc : TeamPc, of : Invites]]
      /\ answering'[a].pc = "done"
      /\ \A d \in Invites \cup Answers : /\ answering'[d].of = answering[d].of
                                         /\ d # a => answering'[d].pc = answering[d].pc
  BY <1>1, GotoFacts DEF TeamPc
<1>5. \A c \in Invites : c # a
  BY TeamsAssumption
<1>6. member' \in Invites \cup {"no", "added"}
  BY <1>1 DEF TeamTypeOK
<1>7. Answering(a, k)
  BY DEF Answering
<1>8. k \notin overtaken => k \in Pending /\ \A b \in Answers \ {a} : ~ Answering(b, k)
  BY <1>1, <1>7 DEF OneAnswer
<1> HIDE DEF k
<1>9. TeamTypeOK'
  <2>1. \A b \in Answers : answering'[b].pc # "new" => invitation'[answering'[b].of].status # "none"
    <3> SUFFICES ASSUME NEW b \in Answers, answering'[b].pc # "new"
                 PROVE  invitation'[answering[b].of].status # "none"
      BY <1>4
    <3>1. answering[b].of \in Invites /\ invitation[answering[b].of].status # "none"
      BY <1>4 DEF TeamTypeOK
    <3> QED
      BY <1>3, <3>1
  <2> QED
    BY <1>3, <1>4, <1>6, <2>1 DEF TeamTypeOK, TeamPc, TeamStatus
<1>10. Pending' = Pending \ {k}
  BY <1>1, <1>3 DEF Pending
<1>11. OneAnswer'
  <2> SUFFICES ASSUME NEW i \in Invites \ overtaken, NEW b \in Answers, Answering(b, i)'
               PROVE  i \in Pending' /\ \A d \in Answers : Answering(d, i)' => d = b
    BY DEF OneAnswer
  <2>1. \A d \in Answers : Answering(d, i)' => d # a /\ Answering(d, i)
    BY <1>4 DEF Answering
  <2>2. i # k
    BY <1>8, <2>1
  <2> QED
    BY <1>10, <2>1, <2>2 DEF OneAnswer
<1>12. Created' /\ SawMember'
  <2>1. Created'
    <3> SUFFICES ASSUME NEW c \in Invites
                 PROVE  /\ answering'[c].pc \in {"new", "insert", "done"}
                        /\ answering'[c].pc \in {"new", "insert"} => invitation'[c].status = "none"
      BY DEF Created
    <3>1. invitation[k].status # "none"
      BY DEF TeamTypeOK, k
    <3> QED
      BY <1>3, <1>4, <1>5, <3>1 DEF Created
  <2>2. SawMember'
    BY <1>1, <1>4, TeamsAssumption DEF SawMember
  <2> QED
    BY <2>1, <2>2
<1>13. CreatedOnce'
  BY <1>4, <1>5, <1>10 DEF CreatedOnce
<1>14. \A i \in Invites \ overtaken : Stays(i)
  BY <1>3, <1>8 DEF Stays, Pending
<1>15. JoinedByAcceptance'
  <2> SUFFICES ASSUME NEW i \in Invites \ overtaken
               PROVE  /\ member' = i => invitation'[i].status = "accepted"
                      /\ (invitation'[i].status = "accepted" /\ ~ removed) => member' # "no"
    BY DEF JoinedByAcceptance
  <2>1. /\ member = i => invitation[i].status = "accepted"
        /\ (invitation[i].status = "accepted" /\ ~ removed) => member # "no"
        /\ i # "no"
    BY TeamsAssumption DEF JoinedByAcceptance
  <2>2. CASE i = k
    <3>1. i \in Pending /\ member # i
      BY <1>8, <2>1, <2>2 DEF Pending
    <3> QED
      BY <1>1, <1>3, <2>1, <2>2, <3>1, TeamsAssumption DEF k
  <2>3. CASE i # k
    <3>1. invitation'[i] = invitation[i]
      BY <1>3, <2>3
    <3> QED
      BY <1>1, <2>1, <2>3, <3>1, TeamsAssumption DEF k
  <2> QED
    BY <2>2, <2>3
<1> QED
  BY <1>9, <1>11, <1>12, <1>13, <1>14, <1>15

LEMMA MemberStep ==
    ASSUME TeamInv, AddTeamMember \/ RemoveTeamMember
    PROVE  TeamInv' /\ \A i \in Invites \ overtaken : Stays(i)
<1>1. UNCHANGED <<invitation, answering, doubled, overtaken>> /\ Pending' = Pending
  BY DEF AddTeamMember, RemoveTeamMember, Pending
<1>2. TeamTypeOK'
  BY <1>1 DEF TeamInv, TeamTypeOK, AddTeamMember, RemoveTeamMember
<1>3. OneAnswer' /\ Created' /\ CreatedOnce'
  BY <1>1 DEF TeamInv, OneAnswer, Answering, Created, CreatedOnce
<1>4. SawMember' /\ JoinedByAcceptance'
  BY <1>1, TeamsAssumption DEF TeamInv, SawMember, JoinedByAcceptance, AddTeamMember, RemoveTeamMember
<1> QED
  BY <1>1, <1>2, <1>3, <1>4 DEF TeamInv, Stays

LEMMA AnswerFailsStep ==
    ASSUME TeamInv, NEW c \in Invites \cup Answers, AnswerFails(c)
    PROVE  TeamInv' /\ \A i \in Invites \ overtaken : Stays(i)
<1> USE DEF TeamInv
<1>1. /\ TGoto(c, "done") /\ answering[c].pc # "new"
      /\ UNCHANGED <<invitation, member, doubled, removed, overtaken>>
  BY DEF AnswerFails
<1>2. /\ answering' \in [Invites \cup Answers -> [pc : TeamPc, of : Invites]]
      /\ answering'[c].pc = "done"
      /\ \A d \in Invites \cup Answers : /\ answering'[d].of = answering[d].of
                                         /\ d # c => answering'[d].pc = answering[d].pc
  BY <1>1, GotoFacts DEF TeamPc
<1>3. TeamTypeOK'
  BY <1>1, <1>2 DEF TeamTypeOK, TeamPc
<1>4. \A b \in Answers, i \in Invites : Answering(b, i)' => Answering(b, i)
  BY <1>2 DEF Answering
<1>5. OneAnswer'
  BY <1>1, <1>4 DEF OneAnswer, Pending
<1>6. Created' /\ CreatedOnce'
  BY <1>1, <1>2 DEF Created, CreatedOnce, Pending
<1>7. SawMember' /\ JoinedByAcceptance'
  BY <1>1, <1>2 DEF SawMember, JoinedByAcceptance
<1> QED
  BY <1>1, <1>3, <1>5, <1>6, <1>7 DEF Stays

LEMMA TeamStep ==
    ASSUME TeamInv, TeamNext
    PROVE  TeamInv' /\ \A i \in Invites \ overtaken : Stays(i)
<1>1. Accepts \subseteq Answers /\ Declines \subseteq Answers /\ Withdrawals \subseteq Answers
  BY DEF Answers
<1>2. ASSUME NEW a \in Accepts, Join(a) \/ AcceptMember(a) \/ Answer(a, "expire", "expired")
      PROVE  TeamInv' /\ \A i \in Invites \ overtaken : Stays(i)
  <2>1. CASE Join(a)
    BY <1>1, <2>1, SettleStep DEF Join, TeamStatus
  <2>2. CASE AcceptMember(a)
    BY <1>1, <2>2, SettleStep DEF AcceptMember, TeamStatus, TeamInv, SawMember
  <2>3. CASE Answer(a, "expire", "expired")
    BY <1>1, <2>3, SettleStep DEF Answer, TeamStatus
  <2> QED
    BY <1>2, <2>1, <2>2, <2>3
<1>3. ASSUME NEW a \in Answers, Answer(a, "reject", "rejected") \/ Answer(a, "revoke", "revoked")
      PROVE  TeamInv' /\ \A i \in Invites \ overtaken : Stays(i)
  BY <1>3, SettleStep DEF Answer, TeamStatus
<1> QED
  BY <1>1, <1>2, <1>3, CheckPendingStep, InsertInvitationStep, LapseStep, LoadInvitationStep,
     LookForMemberStep, MemberStep, AnswerFailsStep DEF TeamNext

LEMMA TeamPreserved ==
    ASSUME TeamInv, [TeamNext]_teamVars
    PROVE  TeamInv'
<1>1. CASE UNCHANGED teamVars
  BY <1>1 DEF teamVars, TeamInv, TeamTypeOK, OneAnswer, Answering, Pending, Created, SawMember,
              CreatedOnce, JoinedByAcceptance
<1> QED
  BY <1>1, TeamStep

LEMMA TeamInvSafe == TeamInv => TeamsSafe
<1> SUFFICES ASSUME TeamInv PROVE OnePending
  BY DEF TeamsSafe, TeamInv
<1> SUFFICES ASSUME ~ doubled PROVE Cardinality(Pending) <= 1
  BY DEF OnePending
<1>1. CASE Pending = {}
  BY <1>1, FS_EmptySet
<1>2. CASE \E i \in Pending : Pending = {i}
  BY <1>2, FS_Singleton
<1> QED
  BY <1>1, <1>2 DEF TeamInv, CreatedOnce

(***************************************************************************)
(* Whatever number of invitations are sent, taken up, declined and         *)
(* withdrawn, and whoever adds or removes the member meanwhile, the team   *)
(* and its invitations agree (services/team_invitation_service.py).        *)
(***************************************************************************)
THEOREM TeamsAreSafe == TeamSpec => []TeamsSafe
  BY TeamInitially, TeamPreserved, TeamInvSafe, PTL DEF TeamSpec

(***************************************************************************)
(* An answered invitation keeps its answer, unless two calls had it in     *)
(* hand.                                                                   *)
(***************************************************************************)
THEOREM AnswersStay == TeamSpec => AnswerStays
<1>1. TeamInv /\ [TeamNext]_teamVars =>
        [\A i \in Invites \ overtaken :
            invitation[i].status \notin {"none", "pending"} => invitation'[i] = invitation[i]]_teamVars
  BY TeamStep DEF Stays
<1> QED
  BY <1>1, TeamInitially, TeamPreserved, PTL DEF TeamSpec, AnswerStays

-----------------------------------------------------------------------------

(***************************************************************************)
(* Organizations: an invitation that is not torn is in the hands of one    *)
(* call at a time, and has let nobody in while it can still be taken up.   *)
(***************************************************************************)
OneAtWork ==
    \A i \in OrgInvites \ torn : \A a, b \in OrgAnswers : AtWork(a, i) /\ AtWork(b, i) => a = b

Unused(i) ==
    let[i] # {} =>
        /\ invited[i].status # "none"
        /\ invited[i].status = "pending" => \E a \in OrgAccepts : AtWork(a, i) /\ joining[a].pc = "accept"
        /\ \A a \in OrgAccepts : AtWork(a, i) => joining[a].pc \notin {"look", "add"}

LetOne ==
    \A i \in OrgInvites \ torn : Unused(i) /\ \A u, w \in let[i] : u = w

Sent ==
    \A c \in OrgInvites :
        /\ joining[c].pc \in {"new", "insert", "done"}
        /\ joining[c].pc \in {"new", "insert"} => invited[c].status = "none"

Answered ==
    /\ \A a \in OrgAnswers : joining[a].pc # "new" => invited[joining[a].of].status # "none"
    /\ \A a \in OrgAccepts : joining[a].pc # "reject" /\ joining[a].pc # "insert"
    /\ \A a \in OrgAnswers : joining[a].pc = "expire" => invited[joining[a].of].old

(***************************************************************************)
(* As long as nobody was invited with an invitation open: one is, and has  *)
(* a place.                                                                *)
(***************************************************************************)
PlaceKept ==
    ~ ahead /\ torn = {} =>
        /\ \A i, j \in OrgInvites : Open(i) /\ Open(j) => i = j
        /\ \A i \in OrgInvites : Open(i) /\ let[i] = {} => Cardinality(members) < MaxMembers
        /\ Cardinality(members) <= MaxMembers

OrgInv ==
    /\ OrgTypeOK
    /\ IsFiniteSet(members)
    /\ OneAtWork
    /\ LetOne
    /\ Sent
    /\ Answered
    /\ PlaceKept

OrgStatus == {"none", "pending", "accepted", "rejected", "expired"}
OrgPc == {"new", "insert", "look", "add", "expire", "accept", "reject", "done"}

LEMMA OrgInitially == OrgInit => OrgInv
<1> SUFFICES ASSUME OrgInit PROVE OrgInv
  OBVIOUS
<1>1. \A c \in OrgCalls : joining[c].pc = "new"
  BY DEF OrgInit
<1>2. \A i \in OrgInvites : invited[i].status = "none" /\ let[i] = {} /\ joining[i].pc = "new"
  BY <1>1 DEF OrgInit, OrgCalls
<1>3. \A a \in OrgAnswers : joining[a].pc = "new" /\ a \in OrgCalls
  BY <1>1 DEF OrgCalls
<1>4. IsFiniteSet(members) /\ Cardinality(members) = 1 /\ members \subseteq Users
  BY FS_Singleton, OrganizationsAssumption DEF OrgInit
<1>5. OrgTypeOK
  <2>1. joining \in [OrgCalls -> [pc : OrgPc, of : OrgInvites]]
    BY DEF OrgInit, OrgPc
  <2>2. invited \in [OrgInvites -> [status : OrgStatus, old : BOOLEAN]]
    BY DEF OrgInit, OrgStatus
  <2> QED
    BY <1>2, <1>4, <2>1, <2>2 DEF OrgInit, OrgTypeOK, OrgPc, OrgStatus
<1>6. \A i \in OrgInvites, a \in OrgAnswers : ~ AtWork(a, i)
  BY <1>3 DEF AtWork
<1>7. \A i \in OrgInvites : ~ Open(i)
  BY <1>2, <1>6 DEF Open, OrgAnswers
<1>8. PlaceKept
  BY <1>4, <1>7, OrganizationsAssumption DEF PlaceKept
<1>9. OneAtWork /\ LetOne
  BY <1>2, <1>6 DEF OneAtWork, LetOne, Unused
<1>10. Sent /\ Answered
  BY <1>2, <1>3 DEF Sent, Answered, OrgAnswers
<1> QED
  BY <1>4, <1>5, <1>8, <1>9, <1>10 DEF OrgInv

LEMMA OGotoFacts ==
    ASSUME OrgTypeOK, NEW c \in OrgCalls, NEW label \in OrgPc, OGoto(c, label)
    PROVE  /\ joining' \in [OrgCalls -> [pc : OrgPc, of : OrgInvites]]
           /\ joining'[c].pc = label
           /\ \A d \in OrgCalls : /\ joining'[d].of = joining[d].of
                                  /\ d # c => joining'[d].pc = joining[d].pc
<1> DEFINE u == [joining[c] EXCEPT !.pc = label]
<1>1. joining \in [OrgCalls -> [pc : OrgPc, of : OrgInvites]]
  BY DEF OrgTypeOK, OrgPc
<1>2. u \in [pc : OrgPc, of : OrgInvites] /\ u.pc = label /\ u.of = joining[c].of
  BY <1>1
<1>3. joining' = [joining EXCEPT ![c] = u]
  BY DEF OGoto
<1> HIDE DEF u
<1> QED
  BY <1>1, <1>2, <1>3

LEMMA OrgKinds ==
    /\ \A a \in OrgAnswers : a \in OrgCalls /\ a \notin OrgInvites
    /\ \A c \in OrgInvites : c \in OrgCalls
    /\ \A a \in OrgAccepts : a \in OrgAnswers /\ a \notin OrgRejects
    /\ \A r \in OrgRejects : r \in OrgAnswers
  BY CallsAssumption DEF OrgAnswers, OrgCalls

LEMMA InvitedStatus ==
    ASSUME OrgTypeOK, NEW k \in OrgInvites, NEW status \in OrgStatus,
           invited' = [invited EXCEPT ![k].status = status]
    PROVE  /\ invited' \in [OrgInvites -> [status : OrgStatus, old : BOOLEAN]]
           /\ invited'[k].status = status /\ invited'[k].old = invited[k].old
           /\ \A i \in OrgInvites \ {k} : invited'[i] = invited[i]
<1> DEFINE v == [invited[k] EXCEPT !.status = status]
<1>1. invited \in [OrgInvites -> [status : OrgStatus, old : BOOLEAN]]
  BY DEF OrgTypeOK, OrgStatus
<1>2. v \in [status : OrgStatus, old : BOOLEAN] /\ v.status = status /\ v.old = invited[k].old
  BY <1>1
<1>3. invited' = [invited EXCEPT ![k] = v]
  OBVIOUS
<1> HIDE DEF v
<1> QED
  BY <1>1, <1>2, <1>3

LEMMA CountMembersStep ==
    ASSUME OrgInv, NEW c \in OrgInvites, CountMembers(c)
    PROVE  OrgInv'
<1> USE DEF OrgInv
<1>1. /\ joining[c].pc = "new" /\ Cardinality(members) < MaxMembers /\ OGoto(c, "insert")
      /\ ahead' = (ahead \/ \E i \in OrgInvites : Open(i))
      /\ UNCHANGED <<members, invited, let, torn>>
  BY DEF CountMembers
<1>2. /\ joining' \in [OrgCalls -> [pc : OrgPc, of : OrgInvites]]
      /\ joining'[c].pc = "insert"
      /\ \A d \in OrgCalls : /\ joining'[d].of = joining[d].of
                             /\ d # c => joining'[d].pc = joining[d].pc
  BY <1>1, OGotoFacts, OrgKinds DEF OrgPc
<1>3. \A a \in OrgAnswers : joining'[a].of = joining[a].of /\ joining'[a].pc = joining[a].pc
  BY <1>2, OrgKinds
<1>4. \A a \in OrgAnswers, i \in OrgInvites : AtWork(a, i)' <=> AtWork(a, i)
  BY <1>3 DEF AtWork
<1>5. invited[c].status = "none" /\ joining[c].pc \in {"new", "insert", "done"}
  BY <1>1 DEF Sent
<1>6. OrgTypeOK'
  BY <1>1, <1>2, <1>5, OrgKinds DEF OrgTypeOK, OrgPc
<1>7. OneAtWork'
  BY <1>1, <1>4 DEF OneAtWork
<1>8. LetOne'
  BY <1>1, <1>3, <1>4, OrgKinds DEF LetOne, Unused
<1>9. Sent' /\ Answered'
  BY <1>1, <1>2, <1>3, <1>5, OrgKinds DEF Sent, Answered
<1>10. PlaceKept'
  <2> SUFFICES ASSUME ~ ahead', torn' = {}
               PROVE  /\ \A i, j \in OrgInvites : Open(i)' /\ Open(j)' => i = j
                      /\ Cardinality(members) < MaxMembers
    BY <1>1, FS_CardinalityType, OrganizationsAssumption DEF PlaceKept
  <2>1. \A i \in OrgInvites : ~ Open(i)
    BY <1>1
  <2>2. \A i \in OrgInvites \ {c} : ~ Open(i)'
    BY <1>1, <1>2, <1>4, <2>1, OrgKinds DEF Open
  <2> QED
    BY <1>1, <2>2
<1> QED
  BY <1>1, <1>6, <1>7, <1>8, <1>9, <1>10

LEMMA CreateInvitationStep ==
    ASSUME OrgInv, NEW c \in OrgInvites, CreateInvitation(c)
    PROVE  OrgInv'
<1> USE DEF OrgInv
<1>1. /\ joining[c].pc = "insert" /\ OGoto(c, "done")
      /\ invited' = [invited EXCEPT ![c].status = "pending"]
      /\ UNCHANGED <<members, let, torn, ahead>>
  BY DEF CreateInvitation
<1>2. /\ joining' \in [OrgCalls -> [pc : OrgPc, of : OrgInvites]]
      /\ joining'[c].pc = "done"
      /\ \A d \in OrgCalls : /\ joining'[d].of = joining[d].of
                             /\ d # c => joining'[d].pc = joining[d].pc
  BY <1>1, OGotoFacts, OrgKinds DEF OrgPc
<1>3. /\ invited' \in [OrgInvites -> [status : OrgStatus, old : BOOLEAN]]
      /\ invited'[c].status = "pending" /\ invited'[c].old = invited[c].old
      /\ \A i \in OrgInvites \ {c} : invited'[i] = invited[i]
  BY <1>1, InvitedStatus DEF OrgStatus
<1>4. \A a \in OrgAnswers : joining'[a].of = joining[a].of /\ joining'[a].pc = joining[a].pc
  BY <1>2, OrgKinds
<1>5. \A a \in OrgAnswers, i \in OrgInvites : AtWork(a, i)' <=> AtWork(a, i)
  BY <1>4 DEF AtWork
<1>6. invited[c].status = "none"
  BY <1>1 DEF Sent
<1>7. OrgTypeOK'
  BY <1>1, <1>2, <1>3, OrgKinds DEF OrgTypeOK, OrgPc, OrgStatus
<1>8. OneAtWork'
  BY <1>1, <1>5 DEF OneAtWork
<1>9. LetOne'
  <2> SUFFICES ASSUME NEW i \in OrgInvites \ torn
               PROVE  Unused(i)' /\ \A u, w \in let[i] : u = w
    BY <1>1 DEF LetOne
  <2>1. Unused(i) /\ \A u, w \in let[i] : u = w
    BY DEF LetOne
  <2>2. CASE i = c
    BY <1>1, <1>6, <2>1, <2>2 DEF Unused
  <2>3. CASE i # c
    BY <1>1, <1>3, <1>4, <1>5, <2>1, <2>3, OrgKinds DEF Unused
  <2> QED
    BY <2>1, <2>2, <2>3
<1>10. Sent'
  BY <1>2, <1>3, OrgKinds DEF Sent
<1>11. Answered'
  <2> SUFFICES ASSUME NEW a \in OrgAnswers
               PROVE  /\ joining[a].pc # "new" => invited'[joining[a].of].status # "none"
                      /\ joining[a].pc = "expire" => invited'[joining[a].of].old
    BY <1>4, OrgKinds DEF Answered
  <2>1. joining[a].of \in OrgInvites
    BY OrgKinds DEF OrgTypeOK
  <2> QED
    BY <1>3, <2>1 DEF Answered
<1>12. \A i \in OrgInvites : Open(i)' => Open(i)
  BY <1>1, <1>2, <1>3, <1>5, OrgKinds DEF Open
<1>13. PlaceKept'
  BY <1>1, <1>12 DEF PlaceKept
<1> QED
  BY <1>1, <1>7, <1>8, <1>9, <1>10, <1>11, <1>13

LEMMA InvitationLapsesStep ==
    ASSUME OrgInv, NEW k \in OrgInvites, InvitationLapses(k)
    PROVE  OrgInv'
<1> USE DEF OrgInv
<1> DEFINE v == [invited[k] EXCEPT !.old = TRUE]
<1>1. /\ invited' = [invited EXCEPT ![k] = v] /\ invited[k].status = "pending"
      /\ UNCHANGED <<members, joining, let, torn, ahead>>
  BY DEF InvitationLapses
<1>2. v \in [status : OrgStatus, old : BOOLEAN] /\ v.status = "pending" /\ v.old
  BY <1>1 DEF OrgTypeOK, OrgStatus
<1> HIDE DEF v
<1>3. /\ invited' \in [OrgInvites -> [status : OrgStatus, old : BOOLEAN]]
      /\ \A i \in OrgInvites : invited'[i].status = invited[i].status
      /\ \A i \in OrgInvites \ {k} : invited'[i] = invited[i]
  BY <1>1, <1>2 DEF OrgTypeOK, OrgStatus
<1>4. OrgTypeOK'
  BY <1>1, <1>2, <1>3 DEF OrgTypeOK, OrgStatus
<1>5. \A a \in OrgAnswers, i \in OrgInvites : AtWork(a, i)' <=> AtWork(a, i)
  BY <1>1 DEF AtWork
<1>6. OneAtWork'
  BY <1>1, <1>5 DEF OneAtWork
<1>7. LetOne'
  BY <1>1, <1>3, <1>5, OrgKinds DEF LetOne, Unused
<1>8. Sent' /\ Answered'
  <2>1. \A i \in OrgInvites : invited[i].old => invited'[i].old
    BY <1>1, <1>2, <1>3 DEF OrgTypeOK
  <2>2. \A a \in OrgAnswers : joining[a].of \in OrgInvites
    BY OrgKinds DEF OrgTypeOK
  <2> QED
    BY <1>1, <1>3, <2>1, <2>2 DEF Sent, Answered
<1>9. PlaceKept'
  BY <1>1, <1>3, <1>5, OrgKinds DEF PlaceKept, Open
<1> QED
  BY <1>1, <1>4, <1>6, <1>7, <1>8, <1>9

(***************************************************************************)
(* An invitation is taken up: it is torn if a call has it in hand.         *)
(***************************************************************************)
LEMMA TakeUpStep ==
    ASSUME OrgInv, NEW a \in OrgAnswers, NEW i \in OrgInvites, NEW label \in OrgPc,
           TakeUpInvitation(a, i, label), label \notin {"new", "done", "insert"},
           invited[i].status # "none", label = "expire" => invited[i].old,
           \/ a \in OrgRejects /\ label = "reject"
           \/ a \in OrgAccepts /\ label \in {"look", "expire"} /\ invited[i].status = "pending"
    PROVE  OrgInv'
<1> USE DEF OrgInv
<1> DEFINE u == [pc |-> label, of |-> i]
<1>1. /\ joining' = [joining EXCEPT ![a] = u] /\ joining[a].pc = "new"
      /\ torn' = IF \E b \in OrgAnswers : AtWork(b, i) THEN torn \cup {i} ELSE torn
      /\ UNCHANGED <<members, invited, let, ahead>>
  BY DEF TakeUpInvitation
<1>2. u \in [pc : OrgPc, of : OrgInvites] /\ u.pc = label /\ u.of = i
  OBVIOUS
<1> HIDE DEF u
<1>3. /\ joining' \in [OrgCalls -> [pc : OrgPc, of : OrgInvites]]
      /\ joining'[a] = u /\ \A d \in OrgCalls \ {a} : joining'[d] = joining[d]
  BY <1>1, <1>2, OrgKinds DEF OrgTypeOK, OrgPc
<1>4. \A c \in OrgInvites : joining'[c] = joining[c]
  BY <1>3, OrgKinds
<1>5. OrgTypeOK'
  BY <1>1, <1>3, <1>4 DEF OrgTypeOK, OrgPc
<1>6. \A b \in OrgAnswers \ {a}, j \in OrgInvites : AtWork(b, j)' <=> AtWork(b, j)
  BY <1>3, OrgKinds DEF AtWork
<1>7. \A j \in OrgInvites : /\ AtWork(a, j)' <=> j = i
                            /\ ~ AtWork(a, j)
  BY <1>1, <1>2, <1>3 DEF AtWork
<1>8. \A j \in OrgInvites \ torn' : j \notin torn /\ (j = i => \A b \in OrgAnswers : ~ AtWork(b, i))
  BY <1>1
<1>9. OneAtWork'
  BY <1>6, <1>7, <1>8 DEF OneAtWork
<1>10. LetOne'
  <2> SUFFICES ASSUME NEW j \in OrgInvites \ torn'
               PROVE  Unused(j)' /\ \A p, w \in let[j] : p = w
    BY <1>1 DEF LetOne
  <2>1. Unused(j) /\ \A p, w \in let[j] : p = w
    BY <1>8 DEF LetOne
  <2>2. CASE j = i
    <3>1. ~ \E b \in OrgAccepts : AtWork(b, i)
      BY <1>8, <2>2, OrgKinds
    <3>2. CASE a \in OrgAccepts
      BY <1>1, <2>1, <2>2, <3>1, <3>2, OrgKinds DEF Unused
    <3>3. CASE a \notin OrgAccepts
      <4>1. \A b \in OrgAccepts : b # a /\ b \in OrgAnswers
        BY <3>3, OrgKinds
      <4> QED
        BY <1>1, <1>6, <2>1, <2>2, <3>1, <4>1 DEF Unused
    <3> QED
      BY <3>2, <3>3
  <2>3. CASE j # i
    <3>1. \A b \in OrgAccepts : AtWork(b, j)' <=> AtWork(b, j)
      BY <1>6, <1>7, <2>3, OrgKinds
    <3>2. \A b \in OrgAccepts : AtWork(b, j) => joining'[b] = joining[b]
      BY <1>3, <1>7, OrgKinds
    <3> QED
      BY <1>1, <2>1, <3>1, <3>2 DEF Unused
  <2> QED
    BY <2>1, <2>2, <2>3
<1>11. Sent'
  BY <1>1, <1>4 DEF Sent
<1>12. Answered'
  BY <1>1, <1>2, <1>3, OrgKinds DEF Answered
<1>13. \A j \in OrgInvites : Open(j)' => Open(j)
  <2> SUFFICES ASSUME NEW j \in OrgInvites, NEW b \in OrgAccepts, AtWork(b, j)'
               PROVE  Open(j)
    BY <1>1, <1>4 DEF Open
  <2>1. CASE b = a
    BY <1>7, <2>1, OrgKinds DEF Open
  <2>2. CASE b # a
    BY <1>6, <2>2, OrgKinds DEF Open
  <2> QED
    BY <2>1, <2>2
<1>14. PlaceKept'
  BY <1>1, <1>13 DEF PlaceKept
<1> QED
  BY <1>1, <1>5, <1>9, <1>10, <1>11, <1>12, <1>14

(***************************************************************************)
(* A call with an invitation in hand goes on, or dies.                     *)
(***************************************************************************)
LEMMA GoesOnStep ==
    ASSUME OrgInv, NEW a \in OrgCalls, NEW label \in OrgPc, OGoto(a, label),
           UNCHANGED <<members, invited, let, ahead>>, joining[a].pc \notin {"new", "done"},
           label = "done" \/ (a \in OrgAccepts /\ joining[a].pc = "look" /\ label \in {"add", "accept"}),
           torn' = IF label = "done" /\ joining[a].pc = "accept" THEN torn \cup {joining[a].of} ELSE torn
    PROVE  OrgInv'
<1> USE DEF OrgInv
<1>1. /\ joining' \in [OrgCalls -> [pc : OrgPc, of : OrgInvites]]
      /\ joining'[a].pc = label
      /\ \A d \in OrgCalls : /\ joining'[d].of = joining[d].of
                             /\ d # a => joining'[d].pc = joining[d].pc
  BY OGotoFacts
<1>2. joining[a].of \in OrgInvites
  BY DEF OrgTypeOK
<1>3. OrgTypeOK'
  <2>1. \A i \in OrgInvites : joining'[i].pc = "insert" => joining[i].pc = "insert"
    BY <1>1, OrgKinds
  <2>2. torn' \subseteq OrgInvites
    BY <1>2 DEF OrgTypeOK
  <2> QED
    BY <1>1, <2>1, <2>2 DEF OrgTypeOK, OrgPc
<1>4. \A b \in OrgAnswers, j \in OrgInvites : AtWork(b, j)' => AtWork(b, j)
  BY <1>1, OrgKinds DEF AtWork
<1>5. torn \subseteq torn'
  OBVIOUS
<1>6. OneAtWork'
  BY <1>4, <1>5 DEF OneAtWork
<1>7. LetOne'
  <2> SUFFICES ASSUME NEW j \in OrgInvites \ torn'
               PROVE  Unused(j)' /\ \A p, w \in let[j] : p = w
    BY DEF LetOne
  <2>1. Unused(j) /\ \A p, w \in let[j] : p = w
    BY <1>5 DEF LetOne
  <2>2. \A b \in OrgAccepts : AtWork(b, j)' /\ joining'[b].pc \in {"look", "add"} =>
            AtWork(b, j) /\ joining[b].pc \in {"look", "add"}
    BY <1>1, <1>4, OrgKinds
  <2>3. \A b \in OrgAccepts : AtWork(b, j) /\ joining[b].pc = "accept" => AtWork(b, j)' /\ joining'[b].pc = "accept"
    <3> SUFFICES ASSUME NEW b \in OrgAccepts, AtWork(b, j), joining[b].pc = "accept"
                 PROVE  joining'[b].pc = "accept" /\ joining'[b].of = j
      BY DEF AtWork
    <3>1. joining[b].of = j
      BY DEF AtWork
    <3>2. b # a
      BY <3>1
    <3> QED
      BY <1>1, <3>1, <3>2, OrgKinds
  <2>4. CASE let[j] = {}
    BY <2>1, <2>4 DEF Unused
  <2>5. CASE let[j] # {}
    <3>1. /\ invited[j].status # "none"
          /\ invited[j].status = "pending" => \E b \in OrgAccepts : AtWork(b, j) /\ joining[b].pc = "accept"
          /\ \A b \in OrgAccepts : AtWork(b, j) => joining[b].pc \notin {"look", "add"}
      BY <2>1, <2>5 DEF Unused
    <3>2. invited'[j].status = "pending" => \E b \in OrgAccepts : AtWork(b, j)' /\ joining'[b].pc = "accept"
      BY <2>3, <3>1
    <3>3. \A b \in OrgAccepts : AtWork(b, j)' => joining'[b].pc \notin {"look", "add"}
      BY <2>2, <3>1
    <3> QED
      BY <2>1, <3>1, <3>2, <3>3 DEF Unused
  <2> QED
    BY <2>4, <2>5
<1>8. Sent'
  <2> SUFFICES ASSUME NEW c \in OrgInvites
               PROVE  /\ joining'[c].pc \in {"new", "insert", "done"}
                      /\ joining'[c].pc \in {"new", "insert"} => invited[c].status = "none"
    BY DEF Sent
  <2>1. CASE c = a
    BY <1>1, <2>1, OrgKinds
  <2>2. CASE c # a
    BY <1>1, <2>2, OrgKinds DEF Sent
  <2> QED
    BY <2>1, <2>2
<1>9. Answered'
  BY <1>1, OrgKinds DEF Answered
<1>10. \A j \in OrgInvites : Open(j)' => Open(j)
  <2>1. \A i \in OrgInvites : joining'[i].pc = "insert" => joining[i].pc = "insert"
    BY <1>1, OrgKinds
  <2> QED
    BY <1>4, <2>1, OrgKinds DEF Open
<1>11. PlaceKept'
  BY <1>5, <1>10 DEF PlaceKept
<1> QED
  BY <1>3, <1>6, <1>7, <1>8, <1>9, <1>11

(***************************************************************************)
(* Somebody joins: the invitation had let nobody in, and its place is free.*)
(***************************************************************************)
LEMMA AddMemberStep ==
    ASSUME OrgInv, NEW a \in OrgAccepts, AddMember(a)
    PROVE  OrgInv'
<1> USE DEF OrgInv
<1> DEFINE k == joining[a].of
           u == AcceptsFor[a]
<1>1. /\ joining[a].pc = "add" /\ u \notin members /\ members' = members \cup {u} /\ u \in Users
      /\ let' = [let EXCEPT ![k] = let[k] \cup {u}] /\ OGoto(a, "accept")
      /\ UNCHANGED <<invited, torn, ahead>>
  BY OrganizationsAssumption DEF AddMember, OrgTypeOK
<1>2. a \in OrgCalls /\ a \in OrgAnswers /\ k \in OrgInvites
  BY OrgKinds DEF OrgTypeOK
<1>3. /\ joining' \in [OrgCalls -> [pc : OrgPc, of : OrgInvites]]
      /\ joining'[a].pc = "accept"
      /\ \A d \in OrgCalls : /\ joining'[d].of = joining[d].of
                             /\ d # a => joining'[d].pc = joining[d].pc
  BY <1>1, <1>2, OGotoFacts DEF OrgPc
<1>4. \A b \in OrgAnswers, j \in OrgInvites : AtWork(b, j)' <=> AtWork(b, j)
  BY <1>1, <1>3, OrgKinds DEF AtWork
<1>5. AtWork(a, k) /\ invited[k].status # "none"
  BY <1>1, <1>2 DEF AtWork, Answered
<1>6. let \in [OrgInvites -> SUBSET Users]
  BY DEF OrgTypeOK
<1> HIDE DEF k, u
<1>7. let'[k] = let[k] \cup {u} /\ \A j \in OrgInvites \ {k} : let'[j] = let[j]
  BY <1>1, <1>2, <1>6
<1>8. \A c \in OrgInvites : joining'[c].pc = joining[c].pc
  BY <1>2, <1>3, OrgKinds
<1>9. OrgTypeOK'
  <2>1. let' \in [OrgInvites -> SUBSET Users]
    BY <1>1, <1>2, <1>6
  <2> QED
    BY <1>1, <1>3, <1>8, <2>1 DEF OrgTypeOK, OrgPc
<1>10. OneAtWork'
  BY <1>1, <1>4 DEF OneAtWork
<1>11. k \notin torn => let[k] = {}
  BY <1>1, <1>2, <1>5 DEF LetOne, Unused
<1>12. LetOne'
  <2> SUFFICES ASSUME NEW j \in OrgInvites \ torn
               PROVE  Unused(j)' /\ \A p, w \in let'[j] : p = w
    BY <1>1 DEF LetOne
  <2>1. CASE j = k
    <3>1. \A b \in OrgAccepts : AtWork(b, k) => b = a
      BY <1>2, <1>5, <2>1, OrgKinds DEF OneAtWork
    <3>2. AtWork(a, j)' /\ joining'[a].pc = "accept" /\ \A b \in OrgAccepts : AtWork(b, j)' => b = a
      BY <1>2, <1>3, <1>4, <1>5, <2>1, <3>1, OrgKinds
    <3>3. Unused(j)'
      BY <1>1, <1>5, <2>1, <3>2 DEF Unused
    <3>4. let'[j] = {u}
      BY <1>7, <1>11, <2>1
    <3> QED
      BY <3>3, <3>4
  <2>2. CASE j # k
    <3>1. \A b \in OrgAccepts : AtWork(b, j) => b # a
      BY <1>5, <2>2 DEF AtWork
    <3>2. Unused(j) /\ \A p, w \in let[j] : p = w
      BY DEF LetOne
    <3>3. \A b \in OrgAccepts : AtWork(b, j) => joining'[b].pc = joining[b].pc
      BY <1>3, <3>1, OrgKinds
    <3> QED
      BY <1>1, <1>4, <1>7, <2>2, <3>2, <3>3, OrgKinds DEF Unused
  <2> QED
    BY <2>1, <2>2
<1>13. Sent' /\ Answered'
  BY <1>1, <1>3, <1>8, OrgKinds DEF Sent, Answered
<1>14. IsFiniteSet(members') /\ Cardinality(members') = Cardinality(members) + 1
  BY <1>1, FS_AddElement
<1>15. \A j \in OrgInvites : Open(j)' <=> Open(j)
  BY <1>1, <1>4, <1>8, OrgKinds DEF Open
<1>16. PlaceKept'
  <2> SUFFICES ASSUME ~ ahead, torn = {}
               PROVE  /\ \A i, j \in OrgInvites : Open(i) /\ Open(j) => i = j
                      /\ \A i \in OrgInvites : Open(i) => let'[i] # {}
                      /\ Cardinality(members') <= MaxMembers
    BY <1>1, <1>15 DEF PlaceKept
  <2>1. Open(k)
    BY <1>5 DEF Open
  <2>2. let[k] = {} /\ Cardinality(members) < MaxMembers
    BY <1>2, <1>11, <2>1 DEF PlaceKept
  <2>3. Cardinality(members) \in Nat
    BY FS_CardinalityType
  <2> QED
    BY <1>2, <1>7, <1>14, <2>1, <2>2, <2>3, OrganizationsAssumption DEF PlaceKept
<1> QED
  BY <1>9, <1>10, <1>12, <1>13, <1>14, <1>16

LEMMA UpdateStatusStep ==
    ASSUME OrgInv, NEW a \in OrgAnswers, NEW label, NEW status \in OrgStatus \ {"none", "pending"},
           UpdateInvitationStatus(a, label, status), label \notin {"new", "done"},
           status = "expired" => label = "expire"
    PROVE  OrgInv'
<1> USE DEF OrgInv
<1> DEFINE k == joining[a].of
<1>1. /\ joining[a].pc = label /\ OGoto(a, "done")
      /\ invited' = [invited EXCEPT ![k].status = status]
      /\ UNCHANGED <<members, let, torn, ahead>>
  BY DEF UpdateInvitationStatus
<1>2. a \in OrgCalls /\ k \in OrgInvites
  BY OrgKinds DEF OrgTypeOK
<1>3. /\ joining' \in [OrgCalls -> [pc : OrgPc, of : OrgInvites]]
      /\ joining'[a].pc = "done"
      /\ \A d \in OrgCalls : /\ joining'[d].of = joining[d].of
                             /\ d # a => joining'[d].pc = joining[d].pc
  BY <1>1, <1>2, OGotoFacts DEF OrgPc
<1>4. /\ invited' \in [OrgInvites -> [status : OrgStatus, old : BOOLEAN]]
      /\ invited'[k].status = status /\ invited'[k].old = invited[k].old
      /\ \A i \in OrgInvites \ {k} : invited'[i] = invited[i]
  BY <1>1, <1>2, InvitedStatus
<1>5. \A b \in OrgAnswers, j \in OrgInvites : AtWork(b, j)' => AtWork(b, j)
  BY <1>3, OrgKinds DEF AtWork
<1>6. \A c \in OrgInvites : joining'[c].pc = joining[c].pc
  BY <1>2, <1>3, OrgKinds
<1>7. invited[k].status # "none" /\ AtWork(a, k)
  BY <1>1, <1>2 DEF Answered, AtWork
<1> HIDE DEF k
<1>8. OrgTypeOK'
  <2>1. \A i \in OrgInvites : joining'[i].pc = "insert" => invited'[i].status = "none"
    BY <1>2, <1>4, <1>6, <1>7 DEF OrgTypeOK
  <2>2. \A i \in OrgInvites : invited'[i].status = "expired" => invited'[i].old
    BY <1>1, <1>4 DEF OrgTypeOK, Answered, k
  <2> QED
    BY <1>1, <1>3, <1>4, <2>1, <2>2 DEF OrgTypeOK, OrgPc, OrgStatus
<1>9. OneAtWork'
  BY <1>1, <1>5 DEF OneAtWork
<1>10. LetOne'
  <2> SUFFICES ASSUME NEW j \in OrgInvites \ torn
               PROVE  Unused(j)' /\ \A p, w \in let[j] : p = w
    BY <1>1 DEF LetOne
  <2>1. Unused(j) /\ \A p, w \in let[j] : p = w
    BY DEF LetOne
  <2>2. \A b \in OrgAccepts : AtWork(b, j)' => AtWork(b, j) /\ joining'[b].pc = joining[b].pc
    BY <1>3, <1>5, OrgKinds DEF AtWork
  <2>3. CASE j = k
    BY <1>1, <1>4, <2>1, <2>2, <2>3 DEF Unused
  <2>4. CASE j # k
    <3>1. \A b \in OrgAccepts : AtWork(b, j) => b # a
      BY <2>4 DEF AtWork, k
    <3>2. \A b \in OrgAccepts : AtWork(b, j) => AtWork(b, j)' /\ joining'[b].pc = joining[b].pc
      BY <1>3, <3>1, OrgKinds DEF AtWork
    <3> QED
      BY <1>1, <1>4, <2>1, <2>2, <2>4, <3>2 DEF Unused
  <2> QED
    BY <2>1, <2>3, <2>4
<1>11. Sent'
  BY <1>2, <1>4, <1>6, <1>7 DEF Sent
<1>12. Answered'
  <2>1. \A b \in OrgAnswers : joining'[b].pc # "new" => invited'[joining'[b].of].status # "none"
    <3> SUFFICES ASSUME NEW b \in OrgAnswers, joining'[b].pc # "new"
                 PROVE  invited'[joining[b].of].status # "none"
      BY <1>3, OrgKinds
    <3>1. joining[b].of \in OrgInvites /\ invited[joining[b].of].status # "none"
      BY <1>1, <1>3, OrgKinds DEF OrgTypeOK, Answered
    <3> QED
      BY <1>4, <3>1
  <2>2. \A b \in OrgAccepts : joining'[b].pc # "reject" /\ joining'[b].pc # "insert"
    BY <1>3, OrgKinds DEF Answered
  <2>3. ASSUME NEW b \in OrgAnswers, joining'[b].pc = "expire" PROVE invited'[joining'[b].of].old
    <3>1. joining'[b].of = joining[b].of /\ joining[b].of \in OrgInvites /\ invited[joining[b].of].old
      BY <1>1, <1>3, <2>3, OrgKinds DEF OrgTypeOK, Answered
    <3> QED
      BY <1>4, <3>1
  <2> QED
    BY <2>1, <2>2, <2>3 DEF Answered
<1>13. \A j \in OrgInvites : Open(j)' => Open(j)
  BY <1>4, <1>5, <1>6, OrgKinds DEF Open
<1>14. PlaceKept'
  BY <1>1, <1>13 DEF PlaceKept
<1> QED
  BY <1>1, <1>8, <1>9, <1>10, <1>11, <1>12, <1>14

LEMMA RemoveMemberStep ==
    ASSUME OrgInv, NEW u \in Users, RemoveMember(u)
    PROVE  OrgInv'
<1> USE DEF OrgInv
<1>1. /\ members' = members \ {u} /\ u \in members
      /\ UNCHANGED <<invited, joining, let, torn, ahead>>
  BY DEF RemoveMember
<1>2. /\ IsFiniteSet(members') /\ Cardinality(members') = Cardinality(members) - 1
      /\ Cardinality(members) \in Nat
  BY <1>1, FS_RemoveElement, FS_CardinalityType
<1>3. OrgTypeOK'
  BY <1>1 DEF OrgTypeOK
<1>4. OneAtWork' /\ LetOne' /\ Sent' /\ Answered'
  BY <1>1 DEF OneAtWork, LetOne, Unused, AtWork, Sent, Answered
<1>5. \A i \in OrgInvites : Open(i)' <=> Open(i)
  BY <1>1 DEF Open, AtWork
<1>6. PlaceKept'
  BY <1>1, <1>2, <1>5, OrganizationsAssumption DEF PlaceKept
<1> QED
  BY <1>2, <1>3, <1>4, <1>6

LEMMA OrgPreserved ==
    ASSUME OrgInv, [OrgNext]_orgVars
    PROVE  OrgInv'
<1>1. CASE UNCHANGED orgVars
  BY <1>1 DEF orgVars, OrgInv, OrgTypeOK, OneAtWork, LetOne, Unused, AtWork, Sent, Answered, PlaceKept, Open
<1>2. ASSUME NEW a \in OrgAccepts, NEW i \in OrgInvites, GetInvitation(a, i)
      PROVE  OrgInv'
  BY <1>2, TakeUpStep, OrgKinds DEF GetInvitation, OrgPc
<1>3. ASSUME NEW a \in OrgAccepts, GetMember(a)
      PROVE  OrgInv'
  BY <1>3, GoesOnStep, OrgKinds DEF GetMember, OrgPc
<1>4. ASSUME NEW a \in OrgAccepts,
             UpdateInvitationStatus(a, "expire", "expired") \/ UpdateInvitationStatus(a, "accept", "accepted")
      PROVE  OrgInv'
  BY <1>4, UpdateStatusStep, OrgKinds DEF OrgStatus
<1>5. ASSUME NEW r \in OrgRejects, NEW i \in OrgInvites, GetAnyInvitation(r, i)
      PROVE  OrgInv'
  BY <1>5, TakeUpStep, OrgKinds DEF GetAnyInvitation, OrgPc
<1>6. ASSUME NEW r \in OrgRejects, UpdateInvitationStatus(r, "reject", "rejected")
      PROVE  OrgInv'
  BY <1>6, UpdateStatusStep, OrgKinds DEF OrgStatus
<1>7. ASSUME NEW c \in OrgCalls, JoiningFails(c)
      PROVE  OrgInv'
  BY <1>7, GoesOnStep DEF JoiningFails, OrgPc
<1> QED
  BY <1>1, <1>2, <1>3, <1>4, <1>5, <1>6, <1>7, CountMembersStep, CreateInvitationStep,
     InvitationLapsesStep, AddMemberStep, RemoveMemberStep DEF OrgNext

LEMMA OrgInvSafe == OrgInv => OrganizationsSafe
<1> SUFFICES ASSUME OrgInv, NEW i \in OrgInvites \ torn
             PROVE  Cardinality(let[i]) <= 1
  BY DEF OrganizationsSafe, OneJoinEach, WithinLimit, OrgInv, PlaceKept
<1>1. CASE let[i] = {}
  BY <1>1, FS_EmptySet
<1>2. ASSUME NEW u \in let[i] PROVE Cardinality(let[i]) <= 1
  <2>1. let[i] = {u}
    BY DEF OrgInv, LetOne
  <2>2. Cardinality({u}) = 1
    BY FS_Singleton
  <2> QED
    BY <2>1, <2>2
<1> QED
  BY <1>1, <1>2 DEF OrgInv, LetOne

(***************************************************************************)
(* However invitations, answers, removals and deaths of calls interleave,  *)
(* an invitation that is not torn lets one user in, and an organization    *)
(* that invites with none open stays within its limit                      *)
(* (services/organization_service.py).                                     *)
(***************************************************************************)
THEOREM OrganizationsAreSafe == OrgSpec => []OrganizationsSafe
  BY OrgInitially, OrgPreserved, OrgInvSafe, PTL DEF OrgSpec

-----------------------------------------------------------------------------

(***************************************************************************)
(* The composition: a behaviour of the whole is one of each part, but for  *)
(* the policies, which another part leaves as they are.                    *)
(***************************************************************************)
PolicyTypes ==
    /\ PolicyInv
    /\ actual \in {"equal", "different", "missing"}
    /\ decision = "allow" => left = {}

AccessInv ==
    /\ RateInv
    /\ AuthInv
    /\ MfaInv
    /\ KeyInv
    /\ AccountInv
    /\ TeamInv
    /\ OrgInv
    /\ part = "policies" => PolicyTypes

LEMMA PolicyTypesInit == PolicyInit => PolicyTypes
  BY PolicyInitially DEF PolicyTypes, PolicyInit

LEMMA PolicyTypesNext == PolicyTypes /\ [PolicyNext]_policyVars => PolicyTypes'
<1> SUFFICES ASSUME PolicyTypes, [PolicyNext]_policyVars PROVE PolicyTypes'
  OBVIOUS
<1>1. PolicyInv'
  BY PolicyPreserved DEF PolicyTypes
<1>2. CASE UNCHANGED policyVars
  BY <1>1, <1>2 DEF PolicyTypes, policyVars
<1>3. ASSUME NEW p \in PolicyIds, Evaluate(p)
      PROVE  PolicyTypes'
  BY <1>1, <1>3 DEF PolicyTypes, Evaluate
<1>4. CASE Decide
  BY <1>1, <1>4 DEF PolicyTypes, Decide
<1>5. QED
  BY <1>2, <1>3, <1>4 DEF PolicyNext

LEMMA AccessInvInit == Init => AccessInv
<1> SUFFICES ASSUME Init PROVE AccessInv
  OBVIOUS
<1>1. RateInit /\ AuthInit /\ MfaInit /\ KeyInit /\ AccountInit /\ TeamInit /\ OrgInit
      /\ (part = "policies" => PolicyInit)
  BY DEF Init
<1>2. QED
  BY <1>1, RateInvInit, AuthInvInit, MfaInvInit, KeyInitially, AccountInvInit,
     TeamInitially, OrgInitially, PolicyTypesInit DEF AccessInv

accessVars == <<part, rateVars, authVars, mfaVars, keyVars, accountVars, teamVars, orgVars, policyVars>>

(* A step of the whole is one of each part, or none. *)
LEMMA AccessParts ==
  ASSUME [Next]_accessVars
  PROVE  /\ [RateNext]_rateVars /\ [AuthNext]_authVars /\ [MfaNext]_mfaVars /\ [KeyNext]_keyVars
         /\ [AccountNext]_accountVars /\ [TeamNext]_teamVars /\ [OrgNext]_orgVars
         /\ [PolicyNext]_policyVars /\ part' = part
<1>1. CASE UNCHANGED accessVars
  BY <1>1 DEF accessVars
<1>2. CASE Next
  BY <1>2 DEF Next, RatePart, AuthPart, MfaPart, KeyPart, AccountPart, TeamPart, OrgPart, PolicyPart
<1>3. QED
  BY <1>1, <1>2

LEMMA AccessInvNext == AccessInv /\ [Next]_accessVars => AccessInv'
<1> SUFFICES ASSUME AccessInv, [Next]_accessVars PROVE AccessInv'
  OBVIOUS
<1>1. /\ [RateNext]_rateVars /\ [AuthNext]_authVars /\ [MfaNext]_mfaVars /\ [KeyNext]_keyVars
      /\ [AccountNext]_accountVars /\ [TeamNext]_teamVars /\ [OrgNext]_orgVars
      /\ [PolicyNext]_policyVars /\ part' = part
  BY AccessParts
<1>2. RateInv' /\ AuthInv' /\ MfaInv' /\ KeyInv'
  BY <1>1, RateInvNext, AuthInvNext, MfaInvNext, KeyPreserved DEF AccessInv
<1>3. AccountInv' /\ TeamInv' /\ OrgInv' /\ (part' = "policies" => PolicyTypes')
  BY <1>1, AccountInvNext, TeamPreserved, OrgPreserved, PolicyTypesNext DEF AccessInv
<1>4. QED
  BY <1>2, <1>3 DEF AccessInv

LEMMA AccessInvAlways == Spec => []AccessInv
<1>1. Spec => Init /\ [][Next]_accessVars
  BY DEF Spec, accessVars
<1>2. QED
  BY <1>1, AccessInvInit, AccessInvNext, PTL

(***************************************************************************)
(* The window, the sessions and the second factor, for any number of       *)
(* requests and calls. No window holds more than the limit unless the      *)
(* store failed or a pipeline was overtaken. Calls that do not overlap     *)
(* leave one session and bound the guesses; a reset that met no call at    *)
(* work and no mfa_token of an older password ends every session of one. A *)
(* recovery code lets in once unless two calls compared it at a time, and  *)
(* who is asked for a code can answer unless a call wrote over another's   *)
(* change or died half-way (services/rate_limit/rate_limiter.py,           *)
(* services/auth_service.py, services/auth/mfa_service.py).                *)
(***************************************************************************)
THEOREM SignInsAreSafe == Spec => []AccessSafe
<1>1. AccessInv => AccessSafe
  BY RateInvMeans, AuthInvMeans, MfaInvMeans DEF AccessInv, AccessSafe
<1>2. QED
  BY <1>1, AccessInvAlways, PTL

(***************************************************************************)
(* The ways into an account, next to the other parts: an identity is bound *)
(* once unless two look-ups raced; a user without a password keeps what he *)
(* linked, unless two of his calls unlinked at once or his sign-up was cut *)
(* off, and one whom a callback made comes in by his address; an address   *)
(* comes verified and a social sign-up ends so                             *)
(* (services/auth/account_linking_service.py).                             *)
(***************************************************************************)
THEOREM AccountsAreSafe == Spec => []AccountsSafe
<1>1. AccessInv => AccountsSafe
  BY AccountInvMeans DEF AccessInv
<1>2. QED
  BY <1>1, AccessInvAlways, PTL

(***************************************************************************)
(* Teams and organizations, next to each other and to the other parts      *)
(* (services/team_service.py, services/organization_service.py).           *)
(***************************************************************************)
THEOREM MembershipKept == Spec => []MembershipSafe
<1>1. AccessInv => MembershipSafe
  BY TeamInvSafe, OrgInvSafe DEF AccessInv, MembershipSafe
<1>2. QED
  BY <1>1, AccessInvAlways, PTL

(***************************************************************************)
(* The types of the eight, with what they say of one another's rows.       *)
(***************************************************************************)
THEOREM AccessTyped == Spec => []AccessTypes
<1>1. AccessInv => AccessTypes
  <2> SUFFICES ASSUME AccessInv PROVE AccessTypes
    OBVIOUS
  <2>1. RateTypeOK /\ AuthTypeOK /\ MfaTypeOK /\ KeyTypeOK /\ AccountTypeOK /\ TeamTypeOK /\ OrgTypeOK
    BY RateInvMeans, MfaInvMeans, AccountInvMeans DEF AccessInv, AuthInv, KeyInv, TeamInv, OrgInv
  <2>2. part = "policies" => PolicyTypeOK
    BY DEF AccessInv, PolicyTypes, PolicyInv, PolicyTypeOK
  <2>3. QED
    BY <2>1, <2>2 DEF AccessTypes
<1>2. QED
  BY <1>1, AccessInvAlways, PTL
=============================================================================
