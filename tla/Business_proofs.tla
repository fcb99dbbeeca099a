------------------------- MODULE Business_proofs --------------------------
(***************************************************************************)
(* Proofs about the modules that keep what the application knows of its    *)
(* customers and its operators, for every value of their constants.        *)
(***************************************************************************)
EXTENDS MCBusiness, FiniteSetTheorems, TLAPS

-----------------------------------------------------------------------------
(* The subscriptions of an account *)

SubLabels == {"new", "select", "lock", "insert", "save", "done", "failed"}

SubCall == [pc: SubLabels, row: Rows \cup {"none"}, seen: SubStatus \cup {"none"},
            status: SubStatus \cup {"none"}, held: SUBSET Rows]

Replacing(c) == call[c].pc \in {"lock", "insert"}

(***************************************************************************)
(* What a call that creates or saves is about.                             *)
(***************************************************************************)
ErrandsOK ==
    \A c \in SubCalls :
        /\ call[c].pc \in {"select", "lock", "insert"} =>
               /\ call[c].row \in Rows /\ call[c].status \in LiveStatus \cup {"unpaid"}
               /\ c \in Creates => call[c].row = c
        /\ call[c].pc = "save" =>
               /\ call[c].row \in Rows /\ call[c].status \in SubStatus
               /\ sub[call[c].row] # "none"

(***************************************************************************)
(* Until two calls overlap one at most is replacing, and unless a row was  *)
(* revived it holds every live row, of which there is one at most.         *)
(***************************************************************************)
AloneOK == ~ overlapped => \A c, d \in SubCalls : Replacing(c) /\ Replacing(d) => c = d

OneOK ==
    ~ overlapped /\ ~ revived =>
        /\ \A r, s \in Live : r = s
        /\ \A c \in SubCalls : Replacing(c) => Live \subseteq call[c].held

SubInv == SubTypeOK /\ ErrandsOK /\ AloneOK /\ OneOK /\ PlanSurvives

LEMMA SubKinds ==
    /\ \A c \in Creates : c \in SubCalls /\ c \in Rows /\ c \notin Syncs /\ c \notin Edits
    /\ \A c \in Syncs : c \in SubCalls /\ c \notin Creates /\ c \notin Edits
    /\ \A c \in Edits : c \in SubCalls /\ c \notin Creates
    /\ StripeIds \subseteq Rows
    /\ Trials \subseteq Creates
  BY SubscriptionsAssumption DEF SubCalls, Rows

LEMMA SubInitInv == SubInit => SubInv
<1> SUFFICES ASSUME SubInit PROVE SubInv
  OBVIOUS
<1>1. Fresh \in SubCall /\ Fresh.pc = "new"
  BY DEF Fresh, SubCall, SubLabels
<1>2. \A c \in SubCalls : call[c] = Fresh
  BY DEF SubInit
<1>3. call \in [SubCalls -> SubCall]
  BY <1>1 DEF SubInit
<1>4. SubTypeOK
  BY <1>1, <1>2, <1>3 DEF SubInit, SubTypeOK, SubCall, SubLabels
<1>5. ErrandsOK
  BY <1>1, <1>2 DEF ErrandsOK
<1>6. AloneOK
  BY <1>1, <1>2 DEF AloneOK, Replacing
<1>7. Live = {} /\ \A r \in Rows : sub[r] = "none"
  BY DEF SubInit, Live, LiveStatus
<1>8. OneOK /\ PlanSurvives
  BY <1>1, <1>2, <1>7 DEF OneOK, PlanSurvives, Replacing
<1>9. QED
  BY <1>4, <1>5, <1>6, <1>8 DEF SubInv

(***************************************************************************)
(* A call moves on: what it is about then, and what the others see.        *)
(***************************************************************************)
MovesTo(c, u) ==
    /\ call' \in [SubCalls -> SubCall] /\ call'[c] = u
    /\ \A d \in SubCalls : d # c => call'[d] = call[d]

LEMMA MovesWhole ==
    ASSUME SubInv, NEW c \in SubCalls, NEW u \in SubCall, call' = [call EXCEPT ![c] = u]
    PROVE  MovesTo(c, u)
<1>1. call \in [SubCalls -> SubCall]
  BY DEF SubInv, SubTypeOK, SubCall, SubLabels
<1>2. QED
  BY <1>1 DEF MovesTo

(***************************************************************************)
(* A call moves on and no row changes.                                     *)
(***************************************************************************)
LEMMA QuietKeeps ==
    ASSUME SubInv, NEW c \in SubCalls, NEW u \in SubCall, MovesTo(c, u),
           UNCHANGED <<sub, overlapped, revived, ended>>,
           u.pc \notin {"lock", "insert"},
           u.pc = "select" => /\ u.row \in Rows /\ u.status \in LiveStatus \cup {"unpaid"}
                              /\ c \in Creates => u.row = c,
           u.pc = "save" => u.row \in Rows /\ u.status \in SubStatus /\ sub[u.row] # "none"
    PROVE  SubInv'
<1>1. Live' = Live
  BY DEF Live
<1>2. SubTypeOK'
  BY DEF SubInv, SubTypeOK, MovesTo, SubCall, SubLabels
<1>3. ErrandsOK'
  <2> SUFFICES ASSUME NEW d \in SubCalls
               PROVE  /\ call'[d].pc \in {"select", "lock", "insert"} =>
                             /\ call'[d].row \in Rows /\ call'[d].status \in LiveStatus \cup {"unpaid"}
                             /\ d \in Creates => call'[d].row = d
                      /\ call'[d].pc = "save" =>
                             /\ call'[d].row \in Rows /\ call'[d].status \in SubStatus
                             /\ sub[call'[d].row] # "none"
    BY DEF ErrandsOK
  <2>1. CASE d = c
    BY <2>1 DEF MovesTo
  <2>2. CASE d # c
    BY <2>2 DEF MovesTo, SubInv, ErrandsOK
  <2>3. QED
    BY <2>1, <2>2
<1>4. \A d \in SubCalls : Replacing(d)' => Replacing(d) /\ call'[d] = call[d]
  BY DEF MovesTo, Replacing
<1>5. AloneOK' /\ OneOK' /\ PlanSurvives'
  BY <1>1, <1>4 DEF SubInv, AloneOK, OneOK, PlanSurvives
<1>6. QED
  BY <1>2, <1>3, <1>5 DEF SubInv

LEMMA CreateKeeps == ASSUME SubInv, NEW c \in Creates, CreateSubscription(c) PROVE SubInv'
<1> DEFINE u == [Fresh EXCEPT !.pc = "select", !.row = c, !.status = "active"]
<1>1. u \in SubCall /\ u.pc = "select" /\ u.row = c /\ u.status = "active"
  BY SubKinds DEF Fresh, SubCall, SubLabels, SubStatus, LiveStatus
<1>2. call' = [call EXCEPT ![c] = u] /\ UNCHANGED <<sub, overlapped, revived, ended>>
  BY DEF CreateSubscription, ToCreate
<1> HIDE DEF u
<1>3. MovesTo(c, u)
  BY <1>1, <1>2, MovesWhole, SubKinds
<1>4. QED
  BY <1>1, <1>2, <1>3, QuietKeeps, SubKinds DEF LiveStatus

LEMMA ToSaveKeeps ==
    ASSUME SubInv, NEW c \in SubCalls, NEW r \in Rows, NEW status \in SubStatus,
           sub[r] # "none", ToSave(c, r, status), UNCHANGED <<sub, overlapped, revived, ended>>
    PROVE  SubInv'
<1> DEFINE u == [Fresh EXCEPT !.pc = "save", !.row = r, !.status = status, !.seen = sub[r]]
<1>1. u \in SubCall /\ u.pc = "save" /\ u.row = r /\ u.status = status
  <2>1. sub[r] \in SubStatus \cup {"none"}
    BY DEF SubInv, SubTypeOK
  <2>2. QED
    BY <2>1 DEF Fresh, SubCall, SubLabels
<1>2. call' = [call EXCEPT ![c] = u]
  BY DEF ToSave
<1> HIDE DEF u
<1>3. MovesTo(c, u)
  BY <1>1, <1>2, MovesWhole
<1>4. QED
  BY <1>1, <1>3, QuietKeeps

LEMMA SyncKeeps == ASSUME SubInv, NEW c \in Syncs, SyncStripeSubscription(c) PROVE SubInv'
<1>1. PICK s \in StripeIds, status \in SubStatus :
        CASE sub[s] # "none" -> ToSave(c, s, status)
          [] sub[s] = "none" /\ status \notin TerminalStatus -> ToCreate(c, s, status)
          [] OTHER -> call' = [call EXCEPT ![c].pc = "done"]
  BY DEF SyncStripeSubscription
<1>2. c \in SubCalls /\ c \notin Creates /\ s \in Rows
  BY SubKinds
<1>3. UNCHANGED <<sub, overlapped, revived, ended>>
  BY DEF SyncStripeSubscription
<1>4. CASE sub[s] # "none"
  BY <1>1, <1>2, <1>3, <1>4, ToSaveKeeps
<1>5. CASE sub[s] = "none" /\ status \notin TerminalStatus
  <2> DEFINE u == [Fresh EXCEPT !.pc = "select", !.row = s, !.status = status]
  <2>1. u \in SubCall /\ u.pc = "select" /\ u.row = s /\ u.status = status
    BY <1>2 DEF Fresh, SubCall, SubLabels
  <2>2. call' = [call EXCEPT ![c] = u]
    BY <1>1, <1>5 DEF ToCreate
  <2> HIDE DEF u
  <2>3. MovesTo(c, u)
    BY <1>2, <2>1, <2>2, MovesWhole
  <2>4. status \in LiveStatus \cup {"unpaid"}
    BY <1>5 DEF SubStatus
  <2>5. QED
    BY <1>2, <1>3, <2>1, <2>3, <2>4, QuietKeeps
<1>6. CASE sub[s] = "none" /\ status \in TerminalStatus
  <2> DEFINE u == [call[c] EXCEPT !.pc = "done"]
  <2>1. call[c] \in SubCall
    BY <1>2 DEF SubInv, SubTypeOK, SubCall, SubLabels
  <2>2. u \in SubCall /\ u.pc = "done"
    BY <2>1 DEF SubCall, SubLabels
  <2>3. call' = [call EXCEPT ![c] = u]
    BY <1>1, <1>6
  <2> HIDE DEF u
  <2>4. MovesTo(c, u)
    BY <1>2, <2>2, <2>3, MovesWhole
  <2>5. QED
    BY <1>2, <1>3, <2>2, <2>4, QuietKeeps
<1>7. QED
  BY <1>4, <1>5, <1>6

LEMMA LoadKeeps == ASSUME SubInv, NEW c \in Edits, LoadForEdit(c) PROVE SubInv'
<1>1. PICK r \in Rows, status \in {"past_due", "active", "canceled"} :
        sub[r] # "none" /\ ToSave(c, r, status)
  BY DEF LoadForEdit
<1>2. status \in SubStatus
  BY DEF SubStatus, LiveStatus, TerminalStatus
<1>3. UNCHANGED <<sub, overlapped, revived, ended>>
  BY DEF LoadForEdit
<1>4. QED
  BY <1>1, <1>2, <1>3, ToSaveKeeps, SubKinds

LEMMA FailingKeeps ==
    ASSUME SubInv, NEW c \in SubCalls, CreateFails(c) \/ SaveFails(c)
    PROVE  SubInv'
<1> DEFINE u == [Fresh EXCEPT !.pc = "failed"]
<1>1. u \in SubCall /\ u.pc = "failed"
  BY DEF Fresh, SubCall, SubLabels
<1>2. call' = [call EXCEPT ![c] = u] /\ UNCHANGED <<sub, overlapped, revived, ended>>
  BY DEF CreateFails, SaveFails
<1> HIDE DEF u
<1>3. MovesTo(c, u)
  BY <1>1, <1>2, MovesWhole
<1>4. QED
  BY <1>1, <1>2, <1>3, QuietKeeps

LEMMA SelectKeeps == ASSUME SubInv, NEW c \in SubCalls, Select(c) PROVE SubInv'
<1> DEFINE u == [call[c] EXCEPT !.pc = "lock", !.held = Live]
<1>1. call[c] \in SubCall /\ call[c].pc = "select" /\ call \in [SubCalls -> SubCall]
  BY DEF Select, CAt, SubInv, SubTypeOK, SubCall, SubLabels
<1>2. u \in SubCall /\ u.pc = "lock" /\ u.held = Live /\ u.row = call[c].row /\ u.status = call[c].status
  <2>1. Live \subseteq Rows
    BY DEF Live
  <2>2. QED
    BY <1>1, <2>1 DEF SubCall, SubLabels
<1>3. call' = [call EXCEPT ![c] = u]
  BY <1>1 DEF Select
<1> HIDE DEF u
<1>4. MovesTo(c, u)
  BY <1>2, <1>3, MovesWhole
<1>5. /\ UNCHANGED <<sub, revived, ended>> /\ overlapped' \in BOOLEAN
      /\ ~ overlapped' => ~ overlapped /\ \A d \in SubCalls : d # c => ~ Replacing(d)
  BY DEF Select, Replacing, SubInv, SubTypeOK
<1>6. SubTypeOK'
  BY <1>2, <1>4, <1>5 DEF SubInv, SubTypeOK, MovesTo, SubCall, SubLabels
<1>7. ErrandsOK'
  BY <1>1, <1>2, <1>4, <1>5 DEF SubInv, ErrandsOK, MovesTo
<1>8. \A d \in SubCalls : d # c => (Replacing(d)' <=> Replacing(d))
  BY <1>4 DEF MovesTo, Replacing
<1>9. AloneOK'
  BY <1>5, <1>8 DEF AloneOK
<1>10. Live' = Live
  BY <1>5 DEF Live
<1>11. OneOK'
  BY <1>2, <1>4, <1>5, <1>8, <1>10 DEF SubInv, OneOK, MovesTo
<1>12. PlanSurvives'
  BY <1>5, <1>10 DEF SubInv, PlanSurvives
<1>13. QED
  BY <1>6, <1>7, <1>9, <1>11, <1>12 DEF SubInv

LEMMA LockKeeps == ASSUME SubInv, NEW c \in SubCalls, Lock(c) PROVE SubInv'
<1> DEFINE u == [call[c] EXCEPT !.pc = "insert", !.held = call[c].held \cap Live]
<1>1. call[c] \in SubCall /\ call[c].pc = "lock" /\ call \in [SubCalls -> SubCall]
  BY DEF Lock, CAt, SubInv, SubTypeOK, SubCall, SubLabels
<1>2. /\ u \in SubCall /\ u.pc = "insert" /\ u.held = call[c].held \cap Live
      /\ u.row = call[c].row /\ u.status = call[c].status
  BY <1>1 DEF SubCall, SubLabels
<1>3. call' = [call EXCEPT ![c] = u]
  BY <1>1 DEF Lock
<1> HIDE DEF u
<1>4. MovesTo(c, u)
  BY <1>2, <1>3, MovesWhole
<1>5. UNCHANGED <<sub, overlapped, revived, ended>>
  BY DEF Lock
<1>6. \A d \in SubCalls : d # c /\ call[d].pc = "insert" => call[c].held \cap call[d].held = {}
  BY DEF Lock, LockedByOthers, CAt
<1>7. SubTypeOK'
  <2>1. \A b, d \in SubCalls :
          (b # d /\ call'[b].pc = "insert" /\ call'[d].pc = "insert") => call'[b].held \cap call'[d].held = {}
    BY <1>2, <1>4, <1>6 DEF SubInv, SubTypeOK, MovesTo
  <2>2. QED
    BY <1>4, <1>5, <2>1 DEF SubInv, SubTypeOK, MovesTo, SubCall, SubLabels
<1>8. ErrandsOK'
  BY <1>1, <1>2, <1>4, <1>5 DEF SubInv, ErrandsOK, MovesTo
<1>9. \A d \in SubCalls : Replacing(d)' <=> Replacing(d)
  BY <1>1, <1>2, <1>4 DEF MovesTo, Replacing
<1>10. Live' = Live
  BY <1>5 DEF Live
<1>11. AloneOK' /\ PlanSurvives'
  BY <1>5, <1>9, <1>10 DEF SubInv, AloneOK, PlanSurvives
<1>12. OneOK'
  BY <1>2, <1>4, <1>5, <1>9, <1>10 DEF SubInv, OneOK, MovesTo
<1>13. QED
  BY <1>7, <1>8, <1>11, <1>12 DEF SubInv

LEMMA InsertKeeps == ASSUME SubInv, NEW c \in SubCalls, Insert(c) PROVE SubInv'
<1> DEFINE u == IF c \in Trials
                THEN [Fresh EXCEPT !.pc = "save", !.row = c, !.seen = "active", !.status = "trialing"]
                ELSE [Fresh EXCEPT !.pc = "done"]
<1>1. /\ call[c].pc = "insert" /\ call[c].row \in Rows /\ call[c].status \in LiveStatus \cup {"unpaid"}
      /\ c \in Creates => call[c].row = c
  BY DEF Insert, CAt, SubInv, ErrandsOK
<1>2. /\ u \in SubCall
      /\ u.pc = "save" => u.row = c /\ u.status \in SubStatus /\ c \in Creates
      /\ u.pc \in {"save", "done"}
  BY SubKinds DEF Fresh, SubCall, SubLabels, SubStatus, LiveStatus
<1>3. call' = [call EXCEPT ![c] = u]
  BY DEF Insert, Inserted
<1> HIDE DEF u
<1>4. MovesTo(c, u)
  BY <1>2, <1>3, MovesWhole
<1>5. /\ UNCHANGED <<overlapped, revived>> /\ ended' \in BOOLEAN
      /\ ~ ended' => ~ ended /\ call[c].status # "unpaid"
  BY DEF Insert, SubInv, SubTypeOK
<1>6. /\ sub' \in [Rows -> SubStatus \cup {"none"}]
      /\ \A r \in Rows : sub'[r] = IF r = call[c].row THEN call[c].status
                                   ELSE IF r \in call[c].held THEN "canceled" ELSE sub[r]
  BY <1>1 DEF Insert, SubInv, SubTypeOK, SubStatus, TerminalStatus
<1>7. SubTypeOK'
  BY <1>2, <1>4, <1>5, <1>6 DEF SubInv, SubTypeOK, MovesTo, SubCall, SubLabels
<1>8. \A r \in Rows : (sub[r] # "none" \/ r = call[c].row) => sub'[r] # "none"
  BY <1>1, <1>6 DEF LiveStatus
<1>9. ErrandsOK'
  <2> SUFFICES ASSUME NEW d \in SubCalls
               PROVE  /\ call'[d].pc \in {"select", "lock", "insert"} =>
                             /\ call'[d].row \in Rows /\ call'[d].status \in LiveStatus \cup {"unpaid"}
                             /\ d \in Creates => call'[d].row = d
                      /\ call'[d].pc = "save" =>
                             /\ call'[d].row \in Rows /\ call'[d].status \in SubStatus
                             /\ sub'[call'[d].row] # "none"
    BY DEF ErrandsOK
  <2>1. CASE d = c
    BY <1>1, <1>2, <1>4, <1>8, <2>1 DEF MovesTo
  <2>2. CASE d # c
    BY <1>4, <1>8, <2>2 DEF MovesTo, SubInv, ErrandsOK
  <2>3. QED
    BY <2>1, <2>2
<1>10. \A d \in SubCalls : Replacing(d)' => Replacing(d) /\ d # c /\ call'[d] = call[d]
  BY <1>2, <1>4 DEF MovesTo, Replacing
<1>11. AloneOK'
  BY <1>5, <1>10 DEF SubInv, AloneOK
<1>12. OneOK'
  <2> SUFFICES ASSUME ~ overlapped, ~ revived
               PROVE  /\ \A r, s \in Live' : r = s
                      /\ \A d \in SubCalls : Replacing(d)' => Live' \subseteq call'[d].held
    BY <1>5 DEF OneOK
  <2>1. Replacing(c)
    BY <1>1 DEF Replacing
  <2>2. \A d \in SubCalls : ~ Replacing(d)'
    BY <1>10, <2>1 DEF SubInv, AloneOK
  <2>3. Live \subseteq call[c].held
    BY <2>1 DEF SubInv, OneOK
  <2>4. \A r \in Live' : r = call[c].row
    BY <1>6, <2>3 DEF Live, LiveStatus
  <2>5. QED
    BY <2>2, <2>4
<1>13. PlanSurvives'
  <2>1. ~ ended' => call[c].row \in Live'
    BY <1>1, <1>5, <1>6 DEF Live
  <2>2. QED
    BY <2>1 DEF PlanSurvives
<1>14. QED
  BY <1>7, <1>9, <1>11, <1>12, <1>13 DEF SubInv

LEMMA SaveKeeps == ASSUME SubInv, NEW c \in SubCalls, Save(c) PROVE SubInv'
<1>1. PICK r, status :
        /\ r = call[c].row /\ status = IF call[c].seen = call[c].status THEN sub[r] ELSE call[c].status
        /\ call[c].pc = "save" /\ sub' = [sub EXCEPT ![r] = status]
        /\ revived' = (revived \/ (r \notin Live /\ status \in LiveStatus))
        /\ ended' = (ended \/ (r \in Live /\ status \notin LiveStatus))
        /\ call' = [call EXCEPT ![c] = [Fresh EXCEPT !.pc = "done"]]
        /\ UNCHANGED overlapped
  BY DEF Save, CAt
<1>2. r \in Rows /\ sub[r] # "none" /\ call[c].status \in SubStatus /\ sub[r] \in SubStatus \cup {"none"}
  BY <1>1 DEF SubInv, ErrandsOK, SubTypeOK
<1>3. status \in SubStatus
  BY <1>1, <1>2
<1>4. /\ sub' \in [Rows -> SubStatus \cup {"none"}] /\ sub'[r] = status
      /\ \A s \in Rows : s # r => sub'[s] = sub[s]
  BY <1>1, <1>2, <1>3 DEF SubInv, SubTypeOK
<1> DEFINE u == [Fresh EXCEPT !.pc = "done"]
<1>5. u \in SubCall /\ u.pc = "done" /\ call' = [call EXCEPT ![c] = u]
  BY <1>1 DEF Fresh, SubCall, SubLabels
<1> HIDE DEF u
<1>6. MovesTo(c, u)
  BY <1>5, MovesWhole
<1>7. /\ ~ ended' => ~ ended /\ (r \notin Live \/ status \in LiveStatus)
      /\ ~ revived' => ~ revived /\ (r \in Live \/ status \notin LiveStatus)
      /\ ended' \in BOOLEAN /\ revived' \in BOOLEAN
  BY <1>1 DEF SubInv, SubTypeOK
<1>8. SubTypeOK'
  BY <1>1, <1>4, <1>5, <1>6, <1>7 DEF SubInv, SubTypeOK, MovesTo, SubCall, SubLabels
<1>9. \A s \in Rows : sub[s] # "none" => sub'[s] # "none"
  BY <1>3, <1>4 DEF SubStatus, LiveStatus, TerminalStatus
<1>10. ErrandsOK'
  BY <1>5, <1>6, <1>9 DEF SubInv, ErrandsOK, MovesTo
<1>11. \A d \in SubCalls : Replacing(d)' => Replacing(d) /\ call'[d] = call[d]
  BY <1>5, <1>6 DEF MovesTo, Replacing
<1>12. AloneOK'
  BY <1>1, <1>11 DEF SubInv, AloneOK
<1>13. OneOK'
  <2>1. ~ revived' => Live' \subseteq Live
    BY <1>4, <1>7 DEF Live
  <2>2. QED
    BY <1>1, <1>7, <1>11, <2>1 DEF SubInv, OneOK
<1>14. PlanSurvives'
  <2> SUFFICES ASSUME ~ ended' PROVE Live' # {}
    BY DEF PlanSurvives
  <2>1. Live # {}
    BY <1>2, <1>7 DEF SubInv, PlanSurvives
  <2>2. PICK s \in Rows : sub[s] \in LiveStatus
    BY <2>1 DEF Live
  <2>3. CASE s = r
    BY <1>4, <1>7, <2>2, <2>3 DEF Live
  <2>4. CASE s # r
    BY <1>4, <2>2, <2>4 DEF Live
  <2>5. QED
    BY <2>3, <2>4
<1>15. QED
  BY <1>8, <1>10, <1>12, <1>13, <1>14 DEF SubInv

LEMMA SubNextInv == SubInv /\ [SubNext]_subVars => SubInv'
<1> SUFFICES ASSUME SubInv, [SubNext]_subVars PROVE SubInv'
  OBVIOUS
<1>1. CASE UNCHANGED subVars
  BY <1>1 DEF subVars, SubInv, SubTypeOK, ErrandsOK, AloneOK, OneOK, PlanSurvives, Live, Replacing
<1>2. ASSUME NEW c \in Creates \cup Syncs, Select(c) \/ Lock(c) \/ Insert(c) \/ CreateFails(c) PROVE SubInv'
  BY <1>2, SelectKeeps, LockKeeps, InsertKeeps, FailingKeeps DEF SubCalls
<1>3. ASSUME NEW c \in SubCalls, Save(c) \/ SaveFails(c) PROVE SubInv'
  BY <1>3, SaveKeeps, FailingKeeps
<1>4. QED
  BY <1>1, <1>2, <1>3, CreateKeeps, SyncKeeps, LoadKeeps DEF SubNext

LEMMA SubInvSafe == SubInv => SubscriptionsSafe
<1> SUFFICES ASSUME SubInv PROVE SubscriptionsSafe
  OBVIOUS
<1>1. ASSUME ~ overlapped, ~ revived PROVE Cardinality(Live) <= 1
  <2>1. \A r, s \in Live : r = s
    BY <1>1 DEF SubInv, OneOK
  <2>2. CASE Live = {}
    BY <2>2, FS_EmptySet
  <2>3. CASE Live # {}
    <3>1. PICK r \in Live : TRUE
      BY <2>3
    <3>2. Live = {r}
      BY <2>1, <3>1
    <3>3. Cardinality({r}) = 1
      BY FS_Singleton
    <3>4. QED
      BY <3>2, <3>3
  <2>4. QED
    BY <2>2, <2>3
<1>2. QED
  BY <1>1 DEF SubscriptionsSafe, OneLive, SubInv

(***************************************************************************)
(* An account has one live subscription at most, unless two calls created  *)
(* at once or a row that had ended was written live again; and a change of *)
(* plan that fails leaves it the one it had.                               *)
(***************************************************************************)
THEOREM SubscriptionsAreSafe == SubSpec => []SubscriptionsSafe
<1>1. SubInit => SubInv
  BY SubInitInv
<1>2. SubInv /\ [SubNext]_subVars => SubInv'
  BY SubNextInv
<1>3. SubInv => SubscriptionsSafe
  BY SubInvSafe
<1>4. QED
  BY <1>1, <1>2, <1>3, PTL DEF SubSpec

-----------------------------------------------------------------------------
(* Payments that come in twice *)

PayLabels == {"new", "account", "create", "apply", "mark", "done", "duplicate", "failed"}

Paying(a) == at[a] \in {"account", "create", "apply", "mark"}

PayShapes ==
    /\ marked \subseteq References
    /\ accounts \in Nat
    /\ applied \in [References -> Nat]
    /\ at \in [Attempts -> PayLabels]
    /\ crossed \subseteq References
    /\ rushed \in BOOLEAN

(***************************************************************************)
(* What was marked, or is about to be, was applied.                        *)
(***************************************************************************)
AppliedFirst ==
    /\ \A r \in marked : applied[r] > 0
    /\ \A a \in Attempts : at[a] \in {"mark", "duplicate"} => applied[ReferenceOf[a]] > 0

(***************************************************************************)
(* A payment that was not crossed has one attempt at work, which has not   *)
(* applied it before it marks it; applied, it is marked or being marked.   *)
(***************************************************************************)
OnceOK ==
    \A r \in References \ crossed :
        /\ applied[r] <= 1
        /\ r \in Plans =>
               /\ \A a, b \in Attempts :
                     (Paying(a) /\ Paying(b) /\ ReferenceOf[a] = r /\ ReferenceOf[b] = r) => a = b
               /\ \A a \in Attempts :
                     at[a] \in {"account", "create", "apply"} /\ ReferenceOf[a] = r => applied[r] = 0
               /\ applied[r] > 0 => r \in marked \/ \E a \in Attempts : at[a] = "mark" /\ ReferenceOf[a] = r

AccountOK ==
    ~ rushed =>
        /\ accounts <= 1
        /\ \A a, b \in Attempts : at[a] = "create" /\ at[b] = "create" => a = b
        /\ \A a \in Attempts : at[a] = "create" => accounts = 0

PayInv == PayShapes /\ AppliedFirst /\ (\A r \in References \ Plans : applied[r] <= 1) /\ OnceOK /\ AccountOK

LEMMA PayInitInv == PayInit => PayInv
<1> SUFFICES ASSUME PayInit PROVE PayInv
  OBVIOUS
<1>1. PayShapes
  BY DEF PayInit, PayShapes, PayLabels
<1>2. \A r \in References : applied[r] = 0
  BY DEF PayInit
<1>3. \A a \in Attempts : at[a] = "new"
  BY DEF PayInit
<1>4. marked = {} /\ accounts = 0
  BY DEF PayInit
<1>5. QED
  BY <1>1, <1>2, <1>3, <1>4 DEF PayInv, AppliedFirst, OnceOK, AccountOK, Paying

LEMMA PayMoves ==
    ASSUME PayInv, NEW a \in Attempts, NEW label \in PayLabels, PGoto(a, label)
    PROVE  /\ at' \in [Attempts -> PayLabels]
           /\ at'[a] = label
           /\ \A b \in Attempts : b # a => at'[b] = at[b]
           /\ ReferenceOf[a] \in References
  BY PaymentsAssumption DEF PayInv, PayShapes, PGoto

LEMMA DedupKeeps == ASSUME PayInv, NEW a \in Attempts, CheckDedup(a) PROVE PayInv'
<1> DEFINE r == ReferenceOf[a]
           label == IF r \in marked THEN "duplicate" ELSE "account"
<1>1. /\ at[a] = "new" /\ PGoto(a, label) /\ label \in PayLabels
      /\ UNCHANGED <<marked, accounts, applied, rushed>>
  BY DEF CheckDedup, PayLabels
<1>2. /\ crossed \subseteq crossed' /\ crossed' \subseteq crossed \cup {r}
      /\ (\E b \in Attempts : b # a /\ Paying(b) /\ ReferenceOf[b] = r) => r \in crossed'
  BY DEF CheckDedup, Others, Paying
<1>3. /\ at' \in [Attempts -> PayLabels] /\ at'[a] = label /\ r \in References
      /\ \A b \in Attempts : b # a => at'[b] = at[b]
  BY <1>1, PayMoves
<1>4. label = "duplicate" => applied[r] > 0
  BY DEF PayInv, AppliedFirst
<1>5. label # "duplicate" => label = "account" /\ r \notin marked
  OBVIOUS
<1> HIDE DEF label
<1>6. PayShapes'
  BY <1>1, <1>2, <1>3 DEF PayInv, PayShapes
<1>7. AppliedFirst'
  BY <1>1, <1>3, <1>4, <1>5 DEF PayInv, AppliedFirst
<1>8. OnceOK'
  <2> SUFFICES ASSUME NEW s \in References, s \notin crossed'
               PROVE  /\ applied[s] <= 1
                      /\ s \in Plans =>
                           /\ \A b, c \in Attempts :
                                 (Paying(b)' /\ Paying(c)' /\ ReferenceOf[b] = s /\ ReferenceOf[c] = s) => b = c
                           /\ \A b \in Attempts :
                                 at'[b] \in {"account", "create", "apply"} /\ ReferenceOf[b] = s => applied[s] = 0
                           /\ applied[s] > 0 =>
                                 s \in marked \/ \E b \in Attempts : at'[b] = "mark" /\ ReferenceOf[b] = s
    BY <1>1 DEF OnceOK
  <2>1. s \notin crossed
    BY <1>2
  <2>2. \A b \in Attempts : at[b] = "mark" => at'[b] = "mark"
    BY <1>1, <1>3
  <2>3. CASE s # r
    BY <1>3, <2>1, <2>2, <2>3 DEF PayInv, OnceOK, Paying
  <2>4. CASE s = r
    <3>1. \A b \in Attempts : b # a /\ ReferenceOf[b] = r => ~ Paying(b)
      BY <1>2, <2>4
    <3>2. \A b \in Attempts : b # a /\ ReferenceOf[b] = r => ~ Paying(b)'
      BY <1>3, <3>1 DEF Paying
    <3>3. CASE label = "duplicate"
      BY <1>3, <2>1, <2>2, <2>4, <3>2, <3>3 DEF PayInv, OnceOK, Paying
    <3>4. CASE label # "duplicate"
      <4>1. applied[r] \in Nat
        BY <1>3 DEF PayInv, PayShapes
      <4>2. r \in Plans => applied[r] = 0
        BY <1>1, <1>3, <1>5, <2>1, <2>4, <3>1, <3>4, <4>1 DEF PayInv, OnceOK, Paying
      <4>3. QED
        BY <1>3, <2>1, <2>2, <2>4, <3>2, <4>2 DEF PayInv, OnceOK
    <3>5. QED
      BY <3>3, <3>4
  <2>5. QED
    BY <2>3, <2>4
<1>9. AccountOK'
  BY <1>1, <1>3, <1>5 DEF PayInv, AccountOK
<1>10. QED
  BY <1>1, <1>6, <1>7, <1>8, <1>9 DEF PayInv

(***************************************************************************)
(* An attempt looks for the account, or creates it.                        *)
(***************************************************************************)
LEMMA AccountStepKeeps ==
    ASSUME PayInv, NEW a \in Attempts, at[a] \in {"account", "create"},
           NEW label \in {"create", "apply", "failed"}, PGoto(a, label),
           UNCHANGED <<marked, applied, crossed>>, accounts' \in Nat, rushed' \in BOOLEAN, AccountOK'
    PROVE  PayInv'
<1>1. label \in PayLabels
  BY DEF PayLabels
<1>2. /\ at' \in [Attempts -> PayLabels] /\ at'[a] = label
      /\ \A b \in Attempts : b # a => at'[b] = at[b]
  BY <1>1, PayMoves
<1>3. PayShapes' /\ AppliedFirst'
  BY <1>2 DEF PayInv, PayShapes, AppliedFirst
<1>4. \A b \in Attempts :
        /\ Paying(b)' => Paying(b)
        /\ at'[b] \in {"account", "create", "apply"} => at[b] \in {"account", "create", "apply"}
        /\ at[b] = "mark" => at'[b] = "mark"
  BY <1>2 DEF Paying
<1>5. OnceOK'
  BY <1>4 DEF PayInv, OnceOK
<1>6. QED
  BY <1>3, <1>5 DEF PayInv

LEMMA FindKeeps == ASSUME PayInv, NEW a \in Attempts, FindAccount(a) PROVE PayInv'
<1>1. PICK label \in {"create", "apply", "failed"} :
        /\ PGoto(a, label) /\ (label = "create" <=> accounts = 0)
  BY DEF FindAccount
<1>2. /\ at[a] = "account" /\ UNCHANGED <<marked, accounts, applied, crossed>>
      /\ accounts \in Nat /\ rushed' \in BOOLEAN
      /\ ~ rushed' => ~ rushed /\ (accounts = 0 => \A b \in Attempts : at[b] # "create")
  BY DEF FindAccount, PayInv, PayShapes
<1>3. /\ at'[a] = label /\ \A b \in Attempts : b # a => at'[b] = at[b]
  BY <1>1, PayMoves DEF PayLabels
<1>4. AccountOK'
  BY <1>1, <1>2, <1>3 DEF PayInv, AccountOK
<1>5. QED
  BY <1>1, <1>2, <1>4, AccountStepKeeps

LEMMA CreateAccountKeeps == ASSUME PayInv, NEW a \in Attempts, CreateAccount(a) PROVE PayInv'
<1>1. /\ at[a] = "create" /\ PGoto(a, "apply") /\ UNCHANGED <<marked, applied, crossed, rushed>>
      /\ accounts \in Nat /\ accounts' = accounts + 1 /\ rushed' \in BOOLEAN
  BY DEF CreateAccount, PayInv, PayShapes
<1>2. /\ at'[a] = "apply" /\ \A b \in Attempts : b # a => at'[b] = at[b]
  BY <1>1, PayMoves DEF PayLabels
<1>3. AccountOK'
  BY <1>1, <1>2 DEF PayInv, AccountOK
<1>4. QED
  BY <1>1, <1>3, AccountStepKeeps

LEMMA ApplyKeeps == ASSUME PayInv, NEW a \in Attempts, ApplyPayment(a) PROVE PayInv'
<1> DEFINE r == ReferenceOf[a]
<1>1. /\ at[a] = "apply" /\ PGoto(a, "mark") /\ "mark" \in PayLabels
      /\ UNCHANGED <<marked, accounts, crossed, rushed>>
  BY DEF ApplyPayment, PayLabels
<1>2. /\ at' \in [Attempts -> PayLabels] /\ at'[a] = "mark" /\ r \in References
      /\ \A b \in Attempts : b # a => at'[b] = at[b]
  BY <1>1, PayMoves
<1>3. /\ applied[r] \in Nat /\ applied' \in [References -> Nat]
      /\ applied'[r] = IF r \in Plans THEN applied[r] + 1 ELSE 1
      /\ \A s \in References : s # r => applied'[s] = applied[s]
  BY <1>2 DEF ApplyPayment, PayInv, PayShapes
<1>4. applied'[r] > 0
  BY <1>3
<1>5. PayShapes'
  BY <1>1, <1>2, <1>3 DEF PayInv, PayShapes
<1>6. \A s \in References : applied[s] > 0 => applied'[s] > 0
  BY <1>3, <1>4
<1>7. AppliedFirst'
  <2>1. marked \subseteq References /\ \A b \in Attempts : ReferenceOf[b] \in References
    BY PaymentsAssumption DEF PayInv, PayShapes
  <2>2. QED
    BY <1>1, <1>2, <1>4, <1>6, <2>1 DEF PayInv, AppliedFirst
<1>8. \A s \in References \ Plans : applied'[s] <= 1
  BY <1>3 DEF PayInv
<1>9. OnceOK'
  <2> SUFFICES ASSUME NEW s \in References, s \notin crossed
               PROVE  /\ applied'[s] <= 1
                      /\ s \in Plans =>
                           /\ \A b, c \in Attempts :
                                 (Paying(b)' /\ Paying(c)' /\ ReferenceOf[b] = s /\ ReferenceOf[c] = s) => b = c
                           /\ \A b \in Attempts :
                                 at'[b] \in {"account", "create", "apply"} /\ ReferenceOf[b] = s => applied'[s] = 0
                           /\ applied'[s] > 0 =>
                                 s \in marked \/ \E b \in Attempts : at'[b] = "mark" /\ ReferenceOf[b] = s
    BY <1>1 DEF OnceOK
  <2>1. \A b \in Attempts : Paying(b)' => Paying(b)
    BY <1>1, <1>2 DEF Paying
  <2>2. CASE s # r
    BY <1>1, <1>2, <1>3, <2>1, <2>2 DEF PayInv, OnceOK
  <2>3. CASE s = r
    <3>1. applied'[r] <= 1
      BY <1>1, <1>2, <1>3, <2>3 DEF PayInv, OnceOK
    <3>2. r \in Plans => \A b \in Attempts : ReferenceOf[b] = r /\ Paying(b) => b = a
      BY <1>1, <1>2, <2>3 DEF PayInv, OnceOK, Paying
    <3>3. r \in Plans => \A b \in Attempts : ~ (at'[b] \in {"account", "create", "apply"} /\ ReferenceOf[b] = r)
      BY <1>2, <2>1, <3>2 DEF Paying
    <3>4. QED
      BY <1>2, <2>1, <2>3, <3>1, <3>2, <3>3
  <2>4. QED
    BY <2>2, <2>3
<1>10. AccountOK'
  BY <1>1, <1>2 DEF PayInv, AccountOK
<1>11. QED
  BY <1>5, <1>7, <1>8, <1>9, <1>10 DEF PayInv

LEMMA MarkingKeeps == ASSUME PayInv, NEW a \in Attempts, SetDedup(a) PROVE PayInv'
<1>1. /\ at[a] = "mark" /\ PGoto(a, "done") /\ "done" \in PayLabels
      /\ marked' = marked \cup {ReferenceOf[a]}
      /\ UNCHANGED <<accounts, applied, crossed, rushed>>
  BY DEF SetDedup, PayLabels
<1>2. /\ at' \in [Attempts -> PayLabels] /\ at'[a] = "done" /\ ReferenceOf[a] \in References
      /\ \A b \in Attempts : b # a => at'[b] = at[b]
  BY <1>1, PayMoves
<1>3. PayShapes' /\ AppliedFirst' /\ AccountOK'
  BY <1>1, <1>2 DEF PayInv, PayShapes, AppliedFirst, AccountOK
<1>4. \A b \in Attempts :
        /\ Paying(b)' => Paying(b)
        /\ at'[b] \in {"account", "create", "apply"} => at[b] \in {"account", "create", "apply"}
        /\ at[b] = "mark" => at'[b] = "mark" \/ ReferenceOf[b] \in marked'
  BY <1>1, <1>2 DEF Paying
<1>5. OnceOK'
  BY <1>1, <1>4 DEF PayInv, OnceOK
<1>6. QED
  BY <1>1, <1>3, <1>5 DEF PayInv

LEMMA AttemptFailsKeeps == ASSUME PayInv, NEW a \in Attempts, AttemptFails(a) PROVE PayInv'
<1>1. /\ Paying(a) /\ PGoto(a, "failed") /\ "failed" \in PayLabels
      /\ crossed \subseteq crossed' /\ crossed' \subseteq crossed \cup {ReferenceOf[a]}
      /\ at[a] = "mark" => ReferenceOf[a] \in crossed'
      /\ UNCHANGED <<marked, accounts, applied, rushed>>
  BY DEF AttemptFails, PayLabels, Paying
<1>2. /\ at' \in [Attempts -> PayLabels] /\ at'[a] = "failed" /\ ReferenceOf[a] \in References
      /\ \A b \in Attempts : b # a => at'[b] = at[b]
  BY <1>1, PayMoves
<1>3. PayShapes' /\ AppliedFirst' /\ AccountOK'
  BY <1>1, <1>2 DEF PayInv, PayShapes, AppliedFirst, AccountOK
<1>4. \A b \in Attempts :
        /\ Paying(b)' => Paying(b)
        /\ at'[b] \in {"account", "create", "apply"} => at[b] \in {"account", "create", "apply"}
        /\ at[b] = "mark" => at'[b] = "mark" \/ ReferenceOf[b] \in crossed'
  BY <1>1, <1>2 DEF Paying
<1>5. OnceOK'
  BY <1>1, <1>4 DEF PayInv, OnceOK
<1>6. QED
  BY <1>1, <1>3, <1>5 DEF PayInv

LEMMA PayNextInv == PayInv /\ [PayNext]_payVars => PayInv'
<1> SUFFICES ASSUME PayInv, [PayNext]_payVars PROVE PayInv'
  OBVIOUS
<1>1. CASE UNCHANGED payVars
  BY <1>1 DEF payVars, PayInv, PayShapes, AppliedFirst, OnceOK, AccountOK, Paying
<1>2. ASSUME NEW r \in References, DedupExpires(r) PROVE PayInv'
  <2>1. /\ marked' = marked \ {r} /\ crossed' = crossed \cup {r} /\ UNCHANGED <<accounts, applied, at, rushed>>
    BY <1>2 DEF DedupExpires
  <2>2. QED
    BY <2>1 DEF PayInv, PayShapes, AppliedFirst, OnceOK, AccountOK, Paying
<1>3. ASSUME NEW a \in Attempts,
             CheckDedup(a) \/ FindAccount(a) \/ CreateAccount(a) \/ ApplyPayment(a) \/ SetDedup(a) \/ AttemptFails(a)
      PROVE  PayInv'
  BY <1>3, DedupKeeps, FindKeeps, CreateAccountKeeps, ApplyKeeps, MarkingKeeps, AttemptFailsKeeps
<1>4. QED
  BY <1>1, <1>2, <1>3 DEF PayNext

LEMMA PayInvSafe == PayInv => PaymentsSafe
  BY DEF PayInv, AppliedFirst, OnceOK, AccountOK, PaymentsSafe, MarkedWasApplied, AppliedOnce, OneAccount

-----------------------------------------------------------------------------
(* Stripe events *)

EventLabels == {"new", "record", "key", "process", "done", "duplicate", "failed"}

AtWork(d) == delivering[d] \in {"record", "key", "process"}

EventShapes ==
    /\ keeping \subseteq {"table", "redis"}
    /\ recorded \in Nat /\ processed \in Nat
    /\ delivering \in [Deliveries -> EventLabels]
    /\ hasty \in BOOLEAN

(***************************************************************************)
(* A delivery notes the event where the handler keeps events.              *)
(***************************************************************************)
PlacesOK ==
    \A d \in Deliveries :
        /\ delivering[d] = "record" => "table" \in keeping
        /\ delivering[d] = "key" => "redis" \in keeping

(***************************************************************************)
(* While the event is young one delivery at most is at work on it; it is   *)
(* noted from the first place on; and once it was processed nobody is.     *)
(***************************************************************************)
YoungOK ==
    keeping # {} /\ ~ hasty /\ eventAge = "new" =>
        /\ \A d, e \in Deliveries : AtWork(d) /\ AtWork(e) => d = e
        /\ \A d \in Deliveries : AtWork(d) => delivering[d] = FirstNote \/ Known
        /\ processed > 0 => Known /\ \A d \in Deliveries : ~ AtWork(d)

EventInv == EventShapes /\ PlacesOK /\ YoungOK /\ EventOnce

LEMMA EventInitInv == EventInit => EventInv
<1> SUFFICES ASSUME EventInit PROVE EventInv
  OBVIOUS
<1>1. \A d \in Deliveries : delivering[d] = "new"
  BY DEF EventInit
<1>2. recorded = 0 /\ processed = 0 /\ hasty = FALSE
  BY DEF EventInit
<1>3. EventShapes
  <2>1. delivering \in [Deliveries -> EventLabels]
    BY DEF EventInit, EventLabels
  <2>2. hasty \in BOOLEAN
    BY <1>2
  <2>3. recorded \in Nat /\ processed \in Nat
    BY <1>2
  <2>4. keeping \subseteq {"table", "redis"}
    BY DEF EventInit
  <2>5. QED
    BY <2>1, <2>2, <2>3, <2>4 DEF EventShapes
<1>4. PlacesOK /\ YoungOK /\ EventOnce
  BY <1>1, <1>2 DEF PlacesOK, YoungOK, EventOnce, AtWork
<1>5. QED
  BY <1>3, <1>4 DEF EventInv

LEMMA EventNextInv == EventInv /\ [EventNext]_eventVars => EventInv'
<1> SUFFICES ASSUME EventInv, [EventNext]_eventVars PROVE EventInv'
  OBVIOUS
<1> USE DEF EventInv
<1>1. CASE UNCHANGED eventVars
  BY <1>1 DEF eventVars, EventShapes, PlacesOK, YoungOK, EventOnce, AtWork, FirstNote, Known
<1>2. ASSUME NEW d \in Deliveries, NEW label \in EventLabels, Moves(d, label)
      PROVE  /\ delivering' \in [Deliveries -> EventLabels] /\ delivering'[d] = label
             /\ \A e \in Deliveries : e # d => delivering'[e] = delivering[e]
  BY <1>2 DEF EventShapes, Moves
<1>a. UNCHANGED keeping => FirstNote' = FirstNote
  BY DEF FirstNote
<1>3. ASSUME NEW d \in Deliveries, CheckEvent(d) PROVE EventInv'
  <2>1. PICK label \in EventLabels :
            /\ Moves(d, label)
            /\ label = "duplicate" \/ (label = FirstNote /\ ~ Known)
    <3>1. FirstNote \in EventLabels /\ "duplicate" \in EventLabels
      BY DEF FirstNote, EventLabels
    <3>2. QED
      BY <1>3, <3>1 DEF CheckEvent
  <2>2. /\ delivering' \in [Deliveries -> EventLabels] /\ delivering'[d] = label
        /\ \A e \in Deliveries : e # d => delivering'[e] = delivering[e]
    BY <1>2, <2>1
  <2>3. /\ delivering[d] = "new" /\ UNCHANGED <<keeping, eventAge, keyed, recorded, processed>>
        /\ hasty' = (hasty \/ \E e \in Deliveries : delivering[e] = FirstNote)
    BY <1>3 DEF CheckEvent
  <2>4. hasty' \in BOOLEAN /\ (~ hasty' => ~ hasty /\ \A e \in Deliveries : delivering[e] # FirstNote)
    BY <2>3 DEF EventShapes
  <2>5. EventShapes' /\ EventOnce'
    BY <2>2, <2>3, <2>4 DEF EventShapes, EventOnce
  <2>6. PlacesOK'
    <3>1. /\ label = "record" => "table" \in keeping
          /\ label = "key" => "redis" \in keeping
      BY <2>1 DEF FirstNote
    <3>2. QED
      BY <2>2, <2>3, <3>1 DEF PlacesOK
  <2>7. YoungOK'
    <3>1. Known' = Known /\ FirstNote' = FirstNote
      BY <2>3 DEF Known, FirstNote
    <3>2. \A e \in Deliveries : e # d => (AtWork(e)' <=> AtWork(e))
      BY <2>2 DEF AtWork
    <3> SUFFICES ASSUME keeping # {}, ~ hasty', eventAge = "new"
                 PROVE  /\ \A e, f \in Deliveries : AtWork(e)' /\ AtWork(f)' => e = f
                        /\ \A e \in Deliveries : AtWork(e)' => delivering'[e] = FirstNote \/ Known
                        /\ processed > 0 => Known /\ \A e \in Deliveries : ~ AtWork(e)'
      BY <2>3, <3>1 DEF YoungOK
    <3>3. CASE label = "duplicate"
      <4>1. ~ AtWork(d)'
        BY <2>2, <3>3 DEF AtWork
      <4>2. QED
        BY <2>2, <2>4, <3>2, <4>1 DEF YoungOK
    <3>4. CASE label = FirstNote /\ ~ Known
      <4>1. ~ (processed > 0) /\ \A e \in Deliveries : ~ AtWork(e)
        BY <2>4, <3>4 DEF YoungOK
      <4>2. \A e \in Deliveries : AtWork(e)' => e = d
        BY <3>2, <4>1
      <4>3. QED
        BY <2>2, <3>4, <4>1, <4>2
    <3>5. QED
      BY <2>1, <3>3, <3>4
  <2>8. QED
    BY <2>5, <2>6, <2>7
<1>4. ASSUME NEW d \in Deliveries, RecordEvent(d) \/ SetKey(d) PROVE EventInv'
  <2>1. PICK label \in {"key", "process"} : Moves(d, label) /\ (label = "key" => "redis" \in keeping)
    BY <1>4 DEF RecordEvent, SetKey
  <2>2. /\ delivering' \in [Deliveries -> EventLabels] /\ delivering'[d] = label
        /\ \A e \in Deliveries : e # d => delivering'[e] = delivering[e]
    BY <1>2, <2>1 DEF EventLabels
  <2>3. /\ delivering[d] \in {"record", "key"} /\ recorded' \in Nat
        /\ UNCHANGED <<keeping, eventAge, processed, hasty>>
    BY <1>4 DEF RecordEvent, SetKey, EventShapes
  <2>4. Known'
    BY <1>4 DEF RecordEvent, SetKey, Known, PlacesOK, EventShapes
  <2>5. EventShapes' /\ PlacesOK' /\ EventOnce'
    BY <2>1, <2>2, <2>3 DEF EventShapes, PlacesOK, EventOnce
  <2>6. YoungOK'
    <3>1. AtWork(d) /\ \A e \in Deliveries : e # d => (AtWork(e)' <=> AtWork(e))
      BY <2>2, <2>3 DEF AtWork
    <3>2. QED
      BY <2>3, <2>4, <3>1 DEF YoungOK
  <2>7. QED
    BY <2>5, <2>6
<1>5. ASSUME NEW d \in Deliveries, ProcessEvent(d) PROVE EventInv'
  <2>1. PICK label \in {"done", "failed"} :
          /\ Moves(d, label)
          /\ label = "done" => eventAge = "new" /\ processed' = processed + 1
          /\ label = "failed" => processed' = processed
    BY <1>5 DEF ProcessEvent
  <2>2. /\ delivering' \in [Deliveries -> EventLabels] /\ delivering'[d] = label
        /\ \A e \in Deliveries : e # d => delivering'[e] = delivering[e]
    BY <1>2, <2>1 DEF EventLabels
  <2>3. delivering[d] = "process" /\ UNCHANGED <<keeping, eventAge, keyed, recorded, hasty>>
    BY <1>5 DEF ProcessEvent
  <2>4. EventShapes' /\ PlacesOK'
    BY <2>1, <2>2, <2>3 DEF EventShapes, PlacesOK
  <2>5. keeping # {} => FirstNote # "process"
    BY DEF FirstNote, EventShapes
  <2>6. keeping # {} /\ ~ hasty /\ eventAge = "new" =>
            processed = 0 /\ Known /\ \A e \in Deliveries : e # d => ~ AtWork(e)
    BY <2>3, <2>5 DEF YoungOK, AtWork, EventShapes
  <2>7. EventOnce'
    BY <2>1, <2>3, <2>6 DEF EventOnce
  <2>8. YoungOK'
    <3>1. Known' = Known
      BY <2>3 DEF Known
    <3>2. ~ AtWork(d)' /\ \A e \in Deliveries : e # d => (AtWork(e)' <=> AtWork(e))
      BY <2>2 DEF AtWork
    <3>3. QED
      BY <2>3, <2>6, <3>1, <3>2 DEF YoungOK
  <2>9. QED
    BY <2>4, <2>7, <2>8
<1>6. ASSUME NEW d \in Deliveries, DeliveryDies(d) PROVE EventInv'
  <2>1. /\ delivering' \in [Deliveries -> EventLabels] /\ delivering'[d] = "failed"
        /\ \A e \in Deliveries : e # d => delivering'[e] = delivering[e]
    BY <1>2, <1>6 DEF DeliveryDies, EventLabels
  <2>2. UNCHANGED <<keeping, eventAge, keyed, recorded, processed, hasty>>
    BY <1>6 DEF DeliveryDies
  <2>3. EventShapes' /\ PlacesOK' /\ EventOnce'
    BY <2>1, <2>2 DEF EventShapes, PlacesOK, EventOnce
  <2>4. YoungOK'
    <3>1. Known' = Known /\ FirstNote' = FirstNote
      BY <2>2 DEF Known, FirstNote
    <3>2. ~ AtWork(d)' /\ \A e \in Deliveries : e # d => (AtWork(e)' <=> AtWork(e))
      BY <2>1 DEF AtWork
    <3>3. QED
      BY <2>1, <2>2, <3>1, <3>2 DEF YoungOK
  <2>5. QED
    BY <2>3, <2>4
<1>7. CASE EventAges
  <2>1. eventAge' # "new" /\ UNCHANGED <<keeping, keyed, recorded, processed, delivering, hasty>>
    BY <1>7 DEF EventAges
  <2>2. QED
    BY <2>1 DEF EventShapes, PlacesOK, YoungOK, EventOnce
<1>8. CASE KeyExpires \/ CleanupExpired
  <2>1. /\ eventAge' # "new" /\ UNCHANGED <<keeping, eventAge, processed, delivering, hasty>>
        /\ recorded' \in Nat
    BY <1>8 DEF KeyExpires, CleanupExpired, EventShapes
  <2>2. QED
    BY <2>1 DEF EventShapes, PlacesOK, YoungOK, EventOnce
<1>9. QED
  BY <1>1, <1>3, <1>4, <1>5, <1>6, <1>7, <1>8 DEF EventNext

LEMMA EventInvSafe == EventInv => EventOnce
  BY DEF EventInv

-----------------------------------------------------------------------------
(* Adjustments under dual control *)

ReviewCall == [pc: {"new", "save", "execute", "close", "done", "refused", "failed"}, admin: Admins]

AdjRequest == [status: {"none", "proposed", "approved", "rejected", "executed"},
               proposer: Admins, approver: Admins \cup {"none"}]

AtDecision(q) == review[q].pc \in {"save", "execute", "close"}

(***************************************************************************)
(* Whoever decides came after the proposal and did not make it; an         *)
(* approval at work has left its mark on the row.                          *)
(***************************************************************************)
DecidersOK ==
    /\ request.status = "none" => ~ paid /\ \A q \in Reviews : review[q].pc = "new"
    /\ \A q \in Approving : AtDecision(q) => review[q].admin # request.proposer
    /\ \A q \in Reviews : review[q].pc \in {"execute", "close"} => request.status \notin {"none", "proposed"}
    /\ \A q \in Reviews \ Approving : review[q].pc \notin {"execute", "close"}

(***************************************************************************)
(* Until two calls read the row as proposed, one at most decides, and the  *)
(* row and the ledger say how far it has come.                             *)
(***************************************************************************)
UncontendedOK ==
    ~ contended =>
        /\ \A p, q \in Reviews : AtDecision(p) /\ AtDecision(q) => p = q
        /\ \A q \in Reviews : review[q].pc = "save" => request.status = "proposed"
        /\ request.status \in {"proposed", "rejected"} => ~ paid
        /\ request.status \notin {"none", "proposed", "rejected"} => request.approver # request.proposer
        /\ \A q \in Reviews : review[q].pc \in {"execute", "close"} => request.status = "approved"

AdjInv == AdjTypeOK /\ DecidersOK /\ UncontendedOK /\ ApprovedMovesOn

LEMMA AdjInitInv == AdjInit => AdjInv
<1> SUFFICES ASSUME AdjInit PROVE AdjInv
  OBVIOUS
<1>1. request \in AdjRequest /\ request.status = "none" /\ request.approver = "none"
  BY DEF AdjInit, AdjRequest
<1>2. review \in [Reviews -> ReviewCall] /\ \A q \in Reviews : review[q].pc = "new"
  BY DEF AdjInit, ReviewCall
<1>3. paid = FALSE /\ contended = FALSE /\ broken = FALSE
  BY DEF AdjInit
<1>4. paid \in BOOLEAN /\ contended \in BOOLEAN /\ broken \in BOOLEAN
  BY <1>3
<1>5. AdjTypeOK
  BY <1>1, <1>2, <1>4 DEF AdjTypeOK, AdjRequest, ReviewCall
<1>6. DecidersOK /\ UncontendedOK /\ ApprovedMovesOn
  BY <1>1, <1>2, <1>3, AdjustmentsAssumption DEF DecidersOK, UncontendedOK, ApprovedMovesOn, AtDecision
<1>7. QED
  BY <1>5, <1>6 DEF AdjInv

(***************************************************************************)
(* A review moves on, with the admin it has.                               *)
(***************************************************************************)
ReviewAt(q, label) ==
    /\ review' \in [Reviews -> ReviewCall]
    /\ review'[q].pc = label /\ review'[q].admin = review[q].admin
    /\ \A p \in Reviews : p # q => review'[p] = review[p]

LEMMA ReviewMoves ==
    ASSUME AdjInv, NEW q \in Reviews,
           NEW label \in {"save", "execute", "close", "done", "refused", "failed"}, RGoto(q, label)
    PROVE  ReviewAt(q, label)
<1> DEFINE u == [review[q] EXCEPT !.pc = label]
<1>1. review \in [Reviews -> ReviewCall] /\ review' = [review EXCEPT ![q] = u]
  BY DEF AdjInv, AdjTypeOK, ReviewCall, RGoto
<1>2. review[q] \in ReviewCall
  BY <1>1
<1>3. u \in ReviewCall /\ u.pc = label /\ u.admin = review[q].admin
  BY <1>2 DEF ReviewCall
<1> HIDE DEF u
<1>4. QED
  BY <1>1, <1>3 DEF ReviewAt

LEMMA RequestShape ==
    ASSUME AdjInv
    PROVE  /\ request \in AdjRequest /\ paid \in BOOLEAN /\ contended \in BOOLEAN /\ broken \in BOOLEAN
           /\ request.status \in {"none", "proposed"} <=> request.approver = "none"
  BY DEF AdjInv, AdjTypeOK, AdjRequest

LEMMA ProposeKeeps == ASSUME AdjInv, Propose PROVE AdjInv'
<1>1. /\ request.status = "none" /\ request' = [request EXCEPT !.status = "proposed"]
      /\ UNCHANGED <<review, paid, contended, broken>>
  BY DEF Propose
<1>2. /\ request' \in AdjRequest /\ request'.status = "proposed" /\ request'.approver = request.approver
      /\ request'.proposer = request.proposer /\ request.approver = "none"
  BY <1>1, RequestShape DEF AdjRequest
<1>3. ~ paid /\ \A q \in Reviews : review[q].pc = "new"
  BY <1>1 DEF AdjInv, DecidersOK
<1>4. AdjTypeOK'
  BY <1>1, <1>2 DEF AdjInv, AdjTypeOK, AdjRequest
<1>5. DecidersOK' /\ UncontendedOK' /\ ApprovedMovesOn'
  BY <1>1, <1>2, <1>3, AdjustmentsAssumption DEF DecidersOK, UncontendedOK, ApprovedMovesOn, AtDecision
<1>6. QED
  BY <1>4, <1>5 DEF AdjInv

LEMMA LoadKeepsReview == ASSUME AdjInv, NEW q \in Reviews, Load(q) PROVE AdjInv'
<1>1. PICK label \in {"save", "refused"} :
        /\ RGoto(q, label)
        /\ label = "save" => /\ request.status = "proposed"
                             /\ q \in Approving => review[q].admin # request.proposer
  BY DEF Load
<1>2. /\ review[q].pc = "new" /\ request.status # "none" /\ UNCHANGED <<request, paid, broken>>
      /\ contended' \in BOOLEAN
      /\ ~ contended' => ~ contended /\ \A p \in Reviews : review[p].pc # "save"
  BY RequestShape DEF Load
<1>3. ReviewAt(q, label)
  BY <1>1, ReviewMoves
<1>4. AdjTypeOK'
  BY <1>2, <1>3 DEF AdjInv, AdjTypeOK, ReviewAt, ReviewCall
<1>5. DecidersOK'
  BY <1>1, <1>2, <1>3, AdjustmentsAssumption DEF AdjInv, DecidersOK, ReviewAt, AtDecision
<1>6. UncontendedOK'
  <2> SUFFICES ASSUME ~ contended'
               PROVE  /\ \A p, r \in Reviews : AtDecision(p)' /\ AtDecision(r)' => p = r
                      /\ \A p \in Reviews : review'[p].pc = "save" => request.status = "proposed"
                      /\ request.status \in {"proposed", "rejected"} => ~ paid
                      /\ request.status \notin {"none", "proposed", "rejected"} =>
                             request.approver # request.proposer
                      /\ \A p \in Reviews : review'[p].pc \in {"execute", "close"} => request.status = "approved"
    BY <1>2 DEF UncontendedOK
  <2>1. label = "save" => \A p \in Reviews : ~ AtDecision(p)
    BY <1>1, <1>2 DEF AdjInv, DecidersOK, AtDecision
  <2>2. \A p, r \in Reviews : AtDecision(p)' /\ AtDecision(r)' => p = r
    BY <1>2, <1>3, <2>1 DEF AdjInv, UncontendedOK, ReviewAt, AtDecision
  <2>3. \A p \in Reviews : review'[p].pc = "save" => request.status = "proposed"
    BY <1>1, <1>2, <1>3 DEF AdjInv, UncontendedOK, ReviewAt
  <2>4. \A p \in Reviews : review'[p].pc \in {"execute", "close"} => request.status = "approved"
    BY <1>1, <1>2, <1>3 DEF AdjInv, UncontendedOK, ReviewAt
  <2>5. QED
    BY <1>2, <2>2, <2>3, <2>4 DEF AdjInv, UncontendedOK
<1>7. ApprovedMovesOn'
  BY <1>2, <1>3, AdjustmentsAssumption DEF AdjInv, ApprovedMovesOn, ReviewAt
<1>8. QED
  BY <1>4, <1>5, <1>6, <1>7 DEF AdjInv

LEMMA ApproveKeeps == ASSUME AdjInv, NEW q \in Approving, Approve(q) PROVE AdjInv'
<1>1. /\ review[q].pc = "save" /\ RGoto(q, "execute") /\ UNCHANGED <<paid, contended, broken>> /\ q \in Reviews
      /\ request' = [request EXCEPT !.status = "approved", !.approver = review[q].admin]
  BY AdjustmentsAssumption DEF Approve
<1>2. ReviewAt(q, "execute")
  BY <1>1, ReviewMoves
<1>3. review[q].admin \in Admins /\ review[q].admin # "none"
  BY <1>1, AdjustmentsAssumption DEF AdjInv, AdjTypeOK
<1>4. /\ request' \in AdjRequest /\ request'.status = "approved" /\ request'.approver = review[q].admin
      /\ request'.proposer = request.proposer
  BY <1>1, <1>3, RequestShape DEF AdjRequest
<1>5. AdjTypeOK'
  BY <1>1, <1>2, <1>3, <1>4 DEF AdjInv, AdjTypeOK, AdjRequest, ReviewAt, ReviewCall
<1>6. DecidersOK'
  BY <1>1, <1>2, <1>4, AdjustmentsAssumption DEF AdjInv, DecidersOK, ReviewAt, AtDecision
<1>7. UncontendedOK'
  <2>1. ~ contended => \A p \in Reviews : p # q => ~ AtDecision(p)
    BY <1>1 DEF AdjInv, UncontendedOK, AtDecision
  <2>2. review[q].admin # request.proposer
    BY <1>1 DEF AdjInv, DecidersOK, AtDecision
  <2>3. QED
    BY <1>1, <1>2, <1>4, <2>1, <2>2 DEF UncontendedOK, ReviewAt, AtDecision
<1>8. ApprovedMovesOn'
  BY <1>2 DEF ApprovedMovesOn, ReviewAt
<1>9. QED
  BY <1>5, <1>6, <1>7, <1>8 DEF AdjInv

LEMMA RejectKeeps == ASSUME AdjInv, NEW q \in Reviews \ Approving, Reject(q) PROVE AdjInv'
<1>1. /\ review[q].pc = "save" /\ RGoto(q, "done") /\ UNCHANGED <<paid, contended, broken>>
      /\ request' = [request EXCEPT !.status = "rejected", !.approver = review[q].admin]
  BY DEF Reject
<1>2. ReviewAt(q, "done")
  BY <1>1, ReviewMoves
<1>3. review[q].admin \in Admins /\ review[q].admin # "none"
  BY <1>1, AdjustmentsAssumption DEF AdjInv, AdjTypeOK
<1>4. /\ request' \in AdjRequest /\ request'.status = "rejected" /\ request'.approver = review[q].admin
      /\ request'.proposer = request.proposer
  BY <1>1, <1>3, RequestShape DEF AdjRequest
<1>5. AdjTypeOK'
  BY <1>1, <1>2, <1>3, <1>4 DEF AdjInv, AdjTypeOK, AdjRequest, ReviewAt, ReviewCall
<1>6. DecidersOK'
  BY <1>1, <1>2, <1>4, AdjustmentsAssumption DEF AdjInv, DecidersOK, ReviewAt, AtDecision
<1>7. UncontendedOK'
  <2>1. ~ contended => /\ \A p \in Reviews : p # q => ~ AtDecision(p)
                       /\ ~ paid
    BY <1>1 DEF AdjInv, UncontendedOK, AtDecision
  <2>2. ~ contended => \A p \in Reviews : ~ AtDecision(p)'
    BY <1>2, <2>1 DEF ReviewAt, AtDecision
  <2>3. QED
    BY <1>1, <1>4, <2>1, <2>2 DEF UncontendedOK, AtDecision
<1>8. ApprovedMovesOn'
  BY <1>4 DEF ApprovedMovesOn
<1>9. QED
  BY <1>5, <1>6, <1>7, <1>8 DEF AdjInv

LEMMA ExecuteKeeps == ASSUME AdjInv, NEW q \in Approving, Execute(q) PROVE AdjInv'
<1>1. /\ review[q].pc = "execute" /\ RGoto(q, "close") /\ UNCHANGED <<request, contended, broken>>
      /\ paid' = TRUE /\ q \in Reviews
  BY AdjustmentsAssumption DEF Execute
<1>2. ReviewAt(q, "close")
  BY <1>1, ReviewMoves
<1>3. AdjTypeOK'
  BY <1>1, <1>2 DEF AdjInv, AdjTypeOK, ReviewAt, ReviewCall
<1>4. DecidersOK'
  BY <1>1, <1>2, AdjustmentsAssumption DEF AdjInv, DecidersOK, ReviewAt, AtDecision
<1>5. UncontendedOK'
  BY <1>1, <1>2 DEF AdjInv, UncontendedOK, ReviewAt, AtDecision
<1>6. ApprovedMovesOn'
  BY <1>1, <1>2, AdjustmentsAssumption DEF AdjInv, ApprovedMovesOn, ReviewAt
<1>7. QED
  BY <1>3, <1>4, <1>5, <1>6 DEF AdjInv

LEMMA ExecutedKeeps == ASSUME AdjInv, NEW q \in Approving, MarkExecuted(q) PROVE AdjInv'
<1>1. /\ review[q].pc = "close" /\ RGoto(q, "done") /\ UNCHANGED <<paid, contended, broken>> /\ q \in Reviews
      /\ request' = [request EXCEPT !.status = "executed"]
  BY AdjustmentsAssumption DEF MarkExecuted
<1>2. ReviewAt(q, "done")
  BY <1>1, ReviewMoves
<1>3. /\ request' \in AdjRequest /\ request'.status = "executed" /\ request'.approver = request.approver
      /\ request'.proposer = request.proposer
  BY <1>1, RequestShape DEF AdjRequest
<1>4. request.status \notin {"none", "proposed"}
  BY <1>1 DEF AdjInv, DecidersOK
<1>5. AdjTypeOK'
  BY <1>1, <1>2, <1>3, <1>4, RequestShape DEF AdjInv, AdjTypeOK, AdjRequest, ReviewAt, ReviewCall
<1>6. DecidersOK'
  BY <1>1, <1>2, <1>3, AdjustmentsAssumption DEF AdjInv, DecidersOK, ReviewAt, AtDecision
<1>7. UncontendedOK'
  <2>1. ~ contended => /\ \A p \in Reviews : p # q => ~ AtDecision(p)
                       /\ request.status = "approved"
    BY <1>1 DEF AdjInv, UncontendedOK, AtDecision
  <2>2. ~ contended => request.approver # request.proposer
    BY <2>1 DEF AdjInv, UncontendedOK
  <2>3. ~ contended => \A p \in Reviews : ~ AtDecision(p)'
    BY <1>2, <2>1 DEF ReviewAt, AtDecision
  <2>4. QED
    BY <1>1, <1>3, <2>2, <2>3 DEF UncontendedOK, AtDecision
<1>8. ApprovedMovesOn'
  BY <1>3 DEF ApprovedMovesOn
<1>9. QED
  BY <1>5, <1>6, <1>7, <1>8 DEF AdjInv

LEMMA ReviewFailsKeeps == ASSUME AdjInv, NEW q \in Reviews, ReviewFails(q) PROVE AdjInv'
<1>1. /\ AtDecision(q) /\ RGoto(q, "failed") /\ UNCHANGED <<request, paid, contended>>
      /\ broken' \in BOOLEAN /\ (~ broken' => ~ broken /\ review[q].pc = "save")
  BY RequestShape DEF ReviewFails, AtDecision
<1>2. ReviewAt(q, "failed")
  BY <1>1, ReviewMoves
<1>3. AdjTypeOK'
  BY <1>1, <1>2 DEF AdjInv, AdjTypeOK, ReviewAt, ReviewCall
<1>4. \A p \in Reviews : AtDecision(p)' => review'[p] = review[p] /\ AtDecision(p)
  BY <1>2 DEF ReviewAt, AtDecision
<1>5. request.status # "none"
  BY <1>1 DEF AdjInv, DecidersOK, AtDecision
<1>6. DecidersOK'
  BY <1>1, <1>4, <1>5, AdjustmentsAssumption DEF AdjInv, DecidersOK, AtDecision
<1>7. UncontendedOK'
  BY <1>1, <1>4 DEF AdjInv, UncontendedOK, AtDecision
<1>8. ApprovedMovesOn'
  BY <1>1, <1>2, AdjustmentsAssumption DEF AdjInv, ApprovedMovesOn, ReviewAt
<1>9. QED
  BY <1>3, <1>6, <1>7, <1>8 DEF AdjInv

LEMMA AdjNextInv == AdjInv /\ [AdjNext]_adjVars => AdjInv'
<1> SUFFICES ASSUME AdjInv, [AdjNext]_adjVars PROVE AdjInv'
  OBVIOUS
<1>1. CASE UNCHANGED adjVars
  BY <1>1 DEF adjVars, AdjInv, AdjTypeOK, DecidersOK, UncontendedOK, ApprovedMovesOn, AtDecision
<1>2. ASSUME NEW q \in Reviews, Load(q) \/ ReviewFails(q) PROVE AdjInv'
  BY <1>2, LoadKeepsReview, ReviewFailsKeeps
<1>3. ASSUME NEW q \in Approving, Approve(q) \/ Execute(q) \/ MarkExecuted(q) PROVE AdjInv'
  BY <1>3, ApproveKeeps, ExecuteKeeps, ExecutedKeeps
<1>4. QED
  BY <1>1, <1>2, <1>3, ProposeKeeps, RejectKeeps DEF AdjNext

LEMMA AdjInvSafe == AdjInv => AdjustmentsSafe
<1> SUFFICES ASSUME AdjInv PROVE AdjustmentsSafe
  OBVIOUS
<1>1. request.status \in {"none", "proposed", "approved", "rejected", "executed"}
  BY RequestShape DEF AdjRequest
<1>2. paid /\ ~ contended => request.status \notin {"none", "proposed", "rejected"}
  BY DEF AdjInv, DecidersOK, UncontendedOK
<1>3. FourEyes
  <2> SUFFICES ASSUME paid, ~ contended PROVE request.approver \notin {"none", request.proposer}
    BY DEF FourEyes
  <2>1. request.approver # "none"
    BY <1>2, RequestShape
  <2>2. request.approver # request.proposer
    BY <1>2 DEF AdjInv, UncontendedOK
  <2>3. QED
    BY <2>1, <2>2
<1>4. RejectedUnpaid
  BY DEF RejectedUnpaid, AdjInv, UncontendedOK
<1>5. QED
  BY <1>3, <1>4 DEF AdjustmentsSafe, AdjInv

-----------------------------------------------------------------------------
(* The consent of a user *)

Started(c) == reached[c] # "start"

Working(c) == reached[c] \notin Over \cup {"start"}

Answered(c) == reached[c] \in {"clear", "done"}

(***************************************************************************)
(* The rows: stamped in the past, one for a grant, and none before it is   *)
(* recorded.  What a pass has picked has lapsed.                           *)
(***************************************************************************)
RowsOK ==
    /\ \A r \in rows : r.updated <= stamp
    /\ \A r, s \in rows : r.by = s.by => r = s
    /\ \A g \in Grants : stamped[g] <= stamp
    /\ \A g \in Grants : reached[g] \in {"start", "write"} => \A r \in rows : r.by # g
    /\ \A c \in Withdrawals \cup Passes : \A g \in picked[c] : \E r \in rows : r.by = g
    /\ \A e \in Passes : \A r \in rows : r.by \in picked[e] => Lapsed(r)

(***************************************************************************)
(* The answers: the right one is held now, a stored one was held since it  *)
(* was asked for.                                                          *)
(***************************************************************************)
AnswersOK ==
    /\ heldAt[Answer] = moment
    /\ \A b \in Answers : heldAt[b] <= moment
    /\ heldAt["no"] >= 0
    /\ \A p \in Processes : cached[p].since <= heldAt[cached[p].answer]
    /\ \A q \in Checks :
           /\ found[q].since <= moment
           /\ reached[q] = "store" => found[q].since <= heldAt[found[q].answer]

(***************************************************************************)
(* Who was not overtaken met nobody of the opposite kind at work.          *)
(***************************************************************************)
ApartOK ==
    /\ \A w \in Withdrawals : Started(w) /\ w \notin overtaken => \A g \in Grants : ~ Working(g)
    /\ \A g \in Grants : Started(g) /\ g \notin overtaken => \A w \in Withdrawals : ~ Working(w)

WithdrawnOK ==
    \A w \in Withdrawals : Answered(w) /\ w \notin overtaken =>
        \A r \in Latest : r.status # "granted"

(***************************************************************************)
(* Since a grant was stamped only other grants and expiries have stamped.  *)
(***************************************************************************)
GrantedOK ==
    \A g \in Grants :
        /\ Started(g) /\ g \notin overtaken =>
               \A r \in rows : r.updated >= stamped[g] => r.status = "granted" \/ Lapsed(r)
        /\ Answered(g) => \E r \in rows : r.updated >= stamped[g]

ConsentInv == ConsentTypeOK /\ RowsOK /\ AnswersOK /\ ApartOK /\ WithdrawnOK /\ GrantedOK

LEMMA ConsentInitInv == ConsentInit => ConsentInv
<1> SUFFICES ASSUME ConsentInit PROVE ConsentInv
  OBVIOUS
<1>1. \A c \in ConsentCalls : reached[c] = "start"
  BY DEF ConsentInit
<1>2. Nothing \in [answer : Answers, since : Int] /\ Nothing.since = - Ttl /\ Nothing.answer = "no"
  BY ConsentAssumption DEF Nothing, Answers
<1>3. /\ heldAt \in [Answers -> -1 .. LastMoment] /\ heldAt["no"] = 0 /\ heldAt["yes"] = -1
  BY ConsentAssumption DEF ConsentInit, Answers
<1>4. ConsentTypeOK
  BY <1>2, <1>3, ConsentAssumption DEF ConsentInit, ConsentTypeOK
<1>5. RowsOK
  BY DEF ConsentInit, RowsOK
<1>6. Answer = "no"
  BY DEF ConsentInit, Consented, Latest, Answer
<1>7. AnswersOK
  <2>1. \A p \in Processes : cached[p] = Nothing
    BY DEF ConsentInit
  <2>2. \A q \in Checks : found[q] = Nothing /\ reached[q] = "start"
    BY <1>1 DEF ConsentInit, ConsentCalls
  <2>3. - Ttl <= 0
    BY ConsentAssumption
  <2>4. moment = 0
    BY DEF ConsentInit
  <2>5. \A b \in Answers : heldAt[b] <= moment
    <3> SUFFICES ASSUME NEW b \in Answers PROVE heldAt[b] <= moment
      OBVIOUS
    <3>1. b = "yes" \/ b = "no"
      BY DEF Answers
    <3>2. QED
      BY <1>3, <2>4, <3>1
  <2>6. QED
    BY <1>2, <1>3, <1>6, <2>1, <2>2, <2>3, <2>4, <2>5 DEF AnswersOK
<1>8. ApartOK /\ WithdrawnOK /\ GrantedOK
  BY <1>1 DEF ApartOK, WithdrawnOK, GrantedOK, Started, Answered, ConsentCalls
<1>9. QED
  BY <1>4, <1>5, <1>7, <1>8 DEF ConsentInv

-----------------------------------------------------------------------------
(* Facts that several steps need *)

ReachedLabels == {"start", "write", "clear", "read", "store"} \cup Over

Arrives(c, label) ==
    /\ reached' \in [ConsentCalls -> ReachedLabels]
    /\ \A d \in ConsentCalls : reached'[d] = IF d = c THEN label ELSE reached[d]

LEMMA ArrivesAt ==
    ASSUME ConsentInv, NEW c \in ConsentCalls, NEW label \in ReachedLabels,
           reached' = [reached EXCEPT ![c] = label]
    PROVE  Arrives(c, label)
  BY DEF ConsentInv, ConsentTypeOK, Arrives, ReachedLabels

LEMMA KindsApart ==
    /\ \A g \in Grants : g \in ConsentCalls /\ g \notin Withdrawals /\ g \notin Passes /\ g \notin Checks
    /\ \A w \in Withdrawals : w \in ConsentCalls /\ w \notin Passes /\ w \notin Checks
    /\ \A e \in Passes : e \in ConsentCalls /\ e \notin Checks
    /\ \A q \in Checks : q \in ConsentCalls
    /\ ConsentCalls = Grants \cup Withdrawals \cup Passes \cup Checks
  BY ConsentAssumption DEF ConsentCalls

(***************************************************************************)
(* A step that leaves the rows and the stamps alone.                       *)
(***************************************************************************)
LEMMA SameRows ==
    ASSUME ConsentInv, UNCHANGED <<stamp, rows, stamped, picked>>,
           moment' \in 0 .. LastMoment, moment <= moment',
           \A g \in Grants : reached'[g] \in {"start", "write"} => reached[g] \in {"start", "write"}
    PROVE  RowsOK'
<1>1. \A r \in rows : Lapsed(r) => Lapsed(r)'
  <2> SUFFICES ASSUME NEW r \in rows, r.expires <= moment PROVE r.expires <= moment'
    BY DEF Lapsed
  <2>1. r.expires \in Int /\ moment \in Int
    BY ConsentAssumption DEF ConsentInv, ConsentTypeOK, Row
  <2>2. QED
    BY <2>1
<1>2. QED
  BY <1>1 DEF ConsentInv, RowsOK

(***************************************************************************)
(* A step that begins no grant and no withdrawal.                          *)
(***************************************************************************)
LEMMA SameApart ==
    ASSUME ConsentInv, UNCHANGED overtaken,
           \A c \in Grants \cup Withdrawals :
               (Working(c)' => Working(c)) /\ (Started(c)' => Started(c))
    PROVE  ApartOK'
  BY DEF ConsentInv, ApartOK

(***************************************************************************)
(* A step that changes no answer, and stores none but an empty one.        *)
(***************************************************************************)
LEMMA SameAnswers ==
    ASSUME ConsentInv, UNCHANGED <<moment, rows, heldAt, found>>,
           \A p \in Processes : cached'[p] \in {cached[p], Nothing},
           \A q \in Checks : reached'[q] = "store" => reached[q] = "store"
    PROVE  AnswersOK'
<1>1. Answer' = Answer
  BY DEF Answer, Consented, Latest, Lapsed
<1>2. Nothing.since <= heldAt[Nothing.answer]
  <2>1. Nothing.since = - Ttl /\ Nothing.answer = "no"
    BY DEF Nothing
  <2>2. heldAt["no"] \in -1 .. LastMoment
    BY DEF ConsentInv, ConsentTypeOK, Answers
  <2>3. heldAt["no"] >= 0 /\ heldAt["no"] \in Int /\ - Ttl <= 0 /\ - Ttl \in Int
    BY <2>2, ConsentAssumption DEF ConsentInv, AnswersOK
  <2>4. - Ttl <= heldAt["no"]
    BY <2>3
  <2>5. QED
    BY <2>1, <2>4
<1>3. /\ heldAt[Answer'] = moment
      /\ \A b \in Answers : heldAt[b] <= moment
      /\ heldAt["no"] >= 0
  BY <1>1 DEF ConsentInv, AnswersOK
<1>4. \A p \in Processes : cached'[p].since <= heldAt[cached'[p].answer]
  BY <1>2 DEF ConsentInv, AnswersOK
<1>5. QED
  BY <1>3, <1>4 DEF ConsentInv, AnswersOK

(***************************************************************************)
(* A step that changes the answer notes when.                              *)
(***************************************************************************)
LEMMA NotedAnswers ==
    ASSUME ConsentInv, Noted, UNCHANGED <<found, cached>>,
           moment' \in 0 .. LastMoment, moment <= moment',
           \A q \in Checks : reached'[q] = "store" => reached[q] = "store"
    PROVE  AnswersOK' /\ heldAt' \in [Answers -> -1 .. LastMoment]
<1>1. Answer' \in Answers
  BY DEF Answer, Answers
<1>2. /\ heldAt \in [Answers -> -1 .. LastMoment] /\ moment \in Int /\ moment' \in Int /\ moment' >= 0
      /\ moment' \in -1 .. LastMoment
  BY ConsentAssumption DEF ConsentInv, ConsentTypeOK
<1>3. /\ heldAt' \in [Answers -> -1 .. LastMoment]
      /\ heldAt'[Answer'] = moment'
      /\ \A b \in Answers : b # Answer' => heldAt'[b] = heldAt[b]
  BY <1>1, <1>2 DEF Noted
<1>4. \A b \in Answers : heldAt[b] \in Int /\ heldAt'[b] \in Int
                         /\ heldAt[b] <= heldAt'[b] /\ heldAt'[b] <= moment'
  <2> SUFFICES ASSUME NEW b \in Answers
               PROVE  heldAt[b] \in Int /\ heldAt'[b] \in Int
                      /\ heldAt[b] <= heldAt'[b] /\ heldAt'[b] <= moment'
    OBVIOUS
  <2>1. heldAt[b] \in Int /\ heldAt'[b] \in Int /\ heldAt[b] <= moment
    BY <1>2, <1>3 DEF ConsentInv, AnswersOK
  <2>2. b = Answer' \/ heldAt'[b] = heldAt[b]
    BY <1>3
  <2>3. QED
    BY <1>2, <1>3, <2>1, <2>2
<1>5. heldAt'["no"] >= 0
  <2>1. "no" \in Answers
    BY DEF Answers
  <2>2. heldAt["no"] >= 0
    BY DEF ConsentInv, AnswersOK
  <2>3. QED
    BY <1>4, <2>1, <2>2
<1>6. ASSUME NEW p \in Processes PROVE cached'[p].since <= heldAt'[cached'[p].answer]
  <2>1. cached[p].answer \in Answers /\ cached[p].since \in Int
    BY DEF ConsentInv, ConsentTypeOK
  <2>2. QED
    BY <1>4, <2>1 DEF ConsentInv, AnswersOK
<1>7. ASSUME NEW q \in Checks
      PROVE  /\ found'[q].since <= moment'
             /\ reached'[q] = "store" => found'[q].since <= heldAt'[found'[q].answer]
  <2>1. found[q].answer \in Answers /\ found[q].since \in Int
    BY DEF ConsentInv, ConsentTypeOK
  <2>2. QED
    BY <1>2, <1>4, <2>1 DEF ConsentInv, AnswersOK
<1>8. QED
  BY <1>3, <1>4, <1>5, <1>6, <1>7 DEF AnswersOK

(***************************************************************************)
(* A step that leaves the rows alone and answers no grant or withdrawal.   *)
(***************************************************************************)
LEMMA SameStands ==
    ASSUME ConsentInv, UNCHANGED <<rows, stamped>>, overtaken \subseteq overtaken',
           moment' \in 0 .. LastMoment, moment <= moment',
           \A c \in Grants \cup Withdrawals :
               (Answered(c)' => Answered(c)) /\ (Started(c)' => Started(c) \/ c \in Withdrawals)
    PROVE  WithdrawnOK' /\ GrantedOK'
<1>1. Latest' = Latest
  BY DEF Latest
<1>2. WithdrawnOK'
  <2> SUFFICES ASSUME NEW w \in Withdrawals, Answered(w)', w \notin overtaken'
               PROVE  \A r \in Latest : r.status # "granted"
    BY <1>1 DEF WithdrawnOK
  <2>1. w \in Grants \cup Withdrawals
    OBVIOUS
  <2>2. Answered(w) /\ w \notin overtaken
    BY <2>1
  <2>3. QED
    BY <2>2 DEF ConsentInv, WithdrawnOK
<1>3. \A r \in rows : Lapsed(r) => Lapsed(r)'
  <2> SUFFICES ASSUME NEW r \in rows, r.expires <= moment PROVE r.expires <= moment'
    BY DEF Lapsed
  <2>1. r.expires \in Int /\ moment \in Int
    BY ConsentAssumption DEF ConsentInv, ConsentTypeOK, Row
  <2>2. QED
    BY <2>1
<1>4. GrantedOK'
  <2> SUFFICES ASSUME NEW g \in Grants
               PROVE  /\ Started(g)' /\ g \notin overtaken' =>
                             \A r \in rows : r.updated >= stamped[g] => r.status = "granted" \/ Lapsed(r)'
                      /\ Answered(g)' => \E r \in rows : r.updated >= stamped[g]
    BY DEF GrantedOK
  <2>1. (Answered(g)' => Answered(g)) /\ (Started(g)' => Started(g))
    BY KindsApart
  <2>2. QED
    BY <1>3, <2>1 DEF ConsentInv, GrantedOK
<1>5. QED
  BY <1>2, <1>4

LEMMA ConsentNow ==
    ASSUME ConsentInv
    PROVE  moment \in 0 .. LastMoment /\ moment \in Int /\ moment <= moment
  BY ConsentAssumption DEF ConsentInv, ConsentTypeOK

(***************************************************************************)
(* The steps                                                               *)
(***************************************************************************)
LEMMA GrantKeeps == ASSUME ConsentInv, NEW g \in Grants, Grant(g) PROVE ConsentInv'
<1>1. /\ reached[g] = "start" /\ stamp \in Nat /\ stamp' = stamp + 1
      /\ UNCHANGED <<moment, rows, picked, found, cached, heldAt>>
  BY DEF Grant, ConsentInv, ConsentTypeOK
<1>2. Arrives(g, "write")
  BY ArrivesAt, KindsApart DEF Grant, ReachedLabels
<1>3. /\ stamped' \in [Grants -> Nat] /\ stamped'[g] = stamp + 1
      /\ \A h \in Grants : h # g => stamped'[h] = stamped[h]
  BY <1>1 DEF Grant, ConsentInv, ConsentTypeOK
<1>4. /\ overtaken' \subseteq Grants \cup Withdrawals /\ overtaken \subseteq overtaken'
      /\ \A w \in Withdrawals : Started(w) => w \in overtaken'
      /\ g \notin overtaken' => \A w \in Withdrawals : ~ Working(w)
  BY DEF Grant, Meets, ConsentInv, ConsentTypeOK, Started, Working
<1>5. ConsentTypeOK'
  BY <1>1, <1>2, <1>3, <1>4 DEF ConsentInv, ConsentTypeOK, Arrives, ReachedLabels
<1>6. RowsOK'
  <2>1. \A r \in rows : r.updated \in Nat
    BY DEF ConsentInv, ConsentTypeOK, Row
  <2>2. \A h \in Grants : stamped[h] \in Nat
    BY DEF ConsentInv, ConsentTypeOK
  <2>3. \A r \in rows : r.updated <= stamp'
    BY <1>1, <2>1 DEF ConsentInv, RowsOK
  <2>4. \A h \in Grants : stamped'[h] <= stamp'
    BY <1>1, <1>3, <2>2 DEF ConsentInv, RowsOK
  <2>5. \A h \in Grants : reached'[h] \in {"start", "write"} => reached[h] \in {"start", "write"}
    BY <1>1, <1>2, KindsApart DEF Arrives
  <2>6. QED
    BY <1>1, <2>3, <2>4, <2>5 DEF ConsentInv, RowsOK, Lapsed
<1>7. AnswersOK'
  BY <1>1, <1>2, SameAnswers, KindsApart DEF Arrives
<1>8. ApartOK'
  BY <1>1, <1>2, <1>4, KindsApart DEF Arrives, ApartOK, ConsentInv, Started, Working, Over
<1>9. WithdrawnOK'
  BY <1>2, <1>4, KindsApart DEF Arrives, WithdrawnOK, Answered, Started
<1>10. GrantedOK'
  <2> SUFFICES ASSUME NEW h \in Grants
               PROVE  /\ Started(h)' /\ h \notin overtaken' =>
                             \A r \in rows : r.updated >= stamped'[h] => r.status = "granted" \/ Lapsed(r)
                      /\ Answered(h)' => \E r \in rows : r.updated >= stamped'[h]
    BY <1>1 DEF GrantedOK, Lapsed
  <2>1. CASE h = g
    <3>1. \A r \in rows : r.updated \in Nat /\ r.updated <= stamp
      BY DEF ConsentInv, ConsentTypeOK, RowsOK, Row
    <3>2. \A r \in rows : ~ (r.updated >= stamped'[h])
      BY <1>1, <1>3, <2>1, <3>1
    <3>3. ~ Answered(h)'
      BY <1>2, <2>1, KindsApart DEF Arrives, Answered
    <3>4. QED
      BY <3>2, <3>3
  <2>2. CASE h # g
    BY <1>2, <1>3, <1>4, <2>2, KindsApart DEF Arrives, ConsentInv, GrantedOK, Started, Answered
  <2>3. QED
    BY <2>1, <2>2
<1>11. QED
  BY <1>5, <1>6, <1>7, <1>8, <1>9, <1>10 DEF ConsentInv

LEMMA RecordKeeps == ASSUME ConsentInv, NEW g \in Grants, Record(g) PROVE ConsentInv'
<1> DEFINE new == [by |-> g, status |-> "granted", updated |-> stamped[g], expires |-> Never]
<1>1. /\ reached[g] = "write" /\ rows' = rows \cup {new} /\ Noted
      /\ UNCHANGED <<moment, stamp, stamped, picked, found, cached, overtaken>>
  BY DEF Record
<1>2. Arrives(g, "clear")
  BY ArrivesAt, KindsApart DEF Record, ReachedLabels
<1>3. /\ new \in Row /\ new.by = g /\ new.status = "granted" /\ new.updated = stamped[g]
      /\ new.expires = LastMoment + 1
  BY ConsentAssumption DEF Row, Never, ConsentInv, ConsentTypeOK
<1> HIDE DEF new
<1>4. AnswersOK' /\ heldAt' \in [Answers -> -1 .. LastMoment]
  BY <1>1, <1>2, NotedAnswers, ConsentNow, KindsApart DEF Arrives
<1>5. ConsentTypeOK'
  BY <1>1, <1>2, <1>3, <1>4 DEF ConsentInv, ConsentTypeOK, Arrives, ReachedLabels
<1>6. RowsOK'
  <2>1. \A r \in rows : r.by # g
    BY <1>1 DEF ConsentInv, RowsOK
  <2>2. \A r \in rows' : r.updated <= stamp
    BY <1>1, <1>3 DEF ConsentInv, RowsOK
  <2>3. \A r, s \in rows' : r.by = s.by => r = s
    BY <1>1, <1>3, <2>1 DEF ConsentInv, RowsOK
  <2>4. \A h \in Grants : reached'[h] \in {"start", "write"} => \A r \in rows' : r.by # h
    BY <1>1, <1>2, <1>3, KindsApart DEF ConsentInv, RowsOK, Arrives
  <2>5. \A e \in Passes : \A r \in rows' : r.by \in picked[e] => Lapsed(r)
    BY <1>1, <1>3, <2>1 DEF ConsentInv, RowsOK
  <2>6. QED
    BY <1>1, <2>2, <2>3, <2>4, <2>5 DEF ConsentInv, RowsOK, Lapsed
<1>7. ApartOK'
  BY <1>1, <1>2, KindsApart, SameApart DEF Arrives, Started, Working, Over
<1>8. WithdrawnOK'
  <2>1. Working(g)
    BY <1>1 DEF Working, Over
  <2>2. \A w \in Withdrawals : ~ (Answered(w)' /\ w \notin overtaken')
    BY <1>1, <1>2, <2>1, KindsApart DEF Arrives, Answered, ConsentInv, ApartOK, Started
  <2>3. QED
    BY <2>2 DEF WithdrawnOK
<1>9. GrantedOK'
  <2> SUFFICES ASSUME NEW h \in Grants
               PROVE  /\ Started(h)' /\ h \notin overtaken =>
                             \A r \in rows' : r.updated >= stamped[h] => r.status = "granted" \/ Lapsed(r)
                      /\ Answered(h)' => \E r \in rows' : r.updated >= stamped[h]
    BY <1>1 DEF GrantedOK, Lapsed
  <2>1. Started(h)' => Started(h)
    BY <1>1, <1>2, KindsApart DEF Arrives, Started
  <2>2. Answered(h)' => Answered(h) \/ h = g
    BY <1>2, KindsApart DEF Arrives, Answered
  <2>3. stamped[h] \in Nat
    BY DEF ConsentInv, ConsentTypeOK
  <2>4. QED
    BY <1>1, <1>3, <2>1, <2>2, <2>3 DEF ConsentInv, GrantedOK
<1>10. QED
  BY <1>4, <1>5, <1>6, <1>7, <1>8, <1>9 DEF ConsentInv

LEMMA WithdrawKeeps == ASSUME ConsentInv, NEW w \in Withdrawals, Withdraw(w) PROVE ConsentInv'
<1> DEFINE label == IF rows = {} THEN "refused" ELSE "write"
<1>1. /\ reached[w] = "start" /\ UNCHANGED <<moment, stamp, rows, stamped, found, cached, heldAt>>
      /\ reached' = [reached EXCEPT ![w] = label] /\ label \in {"refused", "write"}
  BY DEF Withdraw
<1> HIDE DEF label
<1>2. Arrives(w, label)
  BY <1>1, ArrivesAt, KindsApart DEF ReachedLabels, Over
<1>3. /\ picked' \in [Withdrawals \cup Passes -> SUBSET Grants]
      /\ picked'[w] = {r.by : r \in Latest}
      /\ \A c \in Withdrawals \cup Passes : c # w => picked'[c] = picked[c]
  <2>1. {r.by : r \in Latest} \subseteq Grants
    BY DEF Latest, ConsentInv, ConsentTypeOK, Row
  <2>2. QED
    BY <2>1 DEF Withdraw, ConsentInv, ConsentTypeOK
<1>4. /\ overtaken' \subseteq Grants \cup Withdrawals /\ overtaken \subseteq overtaken'
      /\ \A g \in Grants : Started(g) => g \in overtaken'
      /\ w \notin overtaken' => \A g \in Grants : ~ Working(g)
  BY DEF Withdraw, Meets, ConsentInv, ConsentTypeOK, Started, Working
<1>5. ConsentTypeOK'
  BY <1>1, <1>2, <1>3, <1>4 DEF ConsentInv, ConsentTypeOK, Arrives, ReachedLabels
<1>6. RowsOK'
  <2>1. \A h \in Grants : reached'[h] = reached[h]
    BY <1>2, KindsApart DEF Arrives
  <2>2. \A c \in Withdrawals \cup Passes : \A g \in picked'[c] : \E r \in rows : r.by = g
    BY <1>3 DEF ConsentInv, RowsOK, Latest
  <2>3. \A e \in Passes : picked'[e] = picked[e]
    BY <1>3, KindsApart
  <2>4. QED
    BY <1>1, <2>1, <2>2, <2>3 DEF ConsentInv, RowsOK, Lapsed
<1>7. AnswersOK'
  BY <1>1, <1>2, SameAnswers, KindsApart DEF Arrives
<1>8. ApartOK'
  BY <1>1, <1>2, <1>4, KindsApart DEF Arrives, ApartOK, ConsentInv, Started, Working, Over
<1>9. WithdrawnOK' /\ GrantedOK'
  BY <1>1, <1>2, <1>4, ConsentNow, SameStands, KindsApart DEF Arrives, Answered, Started
<1>10. QED
  BY <1>5, <1>6, <1>7, <1>8, <1>9 DEF ConsentInv

(***************************************************************************)
(* The row of a grant changes: it alone is the latest, and nothing else    *)
(* about the rows has moved.                                               *)
(***************************************************************************)
Stamped(s, g, status) ==
    /\ s.by = g /\ s.status = status /\ s.updated = stamp + 1 /\ s \in Row

LEMMA ChangeFacts ==
    ASSUME ConsentInv, NEW g \in Grants, NEW status \in {"withdrawn", "expired"},
           Change(g, status), \E r \in rows : r.by = g
    PROVE  /\ stamp \in Nat /\ stamp' = stamp + 1
           /\ \E s \in rows' :
                 /\ Stamped(s, g, status)
                 /\ Latest' = {s}
                 /\ \E r \in rows : r.by = g /\ r.expires = s.expires
                 /\ \A t \in rows' : t = s \/ (t \in rows /\ t.by # g)
                 /\ \A r \in rows : r.by # g => r \in rows'
<1>1. /\ stamp \in Nat /\ stamp' = stamp + 1 /\ rows \subseteq Row
      /\ rows' = {IF r.by = g THEN [r EXCEPT !.status = status, !.updated = stamp + 1] ELSE r : r \in rows}
  BY DEF Change, ConsentInv, ConsentTypeOK
<1>2. PICK r \in rows : r.by = g
  OBVIOUS
<1>3. r \in Row
  BY <1>1
<1> DEFINE s == [r EXCEPT !.status = status, !.updated = stamp + 1]
<1>4. /\ s.by = g /\ s.status = status /\ s.updated = stamp + 1 /\ s.expires = r.expires /\ s \in Row
  <2>0. stamp \in Nat
    BY <1>1
  <2>1. stamp + 1 \in Nat /\ status \in {"granted", "withdrawn", "expired"}
    BY <2>0
  <2>2. s \in Row
    BY <1>3, <2>1 DEF Row
  <2>3. s.by = r.by /\ s.status = status /\ s.updated = stamp + 1 /\ s.expires = r.expires
    BY <1>3 DEF Row
  <2>4. QED
    BY <1>2, <2>2, <2>3
<1>5. s \in rows'
  BY <1>1, <1>2
<1>6. \A t \in rows' : t = s \/ (t \in rows /\ t.by # g)
  <2> SUFFICES ASSUME NEW q \in rows
               PROVE  LET t == IF q.by = g THEN [q EXCEPT !.status = status, !.updated = stamp + 1] ELSE q
                      IN  t = s \/ (t \in rows /\ t.by # g)
    BY <1>1
  <2>1. CASE q.by = g
    <3>1. q = r
      BY <1>2, <2>1 DEF ConsentInv, RowsOK
    <3>2. QED
      BY <2>1, <3>1
  <2>2. CASE q.by # g
    BY <2>2
  <2>3. QED
    BY <2>1, <2>2
<1>7. \A q \in rows : q.by # g => q \in rows'
  BY <1>1
<1> HIDE DEF s
<1>8. \A q \in rows : q.updated \in Nat /\ q.updated <= stamp
  BY <1>1 DEF ConsentInv, RowsOK, Row
<1>9. Latest' = {s}
  <2>1. \A t \in rows' : t.updated <= s.updated /\ (t # s => ~ (s.updated <= t.updated))
    <3> SUFFICES ASSUME NEW t \in rows'
                 PROVE  t.updated <= s.updated /\ (t # s => ~ (s.updated <= t.updated))
      OBVIOUS
    <3>1. stamp \in Nat /\ s.updated = stamp + 1
      BY <1>1, <1>4
    <3>2. CASE t = s
      BY <3>1, <3>2
    <3>3. CASE t # s
      <4>1. t.updated \in Nat /\ t.updated <= stamp
        BY <1>6, <1>8, <3>3
      <4>2. QED
        BY <3>1, <4>1
    <3>4. QED
      BY <3>2, <3>3
  <2>2. QED
    BY <1>5, <2>1 DEF Latest
<1>10. QED
  BY <1>1, <1>2, <1>4, <1>5, <1>6, <1>7, <1>9 DEF Stamped

LEMMA ChangeKeepsRows ==
    ASSUME ConsentInv, NEW g \in Grants, NEW status \in {"withdrawn", "expired"},
           Change(g, status), \E r \in rows : r.by = g, UNCHANGED <<moment, stamped>>,
           \A h \in Grants : reached'[h] = reached[h],
           \A c \in Withdrawals \cup Passes : picked'[c] \subseteq picked[c]
    PROVE  rows' \subseteq Row /\ stamp' \in Nat /\ RowsOK'
<1>1. stamp \in Nat /\ stamp' = stamp + 1
  BY ChangeFacts
<1>2. PICK s \in rows' :
        /\ Stamped(s, g, status)
        /\ \E r \in rows : r.by = g /\ r.expires = s.expires
        /\ \A t \in rows' : t = s \/ (t \in rows /\ t.by # g)
        /\ \A r \in rows : r.by # g => r \in rows'
  BY ChangeFacts
<1>3. PICK r \in rows : r.by = g /\ r.expires = s.expires
  BY <1>2
<1>4. s.by = g /\ s.updated = stamp + 1 /\ s \in Row
  BY <1>2 DEF Stamped
<1>5. rows \subseteq Row /\ rows' \subseteq Row
  BY <1>2, <1>4 DEF ConsentInv, ConsentTypeOK
<1>6. \A t \in rows' : t.updated <= stamp'
  <2>1. \A t \in rows : t.updated \in Nat /\ t.updated <= stamp
    BY <1>5 DEF ConsentInv, RowsOK, Row
  <2>2. QED
    BY <1>1, <1>2, <1>4, <2>1
<1>7. \A t, u \in rows' : t.by = u.by => t = u
  BY <1>2, <1>4 DEF ConsentInv, RowsOK
<1>8. \A h \in Grants : stamped[h] <= stamp'
  <2>1. \A h \in Grants : stamped[h] \in Nat /\ stamped[h] <= stamp
    BY DEF ConsentInv, ConsentTypeOK, RowsOK
  <2>2. QED
    BY <1>1, <2>1
<1>9. \A h \in Grants : reached[h] \in {"start", "write"} => \A t \in rows' : t.by # h
  BY <1>2, <1>3, <1>4 DEF ConsentInv, RowsOK
<1>10. \A c \in Withdrawals \cup Passes : \A h \in picked'[c] : \E t \in rows' : t.by = h
  <2> SUFFICES ASSUME NEW c \in Withdrawals \cup Passes, NEW h \in picked[c]
               PROVE  \E t \in rows' : t.by = h
    OBVIOUS
  <2>1. PICK t \in rows : t.by = h
    BY DEF ConsentInv, RowsOK
  <2>2. QED
    BY <1>2, <1>4, <2>1
<1>11. \A e \in Passes : \A t \in rows' : t.by \in picked'[e] => t.expires <= moment
  BY <1>2, <1>3, <1>4 DEF ConsentInv, RowsOK, Lapsed
<1>12. QED
  BY <1>1, <1>5, <1>6, <1>7, <1>8, <1>9, <1>10, <1>11 DEF RowsOK, Lapsed

LEMMA WriteWithdrawnKeeps ==
    ASSUME ConsentInv, NEW w \in Withdrawals, WriteWithdrawn(w)
    PROVE  ConsentInv'
<1>1. PICK g \in picked[w] : Change(g, "withdrawn")
  BY DEF WriteWithdrawn
<1>2. g \in Grants /\ \E r \in rows : r.by = g
  BY DEF ConsentInv, ConsentTypeOK, RowsOK
<1>3. /\ reached[w] = "write" /\ Noted
      /\ UNCHANGED <<moment, stamped, picked, found, cached, overtaken>>
  BY DEF WriteWithdrawn
<1>4. Arrives(w, "clear")
  BY ArrivesAt, KindsApart DEF WriteWithdrawn, ReachedLabels
<1>5. \A h \in Grants : reached'[h] = reached[h]
  BY <1>4, KindsApart DEF Arrives
<1>6. rows' \subseteq Row /\ stamp' \in Nat /\ RowsOK'
  BY <1>1, <1>2, <1>3, <1>5, ChangeKeepsRows
<1>7. AnswersOK' /\ heldAt' \in [Answers -> -1 .. LastMoment]
  BY <1>3, <1>4, NotedAnswers, ConsentNow, KindsApart DEF Arrives
<1>8. ConsentTypeOK'
  BY <1>3, <1>4, <1>6, <1>7 DEF ConsentInv, ConsentTypeOK, Arrives, ReachedLabels
<1>9. ApartOK'
  BY <1>3, <1>4, KindsApart, SameApart DEF Arrives, Started, Working, Over
<1>10. PICK s \in rows' :
         /\ Stamped(s, g, "withdrawn") /\ Latest' = {s}
         /\ \A t \in rows' : t = s \/ (t \in rows /\ t.by # g)
         /\ \A r \in rows : r.by # g => r \in rows'
  BY <1>1, <1>2, ChangeFacts
<1>11. WithdrawnOK'
  BY <1>10 DEF WithdrawnOK, Stamped
<1>12. GrantedOK'
  <2> SUFFICES ASSUME NEW h \in Grants
               PROVE  /\ Started(h)' /\ h \notin overtaken =>
                             \A r \in rows' : r.updated >= stamped[h] => r.status = "granted" \/ Lapsed(r)
                      /\ Answered(h)' => \E r \in rows' : r.updated >= stamped[h]
    BY <1>3 DEF GrantedOK, Lapsed
  <2>1. Working(w)
    BY <1>3 DEF Working, Over
  <2>2. ~ (Started(h)' /\ h \notin overtaken)
    BY <1>5, <2>1 DEF ConsentInv, ApartOK, Started
  <2>3. s.updated >= stamped[h]
    <3>1. stamped[h] \in Nat /\ stamped[h] <= stamp /\ stamp \in Nat
      BY DEF ConsentInv, ConsentTypeOK, RowsOK
    <3>2. QED
      BY <1>10, <3>1 DEF Stamped
  <2>4. QED
    BY <2>2, <2>3
<1>13. QED
  BY <1>6, <1>7, <1>8, <1>9, <1>11, <1>12 DEF ConsentInv

LEMMA ExpireKeeps == ASSUME ConsentInv, NEW e \in Passes, Expire(e) PROVE ConsentInv'
<1>1. /\ reached[e] = "write" /\ Noted /\ UNCHANGED <<moment, stamped, found, cached, overtaken>>
  BY DEF Expire
<1>2. CASE picked[e] = {}
  <2>1. Arrives(e, "done") /\ UNCHANGED <<stamp, rows, picked>>
    BY <1>2, ArrivesAt, KindsApart DEF Expire, ReachedLabels, Over
  <2>2. \A c \in Grants \cup Withdrawals : reached'[c] = reached[c]
    BY <2>1, KindsApart DEF Arrives
  <2>3. AnswersOK' /\ heldAt' \in [Answers -> -1 .. LastMoment]
    BY <1>1, <2>1, NotedAnswers, ConsentNow, KindsApart DEF Arrives
  <2>4. ConsentTypeOK'
    BY <1>1, <2>1, <2>3 DEF ConsentInv, ConsentTypeOK, Arrives, ReachedLabels
  <2>5. RowsOK'
    BY <1>1, <2>1, <2>2, SameRows, ConsentNow
  <2>6. ApartOK'
    BY <1>1, <2>2, SameApart DEF Started, Working
  <2>7. WithdrawnOK' /\ GrantedOK'
    BY <1>1, <2>1, <2>2, ConsentNow, SameStands DEF Answered, Started
  <2>8. QED
    BY <2>3, <2>4, <2>5, <2>6, <2>7 DEF ConsentInv
<1>3. CASE picked[e] # {}
  <2>1. PICK g \in picked[e] :
          Change(g, "expired") /\ picked' = [picked EXCEPT ![e] = @ \ {g}] /\ UNCHANGED reached
    BY <1>3 DEF Expire
  <2>2. g \in Grants /\ \E r \in rows : r.by = g
    BY DEF ConsentInv, ConsentTypeOK, RowsOK
  <2>3. /\ picked' \in [Withdrawals \cup Passes -> SUBSET Grants]
        /\ \A c \in Withdrawals \cup Passes : picked'[c] \subseteq picked[c]
    BY <2>1 DEF ConsentInv, ConsentTypeOK
  <2>4. rows' \subseteq Row /\ stamp' \in Nat /\ RowsOK'
    BY <1>1, <2>1, <2>2, <2>3, ChangeKeepsRows
  <2>5. AnswersOK' /\ heldAt' \in [Answers -> -1 .. LastMoment]
    BY <1>1, <2>1, NotedAnswers, ConsentNow
  <2>6. ConsentTypeOK'
    BY <1>1, <2>1, <2>3, <2>4, <2>5 DEF ConsentInv, ConsentTypeOK
  <2>7. ApartOK'
    BY <1>1, <2>1, SameApart DEF Started, Working
  <2>8. PICK s \in rows' :
          /\ Stamped(s, g, "expired") /\ Latest' = {s}
          /\ \E r \in rows : r.by = g /\ r.expires = s.expires
          /\ \A t \in rows' : t = s \/ (t \in rows /\ t.by # g)
          /\ \A r \in rows : r.by # g => r \in rows'
    BY <2>1, <2>2, ChangeFacts
  <2>9. WithdrawnOK'
    BY <2>8 DEF WithdrawnOK, Stamped
  <2>10. Lapsed(s)
    BY <2>8 DEF ConsentInv, RowsOK, Lapsed
  <2>11. GrantedOK'
    <3> SUFFICES ASSUME NEW h \in Grants
                 PROVE  /\ Started(h) /\ h \notin overtaken =>
                               \A r \in rows' : r.updated >= stamped[h] => r.status = "granted" \/ Lapsed(r)
                        /\ Answered(h) => \E r \in rows' : r.updated >= stamped[h]
      BY <1>1, <2>1 DEF GrantedOK, Lapsed, Started, Answered
    <3>1. s.updated >= stamped[h]
      <4>1. stamped[h] \in Nat /\ stamped[h] <= stamp /\ stamp \in Nat
        BY DEF ConsentInv, ConsentTypeOK, RowsOK
      <4>2. QED
        BY <2>8, <4>1 DEF Stamped
    <3>2. QED
      BY <2>8, <2>10, <3>1 DEF ConsentInv, GrantedOK
  <2>12. QED
    BY <2>4, <2>5, <2>6, <2>7, <2>9, <2>11 DEF ConsentInv
<1>4. QED
  BY <1>2, <1>3

LEMMA PassKeeps == ASSUME ConsentInv, NEW e \in Passes, Pass(e) PROVE ConsentInv'
<1>1. UNCHANGED <<moment, stamp, rows, stamped, found, cached, heldAt, overtaken>>
  BY DEF Pass
<1>2. Arrives(e, "write")
  BY ArrivesAt, KindsApart DEF Pass, ReachedLabels
<1>3. /\ picked' \in [Withdrawals \cup Passes -> SUBSET Grants]
      /\ picked'[e] = {r.by : r \in {q \in rows : q.status = "granted" /\ Lapsed(q)}}
      /\ \A c \in Withdrawals \cup Passes : c # e => picked'[c] = picked[c]
  <2>1. {r.by : r \in {q \in rows : q.status = "granted" /\ Lapsed(q)}} \subseteq Grants
    BY DEF ConsentInv, ConsentTypeOK, Row
  <2>2. QED
    BY <2>1 DEF Pass, ConsentInv, ConsentTypeOK
<1>4. \A c \in Grants \cup Withdrawals : reached'[c] = reached[c]
  BY <1>2, KindsApart DEF Arrives
<1>5. ConsentTypeOK'
  BY <1>1, <1>2, <1>3 DEF ConsentInv, ConsentTypeOK, Arrives, ReachedLabels
<1>6. RowsOK'
  <2>1. \A c \in Withdrawals \cup Passes : \A g \in picked'[c] : \E r \in rows : r.by = g
    BY <1>3 DEF ConsentInv, RowsOK
  <2>2. \A d \in Passes : \A r \in rows : r.by \in picked'[d] => Lapsed(r)
    <3> SUFFICES ASSUME NEW d \in Passes, NEW r \in rows, r.by \in picked'[d] PROVE Lapsed(r)
      OBVIOUS
    <3>1. CASE d = e
      <4>1. PICK q \in rows : Lapsed(q) /\ q.by = r.by
        BY <1>3, <3>1
      <4>2. q = r
        BY <4>1 DEF ConsentInv, RowsOK
      <4>3. QED
        BY <4>1, <4>2
    <3>2. CASE d # e
      BY <1>3, <3>2 DEF ConsentInv, RowsOK
    <3>3. QED
      BY <3>1, <3>2
  <2>3. QED
    BY <1>1, <1>4, <2>1, <2>2 DEF ConsentInv, RowsOK, Lapsed
<1>7. AnswersOK'
  BY <1>1, <1>2, SameAnswers, KindsApart DEF Arrives
<1>8. ApartOK'
  BY <1>1, <1>4, SameApart DEF Started, Working
<1>9. WithdrawnOK' /\ GrantedOK'
  BY <1>1, <1>4, ConsentNow, SameStands DEF Answered, Started
<1>10. QED
  BY <1>5, <1>6, <1>7, <1>8, <1>9 DEF ConsentInv

(***************************************************************************)
(* A step of the cache, or a failure.                                      *)
(***************************************************************************)
LEMMA CacheStepKeeps ==
    ASSUME ConsentInv, NEW c \in ConsentCalls, NEW label \in ReachedLabels,
           reached' = [reached EXCEPT ![c] = label],
           UNCHANGED <<moment, stamp, rows, stamped, picked, heldAt, overtaken>>,
           \/ c \in Checks
           \/ Working(c) /\ label \in Over /\ (label = "done" => reached[c] = "clear"),
           found' \in [Checks -> [answer : Answers, since : Int]],
           cached' \in [Processes -> [answer : Answers, since : Int]],
           AnswersOK'
    PROVE  ConsentInv'
<1>1. Arrives(c, label)
  BY ArrivesAt
<1>2. ConsentTypeOK'
  BY <1>1 DEF ConsentInv, ConsentTypeOK, Arrives, ReachedLabels
<1>3. ASSUME NEW d \in Grants \cup Withdrawals
      PROVE  /\ Started(d)' => Started(d)
             /\ Working(d)' => Working(d)
             /\ Answered(d)' => Answered(d)
             /\ reached'[d] \in {"start", "write"} => reached[d] \in {"start", "write"}
  BY <1>1, KindsApart DEF Arrives, Started, Working, Answered, Over
<1>4. RowsOK'
  BY <1>3, SameRows, ConsentNow
<1>5. ApartOK'
  BY <1>3, SameApart
<1>6. WithdrawnOK' /\ GrantedOK'
  BY <1>3, ConsentNow, SameStands
<1>7. QED
  BY <1>2, <1>4, <1>5, <1>6 DEF ConsentInv

LEMMA ClearKeeps == ASSUME ConsentInv, NEW c \in ConsentCalls, ClearCache(c) PROVE ConsentInv'
<1>1. /\ reached[c] = "clear" /\ reached' = [reached EXCEPT ![c] = "done"]
      /\ UNCHANGED <<moment, stamp, rows, stamped, picked, found, heldAt, overtaken>>
  BY DEF ClearCache
<1>2. /\ cached' \in [Processes -> [answer : Answers, since : Int]]
      /\ \A p \in Processes : cached'[p] \in {cached[p], Nothing}
  <2>1. Nothing \in [answer : Answers, since : Int]
    BY ConsentAssumption DEF Nothing, Answers
  <2>2. QED
    BY <2>1 DEF ClearCache, ConsentInv, ConsentTypeOK
<1>3. Arrives(c, "done")
  BY <1>1, ArrivesAt DEF ReachedLabels, Over
<1>4. AnswersOK'
  BY <1>1, <1>2, <1>3, SameAnswers, KindsApart DEF Arrives
<1>5. "done" \in ReachedLabels /\ "done" \in Over /\ Working(c)
  BY <1>1 DEF ReachedLabels, Over, Working
<1>6. found' \in [Checks -> [answer : Answers, since : Int]]
  BY <1>1 DEF ConsentInv, ConsentTypeOK
<1>7. QED
  BY <1>1, <1>2, <1>4, <1>5, <1>6, CacheStepKeeps

LEMMA FailsKeeps == ASSUME ConsentInv, NEW c \in ConsentCalls, ConsentFails(c) PROVE ConsentInv'
<1>1. /\ Working(c) /\ reached' = [reached EXCEPT ![c] = "failed"]
      /\ UNCHANGED <<moment, stamp, rows, stamped, picked, found, cached, heldAt, overtaken>>
  BY DEF ConsentFails, Working
<1>2. "failed" \in ReachedLabels /\ "failed" \in Over
  BY DEF ReachedLabels, Over
<1>3. Arrives(c, "failed")
  BY <1>1, <1>2, ArrivesAt
<1>4. AnswersOK'
  BY <1>1, <1>3, SameAnswers, KindsApart DEF Arrives
<1>5. /\ found' \in [Checks -> [answer : Answers, since : Int]]
      /\ cached' \in [Processes -> [answer : Answers, since : Int]]
  BY <1>1 DEF ConsentInv, ConsentTypeOK
<1>6. QED
  BY <1>1, <1>2, <1>4, <1>5, CacheStepKeeps

(***************************************************************************)
(* A check notes the time, then the answer, and stores both.               *)
(***************************************************************************)
LEMMA CheckKeeps == ASSUME ConsentInv, NEW q \in Checks, Check(q) PROVE ConsentInv'
<1>1. /\ reached[q] = "start"
      /\ UNCHANGED <<moment, stamp, rows, stamped, picked, cached, heldAt, overtaken>>
  BY DEF Check
<1>2. PICK label \in {"done", "read"} : reached' = [reached EXCEPT ![q] = label]
  BY DEF Check
<1>3. label \in ReachedLabels
  BY <1>2 DEF ReachedLabels, Over
<1>4. Arrives(q, label)
  BY <1>2, <1>3, ArrivesAt, KindsApart
<1>5. moment \in Int /\ moment <= moment
  BY ConsentNow
<1>6. /\ found' \in [Checks -> [answer : Answers, since : Int]]
      /\ \A d \in Checks : d # q => found'[d] = found[d]
      /\ \A d \in Checks : found'[d].since \in {found[d].since, moment}
  <2>1. /\ found \in [Checks -> [answer : Answers, since : Int]]
        /\ found' = found \/ found' = [found EXCEPT ![q] = [found[q] EXCEPT !.since = moment]]
    BY DEF Check, ConsentInv, ConsentTypeOK
  <2>2. CASE found' = found
    BY <2>1, <2>2
  <2>3. CASE found' = [found EXCEPT ![q] = [found[q] EXCEPT !.since = moment]]
    <3> DEFINE u == [found[q] EXCEPT !.since = moment]
    <3>1. u \in [answer : Answers, since : Int] /\ u.since = moment
      BY <1>5, <2>1
    <3>2. found' = [found EXCEPT ![q] = u]
      BY <2>3
    <3> HIDE DEF u
    <3>3. QED
      BY <2>1, <3>1, <3>2
  <2>4. QED
    BY <2>1, <2>2, <2>3
<1>7. AnswersOK'
  <2>1. Answer' = Answer
    BY <1>1 DEF Answer, Consented, Latest, Lapsed
  <2>2. ASSUME NEW d \in Checks
        PROVE  /\ found'[d].since <= moment
               /\ reached'[d] = "store" => found'[d].since <= heldAt[found'[d].answer]
    <3>1. found[d].since <= moment /\ (reached[d] = "store" => found[d].since <= heldAt[found[d].answer])
      BY DEF ConsentInv, AnswersOK
    <3>0. found'[d].since = found[d].since \/ found'[d].since = moment
      BY <1>6
    <3>2. found'[d].since <= moment
      <4>1. CASE found'[d].since = found[d].since
        BY <3>1, <4>1
      <4>2. CASE found'[d].since = moment
        BY <1>5, <4>2
      <4>3. QED
        BY <3>0, <4>1, <4>2
    <3>3. CASE d = q
      BY <1>2, <1>4, <3>2, <3>3, KindsApart DEF Arrives
    <3>4. CASE d # q
      BY <1>4, <1>6, <3>1, <3>4, KindsApart DEF Arrives
    <3>5. QED
      BY <3>2, <3>3, <3>4
  <2>3. QED
    BY <1>1, <2>1, <2>2 DEF ConsentInv, AnswersOK
<1>8. cached' \in [Processes -> [answer : Answers, since : Int]]
  BY <1>1 DEF ConsentInv, ConsentTypeOK
<1>9. QED
  BY <1>1, <1>2, <1>3, <1>6, <1>7, <1>8, KindsApart, CacheStepKeeps

LEMMA ReadKeeps == ASSUME ConsentInv, NEW q \in Checks, ReadConsent(q) PROVE ConsentInv'
<1>1. /\ reached' = [reached EXCEPT ![q] = "store"] /\ Answer \in Answers
      /\ UNCHANGED <<moment, stamp, rows, stamped, picked, cached, heldAt, overtaken>>
  BY DEF ReadConsent, Answer, Answers
<1>2. "store" \in ReachedLabels
  BY DEF ReachedLabels
<1>3. Arrives(q, "store")
  BY <1>1, <1>2, ArrivesAt, KindsApart
<1>4. /\ found' \in [Checks -> [answer : Answers, since : Int]]
      /\ \A d \in Checks : found'[d].since = found[d].since /\ (d # q => found'[d] = found[d])
      /\ found'[q].answer = Answer
  BY <1>1 DEF ReadConsent, ConsentInv, ConsentTypeOK
<1>5. AnswersOK'
  <2>1. Answer' = Answer
    BY <1>1 DEF Answer, Consented, Latest, Lapsed
  <2>2. \A d \in Checks :
           /\ found'[d].since <= moment
           /\ reached'[d] = "store" => found'[d].since <= heldAt[found'[d].answer]
    BY <1>3, <1>4, KindsApart DEF Arrives, ConsentInv, AnswersOK
  <2>3. QED
    BY <1>1, <2>1, <2>2 DEF ConsentInv, AnswersOK
<1>6. cached' \in [Processes -> [answer : Answers, since : Int]]
  BY <1>1 DEF ConsentInv, ConsentTypeOK
<1>7. QED
  BY <1>1, <1>2, <1>4, <1>5, <1>6, KindsApart, CacheStepKeeps

LEMMA StoreKeeps == ASSUME ConsentInv, NEW q \in Checks, Store(q) PROVE ConsentInv'
<1>1. /\ reached[q] = "store" /\ reached' = [reached EXCEPT ![q] = "done"]
      /\ UNCHANGED <<moment, stamp, rows, stamped, picked, found, heldAt, overtaken>>
  BY DEF Store
<1>2. "done" \in ReachedLabels
  BY DEF ReachedLabels, Over
<1>3. Arrives(q, "done")
  BY <1>1, <1>2, ArrivesAt, KindsApart
<1>4. /\ cached' \in [Processes -> [answer : Answers, since : Int]]
      /\ \A p \in Processes : cached'[p] \in {cached[p], found[q]}
  BY DEF Store, ConsentInv, ConsentTypeOK
<1>5. AnswersOK'
  <2>1. Answer' = Answer
    BY <1>1 DEF Answer, Consented, Latest, Lapsed
  <2>2. \A p \in Processes : cached'[p].since <= heldAt[cached'[p].answer]
    BY <1>1, <1>4 DEF ConsentInv, AnswersOK
  <2>3. \A d \in Checks : reached'[d] = "store" => reached[d] = "store"
    BY <1>3, KindsApart DEF Arrives
  <2>4. QED
    BY <1>1, <2>1, <2>2, <2>3 DEF ConsentInv, AnswersOK
<1>6. found' \in [Checks -> [answer : Answers, since : Int]]
  BY <1>1 DEF ConsentInv, ConsentTypeOK
<1>7. QED
  BY <1>1, <1>2, <1>4, <1>5, <1>6, KindsApart, CacheStepKeeps

LEMMA ExpiryKeeps == ASSUME ConsentInv, SetExpiry PROVE ConsentInv'
<1>1. PICK r \in rows : /\ r.expires = Never /\ r.status = "granted"
                        /\ rows' = (rows \ {r}) \cup {[r EXCEPT !.expires = moment + 1]}
  BY DEF SetExpiry
<1> DEFINE s == [r EXCEPT !.expires = moment + 1]
<1>2. /\ s.by = r.by /\ s.status = r.status /\ s.updated = r.updated /\ s.expires = moment + 1 /\ s \in Row
      /\ r \in Row /\ rows \subseteq Row
  <2>1. r \in Row /\ rows \subseteq Row
    BY DEF ConsentInv, ConsentTypeOK
  <2>2. moment + 1 \in 0 .. LastMoment + 1
    BY ConsentAssumption DEF ConsentInv, ConsentTypeOK
  <2>3. s \in Row
    BY <2>1, <2>2 DEF Row
  <2>4. s.by = r.by /\ s.status = r.status /\ s.updated = r.updated /\ s.expires = moment + 1
    BY <2>1 DEF Row
  <2>5. QED
    BY <2>1, <2>3, <2>4
<1>3. rows' = (rows \ {r}) \cup {s}
  BY <1>1
<1> HIDE DEF s
<1>4. /\ UNCHANGED <<moment, stamp, reached, stamped, picked, found, cached, heldAt, overtaken>>
      /\ moment \in Int /\ moment <= LastMoment
  BY ConsentAssumption DEF SetExpiry, ConsentInv, ConsentTypeOK
<1>5. ~ Lapsed(r) /\ ~ Lapsed(s)
  BY <1>1, <1>2, <1>4, ConsentAssumption DEF Lapsed, Never
<1>6. ConsentTypeOK'
  BY <1>2, <1>3, <1>4 DEF ConsentInv, ConsentTypeOK
<1>7. RowsOK'
  <2>1. \A e \in Passes : r.by \notin picked[e]
    BY <1>5 DEF ConsentInv, RowsOK
  <2>2. \A t, u \in rows' : t.by = u.by => t = u
    BY <1>2, <1>3 DEF ConsentInv, RowsOK
  <2>3. \A c \in Withdrawals \cup Passes : \A g \in picked[c] : \E t \in rows' : t.by = g
    <3> SUFFICES ASSUME NEW c \in Withdrawals \cup Passes, NEW g \in picked[c] PROVE \E t \in rows' : t.by = g
      OBVIOUS
    <3>1. PICK t \in rows : t.by = g
      BY DEF ConsentInv, RowsOK
    <3>2. QED
      BY <1>2, <1>3, <3>1
  <2>4. QED
    BY <1>2, <1>3, <1>4, <2>1, <2>2, <2>3 DEF ConsentInv, RowsOK, Lapsed
<1>8. \A t \in Latest' : \E u \in Latest : u.status = t.status /\ (Lapsed(t) <=> Lapsed(u))
  <2> SUFFICES ASSUME NEW t \in Latest'
               PROVE  \E u \in Latest : u.status = t.status /\ (Lapsed(t) <=> Lapsed(u))
    OBVIOUS
  <2>1. CASE t = s
    BY <1>2, <1>3, <1>5, <2>1 DEF Latest
  <2>2. CASE t # s
    BY <1>2, <1>3, <2>2 DEF Latest
  <2>3. QED
    BY <2>1, <2>2
<1>9. \A u \in Latest : \E t \in Latest' : u.status = t.status /\ (Lapsed(t) <=> Lapsed(u))
  <2> SUFFICES ASSUME NEW u \in Latest
               PROVE  \E t \in Latest' : u.status = t.status /\ (Lapsed(t) <=> Lapsed(u))
    OBVIOUS
  <2>1. CASE u = r
    <3>1. s \in Latest'
      BY <1>2, <1>3, <2>1 DEF Latest
    <3>2. QED
      BY <1>2, <1>5, <2>1, <3>1
  <2>2. CASE u # r
    BY <1>2, <1>3, <2>2 DEF Latest
  <2>3. QED
    BY <2>1, <2>2
<1>10. AnswersOK'
  <2>1. \A t \in rows : t.expires <= moment' <=> t.expires <= moment
    BY <1>4
  <2>2. Consented' <=> Consented
    BY <1>4, <1>8, <1>9 DEF Consented, Lapsed
  <2>3. Answer' = Answer
    BY <2>2 DEF Answer
  <2>4. QED
    BY <1>4, <2>3 DEF ConsentInv, AnswersOK
<1>11. ApartOK'
  BY <1>4, SameApart DEF Started, Working
<1>12. WithdrawnOK'
  BY <1>4, <1>8 DEF ConsentInv, WithdrawnOK, Answered
<1>13. GrantedOK'
  <2> SUFFICES ASSUME NEW h \in Grants
               PROVE  /\ Started(h) /\ h \notin overtaken =>
                             \A t \in rows' : t.updated >= stamped[h] => t.status = "granted" \/ Lapsed(t)
                      /\ Answered(h) => \E t \in rows' : t.updated >= stamped[h]
    BY <1>4 DEF GrantedOK, Lapsed, Started, Answered
  <2>1. QED
    BY <1>1, <1>2, <1>3 DEF ConsentInv, GrantedOK
<1>14. QED
  BY <1>6, <1>7, <1>10, <1>11, <1>12, <1>13 DEF ConsentInv

LEMMA ClockKeeps == ASSUME ConsentInv, TimePasses PROVE ConsentInv'
<1>1. /\ Noted /\ UNCHANGED <<stamp, rows, reached, stamped, picked, found, cached, overtaken>>
      /\ moment' \in 0 .. LastMoment /\ moment <= moment'
  BY ConsentAssumption DEF TimePasses, ConsentInv, ConsentTypeOK
<1>2. AnswersOK' /\ heldAt' \in [Answers -> -1 .. LastMoment]
  BY <1>1, NotedAnswers
<1>3. ConsentTypeOK'
  BY <1>1, <1>2 DEF ConsentInv, ConsentTypeOK
<1>4. RowsOK'
  BY <1>1, SameRows
<1>5. ApartOK'
  BY <1>1, SameApart DEF Started, Working
<1>6. WithdrawnOK' /\ GrantedOK'
  BY <1>1, SameStands DEF Answered, Started
<1>7. QED
  BY <1>2, <1>3, <1>4, <1>5, <1>6 DEF ConsentInv

LEMMA ConsentNextInv == ConsentInv /\ [ConsentNext]_consentVars => ConsentInv'
<1> SUFFICES ASSUME ConsentInv, [ConsentNext]_consentVars PROVE ConsentInv'
  OBVIOUS
<1>1. CASE UNCHANGED consentVars
  BY <1>1 DEF consentVars, ConsentInv, ConsentTypeOK, RowsOK, AnswersOK, ApartOK, WithdrawnOK, GrantedOK,
              Started, Working, Answered, Answer, Consented, Latest, Lapsed
<1>2. ASSUME NEW g \in Grants, Grant(g) \/ Record(g) PROVE ConsentInv'
  BY <1>2, GrantKeeps, RecordKeeps
<1>3. ASSUME NEW w \in Withdrawals, Withdraw(w) \/ WriteWithdrawn(w) PROVE ConsentInv'
  BY <1>3, WithdrawKeeps, WriteWithdrawnKeeps
<1>4. ASSUME NEW e \in Passes, Pass(e) \/ Expire(e) PROVE ConsentInv'
  BY <1>4, PassKeeps, ExpireKeeps
<1>5. ASSUME NEW q \in Checks, Check(q) \/ ReadConsent(q) \/ Store(q) PROVE ConsentInv'
  BY <1>5, CheckKeeps, ReadKeeps, StoreKeeps
<1>6. ASSUME NEW c \in ConsentCalls, ClearCache(c) \/ ConsentFails(c) PROVE ConsentInv'
  BY <1>6, ClearKeeps, FailsKeeps
<1>7. QED
  BY <1>1, <1>2, <1>3, <1>4, <1>5, <1>6, ExpiryKeeps, ClockKeeps DEF ConsentNext

LEMMA ConsentInvSafe == ConsentInv => ConsentSafe
<1> SUFFICES ASSUME ConsentInv PROVE ConsentSafe
  OBVIOUS
<1>1. AnswerWasTrue
  <2> SUFFICES ASSUME NEW p \in Processes PROVE heldAt[cached[p].answer] >= cached[p].since
    BY DEF AnswerWasTrue
  <2>1. cached[p].answer \in Answers /\ cached[p].since \in Int
    BY DEF ConsentInv, ConsentTypeOK
  <2>2. heldAt[cached[p].answer] \in Int
    BY <2>1 DEF ConsentInv, ConsentTypeOK
  <2>3. QED
    BY <2>1, <2>2 DEF ConsentInv, AnswersOK
<1>2. WithdrawalStands
  BY DEF ConsentInv, WithdrawnOK, WithdrawalStands, Consented, Answered
<1>3. GrantStands
  <2> SUFFICES ASSUME NEW g \in Grants, reached[g] = "done", g \notin overtaken, NEW r \in Latest
               PROVE  r.status = "granted" \/ Lapsed(r)
    BY DEF GrantStands
  <2>1. PICK s \in rows : s.updated >= stamped[g]
    BY DEF ConsentInv, GrantedOK, Answered
  <2>2. s.updated <= r.updated /\ r \in rows
    BY DEF Latest
  <2>3. r.updated \in Nat /\ s.updated \in Nat /\ stamped[g] \in Nat
    BY <2>2 DEF ConsentInv, ConsentTypeOK, Row
  <2>4. r.updated >= stamped[g]
    BY <2>1, <2>2, <2>3
  <2>5. QED
    BY <2>2, <2>4 DEF ConsentInv, GrantedOK, Started
<1>4. QED
  BY <1>1, <1>2, <1>3 DEF ConsentSafe

(***************************************************************************)
(* A consent served from a cache was the right answer when its entry was   *)
(* asked for, or later; after a withdrawal that was answered there is no   *)
(* consent; after a grant that was answered the row that decides is        *)
(* granted, or has lapsed.                                                 *)
(***************************************************************************)
THEOREM ConsentsAreSafe == ConsentSpec => []ConsentSafe
<1>1. ConsentInit => ConsentInv
  BY ConsentInitInv
<1>2. ConsentInv /\ [ConsentNext]_consentVars => ConsentInv'
  BY ConsentNextInv
<1>3. ConsentInv => ConsentSafe
  BY ConsentInvSafe
<1>4. QED
  BY <1>1, <1>2, <1>3, PTL DEF ConsentSpec

-----------------------------------------------------------------------------
(* The erasure of a user *)

UserRow == [active: BOOLEAN, anonymous: BOOLEAN, deadline: {"none", "future", "past"}]

Certificate == [status: {"none", "pending", "completed"}, tables: SUBSET Tables]

ErasurePc == {"new", "open", "mark", "revoke", "email", "anonymize",
              "delete", "certify", "cancel", "done", "dead"}

ErasingCall ==
    [pc: ErasurePc, active: BOOLEAN, marked: BOOLEAN, own: BOOLEAN, erased: SUBSET Tables]

(***************************************************************************)
(* Where the calls are: executions alone anonymize, and the row says so.   *)
(***************************************************************************)
CallsApart ==
    \A c \in ErasureCalls :
        /\ erasing[c].pc \in {"mark", "revoke"} => c \in Requests
        /\ erasing[c].pc \in {"email", "anonymize", "delete", "certify"} => c \in Executions

Anonymized ==
    \A e \in Executions :
        /\ erasing[e].pc = "anonymize" /\ ~ user.anonymous => erasing[e].own
        /\ erasing[e].pc \in {"delete", "certify"} => user.anonymous
        /\ cert[e].status = "completed" => user.anonymous /\ erasing[e].pc = "done"

(***************************************************************************)
(* The execution that was the first to anonymize the row had read the      *)
(* address before: it empties the tables, the one of the tokens included,  *)
(* and what is in them again was written since.                            *)
(***************************************************************************)
FirstErases ==
    user.anonymous /\ ~ failedOnce =>
        \E x \in Executions :
            /\ erasing[x].own
            /\ \/ erasing[x].pc = "delete"
               \/ erasing[x].pc \in {"certify", "done"} /\ holds \subseteq late

(***************************************************************************)
(* A call that loaded an inactive row knows as much as the row: nobody     *)
(* but a cancellation makes it active again.                               *)
(***************************************************************************)
LoadedRight ==
    \A c \in ErasureCalls : ~ cancelled /\ ~ erasing[c].active => ~ user.active

(***************************************************************************)
(* Nobody is erased early: while an execution works for no verified        *)
(* request, the user it was listed for is due, or was cancelled or marked  *)
(* in its face.                                                            *)
(***************************************************************************)
WorkIsDue ==
    \A e \in Executing : e \in Verified \/ metExecution \/ Due

ErasureInv ==
    ErasureTypeOK /\ CallsApart /\ Anonymized /\ FirstErases /\ WorkIsDue /\ LoadedRight /\ StaysMarked

LEMMA ErasureInitInv == ErasureInit => ErasureInv
<1> SUFFICES ASSUME ErasureInit PROVE ErasureInv
  OBVIOUS
<1>1. \A c \in ErasureCalls :
          /\ erasing[c] = [pc |-> "new", active |-> TRUE, marked |-> FALSE, own |-> FALSE,
                           erased |-> {}]
          /\ cert[c] = [status |-> "none", tables |-> {}]
  BY DEF ErasureInit
<1>2. ErasureTypeOK
  BY DEF ErasureInit, ErasureTypeOK
<1>3. CallsApart /\ Anonymized /\ FirstErases /\ WorkIsDue /\ LoadedRight /\ StaysMarked
  BY <1>1 DEF ErasureInit, CallsApart, Anonymized, FirstErases, WorkIsDue, LoadedRight,
              StaysMarked, Executing, ErasureCalls
<1>4. QED
  BY <1>2, <1>3 DEF ErasureInv

(***************************************************************************)
(* What a step writes of a call and of its certificate.                    *)
(***************************************************************************)
Issued(c, u) ==
    /\ erasing' \in [ErasureCalls -> ErasingCall]
    /\ erasing'[c] = u
    /\ \A d \in ErasureCalls : d # c => erasing'[d] = erasing[d]

LEMMA WroteCall ==
    ASSUME ErasureInv, NEW c \in ErasureCalls, NEW u \in ErasingCall,
           erasing' = [erasing EXCEPT ![c] = u]
    PROVE  Issued(c, u)
  BY DEF ErasureInv, ErasureTypeOK, Issued, ErasingCall, ErasurePc

LEMMA GotoWrites ==
    ASSUME ErasureInv, NEW c \in ErasureCalls, NEW label \in ErasurePc, EGoto(c, label)
    PROVE  \E u \in ErasingCall :
               /\ Issued(c, u)
               /\ u.pc = label /\ u.own = erasing[c].own /\ u.active = erasing[c].active
<1> DEFINE u == [erasing[c] EXCEPT !.pc = label]
<1>1. u \in ErasingCall /\ u.pc = label /\ u.own = erasing[c].own /\ u.active = erasing[c].active
  BY DEF ErasureInv, ErasureTypeOK, ErasingCall, ErasurePc
<1>2. erasing' = [erasing EXCEPT ![c] = u]
  BY DEF EGoto
<1> HIDE DEF u
<1>3. QED
  BY <1>1, <1>2, WroteCall

LEMMA LoadWrites ==
    ASSUME ErasureInv, NEW c \in ErasureCalls, NEW label \in ErasurePc, GetUser(c, label)
    PROVE  \E u \in ErasingCall :
               /\ Issued(c, u)
               /\ u.pc = label /\ u.own = erasing[c].own /\ u.active = user.active
<1>a. PICK active \in BOOLEAN, flag \in BOOLEAN :
          active = user.active /\ flag = (user.deadline # "none")
  BY DEF ErasureInv, ErasureTypeOK
<1> DEFINE u == [erasing[c] EXCEPT !.pc = label, !.active = active, !.marked = flag]
<1>1. u \in ErasingCall /\ u.pc = label /\ u.own = erasing[c].own /\ u.active = user.active
  <2>1. erasing[c] \in ErasingCall
    BY DEF ErasureInv, ErasureTypeOK, ErasingCall, ErasurePc
  <2>2. QED
    BY <1>a, <2>1 DEF ErasingCall
<1>2. erasing' = [erasing EXCEPT ![c] = u]
  BY <1>a DEF GetUser, ErasureInv, ErasureTypeOK
<1> HIDE DEF u
<1>3. QED
  BY <1>1, <1>2, WroteCall

(***************************************************************************)
(* A step that moves one call to a place where it stands for nothing, and  *)
(* writes neither the row of the user nor a certificate's end.             *)
(***************************************************************************)
LEMMA EasyStep ==
    ASSUME ErasureInv, NEW c \in ErasureCalls, NEW u \in ErasingCall, Issued(c, u),
           UNCHANGED <<user, visit, late, cancelled, metExecution>>, profile' \in BOOLEAN,
           cert' \in [ErasureCalls -> Certificate],
           \A e \in Executions :
               cert'[e].status = "completed" => cert[e].status = "completed",
           holds' \subseteq holds,
           failedOnce' \in BOOLEAN, failedOnce => failedOnce',
           u.pc \in {"mark", "revoke"} => c \in Requests,
           u.pc \in {"email", "anonymize", "delete", "certify"} => c \in Executions,
           u.pc \notin {"delete", "certify"},
           u.active = erasing[c].active \/ u.active = user.active,
           u.pc = "anonymize" => u.own \/ user.anonymous,
           erasing[c].pc \in {"delete", "certify"} => failedOnce',
           erasing[c].pc # "done",
           c \in Executions /\ u.pc \notin {"new", "done", "dead"} =>
               c \in Executing \/ c \in Verified \/ Due
    PROVE  ErasureInv'
<1>1. ErasureTypeOK'
  BY DEF ErasureInv, ErasureTypeOK, Issued, ErasingCall, ErasurePc, Certificate
<1>2. CallsApart'
  BY DEF ErasureInv, CallsApart, Issued
<1>3. Anonymized'
  BY DEF ErasureInv, Anonymized, Issued, ErasureCalls
<1>4. FirstErases'
  <2> SUFFICES ASSUME user.anonymous, ~ failedOnce, ~ failedOnce'
               PROVE  \E x \in Executions :
                          /\ erasing'[x].own
                          /\ \/ erasing'[x].pc = "delete"
                             \/ erasing'[x].pc \in {"certify", "done"} /\ holds' \subseteq late'
    BY DEF FirstErases, ErasureInv, ErasureTypeOK
  <2>1. PICK x \in Executions :
            /\ erasing[x].own
            /\ \/ erasing[x].pc = "delete"
               \/ erasing[x].pc \in {"certify", "done"} /\ holds \subseteq late
    BY DEF ErasureInv, FirstErases
  <2>2. x # c /\ x \in ErasureCalls
    BY <2>1 DEF ErasureCalls
  <2>3. QED
    BY <2>1, <2>2 DEF Issued
<1>5. WorkIsDue'
  BY DEF ErasureInv, WorkIsDue, Executing, Due, Issued, ErasureCalls
<1>6. LoadedRight'
  BY DEF ErasureInv, LoadedRight, Issued
<1>7. StaysMarked'
  BY DEF ErasureInv, StaysMarked
<1>8. QED
  BY <1>1, <1>2, <1>3, <1>4, <1>5, <1>6, <1>7 DEF ErasureInv

LEMMA CallTypes ==
    ASSUME ErasureInv, NEW c \in ErasureCalls
    PROVE  /\ erasing[c] \in ErasingCall /\ cert[c] \in Certificate
           /\ cert \in [ErasureCalls -> Certificate] /\ user \in UserRow
           /\ failedOnce \in BOOLEAN /\ profile \in BOOLEAN
  BY DEF ErasureInv, ErasureTypeOK, ErasingCall, ErasurePc, Certificate, UserRow

LEMMA OpenKeeps ==
    ASSUME ErasureInv, NEW c \in ErasureCalls, NEW label \in {"mark", "email"},
           OpenCertificate(c, label), label = "mark" => c \in Requests,
           label = "email" => c \in Executions
    PROVE  ErasureInv'
<1>1. PICK u \in ErasingCall : Issued(c, u) /\ u.pc = label /\ u.active = erasing[c].active
  BY GotoWrites DEF OpenCertificate, ErasurePc
<1>2. /\ UNCHANGED <<user, holds, visit, profile, late, cancelled, metExecution, failedOnce>>
      /\ erasing[c].pc = "open"
      /\ cert' = [cert EXCEPT ![c].status = "pending"]
  BY DEF OpenCertificate, visitVars
<1>3. /\ cert' \in [ErasureCalls -> Certificate]
      /\ \A e \in Executions : cert'[e].status = "completed" => cert[e].status = "completed"
  BY <1>2, CallTypes DEF Certificate, ErasureCalls
<1>4. c \in Executions => c \in Executing
  BY <1>2 DEF Executing
<1>5. QED
  BY <1>1, <1>2, <1>3, <1>4, CallTypes, EasyStep

LEMMA MovesKeep ==
    ASSUME ErasureInv, NEW c \in ErasureCalls,
           \/ Ask(c, "open") /\ c \in Requests
           \/ Ask(c, "cancel") /\ c \in Cancellations
           \/ SoleOwner(c)
           \/ RevokeAuthSession(c)
           \/ SelectDue(c) /\ c \in Executions
    PROVE  ErasureInv'
<1>1. PICK u \in ErasingCall :
          /\ Issued(c, u) /\ u.pc \in {"open", "cancel", "done"}
          /\ u.active = erasing[c].active \/ u.active = user.active
          /\ u.pc \in {"open", "cancel"} => c \in Requests \cup Cancellations \/ c \in Verified \/ Due
  BY GotoWrites, LoadWrites DEF Ask, SoleOwner, RevokeAuthSession, SelectDue, ErasurePc
<1>2. /\ UNCHANGED <<user, cert, visit, late, cancelled, metExecution, failedOnce>>
      /\ erasing[c].pc \in {"new", "open", "revoke"}
  BY DEF Ask, SoleOwner, RevokeAuthSession, SelectDue, visitVars
<1>3. profile' \in BOOLEAN /\ holds' \subseteq holds
  BY CallTypes DEF Ask, SoleOwner, RevokeAuthSession, SelectDue, visitVars
<1>4. c \in Requests \cup Cancellations => c \notin Executions
  BY ErasureAssumption
<1>5. QED
  BY <1>1, <1>2, <1>3, <1>4, CallTypes, EasyStep

LEMMA LoadUserKeeps ==
    ASSUME ErasureInv, NEW c \in ErasureCalls, LoadUser(c)
    PROVE  ErasureInv'
<1>1. /\ UNCHANGED <<user, holds, cert, visit, profile, late, cancelled, metExecution, failedOnce>>
      /\ erasing[c].pc \in {"mark", "cancel", "anonymize"} /\ GetUser(c, erasing[c].pc)
  BY DEF LoadUser, visitVars
<1>2. PICK u \in ErasingCall :
          Issued(c, u) /\ u.pc = erasing[c].pc /\ u.own = erasing[c].own /\ u.active = user.active
  BY <1>1, LoadWrites DEF ErasurePc
<1>3. /\ u.pc = "mark" => c \in Requests
      /\ u.pc = "anonymize" => c \in Executions
  BY <1>2 DEF ErasureInv, CallsApart
<1>4. u.pc = "anonymize" => u.own \/ user.anonymous
  BY <1>2, <1>3 DEF ErasureInv, Anonymized
<1>5. c \in Executions => c \in Executing
  BY <1>1 DEF Executing
<1>6. QED
  BY <1>1, <1>2, <1>3, <1>4, <1>5, CallTypes, EasyStep

LEMMA DiesKeeps ==
    ASSUME ErasureInv, NEW c \in ErasureCalls, ErasureDies(c)
    PROVE  ErasureInv'
<1>1. PICK u \in ErasingCall : Issued(c, u) /\ u.pc = "dead" /\ u.active = erasing[c].active
  BY GotoWrites DEF ErasureDies, ErasurePc
<1>2. /\ UNCHANGED <<user, holds, cert, visit, profile, late, cancelled, metExecution>>
      /\ failedOnce' = (failedOnce \/ c \in Executions)
      /\ erasing[c].pc \notin {"new", "done", "dead"}
  BY DEF ErasureDies, visitVars
<1>3. erasing[c].pc \in {"delete", "certify"} => failedOnce'
  BY <1>2 DEF ErasureInv, CallsApart
<1>4. failedOnce' \in BOOLEAN /\ (failedOnce => failedOnce')
  BY <1>2
<1>5. QED
  BY <1>1, <1>2, <1>3, <1>4, CallTypes, EasyStep

LEMMA EmailKeeps ==
    ASSUME ErasureInv, NEW e \in Executions, GetUserEmail(e)
    PROVE  ErasureInv'
<1>0. e \in ErasureCalls
  BY DEF ErasureCalls
<1> DEFINE u == [erasing[e] EXCEPT !.pc = "anonymize", !.own = ~ user.anonymous]
<1>1. /\ u \in ErasingCall /\ u.pc = "anonymize" /\ u.own = ~ user.anonymous
      /\ u.active = erasing[e].active
  BY <1>0, CallTypes DEF ErasingCall, ErasurePc
<1>2. erasing' = [erasing EXCEPT ![e] = u]
  BY <1>0 DEF GetUserEmail, ErasureInv, ErasureTypeOK
<1> HIDE DEF u
<1>3. Issued(e, u)
  BY <1>0, <1>1, <1>2, WroteCall
<1>4. /\ UNCHANGED <<user, holds, cert, visit, profile, late, cancelled, metExecution, failedOnce>>
      /\ erasing[e].pc = "email"
  BY DEF GetUserEmail, visitVars
<1>5. e \in Executing
  BY <1>4 DEF Executing
<1>6. QED
  BY <1>0, <1>1, <1>3, <1>4, <1>5, CallTypes, EasyStep

(***************************************************************************)
(* The steps that write the row of the user.                               *)
(***************************************************************************)
LEMMA MarkKeeps ==
    ASSUME ErasureInv, NEW r \in Requests, MarkUserForDeletion(r)
    PROVE  ErasureInv'
<1>0. r \in ErasureCalls /\ r \notin Executions
  BY ErasureAssumption DEF ErasureCalls
<1> DEFINE u == [erasing[r] EXCEPT !.pc = "revoke", !.own = ~ user.anonymous]
<1>a. u \in ErasingCall /\ u.pc = "revoke" /\ u.active = erasing[r].active
  BY <1>0, CallTypes DEF ErasingCall, ErasurePc, UserRow
<1>b. erasing' = [erasing EXCEPT ![r] = u]
  BY <1>0 DEF MarkUserForDeletion, ErasureInv, ErasureTypeOK
<1> HIDE DEF u
<1>1. Issued(r, u)
  BY <1>0, <1>a, <1>b, WroteCall
<1>2. /\ user'.active \in BOOLEAN /\ (user'.active => user.active) /\ user'.deadline = "future"
      /\ user'.anonymous = user.anonymous /\ user' \in UserRow
      /\ UNCHANGED <<holds, cert, visit, profile, late, cancelled, failedOnce>>
      /\ metExecution' = (metExecution \/ Executing # {})
  BY <1>0, CallTypes DEF MarkUserForDeletion, UserRow, Activated, visitVars
<1>3. \A e \in Executions : erasing'[e] = erasing[e]
  BY <1>0, <1>1 DEF Issued, ErasureCalls
<1>4. ErasureTypeOK'
  BY <1>1, <1>2 DEF ErasureInv, ErasureTypeOK, Issued, ErasingCall, ErasurePc, UserRow
<1>5. CallsApart'
  BY <1>a, <1>1 DEF ErasureInv, CallsApart, Issued
<1>6. Anonymized' /\ FirstErases'
  BY <1>2, <1>3 DEF ErasureInv, Anonymized, FirstErases
<1>7. WorkIsDue'
  BY <1>2, <1>3 DEF WorkIsDue, Executing
<1>8. LoadedRight' /\ StaysMarked'
  BY <1>a, <1>1, <1>2 DEF ErasureInv, LoadedRight, StaysMarked, Issued
<1>9. QED
  BY <1>4, <1>5, <1>6, <1>7, <1>8 DEF ErasureInv

LEMMA CancelKeeps ==
    ASSUME ErasureInv, NEW k \in Cancellations, CancelDeletion(k)
    PROVE  ErasureInv'
<1>0. k \in ErasureCalls /\ k \notin Executions
  BY ErasureAssumption DEF ErasureCalls
<1>1. PICK u \in ErasingCall : Issued(k, u) /\ u.pc = "done"
  BY <1>0, GotoWrites DEF CancelDeletion, ErasurePc
<1>2. /\ user'.anonymous = user.anonymous /\ user' \in UserRow /\ cancelled' = TRUE
      /\ UNCHANGED <<holds, cert, visit, profile, late, failedOnce>>
      /\ metExecution' = (metExecution \/ Executing # {})
  BY <1>0, CallTypes DEF CancelDeletion, UserRow, Activated, visitVars
<1>3. \A e \in Executions : erasing'[e] = erasing[e]
  BY <1>0, <1>1 DEF Issued, ErasureCalls
<1>4. ErasureTypeOK'
  BY <1>1, <1>2 DEF ErasureInv, ErasureTypeOK, Issued, ErasingCall, ErasurePc, UserRow
<1>5. CallsApart'
  BY <1>1 DEF ErasureInv, CallsApart, Issued
<1>6. Anonymized' /\ FirstErases'
  BY <1>2, <1>3 DEF ErasureInv, Anonymized, FirstErases
<1>7. WorkIsDue'
  BY <1>2, <1>3 DEF WorkIsDue, Executing
<1>8. LoadedRight' /\ StaysMarked'
  BY <1>2 DEF LoadedRight, StaysMarked
<1>9. QED
  BY <1>4, <1>5, <1>6, <1>7, <1>8 DEF ErasureInv

LEMMA AnonymizeKeeps ==
    ASSUME ErasureInv, NEW e \in Executions, AnonymizeUser(e)
    PROVE  ErasureInv'
<1>0. e \in ErasureCalls
  BY DEF ErasureCalls
<1>1. PICK u \in ErasingCall : /\ Issued(e, u) /\ u.pc = "delete" /\ u.own = erasing[e].own
                               /\ u.active = erasing[e].active
  BY <1>0, GotoWrites DEF AnonymizeUser, ErasurePc
<1>2. /\ user'.anonymous = TRUE /\ user'.deadline = "past" /\ user' \in UserRow
      /\ user'.active => user.active
      /\ user'.active => ~ erasing[e].active
      /\ UNCHANGED <<holds, cert, visit, profile, late, cancelled, metExecution, failedOnce>>
      /\ erasing[e].pc = "anonymize"
  BY <1>0, CallTypes DEF AnonymizeUser, Activated, UserRow, ErasingCall, visitVars
<1>3. ErasureTypeOK'
  BY <1>1, <1>2 DEF ErasureInv, ErasureTypeOK, Issued, ErasingCall, ErasurePc, UserRow
<1>4. CallsApart'
  BY <1>1 DEF ErasureInv, CallsApart, Issued
<1>5. Anonymized'
  BY <1>0, <1>1, <1>2 DEF ErasureInv, Anonymized, Issued, ErasureCalls
<1>6. FirstErases'
  <2>1. CASE user.anonymous
    <3> SUFFICES ASSUME ~ failedOnce
                 PROVE  \E x \in Executions :
                            /\ erasing'[x].own
                            /\ \/ erasing'[x].pc = "delete"
                               \/ erasing'[x].pc \in {"certify", "done"} /\ holds' \subseteq late'
      BY <1>2 DEF FirstErases
    <3>1. PICK x \in Executions :
              /\ erasing[x].own
              /\ \/ erasing[x].pc = "delete"
                 \/ erasing[x].pc \in {"certify", "done"} /\ holds \subseteq late
      BY <2>1 DEF ErasureInv, FirstErases
    <3>2. x # e /\ x \in ErasureCalls
      BY <1>2, <3>1 DEF ErasureCalls
    <3>3. QED
      BY <1>1, <1>2, <3>1, <3>2 DEF Issued
  <2>2. CASE ~ user.anonymous
    <3>1. erasing[e].own
      BY <1>2, <2>2 DEF ErasureInv, Anonymized
    <3>2. erasing'[e].own /\ erasing'[e].pc = "delete"
      BY <1>1, <3>1 DEF Issued
    <3>3. QED
      BY <3>2 DEF FirstErases
  <2>3. QED
    BY <2>1, <2>2
<1>7. WorkIsDue'
  <2>1. Executing' = Executing
    BY <1>0, <1>1, <1>2 DEF Executing, Issued, ErasureCalls
  <2>2. Due => Due'
    BY <1>2 DEF Due, UserRow
  <2>3. QED
    BY <1>2, <2>1, <2>2 DEF ErasureInv, WorkIsDue
<1>8. LoadedRight' /\ StaysMarked'
  BY <1>0, <1>1, <1>2 DEF ErasureInv, LoadedRight, StaysMarked, Issued, UserRow
<1>9. QED
  BY <1>3, <1>4, <1>5, <1>6, <1>7, <1>8 DEF ErasureInv

(***************************************************************************)
(* The steps that write the tables and the certificate.                    *)
(***************************************************************************)
LEMMA DeleteKeeps ==
    ASSUME ErasureInv, NEW e \in Executions, DeleteRelatedData(e)
    PROVE  ErasureInv'
<1>0. e \in ErasureCalls
  BY DEF ErasureCalls
<1> DEFINE u == [erasing[e] EXCEPT !.pc = "certify", !.erased = Tables]
<1>1. /\ u \in ErasingCall /\ u.pc = "certify" /\ u.own = erasing[e].own
      /\ u.active = erasing[e].active
  BY <1>0, CallTypes DEF ErasingCall, ErasurePc
<1>2. erasing' = [erasing EXCEPT ![e] = u]
  BY <1>0 DEF DeleteRelatedData, ErasureInv, ErasureTypeOK
<1> HIDE DEF u
<1>3. Issued(e, u)
  BY <1>0, <1>1, <1>2, WroteCall
<1>4. /\ UNCHANGED <<user, cert, visit, profile, cancelled, metExecution, failedOnce>>
      /\ erasing[e].pc = "delete"
      /\ holds' \subseteq holds /\ late' \subseteq late
      /\ holds \subseteq late => holds' \subseteq late'
      /\ erasing[e].own => holds' = {}
  BY DEF DeleteRelatedData
<1>5. ErasureTypeOK'
  BY <1>3, <1>4 DEF ErasureInv, ErasureTypeOK, Issued, ErasingCall, ErasurePc
<1>6. CallsApart'
  BY <1>1, <1>3 DEF ErasureInv, CallsApart, Issued
<1>7. Anonymized'
  BY <1>0, <1>1, <1>3, <1>4 DEF ErasureInv, Anonymized, Issued, ErasureCalls
<1>8. FirstErases'
  <2> SUFFICES ASSUME user.anonymous, ~ failedOnce
               PROVE  \E x \in Executions :
                          /\ erasing'[x].own
                          /\ \/ erasing'[x].pc = "delete"
                             \/ erasing'[x].pc \in {"certify", "done"} /\ holds' \subseteq late'
    BY <1>4 DEF FirstErases
  <2>1. PICK x \in Executions :
            /\ erasing[x].own
            /\ \/ erasing[x].pc = "delete"
               \/ erasing[x].pc \in {"certify", "done"} /\ holds \subseteq late
    BY DEF ErasureInv, FirstErases
  <2>2. CASE x = e
    BY <1>0, <1>1, <1>3, <1>4, <2>1, <2>2 DEF Issued
  <2>3. CASE x # e
    <3>1. erasing'[x] = erasing[x]
      BY <1>3, <1>4, <2>3 DEF Issued, ErasureCalls
    <3>2. QED
      BY <1>4, <2>1, <3>1
  <2>4. QED
    BY <2>2, <2>3
<1>9. WorkIsDue'
  BY <1>0, <1>3, <1>4 DEF ErasureInv, WorkIsDue, Executing, Due, Issued, ErasureCalls
<1>10. LoadedRight' /\ StaysMarked'
  BY <1>0, <1>1, <1>3, <1>4 DEF ErasureInv, LoadedRight, StaysMarked, Issued
<1>11. QED
  BY <1>5, <1>6, <1>7, <1>8, <1>9, <1>10 DEF ErasureInv

LEMMA StatementKeeps ==
    ASSUME ErasureInv, NEW e \in Executions, NEW t \in Tables, StatementFails(e, t)
    PROVE  ErasureInv'
<1>0. e \in ErasureCalls
  BY DEF ErasureCalls
<1> DEFINE u == [erasing[e] EXCEPT !.pc = "certify", !.erased = {s \in Tables : s < t}]
<1>1. u \in ErasingCall /\ u.pc = "certify" /\ u.active = erasing[e].active
  BY <1>0, CallTypes DEF ErasingCall, ErasurePc
<1>2. erasing' = [erasing EXCEPT ![e] = u]
  BY <1>0 DEF StatementFails, ErasureInv, ErasureTypeOK
<1> HIDE DEF u
<1>3. Issued(e, u)
  BY <1>0, <1>1, <1>2, WroteCall
<1>4. /\ UNCHANGED <<user, holds, cert, visit, profile, late, cancelled, metExecution>>
      /\ erasing[e].pc = "delete" /\ failedOnce' = TRUE
  BY DEF StatementFails, visitVars
<1>5. ErasureTypeOK'
  BY <1>3, <1>4 DEF ErasureInv, ErasureTypeOK, Issued, ErasingCall, ErasurePc
<1>6. CallsApart'
  BY <1>1, <1>3 DEF ErasureInv, CallsApart, Issued
<1>7. Anonymized'
  BY <1>0, <1>1, <1>3, <1>4 DEF ErasureInv, Anonymized, Issued, ErasureCalls
<1>8. FirstErases'
  BY <1>4 DEF FirstErases
<1>9. WorkIsDue'
  BY <1>0, <1>3, <1>4 DEF ErasureInv, WorkIsDue, Executing, Due, Issued, ErasureCalls
<1>10. LoadedRight' /\ StaysMarked'
  BY <1>0, <1>1, <1>3, <1>4 DEF ErasureInv, LoadedRight, StaysMarked, Issued
<1>11. QED
  BY <1>5, <1>6, <1>7, <1>8, <1>9, <1>10 DEF ErasureInv

LEMMA CertifyKeeps ==
    ASSUME ErasureInv, NEW e \in Executions, UpdateCertificate(e)
    PROVE  ErasureInv'
<1>0. e \in ErasureCalls
  BY DEF ErasureCalls
<1>1. PICK u \in ErasingCall : /\ Issued(e, u) /\ u.pc = "done" /\ u.own = erasing[e].own
                               /\ u.active = erasing[e].active
  BY <1>0, GotoWrites DEF UpdateCertificate, ErasurePc
<1>2. /\ UNCHANGED <<user, holds, visit, profile, late, cancelled, metExecution, failedOnce>>
      /\ erasing[e].pc = "certify"
      /\ cert' = [cert EXCEPT ![e] = [status |-> "completed", tables |-> erasing[e].erased]]
  BY DEF UpdateCertificate, visitVars
<1>3. /\ cert' \in [ErasureCalls -> Certificate]
      /\ \A d \in ErasureCalls : d # e => cert'[d] = cert[d]
  BY <1>0, <1>2, CallTypes DEF Certificate, ErasingCall
<1>4. ErasureTypeOK'
  BY <1>1, <1>2, <1>3 DEF ErasureInv, ErasureTypeOK, Issued, ErasingCall, ErasurePc, Certificate
<1>5. CallsApart'
  BY <1>1 DEF ErasureInv, CallsApart, Issued
<1>6. Anonymized'
  BY <1>0, <1>1, <1>2, <1>3 DEF ErasureInv, Anonymized, Issued, ErasureCalls
<1>7. FirstErases'
  <2> SUFFICES ASSUME user.anonymous, ~ failedOnce
               PROVE  \E x \in Executions :
                          /\ erasing'[x].own
                          /\ \/ erasing'[x].pc = "delete"
                             \/ erasing'[x].pc \in {"certify", "done"} /\ holds' \subseteq late'
    BY <1>2 DEF FirstErases
  <2>1. PICK x \in Executions :
            /\ erasing[x].own
            /\ \/ erasing[x].pc = "delete"
               \/ erasing[x].pc \in {"certify", "done"} /\ holds \subseteq late
    BY DEF ErasureInv, FirstErases
  <2>2. QED
    BY <1>0, <1>1, <1>2, <2>1 DEF Issued, ErasureCalls
<1>8. WorkIsDue'
  BY <1>0, <1>1, <1>2 DEF ErasureInv, WorkIsDue, Executing, Due, Issued, ErasureCalls
<1>9. LoadedRight' /\ StaysMarked'
  BY <1>0, <1>1, <1>2 DEF ErasureInv, LoadedRight, StaysMarked, Issued
<1>10. QED
  BY <1>4, <1>5, <1>6, <1>7, <1>8, <1>9 DEF ErasureInv

(***************************************************************************)
(* What the user and the passing of time do.                               *)
(***************************************************************************)
LEMMA OutsideKeeps ==
    ASSUME ErasureInv,
           \/ GraceEnds
           \/ ProfileExpires
           \/ \E v \in Visits : FindActive(v) \/ CacheProfile(v) \/ FindProfile(v)
           \/ \E v \in Visits, t \in Tables : UseAccount(v, t)
    PROVE  ErasureInv'
<1>0. user \in UserRow
  BY DEF ErasureInv, ErasureTypeOK, UserRow
<1>1. CASE GraceEnds
  <2>1. /\ user'.active = user.active /\ user'.anonymous = user.anonymous
        /\ user'.deadline = "past" /\ user' \in UserRow /\ user.deadline = "future"
        /\ UNCHANGED <<holds, cert, erasing, visit, profile, late, cancelled, metExecution,
                       failedOnce>>
    BY <1>0, <1>1 DEF GraceEnds, UserRow, visitVars
  <2>2. ErasureTypeOK'
    BY <2>1 DEF ErasureInv, ErasureTypeOK, UserRow
  <2>3. QED
    BY <2>1, <2>2 DEF ErasureInv, CallsApart, Anonymized, FirstErases, WorkIsDue, Executing,
                      Due, LoadedRight, StaysMarked
<1>2. CASE ProfileExpires \/ \E v \in Visits : FindActive(v) \/ CacheProfile(v) \/ FindProfile(v)
  <2>1. UNCHANGED <<user, holds, cert, erasing, late, cancelled, metExecution, failedOnce>>
    BY <1>2 DEF ProfileExpires, FindActive, CacheProfile, FindProfile
  <2>2. profile' \in BOOLEAN /\ visit' \in [Visits -> {"new", "found", "in"}]
    BY <1>2 DEF ProfileExpires, FindActive, CacheProfile, FindProfile, ErasureInv, ErasureTypeOK
  <2>3. ErasureTypeOK'
    BY <2>1, <2>2 DEF ErasureInv, ErasureTypeOK
  <2>4. QED
    BY <2>1, <2>3 DEF ErasureInv, CallsApart, Anonymized, FirstErases, WorkIsDue, Executing,
                      Due, LoadedRight, StaysMarked
<1>3. ASSUME NEW v \in Visits, NEW t \in Tables, UseAccount(v, t)
      PROVE  ErasureInv'
  <2>1. /\ UNCHANGED <<user, cert, erasing, visit, profile, cancelled, metExecution, failedOnce>>
        /\ holds' \subseteq Tables /\ late' \subseteq Tables
        /\ user.anonymous /\ holds \subseteq late => holds' \subseteq late'
    BY <1>3 DEF UseAccount, ErasureInv, ErasureTypeOK
  <2>2. ErasureTypeOK'
    BY <2>1 DEF ErasureInv, ErasureTypeOK
  <2>3. FirstErases'
    BY <2>1 DEF ErasureInv, FirstErases
  <2>4. QED
    BY <2>1, <2>2, <2>3 DEF ErasureInv, CallsApart, Anonymized, WorkIsDue, Executing, Due,
                            LoadedRight, StaysMarked
<1>4. QED
  BY <1>1, <1>2, <1>3

LEMMA ErasureNextInv == ErasureInv /\ [ErasureNext]_erasureVars => ErasureInv'
<1> SUFFICES ASSUME ErasureInv, [ErasureNext]_erasureVars PROVE ErasureInv'
  OBVIOUS
<1>1. CASE UNCHANGED erasureVars
  BY <1>1 DEF erasureVars, ErasureInv, ErasureTypeOK, CallsApart, Anonymized, FirstErases,
              WorkIsDue, Executing, Due, LoadedRight, StaysMarked
<1>2. ASSUME NEW r \in Requests,
             \/ Ask(r, "open") \/ OpenCertificate(r, "mark") \/ MarkUserForDeletion(r)
             \/ RevokeAuthSession(r)
      PROVE  ErasureInv'
  <2>1. r \in ErasureCalls
    BY DEF ErasureCalls
  <2>2. QED
    BY <1>2, <2>1, MovesKeep, OpenKeeps, MarkKeeps
<1>3. ASSUME NEW e \in Executions,
             \/ SelectDue(e) \/ OpenCertificate(e, "email") \/ GetUserEmail(e) \/ AnonymizeUser(e)
             \/ DeleteRelatedData(e) \/ UpdateCertificate(e)
             \/ \E t \in Tables : StatementFails(e, t)
      PROVE  ErasureInv'
  <2>1. e \in ErasureCalls
    BY DEF ErasureCalls
  <2>2. QED
    BY <1>3, <2>1, MovesKeep, OpenKeeps, EmailKeeps, AnonymizeKeeps, DeleteKeeps, StatementKeeps,
       CertifyKeeps
<1>4. ASSUME NEW k \in Cancellations, Ask(k, "cancel") \/ CancelDeletion(k)
      PROVE  ErasureInv'
  <2>1. k \in ErasureCalls
    BY DEF ErasureCalls
  <2>2. QED
    BY <1>4, <2>1, MovesKeep, CancelKeeps
<1>5. ASSUME NEW c \in ErasureCalls, LoadUser(c) \/ SoleOwner(c) \/ ErasureDies(c)
      PROVE  ErasureInv'
  BY <1>5, MovesKeep, LoadUserKeeps, DiesKeeps
<1>6. QED
  BY <1>1, <1>2, <1>3, <1>4, <1>5, OutsideKeeps DEF ErasureNext

LEMMA AlwaysErasureInv == ErasureSpec => []ErasureInv
  BY ErasureInitInv, ErasureNextInv, PTL DEF ErasureSpec

LEMMA ErasureInvSafe == ErasureInv => ErasureSafe
<1> SUFFICES ASSUME ErasureInv PROVE ErasedWhole
  BY DEF ErasureInv, ErasureSafe
<1> SUFFICES ASSUME ~ failedOnce, Executing = {}, NEW e \in Executions, cert[e].status = "completed"
             PROVE  holds \subseteq late
  BY DEF ErasedWhole
<1>1. user.anonymous
  BY DEF ErasureInv, Anonymized
<1>2. PICK x \in Executions :
          \/ erasing[x].pc = "delete"
          \/ erasing[x].pc \in {"certify", "done"} /\ holds \subseteq late
  BY <1>1 DEF ErasureInv, FirstErases
<1>3. erasing[x].pc # "delete"
  BY DEF Executing
<1>4. QED
  BY <1>2, <1>3

(***************************************************************************)
(* Whatever executions, requests, cancellations and visits overlap: once   *)
(* an erasure is certified and none is at work, the tables hold nothing of *)
(* the user but what visits wrote after the anonymization, which were let  *)
(* in before or on a cached profile, unless an execution died or met a     *)
(* refusing table; and an anonymized account stays marked, unless the      *)
(* deletion was cancelled (services/compliance/erasure_service.py).        *)
(***************************************************************************)
THEOREM ErasuresAreSafe == ErasureSpec => []ErasureSafe
  BY AlwaysErasureInv, ErasureInvSafe, PTL

LEMMA GraceStep ==
    ErasureInv /\ [ErasureNext]_erasureVars =>
        (user'.anonymous /\ ~ user.anonymous =>
            metExecution \/ Due \/ \E e \in Verified : erasing[e].pc = "anonymize")
<1> SUFFICES ASSUME ErasureInv, [ErasureNext]_erasureVars, user'.anonymous, ~ user.anonymous
             PROVE  metExecution \/ Due \/ \E e \in Verified : erasing[e].pc = "anonymize"
  OBVIOUS
<1>1. user \in UserRow
  BY DEF ErasureInv, ErasureTypeOK, UserRow
<1>2. PICK e \in Executions : AnonymizeUser(e)
  <2>1. user' # user
    OBVIOUS
  <2>2. \A r \in Requests : ~ MarkUserForDeletion(r)
    BY <1>1 DEF MarkUserForDeletion, UserRow
  <2>3. ~ GraceEnds /\ \A k \in Cancellations : ~ CancelDeletion(k)
    BY <1>1 DEF GraceEnds, CancelDeletion, UserRow
  <2>4. \E e \in Executions : AnonymizeUser(e)
    BY <2>1, <2>2, <2>3
       DEF ErasureNext, erasureVars, Ask, OpenCertificate, RevokeAuthSession, SelectDue,
           GetUserEmail, DeleteRelatedData, StatementFails, UpdateCertificate, SoleOwner,
           ErasureDies, LoadUser, FindActive, CacheProfile, FindProfile, ProfileExpires,
           UseAccount
  <2>5. QED
    BY <2>4
<1>3. e \in Executing /\ erasing[e].pc = "anonymize"
  BY <1>2 DEF AnonymizeUser, Executing
<1>4. QED
  BY <1>3 DEF ErasureInv, WorkIsDue

(***************************************************************************)
(* No step anonymizes an account early: only for a verified request, or    *)
(* after the grace period, or when the row was marked or restored in the   *)
(* face of an execution.                                                   *)
(***************************************************************************)
THEOREM GraceKept == ErasureSpec => GraceRespected
<1>1. QED
  BY AlwaysErasureInv, GraceStep, PTL DEF ErasureSpec, GraceRespected

-----------------------------------------------------------------------------
(* A runtime setting behind two caches *)

ReadState == [pc : {"new", "redis", "db", "set", "over"}, v : SettingValues]

WriteState == [pc : {"new", "create", "update", "over"}, old : SettingValues]

SettingRow == [there : BOOLEAN, active : BOOLEAN, value : SettingValues]

StoreShapes ==
    /\ tick \in 0 .. LastTick
    /\ row \in SettingRow
    /\ local \in [Workers -> CacheEntry]
    /\ shared \in CacheEntry
    /\ reading \in [Reads -> ReadState]
    /\ writing \in [Writes -> WriteState]
    /\ replaced \in [SettingValues -> Nat]
    /\ told \in [SettingValues -> Nat]

(***************************************************************************)
(* The setting is not replaced yet; a cached value was the setting when    *)
(* the entry in Redis was made, and a process's own entry may be a life    *)
(* older than it says.                                                     *)
(***************************************************************************)
ReplacedOK ==
    /\ replaced[Effective(row)] = Current
    /\ \A v \in SettingValues : told[v] <= tick
    /\ shared.set => shared.at <= tick /\ shared.at <= replaced[shared.v]
    /\ \A p \in Workers :
           local[p].set => local[p].at <= tick /\ local[p].at <= replaced[local[p].v] + (CacheTtl - 1)
    /\ \A c \in Reads : reading[c].pc = "set" => tick <= replaced[reading[c].v]

StoreInv == StoreShapes /\ ReplacedOK /\ StaleIsBounded

LEMMA StoreNumbers ==
    ASSUME StoreShapes
    PROVE  /\ tick \in Nat /\ tick < Current /\ Current \in Nat /\ CacheTtl \in Nat /\ CacheTtl >= 1
           /\ \A v \in SettingValues : replaced[v] \in Nat /\ told[v] \in Nat
           /\ shared.at \in Nat /\ shared.v \in SettingValues
           /\ \A p \in Workers : local[p].at \in Nat /\ local[p].v \in SettingValues
           /\ Effective(row) \in SettingValues
           /\ Fallback \in SettingValues
<1>1. tick \in Nat /\ tick < Current /\ Current \in Nat /\ CacheTtl \in Nat /\ CacheTtl >= 1
  BY StoreAssumption DEF StoreShapes, Current
<1>2. Moments \subseteq Nat
  BY StoreAssumption DEF Moments
<1>3. Fallback \in SettingValues
  BY DEF SettingValues
<1>4. Effective(row) \in SettingValues
  BY <1>3 DEF Effective, StoreShapes, SettingRow
<1>5. QED
  BY <1>1, <1>2, <1>3, <1>4 DEF StoreShapes, CacheEntry

LEMMA StoreInitInv == StoreInit => StoreInv
<1> SUFFICES ASSUME StoreInit PROVE StoreInv
  OBVIOUS
<1>1. Fallback \in SettingValues
  BY DEF SettingValues
<1>2. Unset \in CacheEntry /\ Unset.set = FALSE
  BY <1>1, StoreAssumption DEF Unset, CacheEntry, Moments
<1>3. Current \in Nat /\ Current > 0 /\ CacheTtl - 1 >= 0 /\ CacheTtl \in Nat
  BY StoreAssumption DEF Current
<1>4. StoreShapes
  <2>1. reading \in [Reads -> ReadState] /\ writing \in [Writes -> WriteState]
    BY <1>1 DEF StoreInit, ReadState, WriteState
  <2>2. row \in SettingRow
    BY <1>1 DEF StoreInit, SettingRow
  <2>3. QED
    BY <1>2, <1>3, <2>1, <2>2, StoreAssumption DEF StoreInit, StoreShapes
<1>5. Effective(row) \in SettingValues
  BY <1>4, StoreNumbers
<1>6. tick = 0 /\ \A v \in SettingValues : told[v] = 0 /\ replaced[v] = Current
  BY DEF StoreInit
<1>7. ~ shared.set /\ (\A p \in Workers : ~ local[p].set) /\ \A c \in Reads : reading[c].pc # "set"
  BY <1>2 DEF StoreInit
<1>8. ReplacedOK /\ StaleIsBounded
  BY <1>3, <1>5, <1>6, <1>7 DEF ReplacedOK, StaleIsBounded
<1>9. QED
  BY <1>4, <1>8 DEF StoreInv

(***************************************************************************)
(* A read returns a value that was the setting two lives ago or later.     *)
(***************************************************************************)
LEMMA ReturnsKeeps ==
    ASSUME StoreInv, NEW c \in Reads, NEW v \in SettingValues, Returns(c, v),
           tick <= replaced[v] + 2 * (CacheTtl - 1), UNCHANGED <<tick, replaced>>
    PROVE  /\ reading' \in [Reads -> ReadState]
           /\ \A d \in Reads : reading'[d].pc = "set" => reading[d].pc = "set" /\ reading'[d] = reading[d]
           /\ told' \in [SettingValues -> Nat]
           /\ \A u \in SettingValues : told'[u] <= tick
           /\ StaleIsBounded'
<1>1. StoreShapes
  BY DEF StoreInv
<1> DEFINE over == [pc |-> "over", v |-> Fallback]
<1>2. over \in ReadState /\ over.pc = "over"
  BY <1>1, StoreNumbers DEF ReadState
<1>3. reading' = [reading EXCEPT ![c] = over] /\ reading \in [Reads -> ReadState]
  BY <1>1 DEF Returns, StoreShapes
<1> HIDE DEF over
<1>4. reading' \in [Reads -> ReadState] /\ reading'[c] = over /\ \A d \in Reads : d # c => reading'[d] = reading[d]
  BY <1>2, <1>3
<1>5. tick \in Nat
  BY <1>1, StoreNumbers
<1>6. /\ told' \in [SettingValues -> Nat] /\ told'[v] = tick
      /\ \A u \in SettingValues : u # v => told'[u] = told[u]
  BY <1>1, <1>5 DEF Returns, StoreShapes
<1>7. \A u \in SettingValues : told'[u] <= tick
  BY <1>5, <1>6 DEF StoreInv, ReplacedOK
<1>8. StaleIsBounded'
  BY <1>6 DEF StoreInv, StaleIsBounded
<1>9. QED
  BY <1>2, <1>4, <1>6, <1>7, <1>8

LEMMA StepsOnly ==
    ASSUME StoreInv, NEW c \in Reads, NEW label \in {"redis", "db"},
           reading' = [reading EXCEPT ![c].pc = label]
    PROVE  /\ reading' \in [Reads -> ReadState]
           /\ \A d \in Reads : reading'[d].pc = "set" => reading[d].pc = "set" /\ reading'[d] = reading[d]
<1> DEFINE u == [reading[c] EXCEPT !.pc = label]
<1>1. reading \in [Reads -> ReadState] /\ reading' = [reading EXCEPT ![c] = u]
  BY DEF StoreInv, StoreShapes
<1>2. reading[c] \in ReadState
  BY <1>1
<1>3. u \in ReadState /\ u.pc = label
  BY <1>2 DEF ReadState
<1> HIDE DEF u
<1>4. reading'[c] = u /\ \A d \in Reads : d # c => reading'[d] = reading[d]
  BY <1>1
<1>5. QED
  BY <1>1, <1>3, <1>4

(***************************************************************************)
(* What is left to show of a step of a read.                               *)
(***************************************************************************)
LEMMA ReadStepKeeps ==
    ASSUME StoreInv, UNCHANGED <<tick, row, writing, replaced>>,
           reading' \in [Reads -> ReadState], told' \in [SettingValues -> Nat],
           local' \in [Workers -> CacheEntry], shared' \in CacheEntry,
           \A v \in SettingValues : told'[v] <= tick,
           StaleIsBounded',
           shared'.set => shared'.at <= tick /\ shared'.at <= replaced[shared'.v],
           \A p \in Workers : local'[p].set => local'[p].at <= tick
                                               /\ local'[p].at <= replaced[local'[p].v] + (CacheTtl - 1),
           \A d \in Reads : reading'[d].pc = "set" => tick <= replaced[reading'[d].v]
    PROVE  StoreInv'
<1>1. StoreShapes'
  BY DEF StoreInv, StoreShapes
<1>2. ReplacedOK'
  BY DEF StoreInv, ReplacedOK, Effective, Current
<1>3. QED
  BY <1>1, <1>2 DEF StoreInv

LEMMA GetLocalKeeps == ASSUME StoreInv, NEW c \in Reads, GetLocal(c) PROVE StoreInv'
<1>1. StoreShapes /\ UNCHANGED <<tick, row, local, shared, writing, replaced>>
  BY DEF StoreInv, GetLocal
<1>2. PICK p \in Workers : p = ReaderOf[c]
  BY StoreAssumption
<1>3. CASE StillFresh(local[p])
  <2>1. local[p].v \in SettingValues /\ local[p].at \in Nat /\ replaced[local[p].v] \in Nat
    BY <1>1, StoreNumbers
  <2>2. tick <= replaced[local[p].v] + 2 * (CacheTtl - 1)
    <3>1. tick - local[p].at < CacheTtl /\ local[p].at <= replaced[local[p].v] + (CacheTtl - 1)
      BY <1>3 DEF StillFresh, StoreInv, ReplacedOK
    <3>2. tick \in Nat /\ CacheTtl \in Nat
      BY <1>1, StoreNumbers
    <3>3. QED
      BY <2>1, <3>1, <3>2
  <2>3. Returns(c, local[p].v)
    BY <1>2, <1>3 DEF GetLocal
  <2>4. /\ reading' \in [Reads -> ReadState] /\ told' \in [SettingValues -> Nat] /\ StaleIsBounded'
        /\ \A u \in SettingValues : told'[u] <= tick
        /\ \A d \in Reads : reading'[d].pc = "set" => reading[d].pc = "set" /\ reading'[d] = reading[d]
    BY <1>1, <2>1, <2>2, <2>3, ReturnsKeeps
  <2>5. QED
    BY <1>1, <2>4, ReadStepKeeps DEF StoreInv, StoreShapes, ReplacedOK
<1>4. CASE ~ StillFresh(local[p])
  <2>1. reading' = [reading EXCEPT ![c].pc = "redis"] /\ UNCHANGED told
    BY <1>2, <1>4 DEF GetLocal
  <2>2. /\ reading' \in [Reads -> ReadState]
        /\ \A d \in Reads : reading'[d].pc = "set" => reading[d].pc = "set" /\ reading'[d] = reading[d]
    BY <2>1, StepsOnly
  <2>3. StaleIsBounded'
    BY <1>1, <2>1 DEF StoreInv, StaleIsBounded
  <2>4. QED
    BY <1>1, <2>1, <2>2, <2>3, ReadStepKeeps DEF StoreInv, StoreShapes, ReplacedOK
<1>5. QED
  BY <1>3, <1>4

LEMMA GetSharedKeeps == ASSUME StoreInv, NEW c \in Reads, GetShared(c) PROVE StoreInv'
<1>1. StoreShapes /\ UNCHANGED <<tick, row, shared, writing, replaced>>
  BY DEF StoreInv, GetShared
<1>2. PICK p \in Workers : p = ReaderOf[c]
  BY StoreAssumption
<1>3. CASE StillFresh(shared) /\ local' = [local EXCEPT ![p] = [shared EXCEPT !.at = tick]] /\ Returns(c, shared.v)
  <2>1. /\ shared.v \in SettingValues /\ shared.at \in Nat /\ replaced[shared.v] \in Nat
        /\ tick \in Nat /\ CacheTtl \in Nat /\ CacheTtl >= 1
    BY <1>1, StoreNumbers
  <2>2. shared.set /\ tick - shared.at < CacheTtl /\ shared.at <= replaced[shared.v]
    BY <1>3 DEF StillFresh, StoreInv, ReplacedOK
  <2>3. tick <= replaced[shared.v] + (CacheTtl - 1)
    BY <2>1, <2>2
  <2>4. tick <= replaced[shared.v] + 2 * (CacheTtl - 1)
    BY <2>1, <2>3
  <2>5. /\ reading' \in [Reads -> ReadState] /\ told' \in [SettingValues -> Nat] /\ StaleIsBounded'
        /\ \A u \in SettingValues : told'[u] <= tick
        /\ \A d \in Reads : reading'[d].pc = "set" => reading[d].pc = "set" /\ reading'[d] = reading[d]
    BY <1>1, <1>3, <2>1, <2>4, ReturnsKeeps
  <2> DEFINE e == [shared EXCEPT !.at = tick]
  <2>6. e \in CacheEntry /\ e.at = tick /\ e.v = shared.v
    <3>1. tick \in Moments
      BY <1>1, StoreAssumption DEF StoreShapes, Moments
    <3>2. shared \in CacheEntry
      BY <1>1 DEF StoreShapes
    <3>3. QED
      BY <3>1, <3>2 DEF CacheEntry
  <2>7. local' = [local EXCEPT ![p] = e]
    BY <1>3
  <2> HIDE DEF e
  <2>8. local' \in [Workers -> CacheEntry] /\ local'[p] = e /\ \A q \in Workers : q # p => local'[q] = local[q]
    BY <1>1, <2>6, <2>7 DEF StoreShapes
  <2>9. \A q \in Workers : local'[q].set => local'[q].at <= tick
                                            /\ local'[q].at <= replaced[local'[q].v] + (CacheTtl - 1)
    BY <2>1, <2>3, <2>6, <2>8 DEF StoreInv, ReplacedOK
  <2>10. QED
    BY <1>1, <2>5, <2>8, <2>9, ReadStepKeeps DEF StoreInv, StoreShapes, ReplacedOK
<1>4. CASE reading' = [reading EXCEPT ![c].pc = "db"] /\ UNCHANGED <<local, told>>
  <2>1. /\ reading' \in [Reads -> ReadState]
        /\ \A d \in Reads : reading'[d].pc = "set" => reading[d].pc = "set" /\ reading'[d] = reading[d]
    BY <1>4, StepsOnly
  <2>2. StaleIsBounded'
    BY <1>1, <1>4 DEF StoreInv, StaleIsBounded
  <2>3. QED
    BY <1>1, <1>4, <2>1, <2>2, ReadStepKeeps DEF StoreInv, StoreShapes, ReplacedOK
<1>5. QED
  BY <1>2, <1>3, <1>4 DEF GetShared

LEMMA GetFromDbKeeps == ASSUME StoreInv, NEW c \in Reads, GetFromDb(c) PROVE StoreInv'
<1>1. StoreShapes /\ UNCHANGED <<tick, row, shared, writing, replaced>>
  BY DEF StoreInv, GetFromDb
<1>2. PICK p \in Workers : p = ReaderOf[c]
  BY StoreAssumption
<1>3. PICK v \in SettingValues : v = Effective(row) /\ (row.active => v = row.value) /\ (~ row.active => v = Fallback)
  BY <1>1, StoreNumbers DEF Effective
<1>4. /\ tick \in Nat /\ CacheTtl \in Nat /\ CacheTtl >= 1 /\ replaced[v] \in Nat /\ tick < replaced[v]
  BY <1>1, <1>3, StoreNumbers DEF StoreInv, ReplacedOK
<1> DEFINE e == [v |-> v, at |-> tick, set |-> TRUE]
<1>5. e \in CacheEntry /\ e.at = tick /\ e.v = v
  <2>1. tick \in Moments
    BY <1>1, StoreAssumption DEF StoreShapes, Moments
  <2>2. QED
    BY <2>1 DEF CacheEntry
<1>6. local' = [local EXCEPT ![p] = e] \/ local' = local
  BY <1>2, <1>3 DEF GetFromDb, FallsBack
<1> HIDE DEF e
<1>7. local' \in [Workers -> CacheEntry] /\ \A q \in Workers : local'[q] = e \/ local'[q] = local[q]
  BY <1>1, <1>5, <1>6 DEF StoreShapes
<1>8. \A q \in Workers : local'[q].set => local'[q].at <= tick
                                          /\ local'[q].at <= replaced[local'[q].v] + (CacheTtl - 1)
  <2>1. tick <= replaced[v] + (CacheTtl - 1)
    BY <1>4
  <2>2. QED
    BY <1>4, <1>5, <1>7, <2>1 DEF StoreInv, ReplacedOK
<1>9. CASE reading' = [reading EXCEPT ![c] = [pc |-> "set", v |-> v]] /\ UNCHANGED told
  <2> DEFINE u == [pc |-> "set", v |-> v]
  <2>1. u \in ReadState /\ u.v = v
    BY DEF ReadState
  <2>2. reading' = [reading EXCEPT ![c] = u] /\ reading \in [Reads -> ReadState]
    BY <1>1, <1>9 DEF StoreShapes
  <2> HIDE DEF u
  <2>3. reading' \in [Reads -> ReadState] /\ reading'[c] = u /\ \A d \in Reads : d # c => reading'[d] = reading[d]
    BY <2>1, <2>2
  <2>4. \A d \in Reads : reading'[d].pc = "set" => tick <= replaced[reading'[d].v]
    BY <1>4, <2>1, <2>3 DEF StoreInv, ReplacedOK
  <2>5. StaleIsBounded'
    BY <1>1, <1>9 DEF StoreInv, StaleIsBounded
  <2>6. QED
    BY <1>1, <1>7, <1>8, <1>9, <2>3, <2>4, <2>5, ReadStepKeeps DEF StoreInv, StoreShapes, ReplacedOK
<1>10. CASE Returns(c, v)
  <2>1. tick <= replaced[v] + 2 * (CacheTtl - 1)
    BY <1>4
  <2>2. /\ reading' \in [Reads -> ReadState] /\ told' \in [SettingValues -> Nat] /\ StaleIsBounded'
        /\ \A u \in SettingValues : told'[u] <= tick
        /\ \A d \in Reads : reading'[d].pc = "set" => reading[d].pc = "set" /\ reading'[d] = reading[d]
    BY <1>1, <1>10, <2>1, ReturnsKeeps
  <2>3. QED
    BY <1>1, <1>7, <1>8, <2>2, ReadStepKeeps DEF StoreInv, StoreShapes, ReplacedOK
<1>11. QED
  BY <1>3, <1>9, <1>10 DEF GetFromDb, FallsBack

(***************************************************************************)
(* A read that failed answers with the fallback.                           *)
(***************************************************************************)
LEMMA DbFailsKeeps == ASSUME StoreInv, NEW c \in Reads, DbFails(c) PROVE StoreInv'
<1>1. StoreShapes /\ UNCHANGED <<tick, row, shared, writing>>
  BY DEF StoreInv, DbFails
<1>2. PICK p \in Workers : p = ReaderOf[c]
  BY StoreAssumption
<1>3. /\ tick \in Nat /\ tick < Current /\ Current \in Nat /\ CacheTtl \in Nat /\ CacheTtl >= 1
      /\ Fallback \in SettingValues /\ Effective(row) \in SettingValues
      /\ \A v \in SettingValues : replaced[v] \in Nat /\ told[v] \in Nat
  BY <1>1, StoreNumbers
<1>4. /\ replaced' \in [SettingValues -> Nat] /\ replaced'[Fallback] \in {tick, Current}
      /\ replaced'[Effective(row)] = Current
      /\ \A v \in SettingValues : replaced'[v] \in {replaced[v], tick}
  BY <1>1, <1>3 DEF DbFails, StoreInv, ReplacedOK, StoreShapes
<1>5. \A v \in SettingValues, n \in Nat, k \in Nat : n <= tick /\ n <= replaced[v] + k => n <= replaced'[v] + k
  <2> SUFFICES ASSUME NEW v \in SettingValues, NEW n \in Nat, NEW k \in Nat, n <= tick, n <= replaced[v] + k
               PROVE  n <= replaced'[v] + k
    OBVIOUS
  <2>1. replaced'[v] = replaced[v] \/ replaced'[v] = tick
    BY <1>4
  <2>2. QED
    BY <1>3, <2>1
<1>6. \A v \in SettingValues, n \in Nat : n <= tick /\ n <= replaced[v] => n <= replaced'[v]
  <2> SUFFICES ASSUME NEW v \in SettingValues, NEW n \in Nat, n <= tick, n <= replaced[v] PROVE n <= replaced'[v]
    OBVIOUS
  <2>1. replaced'[v] = replaced[v] \/ replaced'[v] = tick
    BY <1>4
  <2>2. QED
    BY <2>1
<1>7. CacheTtl - 1 \in Nat /\ 2 * (CacheTtl - 1) \in Nat /\ tick <= replaced'[Fallback]
  BY <1>3, <1>4
<1> DEFINE e == [v |-> Fallback, at |-> tick, set |-> TRUE]
           over == [pc |-> "over", v |-> Fallback]
<1>8. e \in CacheEntry /\ e.at = tick /\ e.v = Fallback
  <2>1. tick \in Moments
    BY <1>1, StoreAssumption DEF StoreShapes, Moments
  <2>2. QED
    BY <1>3, <2>1 DEF CacheEntry
<1>9. over \in ReadState /\ over.pc = "over"
  BY <1>3 DEF ReadState
<1>10. /\ local' = [local EXCEPT ![p] = e] \/ local' = local
       /\ reading' = [reading EXCEPT ![c] = over] /\ told' = [told EXCEPT ![Fallback] = tick]
  BY <1>2 DEF DbFails, FallsBack, Returns
<1> HIDE DEF e, over
<1>11. local' \in [Workers -> CacheEntry] /\ \A q \in Workers : local'[q] = e \/ local'[q] = local[q]
  BY <1>1, <1>8, <1>10 DEF StoreShapes
<1>12. reading' \in [Reads -> ReadState] /\ \A d \in Reads : reading'[d] = over \/ reading'[d] = reading[d]
  BY <1>1, <1>9, <1>10 DEF StoreShapes
<1>13. /\ told' \in [SettingValues -> Nat] /\ told'[Fallback] = tick
       /\ \A v \in SettingValues : v # Fallback => told'[v] = told[v]
  BY <1>1, <1>3, <1>10 DEF StoreShapes
<1>14. StoreShapes'
  BY <1>1, <1>4, <1>11, <1>12, <1>13 DEF StoreShapes
<1>15. StaleIsBounded'
  <2> SUFFICES ASSUME NEW v \in SettingValues PROVE told'[v] <= replaced'[v] + 2 * (CacheTtl - 1)
    BY DEF StaleIsBounded
  <2>1. CASE v = Fallback
    <3>1. replaced'[Fallback] \in Nat
      BY <1>3, <1>4
    <3>2. QED
      BY <1>3, <1>7, <1>13, <2>1, <3>1
  <2>2. CASE v # Fallback
    <3>1. told[v] \in Nat /\ told[v] <= tick /\ told[v] <= replaced[v] + 2 * (CacheTtl - 1)
      BY <1>3 DEF StoreInv, ReplacedOK, StaleIsBounded
    <3>2. QED
      BY <1>5, <1>7, <1>13, <2>2, <3>1
  <2>3. QED
    BY <2>1, <2>2
<1>16. ReplacedOK'
  <2>1. shared.set => shared.at <= replaced'[shared.v]
    BY <1>1, <1>6, StoreNumbers DEF StoreInv, ReplacedOK
  <2>2. ASSUME NEW q \in Workers, local'[q].set
        PROVE  local'[q].at <= tick /\ local'[q].at <= replaced'[local'[q].v] + (CacheTtl - 1)
    <3>1. CASE local'[q] = e
      <4>1. replaced'[Fallback] \in Nat
        BY <1>3, <1>4
      <4>2. QED
        BY <1>3, <1>7, <1>8, <3>1, <4>1
    <3>2. CASE local'[q] = local[q]
      <4>1. local[q].at \in Nat /\ local[q].v \in SettingValues
        BY <1>1, StoreNumbers
      <4>2. local[q].at <= tick /\ local[q].at <= replaced[local[q].v] + (CacheTtl - 1)
        BY <2>2, <3>2 DEF StoreInv, ReplacedOK
      <4>3. QED
        BY <1>5, <1>7, <3>2, <4>1, <4>2
    <3>3. QED
      BY <1>11, <3>1, <3>2
  <2>3. ASSUME NEW d \in Reads, reading'[d].pc = "set" PROVE tick <= replaced'[reading'[d].v]
    <3>1. reading'[d] = reading[d] /\ reading[d].v \in SettingValues
      BY <1>1, <1>9, <1>12, <2>3 DEF StoreShapes, ReadState
    <3>2. QED
      BY <1>3, <1>6, <2>3, <3>1 DEF StoreInv, ReplacedOK
  <2>4. \A v \in SettingValues : told'[v] <= tick
    BY <1>3, <1>13 DEF StoreInv, ReplacedOK
  <2>5. shared.set => shared.at <= tick
    BY DEF StoreInv, ReplacedOK
  <2>6. QED
    BY <1>1, <1>4, <2>1, <2>2, <2>3, <2>4, <2>5 DEF ReplacedOK, Effective, Current
<1>17. QED
  BY <1>14, <1>15, <1>16 DEF StoreInv

LEMMA SetSharedKeeps == ASSUME StoreInv, NEW c \in Reads, SetShared(c) PROVE StoreInv'
<1>1. StoreShapes /\ UNCHANGED <<tick, row, local, writing, replaced>>
  BY DEF StoreInv, SetShared
<1>2. PICK v \in SettingValues : v = reading[c].v
  BY <1>1 DEF StoreShapes, ReadState
<1>3. /\ tick \in Nat /\ CacheTtl \in Nat /\ CacheTtl >= 1 /\ replaced[v] \in Nat /\ tick <= replaced[v]
  BY <1>1, <1>2, StoreNumbers DEF SetShared, StoreInv, ReplacedOK
<1>4. Returns(c, v) /\ (shared' = [v |-> v, at |-> tick, set |-> TRUE] \/ shared' = shared)
  BY <1>2 DEF SetShared
<1>5. tick <= replaced[v] + 2 * (CacheTtl - 1)
  BY <1>3
<1>6. /\ reading' \in [Reads -> ReadState] /\ told' \in [SettingValues -> Nat] /\ StaleIsBounded'
      /\ \A u \in SettingValues : told'[u] <= tick
      /\ \A d \in Reads : reading'[d].pc = "set" => reading[d].pc = "set" /\ reading'[d] = reading[d]
  BY <1>1, <1>4, <1>5, ReturnsKeeps
<1>7. /\ shared' \in CacheEntry
      /\ shared'.set => shared'.at <= tick /\ shared'.at <= replaced[shared'.v]
  <2>1. tick \in Moments
    BY <1>1, StoreAssumption DEF StoreShapes, Moments
  <2>2. CASE shared' = shared
    BY <1>1, <2>2 DEF StoreShapes, StoreInv, ReplacedOK
  <2>3. CASE shared' = [v |-> v, at |-> tick, set |-> TRUE]
    BY <1>3, <2>1, <2>3 DEF CacheEntry
  <2>4. QED
    BY <1>4, <2>2, <2>3
<1>8. QED
  BY <1>1, <1>6, <1>7, ReadStepKeeps DEF StoreInv, StoreShapes, ReplacedOK

(***************************************************************************)
(* A write ends the reign of the old value now.                            *)
(***************************************************************************)
LEMMA WroteKeeps ==
    ASSUME StoreInv, NEW r \in SettingRow, Wrote(r), writing' \in [Writes -> WriteState],
           UNCHANGED <<tick, local, shared, reading, told>>
    PROVE  StoreInv'
<1>1. StoreShapes
  BY DEF StoreInv
<1>2. /\ tick \in Nat /\ tick < Current /\ Current \in Nat /\ CacheTtl \in Nat /\ CacheTtl >= 1
      /\ \A v \in SettingValues : replaced[v] \in Nat /\ told[v] \in Nat
      /\ Effective(row) \in SettingValues
  BY <1>1, StoreNumbers
<1>3. row' = r /\ Effective(r) \in SettingValues
  BY DEF Wrote, Effective, SettingRow, SettingValues
<1>4. /\ replaced' \in [SettingValues -> Nat] /\ replaced'[Effective(r)] = Current
      /\ \A v \in SettingValues : replaced'[v] \in {replaced[v], tick, Current}
  BY <1>1, <1>2, <1>3 DEF Wrote, StoreInv, ReplacedOK, StoreShapes
<1>5. \A v \in SettingValues, n \in Nat : n <= tick /\ n <= replaced[v] => n <= replaced'[v]
  BY <1>2, <1>4
<1>6. \A v \in SettingValues, n \in Nat, k \in Nat : n <= tick /\ n <= replaced[v] + k => n <= replaced'[v] + k
  <2> SUFFICES ASSUME NEW v \in SettingValues, NEW n \in Nat, NEW k \in Nat, n <= tick, n <= replaced[v] + k
               PROVE  n <= replaced'[v] + k
    OBVIOUS
  <2>1. replaced'[v] = replaced[v] \/ replaced'[v] = tick \/ replaced'[v] = Current
    BY <1>4
  <2>2. QED
    BY <1>2, <2>1
<1>7. CacheTtl - 1 \in Nat /\ 2 * (CacheTtl - 1) \in Nat
  BY <1>2
<1>8. StoreShapes'
  BY <1>1, <1>3, <1>4 DEF StoreShapes
<1>9. ReplacedOK'
  <2>1. shared.set => shared.at <= replaced'[shared.v]
    BY <1>1, <1>5, StoreNumbers DEF StoreInv, ReplacedOK
  <2>2. \A p \in Workers : local[p].set => local[p].at <= replaced'[local[p].v] + (CacheTtl - 1)
    BY <1>1, <1>6, <1>7, StoreNumbers DEF StoreInv, ReplacedOK
  <2>3. \A c \in Reads : reading[c].pc = "set" => tick <= replaced'[reading[c].v]
    <3> SUFFICES ASSUME NEW c \in Reads, reading[c].pc = "set" PROVE tick <= replaced'[reading[c].v]
      OBVIOUS
    <3>1. reading[c].v \in SettingValues
      BY <1>1 DEF StoreShapes, ReadState
    <3>2. QED
      BY <1>2, <1>5, <3>1 DEF StoreInv, ReplacedOK
  <2>4. replaced'[Effective(row')] = Current
    BY <1>3, <1>4
  <2>5. QED
    BY <2>1, <2>2, <2>3, <2>4 DEF StoreInv, ReplacedOK, Effective, Current
<1>10. StaleIsBounded'
  <2> SUFFICES ASSUME NEW v \in SettingValues PROVE told[v] <= replaced'[v] + 2 * (CacheTtl - 1)
    BY DEF StaleIsBounded
  <2>1. told[v] \in Nat /\ told[v] <= tick /\ told[v] <= replaced[v] + 2 * (CacheTtl - 1)
    BY <1>2 DEF StoreInv, ReplacedOK, StaleIsBounded
  <2>2. QED
    BY <1>6, <1>7, <2>1
<1>11. QED
  BY <1>8, <1>9, <1>10 DEF StoreInv

(***************************************************************************)
(* A write that changes no value.                                          *)
(***************************************************************************)
LEMMA QuietWriteKeeps ==
    ASSUME StoreInv, writing' \in [Writes -> WriteState],
           UNCHANGED <<tick, row, local, shared, reading, replaced, told>>
    PROVE  StoreInv'
  BY DEF StoreInv, StoreShapes, ReplacedOK, StaleIsBounded, Effective, Current

LEMMA WritingMoves ==
    ASSUME StoreInv, NEW c \in Writes, writing' = [writing EXCEPT ![c].pc = "over"]
    PROVE  writing' \in [Writes -> WriteState]
<1> DEFINE u == [writing[c] EXCEPT !.pc = "over"]
<1>1. writing \in [Writes -> WriteState] /\ writing' = [writing EXCEPT ![c] = u]
  BY DEF StoreInv, StoreShapes
<1>2. writing[c] \in WriteState
  BY <1>1
<1>3. u \in WriteState
  BY <1>2 DEF WriteState
<1> HIDE DEF u
<1>4. QED
  BY <1>1, <1>3

LEMMA WritesKeep ==
    ASSUME StoreInv, NEW c \in Writes, Look(c) \/ Create(c) \/ Update(c) \/ WriteFails(c)
    PROVE  StoreInv'
<1>1. row \in SettingRow /\ c \in SettingValues
  BY DEF StoreInv, StoreShapes, SettingValues
<1>2. CASE Look(c)
  <2> DEFINE u == [pc |-> IF row.active THEN "update" ELSE "create", old |-> row.value]
  <2>1. u \in WriteState
    BY <1>1 DEF WriteState, SettingRow
  <2>2. writing' = [writing EXCEPT ![c] = u] /\ writing \in [Writes -> WriteState]
    BY <1>2 DEF Look, StoreInv, StoreShapes
  <2> HIDE DEF u
  <2>3. writing' \in [Writes -> WriteState]
    BY <2>1, <2>2
  <2>4. QED
    BY <1>2, <2>3, QuietWriteKeeps DEF Look
<1>3. CASE Create(c)
  <2>1. writing' \in [Writes -> WriteState]
    BY <1>3, WritingMoves DEF Create
  <2>2. CASE row.there
    BY <1>3, <2>1, <2>2, QuietWriteKeeps DEF Create
  <2>3. CASE ~ row.there
    <3> DEFINE r == [there |-> TRUE, active |-> TRUE, value |-> c]
    <3>1. r \in SettingRow
      BY <1>1 DEF SettingRow
    <3>2. Wrote(r) /\ UNCHANGED <<tick, local, shared, reading, told>>
      BY <1>3, <2>3 DEF Create
    <3> HIDE DEF r
    <3>3. QED
      BY <2>1, <3>1, <3>2, WroteKeeps
  <2>4. QED
    BY <2>2, <2>3
<1>4. CASE Update(c)
  <2>1. writing' \in [Writes -> WriteState] /\ UNCHANGED <<tick, local, shared, reading, told>>
    BY <1>4, WritingMoves DEF Update
  <2>2. ASSUME NEW r \in SettingRow, Wrote(r) PROVE StoreInv'
    BY <2>1, <2>2, WroteKeeps
  <2>3. CASE Wrote([row EXCEPT !.value = c])
    <3>1. [row EXCEPT !.value = c] \in SettingRow
      BY <1>1 DEF SettingRow
    <3>2. QED
      BY <2>2, <2>3, <3>1
  <2>4. CASE \E on \in BOOLEAN : Wrote([row EXCEPT !.active = @ /\ on])
    <3>1. PICK on \in BOOLEAN : Wrote([row EXCEPT !.active = @ /\ on])
      BY <2>4
    <3>2. (row.active /\ on) \in BOOLEAN
      OBVIOUS
    <3>3. [row EXCEPT !.active = @ /\ on] \in SettingRow
      BY <1>1, <3>2 DEF SettingRow
    <3>4. QED
      BY <2>2, <3>1, <3>3
  <2>5. QED
    BY <1>4, <2>3, <2>4 DEF Update
<1>5. CASE WriteFails(c)
  BY <1>5, WritingMoves, QuietWriteKeeps DEF WriteFails
<1>6. QED
  BY <1>2, <1>3, <1>4, <1>5

LEMMA TickKeeps == ASSUME StoreInv, Tick PROVE StoreInv'
<1>1. StoreShapes
  BY DEF StoreInv
<1>2. /\ tick \in Nat /\ tick' = tick + 1 /\ tick' \in 0 .. LastTick
      /\ UNCHANGED <<row, local, reading, writing, replaced, told>>
      /\ \A c \in Reads : reading[c].pc # "set"
      /\ shared' \in {shared, Unset}
  BY <1>1, StoreAssumption DEF Tick, StoreShapes
<1>3. Unset \in CacheEntry /\ Unset.set = FALSE
  BY StoreAssumption DEF Unset, CacheEntry, Moments, SettingValues
<1>4. StoreShapes'
  BY <1>1, <1>2, <1>3 DEF StoreShapes
<1>5. StaleIsBounded'
  BY <1>2 DEF StoreInv, StaleIsBounded
<1>6. \A n \in Nat : n <= tick => n <= tick'
  BY <1>2
<1>7. ReplacedOK'
  <2>1. \A v \in SettingValues : told[v] <= tick'
    BY <1>1, <1>6, StoreNumbers DEF StoreInv, ReplacedOK
  <2>2. \A p \in Workers : local[p].set => local[p].at <= tick'
    BY <1>1, <1>6, StoreNumbers DEF StoreInv, ReplacedOK
  <2>3. shared'.set => shared'.at <= tick' /\ shared'.at <= replaced[shared'.v]
    BY <1>1, <1>2, <1>3, <1>6, StoreNumbers DEF StoreInv, ReplacedOK
  <2>4. QED
    BY <1>2, <2>1, <2>2, <2>3 DEF StoreInv, ReplacedOK, Effective, Current
<1>8. QED
  BY <1>4, <1>5, <1>7 DEF StoreInv

LEMMA StoreNextInv == StoreInv /\ [StoreNext]_storeVars => StoreInv'
<1> SUFFICES ASSUME StoreInv, [StoreNext]_storeVars PROVE StoreInv'
  OBVIOUS
<1>1. CASE UNCHANGED storeVars
  BY <1>1 DEF storeVars, StoreInv, StoreShapes, ReplacedOK, StaleIsBounded, Effective, Current
<1>2. ASSUME NEW c \in Reads, GetLocal(c) \/ GetShared(c) \/ GetFromDb(c) \/ DbFails(c) \/ SetShared(c)
      PROVE  StoreInv'
  BY <1>2, GetLocalKeeps, GetSharedKeeps, GetFromDbKeeps, DbFailsKeeps, SetSharedKeeps
<1>3. QED
  BY <1>1, <1>2, WritesKeep, TickKeeps DEF StoreNext

-----------------------------------------------------------------------------
(* Its history *)

(***************************************************************************)
(* While no two writes meet, the one at work knows the row's value, which  *)
(* is the last of the values the row has had, and the history pairs each   *)
(* of them with the next.                                                  *)
(***************************************************************************)
TellsSoFar ==
    /\ \A c \in Writes, d \in Writes : Busy(c) /\ Busy(d) => c = d
    /\ \A c \in Writes : writing[c].pc = "update" => row.there /\ writing[c].old = row.value
    /\ row.active => row.there
    /\ row.there <=> Len(values) > 0
    /\ row.there => values[Len(values)] = row.value
    /\ row.there => Len(past) = Len(values) - 1
    /\ ~ row.there => Len(past) = 0
    /\ \A i \in 1 .. Len(past) : past[i] = <<values[i], values[i + 1]>>

HistoryInv ==
    /\ values \in Seq(SettingValues)
    /\ past \in Seq(SettingValues \X SettingValues)
    /\ ~ overlap => TellsSoFar

LEMMA HistoryInvTells == HistoryInv => HistoryTells
<1> SUFFICES ASSUME HistoryInv, ~ overlap PROVE past = [i \in 1 .. Len(values) - 1 |-> <<values[i], values[i + 1]>>]
  BY DEF HistoryTells
<1>1. TellsSoFar /\ past \in Seq(SettingValues \X SettingValues) /\ Len(values) \in Nat
  BY DEF HistoryInv
<1>2. 1 .. Len(past) = 1 .. Len(values) - 1
  BY <1>1 DEF TellsSoFar
<1>3. past = [i \in 1 .. Len(past) |-> past[i]]
  BY <1>1
<1>4. QED
  BY <1>1, <1>2, <1>3 DEF TellsSoFar

(***************************************************************************)
(* What neither moves the row nor the writes.                              *)
(***************************************************************************)
LEMMA HistoryRests ==
    ASSUME HistoryInv, UNCHANGED <<row, past, writing, values, overlap>> PROVE HistoryInv'
  BY DEF HistoryInv, TellsSoFar, Busy

LEMMA LookTells == ASSUME StoreInv, HistoryInv, NEW c \in Writes, Look(c) PROVE HistoryInv'
<1>1. UNCHANGED <<row, past, values>>
  BY DEF Look
<1> SUFFICES ASSUME ~ overlap' PROVE TellsSoFar'
  BY <1>1 DEF HistoryInv
<1> DEFINE u == [pc |-> IF row.active THEN "update" ELSE "create", old |-> row.value]
<1>2. /\ u.old = row.value /\ (u.pc = "update" => row.active)
  OBVIOUS
<1>3. writing' = [writing EXCEPT ![c] = u] /\ writing \in [Writes -> WriteState]
  BY DEF Look, StoreInv, StoreShapes
<1> HIDE DEF u
<1>4. writing'[c] = u /\ \A d \in Writes : d # c => writing'[d] = writing[d]
  BY <1>3
<1>5. ~ overlap /\ \A d \in Writes : ~ Busy(d)
  BY DEF Look
<1>6. TellsSoFar
  BY <1>5 DEF HistoryInv
<1>7. \A d \in Writes : Busy(d)' => d = c
  BY <1>4, <1>5 DEF Busy
<1>8. \A d \in Writes : writing'[d].pc = "update" => d = c
  BY <1>4, <1>5 DEF Busy
<1>9. \A d \in Writes : writing'[d].pc = "update" => row.there /\ writing'[d].old = row.value
  BY <1>2, <1>4, <1>6, <1>8 DEF TellsSoFar
<1>10. QED
  BY <1>1, <1>6, <1>7, <1>9 DEF TellsSoFar

(***************************************************************************)
(* A write that is over is one fewer at work.                              *)
(***************************************************************************)
LEMMA OneFewer ==
    ASSUME StoreInv, NEW c \in Writes, writing' = [writing EXCEPT ![c].pc = "over"],
           Busy(c), TellsSoFar
    PROVE  \A d \in Writes : ~ Busy(d)'
<1>1. writing \in [Writes -> WriteState]
  BY DEF StoreInv, StoreShapes
<1>2. writing'[c].pc = "over" /\ \A d \in Writes : d # c => writing'[d] = writing[d]
  BY <1>1 DEF WriteState
<1>3. \A d \in Writes : d # c => ~ Busy(d)
  BY DEF TellsSoFar
<1>4. QED
  BY <1>2, <1>3 DEF Busy

LEMMA FailTells == ASSUME StoreInv, HistoryInv, NEW c \in Writes, WriteFails(c) PROVE HistoryInv'
<1>1. UNCHANGED <<row, past, values, overlap>>
  BY DEF WriteFails
<1> SUFFICES ASSUME ~ overlap PROVE TellsSoFar'
  BY <1>1 DEF HistoryInv
<1>2. TellsSoFar
  BY DEF HistoryInv
<1>3. \A d \in Writes : ~ Busy(d)'
  BY <1>2, OneFewer DEF WriteFails
<1>4. QED
  BY <1>1, <1>2, <1>3 DEF TellsSoFar, Busy

LEMMA CreateTells == ASSUME StoreInv, HistoryInv, NEW c \in Writes, Create(c) PROVE HistoryInv'
<1>1. UNCHANGED <<past, overlap>> /\ c \in SettingValues /\ Busy(c)
  BY DEF Create, Busy, SettingValues
<1>2. values \in Seq(SettingValues) /\ past \in Seq(SettingValues \X SettingValues)
  BY DEF HistoryInv
<1>3. CASE row.there
  <2>1. UNCHANGED <<row, values>>
    BY <1>3 DEF Create
  <2> SUFFICES ASSUME ~ overlap PROVE TellsSoFar'
    BY <1>1, <1>2, <2>1 DEF HistoryInv
  <2>2. TellsSoFar
    BY DEF HistoryInv
  <2>3. \A d \in Writes : ~ Busy(d)'
    BY <1>1, <2>2, OneFewer DEF Create
  <2>4. QED
    BY <1>1, <2>1, <2>2, <2>3 DEF TellsSoFar, Busy
<1>4. CASE ~ row.there
  <2>1. row' = [there |-> TRUE, active |-> TRUE, value |-> c] /\ values' = Append(values, c)
    BY <1>4 DEF Create, Wrote
  <2>2. values' \in Seq(SettingValues)
    BY <1>1, <1>2, <2>1
  <2> SUFFICES ASSUME ~ overlap PROVE TellsSoFar'
    BY <1>1, <1>2, <2>2 DEF HistoryInv
  <2>3. TellsSoFar
    BY DEF HistoryInv
  <2>4. \A d \in Writes : ~ Busy(d)'
    BY <1>1, <2>3, OneFewer DEF Create
  <2>5. Len(values) = 0 /\ Len(past) = 0
    BY <1>2, <1>4, <2>3 DEF TellsSoFar
  <2>6. Len(values') = 1 /\ values'[1] = c
    BY <1>1, <1>2, <2>1, <2>5
  <2>7. row'.there /\ row'.value = c
    BY <2>1
  <2>8. QED
    BY <1>1, <2>4, <2>5, <2>6, <2>7 DEF TellsSoFar, Busy
<1>5. QED
  BY <1>3, <1>4

LEMMA UpdateTells == ASSUME StoreInv, HistoryInv, NEW c \in Writes, Update(c) PROVE HistoryInv'
<1>1. UNCHANGED overlap /\ c \in SettingValues /\ Busy(c) /\ writing[c].old \in SettingValues /\ row \in SettingRow
  BY DEF Update, Busy, SettingValues, StoreInv, StoreShapes, WriteState
<1>2. values \in Seq(SettingValues) /\ past \in Seq(SettingValues \X SettingValues)
  BY DEF HistoryInv
<1>3. /\ values' = Append(values, row'.value) /\ row'.value \in SettingValues
      /\ row'.there = row.there /\ (row'.active => row.active)
  <2>1. CASE Wrote([row EXCEPT !.value = c])
    BY <1>1, <2>1 DEF Wrote, SettingRow
  <2>2. CASE \E on \in BOOLEAN : Wrote([row EXCEPT !.active = @ /\ on])
    <3>1. PICK on \in BOOLEAN : Wrote([row EXCEPT !.active = @ /\ on])
      BY <2>2
    <3> DEFINE a == row.active /\ on
    <3>2. row' = [row EXCEPT !.active = a] /\ (a => row.active) /\ values' = Append(values, row'.value)
      BY <3>1 DEF Wrote
    <3> HIDE DEF a
    <3>3. QED
      BY <1>1, <3>2 DEF SettingRow
  <2>3. QED
    BY <2>1, <2>2 DEF Update
<1>4. PICK w \in SettingValues :
          /\ past' = Append(past, <<writing[c].old, w>>)
          /\ ~ overlap => w = row'.value
  <2>1. CASE Wrote([row EXCEPT !.value = c]) /\ past' = Append(past, <<writing[c].old, c>>)
    BY <1>1, <2>1 DEF Wrote, SettingRow
  <2>2. CASE /\ \E on \in BOOLEAN : Wrote([row EXCEPT !.active = @ /\ on])
             /\ past' = Append(past, <<writing[c].old, writing[c].old>>)
    <3>1. row'.value = row.value
      BY <1>1, <2>2 DEF Wrote, SettingRow
    <3>2. ~ overlap => writing[c].old = row.value
      BY DEF Update, HistoryInv, TellsSoFar
    <3>3. QED
      BY <1>1, <2>2, <3>1, <3>2
  <2>3. QED
    BY <2>1, <2>2 DEF Update
<1>5. values' \in Seq(SettingValues) /\ past' \in Seq(SettingValues \X SettingValues)
  BY <1>1, <1>2, <1>3, <1>4
<1> SUFFICES ASSUME ~ overlap PROVE TellsSoFar'
  BY <1>1, <1>5 DEF HistoryInv
<1>6. TellsSoFar
  BY DEF HistoryInv
<1>7. \A d \in Writes : ~ Busy(d)'
  BY <1>1, <1>6, OneFewer DEF Update
<1>8. row.there /\ writing[c].old = row.value /\ w = row'.value
  BY <1>4, <1>6 DEF Update, TellsSoFar
<1>9. PICK n \in Nat \ {0} : Len(values) = n /\ Len(past) = n - 1 /\ values[n] = row.value
  BY <1>2, <1>6, <1>8 DEF TellsSoFar
<1>10. Len(values') = n + 1 /\ values'[n + 1] = row'.value /\ \A i \in 1 .. n : values'[i] = values[i]
  BY <1>2, <1>3, <1>9
<1>11. Len(past') = n /\ past'[n] = <<values[n], w>> /\ \A i \in 1 .. n - 1 : past'[i] = past[i]
  <2>1. <<writing[c].old, w>> \in SettingValues \X SettingValues
    BY <1>1
  <2>2. QED
    BY <1>2, <1>4, <1>8, <1>9, <2>1
<1>12. \A i \in 1 .. n : past'[i] = <<values'[i], values'[i + 1]>>
  <2> SUFFICES ASSUME NEW i \in 1 .. n PROVE past'[i] = <<values'[i], values'[i + 1]>>
    OBVIOUS
  <2>1. CASE i = n
    BY <1>8, <1>9, <1>10, <1>11, <2>1
  <2>2. CASE i # n
    <3>1. i \in 1 .. n - 1 /\ i + 1 \in 1 .. n /\ i \in 1 .. Len(past)
      BY <1>9, <2>2
    <3>2. past[i] = <<values[i], values[i + 1]>>
      BY <1>6, <3>1 DEF TellsSoFar
    <3>3. QED
      BY <1>10, <1>11, <3>1, <3>2
  <2>3. QED
    BY <2>1, <2>2
<1>13. (row'.active => row'.there) /\ row'.there
  BY <1>3, <1>8
<1>14. Len(values') > 0 /\ values'[Len(values')] = row'.value /\ Len(past') = Len(values') - 1
  BY <1>9, <1>10, <1>11
<1>15. \A d \in Writes : writing'[d].pc # "update"
  BY <1>7 DEF Busy
<1>16. \A i \in 1 .. Len(past') : past'[i] = <<values'[i], values'[i + 1]>>
  BY <1>11, <1>12
<1>17. QED
  BY <1>7, <1>13, <1>14, <1>15, <1>16 DEF TellsSoFar

LEMMA HistoryInitInv == StoreInit => HistoryInv
<1> SUFFICES ASSUME StoreInit PROVE HistoryInv
  OBVIOUS
<1>1. values = <<>> /\ past = <<>> /\ row.there = FALSE /\ row.active = FALSE /\ \A c \in Writes : writing[c].pc = "new"
  BY DEF StoreInit
<1>2. values \in Seq(SettingValues) /\ past \in Seq(SettingValues \X SettingValues) /\ Len(values) = 0 /\ Len(past) = 0
  BY <1>1
<1>3. TellsSoFar
  BY <1>1, <1>2 DEF TellsSoFar, Busy
<1>4. QED
  BY <1>2, <1>3 DEF HistoryInv

LEMMA HistoryNextInv == StoreInv /\ HistoryInv /\ [StoreNext]_storeVars => HistoryInv'
<1> SUFFICES ASSUME StoreInv, HistoryInv, [StoreNext]_storeVars PROVE HistoryInv'
  OBVIOUS
<1>1. CASE UNCHANGED storeVars
  BY <1>1, HistoryRests DEF storeVars
<1>2. ASSUME NEW c \in Reads, GetLocal(c) \/ GetShared(c) \/ GetFromDb(c) \/ DbFails(c) \/ SetShared(c)
      PROVE  HistoryInv'
  BY <1>2, HistoryRests DEF GetLocal, GetShared, GetFromDb, DbFails, SetShared
<1>3. CASE Tick
  BY <1>3, HistoryRests DEF Tick
<1>4. QED
  BY <1>1, <1>2, <1>3, LookTells, CreateTells, UpdateTells, FailTells DEF StoreNext

LEMMA SettingsInvSafe == StoreInv /\ HistoryInv => SettingsSafe
  BY HistoryInvTells DEF StoreInv, SettingsSafe

-----------------------------------------------------------------------------
(* Secrets while the key is rotated *)

(***************************************************************************)
(* What encrypt and decrypt do depends on the configuration, not on its    *)
(* place in the list.                                                      *)
(***************************************************************************)
LEMMA SameStage ==
    ASSUME NEW i, NEW j, Stages[i] = Stages[j]
    PROVE  Encrypted(i) = Encrypted(j) /\ \A s : Decrypts(i, s) <=> Decrypts(j, s)
<1>1. Versions(i) = Versions(j) /\ \A l : KeyOf(i, l) = KeyOf(j, l)
  BY DEF Versions, KeyOf, Single
<1>2. QED
  BY <1>1 DEF Encrypted, Decrypts

(***************************************************************************)
(* Whoever has stage j reads what any stage up to it wrote, as long as     *)
(* they are all of a first rotation.                                       *)
(***************************************************************************)
LEMMA ReadsEarlier ==
    ASSUME FirstRotation, NEW k \in 1 .. Newest, Newest \in DOMAIN Stages
    PROVE  Decrypts(Newest, Encrypted(k))
<1>1. PICK j \in DOMAIN Stages : j = Newest
  OBVIOUS
<1>2. DOMAIN Stages = 1 .. Len(Stages) /\ Len(Stages) \in Nat
      /\ \A i \in DOMAIN Stages : Stages[i].key = NoKey => Stages[i].previous = NoKey
  BY StagesAssumption
<1>3. CASE Stages[k].key = NoKey
  BY <1>3 DEF Encrypted, Versions, Decrypts, Plain
<1>4. CASE Stages[k].key # NoKey /\ k = j
  <2>1. PICK l \in {"v1", "v2"} : /\ l \in Versions(j) /\ Encrypted(j) = [label |-> l, key |-> KeyOf(j, l), salt |-> Stages[j].salt]
    BY <1>4 DEF Versions, Encrypted
  <2>2. QED
    BY <1>1, <1>4, <2>1 DEF Decrypts
<1>5. CASE Stages[k].key # NoKey /\ k # j
  <2>1. k < j /\ k \in 1 .. j /\ j \in 1 .. j
    BY <1>1, <1>2, <1>5
  <2>2. /\ Single(k) /\ Stages[k].key = (IF Single(j) THEN Stages[j].key ELSE Stages[j].previous)
        /\ Stages[k].salt \in {Stages[j].salt, DefaultSalt}
    BY <1>1, <1>5, <2>1 DEF FirstRotation
  <2>3. Encrypted(k) = [label |-> "v1", key |-> Stages[k].key, salt |-> Stages[k].salt]
    BY <1>5, <2>2 DEF Encrypted, Versions, KeyOf
  <2>4. Stages[j].key # NoKey
    BY <1>2, <1>5, <2>2 DEF Single
  <2>5. "v1" \in Versions(j) /\ KeyOf(j, "v1") = Stages[k].key
    BY <2>2, <2>4 DEF Versions, KeyOf
  <2>6. QED
    BY <1>1, <2>2, <2>3, <2>5 DEF Decrypts
<1>6. QED
  BY <1>3, <1>4, <1>5

RotShapes ==
    /\ stage \in [Procs -> DOMAIN Stages]
    /\ resolved \in [Procs -> 0 .. Len(Stages)]
    /\ stored \in [SecretRows -> {Plain} \cup {Encrypted(k) : k \in DOMAIN Stages}]
    /\ content \in [SecretRows -> Nat]
    /\ sweeper \in [pc : {"idle", "read"}, seen : [SecretRows -> Nat], todo : SUBSET SecretRows]
    /\ written \in [SecretRows -> Nat]

(***************************************************************************)
(* No process is two configurations ahead of another.                      *)
(***************************************************************************)
OneApart == \A p \in Procs, q \in Procs : stage[p] <= stage[q] + 1

(***************************************************************************)
(* A stored value was made with a configuration some process has reached.  *)
(***************************************************************************)
MadeSoFar ==
    \A r \in SecretRows :
        stored[r] = Plain \/ \E p \in Procs, k \in DOMAIN Stages : k <= stage[p] /\ stored[r] = Encrypted(k)

(***************************************************************************)
(* What the command has read is no newer than the secret, and still the    *)
(* secret where nobody wrote behind it.                                    *)
(***************************************************************************)
SweepKnows ==
    sweeper.pc = "read" =>
        \A r \in SecretRows : sweeper.seen[r] <= written[r] /\ (r \notin jobRaced => sweeper.seen[r] = content[r])

RotInv == RotShapes /\ OneApart /\ MadeSoFar /\ SweepKnows /\ SecretKept

LEMMA StageFacts ==
    ASSUME RotShapes
    PROVE  /\ DOMAIN Stages = 1 .. Len(Stages) /\ Len(Stages) \in Nat \ {0} /\ 1 \in DOMAIN Stages
           /\ \A p \in Procs : stage[p] \in Nat /\ stage[p] >= 1 /\ stage[p] <= Len(Stages)
  BY StagesAssumption DEF RotShapes

(***************************************************************************)
(* There is a newest configuration in use.                                 *)
(***************************************************************************)
LEMMA NewestIsThere ==
    ASSUME RotShapes, OneApart
    PROVE  Newest \in DOMAIN Stages /\ \A p \in Procs : stage[p] <= Newest
<1>1. \E i \in DOMAIN Stages : (\E p \in Procs : stage[p] = i) /\ \A p \in Procs : stage[p] <= i
  <2>1. Command \in Procs /\ \A p \in Procs : stage[p] \in DOMAIN Stages /\ stage[p] \in Nat
    BY StageFacts DEF RotShapes, Procs
  <2>2. CASE \E q \in Procs : stage[q] = stage[Command] + 1
    <3>1. PICK q \in Procs : stage[q] = stage[Command] + 1
      BY <2>2
    <3>2. \A p \in Procs : stage[p] <= stage[q]
      BY <2>1, <3>1 DEF OneApart
    <3>3. QED
      BY <2>1, <3>2
  <2>3. CASE \A q \in Procs : stage[q] # stage[Command] + 1
    <3>1. \A p \in Procs : stage[p] <= stage[Command]
      BY <2>1, <2>3 DEF OneApart
    <3>2. QED
      BY <2>1, <3>1
  <2>4. QED
    BY <2>2, <2>3
<1>2. QED
  BY <1>1 DEF Newest

(***************************************************************************)
(* The keys a process has derived are those of its configuration.          *)
(***************************************************************************)
LEMMA KeysAreCurrent ==
    ASSUME RotShapes, NEW p \in Procs
    PROVE  /\ KeysOf(p) \in DOMAIN Stages /\ KeysOf(p) \in 0 .. Len(Stages)
           /\ Encrypted(KeysOf(p)) = Encrypted(stage[p])
           /\ \A s : Decrypts(KeysOf(p), s) <=> Decrypts(stage[p], s)
<1>1. KeysOf(p) \in DOMAIN Stages /\ Stages[KeysOf(p)] = Stages[stage[p]]
  BY StageFacts DEF KeysOf, RotShapes
<1>2. KeysOf(p) \in 0 .. Len(Stages)
  BY <1>1, StageFacts
<1>3. QED
  BY <1>1, <1>2, SameStage

LEMMA RotInvSafe == RotInv => RotationSafe
<1> SUFFICES ASSUME RotInv, FirstRotation, NEW p \in Procs, NEW r \in SecretRows, stage[p] = Newest
             PROVE  Decrypts(KeysOf(p), stored[r])
  BY DEF RotationSafe, WindowReadable, RotInv
<1>1. RotShapes /\ OneApart
  BY DEF RotInv
<1>2. SUFFICES Decrypts(Newest, stored[r])
  BY <1>1, KeysAreCurrent
<1>3. CASE stored[r] = Plain
  BY <1>3 DEF Decrypts, Plain
<1>4. CASE stored[r] # Plain
  <2>1. PICK q \in Procs, k \in DOMAIN Stages : k <= stage[q] /\ stored[r] = Encrypted(k)
    BY <1>4 DEF RotInv, MadeSoFar
  <2>2. Newest \in DOMAIN Stages /\ stage[q] <= Newest
    BY <1>1, NewestIsThere
  <2>3. stage[q] \in Nat /\ DOMAIN Stages = 1 .. Len(Stages) /\ Len(Stages) \in Nat
    BY <1>1, StageFacts
  <2>4. k \in 1 .. Newest
    BY <2>1, <2>2, <2>3
  <2>5. QED
    BY <2>1, <2>2, <2>4, ReadsEarlier
<1>5. QED
  BY <1>3, <1>4

LEMMA RotInitInv == RotInit => RotInv
<1> SUFFICES ASSUME RotInit PROVE RotInv
  OBVIOUS
<1>1. RotShapes
  BY StagesAssumption DEF RotInit, RotShapes
<1>2. OneApart /\ MadeSoFar /\ SweepKnows /\ SecretKept
  BY DEF RotInit, OneApart, MadeSoFar, SweepKnows, SecretKept
<1>3. QED
  BY <1>1, <1>2 DEF RotInv

LEMMA ConfigureKeeps == ASSUME RotInv, NEW p \in Procs, Configure(p) PROVE RotInv'
<1>1. RotShapes /\ UNCHANGED <<stored, content, sweeper, written, jobRaced>>
  BY DEF RotInv, Configure
<1>2. /\ stage[p] \in Nat /\ stage[p] >= 1 /\ stage[p] < Len(Stages)
      /\ \A q \in Procs : stage[q] \in Nat /\ stage[q] >= stage[p]
      /\ DOMAIN Stages = 1 .. Len(Stages) /\ Len(Stages) \in Nat
  BY <1>1, StageFacts DEF Configure
<1>3. stage[p] + 1 \in DOMAIN Stages
  BY <1>2
<1>4. stage' \in [Procs -> DOMAIN Stages] /\ stage'[p] = stage[p] + 1 /\ \A q \in Procs : q # p => stage'[q] = stage[q]
  BY <1>1, <1>3 DEF Configure, RotShapes
<1>5. resolved' \in [Procs -> 0 .. Len(Stages)]
  <2>1. 0 \in 0 .. Len(Stages)
    BY <1>2
  <2>2. QED
    BY <1>1, <2>1 DEF Configure, RotShapes
<1>6. OneApart'
  BY <1>2, <1>4 DEF RotInv, OneApart
<1>7. \A q \in Procs : stage[q] <= stage'[q]
  BY <1>2, <1>4
<1>8. MadeSoFar'
  <2> SUFFICES ASSUME NEW r \in SecretRows, stored[r] # Plain
               PROVE  \E q \in Procs, k \in DOMAIN Stages : k <= stage'[q] /\ stored[r] = Encrypted(k)
    BY <1>1 DEF MadeSoFar
  <2>1. PICK q \in Procs, k \in DOMAIN Stages : k <= stage[q] /\ stored[r] = Encrypted(k)
    BY DEF RotInv, MadeSoFar
  <2>2. stage'[q] \in Nat /\ k \in Nat
    BY <1>2, <1>4
  <2>3. k <= stage'[q]
    BY <1>2, <1>7, <2>1, <2>2
  <2>4. QED
    BY <2>1, <2>3
<1>9. RotShapes' /\ SweepKnows' /\ SecretKept'
  BY <1>1, <1>4, <1>5 DEF RotInv, RotShapes, SweepKnows, SecretKept
<1>10. QED
  BY <1>6, <1>8, <1>9 DEF RotInv

(***************************************************************************)
(* A value a process stores is of a configuration it has reached.          *)
(***************************************************************************)
LEMMA StoresSoFar ==
    ASSUME RotInv, NEW p \in Procs, NEW S, UNCHANGED stage,
           stored' = [r \in SecretRows |-> IF r \in S THEN Encrypted(KeysOf(p)) ELSE stored[r]]
    PROVE  MadeSoFar' /\ stored' \in [SecretRows -> {Plain} \cup {Encrypted(k) : k \in DOMAIN Stages}]
<1>1. RotShapes
  BY DEF RotInv
<1>2. PICK e \in {Plain} \cup {Encrypted(k) : k \in DOMAIN Stages} : e = Encrypted(KeysOf(p)) /\ e = Encrypted(stage[p])
  BY <1>1, KeysAreCurrent
<1>3. stage[p] \in DOMAIN Stages /\ stage[p] <= stage[p]
  BY <1>1, StageFacts DEF RotShapes
<1>4. \A r \in SecretRows : stored'[r] = e \/ stored'[r] = stored[r]
  BY <1>2
<1>5. stored' \in [SecretRows -> {Plain} \cup {Encrypted(k) : k \in DOMAIN Stages}]
  BY <1>1, <1>2 DEF RotShapes
<1>6. ASSUME NEW r \in SecretRows, stored'[r] # Plain
      PROVE  \E q \in Procs, k \in DOMAIN Stages : k <= stage[q] /\ stored'[r] = Encrypted(k)
  <2>1. CASE stored'[r] = e
    BY <1>2, <1>3, <2>1
  <2>2. CASE stored'[r] = stored[r]
    BY <1>6, <2>2 DEF RotInv, MadeSoFar
  <2>3. QED
    BY <1>4, <2>1, <2>2
<1>7. MadeSoFar'
  BY <1>6 DEF MadeSoFar
<1>8. QED
  BY <1>5, <1>7

LEMMA SetSecretKeeps == ASSUME RotInv, NEW p \in Servers, NEW r \in SecretRows, SetSecret(p, r) PROVE RotInv'
<1>1. RotShapes /\ UNCHANGED <<stage, sweeper>> /\ p \in Procs
  BY DEF RotInv, SetSecret, Procs
<1>2. stored' = [q \in SecretRows |-> IF q \in {r} THEN Encrypted(KeysOf(p)) ELSE stored[q]]
  BY <1>1 DEF SetSecret, RotShapes
<1>3. MadeSoFar' /\ stored' \in [SecretRows -> {Plain} \cup {Encrypted(k) : k \in DOMAIN Stages}]
  BY <1>1, <1>2, StoresSoFar
<1>4. resolved' \in [Procs -> 0 .. Len(Stages)]
  BY <1>1, KeysAreCurrent DEF SetSecret, RotShapes
<1>5. written[r] + 1 \in Nat
  BY <1>1 DEF RotShapes
<1>6. /\ written' \in [SecretRows -> Nat] /\ content' \in [SecretRows -> Nat]
      /\ written'[r] = written[r] + 1 /\ content'[r] = written[r] + 1
      /\ \A q \in SecretRows : q # r => written'[q] = written[q] /\ content'[q] = content[q]
  BY <1>1, <1>5 DEF SetSecret, RotShapes
<1>7. jobRaced \subseteq jobRaced' /\ (sweeper.pc = "read" => r \in jobRaced')
  BY DEF SetSecret
<1>8. RotShapes' /\ OneApart'
  BY <1>1, <1>3, <1>4, <1>6 DEF RotInv, RotShapes, OneApart
<1>9. SecretKept'
  BY <1>5, <1>6, <1>7 DEF RotInv, SecretKept
<1>10. SweepKnows'
  <2> SUFFICES ASSUME sweeper.pc = "read", NEW q \in SecretRows
               PROVE  sweeper.seen[q] <= written'[q] /\ (q \notin jobRaced' => sweeper.seen[q] = content'[q])
    BY <1>1 DEF SweepKnows
  <2>1. sweeper.seen[q] \in Nat /\ written[q] \in Nat /\ sweeper.seen[q] <= written[q]
        /\ (q \notin jobRaced => sweeper.seen[q] = content[q])
    BY <1>1 DEF RotInv, RotShapes, SweepKnows
  <2>2. QED
    BY <1>6, <1>7, <2>1
<1>11. QED
  BY <1>3, <1>8, <1>9, <1>10 DEF RotInv

LEMMA SweepKeeps == ASSUME RotInv, Scan \/ CommandFails PROVE RotInv'
<1>1. RotShapes /\ UNCHANGED <<stage, resolved, stored, content, written, jobRaced>>
  BY DEF RotInv, Scan, CommandFails
<1>2. CASE Scan
  <2>1. sweeper' = [pc |-> "read", seen |-> content, todo |-> {r \in Covered : stored[r].label = "plain"}]
    BY <1>2 DEF Scan
  <2>2. sweeper' \in [pc : {"idle", "read"}, seen : [SecretRows -> Nat], todo : SUBSET SecretRows]
    BY <1>1, <2>1, StagesAssumption DEF RotShapes
  <2>3. SweepKnows'
    BY <1>1, <2>1 DEF RotInv, SecretKept, SweepKnows
  <2>4. QED
    BY <1>1, <2>2, <2>3 DEF RotInv, RotShapes, OneApart, MadeSoFar, SecretKept
<1>3. CASE CommandFails
  <2>1. sweeper' \in [pc : {"idle", "read"}, seen : [SecretRows -> Nat], todo : SUBSET SecretRows] /\ sweeper'.pc = "idle"
    BY <1>1, <1>3 DEF CommandFails, RotShapes
  <2>2. QED
    BY <1>1, <2>1 DEF RotInv, RotShapes, OneApart, MadeSoFar, SecretKept, SweepKnows
<1>4. QED
  BY <1>2, <1>3

LEMMA WriteBackKeeps == ASSUME RotInv, WriteBack PROVE RotInv'
<1>1. RotShapes /\ UNCHANGED <<stage, written, jobRaced>> /\ Command \in Procs /\ sweeper.pc = "read"
  BY DEF RotInv, WriteBack, Procs
<1>2. MadeSoFar' /\ stored' \in [SecretRows -> {Plain} \cup {Encrypted(k) : k \in DOMAIN Stages}]
  BY <1>1, StoresSoFar DEF WriteBack
<1>3. resolved' \in [Procs -> 0 .. Len(Stages)]
  BY <1>1, KeysAreCurrent DEF WriteBack, RotShapes
<1>4. sweeper' \in [pc : {"idle", "read"}, seen : [SecretRows -> Nat], todo : SUBSET SecretRows] /\ sweeper'.pc = "idle"
  BY <1>1 DEF WriteBack, RotShapes
<1>5. /\ content' \in [SecretRows -> Nat]
      /\ \A r \in SecretRows : content'[r] = sweeper.seen[r] \/ content'[r] = content[r]
  BY <1>1 DEF WriteBack, RotShapes
<1>6. SecretKept'
  BY <1>1, <1>5 DEF RotInv, SecretKept, SweepKnows
<1>7. RotShapes' /\ OneApart' /\ SweepKnows'
  BY <1>1, <1>2, <1>3, <1>4, <1>5 DEF RotInv, RotShapes, OneApart, SweepKnows
<1>8. QED
  BY <1>2, <1>6, <1>7 DEF RotInv

LEMMA RotNextInv == RotInv /\ [RotNext]_rotVars => RotInv'
<1> SUFFICES ASSUME RotInv, [RotNext]_rotVars PROVE RotInv'
  OBVIOUS
<1>1. CASE UNCHANGED rotVars
  BY <1>1 DEF rotVars, RotInv, RotShapes, OneApart, MadeSoFar, SecretKept, SweepKnows
<1>2. QED
  BY <1>1, ConfigureKeeps, SetSecretKeeps, SweepKeeps, WriteBackKeeps DEF RotNext

-----------------------------------------------------------------------------
(* Metered usage *)

(***************************************************************************)
(* What each call has counted and not yet brought further: tokens of the   *)
(* month that are not in a window yet, tokens of a window that are not     *)
(* charged yet, resets of a window and of the day before the zero.         *)
(***************************************************************************)
Waiting == [q \in Charges |-> IF UAt(q, "window") THEN Tokens[q] ELSE 0]

Passing(w) ==
    [q \in Charges |-> IF usage[q].pc \in {"status", "check"} /\ usage[q].at = w THEN Tokens[q] ELSE 0]

Reckoned(w) ==
    [q \in Resets |-> IF usage[q].pc \in {"day", "zero"} /\ usage[q].at = w THEN 1 ELSE 0]

BeforeZero == [q \in Resets |-> IF UAt(q, "zero") THEN 1 ELSE 0]

FiniteSums ==
    /\ IsFiniteSet(Singly(used)) /\ IsFiniteSet(Singly(zeroed))
    /\ IsFiniteSet(Singly(Waiting)) /\ IsFiniteSet(Singly(BeforeZero))
    /\ \A w \in Windows : IsFiniteSet(Singly(Passing(w))) /\ IsFiniteSet(Singly(Reckoned(w)))

(***************************************************************************)
(* Each counter is ahead of the next by what the calls between them hold.  *)
(***************************************************************************)
CountedFirst ==
    /\ Total(used) + Total(Waiting) <= month
    /\ \A w \in Windows : zeroed[w] = 0 => charged[w] + Total(Passing(w)) <= used[w]
    /\ \A w \in Windows : zeroed[w] + Total(Reckoned(w)) <= resets[w]
    /\ Total(zeroed) + Total(BeforeZero) <= day

(***************************************************************************)
(* One reset at a time finds the limits as it checked them.                *)
(***************************************************************************)
ResetAlone ==
    /\ \A p, q \in Resetting : p = q
    /\ \A q \in Resetting :
          /\ usage[q].pc \in {"daily", "count"} => resets[usage[q].at] < WindowResets
          /\ usage[q].pc \in {"count", "day"} => day < DayResets

UsageInv ==
    /\ UsageTypeOK
    /\ FiniteSums
    /\ CountedFirst
    /\ ChargedWithinQuota
    /\ ResetsLimited
    /\ ~ crowded => ResetAlone

-----------------------------------------------------------------------------
(* Sums, counted as sets of pairs *)

LEMMA SinglyPairs ==
    ASSUME NEW S, NEW f \in [S -> Nat], NEW p
    PROVE  p \in Singly(f) <=> \E x \in S, i \in Nat : p = <<x, i>> /\ 1 <= i /\ i <= f[x]
<1>1. DOMAIN f = S
  OBVIOUS
<1>2. p \in Singly(f) <=> \E x \in S : p \in {x} \X (1..f[x])
  BY <1>1 DEF Singly
<1>3. ASSUME NEW x \in S
      PROVE  p \in {x} \X (1..f[x]) <=> \E i \in Nat : p = <<x, i>> /\ 1 <= i /\ i <= f[x]
  <2>1. f[x] \in Nat
    OBVIOUS
  <2> QED
    BY <2>1
<1> QED
  BY <1>2, <1>3

(***************************************************************************)
(* A counter that has not grown.                                           *)
(***************************************************************************)
LEMMA SumShrinks ==
    ASSUME NEW S, NEW f \in [S -> Nat], NEW g \in [S -> Nat],
           \A x \in S : g[x] <= f[x], IsFiniteSet(Singly(f))
    PROVE  IsFiniteSet(Singly(g)) /\ Total(g) <= Total(f)
<1>1. Singly(g) \subseteq Singly(f)
  <2> SUFFICES ASSUME NEW p \in Singly(g) PROVE p \in Singly(f)
    OBVIOUS
  <2>1. PICK x \in S, i \in Nat : p = <<x, i>> /\ 1 <= i /\ i <= g[x]
    BY SinglyPairs
  <2>2. i <= f[x]
    BY <2>1
  <2> QED
    BY <2>1, <2>2, SinglyPairs
<1> QED
  BY <1>1, FS_Subset DEF Total

(***************************************************************************)
(* One counter grows by n.                                                 *)
(***************************************************************************)
LEMMA SumGrows ==
    ASSUME NEW S, NEW f \in [S -> Nat], NEW g \in [S -> Nat], NEW y \in S, NEW n \in Nat,
           g[y] = f[y] + n, \A x \in S \ {y} : g[x] = f[x], IsFiniteSet(Singly(f))
    PROVE  IsFiniteSet(Singly(g)) /\ Total(g) = Total(f) + n
<1> DEFINE a == f[y]
           New == {y} \X (a + 1 .. a + n)
<1>1. a \in Nat /\ a + 1 \in Int /\ a + n \in Int
  OBVIOUS
<1>2. IsFiniteSet(a + 1 .. a + n) /\ Cardinality(a + 1 .. a + n) = n
  <2>1. /\ IsFiniteSet(a + 1 .. a + n)
        /\ Cardinality(a + 1 .. a + n) = IF a + 1 > a + n THEN 0 ELSE (a + n) - (a + 1) + 1
    BY <1>1, FS_Interval
  <2>2. a \in Nat => (IF a + 1 > a + n THEN 0 ELSE (a + n) - (a + 1) + 1) = n
    <3> HIDE DEF a
    <3> QED
      OBVIOUS
  <2> QED
    BY <1>1, <2>1, <2>2
<1>3. IsFiniteSet({y}) /\ Cardinality({y}) = 1
  BY FS_Singleton
<1>4. IsFiniteSet(New) /\ Cardinality(New) = n
  <2>1. IsFiniteSet(New) /\ Cardinality(New) = Cardinality({y}) * Cardinality(a + 1 .. a + n)
    BY <1>2, <1>3, FS_Product
  <2> QED
    BY <1>2, <1>3, <2>1
<1>5. \A p : p \in New <=> \E i \in Nat : p = <<y, i>> /\ a + 1 <= i /\ i <= a + n
  BY <1>1
<1> HIDE DEF New
<1>6. Singly(g) = Singly(f) \cup New
  <2>1. ASSUME NEW p \in Singly(g) PROVE p \in Singly(f) \cup New
    <3>1. PICK x \in S, i \in Nat : p = <<x, i>> /\ 1 <= i /\ i <= g[x]
      BY SinglyPairs
    <3>2. CASE x # y \/ i <= a
      <4>1. i <= f[x]
        BY <3>1, <3>2
      <4> QED
        BY <3>1, <4>1, SinglyPairs
    <3>3. CASE x = y /\ ~ (i <= a)
      BY <1>1, <1>5, <3>1, <3>3
    <3> QED
      BY <3>2, <3>3
  <2>2. ASSUME NEW p \in Singly(f) PROVE p \in Singly(g)
    <3>1. PICK x \in S, i \in Nat : p = <<x, i>> /\ 1 <= i /\ i <= f[x]
      BY SinglyPairs
    <3>2. i <= g[x]
      BY <3>1
    <3> QED
      BY <3>1, <3>2, SinglyPairs
  <2>3. ASSUME NEW p \in New PROVE p \in Singly(g)
    <3>1. PICK i \in Nat : p = <<y, i>> /\ a + 1 <= i /\ i <= a + n
      BY <1>5
    <3>2. 1 <= i /\ i <= g[y]
      BY <1>1, <3>1
    <3> QED
      BY <3>1, <3>2, SinglyPairs
  <2> QED
    BY <2>1, <2>2, <2>3
<1>7. Singly(f) \cap New = {}
  <2> SUFFICES ASSUME NEW p \in Singly(f), p \in New PROVE FALSE
    OBVIOUS
  <2>1. PICK x \in S, i \in Nat : p = <<x, i>> /\ 1 <= i /\ i <= f[x]
    BY SinglyPairs
  <2>2. PICK j \in Nat : p = <<y, j>> /\ a + 1 <= j
    BY <1>5
  <2>3. x = y /\ i = j
    BY <2>1, <2>2
  <2> QED
    BY <1>1, <2>1, <2>2, <2>3
<1>8. Cardinality(Singly(f)) \in Nat
  BY FS_CardinalityType
<1>9. /\ IsFiniteSet(Singly(f) \cup New)
      /\ Cardinality(Singly(f) \cup New) = Cardinality(Singly(f)) + Cardinality(New) - Cardinality(Singly(f) \cap New)
  BY <1>4, FS_Union
<1>10. Cardinality(Singly(f) \cap New) = 0
  BY <1>7, FS_EmptySet
<1> QED
  BY <1>4, <1>6, <1>8, <1>9, <1>10 DEF Total

(***************************************************************************)
(* One counter changes, either way.                                        *)
(***************************************************************************)
LEMMA SumChanges ==
    ASSUME NEW S, NEW f \in [S -> Nat], NEW g \in [S -> Nat], NEW y \in S,
           \A x \in S \ {y} : g[x] = f[x], IsFiniteSet(Singly(f))
    PROVE  /\ IsFiniteSet(Singly(g)) /\ Total(f) \in Nat /\ Total(g) \in Nat
           /\ Total(g) + f[y] = Total(f) + g[y]
<1>1. Total(f) \in Nat
  BY FS_CardinalityType DEF Total
<1>2. CASE g[y] >= f[y]
  <2>1. g[y] - f[y] \in Nat /\ g[y] = f[y] + (g[y] - f[y])
    BY <1>2
  <2>2. IsFiniteSet(Singly(g)) /\ Total(g) = Total(f) + (g[y] - f[y])
    BY <2>1, SumGrows
  <2> QED
    BY <1>1, <1>2, <2>2
<1>3. CASE g[y] < f[y]
  <2>1. f[y] - g[y] \in Nat /\ f[y] = g[y] + (f[y] - g[y]) /\ \A x \in S : g[x] <= f[x]
    BY <1>3
  <2>2. IsFiniteSet(Singly(g))
    BY <2>1, SumShrinks
  <2>3. Total(f) = Total(g) + (f[y] - g[y])
    BY <2>1, <2>2, SumGrows
  <2>4. Total(g) \in Nat
    BY <2>2, FS_CardinalityType DEF Total
  <2> QED
    BY <1>1, <2>2, <2>3, <2>4
<1> QED
  BY <1>2, <1>3

LEMMA SumOfZeros ==
    ASSUME NEW S
    PROVE  IsFiniteSet(Singly([x \in S |-> 0])) /\ Total([x \in S |-> 0]) = 0
<1> DEFINE z == [x \in S |-> 0]
<1>1. z \in [S -> Nat] /\ \A x \in S : z[x] = 0
  OBVIOUS
<1> HIDE DEF z
<1>2. Singly(z) = {}
  <2> SUFFICES ASSUME NEW p \in Singly(z) PROVE FALSE
    OBVIOUS
  <2>1. PICK x \in S, i \in Nat : p = <<x, i>> /\ 1 <= i /\ i <= z[x]
    BY <1>1, SinglyPairs
  <2> QED
    BY <1>1, <2>1
<1>3. IsFiniteSet(Singly(z)) /\ Total(z) = 0
  BY <1>2, FS_EmptySet DEF Total
<1> QED
  BY <1>3 DEF z

-----------------------------------------------------------------------------
(* Metered usage: the steps *)

LEMMA HoldingsTyped ==
    ASSUME UsageTypeOK
    PROVE  /\ Waiting \in [Charges -> Nat] /\ BeforeZero \in [Resets -> Nat]
           /\ \A w \in Windows : Passing(w) \in [Charges -> Nat] /\ Reckoned(w) \in [Resets -> Nat]
BY UsageAssumption DEF UsageTypeOK, Waiting, BeforeZero, Passing, Reckoned

LEMMA HoldingsTypedNext ==
    ASSUME UsageTypeOK'
    PROVE  /\ Waiting' \in [Charges -> Nat] /\ BeforeZero' \in [Resets -> Nat]
           /\ \A w \in Windows : Passing(w)' \in [Charges -> Nat] /\ Reckoned(w)' \in [Resets -> Nat]
BY UsageAssumption DEF UsageTypeOK, Waiting, BeforeZero, Passing, Reckoned, UAt

(***************************************************************************)
(* The step of a charge moves what the charge holds, and no other sum.     *)
(***************************************************************************)
LEMMA ChargeMoves ==
    ASSUME UsageTypeOK, UsageTypeOK', FiniteSums, NEW q \in Charges,
           \A x \in Calls \ {q} : usage'[x] = usage[x]
    PROVE  /\ IsFiniteSet(Singly(Waiting')) /\ IsFiniteSet(Singly(BeforeZero'))
           /\ \A w \in Windows : IsFiniteSet(Singly(Passing(w)')) /\ IsFiniteSet(Singly(Reckoned(w)'))
           /\ BeforeZero' = BeforeZero
           /\ \A w \in Windows : Reckoned(w)' = Reckoned(w)
           /\ Total(Waiting) \in Nat /\ Total(Waiting') \in Nat
           /\ Total(Waiting') + Waiting[q] = Total(Waiting) + Waiting'[q]
           /\ \A w \in Windows :
                 /\ Total(Passing(w)) \in Nat /\ Total(Passing(w)') \in Nat
                 /\ Total(Passing(w)') + Passing(w)[q] = Total(Passing(w)) + Passing(w)'[q]
<1>0. q \notin Resets
  BY UsageAssumption
<1>1. BeforeZero' = BeforeZero
  BY <1>0 DEF BeforeZero, UAt, Calls
<1>2. \A w \in Windows : Reckoned(w)' = Reckoned(w)
  BY <1>0 DEF Reckoned, Calls
<1>3. /\ IsFiniteSet(Singly(Waiting')) /\ Total(Waiting) \in Nat /\ Total(Waiting') \in Nat
      /\ Total(Waiting') + Waiting[q] = Total(Waiting) + Waiting'[q]
  <2>1. \A x \in Charges \ {q} : Waiting'[x] = Waiting[x]
    BY DEF Waiting, UAt, Calls
  <2>2. IsFiniteSet(Singly(Waiting))
    BY DEF FiniteSums
  <2>3. Waiting \in [Charges -> Nat] /\ Waiting' \in [Charges -> Nat]
    BY HoldingsTyped, HoldingsTypedNext
  <2> DEFINE f == Waiting
             g == Waiting'
  <2> HIDE DEF f, g
  <2>4. /\ IsFiniteSet(Singly(g)) /\ Total(f) \in Nat /\ Total(g) \in Nat
        /\ Total(g) + f[q] = Total(f) + g[q]
    <3>1. f \in [Charges -> Nat] /\ g \in [Charges -> Nat] /\ IsFiniteSet(Singly(f))
          /\ \A x \in Charges \ {q} : g[x] = f[x]
      BY <2>1, <2>2, <2>3 DEF f, g
    <3> QED
      BY <3>1, SumChanges
  <2> QED
    BY <2>4 DEF f, g
<1>4. ASSUME NEW w \in Windows
      PROVE  /\ IsFiniteSet(Singly(Passing(w)')) /\ Total(Passing(w)) \in Nat /\ Total(Passing(w)') \in Nat
             /\ Total(Passing(w)') + Passing(w)[q] = Total(Passing(w)) + Passing(w)'[q]
  <2>1. \A x \in Charges \ {q} : Passing(w)'[x] = Passing(w)[x]
    BY DEF Passing, Calls
  <2>2. IsFiniteSet(Singly(Passing(w)))
    BY DEF FiniteSums
  <2>3. Passing(w) \in [Charges -> Nat] /\ Passing(w)' \in [Charges -> Nat]
    BY HoldingsTyped, HoldingsTypedNext
  <2> DEFINE f == Passing(w)
             g == Passing(w)'
  <2> HIDE DEF f, g
  <2>4. /\ IsFiniteSet(Singly(g)) /\ Total(f) \in Nat /\ Total(g) \in Nat
        /\ Total(g) + f[q] = Total(f) + g[q]
    <3>1. f \in [Charges -> Nat] /\ g \in [Charges -> Nat] /\ IsFiniteSet(Singly(f))
          /\ \A x \in Charges \ {q} : g[x] = f[x]
      BY <2>1, <2>2, <2>3 DEF f, g
    <3> QED
      BY <3>1, SumChanges
  <2> QED
    BY <2>4 DEF f, g
<1> QED
  BY <1>1, <1>2, <1>3, <1>4 DEF FiniteSums

(***************************************************************************)
(* So does the step of a reset.                                            *)
(***************************************************************************)
LEMMA ResetMoves ==
    ASSUME UsageTypeOK, UsageTypeOK', FiniteSums, NEW q \in Resets,
           \A x \in Calls \ {q} : usage'[x] = usage[x]
    PROVE  /\ IsFiniteSet(Singly(Waiting')) /\ IsFiniteSet(Singly(BeforeZero'))
           /\ \A w \in Windows : IsFiniteSet(Singly(Passing(w)')) /\ IsFiniteSet(Singly(Reckoned(w)'))
           /\ Waiting' = Waiting
           /\ \A w \in Windows : Passing(w)' = Passing(w)
           /\ Total(BeforeZero) \in Nat /\ Total(BeforeZero') \in Nat
           /\ Total(BeforeZero') + BeforeZero[q] = Total(BeforeZero) + BeforeZero'[q]
           /\ \A w \in Windows :
                 /\ Total(Reckoned(w)) \in Nat /\ Total(Reckoned(w)') \in Nat
                 /\ Total(Reckoned(w)') + Reckoned(w)[q] = Total(Reckoned(w)) + Reckoned(w)'[q]
<1>0. q \notin Charges
  BY UsageAssumption
<1>1. Waiting' = Waiting
  BY <1>0 DEF Waiting, UAt, Calls
<1>2. \A w \in Windows : Passing(w)' = Passing(w)
  BY <1>0 DEF Passing, Calls
<1>3. /\ IsFiniteSet(Singly(BeforeZero')) /\ Total(BeforeZero) \in Nat /\ Total(BeforeZero') \in Nat
      /\ Total(BeforeZero') + BeforeZero[q] = Total(BeforeZero) + BeforeZero'[q]
  <2>1. \A x \in Resets \ {q} : BeforeZero'[x] = BeforeZero[x]
    BY DEF BeforeZero, UAt, Calls
  <2>2. IsFiniteSet(Singly(BeforeZero))
    BY DEF FiniteSums
  <2>3. BeforeZero \in [Resets -> Nat] /\ BeforeZero' \in [Resets -> Nat]
    BY HoldingsTyped, HoldingsTypedNext
  <2> DEFINE f == BeforeZero
             g == BeforeZero'
  <2> HIDE DEF f, g
  <2>4. /\ IsFiniteSet(Singly(g)) /\ Total(f) \in Nat /\ Total(g) \in Nat
        /\ Total(g) + f[q] = Total(f) + g[q]
    <3>1. f \in [Resets -> Nat] /\ g \in [Resets -> Nat] /\ IsFiniteSet(Singly(f))
          /\ \A x \in Resets \ {q} : g[x] = f[x]
      BY <2>1, <2>2, <2>3 DEF f, g
    <3> QED
      BY <3>1, SumChanges
  <2> QED
    BY <2>4 DEF f, g
<1>4. ASSUME NEW w \in Windows
      PROVE  /\ IsFiniteSet(Singly(Reckoned(w)')) /\ Total(Reckoned(w)) \in Nat /\ Total(Reckoned(w)') \in Nat
             /\ Total(Reckoned(w)') + Reckoned(w)[q] = Total(Reckoned(w)) + Reckoned(w)'[q]
  <2>1. \A x \in Resets \ {q} : Reckoned(w)'[x] = Reckoned(w)[x]
    BY DEF Reckoned, Calls
  <2>2. IsFiniteSet(Singly(Reckoned(w)))
    BY DEF FiniteSums
  <2>3. Reckoned(w) \in [Resets -> Nat] /\ Reckoned(w)' \in [Resets -> Nat]
    BY HoldingsTyped, HoldingsTypedNext
  <2> DEFINE f == Reckoned(w)
             g == Reckoned(w)'
  <2> HIDE DEF f, g
  <2>4. /\ IsFiniteSet(Singly(g)) /\ Total(f) \in Nat /\ Total(g) \in Nat
        /\ Total(g) + f[q] = Total(f) + g[q]
    <3>1. f \in [Resets -> Nat] /\ g \in [Resets -> Nat] /\ IsFiniteSet(Singly(f))
          /\ \A x \in Resets \ {q} : g[x] = f[x]
      BY <2>1, <2>2, <2>3 DEF f, g
    <3> QED
      BY <3>1, SumChanges
  <2> QED
    BY <2>4 DEF f, g
<1> QED
  BY <1>1, <1>2, <1>3, <1>4 DEF FiniteSums

(***************************************************************************)
(* One counter of the windows changes, and its sum with it.                *)
(***************************************************************************)
LEMMA WindowsMove ==
    ASSUME NEW f \in [Windows -> Nat], NEW n \in Nat, NEW y \in Windows, IsFiniteSet(Singly(f))
    PROVE  /\ IsFiniteSet(Singly([f EXCEPT ![y] = n]))
           /\ Total(f) \in Nat /\ Total([f EXCEPT ![y] = n]) \in Nat
           /\ Total([f EXCEPT ![y] = n]) + f[y] = Total(f) + n
<1> DEFINE g == [f EXCEPT ![y] = n]
<1>1. g \in [Windows -> Nat] /\ g[y] = n /\ \A x \in Windows \ {y} : g[x] = f[x]
  OBVIOUS
<1> HIDE DEF g
<1>2. /\ IsFiniteSet(Singly(g)) /\ Total(f) \in Nat /\ Total(g) \in Nat
      /\ Total(g) + f[y] = Total(f) + g[y]
  BY <1>1, SumChanges
<1> QED
  BY <1>1, <1>2 DEF g

LEMMA UsageInitInv == UsageInit => UsageInv
<1> SUFFICES ASSUME UsageInit PROVE UsageInv
  OBVIOUS
<1>1. UsageTypeOK
  <2>1. 0 \in Windows /\ Zeros \in [Windows -> Nat]
    BY UsageAssumption DEF Windows, Zeros
  <2>2. usage \in [Calls -> [pc: UsagePC, at: Windows]]
    BY <2>1 DEF UsageInit, UsagePC
  <2> QED
    BY <2>1, <2>2 DEF UsageInit, UsageTypeOK
<1>2. /\ Waiting = [q \in Charges |-> 0] /\ BeforeZero = [q \in Resets |-> 0]
      /\ \A w \in Windows : Passing(w) = [q \in Charges |-> 0] /\ Reckoned(w) = [q \in Resets |-> 0]
  BY DEF UsageInit, Waiting, BeforeZero, Passing, Reckoned, UAt, Calls
<1>3. used = [w \in Windows |-> 0] /\ zeroed = [w \in Windows |-> 0]
  BY DEF UsageInit, Zeros
<1>4. FiniteSums
  BY <1>2, <1>3, SumOfZeros DEF FiniteSums
<1>5. CountedFirst
  <2>1. /\ Total(used) = 0 /\ Total(zeroed) = 0 /\ Total(Waiting) = 0 /\ Total(BeforeZero) = 0
        /\ \A w \in Windows : Total(Passing(w)) = 0 /\ Total(Reckoned(w)) = 0
    BY <1>2, <1>3, SumOfZeros
  <2> QED
    BY <2>1 DEF UsageInit, CountedFirst, Zeros
<1>6. ChargedWithinQuota /\ ResetsLimited /\ ResetAlone
  BY UsageAssumption DEF UsageInit, Zeros, ChargedWithinQuota, ResetsLimited, ResetAlone, Resetting, Calls
<1> QED
  BY <1>1, <1>4, <1>5, <1>6 DEF UsageInv

LEMMA UsageTyped == UsageTypeOK /\ [UsageNext]_usageVars => UsageTypeOK'
<1> SUFFICES ASSUME UsageTypeOK, [UsageNext]_usageVars PROVE UsageTypeOK'
  OBVIOUS
<1>1. CASE UNCHANGED usageVars
  BY <1>1 DEF UsageTypeOK, usageVars
<1>2. CASE NextWindow
  <2>1. window \in Nat /\ window < LastWindow /\ LastWindow \in Nat /\ window' = window + 1
    BY <1>2, UsageAssumption DEF UsageTypeOK, NextWindow, Windows
  <2>2. window' \in Windows
    BY <2>1 DEF Windows
  <2>3. UNCHANGED <<month, used, resets, day, usage, charged, zeroed, crowded>>
    BY <1>2 DEF NextWindow
  <2> QED
    BY <2>2, <2>3 DEF UsageTypeOK
<1> DEFINE Moved(q) == \E l \in UsagePC, w \in Windows : usage' = [usage EXCEPT ![q] = [pc |-> l, at |-> w]]
           Rest == /\ window' \in Windows /\ month' \in Nat /\ used' \in [Windows -> Nat]
                   /\ resets' \in [Windows -> Nat] /\ day' \in Nat /\ charged' \in [Windows -> Nat]
                   /\ zeroed' \in [Windows -> Nat] /\ crowded' \in BOOLEAN
<1>3. ASSUME NEW q \in Calls, Moved(q), Rest PROVE UsageTypeOK'
  BY <1>3 DEF UsageTypeOK
<1>4. ASSUME NEW q \in Calls, NEW l \in UsagePC, UGoto(q, l) PROVE Moved(q)
  <2>1. usage[q] \in [pc: UsagePC, at: Windows]
    BY DEF UsageTypeOK
  <2>2. [usage[q] EXCEPT !.pc = l] = [pc |-> l, at |-> usage[q].at] /\ usage[q].at \in Windows
    BY <2>1
  <2>3. usage' = [usage EXCEPT ![q] = [usage[q] EXCEPT !.pc = l]]
    BY <1>4 DEF UGoto
  <2> QED
    BY <2>2, <2>3
<1>5. ASSUME NEW q \in Calls, NEW l \in UsagePC, UGotoNow(q, l) PROVE Moved(q)
  BY <1>5 DEF UsageTypeOK, UGotoNow, UGotoAt
<1>9. ASSUME NEW q \in Calls, NEW l \in UsagePC, NEW w \in Windows, UGotoAt(q, l, w) PROVE Moved(q)
  BY <1>9 DEF UsageTypeOK, UGotoAt
<1> HIDE DEF Moved
<1>6. ASSUME NEW q \in Charges,
             \/ CountMonth(q) \/ CountWindow(q) \/ ReadMonth(q) \/ ReadWindow(q) \/ ReadOtherWindow(q)
             \/ Debit(q)
      PROVE  UsageTypeOK'
  <2>0. q \in Calls /\ usage[q].at \in Windows /\ Tokens[q] \in Nat
    BY UsageAssumption DEF Calls, UsageTypeOK
  <2>1. CASE CountMonth(q)
    BY <1>3, <1>4, <2>0, <2>1 DEF CountMonth, UsageTypeOK, UsagePC
  <2>2. CASE CountWindow(q)
    BY <1>3, <1>5, <2>0, <2>2 DEF CountWindow, UsageTypeOK, UsagePC
  <2>3. CASE ReadMonth(q)
    <3>1. PICK w \in usage[q].at .. window, l \in UsagePC : UGotoAt(q, l, w)
      BY <2>3 DEF ReadMonth, UsagePC
    <3>2. w \in Windows
      BY <2>0, UsageAssumption DEF Windows, UsageTypeOK
    <3>3. Rest
      BY <2>3 DEF ReadMonth, UsageTypeOK
    <3> QED
      BY <1>3, <1>9, <2>0, <3>1, <3>2, <3>3
  <2>6. CASE ReadOtherWindow(q)
    BY <1>3, <1>4, <2>0, <2>6 DEF ReadOtherWindow, UsageTypeOK, UsagePC
  <2>4. CASE ReadWindow(q)
    BY <1>3, <1>4, <2>0, <2>4 DEF ReadWindow, UsageTypeOK, UsagePC
  <2>5. CASE Debit(q)
    BY <1>3, <1>4, <2>0, <2>5 DEF Debit, UsageTypeOK, UsagePC
  <2> QED
    BY <1>6, <2>1, <2>2, <2>3, <2>4, <2>5, <2>6
<1>7. ASSUME NEW q \in Resets,
             CheckWindowResets(q) \/ CheckDayResets(q) \/ CountReset(q) \/ CountDay(q) \/ SetZero(q)
      PROVE  UsageTypeOK'
  <2>0. q \in Calls /\ usage[q].at \in Windows
    BY DEF Calls, UsageTypeOK
  <2>1. CASE CheckWindowResets(q)
    BY <1>3, <1>5, <2>0, <2>1 DEF CheckWindowResets, UsageTypeOK, UsagePC
  <2>2. CASE CheckDayResets(q)
    BY <1>3, <1>4, <2>0, <2>2 DEF CheckDayResets, UsageTypeOK, UsagePC
  <2>3. CASE CountReset(q)
    BY <1>3, <1>4, <2>0, <2>3 DEF CountReset, UsageTypeOK, UsagePC
  <2>4. CASE CountDay(q)
    BY <1>3, <1>4, <2>0, <2>4 DEF CountDay, UsageTypeOK, UsagePC
  <2>5. CASE SetZero(q)
    BY <1>3, <1>4, <2>0, <2>5 DEF SetZero, UsageTypeOK, UsagePC
  <2> QED
    BY <1>7, <2>1, <2>2, <2>3, <2>4, <2>5
<1>8. ASSUME NEW q \in Calls, UsageFails(q) PROVE UsageTypeOK'
  BY <1>3, <1>4, <1>8 DEF UsageFails, UsageTypeOK, UsagePC
<1> QED
  BY <1>1, <1>2, <1>6, <1>7, <1>8 DEF UsageNext

(***************************************************************************)
(* The sums stay as they are ordered, whatever a charge does ...           *)
(***************************************************************************)
LEMMA ChargeCounts ==
    ASSUME UsageInv, UsageTypeOK', NEW q \in Charges,
           \/ CountMonth(q) \/ CountWindow(q) \/ ReadMonth(q) \/ ReadWindow(q) \/ ReadOtherWindow(q)
           \/ Debit(q) \/ UsageFails(q)
    PROVE  FiniteSums' /\ CountedFirst' /\ ChargedWithinQuota' /\ ResetsLimited' /\ (~ crowded => ResetAlone)'
<1> USE DEF UsageInv
<1>1. /\ \A x \in Calls \ {q} : usage'[x] = usage[x]
      /\ usage \in [Calls -> [pc: UsagePC, at: Windows]] /\ usage' \in [Calls -> [pc: UsagePC, at: Windows]]
      /\ q \in Calls
  BY DEF CountMonth, CountWindow, ReadMonth, ReadWindow, ReadOtherWindow, Debit, UsageFails, UGoto,
         UGotoNow, UGotoAt, UsageTypeOK, Calls
<1>2. /\ zeroed' = zeroed /\ resets' = resets /\ day' = day /\ crowded' = crowded /\ window' = window
  BY DEF CountMonth, CountWindow, ReadMonth, ReadWindow, ReadOtherWindow, Debit, UsageFails
<1>3. /\ IsFiniteSet(Singly(Waiting')) /\ IsFiniteSet(Singly(BeforeZero'))
      /\ \A w \in Windows : IsFiniteSet(Singly(Passing(w)')) /\ IsFiniteSet(Singly(Reckoned(w)'))
      /\ BeforeZero' = BeforeZero
      /\ \A w \in Windows : Reckoned(w)' = Reckoned(w)
      /\ Total(Waiting) \in Nat /\ Total(Waiting') \in Nat
      /\ Total(Waiting') + Waiting[q] = Total(Waiting) + Waiting'[q]
      /\ \A w \in Windows :
            /\ Total(Passing(w)) \in Nat /\ Total(Passing(w)') \in Nat
            /\ Total(Passing(w)') + Passing(w)[q] = Total(Passing(w)) + Passing(w)'[q]
  BY <1>1, ChargeMoves
<1>4. ResetsLimited' /\ (~ crowded => ResetAlone)'
  <2>1. Resetting' = Resetting /\ \A x \in Resets : usage'[x] = usage[x]
    BY <1>1, UsageAssumption DEF Resetting, Calls
  <2> QED
    BY <1>2, <2>1 DEF ResetsLimited, ResetAlone, Resetting
<1>5. /\ Waiting[q] = IF usage[q].pc = "window" THEN Tokens[q] ELSE 0
      /\ Waiting'[q] = IF usage'[q].pc = "window" THEN Tokens[q] ELSE 0
      /\ \A w \in Windows :
            /\ Passing(w)[q] = IF usage[q].pc \in {"status", "check"} /\ usage[q].at = w THEN Tokens[q] ELSE 0
            /\ Passing(w)'[q] = IF usage'[q].pc \in {"status", "check"} /\ usage'[q].at = w THEN Tokens[q] ELSE 0
  BY DEF Waiting, Passing, UAt
<1>6. Tokens[q] \in Nat \ {0} /\ WindowQuota \in Nat
  BY UsageAssumption
<1>7. Total(used) \in Nat /\ month \in Nat /\ used \in [Windows -> Nat] /\ charged \in [Windows -> Nat]
      /\ window \in Windows /\ usage[q].at \in Windows
  BY <1>1, FS_CardinalityType DEF UsageTypeOK, FiniteSums, Total
<1>8. /\ Total(used) + Total(Waiting) <= month
      /\ \A w \in Windows : zeroed[w] = 0 => charged[w] + Total(Passing(w)) <= used[w]
      /\ \A w \in Windows : zeroed[w] + Total(Reckoned(w)) <= resets[w]
      /\ Total(zeroed) + Total(BeforeZero) <= day
      /\ \A w \in Windows : zeroed[w] = 0 /\ charged[w] > 0 => charged[w] < WindowQuota
  BY DEF CountedFirst, ChargedWithinQuota
<1> DEFINE U == Total(used)
           V == Total(Waiting)
           V2 == Total(Waiting')
           P(w) == Total(Passing(w))
           P2(w) == Total(Passing(w)')
<1>9. SUFFICES /\ IsFiniteSet(Singly(used'))
               /\ Total(used') + V2 <= month'
               /\ \A w \in Windows : zeroed[w] = 0 => charged'[w] + P2(w) <= used'[w]
               /\ \A w \in Windows : zeroed[w] = 0 /\ charged'[w] > 0 => charged'[w] < WindowQuota
  BY <1>2, <1>3, <1>4, <1>8 DEF FiniteSums, CountedFirst, ChargedWithinQuota
<1>10. /\ V \in Nat /\ V2 \in Nat /\ V2 + Waiting[q] = V + Waiting'[q] /\ U + V <= month /\ U \in Nat
       /\ \A w \in Windows :
            /\ P(w) \in Nat /\ P2(w) \in Nat /\ P2(w) + Passing(w)[q] = P(w) + Passing(w)'[q]
            /\ zeroed[w] = 0 => charged[w] + P(w) <= used[w]
  BY <1>3, <1>7, <1>8
<1>11. IsFiniteSet(Singly(used))
  BY DEF FiniteSums
<1> HIDE DEF U, V, V2, P, P2
<1>12. CASE CountMonth(q)
  <2>1. usage[q].pc = "new" /\ usage'[q].pc = "window" /\ month' = month + Tokens[q] /\ used' = used /\ charged' = charged
    BY <1>1, <1>12 DEF CountMonth, UAt, UGoto
  <2>2. V2 = V + Tokens[q] /\ \A w \in Windows : P2(w) = P(w)
    BY <1>5, <1>6, <1>10, <2>1
  <2>3. U + V2 <= month'
    BY <1>6, <1>7, <1>10, <2>1, <2>2
  <2> QED
    BY <1>8, <1>10, <1>11, <2>1, <2>2, <2>3 DEF U
<1>13. CASE CountWindow(q)
  <2>1. /\ usage[q].pc = "window" /\ usage'[q].pc = "status" /\ usage'[q].at = window
        /\ used' = [used EXCEPT ![window] = used[window] + Tokens[q]] /\ month' = month /\ charged' = charged
    BY <1>1, <1>13 DEF CountWindow, UAt, UGotoNow, UGotoAt
  <2>2. V2 + Tokens[q] = V /\ \A w \in Windows : P2(w) = P(w) + (IF w = window THEN Tokens[q] ELSE 0)
    BY <1>5, <1>6, <1>10, <2>1
  <2>3. used[window] + Tokens[q] \in Nat
    BY <1>6, <1>7
  <2>4. IsFiniteSet(Singly(used')) /\ Total(used') \in Nat /\ Total(used') + used[window] = U + (used[window] + Tokens[q])
    <3> DEFINE n == used[window] + Tokens[q]
    <3> HIDE DEF n
    <3>1. /\ IsFiniteSet(Singly([used EXCEPT ![window] = n]))
          /\ Total([used EXCEPT ![window] = n]) \in Nat
          /\ Total([used EXCEPT ![window] = n]) + used[window] = Total(used) + n
      <4>1. n \in Nat
        BY <2>3 DEF n
      <4> QED
        BY <1>7, <1>11, <4>1, WindowsMove
    <3> QED
      BY <2>1, <3>1 DEF n, U
  <2>5. Total(used') + V2 <= month'
    <3>1. used[window] \in Nat
      BY <1>7
    <3> QED
      BY <1>6, <1>7, <1>10, <2>1, <2>2, <2>4, <3>1
  <2>6. \A w \in Windows : used'[w] = used[w] + (IF w = window THEN Tokens[q] ELSE 0)
    BY <1>7, <2>1
  <2>7. \A w \in Windows : zeroed[w] = 0 => charged'[w] + P2(w) <= used'[w]
    BY <1>6, <1>7, <1>10, <2>1, <2>2, <2>6
  <2> QED
    BY <1>8, <2>1, <2>4, <2>5, <2>7
<1>14. CASE ReadMonth(q) \/ ReadOtherWindow(q) \/ Debit(q) \/ UsageFails(q)
  <2>1. /\ used' = used /\ month' = month /\ charged' = charged
        /\ usage'[q].pc # "window"
        /\ usage'[q].pc \in {"status", "check"} =>
              usage[q].pc \in {"status", "check"} /\ usage'[q].at = usage[q].at
    <3>1. CASE ReadMonth(q)
      <4>1. PICK w \in usage[q].at .. window, l \in {"refused", "check", "other"} :
                UGotoAt(q, l, w) /\ (l = "check" => w = usage[q].at)
        BY <3>1 DEF ReadMonth
      <4>2. usage'[q].pc = l /\ usage'[q].at = w
        BY <1>1, <4>1 DEF UGotoAt
      <4> QED
        BY <3>1, <4>1, <4>2 DEF ReadMonth, UAt
    <3>2. CASE ReadOtherWindow(q) \/ Debit(q) \/ UsageFails(q)
      BY <1>1, <3>2 DEF ReadOtherWindow, Debit, UsageFails, UAt, UGoto
    <3> QED
      BY <1>14, <3>1, <3>2
  <2>2. V2 <= V /\ \A w \in Windows : P2(w) <= P(w)
    BY <1>5, <1>6, <1>10, <2>1
  <2>3. U + V2 <= month'
    BY <1>7, <1>10, <2>1, <2>2
  <2>4. \A w \in Windows : zeroed[w] = 0 => charged'[w] + P2(w) <= used'[w]
    BY <1>7, <1>10, <2>1, <2>2
  <2> QED
    BY <1>8, <1>11, <2>1, <2>3, <2>4 DEF U
<1>15. CASE ReadWindow(q)
  <2>1. /\ used' = used /\ month' = month /\ usage[q].pc = "check" /\ usage'[q].pc \notin {"window", "status", "check"}
        /\ charged' = IF used[usage[q].at] < WindowQuota
                      THEN [charged EXCEPT ![usage[q].at] = charged[usage[q].at] + Tokens[q]] ELSE charged
    BY <1>1, <1>15 DEF ReadWindow, UAt, UGoto
  <2>2. V2 = V /\ \A w \in Windows : P2(w) + (IF w = usage[q].at THEN Tokens[q] ELSE 0) = P(w)
    BY <1>5, <1>6, <1>10, <2>1
  <2>3. \A w \in Windows : /\ charged'[w] \in Nat
                           /\ charged'[w] = charged[w] \/ charged'[w] = charged[w] + (IF w = usage[q].at THEN Tokens[q] ELSE 0)
                           /\ charged'[w] # charged[w] => w = usage[q].at /\ used[w] < WindowQuota
    BY <1>6, <1>7, <2>1
  <2>4. \A w \in Windows : zeroed[w] = 0 => charged'[w] + P2(w) <= used'[w]
    BY <1>6, <1>7, <1>10, <2>1, <2>2, <2>3
  <2>5. \A w \in Windows : zeroed[w] = 0 /\ charged'[w] > 0 => charged'[w] < WindowQuota
    <3> SUFFICES ASSUME NEW w \in Windows, zeroed[w] = 0, charged'[w] > 0 PROVE charged'[w] < WindowQuota
      OBVIOUS
    <3>1. CASE charged'[w] = charged[w]
      BY <1>8, <3>1
    <3>2. CASE charged'[w] # charged[w]
      <4>1. charged'[w] <= used[w] /\ used[w] < WindowQuota /\ charged'[w] \in Nat /\ used[w] \in Nat
        BY <1>7, <1>10, <2>1, <2>3, <2>4, <3>2
      <4> QED
        BY <1>6, <4>1
    <3> QED
      BY <3>1, <3>2
  <2>6. U + V2 <= month'
    BY <1>10, <2>1, <2>2
  <2> QED
    BY <1>11, <2>1, <2>4, <2>5, <2>6 DEF U
<1> QED
  BY <1>12, <1>13, <1>14, <1>15

(***************************************************************************)
(* ... and whatever a reset does: alone, it also finds the limits as it    *)
(* checked them.                                                           *)
(***************************************************************************)
LEMMA ResetCounts ==
    ASSUME UsageInv, UsageTypeOK', NEW q \in Resets,
           \/ CheckWindowResets(q) \/ CheckDayResets(q) \/ CountReset(q) \/ CountDay(q) \/ SetZero(q)
           \/ UsageFails(q)
    PROVE  FiniteSums' /\ CountedFirst' /\ ChargedWithinQuota' /\ ResetsLimited' /\ (~ crowded => ResetAlone)'
<1> USE DEF UsageInv
<1>1. /\ \A x \in Calls \ {q} : usage'[x] = usage[x]
      /\ usage \in [Calls -> [pc: UsagePC, at: Windows]] /\ usage' \in [Calls -> [pc: UsagePC, at: Windows]]
      /\ q \in Calls
  BY DEF CheckWindowResets, CheckDayResets, CountReset, CountDay, SetZero, UsageFails, UGoto, UGotoNow,
         UGotoAt, UsageTypeOK, Calls
<1>2. month' = month /\ charged' = charged /\ window' = window
  BY DEF CheckWindowResets, CheckDayResets, CountReset, CountDay, SetZero, UsageFails
<1>3. /\ IsFiniteSet(Singly(Waiting')) /\ IsFiniteSet(Singly(BeforeZero'))
      /\ \A w \in Windows : IsFiniteSet(Singly(Passing(w)')) /\ IsFiniteSet(Singly(Reckoned(w)'))
      /\ Waiting' = Waiting
      /\ \A w \in Windows : Passing(w)' = Passing(w)
      /\ Total(BeforeZero) \in Nat /\ Total(BeforeZero') \in Nat
      /\ Total(BeforeZero') + BeforeZero[q] = Total(BeforeZero) + BeforeZero'[q]
      /\ \A w \in Windows :
            /\ Total(Reckoned(w)) \in Nat /\ Total(Reckoned(w)') \in Nat
            /\ Total(Reckoned(w)') + Reckoned(w)[q] = Total(Reckoned(w)) + Reckoned(w)'[q]
  BY <1>1, ResetMoves
<1>5. /\ BeforeZero[q] = IF usage[q].pc = "zero" THEN 1 ELSE 0
      /\ BeforeZero'[q] = IF usage'[q].pc = "zero" THEN 1 ELSE 0
      /\ \A w \in Windows :
            /\ Reckoned(w)[q] = IF usage[q].pc \in {"day", "zero"} /\ usage[q].at = w THEN 1 ELSE 0
            /\ Reckoned(w)'[q] = IF usage'[q].pc \in {"day", "zero"} /\ usage'[q].at = w THEN 1 ELSE 0
  BY DEF BeforeZero, Reckoned, UAt
<1>6. {WindowQuota, MonthQuota, WindowResets, DayResets, LastWindow} \subseteq Nat
  BY UsageAssumption
<1>7. /\ Total(used) \in Nat /\ month \in Nat /\ used \in [Windows -> Nat] /\ zeroed \in [Windows -> Nat]
      /\ resets \in [Windows -> Nat] /\ day \in Nat /\ Total(zeroed) \in Nat
      /\ window \in Windows /\ usage[q].at \in Windows
  BY <1>1, FS_CardinalityType DEF UsageTypeOK, FiniteSums, Total
<1>8. /\ Total(used) + Total(Waiting) <= month
      /\ \A w \in Windows : zeroed[w] = 0 => charged[w] + Total(Passing(w)) <= used[w]
      /\ \A w \in Windows : zeroed[w] + Total(Reckoned(w)) <= resets[w]
      /\ Total(zeroed) + Total(BeforeZero) <= day
      /\ \A w \in Windows : zeroed[w] = 0 /\ charged[w] > 0 => charged[w] < WindowQuota
  BY DEF CountedFirst, ChargedWithinQuota
<1>9. IsFiniteSet(Singly(used)) /\ IsFiniteSet(Singly(zeroed)) /\ Total(Waiting) \in Nat
  BY FS_CardinalityType DEF FiniteSums, Total
<1>10. ~ crowded => /\ \A w \in Windows : resets[w] <= WindowResets
                    /\ day <= DayResets
                    /\ \A p, r \in Resetting : p = r
                    /\ \A p \in Resetting :
                          /\ usage[p].pc \in {"daily", "count"} => resets[usage[p].at] < WindowResets
                          /\ usage[p].pc \in {"count", "day"} => day < DayResets
  BY DEF ResetsLimited, ResetAlone
<1> DEFINE U == Total(used)
           Z == Total(zeroed)
           B == Total(BeforeZero)
           B2 == Total(BeforeZero')
           R(w) == Total(Reckoned(w))
           R2(w) == Total(Reckoned(w)')
           Limits == ~ crowded' => /\ \A w \in Windows : resets'[w] <= WindowResets
                                   /\ day' <= DayResets
                                   /\ \A p, r \in Resetting' : p = r
                                   /\ \A p \in Resetting' :
                                         /\ usage'[p].pc \in {"daily", "count"} => resets'[usage'[p].at] < WindowResets
                                         /\ usage'[p].pc \in {"count", "day"} => day' < DayResets
<1>11. SUFFICES /\ IsFiniteSet(Singly(used')) /\ IsFiniteSet(Singly(zeroed'))
                /\ Total(used') + Total(Waiting) <= month
                /\ \A w \in Windows : zeroed'[w] = 0 => zeroed[w] = 0 /\ used'[w] = used[w]
                /\ \A w \in Windows : zeroed'[w] + R2(w) <= resets'[w]
                /\ Total(zeroed') + B2 <= day'
                /\ Limits
  <2>1. FiniteSums'
    BY <1>3, <1>11 DEF FiniteSums
  <2>2. CountedFirst'
    BY <1>2, <1>3, <1>8, <1>11 DEF CountedFirst
  <2>3. ChargedWithinQuota'
    BY <1>2, <1>8, <1>11 DEF ChargedWithinQuota
  <2>4. ResetsLimited' /\ (~ crowded => ResetAlone)'
    BY <1>11 DEF ResetsLimited, ResetAlone
  <2> QED
    BY <2>1, <2>2, <2>3, <2>4
<1>12. /\ B \in Nat /\ B2 \in Nat /\ B2 + BeforeZero[q] = B + BeforeZero'[q] /\ Z + B <= day /\ Z \in Nat
       /\ \A w \in Windows :
            /\ R(w) \in Nat /\ R2(w) \in Nat /\ R2(w) + Reckoned(w)[q] = R(w) + Reckoned(w)'[q]
            /\ zeroed[w] + R(w) <= resets[w]
  BY <1>3, <1>7, <1>8
<1>13. /\ \A p \in Resetting' : p # q => p \in Resetting /\ usage'[p] = usage[p]
       /\ q \in Resetting' <=> usage'[q].pc \in {"daily", "count", "day", "zero"}
       /\ q \in Resetting <=> usage[q].pc \in {"daily", "count", "day", "zero"}
  BY <1>1 DEF Resetting, Calls
<1> HIDE DEF Z, B, B2, R, R2
<1>14. CASE CheckWindowResets(q)
  <2>1. /\ usage[q].pc = "new" /\ usage'[q].at = window
        /\ usage'[q].pc = IF resets[window] >= WindowResets THEN "refused" ELSE "daily"
        /\ crowded' = (crowded \/ Resetting # {})
        /\ used' = used /\ resets' = resets /\ day' = day /\ zeroed' = zeroed
    BY <1>1, <1>14 DEF CheckWindowResets, UAt, UGotoNow, UGotoAt
  <2>2. B2 = B /\ \A w \in Windows : R2(w) = R(w)
    BY <1>5, <1>12, <2>1
  <2>3. Limits
    <3>1. SUFFICES ASSUME ~ crowded' PROVE
            /\ \A p, r \in Resetting' : p = r
            /\ \A p \in Resetting' :
                  /\ usage'[p].pc \in {"daily", "count"} => resets'[usage'[p].at] < WindowResets
                  /\ usage'[p].pc \in {"count", "day"} => day' < DayResets
      BY <1>10, <2>1
    <3>2. Resetting = {} /\ ~ crowded
      BY <2>1, <3>1, <1>7 DEF UsageTypeOK
    <3>3. \A p \in Resetting' : p = q
      BY <1>13, <3>2
    <3>4. usage'[q].pc \in {"daily", "count", "day", "zero"} => usage'[q].pc = "daily" /\ resets[window] < WindowResets
      BY <1>6, <1>7, <2>1
    <3> QED
      BY <1>13, <2>1, <3>3, <3>4
  <2> QED
    BY <1>8, <1>9, <1>12, <2>1, <2>2, <2>3 DEF Z
<1>15. CASE CheckDayResets(q) \/ UsageFails(q)
  <2>1. /\ used' = used /\ resets' = resets /\ day' = day /\ zeroed' = zeroed /\ crowded' = crowded
        /\ usage'[q].at = usage[q].at
        /\ \/ usage[q].pc = "daily" /\ usage'[q].pc = "count" /\ ~ (day >= DayResets)
           \/ usage'[q].pc \in {"refused", "failed"}
    BY <1>1, <1>15 DEF CheckDayResets, UsageFails, UAt, UGoto
  <2>2. B2 <= B /\ \A w \in Windows : R2(w) <= R(w)
    BY <1>5, <1>12, <2>1
  <2>3. Limits
    <3>1. q \in Resetting' => q \in Resetting /\ usage[q].pc = "daily" /\ usage'[q].pc = "count" /\ day < DayResets
      BY <1>6, <1>7, <1>13, <2>1
    <3>2. Resetting' \subseteq Resetting
      BY <1>13, <3>1
    <3> QED
      BY <1>10, <1>13, <2>1, <3>1, <3>2
  <2>4. Z + B2 <= day
    BY <1>7, <1>12, <2>2
  <2>5. \A w \in Windows : zeroed'[w] + R2(w) <= resets'[w]
    BY <1>7, <1>12, <2>1, <2>2
  <2> QED
    BY <1>8, <1>9, <2>1, <2>3, <2>4, <2>5 DEF Z
<1>16. CASE CountReset(q)
  <2>1. /\ used' = used /\ day' = day /\ zeroed' = zeroed /\ crowded' = crowded
        /\ usage'[q].at = usage[q].at /\ usage[q].pc = "count" /\ usage'[q].pc = "day"
        /\ resets' = [resets EXCEPT ![usage[q].at] = resets[usage[q].at] + 1]
    BY <1>1, <1>16 DEF CountReset, UAt, UGoto
  <2>2. B2 = B /\ \A w \in Windows : R2(w) = R(w) + (IF w = usage[q].at THEN 1 ELSE 0)
    BY <1>5, <1>12, <2>1
  <2>3. \A w \in Windows : resets'[w] = resets[w] + (IF w = usage[q].at THEN 1 ELSE 0)
    BY <1>7, <2>1
  <2>4. Limits
    <3>1. SUFFICES ASSUME ~ crowded' PROVE
            /\ \A w \in Windows : resets'[w] <= WindowResets
            /\ day <= DayResets
            /\ \A p, r \in Resetting' : p = r
            /\ \A p \in Resetting' :
                  /\ usage'[p].pc \in {"daily", "count"} => resets'[usage'[p].at] < WindowResets
                  /\ usage'[p].pc \in {"count", "day"} => day' < DayResets
      BY <2>1
    <3>2. q \in Resetting /\ ~ crowded
      BY <1>13, <2>1, <3>1
    <3>3. \A p \in Resetting' : p = q
      BY <1>10, <1>13, <3>2
    <3>4. resets[usage[q].at] < WindowResets /\ day < DayResets
      BY <1>10, <2>1, <3>2
    <3>5. \A w \in Windows : resets'[w] <= WindowResets
      BY <1>6, <1>7, <1>10, <2>3, <3>2, <3>4
    <3> QED
      BY <1>10, <2>1, <3>2, <3>3, <3>4, <3>5
  <2>5. \A w \in Windows : zeroed'[w] + R2(w) <= resets'[w]
    BY <1>7, <1>12, <2>1, <2>2, <2>3
  <2> QED
    BY <1>8, <1>9, <1>12, <2>1, <2>2, <2>4, <2>5 DEF Z
<1>17. CASE CountDay(q)
  <2>1. /\ used' = used /\ resets' = resets /\ zeroed' = zeroed /\ crowded' = crowded /\ day' = day + 1
        /\ usage'[q].at = usage[q].at /\ usage[q].pc = "day" /\ usage'[q].pc = "zero"
    BY <1>1, <1>17 DEF CountDay, UAt, UGoto
  <2>2. B2 = B + 1 /\ \A w \in Windows : R2(w) = R(w)
    BY <1>5, <1>12, <2>1
  <2>3. Limits
    <3>1. SUFFICES ASSUME ~ crowded' PROVE
            /\ \A w \in Windows : resets'[w] <= WindowResets
            /\ day' <= DayResets
            /\ \A p, r \in Resetting' : p = r
            /\ \A p \in Resetting' :
                  /\ usage'[p].pc \in {"daily", "count"} => resets'[usage'[p].at] < WindowResets
                  /\ usage'[p].pc \in {"count", "day"} => day' < DayResets
      OBVIOUS
    <3>2. q \in Resetting /\ ~ crowded
      BY <1>13, <2>1, <3>1
    <3>3. \A p \in Resetting' : p = q
      BY <1>10, <1>13, <3>2
    <3>4. day' <= DayResets
      <4>1. day < DayResets
        BY <1>10, <2>1, <3>2
      <4> QED
        BY <1>6, <1>7, <2>1, <4>1
    <3> QED
      BY <1>10, <2>1, <3>2, <3>3, <3>4
  <2>4. Z + B2 <= day'
    BY <1>7, <1>12, <2>1, <2>2
  <2> QED
    BY <1>8, <1>9, <1>12, <2>1, <2>2, <2>3, <2>4 DEF Z
<1>18. CASE SetZero(q)
  <2>1. /\ resets' = resets /\ crowded' = crowded /\ day' = day
        /\ usage'[q].at = usage[q].at /\ usage[q].pc = "zero" /\ usage'[q].pc = "done"
        /\ used' = [used EXCEPT ![usage[q].at] = 0]
        /\ zeroed' = [zeroed EXCEPT ![usage[q].at] = zeroed[usage[q].at] + 1]
    BY <1>1, <1>18 DEF SetZero, UAt, UGoto
  <2>2. B2 + 1 = B /\ \A w \in Windows : R2(w) + (IF w = usage[q].at THEN 1 ELSE 0) = R(w)
    BY <1>5, <1>12, <2>1
  <2>3. /\ \A w \in Windows : zeroed'[w] = zeroed[w] + (IF w = usage[q].at THEN 1 ELSE 0)
        /\ \A w \in Windows : w # usage[q].at => used'[w] = used[w]
    BY <1>7, <2>1
  <2>4. IsFiniteSet(Singly(used')) /\ Total(used') \in Nat /\ Total(used') + used[usage[q].at] = U
    <3>1. 0 \in Nat
      OBVIOUS
    <3>2. /\ IsFiniteSet(Singly([used EXCEPT ![usage[q].at] = 0]))
          /\ Total(used) \in Nat /\ Total([used EXCEPT ![usage[q].at] = 0]) \in Nat
          /\ Total([used EXCEPT ![usage[q].at] = 0]) + used[usage[q].at] = Total(used) + 0
      BY <1>7, <1>9, <3>1, WindowsMove
    <3> QED
      BY <2>1, <3>2
  <2>5. IsFiniteSet(Singly(zeroed')) /\ Total(zeroed') = Z + 1
    <3> DEFINE n == zeroed[usage[q].at] + 1
    <3>1. n \in Nat /\ zeroed[usage[q].at] \in Nat /\ n = zeroed[usage[q].at] + 1
      BY <1>7
    <3> HIDE DEF n
    <3>2. /\ IsFiniteSet(Singly([zeroed EXCEPT ![usage[q].at] = n]))
          /\ Total(zeroed) \in Nat /\ Total([zeroed EXCEPT ![usage[q].at] = n]) \in Nat
          /\ Total([zeroed EXCEPT ![usage[q].at] = n]) + zeroed[usage[q].at] = Total(zeroed) + n
      <4>1. zeroed \in [Windows -> Nat] /\ usage[q].at \in Windows /\ IsFiniteSet(Singly(zeroed)) /\ n \in Nat
        BY <1>7, <1>9, <3>1
      <4> QED
        BY <4>1, WindowsMove
    <3>3. zeroed' = [zeroed EXCEPT ![usage[q].at] = n]
      BY <2>1 DEF n
    <3>4. IsFiniteSet(Singly(zeroed')) /\ Total(zeroed') \in Nat
          /\ Total(zeroed') + zeroed[usage[q].at] = Z + n /\ Z \in Nat
      BY <3>2, <3>3 DEF Z
    <3> QED
      BY <3>1, <3>4
  <2>6. Total(used') + Total(Waiting) <= month
    <3>1. used[usage[q].at] \in Nat
      BY <1>7
    <3> QED
      BY <1>7, <1>8, <1>9, <2>4, <3>1
  <2>7. \A w \in Windows : zeroed'[w] = 0 => zeroed[w] = 0 /\ used'[w] = used[w]
    BY <1>7, <2>3
  <2>8. \A w \in Windows : zeroed'[w] + R2(w) <= resets'[w]
    BY <1>7, <1>12, <2>1, <2>2, <2>3
  <2>9. Limits
    <3>1. \A p \in Resetting' : p # q /\ p \in Resetting /\ usage'[p] = usage[p]
      BY <1>13, <2>1
    <3> QED
      BY <1>10, <2>1, <3>1
  <2>10. Total(zeroed') + B2 <= day'
    BY <1>7, <1>12, <2>1, <2>2, <2>5
  <2> QED
    BY <2>4, <2>5, <2>6, <2>7, <2>8, <2>9, <2>10
<1> QED
  BY <1>14, <1>15, <1>16, <1>17, <1>18

LEMMA UsageNextInv == UsageInv /\ [UsageNext]_usageVars => UsageInv'
<1> SUFFICES ASSUME UsageInv, [UsageNext]_usageVars PROVE UsageInv'
  OBVIOUS
<1>1. UsageTypeOK'
  BY UsageTyped DEF UsageInv
<1>2. SUFFICES FiniteSums' /\ CountedFirst' /\ ChargedWithinQuota' /\ ResetsLimited' /\ (~ crowded => ResetAlone)'
  BY <1>1 DEF UsageInv
<1>3. CASE UNCHANGED usageVars \/ NextWindow
  <2>1. /\ month' = month /\ used' = used /\ resets' = resets /\ day' = day /\ usage' = usage
        /\ charged' = charged /\ zeroed' = zeroed /\ crowded' = crowded
    BY <1>3 DEF usageVars, NextWindow
  <2> QED
    BY <2>1 DEF UsageInv, FiniteSums, CountedFirst, ChargedWithinQuota, ResetsLimited, ResetAlone,
                Resetting, Waiting, Passing, Reckoned, BeforeZero, UAt
<1>4. ASSUME NEW q \in Charges,
             \/ CountMonth(q) \/ CountWindow(q) \/ ReadMonth(q) \/ ReadWindow(q) \/ ReadOtherWindow(q)
             \/ Debit(q) \/ UsageFails(q)
      PROVE  FiniteSums' /\ CountedFirst' /\ ChargedWithinQuota' /\ ResetsLimited' /\ (~ crowded => ResetAlone)'
  BY <1>1, <1>4, ChargeCounts
<1>5. ASSUME NEW q \in Resets,
             \/ CheckWindowResets(q) \/ CheckDayResets(q) \/ CountReset(q) \/ CountDay(q) \/ SetZero(q)
             \/ UsageFails(q)
      PROVE  FiniteSums' /\ CountedFirst' /\ ChargedWithinQuota' /\ ResetsLimited' /\ (~ crowded => ResetAlone)'
  BY <1>1, <1>5, ResetCounts
<1> QED
  BY <1>3, <1>4, <1>5 DEF UsageNext, Calls

LEMMA UsageInvSafe == UsageInv => UsageSafe
<1> SUFFICES ASSUME UsageInv PROVE UsageSafe
  OBVIOUS
<1>1. ResetsCounted
  <2>1. /\ \A w \in Windows : zeroed[w] \in Nat /\ Total(Reckoned(w)) \in Nat /\ resets[w] \in Nat
        /\ Total(zeroed) \in Nat /\ Total(BeforeZero) \in Nat /\ day \in Nat
    BY FS_CardinalityType DEF UsageInv, UsageTypeOK, FiniteSums, Total
  <2>2. /\ \A w \in Windows : zeroed[w] + Total(Reckoned(w)) <= resets[w]
        /\ Total(zeroed) + Total(BeforeZero) <= day
    BY DEF UsageInv, CountedFirst
  <2> QED
    BY <2>1, <2>2 DEF ResetsCounted
<1>2. MonthCoversWindows
  <2>1. Total(used) \in Nat /\ Total(Waiting) \in Nat /\ month \in Nat
    BY FS_CardinalityType DEF UsageInv, UsageTypeOK, FiniteSums, Total
  <2>2. Total(used) + Total(Waiting) <= month
    BY DEF UsageInv, CountedFirst
  <2> QED
    BY <2>1, <2>2 DEF MonthCoversWindows
<1> QED
  BY <1>1, <1>2 DEF UsageInv, UsageSafe

-----------------------------------------------------------------------------
(* Credit lots *)

AllTokens == UNION {{l} \X (1..LotTokens[l]) : l \in lots}

(***************************************************************************)
(* What a session has read: lots that are there, with no more consumed     *)
(* than they have, and of those it goes through something left.            *)
(***************************************************************************)
ReadingsSound ==
    \A q \in Consumers \cup Sweeps :
        /\ job[q].seen \subseteq lots
        /\ \A l \in Lots : job[q].value[l] <= LotTokens[l]
        /\ \A l \in job[q].seen : job[q].value[l] < LotTokens[l]

LotsInv ==
    /\ LotsTypeOK
    /\ IsFiniteSet(AllTokens)
    /\ ReadingsSound
    /\ TokensOnce

-----------------------------------------------------------------------------
(* Credit lots: the steps *)

LEMMA LotsInitInv == LotsInit => LotsInv
<1> SUFFICES ASSUME LotsInit PROVE LotsInv
  OBVIOUS
<1>1. LotsTypeOK
  <2>1. None \in [Lots -> Nat] /\ \A l \in Lots : None[l] <= LotTokens[l]
    BY LotsAssumption DEF None
  <2> QED
    BY <2>1 DEF LotsInit, LotsTypeOK
<1>2. IsFiniteSet(AllTokens)
  <2>1. AllTokens = {}
    BY DEF LotsInit, AllTokens
  <2> QED
    BY <2>1, FS_EmptySet
<1>3. ReadingsSound
  BY LotsAssumption DEF LotsInit, ReadingsSound, Sessions, None
<1>4. TokensOnce
  BY DEF LotsInit, TokensOnce, None
<1> QED
  BY <1>1, <1>2, <1>3, <1>4 DEF LotsInv

(***************************************************************************)
(* What a session sees left is left of lots that are there, so it can be   *)
(* counted ...                                                             *)
(***************************************************************************)
LEMMA TokensCounted ==
    ASSUME LotsInv, NEW q \in Sessions, NEW S \in SUBSET job[q].seen
    PROVE  /\ IsFiniteSet(UNION {{l} \X (1..Available(q, l)) : l \in S})
           /\ TokensIn(q, S) \in Nat
<1> DEFINE Pairs == UNION {{l} \X (1..Available(q, l)) : l \in S}
<1>1. Pairs \subseteq AllTokens
  <2> SUFFICES ASSUME NEW l \in S, NEW p \in {l} \X (1..Available(q, l)) PROVE p \in AllTokens
    OBVIOUS
  <2>1. l \in lots /\ l \in Lots /\ job[q].value[l] \in Nat
    BY DEF LotsInv, LotsTypeOK, ReadingsSound, Sessions
  <2>2. LotTokens[l] \in Nat /\ Available(q, l) \in Int /\ Available(q, l) <= LotTokens[l]
    BY <2>1, LotsAssumption DEF Available
  <2>3. 1..Available(q, l) \subseteq 1..LotTokens[l]
    BY <2>2
  <2>4. p \in {l} \X (1..LotTokens[l])
    BY <2>3
  <2> QED
    BY <2>1, <2>4 DEF AllTokens
<1>2. IsFiniteSet(Pairs) /\ Cardinality(Pairs) \in Nat
  BY <1>1, FS_Subset, FS_CardinalityType DEF LotsInv
<1> QED
  BY <1>2 DEF TokensIn

(***************************************************************************)
(* ... and what it sees in one more lot comes on top.                      *)
(***************************************************************************)
LEMMA TokensAddUp ==
    ASSUME LotsInv, NEW q \in Sessions, NEW S \in SUBSET job[q].seen, NEW T \in SUBSET job[q].seen,
           NEW k \in T \ S, S \subseteq T
    PROVE  TokensIn(q, S) + Available(q, k) <= TokensIn(q, T)
<1> DEFINE Pairs(R) == UNION {{l} \X (1..Available(q, l)) : l \in R}
           n == Available(q, k)
           Own == {k} \X (1..n)
<1>1. n \in Nat
  BY LotsAssumption DEF LotsInv, LotsTypeOK, ReadingsSound, Sessions, Available
<1>2. IsFiniteSet(1..n) /\ Cardinality(1..n) = n
  <2>1. 1 \in Int /\ n \in Int
    BY <1>1
  <2>2. IsFiniteSet(1..n) /\ Cardinality(1..n) = IF 1 > n THEN 0 ELSE n - 1 + 1
    BY <2>1, FS_Interval
  <2>3. (IF 1 > n THEN 0 ELSE n - 1 + 1) = n
    BY <1>1
  <2> QED
    BY <2>2, <2>3
<1>3. IsFiniteSet({k}) /\ Cardinality({k}) = 1
  BY FS_Singleton
<1> HIDE DEF n
<1>4. IsFiniteSet(Own) /\ Cardinality(Own) = n
  <2>1. IsFiniteSet(Own) /\ Cardinality(Own) = Cardinality({k}) * Cardinality(1..n)
    BY <1>2, <1>3, FS_Product
  <2> QED
    BY <1>1, <1>2, <1>3, <2>1
<1>5. /\ IsFiniteSet(Pairs(S)) /\ IsFiniteSet(Pairs(T))
      /\ Cardinality(Pairs(S)) = TokensIn(q, S) /\ Cardinality(Pairs(T)) = TokensIn(q, T)
      /\ TokensIn(q, S) \in Nat /\ TokensIn(q, T) \in Nat
  BY TokensCounted DEF TokensIn
<1>6. Pairs(S) \cup Own \subseteq Pairs(T)
  BY DEF n
<1>7. Pairs(S) \cap Own = {}
  OBVIOUS
<1> HIDE DEF Pairs, Own
<1>8. Cardinality(Pairs(S) \cup Own) = Cardinality(Pairs(S)) + Cardinality(Own) - Cardinality(Pairs(S) \cap Own)
  BY <1>4, <1>5, FS_Union
<1>9. Cardinality(Pairs(S) \cap Own) = 0
  BY <1>7, FS_EmptySet
<1>10. Cardinality(Pairs(S) \cup Own) <= Cardinality(Pairs(T))
  BY <1>5, <1>6, FS_Subset
<1> QED
  <2>1. TokensIn(q, S) + n <= TokensIn(q, T)
    BY <1>1, <1>4, <1>5, <1>8, <1>9, <1>10
  <2> QED
    BY <2>1 DEF n

(***************************************************************************)
(* A session takes from a lot at most what it sees there, and it takes all *)
(* of the lots before.                                                     *)
(***************************************************************************)
LEMMA TakesInOrder ==
    ASSUME LotsInv, NEW q \in Consumers
    PROVE  /\ \A l \in Lots : /\ TakeFrom(q, l) \in Nat
                              /\ TakeFrom(q, l) > 0 => l \in job[q].seen /\ TakeFrom(q, l) <= Available(q, l)
           /\ \A l \in Lots : \A k \in job[q].seen :
                 TakeFrom(q, l) > 0 /\ k < l => TakeFrom(q, k) = Available(q, k)
<1> DEFINE Before(l) == {k \in job[q].seen : k < l}
<1>1. /\ q \in Sessions /\ Wanted[q] \in Nat /\ job[q].seen \subseteq Lots
      /\ \A l \in Lots : Available(q, l) \in Nat
  BY LotsAssumption DEF LotsInv, LotsTypeOK, ReadingsSound, Sessions, Available
<1>2. \A l \in Lots : TokensIn(q, Before(l)) \in Nat
  <2>1. \A l \in Lots : Before(l) \in SUBSET job[q].seen
    OBVIOUS
  <2> QED
    BY <1>1, <2>1, TokensCounted
<1>3. ASSUME NEW l \in Lots, NEW k \in job[q].seen, k < l
      PROVE  TokensIn(q, Before(k)) + Available(q, k) <= TokensIn(q, Before(l))
  <2>1. k \in Int /\ l \in Int /\ \A j \in job[q].seen : j \in Int
    <3>1. \A j \in Lots : j \in Int
      BY LotsAssumption
    <3>2. \A j \in job[q].seen : j \in Lots
      BY <1>1
    <3> QED
      BY <3>1, <3>2
  <2>2. Before(k) \in SUBSET job[q].seen /\ Before(l) \in SUBSET job[q].seen
    OBVIOUS
  <2>3. k \in Before(l) \ Before(k) /\ Before(k) \subseteq Before(l)
    BY <1>3, <2>1
  <2> HIDE DEF Before
  <2> QED
    BY <1>1, <2>2, <2>3, TokensAddUp
<1> DEFINE Earlier(l) == TokensIn(q, Before(l))
           Missing(l) == IF Earlier(l) < Wanted[q] THEN Wanted[q] - Earlier(l) ELSE 0
<1>4. \A l \in Lots : TakeFrom(q, l) =
        IF l \notin job[q].seen THEN 0
        ELSE IF Missing(l) < Available(q, l) THEN Missing(l) ELSE Available(q, l)
  BY DEF TakeFrom
<1>5. \A l \in Lots : Earlier(l) \in Nat /\ Missing(l) \in Nat /\ (Missing(l) > 0 => Earlier(l) < Wanted[q])
  BY <1>1, <1>2
<1>6. ASSUME NEW l \in Lots, NEW k \in job[q].seen, TakeFrom(q, l) > 0, k < l
      PROVE  TakeFrom(q, k) = Available(q, k)
  <2>1. Missing(l) > 0
    BY <1>1, <1>4, <1>5, <1>6
  <2>2. Earlier(l) < Wanted[q]
    BY <1>5, <2>1
  <2>3. k \in Lots /\ Earlier(k) + Available(q, k) <= Earlier(l)
    BY <1>1, <1>3, <1>6
  <2>4. ~ (Missing(k) < Available(q, k))
    BY <1>1, <1>5, <2>2, <2>3
  <2> QED
    BY <1>4, <2>3, <2>4
<1>7. \A l \in Lots : /\ TakeFrom(q, l) \in Nat
                      /\ TakeFrom(q, l) > 0 => l \in job[q].seen /\ TakeFrom(q, l) <= Available(q, l)
  <2> HIDE DEF Missing, Earlier
  <2> QED
    BY <1>1, <1>4, <1>5
<1> QED
  BY <1>6, <1>7

(***************************************************************************)
(* Whatever takes at most what it sees writes no more than the lot has.    *)
(***************************************************************************)
LEMMA WriteKeeps ==
    ASSUME LotsInv, NEW q \in Sessions, NEW take \in [Lots -> Nat], job[q].pc = "read",
           \A l \in Lots : take[l] > 0 => take[l] <= Available(q, l),
           Write(q, take),
           \/ granted' = [l \in Lots |-> granted[l] + take[l]] /\ expired' = expired
           \/ expired' = [l \in Lots |-> expired[l] + take[l]] /\ granted' = granted
    PROVE  LotsInv'
<1> DEFINE drawn == {l \in Lots : take[l] > 0}
<1>1. /\ consumed' = [l \in Lots |-> IF l \in drawn THEN job[q].value[l] + take[l] ELSE consumed[l]]
      /\ raced' = raced \cup {l \in drawn : consumed[l] # job[q].value[l]}
      /\ job' = [job EXCEPT ![q].pc = "done"]
      /\ lots' = lots /\ stale' = stale
  BY DEF Write
<1>2. /\ consumed \in [Lots -> Nat] /\ granted \in [Lots -> Nat] /\ expired \in [Lots -> Nat]
      /\ \A l \in Lots : consumed[l] <= LotTokens[l] /\ LotTokens[l] \in Nat /\ job[q].value[l] \in Nat
      /\ raced \subseteq Lots
  BY LotsAssumption DEF LotsInv, LotsTypeOK
<1>3. ASSUME NEW l \in Lots
      PROVE  consumed'[l] \in Nat /\ consumed'[l] <= LotTokens[l] /\ granted'[l] \in Nat /\ expired'[l] \in Nat
  <2>1. CASE l \in drawn
    <3>1. consumed'[l] = job[q].value[l] + take[l] /\ take[l] <= LotTokens[l] - job[q].value[l]
      BY <1>1, <2>1 DEF Available
    <3> QED
      BY <1>2, <3>1
  <2>2. CASE l \notin drawn
    BY <1>1, <1>2, <2>2
  <2> QED
    BY <2>1, <2>2
<1>4. /\ \A r \in Sessions : job'[r].seen = job[r].seen /\ job'[r].value = job[r].value
      /\ job' \in [Sessions -> [pc: {"new", "read", "done"}, seen: SUBSET Lots, value: [Lots -> Nat]]]
  BY <1>1 DEF LotsInv, LotsTypeOK
<1>5. LotsTypeOK'
  <2>1. consumed' \in [Lots -> Nat]
    BY <1>1, <1>3
  <2>2. granted' \in [Lots -> Nat] /\ expired' \in [Lots -> Nat]
    BY <1>2, <1>3
  <2>3. raced' \subseteq Lots
    BY <1>1, <1>2
  <2> QED
    BY <1>1, <1>3, <1>4, <2>1, <2>2, <2>3 DEF LotsInv, LotsTypeOK
<1>6. IsFiniteSet(AllTokens)'
  BY <1>1 DEF LotsInv, AllTokens
<1>7. ReadingsSound'
  BY <1>1, <1>4 DEF LotsInv, ReadingsSound, Sessions
<1>8. TokensOnce'
  <2> SUFFICES ASSUME NEW l \in Lots, l \notin raced' PROVE consumed'[l] = granted'[l] + expired'[l]
    BY DEF TokensOnce
  <2>1. consumed[l] = granted[l] + expired[l]
    BY <1>1 DEF LotsInv, TokensOnce
  <2>2. CASE l \in drawn
    <3>1. consumed[l] = job[q].value[l]
      BY <1>1, <2>2
    <3>2. consumed'[l] = consumed[l] + take[l]
      BY <1>1, <2>2, <3>1
    <3>3. \/ granted'[l] = granted[l] + take[l] /\ expired'[l] = expired[l]
          \/ expired'[l] = expired[l] + take[l] /\ granted'[l] = granted[l]
      OBVIOUS
    <3> QED
      BY <1>2, <2>1, <3>2, <3>3
  <2>3. CASE l \notin drawn
    <3>1. take[l] = 0 /\ consumed'[l] = consumed[l]
      BY <1>1, <2>3
    <3>2. granted'[l] = granted[l] /\ expired'[l] = expired[l]
      BY <1>2, <3>1
    <3> QED
      BY <2>1, <3>1, <3>2
  <2> QED
    BY <2>2, <2>3
<1> QED
  BY <1>5, <1>6, <1>7, <1>8 DEF LotsInv

LEMMA ReadingKeeps ==
    ASSUME LotsInv, NEW q \in Sessions, NEW readings \in SUBSET lots, Read(q, readings)
    PROVE  LotsInv'
<1>1. /\ job' = [job EXCEPT ![q] = [pc |-> "read", seen |-> {l \in readings : consumed[l] < LotTokens[l]},
                                    value |-> consumed]]
      /\ lots' = lots /\ consumed' = consumed /\ stale' = stale /\ granted' = granted /\ expired' = expired
      /\ raced' = raced
  BY DEF Read
<1>2. lots \subseteq Lots /\ consumed \in [Lots -> Nat] /\ \A l \in Lots : consumed[l] <= LotTokens[l]
  BY DEF LotsInv, LotsTypeOK
<1>3. LotsTypeOK'
  BY <1>1, <1>2 DEF LotsInv, LotsTypeOK
<1>4. IsFiniteSet(AllTokens)' /\ TokensOnce'
  BY <1>1 DEF LotsInv, AllTokens, TokensOnce
<1>5. ReadingsSound'
  <2> SUFFICES ASSUME NEW r \in Sessions
               PROVE  /\ job'[r].seen \subseteq lots
                      /\ \A l \in Lots : job'[r].value[l] <= LotTokens[l]
                      /\ \A l \in job'[r].seen : job'[r].value[l] < LotTokens[l]
    BY <1>1 DEF ReadingsSound, Sessions
  <2>1. CASE r = q
    BY <1>1, <1>2, <2>1 DEF LotsInv, LotsTypeOK
  <2>2. CASE r # q
    BY <1>1, <2>2 DEF LotsInv, LotsTypeOK, ReadingsSound, Sessions
  <2> QED
    BY <2>1, <2>2
<1> QED
  BY <1>3, <1>4, <1>5 DEF LotsInv

LEMMA LotsNextInv == LotsInv /\ [LotsNext]_lotsVars => LotsInv'
<1> SUFFICES ASSUME LotsInv, [LotsNext]_lotsVars PROVE LotsInv'
  OBVIOUS
<1>1. CASE UNCHANGED lotsVars
  BY <1>1 DEF LotsInv, LotsTypeOK, AllTokens, ReadingsSound, TokensOnce, lotsVars
<1>2. ASSUME NEW l \in Lots, CreateLot(l) PROVE LotsInv'
  <2>1. /\ lots' = lots \cup {l} /\ consumed' = consumed /\ stale' = stale /\ job' = job
        /\ granted' = granted /\ expired' = expired /\ raced' = raced
    BY <1>2 DEF CreateLot
  <2>2. IsFiniteSet(AllTokens)'
    <3> DEFINE Own == {l} \X (1..LotTokens[l])
    <3>1. IsFiniteSet({l}) /\ IsFiniteSet(1..LotTokens[l])
      <4>1. 1 \in Int /\ LotTokens[l] \in Int
        BY LotsAssumption
      <4> QED
        BY <4>1, FS_Singleton, FS_Interval
    <3>2. IsFiniteSet(Own)
      BY <3>1, FS_Product
    <3>3. AllTokens' = AllTokens \cup Own
      BY <2>1 DEF AllTokens
    <3> HIDE DEF Own
    <3>4. IsFiniteSet(AllTokens \cup Own)
      BY <3>2, FS_Union DEF LotsInv
    <3> QED
      BY <3>3, <3>4
  <2> QED
    BY <2>1, <2>2 DEF LotsInv, LotsTypeOK, ReadingsSound, TokensOnce
<1>3. ASSUME NEW l \in Lots, LotExpires(l) PROVE LotsInv'
  BY <1>3 DEF LotExpires, LotsInv, LotsTypeOK, AllTokens, ReadingsSound, TokensOnce
<1>4. ASSUME NEW q \in Consumers, ReadForConsumer(q) PROVE LotsInv'
  BY <1>4, ReadingKeeps DEF ReadForConsumer, Sessions
<1>5. ASSUME NEW q \in Sweeps, ReadForSweep(q) PROVE LotsInv'
  BY <1>5, ReadingKeeps DEF ReadForSweep, Sessions
<1>6. ASSUME NEW q \in Consumers, Consume(q) PROVE LotsInv'
  <2> DEFINE take == [l \in Lots |-> TakeFrom(q, l)]
  <2>1. /\ q \in Sessions /\ job[q].pc = "read" /\ Write(q, take)
        /\ granted' = [l \in Lots |-> granted[l] + take[l]] /\ expired' = expired
    BY <1>6 DEF Consume, Sessions
  <2>2. take \in [Lots -> Nat] /\ \A l \in Lots : take[l] > 0 => take[l] <= Available(q, l)
    BY TakesInOrder
  <2> HIDE DEF take
  <2> QED
    BY <2>1, <2>2, WriteKeeps
<1>7. ASSUME NEW q \in Sweeps, ExpireStale(q) PROVE LotsInv'
  <2> DEFINE take == [l \in Lots |-> IF l \in job[q].seen THEN Available(q, l) ELSE 0]
  <2>1. /\ q \in Sessions /\ job[q].pc = "read" /\ Write(q, take)
        /\ expired' = [l \in Lots |-> expired[l] + take[l]] /\ granted' = granted
    BY <1>7 DEF ExpireStale, Sessions
  <2>2. \A l \in Lots : Available(q, l) \in Nat
    BY LotsAssumption, <2>1 DEF LotsInv, LotsTypeOK, ReadingsSound, Sessions, Available
  <2>3. take \in [Lots -> Nat] /\ \A l \in Lots : take[l] > 0 => take[l] <= Available(q, l)
    BY <2>2
  <2> HIDE DEF take
  <2> QED
    BY <2>1, <2>3, WriteKeeps
<1>8. ASSUME NEW q \in Sessions, LotsJobFails(q) PROVE LotsInv'
  <2>1. /\ job' = [job EXCEPT ![q].pc = "done"] /\ lots' = lots /\ consumed' = consumed /\ stale' = stale
        /\ granted' = granted /\ expired' = expired /\ raced' = raced
    BY <1>8 DEF LotsJobFails
  <2>2. /\ \A r \in Sessions : job'[r].seen = job[r].seen /\ job'[r].value = job[r].value
        /\ job' \in [Sessions -> [pc: {"new", "read", "done"}, seen: SUBSET Lots, value: [Lots -> Nat]]]
    BY <2>1 DEF LotsInv, LotsTypeOK
  <2> QED
    BY <2>1, <2>2 DEF LotsInv, LotsTypeOK, AllTokens, ReadingsSound, TokensOnce, Sessions
<1> QED
  BY <1>1, <1>2, <1>3, <1>4, <1>5, <1>6, <1>7, <1>8 DEF LotsNext

(***************************************************************************)
(* The step of a consumer that hands out tokens of a lot has emptied the   *)
(* lots before.                                                            *)
(***************************************************************************)
LEMMA FifoStep ==
    ASSUME LotsInv, [LotsNext]_lotsVars
    PROVE  \A q \in Consumers, l \in Lots :
             (job'[q].pc = "done" /\ job[q].pc = "read" /\ granted'[l] > granted[l])
                 => \A k \in job[q].seen : k < l => consumed'[k] = LotTokens[k]
<1> SUFFICES ASSUME NEW q \in Consumers, NEW l \in Lots, job'[q].pc = "done", job[q].pc = "read",
                    granted'[l] > granted[l], NEW k \in job[q].seen, k < l
             PROVE  consumed'[k] = LotTokens[k]
  OBVIOUS
<1>1. granted[l] \in Nat /\ granted'[l] # granted[l]
  BY DEF LotsInv, LotsTypeOK
<1>2. PICK r \in Consumers : Consume(r)
  BY <1>1 DEF LotsNext, lotsVars, CreateLot, LotExpires, ReadForConsumer, ReadForSweep, Read, ExpireStale,
              LotsJobFails
<1> DEFINE take == [j \in Lots |-> TakeFrom(r, j)]
           drawn == {j \in Lots : take[j] > 0}
<1>3. /\ consumed' = [j \in Lots |-> IF j \in drawn THEN job[r].value[j] + take[j] ELSE consumed[j]]
      /\ job' = [job EXCEPT ![r].pc = "done"]
      /\ granted' = [j \in Lots |-> granted[j] + take[j]]
  BY <1>2 DEF Consume, Write
<1>4. r = q
  BY <1>3 DEF LotsInv, LotsTypeOK
<1>5. TakeFrom(q, l) \in Nat /\ TakeFrom(q, l) > 0
  BY <1>1, <1>3, <1>4, TakesInOrder
<1>6. TakeFrom(q, k) = Available(q, k)
  BY <1>5, TakesInOrder
<1>7. k \in Lots /\ job[q].value[k] \in Nat /\ LotTokens[k] \in Nat /\ job[q].value[k] < LotTokens[k]
  BY LotsAssumption DEF LotsInv, LotsTypeOK, ReadingsSound, Sessions
<1>8. take[k] = LotTokens[k] - job[q].value[k] /\ take[k] > 0
  BY <1>4, <1>6, <1>7 DEF Available
<1>9. consumed'[k] = job[q].value[k] + take[k]
  BY <1>3, <1>4, <1>7, <1>8
<1> QED
  BY <1>7, <1>8, <1>9

-----------------------------------------------------------------------------
(* The types the invariants above leave out *)

EventRest == eventAge \in {"new", "old", "past"} /\ keyed \in BOOLEAN

LEMMA EventRestInit == EventInit => EventRest
  BY DEF EventInit, EventRest

LEMMA EventRestNext == EventRest /\ [EventNext]_eventVars => EventRest'
  BY DEF EventRest, EventNext, CheckEvent, RecordEvent, SetKey, ProcessEvent, DeliveryDies, EventAges,
         KeyExpires, CleanupExpired, eventVars

StoreRest ==
    /\ replaced \in [SettingValues -> Moments \cup {Current}]
    /\ told \in [SettingValues -> Moments]
    /\ overlap \in BOOLEAN

LEMMA StoreRestInit == StoreInit => StoreRest
<1>1. 0 \in Moments
  BY StoreAssumption DEF Moments
<1> QED
  BY <1>1 DEF StoreInit, StoreRest

LEMMA StoreRestNext == StoreShapes /\ StoreRest /\ [StoreNext]_storeVars => StoreRest'
<1> SUFFICES ASSUME StoreShapes, StoreRest, [StoreNext]_storeVars PROVE StoreRest'
  OBVIOUS
<1>1. tick \in Moments
  BY StoreAssumption DEF StoreShapes, Moments
<1>2. ASSUME NEW r, replaced' = replaced
                    \/ replaced' = [replaced EXCEPT ![Effective(row)] = tick, ![Effective(r)] = Current]
      PROVE  replaced' \in [SettingValues -> Moments \cup {Current}]
  BY <1>1, <1>2 DEF StoreRest
<1>3. ASSUME NEW c, NEW v, Returns(c, v) PROVE told' \in [SettingValues -> Moments]
  BY <1>1, <1>3 DEF Returns, StoreRest
<1>4. ASSUME NEW r, Wrote(r) PROVE replaced' \in [SettingValues -> Moments \cup {Current}]
  BY <1>2, <1>4 DEF Wrote, StoreRest
<1>5. CASE UNCHANGED storeVars
  BY <1>5 DEF storeVars, StoreRest
<1>6. ASSUME NEW c \in Reads, GetLocal(c) \/ GetShared(c) \/ GetFromDb(c) \/ DbFails(c) \/ SetShared(c)
      PROVE  StoreRest'
  <2>1. told' = told \/ \E v : Returns(c, v)
    BY <1>6 DEF GetLocal, GetShared, GetFromDb, DbFails, FallsBack, SetShared
  <2>2. replaced' \in [SettingValues -> Moments \cup {Current}]
    <3>1. replaced' = replaced \/ replaced' = [replaced EXCEPT ![Fallback] = IF @ = Current THEN @ ELSE tick]
      BY <1>6 DEF GetLocal, GetShared, GetFromDb, DbFails, SetShared
    <3> QED
      BY <1>1, <3>1 DEF StoreRest
  <2>3. overlap' = overlap
    BY <1>6 DEF GetLocal, GetShared, GetFromDb, DbFails, SetShared
  <2> QED
    BY <1>3, <2>1, <2>2, <2>3 DEF StoreRest
<1>7. ASSUME NEW c \in Writes, Look(c) PROVE StoreRest'
  BY <1>7 DEF Look, StoreRest
<1>8. ASSUME NEW c \in Writes, Create(c) \/ Update(c) \/ WriteFails(c) PROVE StoreRest'
  <2>1. replaced' = replaced \/ \E r : Wrote(r)
    BY <1>8 DEF Create, Update, WriteFails
  <2>2. told' = told /\ overlap' = overlap
    BY <1>8 DEF Create, Update, WriteFails
  <2> QED
    BY <1>4, <2>1, <2>2 DEF StoreRest
<1>9. CASE Tick
  BY <1>9 DEF Tick, StoreRest
<1> QED
  BY <1>5, <1>6, <1>7, <1>8, <1>9 DEF StoreNext

RotRest ==
    /\ stored \in [SecretRows -> StoredValue]
    /\ content \in [SecretRows -> 0 .. MaxWrites]
    /\ sweeper \in [pc : {"idle", "read"}, seen : [SecretRows -> 0 .. MaxWrites], todo : SUBSET SecretRows]
    /\ written \in [SecretRows -> 0 .. MaxWrites]
    /\ jobRaced \subseteq SecretRows

LEMMA PlainStored == Plain \in StoredValue
  BY DEF Plain, StoredValue, Labels, AllKeys, Salts

LEMMA EncryptedStored == \A i \in DOMAIN Stages : Encrypted(i) \in StoredValue
<1> SUFFICES ASSUME NEW i \in DOMAIN Stages PROVE Encrypted(i) \in StoredValue
  OBVIOUS
<1>1. CASE Versions(i) = {}
  BY <1>1, PlainStored DEF Encrypted
<1>2. CASE Versions(i) # {}
  <2> DEFINE label == IF "v2" \in Versions(i) THEN "v2" ELSE "v1"
  <2>1. Encrypted(i) = [label |-> label, key |-> KeyOf(i, label), salt |-> Stages[i].salt]
    BY <1>2 DEF Encrypted
  <2>2. KeyOf(i, label) = Stages[i].key
    BY <1>2 DEF Versions, KeyOf
  <2>3. label \in Labels /\ Stages[i].key \in AllKeys /\ Stages[i].salt \in Salts
    BY DEF Labels, AllKeys, Salts
  <2> HIDE DEF label
  <2> QED
    BY <2>1, <2>2, <2>3 DEF StoredValue
<1> QED
  BY <1>1, <1>2

LEMMA RotRestInit == RotInit => RotRest
<1> SUFFICES ASSUME RotInit PROVE RotRest
  OBVIOUS
<1>1. 0 \in 0 .. MaxWrites
  BY StagesAssumption
<1>2. stored \in [SecretRows -> StoredValue]
  BY PlainStored DEF RotInit
<1>3. sweeper \in [pc : {"idle", "read"}, seen : [SecretRows -> 0 .. MaxWrites], todo : SUBSET SecretRows]
  BY <1>1 DEF RotInit
<1> QED
  BY <1>1, <1>2, <1>3 DEF RotInit, RotRest

LEMMA RotRestNext == RotShapes /\ RotRest /\ [RotNext]_rotVars => RotRest'
<1> SUFFICES ASSUME RotShapes, RotRest, [RotNext]_rotVars PROVE RotRest'
  OBVIOUS
<1>1. \A p \in Procs : Encrypted(KeysOf(p)) \in StoredValue
  <2>1. \A p \in Procs : KeysOf(p) \in DOMAIN Stages
    <3> SUFFICES ASSUME NEW p \in Procs PROVE KeysOf(p) \in DOMAIN Stages
      OBVIOUS
    <3>1. stage[p] \in DOMAIN Stages /\ resolved[p] \in 0 .. Len(Stages)
      BY DEF RotShapes
    <3>2. resolved[p] # 0 => resolved[p] \in DOMAIN Stages
      BY <3>1, StagesAssumption
    <3> QED
      BY <3>1, <3>2 DEF KeysOf
  <2> QED
    BY <2>1, EncryptedStored
<1>2. Covered \subseteq SecretRows /\ MaxWrites \in Nat
  BY StagesAssumption
<1>3. CASE UNCHANGED rotVars \/ \E p \in Procs : Configure(p)
  BY <1>3 DEF rotVars, Configure, RotRest
<1>4. ASSUME NEW p \in Servers, NEW r \in SecretRows, SetSecret(p, r) PROVE RotRest'
  <2>1. written[r] \in 0 .. MaxWrites /\ written[r] < MaxWrites
    BY <1>4 DEF SetSecret, RotRest
  <2>2. written[r] + 1 \in 0 .. MaxWrites
    BY <1>2, <2>1
  <2>3. stored' = [stored EXCEPT ![r] = Encrypted(KeysOf(p))] /\ Encrypted(KeysOf(p)) \in StoredValue
    BY <1>1, <1>4 DEF SetSecret, Procs
  <2>4. /\ written' = [written EXCEPT ![r] = written[r] + 1] /\ content' = [content EXCEPT ![r] = written[r] + 1]
        /\ sweeper' = sweeper /\ jobRaced' \subseteq jobRaced \cup {r}
    BY <1>4 DEF SetSecret
  <2> QED
    BY <2>2, <2>3, <2>4 DEF RotRest
<1>5. CASE Scan
  <2>1. /\ sweeper' = [pc |-> "read", seen |-> content, todo |-> {r \in Covered : stored[r].label = "plain"}]
        /\ UNCHANGED <<stored, content, written, jobRaced>>
    BY <1>5 DEF Scan
  <2> QED
    BY <1>2, <2>1 DEF RotRest
<1>6. CASE WriteBack
  <2>1. /\ stored' = [r \in SecretRows |-> IF r \in sweeper.todo THEN Encrypted(KeysOf(Command)) ELSE stored[r]]
        /\ content' = [r \in SecretRows |-> IF r \in sweeper.todo THEN sweeper.seen[r] ELSE content[r]]
        /\ sweeper' = [sweeper EXCEPT !.pc = "idle"] /\ written' = written /\ jobRaced' = jobRaced
    BY <1>6 DEF WriteBack
  <2>2. Encrypted(KeysOf(Command)) \in StoredValue
    BY <1>1 DEF Procs
  <2>3. stored' \in [SecretRows -> StoredValue]
    BY <2>1, <2>2 DEF RotRest
  <2>4. content' \in [SecretRows -> 0 .. MaxWrites]
    BY <2>1 DEF RotRest
  <2>5. sweeper' \in [pc : {"idle", "read"}, seen : [SecretRows -> 0 .. MaxWrites], todo : SUBSET SecretRows]
    BY <2>1 DEF RotRest
  <2> QED
    BY <2>1, <2>3, <2>4, <2>5 DEF RotRest
<1>7. CASE CommandFails
  BY <1>7 DEF CommandFails, RotRest
<1> QED
  BY <1>3, <1>4, <1>5, <1>6, <1>7 DEF RotNext

-----------------------------------------------------------------------------
(* The components next to each other *)

(***************************************************************************)
(* A step of the whole is a step of one component, or of none.             *)
(***************************************************************************)
LEMMA EachSteps ==
    ASSUME [Next]_<<part, subVars, payVars, eventVars, adjVars, usageVars, lotsVars,
                    consentVars, erasureVars, storeVars, rotVars>>
    PROVE  /\ [SubNext]_subVars
           /\ [PayNext]_payVars
           /\ [EventNext]_eventVars
           /\ [AdjNext]_adjVars
           /\ [UsageNext]_usageVars
           /\ [LotsNext]_lotsVars
           /\ [ConsentNext]_consentVars
           /\ [ErasureNext]_erasureVars
           /\ [StoreNext]_storeVars
           /\ [RotNext]_rotVars
  BY DEF Next, SubPart, PayPart, EventPart, AdjPart, UsagePart, LotsPart, ConsentPart,
         ErasurePart, StorePart, RotPart

(***************************************************************************)
(* A payment answered as done before had its effect, has it once unless    *)
(* attempts crossed, and opens one account; a handler that keeps its       *)
(* events in Redis or in the database processes one once, unless two       *)
(* deliveries looked for it at once; nobody moves money alone, and nothing *)
(* rejected moved any, unless two decisions met.                           *)
(***************************************************************************)
THEOREM MoneyKept == Spec => []MoneySafe
<1>1. Init => PayInv /\ EventInv /\ AdjInv
  BY PayInitInv, EventInitInv, AdjInitInv DEF Init
<1>2. /\ PayInv /\ EventInv /\ AdjInv
      /\ [Next]_<<part, subVars, payVars, eventVars, adjVars, usageVars, lotsVars,
                  consentVars, erasureVars, storeVars, rotVars>>
      => PayInv' /\ EventInv' /\ AdjInv'
  BY EachSteps, PayNextInv, EventNextInv, AdjNextInv
<1>3. PayInv /\ EventInv /\ AdjInv => MoneySafe
  BY PayInvSafe, EventInvSafe, AdjInvSafe DEF MoneySafe
<1>4. QED
  BY <1>1, <1>2, <1>3, PTL DEF Spec

(***************************************************************************)
(* A value is answered no later than the lives of the two caches allow     *)
(* from when it ceased to be the setting, or for the environment's value   *)
(* from the last read of the database that failed; the history tells every *)
(* change unless two writes were at work at a time; and during a first     *)
(* rotation of the key the newest configuration reads every secret.        *)
(***************************************************************************)
THEOREM ConfigurationKept == Spec => []ConfigurationSafe
<1>1. Init => StoreInv /\ HistoryInv /\ RotInv
  BY StoreInitInv, HistoryInitInv, RotInitInv DEF Init
<1>2. /\ StoreInv /\ HistoryInv /\ RotInv
      /\ [Next]_<<part, subVars, payVars, eventVars, adjVars, usageVars, lotsVars,
                  consentVars, erasureVars, storeVars, rotVars>>
      => StoreInv' /\ HistoryInv' /\ RotInv'
  BY EachSteps, StoreNextInv, HistoryNextInv, RotNextInv
<1>3. StoreInv /\ HistoryInv /\ RotInv => ConfigurationSafe
  BY SettingsInvSafe, RotInvSafe DEF ConfigurationSafe
<1>4. QED
  BY <1>1, <1>2, <1>3, PTL DEF Spec

(***************************************************************************)
(* What is paid in a window nobody reset stays below its quota, whatever   *)
(* runs together; no reset goes uncounted; a token of a credit lot is      *)
(* handed out or written off once unless two sessions wrote the lot from   *)
(* one reading, and the oldest lots give first.                            *)
(***************************************************************************)
THEOREM ChargesKept == Spec => ChargesSafe
<1>1. Init => UsageInv /\ LotsInv
  BY UsageInitInv, LotsInitInv DEF Init
<1>2. /\ UsageInv /\ LotsInv
      /\ [Next]_<<part, subVars, payVars, eventVars, adjVars, usageVars, lotsVars,
                  consentVars, erasureVars, storeVars, rotVars>>
      => UsageInv' /\ LotsInv'
  BY EachSteps, UsageNextInv, LotsNextInv
<1>3. UsageInv /\ LotsInv => UsageSafe /\ TokensOnce
  BY UsageInvSafe DEF LotsInv
<1>4. /\ UsageInv /\ LotsInv
      /\ [Next]_<<part, subVars, payVars, eventVars, adjVars, usageVars, lotsVars,
                  consentVars, erasureVars, storeVars, rotVars>>
      => [\A q \in Consumers, l \in Lots :
            (job'[q].pc = "done" /\ job[q].pc = "read" /\ granted'[l] > granted[l])
                => \A k \in job[q].seen : k < l => consumed'[k] = LotTokens[k]]_lotsVars
  BY EachSteps, FifoStep
<1>5. QED
  BY <1>1, <1>2, <1>3, <1>4, PTL DEF Spec, ChargesSafe, FifoOrder

(***************************************************************************)
(* Every part keeps its types, for any values of the constants.            *)
(***************************************************************************)
THEOREM BusinessTyped == Spec => []BusinessTypes
<1> DEFINE Inv == /\ SubInv /\ PayInv /\ EventInv /\ EventRest /\ AdjInv /\ UsageInv /\ LotsInv
                  /\ ConsentInv /\ ErasureInv
                  /\ StoreInv /\ StoreRest /\ HistoryInv /\ RotInv /\ RotRest
<1>1. Init => Inv
  BY SubInitInv, PayInitInv, EventInitInv, EventRestInit, AdjInitInv, UsageInitInv, LotsInitInv, ConsentInitInv,
     ErasureInitInv, StoreInitInv, StoreRestInit, HistoryInitInv, RotInitInv, RotRestInit DEF Init
<1>2. Inv /\ [Next]_<<part, subVars, payVars, eventVars, adjVars, usageVars, lotsVars,
                      consentVars, erasureVars, storeVars, rotVars>> => Inv'
  <2>1. StoreInv => StoreShapes
    BY DEF StoreInv
  <2>2. RotInv => RotShapes
    BY DEF RotInv
  <2> QED
    BY <2>1, <2>2, EachSteps, SubNextInv, PayNextInv, EventNextInv, EventRestNext, AdjNextInv, UsageNextInv,
       LotsNextInv, ConsentNextInv, ErasureNextInv, StoreNextInv, StoreRestNext, HistoryNextInv, RotNextInv,
       RotRestNext
<1>3. Inv => BusinessTypes
  <2> SUFFICES ASSUME Inv PROVE BusinessTypes
    OBVIOUS
  <2>1. SubTypeOK /\ AdjTypeOK /\ UsageTypeOK /\ LotsTypeOK /\ ConsentTypeOK /\ ErasureTypeOK
    BY DEF SubInv, AdjInv, UsageInv, LotsInv, ConsentInv, ErasureInv
  <2>2. PayTypeOK
    BY DEF PayInv, PayShapes, PayLabels, PayTypeOK
  <2>3. EventTypeOK
    BY DEF EventInv, EventShapes, EventLabels, EventRest, EventTypeOK
  <2>4. StoreTypeOK
    BY DEF StoreInv, StoreShapes, StoreRest, HistoryInv, SettingRow, ReadState, WriteState, Current, StoreTypeOK
  <2>5. RotTypeOK
    BY DEF RotInv, RotShapes, RotRest, RotTypeOK
  <2> QED
    BY <2>1, <2>2, <2>3, <2>4, <2>5 DEF BusinessTypes
<1>4. QED
  BY <1>1, <1>2, <1>3, PTL DEF Spec
=============================================================================
