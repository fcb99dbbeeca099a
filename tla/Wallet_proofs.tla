--------------------------- MODULE Wallet_proofs ---------------------------
(***************************************************************************)
(* Proofs about Wallet, for any wallets, currencies, keys, requests and    *)
(* plans.                                                                  *)
(***************************************************************************)
EXTENDS Wallet, TLAPS

(***************************************************************************)
(* A plan is one leg or two.                                               *)
(***************************************************************************)
LEMMA PlanShape ==
    ASSUME NEW q \in Requests
    PROVE  /\ Len(Plan[q]) \in 1..2
           /\ \A i \in 1..Len(Plan[q]) : Plan[q][i] \in Legs
  BY ConstantsAssumption DEF Plans

LEMMA MoveEffect ==
    ASSUME NEW q \in Requests, NEW c \in Call, call \in [Requests -> Call], Move(q, c)
    PROVE  /\ call' \in [Requests -> Call]
           /\ call'[q] = c
           /\ \A r \in Requests : r # q => call'[r] = call[r]
  BY DEF Move

LEMMA DirtiesEffect ==
    ASSUME NEW q \in Requests, NEW d \in Dirty, dirty \in [Requests -> Dirty], Dirties(q, d)
    PROVE  /\ dirty' \in [Requests -> Dirty]
           /\ dirty'[q] = d
           /\ \A r \in Requests : r # q => dirty'[r] = dirty[r]
  BY DEF Dirties

LEMMA CleanType ==
    /\ Clean \in Dirty
    /\ Clean.entries = {} /\ Clean.keys = {} /\ Clean.posted = {}
    /\ Clean.held = {} /\ Clean.written = {} /\ Clean.slips = {}
    /\ Clean.change = [w \in WalletIds |-> 0]
  BY DEF Clean, Dirty, Zero

-----------------------------------------------------------------------------
(* Types *)

(***************************************************************************)
(* The leg a request is at belongs to its plan, and from lookup to set the *)
(* wallet of the leg is a row of the table.                                *)
(***************************************************************************)
Located ==
    \A q \in Requests :
        /\ call[q].leg <= Len(Plan[q])
        /\ call[q].pc \in {"lookup", "post", "record", "set"} => call[q].wallet \in exists

TypeInv == TypeOK /\ Located

LEMMA LegType ==
    ASSUME TypeInv, NEW q \in Requests
    PROVE  /\ Leg(q) \in Legs
           /\ Leg(q).amount \in Nat \ {0}
           /\ Change(q) \in Int
<1>1. call[q].leg \in 1..Len(Plan[q])
  <2>1. call[q] \in Call
    BY DEF TypeInv, TypeOK
  <2>2. call[q].leg \in 1..2 /\ call[q].leg <= Len(Plan[q])
    BY <2>1 DEF TypeInv, Located, Call
  <2>3. QED
    BY <2>2, PlanShape
<1>2. Leg(q) \in Legs
  BY <1>1, PlanShape DEF Leg
<1>3. Leg(q).amount \in Nat \ {0}
  BY <1>2 DEF Legs
<1>4. QED
  BY <1>2, <1>3 DEF Change

LEMMA ReadType ==
    ASSUME TypeInv, NEW q \in Requests, NEW w \in WalletIds
    PROVE  Balance(q, w) \in Nat /\ Ledger(q, w) \in Nat
  BY DEF TypeInv, TypeOK, Dirty, Balance, Ledger

LEMMA InitTypes == Init => TypeInv
<1> SUFFICES ASSUME Init PROVE TypeInv
  OBVIOUS
<1>1. Opened \in [WalletIds -> Nat]
  BY ConstantsAssumption DEF Opened
<1>2. NewCall \in Call
  BY DEF NewCall, Call, PC
<1>3. TypeOK
  BY <1>1, <1>2, CleanType, ConstantsAssumption DEF Init, TypeOK
<1>4. ASSUME NEW q \in Requests PROVE call[q].leg = 1 /\ call[q].pc = "new"
  BY DEF Init, NewCall
<1>5. Located
  BY <1>4, PlanShape DEF Located
<1>6. QED
  BY <1>3, <1>5 DEF TypeInv

(***************************************************************************)
(* How the calls move: the record a step writes is a call again, at a leg  *)
(* of the plan, and at a wallet of the table when it has to be.            *)
(***************************************************************************)
MoveOK(q, c, e) ==
    /\ c \in Call
    /\ c.leg <= Len(Plan[q])
    /\ c.pc \in {"lookup", "post", "record", "set"} => c.wallet \in e

LEMMA MovedTypes ==
    ASSUME TypeInv, NEW q \in Requests, NEW c, MoveOK(q, c, exists'), Move(q, c),
           exists \subseteq exists'
    PROVE  call' \in [Requests -> Call] /\ Located'
<1>1. c \in Call
  BY DEF MoveOK
<1>2. /\ call' \in [Requests -> Call]
      /\ call'[q] = c
      /\ \A r \in Requests : r # q => call'[r] = call[r]
  BY <1>1, MoveEffect DEF TypeInv, TypeOK
<1>3. Located'
  BY <1>2 DEF MoveOK, TypeInv, Located
<1>4. QED
  BY <1>2, <1>3

LEMMA FindWalletTypes ==
    ASSUME TypeInv, NEW q \in Requests, FindWallet(q)
    PROVE  call' \in [Requests -> Call] /\ Located'
<1>0. call[q] \in Call /\ call[q].leg <= Len(Plan[q]) /\ exists' = exists
  BY DEF TypeInv, TypeOK, Located, FindWallet, tables
<1>1. CASE Move(q, [call[q] EXCEPT !.pc = "create"])
  <2>1. MoveOK(q, [call[q] EXCEPT !.pc = "create"], exists)
    BY <1>0 DEF MoveOK, Call, PC
  <2>2. QED
    BY <2>1, <1>0, <1>1, MovedTypes
<1>2. CASE \E w \in Rows(Leg(q).currency) :
              Move(q, [call[q] EXCEPT !.pc = AfterFind(q), !.wallet = w, !.seen = Balance(q, w)])
  <2>1. PICK w \in Rows(Leg(q).currency) :
              Move(q, [call[q] EXCEPT !.pc = AfterFind(q), !.wallet = w, !.seen = Balance(q, w)])
    BY <1>2
  <2>2. w \in exists /\ w \in WalletIds
    BY DEF Rows, TypeInv, TypeOK
  <2>3. Balance(q, w) \in Nat
    BY <2>2, ReadType
  <2>4. AfterFind(q) \in {"commit", "lookup"}
    BY DEF AfterFind
  <2>5. MoveOK(q, [call[q] EXCEPT !.pc = AfterFind(q), !.wallet = w, !.seen = Balance(q, w)], exists)
    BY <1>0, <2>2, <2>3, <2>4 DEF MoveOK, Call, PC
  <2>6. QED
    BY <2>1, <2>5, <1>0, MovedTypes
<1>3. QED
  BY <1>1, <1>2 DEF FindWallet

LEMMA PublishTypes ==
    ASSUME TypeInv, NEW q \in Requests, Publish(q)
    PROVE  /\ balance' \in [WalletIds -> Nat] /\ ledger' \in [WalletIds -> Nat]
           /\ total' \in [WalletIds -> Int] /\ entries' \subseteq Entry
           /\ slipped' \subseteq WalletIds /\ dirty' \in [Requests -> Dirty]
<1>1. dirty[q] \in Dirty
  BY DEF TypeInv, TypeOK
<1>2. balance' \in [WalletIds -> Nat] /\ ledger' \in [WalletIds -> Nat]
  BY ReadType DEF Publish
<1>3. total' \in [WalletIds -> Int]
  BY <1>1 DEF Publish, TypeInv, TypeOK, Dirty
<1>4. entries' \subseteq Entry /\ slipped' \subseteq WalletIds
  BY <1>1 DEF Publish, TypeInv, TypeOK, Dirty
<1>5. dirty' \in [Requests -> Dirty]
  BY CleanType, DirtiesEffect DEF Publish, TypeInv, TypeOK
<1>6. QED
  BY <1>2, <1>3, <1>4, <1>5

LEMMA CreateTypes ==
    ASSUME TypeInv, NEW q \in Requests, CreateWallet(q)
    PROVE  TypeInv'
<1>0. call[q] \in Call /\ call[q].leg <= Len(Plan[q])
  BY DEF TypeInv, TypeOK, Located
<1>1. PICK w \in WalletIds \ exists :
          /\ exists' = exists \cup {w}
          /\ Move(q, [call[q] EXCEPT !.pc = AfterFind(q), !.wallet = w,
                                     !.seen = 0, !.created = TRUE])
  BY DEF CreateWallet
<1>2. AfterFind(q) \in {"commit", "lookup"}
  BY DEF AfterFind
<1>3. MoveOK(q, [call[q] EXCEPT !.pc = AfterFind(q), !.wallet = w, !.seen = 0, !.created = TRUE], exists')
  BY <1>0, <1>1, <1>2 DEF MoveOK, Call, PC
<1>4. call' \in [Requests -> Call] /\ Located'
  BY <1>1, <1>3, MovedTypes
<1>5. exists' \subseteq WalletIds
  BY <1>1 DEF TypeInv, TypeOK
<1>6. QED
  BY <1>4, <1>5, PublishTypes DEF CreateWallet, TypeInv, TypeOK

LEMMA FindForDebitTypes ==
    ASSUME TypeInv, NEW q \in Requests, FindForDebit(q)
    PROVE  TypeInv'
<1>0. /\ call[q] \in Call /\ call[q].leg <= Len(Plan[q]) /\ dirty[q] \in Dirty
      /\ exists' = exists /\ UNCHANGED tables
  BY DEF TypeInv, TypeOK, Located, FindForDebit, tables
<1>1. PICK w \in Rows(Leg(q).currency) :
          /\ Move(q, [call[q] EXCEPT !.pc = "lookup", !.wallet = w, !.seen = Balance(q, w)])
          /\ Dirties(q, [dirty[q] EXCEPT !.held = @ \cup {w}])
  BY DEF FindForDebit
<1>2. w \in exists /\ w \in WalletIds
  BY DEF Rows, TypeInv, TypeOK
<1>3. Balance(q, w) \in Nat
  BY <1>2, ReadType
<1>4. MoveOK(q, [call[q] EXCEPT !.pc = "lookup", !.wallet = w, !.seen = Balance(q, w)], exists)
  BY <1>0, <1>2, <1>3 DEF MoveOK, Call, PC
<1>5. call' \in [Requests -> Call] /\ Located'
  BY <1>0, <1>1, <1>4, MovedTypes
<1>6. [dirty[q] EXCEPT !.held = @ \cup {w}] \in Dirty
  BY <1>0, <1>2 DEF Dirty
<1>7. dirty' \in [Requests -> Dirty]
  BY <1>1, <1>6, DirtiesEffect DEF TypeInv, TypeOK
<1>8. QED
  BY <1>0, <1>5, <1>7 DEF TypeInv, TypeOK, tables

LEMMA ReplayTypes ==
    ASSUME TypeInv, NEW q \in Requests, Replay(q)
    PROVE  TypeInv'
<1>0. /\ call[q] \in Call /\ call[q].leg <= Len(Plan[q]) /\ dirty[q] \in Dirty
      /\ call[q].wallet \in exists /\ exists' = exists
  BY DEF TypeInv, TypeOK, Located, Replay, tables
<1>1. PICK e \in Existing(q) :
          Move(q, [call[q] EXCEPT !.pc = "set", !.after = e.after, !.replay = TRUE])
  BY DEF Replay
<1>2. e \in Entry
  BY <1>0 DEF Existing, Dirty, TypeInv, TypeOK
<1>3. e.after \in Nat
  BY <1>2 DEF Entry
<1>4. MoveOK(q, [call[q] EXCEPT !.pc = "set", !.after = e.after, !.replay = TRUE], exists)
  BY <1>0, <1>3 DEF MoveOK, Call, PC
<1>5. call' \in [Requests -> Call] /\ Located'
  BY <1>0, <1>1, <1>4, MovedTypes
<1>6. QED
  BY <1>5 DEF Replay, TypeInv, TypeOK, tables

LEMMA LookupTypes ==
    ASSUME TypeInv, NEW q \in Requests, Lookup(q)
    PROVE  TypeInv'
<1> DEFINE n == Ledger(q, call[q].wallet) + Change(q)
<1>0. /\ call[q] \in Call /\ call[q].leg <= Len(Plan[q]) /\ dirty[q] \in Dirty
      /\ call[q].wallet \in exists /\ exists' = exists
  BY DEF TypeInv, TypeOK, Located, Lookup, tables
<1>1. n \in Nat
  <2>1. Ledger(q, call[q].wallet) \in Nat
    BY <1>0, ReadType DEF TypeInv, TypeOK
  <2>2. Leg(q).amount \in Nat
    BY LegType
  <2>3. Leg(q).kind = "debit" => Ledger(q, call[q].wallet) >= Leg(q).amount
    BY DEF Lookup, Sufficient
  <2>4. QED
    BY <2>1, <2>2, <2>3 DEF Change
<1> HIDE DEF n
<1>2. MoveOK(q, [call[q] EXCEPT !.pc = "post", !.replay = FALSE, !.after = n], exists)
  BY <1>0, <1>1 DEF MoveOK, Call, PC
<1>3. Move(q, [call[q] EXCEPT !.pc = "post", !.replay = FALSE, !.after = n])
  BY DEF Lookup, n
<1>4. call' \in [Requests -> Call] /\ Located'
  BY <1>0, <1>2, <1>3, MovedTypes
<1>5. QED
  BY <1>4 DEF Lookup, TypeInv, TypeOK, tables

(***************************************************************************)
(* What Post and SetWallet write.                                          *)
(***************************************************************************)
LEMMA BookedType ==
    ASSUME TypeInv, NEW q \in Requests, Post(q)
    PROVE  LET w == call[q].wallet
               e == [by |-> q, key |-> Leg(q).key, wallet |-> w, after |-> call[q].after]
           IN
           /\ Booked(q) \in Dirty
           /\ e \in Entry
           /\ Booked(q).entries = dirty[q].entries \cup {e}
           /\ Booked(q).keys = dirty[q].keys
           /\ Booked(q).posted = dirty[q].posted \cup {w}
           /\ Booked(q).ledger = [dirty[q].ledger EXCEPT ![w] = call[q].after]
           /\ Booked(q).change = Plus(dirty[q].change, w, Change(q))
           /\ Booked(q).held = dirty[q].held
           /\ Booked(q).written = dirty[q].written
           /\ Booked(q).balance = dirty[q].balance
           /\ dirty[q].slips \subseteq Booked(q).slips
           /\ Booked(q).slips \subseteq dirty[q].slips \cup {w}
           /\ Leg(q).kind # "debit" /\ call[q].after # Ledger(q, w) + Change(q)
                => w \in Booked(q).slips
<1> DEFINE w == call[q].wallet
           e == [by |-> q, key |-> Leg(q).key, wallet |-> w, after |-> call[q].after]
           stale == Leg(q).kind # "debit" /\ call[q].after # Ledger(q, w) + Change(q)
           s == IF stale THEN dirty[q].slips \cup {w} ELSE dirty[q].slips
           c == Plus(dirty[q].change, w, Change(q))
           l == [dirty[q].ledger EXCEPT ![w] = call[q].after]
           d == [dirty[q] EXCEPT !.entries = @ \cup {e}, !.posted = @ \cup {w},
                                 !.ledger = l, !.change = c, !.slips = s]
<1>0. /\ call[q] \in Call /\ dirty[q] \in Dirty /\ w \in WalletIds
  BY DEF TypeInv, TypeOK, Located, Post
<1>1. Booked(q) = d
  BY DEF Booked
<1>2. e \in Entry
  <2>1. Leg(q) \in Legs
    BY LegType
  <2>2. Leg(q).key \in Keys /\ call[q].after \in Nat
    BY <2>1, <1>0 DEF Legs, Call
  <2>3. QED
    BY <1>0, <2>2 DEF Entry
<1>3. c \in [WalletIds -> Int] /\ l \in [WalletIds -> Nat] /\ s \subseteq WalletIds
  <2>1. Change(q) \in Int
    BY LegType
  <2>2. dirty[q].change \in [WalletIds -> Int] /\ dirty[q].ledger \in [WalletIds -> Nat]
        /\ dirty[q].slips \subseteq WalletIds /\ call[q].after \in Nat
    BY <1>0 DEF Dirty, Call
  <2>3. QED
    BY <2>1, <2>2, <1>0 DEF Plus
<1>4. stale => w \in s
  OBVIOUS
<1>5. dirty[q].slips \subseteq s /\ s \subseteq dirty[q].slips \cup {w}
  OBVIOUS
<1> HIDE DEF e, c, l, s
<1>6. d \in Dirty
  BY <1>0, <1>2, <1>3 DEF Dirty
<1>7. /\ d.entries = dirty[q].entries \cup {e} /\ d.keys = dirty[q].keys
      /\ d.posted = dirty[q].posted \cup {w} /\ d.ledger = l /\ d.change = c
      /\ d.held = dirty[q].held /\ d.written = dirty[q].written
      /\ d.balance = dirty[q].balance /\ d.slips = s
  BY <1>0 DEF Dirty
<1> HIDE DEF d, stale
<1>8. QED
  BY <1>1, <1>2, <1>4, <1>5, <1>6, <1>7 DEF e, c, l, stale

LEMMA ShownType ==
    ASSUME TypeInv, NEW q \in Requests, SetWallet(q)
    PROVE  LET w == call[q].wallet
           IN
           /\ Shown(q) \in Dirty
           /\ Result(q) \in Nat
           /\ Shown(q).entries = dirty[q].entries
           /\ Shown(q).keys = dirty[q].keys
           /\ Shown(q).posted = dirty[q].posted
           /\ Shown(q).ledger = dirty[q].ledger
           /\ Shown(q).change = dirty[q].change
           /\ Shown(q).held = dirty[q].held \cup {w}
           /\ Shown(q).written = dirty[q].written \cup {w}
           /\ Shown(q).balance = [dirty[q].balance EXCEPT ![w] = Result(q)]
           /\ dirty[q].slips \subseteq Shown(q).slips
           /\ Slips(q) => w \in Shown(q).slips
<1> DEFINE w == call[q].wallet
           s == IF Slips(q) THEN dirty[q].slips \cup {w} ELSE dirty[q].slips
           b == [dirty[q].balance EXCEPT ![w] = Result(q)]
           d == [dirty[q] EXCEPT !.held = @ \cup {w}, !.written = @ \cup {w},
                                 !.balance = b, !.slips = s]
<1>0. /\ call[q] \in Call /\ dirty[q] \in Dirty /\ w \in WalletIds
  BY DEF TypeInv, TypeOK, Located, SetWallet
<1>1. Shown(q) = d
  BY DEF Shown
<1>2. Result(q) \in Nat
  <2>1. Balance(q, w) \in Nat
    BY <1>0, ReadType
  <2>2. QED
    BY <1>0, <2>1 DEF Call, Result
<1>3. b \in [WalletIds -> Nat] /\ s \subseteq WalletIds
  BY <1>0, <1>2 DEF Dirty
<1>4. (Slips(q) => w \in s) /\ dirty[q].slips \subseteq s
  OBVIOUS
<1> HIDE DEF b, s
<1>5. d \in Dirty
  BY <1>0, <1>3 DEF Dirty
<1>6. /\ d.entries = dirty[q].entries /\ d.keys = dirty[q].keys
      /\ d.posted = dirty[q].posted /\ d.ledger = dirty[q].ledger
      /\ d.change = dirty[q].change /\ d.held = dirty[q].held \cup {w}
      /\ d.written = dirty[q].written \cup {w} /\ d.balance = b /\ d.slips = s
  BY <1>0 DEF Dirty
<1> HIDE DEF d
<1>7. QED
  BY <1>1, <1>2, <1>4, <1>5, <1>6 DEF b

(***************************************************************************)
(* A step that only moves the request.                                     *)
(***************************************************************************)
LEMMA Advance ==
    ASSUME TypeInv, NEW q \in Requests, NEW pc \in PC,
           pc \in {"lookup", "post", "record", "set"} =>
               call[q].pc \in {"lookup", "post", "record", "set"},
           Move(q, [call[q] EXCEPT !.pc = pc]), exists' = exists
    PROVE  call' \in [Requests -> Call] /\ Located'
<1>1. call[q] \in Call /\ call[q].leg <= Len(Plan[q])
  BY DEF TypeInv, TypeOK, Located
<1>2. MoveOK(q, [call[q] EXCEPT !.pc = pc], exists)
  BY <1>1 DEF MoveOK, Call, TypeInv, Located
<1>3. QED
  BY <1>2, MovedTypes

LEMMA PostTypes ==
    ASSUME TypeInv, NEW q \in Requests, Post(q)
    PROVE  TypeInv'
<1>1. call' \in [Requests -> Call] /\ Located'
  BY Advance DEF Post, tables, PC
<1>2. dirty' \in [Requests -> Dirty]
  BY BookedType, DirtiesEffect DEF Post, TypeInv, TypeOK
<1>3. QED
  BY <1>1, <1>2 DEF Post, TypeInv, TypeOK, tables

LEMMA RecordTypes ==
    ASSUME TypeInv, NEW q \in Requests, Record(q)
    PROVE  TypeInv'
<1> DEFINE d == [dirty[q] EXCEPT !.keys = @ \cup {Leg(q).key}]
<1>1. call' \in [Requests -> Call] /\ Located'
  BY Advance DEF Record, tables, PC
<1>2. Leg(q).key \in Keys
  BY LegType DEF Legs
<1>3. d \in Dirty
  BY <1>2 DEF TypeInv, TypeOK, Dirty
<1>4. dirty' \in [Requests -> Dirty]
  BY <1>3, DirtiesEffect DEF Record, TypeInv, TypeOK
<1>5. QED
  BY <1>1, <1>4 DEF Record, TypeInv, TypeOK, tables

LEMMA SetWalletTypes ==
    ASSUME TypeInv, NEW q \in Requests, SetWallet(q)
    PROVE  TypeInv'
<1> DEFINE n == IF AfterLeg(q) = "find" THEN 2 ELSE call[q].leg
           c == [call[q] EXCEPT !.pc = AfterLeg(q), !.leg = n]
<1>1. call[q] \in Call /\ call[q].leg <= Len(Plan[q]) /\ call[q].leg \in 1..2
  BY DEF TypeInv, TypeOK, Located, Call
<1>2. n \in 1..2 /\ n <= Len(Plan[q])
  BY <1>1, PlanShape DEF AfterLeg
<1>3. AfterLeg(q) \in {"find", "commit"}
  BY DEF AfterLeg
<1> HIDE DEF n
<1>4. MoveOK(q, c, exists)
  BY <1>1, <1>2, <1>3 DEF MoveOK, Call, PC
<1>5. Move(q, c)
  BY DEF SetWallet, n
<1> HIDE DEF c
<1>6. call' \in [Requests -> Call] /\ Located'
  BY <1>4, <1>5, MovedTypes DEF SetWallet, tables
<1>7. dirty' \in [Requests -> Dirty]
  BY ShownType, DirtiesEffect DEF SetWallet, TypeInv, TypeOK
<1>8. QED
  BY <1>6, <1>7 DEF SetWallet, TypeInv, TypeOK, tables

LEMMA CommitTypes ==
    ASSUME TypeInv, NEW q \in Requests, Commit(q)
    PROVE  TypeInv'
<1>1. call' \in [Requests -> Call] /\ Located'
  BY Advance DEF Commit, PC
<1>2. QED
  BY <1>1, PublishTypes DEF Commit, TypeInv, TypeOK

LEMMA RollBackTypes ==
    ASSUME TypeInv, NEW q \in Requests, RollBack(q)
    PROVE  TypeInv'
<1>1. call' \in [Requests -> Call] /\ Located'
  BY Advance DEF RollBack, tables, PC
<1>2. dirty' \in [Requests -> Dirty]
  BY CleanType, DirtiesEffect DEF RollBack, TypeInv, TypeOK
<1>3. QED
  BY <1>1, <1>2 DEF RollBack, TypeInv, TypeOK, tables

(***************************************************************************)
(* The actions of a step, by what they do to the tables.                   *)
(***************************************************************************)
LEMMA StepCases ==
    ASSUME NEW q \in Requests, Step(q) \/ Abort(q)
    PROVE  \/ FindWallet(q) \/ CreateWallet(q) \/ FindForDebit(q)
           \/ Replay(q) \/ Lookup(q) \/ Post(q) \/ Record(q)
           \/ SetWallet(q) \/ Commit(q) \/ RollBack(q)
  BY DEF Step, Abort, Refuse, BreakDeadlock

LEMMA NextTypes == TypeInv /\ [Next]_vars => TypeInv'
<1> SUFFICES ASSUME TypeInv, [Next]_vars PROVE TypeInv'
  OBVIOUS
<1>1. CASE UNCHANGED vars
  BY <1>1 DEF vars, tables, TypeInv, TypeOK, Located
<1>2. ASSUME NEW q \in Requests, Step(q) \/ Abort(q)
      PROVE  TypeInv'
  <2>1. CASE FindWallet(q)
    BY <2>1, FindWalletTypes DEF FindWallet, TypeInv, TypeOK, tables
  <2>2. CASE CreateWallet(q)
    BY <2>2, CreateTypes
  <2>3. CASE FindForDebit(q)
    BY <2>3, FindForDebitTypes
  <2>4. CASE Replay(q)
    BY <2>4, ReplayTypes
  <2>5. CASE Lookup(q)
    BY <2>5, LookupTypes
  <2>6. CASE Post(q)
    BY <2>6, PostTypes
  <2>7. CASE Record(q)
    BY <2>7, RecordTypes
  <2>8. CASE SetWallet(q)
    BY <2>8, SetWalletTypes
  <2>9. CASE Commit(q)
    BY <2>9, CommitTypes
  <2>10. CASE RollBack(q)
    BY <2>10, RollBackTypes
  <2>11. QED
    BY <1>2, <2>1, <2>2, <2>3, <2>4, <2>5, <2>6, <2>7, <2>8, <2>9, <2>10, StepCases
<1>3. QED
  BY <1>1, <1>2 DEF Next

LEMMA AlwaysTyped == Spec => []TypeInv
  BY InitTypes, NextTypes, PTL DEF Spec

(***************************************************************************)
(* The variables keep their types; in particular no balance, of the wallet *)
(* row or of the ledger, committed or not, is ever negative.               *)
(***************************************************************************)
THEOREM TypeCorrect == Spec => []TypeOK
<1>1. TypeInv => TypeOK
  BY DEF TypeInv
<1>2. QED
  BY <1>1, AlwaysTyped, PTL

-----------------------------------------------------------------------------
(* One entry per key *)

(***************************************************************************)
(* A recorded key belongs to one transaction and to no committed entry;    *)
(* every uncommitted entry has its key recorded, but for the one entry     *)
(* that has just been written.                                             *)
(***************************************************************************)
KeysApart == \A q, r \in Requests : q # r => dirty[q].keys \cap dirty[r].keys = {}

KeysUnused == \A q \in Requests : \A e \in entries : e.key \notin dirty[q].keys

KeysRecorded ==
    \A q \in Requests : \A e \in dirty[q].entries :
        \/ e.key \in dirty[q].keys
        \/ call[q].pc = "record" /\ e.key = Leg(q).key

OwnOnce == \A q \in Requests : \A e, f \in dirty[q].entries : e.key = f.key => e = f

PostNew ==
    \A q \in Requests : call[q].pc = "post" =>
        \A e \in dirty[q].entries : e.key # Leg(q).key

KeyInv == KeysApart /\ KeysUnused /\ KeysRecorded /\ OwnOnce /\ PostNew /\ OncePerKey

LEMMA InitKeys == Init => KeyInv
  BY CleanType
  DEF Init, KeyInv, KeysApart, KeysUnused, KeysRecorded, OwnOnce, PostNew, OncePerKey, NewCall

(***************************************************************************)
(* What a step does to the requests that do not take it.                   *)
(***************************************************************************)
LEMMA MoveFrame ==
    ASSUME TypeInv, NEW q \in Requests, NEW c, Move(q, c)
    PROVE  /\ call'[q] = c
           /\ \A r \in Requests : r # q => call'[r] = call[r] /\ Leg(r)' = Leg(r)
           /\ c.leg = call[q].leg => Leg(q)' = Leg(q)
  BY DEF TypeInv, TypeOK, Move, Leg

LEMMA DirtyFrame ==
    ASSUME TypeInv, NEW q \in Requests, NEW d, Dirties(q, d)
    PROVE  /\ dirty'[q] = d
           /\ \A r \in Requests : r # q => dirty'[r] = dirty[r]
  BY DEF TypeInv, TypeOK, Dirties

(***************************************************************************)
(* A step that writes nothing and neither enters nor leaves post, record.  *)
(***************************************************************************)
LEMMA QuietKeys ==
    ASSUME TypeInv, KeyInv, NEW q \in Requests, NEW c, Move(q, c),
           call[q].pc # "record", c.pc # "post", UNCHANGED <<entries, dirty>>
    PROVE  KeyInv'
<1>1. /\ call'[q] = c
      /\ \A r \in Requests : r # q => call'[r] = call[r] /\ Leg(r)' = Leg(r)
  BY MoveFrame
<1>2. KeysRecorded'
  BY <1>1 DEF KeyInv, KeysRecorded
<1>3. PostNew'
  BY <1>1 DEF KeyInv, PostNew
<1>4. QED
  BY <1>2, <1>3 DEF KeyInv, KeysApart, KeysUnused, OwnOnce, OncePerKey

LEMMA FindWalletKeys ==
    ASSUME TypeInv, KeyInv, NEW q \in Requests, FindWallet(q)
    PROVE  KeyInv'
<1>1. call[q] \in Call /\ call[q].pc # "record" /\ UNCHANGED <<entries, dirty>>
  BY DEF FindWallet, Finding, TypeInv, TypeOK, tables
<1>2. PICK c : Move(q, c) /\ c.pc \in {"create", "commit", "lookup"}
  <2>1. CASE Move(q, [call[q] EXCEPT !.pc = "create"])
    <3>1. [call[q] EXCEPT !.pc = "create"].pc = "create"
      BY <1>1 DEF Call
    <3>2. QED
      BY <2>1, <3>1
  <2>2. CASE \E w \in Rows(Leg(q).currency) :
                Move(q, [call[q] EXCEPT !.pc = AfterFind(q), !.wallet = w, !.seen = Balance(q, w)])
    <3>1. PICK w \in Rows(Leg(q).currency) :
                Move(q, [call[q] EXCEPT !.pc = AfterFind(q), !.wallet = w, !.seen = Balance(q, w)])
      BY <2>2
    <3> DEFINE c == [call[q] EXCEPT !.pc = AfterFind(q), !.wallet = w, !.seen = Balance(q, w)]
    <3>2. c.pc = AfterFind(q)
      BY <1>1 DEF Call
    <3>3. Move(q, c)
      BY <3>1
    <3> HIDE DEF c
    <3>4. AfterFind(q) \in {"commit", "lookup"}
      BY DEF AfterFind
    <3>5. QED
      BY <3>2, <3>3, <3>4
  <2>3. QED
    BY <2>1, <2>2 DEF FindWallet
<1>3. QED
  BY <1>1, <1>2, QuietKeys

LEMMA ReplayKeys ==
    ASSUME TypeInv, KeyInv, NEW q \in Requests, Replay(q)
    PROVE  KeyInv'
<1>1. call[q] \in Call /\ call[q].pc # "record" /\ UNCHANGED <<entries, dirty>>
  BY DEF Replay, TypeInv, TypeOK, tables
<1>2. PICK e : Move(q, [call[q] EXCEPT !.pc = "set", !.after = e.after, !.replay = TRUE])
  BY DEF Replay
<1>3. [call[q] EXCEPT !.pc = "set", !.after = e.after, !.replay = TRUE].pc = "set"
  BY <1>1 DEF Call
<1>4. QED
  BY <1>1, <1>2, <1>3, QuietKeys

LEMMA LookupKeys ==
    ASSUME TypeInv, KeyInv, NEW q \in Requests, Lookup(q)
    PROVE  KeyInv'
<1> DEFINE n == Ledger(q, call[q].wallet) + Change(q)
           c == [call[q] EXCEPT !.pc = "post", !.replay = FALSE, !.after = n]
<1>1. call[q] \in Call /\ call[q].pc # "record" /\ UNCHANGED <<entries, dirty>> /\ Move(q, c)
  BY DEF Lookup, TypeInv, TypeOK, tables
<1>2. c.leg = call[q].leg /\ c.pc = "post"
  BY <1>1 DEF Call
<1> HIDE DEF c
<1>3. /\ call'[q] = c /\ Leg(q)' = Leg(q)
      /\ \A r \in Requests : r # q => call'[r] = call[r] /\ Leg(r)' = Leg(r)
  BY <1>1, <1>2, MoveFrame
<1>4. KeysRecorded'
  BY <1>1, <1>3 DEF KeyInv, KeysRecorded
<1>5. PostNew'
  BY <1>1, <1>3 DEF KeyInv, PostNew, Lookup, Existing
<1>6. QED
  BY <1>1, <1>4, <1>5 DEF KeyInv, KeysApart, KeysUnused, OwnOnce, OncePerKey

LEMMA FindForDebitKeys ==
    ASSUME TypeInv, KeyInv, NEW q \in Requests, FindForDebit(q)
    PROVE  KeyInv'
<1>1. PICK w \in Rows(Leg(q).currency) :
          /\ Move(q, [call[q] EXCEPT !.pc = "lookup", !.wallet = w, !.seen = Balance(q, w)])
          /\ Dirties(q, [dirty[q] EXCEPT !.held = @ \cup {w}])
  BY DEF FindForDebit
<1> DEFINE c == [call[q] EXCEPT !.pc = "lookup", !.wallet = w, !.seen = Balance(q, w)]
           d == [dirty[q] EXCEPT !.held = @ \cup {w}]
<1>2. /\ call[q].pc # "record" /\ entries' = entries
      /\ c.pc = "lookup" /\ d.keys = dirty[q].keys /\ d.entries = dirty[q].entries
  BY DEF FindForDebit, Locking, Finding, TypeInv, TypeOK, tables, Call, Dirty
<1> HIDE DEF c, d
<1>3. /\ call'[q] = c
      /\ \A r \in Requests : r # q => call'[r] = call[r] /\ Leg(r)' = Leg(r)
  BY <1>1, MoveFrame DEF c
<1>4. /\ \A r \in Requests : dirty'[r].keys = dirty[r].keys /\ dirty'[r].entries = dirty[r].entries
  BY <1>1, <1>2, DirtyFrame DEF d
<1>5. KeysRecorded' /\ PostNew'
  BY <1>2, <1>3, <1>4 DEF KeyInv, KeysRecorded, PostNew
<1>6. QED
  BY <1>2, <1>4, <1>5 DEF KeyInv, KeysApart, KeysUnused, OwnOnce, OncePerKey

LEMMA PostKeys ==
    ASSUME TypeInv, KeyInv, NEW q \in Requests, Post(q)
    PROVE  KeyInv'
<1> DEFINE c == [call[q] EXCEPT !.pc = "record"]
<1>1. /\ c.pc = "record" /\ c.leg = call[q].leg /\ call[q].pc = "post" /\ entries' = entries
      /\ Move(q, c) /\ Dirties(q, Booked(q))
  BY DEF Post, TypeInv, TypeOK, tables, Call
<1> HIDE DEF c
<1> DEFINE e == [by |-> q, key |-> Leg(q).key, wallet |-> call[q].wallet,
                 after |-> call[q].after]
<1>2. /\ e.key = Leg(q).key
      /\ Booked(q).entries = dirty[q].entries \cup {e}
      /\ Booked(q).keys = dirty[q].keys
  BY BookedType
<1> HIDE DEF e
<1>3. /\ call'[q] = c /\ Leg(q)' = Leg(q)
      /\ \A r \in Requests : r # q => call'[r] = call[r] /\ Leg(r)' = Leg(r)
  BY <1>1, MoveFrame
<1>4. /\ dirty'[q].entries = dirty[q].entries \cup {e} /\ dirty'[q].keys = dirty[q].keys
      /\ \A r \in Requests : r # q => dirty'[r] = dirty[r]
  BY <1>1, <1>2, DirtyFrame
<1>5. KeysRecorded'
  BY <1>1, <1>2, <1>3, <1>4 DEF KeyInv, KeysRecorded
<1>6. OwnOnce'
  BY <1>1, <1>2, <1>4 DEF KeyInv, OwnOnce, PostNew
<1>7. PostNew'
  BY <1>1, <1>3, <1>4 DEF KeyInv, PostNew
<1>8. QED
  BY <1>1, <1>4, <1>5, <1>6, <1>7 DEF KeyInv, KeysApart, KeysUnused, OncePerKey

LEMMA RecordKeys ==
    ASSUME TypeInv, KeyInv, NEW q \in Requests, Record(q)
    PROVE  KeyInv'
<1> DEFINE c == [call[q] EXCEPT !.pc = "set"]
           d == [dirty[q] EXCEPT !.keys = @ \cup {Leg(q).key}]
<1>1. /\ c.pc = "set" /\ c.leg = call[q].leg /\ call[q].pc = "record" /\ entries' = entries
      /\ d.entries = dirty[q].entries /\ d.keys = dirty[q].keys \cup {Leg(q).key}
      /\ Move(q, c) /\ Dirties(q, d)
  BY DEF Record, TypeInv, TypeOK, tables, Call, Dirty
<1> HIDE DEF c, d
<1>2. /\ call'[q] = c /\ Leg(q)' = Leg(q)
      /\ \A r \in Requests : r # q => call'[r] = call[r] /\ Leg(r)' = Leg(r)
  BY <1>1, MoveFrame
<1>3. /\ dirty'[q].entries = dirty[q].entries
      /\ dirty'[q].keys = dirty[q].keys \cup {Leg(q).key}
      /\ \A r \in Requests : r # q => dirty'[r] = dirty[r]
  BY <1>1, DirtyFrame
<1>4. \A r \in Requests : r # q => Leg(q).key \notin dirty[r].keys
  BY <1>1 DEF Record, Free, Blockers
<1>5. \A e \in entries : e.key # Leg(q).key
  BY DEF Record, Recorded
<1>6. KeysApart'
  BY <1>3, <1>4 DEF KeyInv, KeysApart
<1>7. KeysUnused'
  BY <1>1, <1>3, <1>5 DEF KeyInv, KeysUnused
<1>8. KeysRecorded' /\ PostNew'
  BY <1>1, <1>2, <1>3 DEF KeyInv, KeysRecorded, PostNew
<1>9. OwnOnce' /\ OncePerKey'
  BY <1>1, <1>3 DEF KeyInv, OwnOnce, OncePerKey
<1>10. QED
  BY <1>6, <1>7, <1>8, <1>9 DEF KeyInv

LEMMA SetWalletKeys ==
    ASSUME TypeInv, KeyInv, NEW q \in Requests, SetWallet(q)
    PROVE  KeyInv'
<1> DEFINE c == [call[q] EXCEPT !.pc = AfterLeg(q), !.leg = IF AfterLeg(q) = "find" THEN 2 ELSE @]
<1>1. /\ c.pc \in {"find", "commit"} /\ call[q].pc = "set" /\ entries' = entries
      /\ Move(q, c) /\ Dirties(q, Shown(q))
  BY DEF SetWallet, AfterLeg, TypeInv, TypeOK, tables, Call
<1> HIDE DEF c
<1>2. /\ call'[q] = c
      /\ \A r \in Requests : r # q => call'[r] = call[r] /\ Leg(r)' = Leg(r)
  BY <1>1, MoveFrame
<1>3. \A r \in Requests : dirty'[r].keys = dirty[r].keys /\ dirty'[r].entries = dirty[r].entries
  <2>1. Shown(q).keys = dirty[q].keys /\ Shown(q).entries = dirty[q].entries
    BY ShownType
  <2>2. dirty'[q] = Shown(q) /\ \A r \in Requests : r # q => dirty'[r] = dirty[r]
    BY <1>1, DirtyFrame
  <2>3. QED
    BY <2>1, <2>2
<1>4. KeysRecorded' /\ PostNew'
  BY <1>1, <1>2, <1>3 DEF KeyInv, KeysRecorded, PostNew
<1>5. QED
  BY <1>1, <1>3, <1>4 DEF KeyInv, KeysApart, KeysUnused, OwnOnce, OncePerKey

(***************************************************************************)
(* A commit publishes entries whose keys are all recorded.                 *)
(***************************************************************************)
LEMMA PublishKeys ==
    ASSUME TypeInv, KeyInv, NEW q \in Requests, NEW c, Move(q, c), Publish(q),
           call[q].pc # "record", c.pc # "post"
    PROVE  KeyInv'
<1>1. /\ call'[q] = c
      /\ \A r \in Requests : r # q => call'[r] = call[r] /\ Leg(r)' = Leg(r)
  BY MoveFrame
<1>2. /\ dirty'[q].entries = {} /\ dirty'[q].keys = {}
      /\ \A r \in Requests : r # q => dirty'[r] = dirty[r]
  BY DirtyFrame, CleanType DEF Publish
<1>3. entries' = entries \cup dirty[q].entries
  BY DEF Publish
<1>4. \A e \in dirty[q].entries : e.key \in dirty[q].keys
  BY DEF KeyInv, KeysRecorded
<1>5. KeysApart' /\ OwnOnce'
  BY <1>2 DEF KeyInv, KeysApart, OwnOnce
<1>6. KeysUnused'
  BY <1>2, <1>3, <1>4 DEF KeyInv, KeysUnused, KeysApart
<1>7. KeysRecorded' /\ PostNew'
  BY <1>1, <1>2 DEF KeyInv, KeysRecorded, PostNew
<1>8. OncePerKey'
  BY <1>3, <1>4 DEF KeyInv, OncePerKey, OwnOnce, KeysUnused
<1>9. QED
  BY <1>5, <1>6, <1>7, <1>8 DEF KeyInv

LEMMA CreateKeys ==
    ASSUME TypeInv, KeyInv, NEW q \in Requests, CreateWallet(q)
    PROVE  KeyInv'
<1>1. PICK w : Move(q, [call[q] EXCEPT !.pc = AfterFind(q), !.wallet = w,
                                       !.seen = 0, !.created = TRUE])
  BY DEF CreateWallet
<1>2. [call[q] EXCEPT !.pc = AfterFind(q), !.wallet = w, !.seen = 0, !.created = TRUE].pc # "post"
  BY DEF TypeInv, TypeOK, Call, AfterFind
<1>3. QED
  BY <1>1, <1>2, PublishKeys DEF CreateWallet

LEMMA CommitKeys ==
    ASSUME TypeInv, KeyInv, NEW q \in Requests, Commit(q)
    PROVE  KeyInv'
<1>1. [call[q] EXCEPT !.pc = "done"].pc # "post"
  BY DEF TypeInv, TypeOK, Call
<1>2. QED
  BY <1>1, PublishKeys DEF Commit

LEMMA RollBackKeys ==
    ASSUME TypeInv, KeyInv, NEW q \in Requests, RollBack(q)
    PROVE  KeyInv'
<1>1. /\ call'[q] = [call[q] EXCEPT !.pc = "failed"]
      /\ \A r \in Requests : r # q => call'[r] = call[r] /\ Leg(r)' = Leg(r)
  BY MoveFrame DEF RollBack
<1>2. call'[q].pc = "failed"
  BY <1>1 DEF TypeInv, TypeOK, Call
<1>3. /\ dirty'[q].entries = {} /\ dirty'[q].keys = {} /\ entries' = entries
      /\ \A r \in Requests : r # q => dirty'[r] = dirty[r]
  BY DirtyFrame, CleanType DEF RollBack, tables
<1>4. KeysRecorded' /\ PostNew'
  BY <1>1, <1>2, <1>3 DEF KeyInv, KeysRecorded, PostNew
<1>5. QED
  BY <1>3, <1>4 DEF KeyInv, KeysApart, KeysUnused, OwnOnce, OncePerKey

LEMMA NextKeys == TypeInv /\ KeyInv /\ [Next]_vars => KeyInv'
<1> SUFFICES ASSUME TypeInv, KeyInv, [Next]_vars PROVE KeyInv'
  OBVIOUS
<1>1. CASE UNCHANGED vars
  BY <1>1 DEF vars, tables, KeyInv, KeysApart, KeysUnused, KeysRecorded, OwnOnce,
              PostNew, OncePerKey, Leg
<1>2. ASSUME NEW q \in Requests, Step(q) \/ Abort(q)
      PROVE  KeyInv'
  BY <1>2, StepCases, FindWalletKeys, CreateKeys, FindForDebitKeys, ReplayKeys, LookupKeys,
     PostKeys, RecordKeys, SetWalletKeys, CommitKeys, RollBackKeys
<1>3. QED
  BY <1>1, <1>2 DEF Next

(***************************************************************************)
(* However requests with one key repeat, overlap and fail, at most one     *)
(* entry with that key is ever committed.                                  *)
(***************************************************************************)
THEOREM KeysOnce == Spec => []OncePerKey
<1>1. KeyInv => OncePerKey
  BY DEF KeyInv
<1>2. QED
  BY <1>1, InitKeys, NextKeys, AlwaysTyped, PTL DEF Spec

-----------------------------------------------------------------------------
(* What a transaction has written, leg by leg *)

(***************************************************************************)
(* The keys of the entries a transaction has written, and of the committed *)
(* ones.                                                                   *)
(***************************************************************************)
Wrote(q) == {e.key : e \in dirty[q].entries}

PostedKeys == {e.key : e \in entries}

Bookable(leg, w) == leg.kind # "open" /\ w \in WalletIds /\ Cur[w] = leg.currency

(***************************************************************************)
(* Nothing, one leg, or the two of a transfer.                             *)
(***************************************************************************)
WroteNothing(q) == Wrote(q) = {} /\ dirty[q].change = Zero

WroteOne(q, i, w) ==
    /\ i \in 1..Len(Plan[q])
    /\ Bookable(Plan[q][i], w)
    /\ Wrote(q) = {Plan[q][i].key}
    /\ dirty[q].change = Plus(Zero, w, Books!Amount(Plan[q][i]))

WroteBoth(q, v, w) ==
    /\ Len(Plan[q]) = 2
    /\ Bookable(Plan[q][1], v)
    /\ Bookable(Plan[q][2], w)
    /\ Wrote(q) = {Plan[q][1].key, Plan[q][2].key}
    /\ dirty[q].change =
           Plus(Plus(Zero, v, Books!Amount(Plan[q][1])), w, Books!Amount(Plan[q][2]))

WroteLegs(q) ==
    \/ WroteNothing(q)
    \/ \E i \in 1..2, w \in WalletIds : WroteOne(q, i, w)
    \/ \E v, w \in WalletIds : WroteBoth(q, v, w)

(***************************************************************************)
(* Where a request is tells what has been written: the second leg never    *)
(* before the first, the leg at hand once it has passed Post.              *)
(***************************************************************************)
InOrder(q) ==
    /\ call[q].leg = 1 /\ Len(Plan[q]) = 2 => Plan[q][2].key \notin Wrote(q)
    /\ call[q].leg = 2 /\ call[q].pc # "failed" =>
           Plan[q][1].key \in Wrote(q) \cup PostedKeys

Reached(q) ==
    /\ call[q].pc \in {"lookup", "post", "record", "set"} =>
           Bookable(Leg(q), call[q].wallet)
    /\ call[q].pc \in {"record", "set"} => Leg(q).key \in Wrote(q) \cup PostedKeys
    /\ call[q].pc = "commit" /\ Len(Plan[q]) = 2 =>
           /\ call[q].leg = 2
           /\ Plan[q][2].key \in Wrote(q) \cup PostedKeys

LegsOf(q) == WroteLegs(q) /\ InOrder(q) /\ Reached(q)

LegInv == \A q \in Requests : LegsOf(q)

(***************************************************************************)
(* The plan of a transfer, and the leg a request is at.                    *)
(***************************************************************************)
LEMMA TransferPlan ==
    ASSUME NEW q \in Requests, Len(Plan[q]) = 2
    PROVE  /\ Plan[q][1].kind = "debit" /\ Plan[q][2].kind = "credit"
           /\ Plan[q][1].key # Plan[q][2].key
<1>1. Plan[q] \in Plans
  BY ConstantsAssumption
<1>2. QED
  <2> DEFINE p == Plan[q]
  <2>1. p \in Plans /\ Len(p) # 1
    BY <1>1
  <2> HIDE DEF p
  <2>2. p[1].kind = "debit" /\ p[2].kind = "credit" /\ p[1].key # p[2].key
    BY <2>1 DEF Plans
  <2>3. QED
    BY <2>2 DEF p

LEMMA AtLeg ==
    ASSUME TypeInv, NEW q \in Requests
    PROVE  /\ call[q] \in Call /\ dirty[q] \in Dirty
           /\ call[q].leg \in 1..2 /\ call[q].leg <= Len(Plan[q]) /\ Len(Plan[q]) \in 1..2
           /\ call[q].leg \in 1..Len(Plan[q])
           /\ Leg(q) = Plan[q][call[q].leg]
  BY PlanShape DEF TypeInv, TypeOK, Located, Call, Leg

LEMMA InitLegs == Init => LegInv
<1> SUFFICES ASSUME Init, NEW q \in Requests PROVE LegsOf(q)
  BY DEF LegInv
<1>1. call[q] = NewCall /\ dirty[q] = Clean
  BY DEF Init
<1>2. Wrote(q) = {} /\ dirty[q].change = Zero
  BY <1>1, CleanType DEF Wrote, Zero
<1>3. call[q].leg = 1 /\ call[q].pc = "new"
  BY <1>1 DEF NewCall
<1>4. QED
  BY <1>2, <1>3 DEF LegsOf, WroteLegs, WroteNothing, InOrder, Reached

(***************************************************************************)
(* A step matters to the request that takes it only: the others can but    *)
(* see more keys posted.                                                   *)
(***************************************************************************)
LEMMA OthersLegs ==
    ASSUME TypeInv, LegInv, NEW q \in Requests, NEW c, Move(q, c), NEW d,
           Dirties(q, d) \/ (dirty' = dirty /\ d = dirty[q]),
           entries \subseteq entries', LegsOf(q)'
    PROVE  LegInv'
<1>1. \A r \in Requests : r # q => call'[r] = call[r] /\ Leg(r)' = Leg(r)
  BY MoveFrame
<1>2. \A r \in Requests : r # q => dirty'[r] = dirty[r]
  BY DirtyFrame
<1>3. PostedKeys \subseteq PostedKeys'
  BY DEF PostedKeys
<1>4. ASSUME NEW r \in Requests, r # q PROVE LegsOf(r)'
  <2>0. /\ call'[r] = call[r] /\ dirty'[r] = dirty[r] /\ Leg(r)' = Leg(r)
        /\ LegsOf(r) /\ Wrote(r)' = Wrote(r)
    BY <1>1, <1>2, <1>4 DEF LegInv, Wrote
  <2>1. WroteLegs(r)'
    BY <2>0 DEF LegsOf, WroteLegs, WroteNothing, WroteOne, WroteBoth
  <2>2. InOrder(r)'
    BY <2>0, <1>3 DEF LegsOf, InOrder
  <2>3. Reached(r)'
    BY <2>0, <1>3 DEF LegsOf, Reached
  <2>4. QED
    BY <2>1, <2>2, <2>3 DEF LegsOf
<1>5. QED
  BY <1>4 DEF LegInv

(***************************************************************************)
(* A step that writes no entry and stays at its leg.                       *)
(***************************************************************************)
LEMMA QuietLegs ==
    ASSUME TypeInv, LegInv, NEW q \in Requests, NEW c, Move(q, c), NEW d,
           Dirties(q, d) \/ (dirty' = dirty /\ d = dirty[q]),
           d.entries = dirty[q].entries, d.change = dirty[q].change,
           entries' = entries, c.leg = call[q].leg, call[q].pc # "failed",
           Reached(q)'
    PROVE  LegInv'
<1>1. call'[q] = c /\ dirty'[q] = d
  BY MoveFrame, DirtyFrame
<1>2. Wrote(q)' = Wrote(q) /\ PostedKeys' = PostedKeys /\ dirty'[q].change = dirty[q].change
  BY <1>1 DEF Wrote, PostedKeys
<1>3. WroteLegs(q)'
  BY <1>2 DEF LegInv, LegsOf, WroteLegs, WroteNothing, WroteOne, WroteBoth
<1>4. InOrder(q)'
  BY <1>1, <1>2 DEF LegInv, LegsOf, InOrder
<1>5. LegsOf(q)'
  BY <1>3, <1>4 DEF LegsOf
<1>6. QED
  BY <1>5, OthersLegs

LEMMA FindWalletLegs ==
    ASSUME TypeInv, LegInv, NEW q \in Requests, FindWallet(q)
    PROVE  LegInv'
<1>0. /\ call[q].pc \in {"new", "find"} /\ UNCHANGED <<entries, dirty>>
  BY DEF FindWallet, Finding, tables
<1>1. CASE Move(q, [call[q] EXCEPT !.pc = "create"])
  <2> DEFINE c == [call[q] EXCEPT !.pc = "create"]
  <2>1. Move(q, c) /\ c.pc = "create" /\ c.leg = call[q].leg
    BY <1>1, AtLeg DEF Call
  <2> HIDE DEF c
  <2>2. call'[q] = c
    BY <2>1, MoveFrame
  <2>3. Reached(q)'
    BY <2>1, <2>2 DEF Reached
  <2>4. QED
    BY <1>0, <2>1, <2>3, QuietLegs
<1>2. CASE \E w \in Rows(Leg(q).currency) :
              Move(q, [call[q] EXCEPT !.pc = AfterFind(q), !.wallet = w, !.seen = Balance(q, w)])
  <2>1. PICK w \in Rows(Leg(q).currency) :
              Move(q, [call[q] EXCEPT !.pc = AfterFind(q), !.wallet = w, !.seen = Balance(q, w)])
    BY <1>2
  <2> DEFINE c == [call[q] EXCEPT !.pc = AfterFind(q), !.wallet = w, !.seen = Balance(q, w)]
  <2>2. Move(q, c) /\ c.pc = AfterFind(q) /\ c.leg = call[q].leg /\ c.wallet = w
    BY <2>1, AtLeg DEF Call
  <2> HIDE DEF c
  <2>3. call'[q] = c /\ Leg(q)' = Leg(q)
    BY <2>2, MoveFrame
  <2>4. w \in WalletIds /\ Cur[w] = Leg(q).currency
    BY DEF Rows, TypeInv, TypeOK
  <2>5. Leg(q).kind = "open" => Len(Plan[q]) # 2
    BY AtLeg, TransferPlan
  <2>6. Reached(q)'
    BY <2>2, <2>3, <2>4, <2>5 DEF Reached, AfterFind, Bookable
  <2>7. QED
    BY <1>0, <2>2, <2>6, QuietLegs
<1>3. QED
  BY <1>1, <1>2 DEF FindWallet

LEMMA FindForDebitLegs ==
    ASSUME TypeInv, LegInv, NEW q \in Requests, FindForDebit(q)
    PROVE  LegInv'
<1>1. PICK w \in Rows(Leg(q).currency) :
          /\ Move(q, [call[q] EXCEPT !.pc = "lookup", !.wallet = w, !.seen = Balance(q, w)])
          /\ Dirties(q, [dirty[q] EXCEPT !.held = @ \cup {w}])
  BY DEF FindForDebit
<1> DEFINE c == [call[q] EXCEPT !.pc = "lookup", !.wallet = w, !.seen = Balance(q, w)]
           d == [dirty[q] EXCEPT !.held = @ \cup {w}]
<1>2. /\ Move(q, c) /\ Dirties(q, d) /\ c.pc = "lookup" /\ c.leg = call[q].leg /\ c.wallet = w
      /\ d.entries = dirty[q].entries /\ d.change = dirty[q].change
  BY <1>1, AtLeg DEF Call, Dirty
<1> HIDE DEF c, d
<1>3. call'[q] = c /\ Leg(q)' = Leg(q)
  BY <1>2, MoveFrame
<1>4. /\ w \in WalletIds /\ Cur[w] = Leg(q).currency /\ Leg(q).kind = "debit"
      /\ call[q].pc \in {"new", "find"} /\ entries' = entries
  BY DEF Rows, TypeInv, TypeOK, FindForDebit, Locking, Finding, tables
<1>5. Reached(q)'
  BY <1>2, <1>3, <1>4 DEF Reached, Bookable
<1>6. QED
  BY <1>2, <1>4, <1>5, QuietLegs

LEMMA ReplayLegs ==
    ASSUME TypeInv, LegInv, NEW q \in Requests, Replay(q)
    PROVE  LegInv'
<1>1. PICK e \in Existing(q) :
          Move(q, [call[q] EXCEPT !.pc = "set", !.after = e.after, !.replay = TRUE])
  BY DEF Replay
<1> DEFINE c == [call[q] EXCEPT !.pc = "set", !.after = e.after, !.replay = TRUE]
<1>2. /\ Move(q, c) /\ c.pc = "set" /\ c.leg = call[q].leg /\ c.wallet = call[q].wallet
      /\ call[q].pc = "lookup" /\ UNCHANGED <<entries, dirty>>
  BY <1>1, AtLeg DEF Call, Replay, tables
<1> HIDE DEF c
<1>3. call'[q] = c /\ Leg(q)' = Leg(q)
  BY <1>2, MoveFrame
<1>4. Leg(q).key \in Wrote(q) \cup PostedKeys
  BY DEF Existing, Wrote, PostedKeys
<1>5. Wrote(q)' = Wrote(q) /\ PostedKeys' = PostedKeys
  BY <1>2 DEF Wrote, PostedKeys
<1>6. Reached(q)'
  BY <1>2, <1>3, <1>4, <1>5 DEF LegInv, LegsOf, Reached
<1>7. QED
  BY <1>2, <1>6, QuietLegs

LEMMA LookupLegs ==
    ASSUME TypeInv, LegInv, NEW q \in Requests, Lookup(q)
    PROVE  LegInv'
<1> DEFINE n == Ledger(q, call[q].wallet) + Change(q)
           c == [call[q] EXCEPT !.pc = "post", !.replay = FALSE, !.after = n]
<1>2. /\ Move(q, c) /\ c.pc = "post" /\ c.leg = call[q].leg /\ c.wallet = call[q].wallet
      /\ call[q].pc = "lookup" /\ UNCHANGED <<entries, dirty>>
  BY AtLeg DEF Call, Lookup, tables
<1> HIDE DEF c
<1>3. call'[q] = c /\ Leg(q)' = Leg(q)
  BY <1>2, MoveFrame
<1>4. Reached(q)'
  BY <1>2, <1>3 DEF LegInv, LegsOf, Reached
<1>5. QED
  BY <1>2, <1>4, QuietLegs

(***************************************************************************)
(* The entry of the leg at hand joins those of the legs before it.         *)
(***************************************************************************)
LEMMA PostLegs ==
    ASSUME TypeInv, KeyInv, LegInv, NEW q \in Requests, Post(q)
    PROVE  LegInv'
<1>0. PICK w, i : w = call[q].wallet /\ i = call[q].leg
  OBVIOUS
<1> DEFINE c == [call[q] EXCEPT !.pc = "record"]
<1>1. /\ Move(q, c) /\ c.pc = "record" /\ c.leg = i /\ c.wallet = w
      /\ call[q].pc = "post" /\ entries' = entries /\ Dirties(q, Booked(q))
  BY <1>0, AtLeg DEF Call, Post, tables
<1> HIDE DEF c
<1>2. call'[q] = c /\ Leg(q)' = Leg(q) /\ dirty'[q] = Booked(q)
  BY <1>0, <1>1, MoveFrame, DirtyFrame
<1>3. /\ i \in 1..Len(Plan[q]) /\ i \in 1..2 /\ Len(Plan[q]) \in 1..2 /\ Leg(q) = Plan[q][i]
  BY <1>0, AtLeg
<1>4. Wrote(q)' = Wrote(q) \cup {Leg(q).key}
  <2>1. PICK e : e.key = Leg(q).key /\ Booked(q).entries = dirty[q].entries \cup {e}
    BY BookedType
  <2>2. QED
    BY <1>2, <2>1 DEF Wrote
<1>5. dirty'[q].change = Plus(dirty[q].change, w, Books!Amount(Leg(q)))
  BY <1>0, <1>2, BookedType DEF Change, Books!Amount
<1>6. Bookable(Leg(q), w) /\ w \in WalletIds
  BY <1>0, <1>1 DEF LegInv, LegsOf, Reached, Bookable
<1>7. Leg(q).key \notin Wrote(q)
  BY <1>1 DEF KeyInv, PostNew, Wrote
<1>8. WroteLegs(q)'
  <2>1. CASE WroteNothing(q)
    <3>1. WroteOne(q, i, w)'
      BY <2>1, <1>3, <1>4, <1>5, <1>6 DEF WroteNothing, WroteOne
    <3>2. QED
      BY <3>1, <1>3, <1>6 DEF WroteLegs
  <2>2. ASSUME NEW j \in 1..2, NEW v \in WalletIds, WroteOne(q, j, v)
        PROVE  WroteLegs(q)'
    <3>1. j # i /\ Len(Plan[q]) = 2
      BY <2>2, <1>3, <1>7 DEF WroteOne
    <3>2. j = 1 /\ i = 2
      BY <2>2, <3>1, <1>0, <1>3 DEF LegInv, LegsOf, InOrder, WroteOne
    <3>3. WroteBoth(q, v, w)'
      BY <2>2, <3>1, <3>2, <1>3, <1>4, <1>5, <1>6 DEF WroteOne, WroteBoth
    <3>4. QED
      BY <3>3, <1>6 DEF WroteLegs
  <2>3. ASSUME NEW u \in WalletIds, NEW v \in WalletIds, WroteBoth(q, u, v)
        PROVE  WroteLegs(q)'
    BY <2>3, <1>3, <1>7 DEF WroteBoth
  <2>4. QED
    BY <2>1, <2>2, <2>3 DEF LegInv, LegsOf, WroteLegs
<1>9. InOrder(q)'
  <2>1. PostedKeys' = PostedKeys
    BY <1>1 DEF PostedKeys
  <2>2. i = 1 /\ Len(Plan[q]) = 2 => Plan[q][2].key # Leg(q).key
    BY <1>3, TransferPlan
  <2>3. QED
    BY <1>0, <1>1, <1>2, <1>4, <2>1, <2>2 DEF LegInv, LegsOf, InOrder
<1>10. Reached(q)'
  BY <1>1, <1>2, <1>4, <1>6 DEF Reached
<1>11. QED
  BY <1>1, <1>8, <1>9, <1>10, OthersLegs DEF LegsOf

LEMMA RecordLegs ==
    ASSUME TypeInv, LegInv, NEW q \in Requests, Record(q)
    PROVE  LegInv'
<1> DEFINE c == [call[q] EXCEPT !.pc = "set"]
           d == [dirty[q] EXCEPT !.keys = @ \cup {Leg(q).key}]
<1>1. /\ Move(q, c) /\ Dirties(q, d) /\ c.pc = "set" /\ c.leg = call[q].leg
      /\ c.wallet = call[q].wallet /\ call[q].pc = "record" /\ entries' = entries
      /\ d.entries = dirty[q].entries /\ d.change = dirty[q].change
  BY AtLeg DEF Call, Dirty, Record, tables
<1> HIDE DEF c, d
<1>2. call'[q] = c /\ Leg(q)' = Leg(q) /\ dirty'[q] = d
  BY <1>1, MoveFrame, DirtyFrame
<1>3. Wrote(q)' = Wrote(q) /\ PostedKeys' = PostedKeys
  BY <1>1, <1>2 DEF Wrote, PostedKeys
<1>4. Reached(q)'
  BY <1>1, <1>2, <1>3 DEF LegInv, LegsOf, Reached
<1>5. QED
  BY <1>1, <1>4, QuietLegs

LEMMA SetWalletLegs ==
    ASSUME TypeInv, LegInv, NEW q \in Requests, SetWallet(q)
    PROVE  LegInv'
<1> DEFINE n == IF AfterLeg(q) = "find" THEN 2 ELSE call[q].leg
           c == [call[q] EXCEPT !.pc = AfterLeg(q), !.leg = n]
<1>1. /\ Move(q, c) /\ c.pc = AfterLeg(q) /\ c.leg = n
      /\ call[q].pc = "set" /\ entries' = entries /\ Dirties(q, Shown(q))
  BY AtLeg DEF Call, SetWallet, tables
<1> HIDE DEF c
<1>2. call'[q] = c /\ dirty'[q] = Shown(q)
  BY <1>1, MoveFrame, DirtyFrame
<1>3. Shown(q).entries = dirty[q].entries /\ Shown(q).change = dirty[q].change
  BY ShownType
<1>4. Wrote(q)' = Wrote(q) /\ PostedKeys' = PostedKeys /\ dirty'[q].change = dirty[q].change
  BY <1>1, <1>2, <1>3 DEF Wrote, PostedKeys
<1>5. Leg(q) = Plan[q][call[q].leg] /\ Leg(q).key \in Wrote(q) \cup PostedKeys
  BY <1>1, AtLeg DEF LegInv, LegsOf, Reached
<1>6. WroteLegs(q)'
  BY <1>4 DEF LegInv, LegsOf, WroteLegs, WroteNothing, WroteOne, WroteBoth
<1>7. InOrder(q)'
  <2>1. call[q].leg \in 1..2 /\ Len(Plan[q]) \in 1..2
    BY AtLeg
  <2>2. CASE call[q].leg < Len(Plan[q])
    <3>1. call[q].leg = 1 /\ Len(Plan[q]) = 2
      <4>1. \A a, b \in 1..2 : a < b => a = 1 /\ b = 2
        OBVIOUS
      <4>2. QED
        BY <2>1, <2>2, <4>1
    <3>2. call'[q].leg = 2 /\ Plan[q][1].key \in Wrote(q) \cup PostedKeys
      BY <3>1, <1>1, <1>2, <1>5 DEF AfterLeg
    <3>3. QED
      BY <3>1, <3>2, <1>4 DEF InOrder
  <2>3. CASE ~(call[q].leg < Len(Plan[q]))
    BY <2>1, <2>3, <1>1, <1>2, <1>4 DEF LegInv, LegsOf, InOrder, AfterLeg
  <2>4. QED
    BY <2>2, <2>3
<1>8. Reached(q)'
  <2>1. call[q].leg \in 1..2 /\ call[q].leg <= Len(Plan[q]) /\ Len(Plan[q]) \in 1..2
    BY AtLeg
  <2>2. call'[q].pc \in {"find", "commit"}
    BY <1>1, <1>2 DEF AfterLeg
  <2>3. ASSUME call'[q].pc = "commit", Len(Plan[q]) = 2
        PROVE  call'[q].leg = 2 /\ Plan[q][2].key \in Wrote(q)' \cup PostedKeys'
    <3>1. ~(call[q].leg < Len(Plan[q]))
      BY <2>3, <1>1, <1>2 DEF AfterLeg
    <3>2. call[q].leg = 2
      BY <3>1, <2>1, <2>3
    <3>3. QED
      BY <3>1, <3>2, <1>1, <1>2, <1>4, <1>5 DEF AfterLeg
  <2>4. QED
    BY <2>2, <2>3 DEF Reached
<1>9. QED
  BY <1>1, <1>6, <1>7, <1>8, OthersLegs DEF LegsOf

(***************************************************************************)
(* A commit leaves nothing written, and all that was written posted.       *)
(***************************************************************************)
LEMMA PublishLegs ==
    ASSUME TypeInv, LegInv, NEW q \in Requests, NEW c, Move(q, c), Publish(q),
           c.leg = call[q].leg, call[q].pc # "failed",
           c.pc \notin {"post", "record", "set"},
           c.pc = "lookup" => Bookable(Leg(q), c.wallet),
           c.pc = "commit" => Len(Plan[q]) # 2
    PROVE  LegInv'
<1>1. call'[q] = c /\ Leg(q)' = Leg(q)
  BY MoveFrame
<1>2. /\ Dirties(q, Clean) /\ dirty'[q] = Clean /\ entries' = entries \cup dirty[q].entries
  BY DirtyFrame DEF Publish
<1>3. Wrote(q)' = {} /\ dirty'[q].change = Zero
  BY <1>2, CleanType DEF Wrote, Zero
<1>4. PostedKeys' = PostedKeys \cup Wrote(q)
  BY <1>2 DEF PostedKeys, Wrote
<1>5. WroteLegs(q)'
  BY <1>3 DEF WroteLegs, WroteNothing
<1>6. InOrder(q)'
  BY <1>1, <1>3, <1>4 DEF LegInv, LegsOf, InOrder
<1>7. Reached(q)'
  BY <1>1 DEF Reached
<1>8. entries \subseteq entries'
  BY <1>2
<1>9. QED
  BY <1>2, <1>5, <1>6, <1>7, <1>8, OthersLegs DEF LegsOf

LEMMA CreateLegs ==
    ASSUME TypeInv, LegInv, NEW q \in Requests, CreateWallet(q)
    PROVE  LegInv'
<1>1. PICK w \in WalletIds \ exists :
          /\ Cur[w] = Leg(q).currency
          /\ Move(q, [call[q] EXCEPT !.pc = AfterFind(q), !.wallet = w,
                                     !.seen = 0, !.created = TRUE])
  BY DEF CreateWallet
<1> DEFINE c == [call[q] EXCEPT !.pc = AfterFind(q), !.wallet = w, !.seen = 0, !.created = TRUE]
<1>2. /\ Move(q, c) /\ c.pc = AfterFind(q) /\ c.wallet = w /\ c.leg = call[q].leg
      /\ call[q].pc = "create" /\ Publish(q)
  BY <1>1, AtLeg DEF Call, CreateWallet
<1> HIDE DEF c
<1>3. Leg(q).kind = "open" => Len(Plan[q]) # 2
  BY AtLeg, TransferPlan
<1>4. /\ c.pc \notin {"post", "record", "set"}
      /\ c.pc = "lookup" => Bookable(Leg(q), c.wallet)
      /\ c.pc = "commit" => Len(Plan[q]) # 2
  BY <1>1, <1>2, <1>3 DEF AfterFind, Bookable
<1>5. QED
  BY <1>2, <1>4, PublishLegs

LEMMA CommitLegs ==
    ASSUME TypeInv, LegInv, NEW q \in Requests, Commit(q)
    PROVE  LegInv'
<1> DEFINE c == [call[q] EXCEPT !.pc = "done"]
<1>1. Move(q, c) /\ c.pc = "done" /\ c.leg = call[q].leg /\ call[q].pc = "commit" /\ Publish(q)
  BY AtLeg DEF Call, Commit
<1> HIDE DEF c
<1>2. QED
  BY <1>1, PublishLegs

LEMMA RollBackLegs ==
    ASSUME TypeInv, LegInv, NEW q \in Requests, RollBack(q)
    PROVE  LegInv'
<1> DEFINE c == [call[q] EXCEPT !.pc = "failed"]
<1>1. /\ Move(q, c) /\ c.pc = "failed" /\ c.leg = call[q].leg
      /\ Dirties(q, Clean) /\ entries' = entries
  BY AtLeg DEF Call, RollBack, tables
<1> HIDE DEF c
<1>2. call'[q] = c /\ dirty'[q] = Clean
  BY <1>1, MoveFrame, DirtyFrame
<1>3. Wrote(q)' = {} /\ dirty'[q].change = Zero
  BY <1>2, CleanType DEF Wrote, Zero
<1>4. LegsOf(q)'
  BY <1>1, <1>2, <1>3 DEF LegsOf, WroteLegs, WroteNothing, InOrder, Reached
<1>5. QED
  BY <1>1, <1>4, OthersLegs

LEMMA NextLegs == TypeInv /\ KeyInv /\ LegInv /\ [Next]_vars => LegInv'
<1> SUFFICES ASSUME TypeInv, KeyInv, LegInv, [Next]_vars PROVE LegInv'
  OBVIOUS
<1>1. CASE UNCHANGED vars
  BY <1>1 DEF vars, tables, LegInv, LegsOf, WroteLegs, WroteNothing, WroteOne, WroteBoth,
              InOrder, Reached, Wrote, PostedKeys, Leg
<1>2. ASSUME NEW q \in Requests, Step(q) \/ Abort(q)
      PROVE  LegInv'
  BY <1>2, StepCases, FindWalletLegs, CreateLegs, FindForDebitLegs, ReplayLegs, LookupLegs,
     PostLegs, RecordLegs, SetWalletLegs, CommitLegs, RollBackLegs
<1>3. QED
  BY <1>1, <1>2 DEF Next

LEMMA AlwaysLegs == Spec => [](TypeInv /\ KeyInv /\ LegInv)
  BY InitTypes, NextTypes, InitKeys, NextKeys, InitLegs, NextLegs, PTL DEF Spec

-----------------------------------------------------------------------------
(* The journal *)

LEMMA PlusType ==
    ASSUME NEW f \in [WalletIds -> Int], NEW w \in WalletIds, NEW a \in Int
    PROVE  /\ Plus(f, w, a) \in [WalletIds -> Int]
           /\ \A x \in WalletIds : Plus(f, w, a)[x] = IF x = w THEN f[x] + a ELSE f[x]
<1> DEFINE n == f[w] + a
<1>1. n \in Int
  OBVIOUS
<1> HIDE DEF n
<1>2. /\ [f EXCEPT ![w] = n] \in [WalletIds -> Int]
      /\ \A x \in WalletIds : [f EXCEPT ![w] = n][x] = IF x = w THEN n ELSE f[x]
  BY <1>1
<1>3. QED
  BY <1>2 DEF Plus, n

LEMMA ZeroType == Zero \in [WalletIds -> Int] /\ \A x \in WalletIds : Zero[x] = 0
  BY DEF Zero

LEMMA PlusOne ==
    ASSUME NEW f \in [WalletIds -> Int], NEW w \in WalletIds, NEW a \in Int
    PROVE  [x \in WalletIds |-> f[x] + Plus(Zero, w, a)[x]] = Plus(f, w, a)
<1> DEFINE g == [x \in WalletIds |-> f[x] + Plus(Zero, w, a)[x]]
<1>1. ASSUME NEW x \in WalletIds PROVE g[x] = Plus(f, w, a)[x]
  <2>1. Plus(Zero, w, a)[x] = IF x = w THEN a ELSE 0
    BY PlusType, ZeroType
  <2>2. Plus(f, w, a)[x] = IF x = w THEN f[x] + a ELSE f[x]
    BY PlusType
  <2>3. g[x] = f[x] + Plus(Zero, w, a)[x] /\ f[x] \in Int
    OBVIOUS
  <2> HIDE DEF g
  <2>4. QED
    BY <2>1, <2>2, <2>3
<1>2. Plus(f, w, a) \in [WalletIds -> Int] /\ DOMAIN g = WalletIds
  BY PlusType
<1> HIDE DEF g
<1>3. g = [x \in WalletIds |-> g[x]]
  BY DEF g
<1>4. g = Plus(f, w, a)
  BY <1>1, <1>2, <1>3
<1>5. QED
  BY <1>4 DEF g

LEMMA PlusTwo ==
    ASSUME NEW f \in [WalletIds -> Int], NEW v \in WalletIds, NEW w \in WalletIds,
           NEW a \in Int, NEW b \in Int
    PROVE  [x \in WalletIds |-> f[x] + Plus(Plus(Zero, v, a), w, b)[x]]
               = Plus(Plus(f, v, a), w, b)
<1>1. ASSUME NEW z \in [WalletIds -> Int], NEW h \in [WalletIds -> Int],
             \A x \in WalletIds : h[x] = f[x] + z[x]
      PROVE  [x \in WalletIds |-> f[x] + Plus(z, w, b)[x]] = Plus(h, w, b)
  <2>1. /\ Plus(z, w, b) \in [WalletIds -> Int]
        /\ \A x \in WalletIds : Plus(z, w, b)[x] = IF x = w THEN z[x] + b ELSE z[x]
    BY PlusType
  <2>4. /\ Plus(h, w, b) \in [WalletIds -> Int]
        /\ \A x \in WalletIds : Plus(h, w, b)[x] = IF x = w THEN h[x] + b ELSE h[x]
    BY PlusType
  <2>2. ASSUME NEW x \in WalletIds PROVE f[x] + Plus(z, w, b)[x] = Plus(h, w, b)[x]
    <3>1. f[x] \in Int /\ z[x] \in Int /\ h[x] = f[x] + z[x]
      BY <1>1
    <3>2. QED
      BY <2>1, <2>4, <3>1
  <2>3. QED
    BY <2>2, <2>4
<1>2. /\ Plus(Zero, v, a) \in [WalletIds -> Int] /\ Plus(f, v, a) \in [WalletIds -> Int]
      /\ \A x \in WalletIds : Plus(f, v, a)[x] = f[x] + Plus(Zero, v, a)[x]
  <2>1. /\ Plus(f, v, a) \in [WalletIds -> Int]
        /\ \A x \in WalletIds : Plus(f, v, a)[x] = IF x = v THEN f[x] + a ELSE f[x]
    BY PlusType
  <2>2. /\ Plus(Zero, v, a) \in [WalletIds -> Int]
        /\ \A x \in WalletIds :
               Plus(Zero, v, a)[x] = IF x = v THEN Zero[x] + a ELSE Zero[x]
    <3>1. Zero \in [WalletIds -> Int]
      BY ZeroType
    <3>2. QED
      BY <3>1, PlusType
  <2>3. QED
    BY <2>1, <2>2, ZeroType
<1>3. QED
  BY <1>1, <1>2

LEMMA BooksStep ==
    ASSUME TypeInv, KeyInv, LegInv, NEW q \in Requests, Publish(q),
           call[q].pc \notin {"record", "failed"}
    PROVE  Books!Next \/ UNCHANGED <<total, {e.key : e \in entries}>>
<1> DEFINE p == Plan[q]
<1>1. /\ total' = [w \in WalletIds |-> total[w] + dirty[q].change[w]]
      /\ entries' = entries \cup dirty[q].entries
      /\ total \in [WalletIds -> Int]
  BY DEF Publish, TypeInv, TypeOK
<1>2. PostedKeys' = PostedKeys \cup Wrote(q)
  BY <1>1 DEF PostedKeys, Wrote
<1>3. \A k \in Wrote(q) : k \notin PostedKeys
  BY DEF KeyInv, KeysUnused, KeysRecorded, Wrote, PostedKeys
<1>4. \A i \in 1..Len(p) : Books!Amount(p[i]) \in Int
  BY PlanShape DEF Legs, Books!Amount
<1>5. CASE WroteNothing(q)
  <2>1. total' = total
    BY <1>1, <1>5 DEF WroteNothing, Zero
  <2>2. PostedKeys' = PostedKeys
    BY <1>2, <1>5 DEF WroteNothing
  <2>3. QED
    BY <2>1, <2>2 DEF PostedKeys
<1>6. ASSUME NEW i \in 1..2, NEW w \in WalletIds, WroteOne(q, i, w)
      PROVE  Books!Next
  <2>1. i \in 1..Len(p) /\ Bookable(p[i], w) /\ Wrote(q) = {p[i].key}
    BY <1>6 DEF WroteOne
  <2>2. Books!Postable(p[i], w)
    BY <2>1, <1>3 DEF Bookable, Books!Postable, PostedKeys
  <2>3. \A k \in 1..(i - 1) : p[k].key \in PostedKeys
    <3>1. SUFFICES ASSUME i = 2 PROVE p[1].key \in PostedKeys
      OBVIOUS
    <3>2. Len(p) = 2
      BY <2>1, <3>1, AtLeg
    <3>3. call[q].leg = 2 /\ p[1].key # p[2].key
      BY <2>1, <3>1, <3>2, AtLeg, TransferPlan DEF LegInv, LegsOf, InOrder
    <3>4. QED
      BY <2>1, <3>1, <3>3 DEF LegInv, LegsOf, InOrder
  <2>4. total' = [total EXCEPT ![w] = @ + Books!Amount(p[i])]
    <3> DEFINE a == Books!Amount(p[i])
    <3>1. a \in Int
      BY <1>4, <2>1
    <3>2. dirty[q].change = Plus(Zero, w, a)
      BY <1>6 DEF WroteOne
    <3> HIDE DEF a
    <3>3. total' = Plus(total, w, a)
      BY <1>1, <3>1, <3>2, PlusOne
    <3>4. QED
      BY <3>3 DEF Plus, a
  <2>5. PostedKeys' = PostedKeys \cup {p[i].key}
    BY <1>2, <2>1
  <2>6. Books!PostLeg(p, i, w)
    BY <2>2, <2>3, <2>4, <2>5 DEF Books!PostLeg, PostedKeys
  <2>7. i \in DOMAIN p
    BY <2>1, ConstantsAssumption DEF Plans
  <2>8. QED
    BY <2>6, <2>7 DEF Books!Next
<1>7. ASSUME NEW v \in WalletIds, NEW w \in WalletIds, WroteBoth(q, v, w)
      PROVE  Books!Next
  <2>1. /\ Len(p) = 2 /\ Bookable(p[1], v) /\ Bookable(p[2], w)
        /\ Wrote(q) = {p[1].key, p[2].key}
    BY <1>7 DEF WroteBoth
  <2>2. Books!Postable(p[1], v) /\ Books!Postable(p[2], w)
    BY <2>1, <1>3 DEF Bookable, Books!Postable, PostedKeys
  <2>3. total' = Plus(Plus(total, v, Books!Amount(p[1])), w, Books!Amount(p[2]))
    <3> DEFINE a == Books!Amount(p[1])
               b == Books!Amount(p[2])
    <3>1. a \in Int /\ b \in Int
      BY <1>4, <2>1
    <3>2. dirty[q].change = Plus(Plus(Zero, v, a), w, b)
      BY <1>7 DEF WroteBoth
    <3> HIDE DEF a, b
    <3>3. total' = Plus(Plus(total, v, a), w, b)
      BY <1>1, <3>1, <3>2, PlusTwo
    <3>4. QED
      BY <3>3 DEF a, b
  <2>4. PostedKeys' = PostedKeys \cup {p[1].key, p[2].key}
    BY <1>2, <2>1
  <2>5. Books!PostBoth(p, v, w)
    BY <2>2, <2>3, <2>4 DEF Books!PostBoth, PostedKeys, Plus
  <2>6. QED
    BY <2>1, <2>5 DEF Books!Next
<1>8. QED
  BY <1>5, <1>6, <1>7 DEF LegInv, LegsOf, WroteLegs

LEMMA BooksNext ==
    TypeInv /\ KeyInv /\ LegInv /\ [Next]_vars
        => [Books!Next]_<<total, {e.key : e \in entries}>>
<1> SUFFICES ASSUME TypeInv, KeyInv, LegInv, [Next]_vars
             PROVE  Books!Next \/ UNCHANGED <<total, {e.key : e \in entries}>>
  OBVIOUS
<1>1. CASE UNCHANGED vars
  BY <1>1 DEF vars, tables
<1>2. ASSUME NEW q \in Requests, Step(q) \/ Abort(q)
      PROVE  Books!Next \/ UNCHANGED <<total, {e.key : e \in entries}>>
  <2>1. CASE CreateWallet(q)
    BY <2>1, BooksStep DEF CreateWallet
  <2>2. CASE Commit(q)
    BY <2>2, BooksStep DEF Commit
  <2>3. CASE UNCHANGED tables
    BY <2>3 DEF tables
  <2>4. \/ CreateWallet(q) \/ Commit(q) \/ UNCHANGED tables
    BY <1>2, StepCases DEF FindWallet, FindForDebit, Replay, Lookup, Post, Record,
                           SetWallet, RollBack
  <2>5. QED
    BY <2>1, <2>2, <2>3, <2>4
<1>3. QED
  BY <1>1, <1>2 DEF Next

(***************************************************************************)
(* The wallet service implements the journal: whatever requests interleave *)
(* and fail, every leg is booked at most once, for its amount, in a wallet *)
(* of its currency, and the credit of a transfer never without its debit.  *)
(***************************************************************************)
THEOREM JournalKept == Spec => ExactlyOnce
<1>1. Init => Books!Init
  BY DEF Init, Books!Init, Opened
<1>2. QED
  BY <1>1, AlwaysLegs, BooksNext, PTL DEF Spec, ExactlyOnce, Books!Spec

-----------------------------------------------------------------------------
(* Transfers *)

(***************************************************************************)
(* The key of a transfer's debit is derived from the key of the transfer:  *)
(* who presents it repeats the transfer.                                   *)
(***************************************************************************)
TransferKeysOwn ==
    \A q, r \in Requests : Len(Plan[q]) = 2 =>
        \A i \in 1..Len(Plan[r]) :
            Plan[r][i].kind # "open" /\ Plan[r][i].key = Plan[q][1].key
                => Plan[r] = Plan[q]

(***************************************************************************)
(* A commit of q.                                                          *)
(***************************************************************************)
LEMMA PublishWhole ==
    ASSUME TransferKeysOwn, TypeInv, LegInv, TransferWhole, NEW q \in Requests, Publish(q),
           \A r \in Requests : call[r].created => call'[r].created,
           call[q].pc = "commit" \/ call'[q].created
    PROVE  TransferWhole'
<1>1. PostedKeys' = PostedKeys \cup Wrote(q)
  BY DEF Publish, PostedKeys, Wrote
<1>2. \A k : (Posted(k) <=> k \in PostedKeys) /\ (Posted(k)' <=> k \in PostedKeys')
  BY DEF Posted, PostedKeys
<1> SUFFICES ASSUME NEW t \in Requests, Len(Plan[t]) = 2, Posted(Plan[t][1].key)'
             PROVE  \/ Posted(Plan[t][2].key)'
                    \/ \E r \in Requests : Plan[r] = Plan[t] /\ call'[r].created
  BY DEF TransferWhole
<1>3. CASE Posted(Plan[t][1].key)
  <2>1. \/ Posted(Plan[t][2].key)
        \/ \E r \in Requests : Plan[r] = Plan[t] /\ call[r].created
    BY <1>3 DEF TransferWhole
  <2>2. QED
    BY <2>1, <1>1, <1>2
<1>4. CASE Plan[t][1].key \in Wrote(q)
  <2>1. Plan[q] = Plan[t]
    <3>1. CASE WroteNothing(q)
      BY <3>1, <1>4 DEF WroteNothing
    <3>2. CASE \E i \in 1..2, w \in WalletIds : WroteOne(q, i, w)
      BY <3>2, <1>4 DEF WroteOne, Bookable, TransferKeysOwn
    <3>3. CASE \E v, w \in WalletIds : WroteBoth(q, v, w)
      BY <3>3, <1>4 DEF WroteBoth, Bookable, TransferKeysOwn
    <3>4. QED
      BY <3>1, <3>2, <3>3 DEF LegInv, LegsOf, WroteLegs
  <2>2. CASE call[q].pc = "commit"
    BY <2>1, <2>2, <1>1, <1>2 DEF LegInv, LegsOf, Reached
  <2>3. QED
    BY <2>1, <2>2
<1>5. QED
  BY <1>1, <1>2, <1>3, <1>4

LEMMA CreatedStays ==
    ASSUME TypeInv, NEW q \in Requests, Step(q) \/ Abort(q)
    PROVE  \A r \in Requests : call[r].created => call'[r].created
<1>1. ASSUME NEW c, Move(q, c), call[q].created => c.created
      PROVE  \A r \in Requests : call[r].created => call'[r].created
  BY <1>1, MoveFrame
<1>2. call[q] \in Call
  BY AtLeg
<1>3. CASE FindWallet(q)
  <2>1. CASE Move(q, [call[q] EXCEPT !.pc = "create"])
    <3>1. [call[q] EXCEPT !.pc = "create"].created = call[q].created
      BY <1>2 DEF Call
    <3>2. QED
      BY <1>1, <2>1, <3>1
  <2>2. CASE \E w \in Rows(Leg(q).currency) :
                Move(q, [call[q] EXCEPT !.pc = AfterFind(q), !.wallet = w, !.seen = Balance(q, w)])
    <3>1. PICK w \in Rows(Leg(q).currency) :
                Move(q, [call[q] EXCEPT !.pc = AfterFind(q), !.wallet = w, !.seen = Balance(q, w)])
      BY <2>2
    <3>2. [call[q] EXCEPT !.pc = AfterFind(q), !.wallet = w, !.seen = Balance(q, w)].created
              = call[q].created
      BY <1>2 DEF Call
    <3>3. QED
      BY <1>1, <3>1, <3>2
  <2>3. QED
    BY <1>3, <2>1, <2>2 DEF FindWallet
<1>4. CASE CreateWallet(q)
  <2>1. PICK w : Move(q, [call[q] EXCEPT !.pc = AfterFind(q), !.wallet = w,
                                         !.seen = 0, !.created = TRUE])
    BY <1>4 DEF CreateWallet
  <2>2. [call[q] EXCEPT !.pc = AfterFind(q), !.wallet = w, !.seen = 0, !.created = TRUE].created
    BY <1>2 DEF Call
  <2>3. QED
    BY <1>1, <2>1, <2>2
<1>5. CASE FindForDebit(q)
  <2>1. PICK w : Move(q, [call[q] EXCEPT !.pc = "lookup", !.wallet = w, !.seen = Balance(q, w)])
    BY <1>5 DEF FindForDebit
  <2>2. [call[q] EXCEPT !.pc = "lookup", !.wallet = w, !.seen = Balance(q, w)].created
            = call[q].created
    BY <1>2 DEF Call
  <2>3. QED
    BY <1>1, <2>1, <2>2
<1>6. CASE Replay(q)
  <2>1. PICK e : Move(q, [call[q] EXCEPT !.pc = "set", !.after = e.after, !.replay = TRUE])
    BY <1>6 DEF Replay
  <2>2. [call[q] EXCEPT !.pc = "set", !.after = e.after, !.replay = TRUE].created
            = call[q].created
    BY <1>2 DEF Call
  <2>3. QED
    BY <1>1, <2>1, <2>2
<1>7. CASE Lookup(q)
  <2> DEFINE n == Ledger(q, call[q].wallet) + Change(q)
             c == [call[q] EXCEPT !.pc = "post", !.replay = FALSE, !.after = n]
  <2>1. Move(q, c) /\ c.created = call[q].created
    BY <1>2, <1>7 DEF Lookup, Call
  <2> HIDE DEF c
  <2>2. QED
    BY <1>1, <2>1
<1>8. ASSUME NEW pc, NEW n, Move(q, [call[q] EXCEPT !.pc = pc, !.leg = n])
      PROVE  \A r \in Requests : call[r].created => call'[r].created
  <2>1. [call[q] EXCEPT !.pc = pc, !.leg = n].created = call[q].created
    BY <1>2 DEF Call
  <2>2. QED
    BY <1>1, <1>8, <2>1
<1>9. CASE SetWallet(q)
  BY <1>8, <1>9 DEF SetWallet
<1>10. ASSUME NEW pc, Move(q, [call[q] EXCEPT !.pc = pc])
       PROVE  \A r \in Requests : call[r].created => call'[r].created
  <2>1. [call[q] EXCEPT !.pc = pc].created = call[q].created
    BY <1>2 DEF Call
  <2>2. QED
    BY <1>1, <1>10, <2>1
<1>11. CASE Post(q) \/ Record(q) \/ Commit(q) \/ RollBack(q)
  BY <1>10, <1>11 DEF Post, Record, Commit, RollBack
<1>12. QED
  BY StepCases, <1>3, <1>4, <1>5, <1>6, <1>7, <1>9, <1>11

LEMMA NextWhole ==
    ASSUME TransferKeysOwn, TypeInv, LegInv, TransferWhole, [Next]_vars
    PROVE  TransferWhole'
<1>1. CASE UNCHANGED vars
  BY <1>1 DEF vars, tables, TransferWhole, Posted
<1>2. ASSUME NEW q \in Requests, Step(q) \/ Abort(q)
      PROVE  TransferWhole'
  <2>1. \A r \in Requests : call[r].created => call'[r].created
    BY <1>2, CreatedStays
  <2>2. CASE CreateWallet(q)
    <3>1. PICK w : Move(q, [call[q] EXCEPT !.pc = AfterFind(q), !.wallet = w,
                                           !.seen = 0, !.created = TRUE])
      BY <2>2 DEF CreateWallet
    <3> DEFINE c == [call[q] EXCEPT !.pc = AfterFind(q), !.wallet = w,
                                    !.seen = 0, !.created = TRUE]
    <3>4. Move(q, c) /\ c.created
      BY <3>1, AtLeg DEF Call
    <3> HIDE DEF c
    <3>2. call'[q].created
      BY <3>4, MoveFrame
    <3>3. QED
      BY <2>1, <2>2, <3>2, PublishWhole DEF CreateWallet
  <2>3. CASE Commit(q)
    BY <2>1, <2>3, PublishWhole DEF Commit
  <2>4. CASE UNCHANGED tables
    BY <2>1, <2>4 DEF tables, TransferWhole, Posted
  <2>5. \/ CreateWallet(q) \/ Commit(q) \/ UNCHANGED tables
    BY <1>2, StepCases DEF FindWallet, FindForDebit, Replay, Lookup, Post, Record,
                           SetWallet, RollBack
  <2>6. QED
    BY <2>2, <2>3, <2>4, <2>5
<1>3. QED
  BY <1>1, <1>2 DEF Next

(***************************************************************************)
(* A transfer posts both of its legs or neither, unless a repetition of it *)
(* had to create the wallet it transfers to.                               *)
(***************************************************************************)
THEOREM TransfersWhole ==
    ASSUME TransferKeysOwn
    PROVE  Spec => []TransferWhole
<1>1. Init => TransferWhole
  BY DEF Init, TransferWhole, Posted
<1>2. TypeInv /\ LegInv /\ TransferWhole /\ [Next]_vars => TransferWhole'
  BY NextWhole
<1>3. QED
  BY <1>1, <1>2, AlwaysLegs, PTL DEF Spec

-----------------------------------------------------------------------------
(***************************************************************************)
(* The proof that the balances of a wallet agree, for any wallets,         *)
(* requests and plans.                                                     *)
(*                                                                         *)
(* The argument.  Two things protect a wallet a transaction works on: the  *)
(* row of its ledger balance, locked from Post on (posted), and its own    *)
(* row, locked by a debit from the beginning and by every leg from         *)
(* SetWallet on (held).  Between requests both are disjoint, and what has  *)
(* been posted is held as well when the transaction commits; so a commit   *)
(* changes no balance that another request has read under its lock.  Under *)
(* that lock a debit computes the right balance, a credit may compute a    *)
(* wrong one, and then the wallet is recorded as slipped.                  *)
(***************************************************************************)

-----------------------------------------------------------------------------
(* The invariant *)

(***************************************************************************)
(* The leg has written the ledger balance of w, or found its entry, and    *)
(* has not yet written the wallet row.                                     *)
(***************************************************************************)
LegOpen(q, w) == call[q].pc \in {"record", "set"} /\ call[q].wallet = w

OwnLocks(q) ==
    /\ dirty[q].posted \subseteq exists
    /\ dirty[q].held \subseteq exists
    /\ dirty[q].written \subseteq dirty[q].held
    /\ \A w \in dirty[q].posted : w \in dirty[q].held \/ LegOpen(q, w)

(***************************************************************************)
(* The ledger balance that was written is the committed one and the change *)
(* of the transaction's entries.                                           *)
(***************************************************************************)
OwnSums(q) ==
    \A w \in WalletIds :
        /\ w \notin dirty[q].posted => dirty[q].change[w] = 0
        /\ w \in dirty[q].posted /\ w \notin dirty[q].slips =>
               dirty[q].ledger[w] = ledger[w] + dirty[q].change[w]

(***************************************************************************)
(* A held wallet row is, to its holder, equal to its ledger balance.       *)
(***************************************************************************)
OwnSettled(q) ==
    \A w \in dirty[q].held : w \notin dirty[q].slips /\ w \notin slipped =>
        LegOpen(q, w) \/ Balance(q, w) = Ledger(q, w)

(***************************************************************************)
(* What a debit has read stays true until it has written the wallet.       *)
(***************************************************************************)
Debiting(q) ==
    Leg(q).kind = "debit" =>
        /\ call[q].pc # "create"
        /\ call[q].pc \in {"lookup", "post", "record", "set"} =>
               /\ call[q].wallet \in dirty[q].held
               /\ call[q].seen = Balance(q, call[q].wallet)
        /\ call[q].pc = "post" =>
               call[q].after = Ledger(q, call[q].wallet) + Change(q)
        /\ call[q].pc \in {"record", "set"} /\ ~call[q].replay =>
               /\ call[q].wallet \in dirty[q].posted
               /\ Ledger(q, call[q].wallet) = call[q].after

Own(q) == OwnLocks(q) /\ OwnSums(q) /\ OwnSettled(q) /\ Debiting(q)

Apart(q, r) ==
    /\ dirty[q].posted \cap dirty[r].posted = {}
    /\ dirty[q].held \cap dirty[r].held = {}

AllApart == \A q, r \in Requests : q # r => Apart(q, r)

Untouched ==
    \A w \in WalletIds \ exists : balance[w] = 0 /\ ledger[w] = 0 /\ total[w] = 0

MoneyInv == AllApart /\ Untouched /\ BalancesAgree /\ \A q \in Requests : Own(q)

LEMMA CleanOwn ==
    ASSUME NEW q \in Requests, dirty[q] = Clean, call[q].pc = "new"
    PROVE  Own(q)
  BY CleanType DEF Own, OwnLocks, OwnSums, OwnSettled, Debiting

LEMMA InitMoney == Init => MoneyInv
<1> SUFFICES ASSUME Init PROVE MoneyInv
  OBVIOUS
<1>1. ASSUME NEW q \in Requests PROVE dirty[q] = Clean /\ call[q].pc = "new"
  BY DEF Init, NewCall
<1>2. \A q \in Requests : Own(q)
  BY <1>1, CleanOwn
<1>3. AllApart
  BY <1>1, CleanType DEF AllApart, Apart
<1>4. Untouched /\ BalancesAgree
  BY ConstantsAssumption DEF Init, Untouched, BalancesAgree, Opened
<1>5. QED
  BY <1>2, <1>3, <1>4 DEF MoneyInv

-----------------------------------------------------------------------------
(* The steps before the commit *)

(***************************************************************************)
(* A step of q that leaves the tables alone matters to q only.             *)
(***************************************************************************)
LEMMA PrivateMoney ==
    ASSUME TypeInv, MoneyInv, NEW q \in Requests, UNCHANGED tables,
           \A r \in Requests : r # q =>
               call'[r] = call[r] /\ Leg(r)' = Leg(r) /\ dirty'[r] = dirty[r],
           \A r \in Requests : r # q =>
               /\ dirty'[q].posted \cap dirty[r].posted = {}
               /\ dirty'[q].held \cap dirty[r].held = {},
           Own(q)'
    PROVE  MoneyInv'
<1>1. ASSUME NEW r \in Requests, r # q PROVE Own(r)'
  BY <1>1 DEF MoneyInv, Own, OwnLocks, OwnSums, OwnSettled, Debiting, LegOpen,
              Balance, Ledger, Change, tables
<1>2. AllApart'
  BY DEF MoneyInv, AllApart, Apart
<1>3. Untouched' /\ BalancesAgree'
  BY DEF MoneyInv, Untouched, BalancesAgree, tables
<1>4. QED
  BY <1>1, <1>2, <1>3 DEF MoneyInv

(***************************************************************************)
(* A step that writes nothing: what it has to keep of the invariant.       *)
(***************************************************************************)
LEMMA QuietMoney ==
    ASSUME TypeInv, MoneyInv, NEW q \in Requests, NEW c, Move(q, c),
           UNCHANGED <<tables, dirty>>,
           call[q].pc \notin {"record", "set"},
           Debiting(q)'
    PROVE  MoneyInv'
<1>1. /\ call'[q] = c
      /\ \A r \in Requests : r # q => call'[r] = call[r] /\ Leg(r)' = Leg(r)
  BY MoveFrame
<1>2. Own(q) /\ ~ \E w : LegOpen(q, w)
  BY DEF MoneyInv, LegOpen
<1>3. OwnLocks(q)'
  BY <1>2 DEF Own, OwnLocks, tables
<1>4. OwnSums(q)'
  BY <1>2 DEF Own, OwnSums, tables
<1>5. OwnSettled(q)'
  BY <1>2 DEF Own, OwnSettled, Balance, Ledger, tables
<1>6. Own(q)'
  BY <1>3, <1>4, <1>5 DEF Own
<1>7. \A r \in Requests : r # q =>
          /\ dirty'[q].posted \cap dirty[r].posted = {}
          /\ dirty'[q].held \cap dirty[r].held = {}
  BY DEF MoneyInv, AllApart, Apart
<1>8. QED
  BY <1>1, <1>6, <1>7, PrivateMoney

LEMMA FindWalletMoney ==
    ASSUME TypeInv, MoneyInv, NEW q \in Requests, FindWallet(q)
    PROVE  MoneyInv'
<1>1. PICK c : Move(q, c) /\ c.leg = call[q].leg
  <2>0. call[q] \in Call
    BY DEF TypeInv, TypeOK
  <2>1. CASE Move(q, [call[q] EXCEPT !.pc = "create"])
    <3> DEFINE c == [call[q] EXCEPT !.pc = "create"]
    <3>1. Move(q, c) /\ c.leg = call[q].leg
      BY <2>0, <2>1 DEF Call
    <3> HIDE DEF c
    <3>2. QED
      BY <3>1
  <2>2. CASE \E w \in Rows(Leg(q).currency) :
                Move(q, [call[q] EXCEPT !.pc = AfterFind(q), !.wallet = w, !.seen = Balance(q, w)])
    <3>1. PICK w \in Rows(Leg(q).currency) :
                Move(q, [call[q] EXCEPT !.pc = AfterFind(q), !.wallet = w, !.seen = Balance(q, w)])
      BY <2>2
    <3> DEFINE c == [call[q] EXCEPT !.pc = AfterFind(q), !.wallet = w, !.seen = Balance(q, w)]
    <3>2. Move(q, c) /\ c.leg = call[q].leg
      BY <2>0, <3>1 DEF Call
    <3> HIDE DEF c
    <3>3. QED
      BY <3>2
  <2>3. QED
    BY <2>1, <2>2 DEF FindWallet
<1>2. Leg(q)' = Leg(q) /\ Leg(q).kind # "debit"
  BY <1>1, MoveFrame DEF FindWallet
<1>3. Debiting(q)'
  BY <1>2 DEF Debiting
<1>4. call[q].pc \notin {"record", "set"} /\ UNCHANGED <<tables, dirty>>
  BY DEF FindWallet, Finding
<1>5. QED
  BY <1>1, <1>3, <1>4, QuietMoney

LEMMA ReplayMoney ==
    ASSUME TypeInv, MoneyInv, NEW q \in Requests, Replay(q)
    PROVE  MoneyInv'
<1>1. PICK e : Move(q, [call[q] EXCEPT !.pc = "set", !.after = e.after, !.replay = TRUE])
  BY DEF Replay
<1> DEFINE c == [call[q] EXCEPT !.pc = "set", !.after = e.after, !.replay = TRUE]
<1>2. /\ c.pc = "set" /\ c.replay = TRUE /\ c.wallet = call[q].wallet
      /\ c.seen = call[q].seen /\ c.leg = call[q].leg /\ call[q].pc = "lookup"
      /\ UNCHANGED <<tables, dirty>>
  BY DEF Replay, TypeInv, TypeOK, Call
<1>3. Move(q, c)
  BY <1>1
<1> HIDE DEF c
<1>4. call'[q] = c /\ Leg(q)' = Leg(q)
  BY <1>2, <1>3, MoveFrame
<1>5. Debiting(q)
  BY DEF MoneyInv, Own
<1>6. Debiting(q)'
  BY <1>2, <1>4, <1>5 DEF Debiting, Balance, tables
<1>7. QED
  BY <1>2, <1>3, <1>6, QuietMoney

LEMMA LookupMoney ==
    ASSUME TypeInv, MoneyInv, NEW q \in Requests, Lookup(q)
    PROVE  MoneyInv'
<1> DEFINE n == Ledger(q, call[q].wallet) + Change(q)
           c == [call[q] EXCEPT !.pc = "post", !.replay = FALSE, !.after = n]
<1>2. /\ c.pc = "post" /\ c.after = n /\ c.wallet = call[q].wallet
      /\ c.seen = call[q].seen /\ c.leg = call[q].leg /\ call[q].pc = "lookup"
      /\ UNCHANGED <<tables, dirty>> /\ Move(q, c)
  BY DEF Lookup, TypeInv, TypeOK, Call
<1> HIDE DEF c
<1>4. call'[q] = c /\ Leg(q)' = Leg(q)
  BY <1>2, MoveFrame
<1>5. Debiting(q)
  BY DEF MoneyInv, Own
<1>6. Debiting(q)'
  BY <1>2, <1>4, <1>5 DEF Debiting, Balance, Ledger, Change, tables
<1>7. QED
  BY <1>2, <1>6, QuietMoney

LEMMA FindForDebitMoney ==
    ASSUME TypeInv, MoneyInv, NEW q \in Requests, FindForDebit(q)
    PROVE  MoneyInv'
<1>1. PICK w \in Rows(Leg(q).currency) :
          /\ Move(q, [call[q] EXCEPT !.pc = "lookup", !.wallet = w, !.seen = Balance(q, w)])
          /\ Dirties(q, [dirty[q] EXCEPT !.held = @ \cup {w}])
  BY DEF FindForDebit
<1> DEFINE c == [call[q] EXCEPT !.pc = "lookup", !.wallet = w, !.seen = Balance(q, w)]
           d == [dirty[q] EXCEPT !.held = @ \cup {w}]
<1>2. /\ c.pc = "lookup" /\ c.wallet = w /\ c.seen = Balance(q, w) /\ c.leg = call[q].leg
      /\ call[q].pc \in {"new", "find"} /\ UNCHANGED tables
  BY DEF FindForDebit, Locking, Finding, TypeInv, TypeOK, Call
<1>3. /\ d.posted = dirty[q].posted /\ d.ledger = dirty[q].ledger
      /\ d.change = dirty[q].change /\ d.held = dirty[q].held \cup {w}
      /\ d.written = dirty[q].written /\ d.balance = dirty[q].balance
      /\ d.slips = dirty[q].slips
  BY DEF TypeInv, TypeOK, Dirty
<1>4. Move(q, c) /\ Dirties(q, d)
  BY <1>1
<1> HIDE DEF c, d
<1>5. /\ call'[q] = c /\ Leg(q)' = Leg(q) /\ dirty'[q] = d
      /\ \A r \in Requests : r # q =>
             call'[r] = call[r] /\ Leg(r)' = Leg(r) /\ dirty'[r] = dirty[r]
  BY <1>2, <1>4, MoveFrame, DirtyFrame
<1>6. w \in exists /\ w \in WalletIds
  BY DEF Rows, TypeInv, TypeOK
<1>7. Own(q) /\ ~ \E v : LegOpen(q, v)
  BY <1>2 DEF MoneyInv, LegOpen
<1>8. \A r \in Requests : r # q => w \notin dirty[r].held
  BY DEF FindForDebit, Free, Blockers
<1>9. OwnLocks(q)'
  BY <1>2, <1>3, <1>5, <1>6, <1>7 DEF Own, OwnLocks, tables
<1>10. OwnSums(q)'
  BY <1>2, <1>3, <1>5, <1>7 DEF Own, OwnSums, tables
<1>11. \A v \in WalletIds : Balance(q, v)' = Balance(q, v) /\ Ledger(q, v)' = Ledger(q, v)
  BY <1>2, <1>3, <1>5 DEF Balance, Ledger, tables
<1>12. w \notin dirty[q].held /\ w \notin slipped => Balance(q, w) = Ledger(q, w)
  <2>1. w \notin dirty[q].held => w \notin dirty[q].written /\ w \notin dirty[q].posted
    BY <1>7 DEF Own, OwnLocks
  <2>2. w \notin slipped => balance[w] = ledger[w]
    BY <1>6 DEF MoneyInv, BalancesAgree
  <2>3. QED
    BY <2>1, <2>2 DEF Balance, Ledger
<1>13. OwnSettled(q)'
  <2> SUFFICES ASSUME NEW v \in dirty'[q].held, v \notin dirty'[q].slips, v \notin slipped'
               PROVE  Balance(q, v)' = Ledger(q, v)'
    BY DEF OwnSettled
  <2>1. v \in WalletIds
    BY <1>3, <1>5, <1>6 DEF TypeInv, TypeOK, Dirty
  <2>2. Balance(q, v) = Ledger(q, v)
    BY <1>2, <1>3, <1>5, <1>7, <1>12 DEF Own, OwnSettled, tables
  <2>3. QED
    BY <2>1, <2>2, <1>11
<1>14. Debiting(q)'
  BY <1>2, <1>3, <1>5, <1>6, <1>11 DEF Debiting
<1>15. Own(q)'
  BY <1>9, <1>10, <1>13, <1>14 DEF Own
<1>16. \A r \in Requests : r # q =>
          /\ dirty'[q].posted \cap dirty[r].posted = {}
          /\ dirty'[q].held \cap dirty[r].held = {}
  BY <1>3, <1>5, <1>8 DEF MoneyInv, AllApart, Apart
<1>17. QED
  BY <1>2, <1>5, <1>15, <1>16, PrivateMoney

LEMMA PostMoney ==
    ASSUME TypeInv, MoneyInv, NEW q \in Requests, Post(q)
    PROVE  MoneyInv'
<1>0. PICK w \in WalletIds : w = call[q].wallet
  BY DEF Post, TypeInv, TypeOK, Located
<1> DEFINE c == [call[q] EXCEPT !.pc = "record"]
           n == call[q].after
<1>1. /\ c.pc = "record" /\ c.wallet = w /\ c.seen = call[q].seen /\ c.after = n
      /\ c.leg = call[q].leg /\ call[q].pc = "post" /\ UNCHANGED tables
      /\ w \in exists /\ w \in WalletIds /\ Move(q, c) /\ Dirties(q, Booked(q))
  BY <1>0 DEF Post, TypeInv, TypeOK, Call, Located
<1> HIDE DEF c
<1>2. /\ Booked(q).posted = dirty[q].posted \cup {w}
      /\ Booked(q).ledger = [dirty[q].ledger EXCEPT ![w] = n]
      /\ Booked(q).change = Plus(dirty[q].change, w, Change(q))
      /\ Booked(q).held = dirty[q].held
      /\ Booked(q).written = dirty[q].written
      /\ Booked(q).balance = dirty[q].balance
      /\ dirty[q].slips \subseteq Booked(q).slips
      /\ Leg(q).kind # "debit" /\ n # Ledger(q, w) + Change(q) => w \in Booked(q).slips
  BY <1>0, BookedType
<1>3. /\ dirty[q].ledger \in [WalletIds -> Nat] /\ dirty[q].change \in [WalletIds -> Int]
      /\ dirty[q].held \subseteq WalletIds
      /\ ledger \in [WalletIds -> Nat] /\ Change(q) \in Int /\ n \in Nat
  BY LegType DEF TypeInv, TypeOK, Dirty, Call
<1>4. /\ Booked(q).ledger[w] = n /\ Booked(q).change[w] = dirty[q].change[w] + Change(q)
      /\ \A v \in WalletIds : v # w =>
             /\ Booked(q).ledger[v] = dirty[q].ledger[v]
             /\ Booked(q).change[v] = dirty[q].change[v]
  BY <1>1, <1>2, <1>3 DEF Plus
<1>5. /\ call'[q] = c /\ Leg(q)' = Leg(q) /\ dirty'[q] = Booked(q)
      /\ \A r \in Requests : r # q =>
             call'[r] = call[r] /\ Leg(r)' = Leg(r) /\ dirty'[r] = dirty[r]
  BY <1>1, MoveFrame, DirtyFrame
<1>6. Own(q) /\ ~ \E v : LegOpen(q, v)
  BY <1>1 DEF MoneyInv, LegOpen
<1>7. \A r \in Requests : r # q => w \notin dirty[r].posted
  BY <1>0, <1>1 DEF Post, Free, Blockers
<1>8. LegOpen(q, w)'
  BY <1>1, <1>5 DEF LegOpen
<1>9. OwnLocks(q)'
  BY <1>1, <1>2, <1>5, <1>6, <1>8 DEF Own, OwnLocks, tables
<1>10. w \notin Booked(q).slips => n = Ledger(q, w) + Change(q)
  BY <1>0, <1>1, <1>2, <1>6 DEF Own, Debiting
<1>11. OwnSums(q)'
  <2> SUFFICES ASSUME NEW v \in WalletIds
               PROVE  /\ v \notin Booked(q).posted => Booked(q).change[v] = 0
                      /\ v \in Booked(q).posted /\ v \notin Booked(q).slips =>
                             Booked(q).ledger[v] = ledger[v] + Booked(q).change[v]
    BY <1>1, <1>5 DEF OwnSums, tables
  <2>1. CASE v # w
    BY <2>1, <1>2, <1>4, <1>6 DEF Own, OwnSums
  <2>2. CASE v = w
    <3>1. w \notin Booked(q).slips => Ledger(q, w) = ledger[w] + dirty[q].change[w]
      BY <1>1, <1>2, <1>3, <1>6 DEF Own, OwnSums, Ledger
    <3>2. QED
      BY <2>2, <3>1, <1>1, <1>2, <1>3, <1>4, <1>10
  <2>3. QED
    BY <2>1, <2>2
<1>12. \A v \in WalletIds : Balance(q, v)' = Balance(q, v)
                            /\ (v # w => Ledger(q, v)' = Ledger(q, v))
  BY <1>1, <1>2, <1>4, <1>5 DEF Balance, Ledger, tables
<1>13. OwnSettled(q)'
  <2> SUFFICES ASSUME NEW v \in dirty'[q].held, v \notin dirty'[q].slips, v \notin slipped',
                      v # w
               PROVE  Balance(q, v)' = Ledger(q, v)'
    BY <1>8 DEF OwnSettled
  <2>1. v \in WalletIds
    BY <1>2, <1>3, <1>5
  <2>2. Balance(q, v) = Ledger(q, v)
    BY <1>1, <1>2, <1>5, <1>6 DEF Own, OwnSettled, tables
  <2>3. QED
    BY <2>1, <2>2, <1>12
<1>14. Ledger(q, w)' = n
  BY <1>2, <1>4, <1>5 DEF Ledger
<1>15. Debiting(q)'
  BY <1>0, <1>1, <1>2, <1>5, <1>6, <1>12, <1>14 DEF Own, Debiting
<1>16. Own(q)'
  BY <1>9, <1>11, <1>13, <1>15 DEF Own
<1>17. \A r \in Requests : r # q =>
          /\ dirty'[q].posted \cap dirty[r].posted = {}
          /\ dirty'[q].held \cap dirty[r].held = {}
  BY <1>2, <1>5, <1>7 DEF MoneyInv, AllApart, Apart
<1>18. QED
  BY <1>1, <1>5, <1>16, <1>17, PrivateMoney

LEMMA RecordMoney ==
    ASSUME TypeInv, MoneyInv, NEW q \in Requests, Record(q)
    PROVE  MoneyInv'
<1> DEFINE c == [call[q] EXCEPT !.pc = "set"]
           d == [dirty[q] EXCEPT !.keys = @ \cup {Leg(q).key}]
<1>1. /\ c.pc = "set" /\ c.wallet = call[q].wallet /\ c.seen = call[q].seen
      /\ c.after = call[q].after /\ c.replay = call[q].replay
      /\ c.leg = call[q].leg /\ call[q].pc = "record" /\ UNCHANGED tables
      /\ call[q].wallet \in WalletIds /\ Move(q, c) /\ Dirties(q, d)
  BY DEF Record, TypeInv, TypeOK, Call, Located
<1>2. /\ d.posted = dirty[q].posted /\ d.ledger = dirty[q].ledger
      /\ d.change = dirty[q].change /\ d.held = dirty[q].held
      /\ d.written = dirty[q].written /\ d.balance = dirty[q].balance
      /\ d.slips = dirty[q].slips
  BY DEF TypeInv, TypeOK, Dirty
<1> HIDE DEF c, d
<1>3. /\ call'[q] = c /\ Leg(q)' = Leg(q) /\ dirty'[q] = d
      /\ \A r \in Requests : r # q =>
             call'[r] = call[r] /\ Leg(r)' = Leg(r) /\ dirty'[r] = dirty[r]
  BY <1>1, MoveFrame, DirtyFrame
<1>4. /\ \A v \in WalletIds : LegOpen(q, v)' <=> LegOpen(q, v)
      /\ \A v \in WalletIds : Balance(q, v)' = Balance(q, v) /\ Ledger(q, v)' = Ledger(q, v)
      /\ dirty[q].held \subseteq WalletIds /\ dirty[q].posted \subseteq WalletIds
  BY <1>1, <1>2, <1>3 DEF LegOpen, Balance, Ledger, tables, TypeInv, TypeOK, Dirty
<1>5. Own(q)
  BY DEF MoneyInv
<1>6. OwnLocks(q)'
  BY <1>1, <1>2, <1>3, <1>4, <1>5 DEF Own, OwnLocks, tables
<1>7. OwnSums(q)'
  BY <1>1, <1>2, <1>3, <1>5 DEF Own, OwnSums, tables
<1>8. OwnSettled(q)'
  BY <1>1, <1>2, <1>3, <1>4, <1>5 DEF Own, OwnSettled, tables
<1>9. Debiting(q)'
  BY <1>1, <1>2, <1>3, <1>4, <1>5 DEF Own, Debiting
<1>10. Own(q)'
  BY <1>6, <1>7, <1>8, <1>9 DEF Own
<1>11. \A r \in Requests : r # q =>
          /\ dirty'[q].posted \cap dirty[r].posted = {}
          /\ dirty'[q].held \cap dirty[r].held = {}
  BY <1>2, <1>3 DEF MoneyInv, AllApart, Apart
<1>12. QED
  BY <1>1, <1>3, <1>10, <1>11, PrivateMoney

(***************************************************************************)
(* The wallet row gets the ledger balance, or the wallet has slipped: a    *)
(* debit that is not replayed writes what it has posted.                   *)
(***************************************************************************)
LEMMA SetWalletMoney ==
    ASSUME TypeInv, MoneyInv, NEW q \in Requests, SetWallet(q)
    PROVE  MoneyInv'
<1>0. PICK w \in WalletIds : w = call[q].wallet
  BY DEF SetWallet, TypeInv, TypeOK, Located
<1> DEFINE n == IF AfterLeg(q) = "find" THEN 2 ELSE call[q].leg
           c == [call[q] EXCEPT !.pc = AfterLeg(q), !.leg = n]
<1>1. /\ c.pc \in {"find", "commit"} /\ call[q].pc = "set" /\ UNCHANGED tables
      /\ w \in exists /\ w \in WalletIds /\ Move(q, c) /\ Dirties(q, Shown(q))
  BY <1>0 DEF SetWallet, AfterLeg, TypeInv, TypeOK, Call, Located
<1> HIDE DEF c
<1>2. /\ Shown(q).posted = dirty[q].posted /\ Shown(q).ledger = dirty[q].ledger
      /\ Shown(q).change = dirty[q].change
      /\ Shown(q).held = dirty[q].held \cup {w}
      /\ Shown(q).written = dirty[q].written \cup {w}
      /\ Shown(q).balance = [dirty[q].balance EXCEPT ![w] = Result(q)]
      /\ dirty[q].slips \subseteq Shown(q).slips
      /\ Slips(q) => w \in Shown(q).slips
  BY <1>0, ShownType
<1>3. /\ dirty[q].balance \in [WalletIds -> Nat] /\ dirty[q].held \subseteq WalletIds
  BY DEF TypeInv, TypeOK, Dirty
<1>4. /\ call'[q] = c /\ dirty'[q] = Shown(q)
      /\ \A r \in Requests : r # q =>
             call'[r] = call[r] /\ Leg(r)' = Leg(r) /\ dirty'[r] = dirty[r]
  BY <1>1, MoveFrame, DirtyFrame
<1>5. Own(q)
  BY DEF MoneyInv
<1>6. \A v : LegOpen(q, v) => v = w
  BY <1>0 DEF LegOpen
<1>7. \A r \in Requests : r # q => w \notin dirty[r].held
  BY <1>0, <1>1 DEF SetWallet, Free, Blockers
<1>8. OwnLocks(q)'
  BY <1>1, <1>2, <1>4, <1>5, <1>6 DEF Own, OwnLocks, tables
<1>9. OwnSums(q)'
  BY <1>1, <1>2, <1>4, <1>5 DEF Own, OwnSums, tables
<1>10. \A v \in WalletIds : Ledger(q, v)' = Ledger(q, v)
                            /\ (v # w => Balance(q, v)' = Balance(q, v))
  BY <1>1, <1>2, <1>3, <1>4 DEF Balance, Ledger, tables
<1>11. Balance(q, w)' = Result(q)
  BY <1>1, <1>2, <1>3, <1>4 DEF Balance
<1>12. w \notin Shown(q).slips => Result(q) = Ledger(q, w)
  <2>1. CASE Leg(q).kind # "debit" \/ call[q].replay
    BY <2>1, <1>0, <1>2 DEF Slips
  <2>2. CASE Leg(q).kind = "debit" /\ ~call[q].replay
    BY <2>2, <1>0, <1>1, <1>5 DEF Own, Debiting, Result
  <2>3. QED
    BY <2>1, <2>2
<1>13. OwnSettled(q)'
  <2> SUFFICES ASSUME NEW v \in dirty'[q].held, v \notin dirty'[q].slips, v \notin slipped'
               PROVE  Balance(q, v)' = Ledger(q, v)'
    BY DEF OwnSettled
  <2>1. v \in WalletIds
    BY <1>1, <1>2, <1>3, <1>4
  <2>2. CASE v = w
    BY <2>2, <1>1, <1>4, <1>10, <1>11, <1>12
  <2>3. CASE v # w
    <3>1. Balance(q, v) = Ledger(q, v)
      BY <2>3, <1>1, <1>2, <1>4, <1>5, <1>6 DEF Own, OwnSettled, tables
    <3>2. QED
      BY <2>1, <2>3, <3>1, <1>10
  <2>4. QED
    BY <2>2, <2>3
<1>14. Debiting(q)'
  BY <1>1, <1>4 DEF Debiting
<1>15. Own(q)'
  BY <1>8, <1>9, <1>13, <1>14 DEF Own
<1>16. \A r \in Requests : r # q =>
          /\ dirty'[q].posted \cap dirty[r].posted = {}
          /\ dirty'[q].held \cap dirty[r].held = {}
  BY <1>2, <1>4, <1>7 DEF MoneyInv, AllApart, Apart
<1>17. QED
  BY <1>1, <1>4, <1>15, <1>16, PrivateMoney

LEMMA RollBackMoney ==
    ASSUME TypeInv, MoneyInv, NEW q \in Requests, RollBack(q)
    PROVE  MoneyInv'
<1>1. /\ call'[q] = [call[q] EXCEPT !.pc = "failed"] /\ dirty'[q] = Clean
      /\ \A r \in Requests : r # q =>
             call'[r] = call[r] /\ Leg(r)' = Leg(r) /\ dirty'[r] = dirty[r]
      /\ UNCHANGED tables
  BY MoveFrame, DirtyFrame DEF RollBack
<1>2. call'[q].pc = "failed"
  BY <1>1 DEF TypeInv, TypeOK, Call
<1>3. Own(q)'
  BY <1>1, <1>2, CleanType DEF Own, OwnLocks, OwnSums, OwnSettled, Debiting
<1>4. QED
  BY <1>1, <1>3, CleanType, PrivateMoney

-----------------------------------------------------------------------------
(* The commit *)

(***************************************************************************)
(* A transaction that ends, with no leg open, publishes balances that      *)
(* agree, and none that another request relies on.                         *)
(***************************************************************************)
LEMMA PublishMoney ==
    ASSUME TypeInv, MoneyInv, NEW q \in Requests, NEW c, Move(q, c), Publish(q),
           call[q].pc \notin {"record", "set"},
           exists \subseteq exists', exists' \subseteq WalletIds,
           Debiting(q)'
    PROVE  MoneyInv'
<1>1. /\ call'[q] = c
      /\ \A r \in Requests : r # q => call'[r] = call[r] /\ Leg(r)' = Leg(r)
  BY MoveFrame
<1>2. /\ dirty'[q] = Clean
      /\ \A r \in Requests : r # q => dirty'[r] = dirty[r]
  BY DirtyFrame DEF Publish
<1>3. /\ Own(q) /\ ~ \E v : LegOpen(q, v)
  BY DEF MoneyInv, LegOpen
<1>4. /\ dirty[q].posted \subseteq dirty[q].held /\ dirty[q].written \subseteq dirty[q].held
      /\ dirty[q].held \subseteq exists /\ exists \subseteq WalletIds
  BY <1>3 DEF Own, OwnLocks, TypeInv, TypeOK
<1>5. /\ \A v \in WalletIds : /\ balance'[v] = Balance(q, v)
                              /\ ledger'[v] = Ledger(q, v)
                              /\ total'[v] = total[v] + dirty[q].change[v]
      /\ slipped' = slipped \cup dirty[q].slips
  BY DEF Publish
<1>6. /\ \A v \in WalletIds : v \notin dirty[q].posted => dirty[q].change[v] = 0
      /\ \A v \in WalletIds : total[v] \in Int /\ ledger[v] \in Nat /\ dirty[q].change[v] \in Int
  BY <1>3 DEF Own, OwnSums, TypeInv, TypeOK, Dirty
<1>7. \A v \in WalletIds : v \notin dirty[q].held =>
          balance'[v] = balance[v] /\ ledger'[v] = ledger[v] /\ total'[v] = total[v]
  BY <1>4, <1>5, <1>6 DEF Balance, Ledger
<1>8. Untouched'
  BY <1>4, <1>7 DEF MoneyInv, Untouched
<1>9. BalancesAgree'
  <2> SUFFICES ASSUME NEW v \in exists', v \notin slipped'
               PROVE  balance'[v] = ledger'[v] /\ ledger'[v] = total'[v]
    BY DEF BalancesAgree
  <2>1. v \in WalletIds /\ v \notin slipped /\ v \notin dirty[q].slips
    BY <1>5
  <2>2. balance[v] = ledger[v] /\ ledger[v] = total[v]
    BY <2>1 DEF MoneyInv, Untouched, BalancesAgree
  <2>3. CASE v \notin dirty[q].held
    BY <2>1, <2>2, <2>3, <1>7
  <2>4. CASE v \in dirty[q].held
    <3>1. Balance(q, v) = Ledger(q, v)
      BY <2>1, <2>4, <1>3 DEF Own, OwnSettled
    <3>2. Ledger(q, v) = ledger[v] + dirty[q].change[v]
      BY <2>1, <1>3, <1>6 DEF Own, OwnSums, Ledger
    <3>3. QED
      BY <2>1, <2>2, <3>1, <3>2, <1>5
  <2>5. QED
    BY <2>3, <2>4
<1>10. AllApart'
  BY <1>2, CleanType DEF MoneyInv, AllApart, Apart
<1>11. Own(q)'
  BY <1>2, CleanType DEF Own, OwnLocks, OwnSums, OwnSettled, Debiting
<1>12. ASSUME NEW r \in Requests, r # q
       PROVE  Own(r)'
  <2>1. Own(r) /\ dirty'[r] = dirty[r] /\ call'[r] = call[r] /\ Leg(r)' = Leg(r)
    BY <1>1, <1>2, <1>12 DEF MoneyInv
  <2>2. /\ dirty[q].posted \cap dirty[r].posted = {} /\ dirty[q].held \cap dirty[r].held = {}
        /\ dirty[r].held \subseteq exists /\ dirty[r].posted \subseteq exists
        /\ dirty[r].written \subseteq dirty[r].held
    BY <2>1, <1>12 DEF MoneyInv, AllApart, Apart, Own, OwnLocks
  <2>3. OwnLocks(r)'
    BY <2>1 DEF Own, OwnLocks, LegOpen
  <2>4. \A v \in dirty[r].posted : ledger'[v] = ledger[v]
    BY <2>2, <1>4, <1>5 DEF Ledger
  <2>5. OwnSums(r)'
    BY <2>1, <2>4 DEF Own, OwnSums
  <2>6. \A v \in dirty[r].held : Balance(r, v)' = Balance(r, v) /\ Ledger(r, v)' = Ledger(r, v)
    BY <2>1, <2>2, <1>4, <1>7 DEF Balance, Ledger
  <2>7. OwnSettled(r)'
    BY <2>1, <2>6, <1>5 DEF Own, OwnSettled, LegOpen
  <2>8. Debiting(r)'
    BY <2>1, <2>6 DEF Own, Debiting, Change
  <2>9. QED
    BY <2>3, <2>5, <2>7, <2>8 DEF Own
<1>13. QED
  BY <1>8, <1>9, <1>10, <1>11, <1>12 DEF MoneyInv

LEMMA CreateMoney ==
    ASSUME TypeInv, MoneyInv, NEW q \in Requests, CreateWallet(q)
    PROVE  MoneyInv'
<1>1. PICK w \in WalletIds \ exists :
          /\ exists' = exists \cup {w}
          /\ Move(q, [call[q] EXCEPT !.pc = AfterFind(q), !.wallet = w,
                                     !.seen = 0, !.created = TRUE])
  BY DEF CreateWallet
<1> DEFINE c == [call[q] EXCEPT !.pc = AfterFind(q), !.wallet = w,
                                !.seen = 0, !.created = TRUE]
<1>2. c.leg = call[q].leg /\ call[q].pc = "create" /\ Publish(q)
  BY DEF CreateWallet, TypeInv, TypeOK, Call
<1>3. Move(q, c)
  BY <1>1
<1> HIDE DEF c
<1>4. Leg(q)' = Leg(q)
  BY <1>2, <1>3, MoveFrame
<1>5. Leg(q).kind # "debit"
  BY <1>2 DEF MoneyInv, Own, Debiting
<1>6. Debiting(q)'
  BY <1>4, <1>5 DEF Debiting
<1>7. exists \subseteq exists' /\ exists' \subseteq WalletIds
  BY <1>1 DEF TypeInv, TypeOK
<1>8. QED
  BY <1>2, <1>3, <1>6, <1>7, PublishMoney

LEMMA CommitMoney ==
    ASSUME TypeInv, MoneyInv, NEW q \in Requests, Commit(q)
    PROVE  MoneyInv'
<1> DEFINE c == [call[q] EXCEPT !.pc = "done"]
<1>1. c.pc = "done" /\ Move(q, c) /\ call[q].pc = "commit" /\ exists' = exists
  BY DEF Commit, TypeInv, TypeOK, Call
<1> HIDE DEF c
<1>2. call'[q] = c
  BY <1>1, MoveFrame
<1>3. Debiting(q)'
  BY <1>1, <1>2 DEF Debiting
<1>4. QED
  BY <1>1, <1>3, PublishMoney DEF Commit, TypeInv, TypeOK

LEMMA NextMoney == TypeInv /\ MoneyInv /\ [Next]_vars => MoneyInv'
<1> SUFFICES ASSUME TypeInv, MoneyInv, [Next]_vars PROVE MoneyInv'
  OBVIOUS
<1>1. CASE UNCHANGED vars
  BY <1>1 DEF vars, tables, MoneyInv, AllApart, Apart, Untouched, BalancesAgree, Own,
              OwnLocks, OwnSums, OwnSettled, Debiting, LegOpen, Balance, Ledger, Change, Leg
<1>2. ASSUME NEW q \in Requests, Step(q) \/ Abort(q)
      PROVE  MoneyInv'
  BY <1>2, StepCases, FindWalletMoney, CreateMoney, FindForDebitMoney, ReplayMoney,
     LookupMoney, PostMoney, RecordMoney, SetWalletMoney, CommitMoney, RollBackMoney
<1>3. QED
  BY <1>1, <1>2 DEF Next

(***************************************************************************)
(* The wallet row, the ledger balance and the sum of the entries of a      *)
(* wallet are equal, whatever requests interleave, fail or repeat, unless  *)
(* a credit computed from a stale balance or a replay was committed to it: *)
(* debits and transfers lose no update and spend nothing twice.            *)
(***************************************************************************)
THEOREM BalancesStayEqual == Spec => []BalancesAgree
<1>1. MoneyInv => BalancesAgree
  BY DEF MoneyInv
<1>2. QED
  BY <1>1, InitMoney, NextMoney, AlwaysTyped, PTL DEF Spec
=============================================================================
