------------------------------- MODULE Wallet -------------------------------
(***************************************************************************)
(* Wallets and the ledger behind them                                      *)
(* (swx_core/services/billing/wallet_service.py over ledger_service.py).   *)
(*                                                                         *)
(* A wallet is a row of swx_wallet; its id is also the account of the      *)
(* append-only ledger.  The balance of a wallet is stored three times: in  *)
(* the wallet row, in the row of swx_ledger_balance, and as the sum of the *)
(* ledger entries, which reconcile computes.                               *)
(*                                                                         *)
(* A request is one call of get_or_create_wallet, credit_wallet,           *)
(* debit_wallet or transfer: a plan of one or two legs that run in one     *)
(* database transaction, each                                              *)
(*      find the wallet, look the key up and read the balance,             *)
(*      write the entry and the ledger balance, record the key,            *)
(*      write the wallet.                                                  *)
(* Each of these is a step.  The database runs READ COMMITTED: a read sees *)
(* what is committed and the reader's own writes, a write locks its row    *)
(* until the transaction ends, a second insertion of a unique key waits    *)
(* for the first.  What a transaction wrote and did not commit is dirty.   *)
(*                                                                         *)
(* Every wallet request has an idempotency key, and its record is inserted *)
(* in the transaction of its entry: the entry stands for both.             *)
(***************************************************************************)
EXTENDS Integers, Sequences, FiniteSets

CONSTANTS
    Currencies,
    WalletIds,      \* the ids rows of swx_wallet may get, for one account
    NoWallet,       \* no wallet found yet
    Cur,            \* Cur[w]: the currency of the row with id w
    Opening,        \* Opening[w]: balance of the wallets that exist at the start
    Keys,           \* idempotency keys
    Requests,       \* the calls of the service
    Plan            \* Plan[q]: the legs of the call

Legs == [kind: {"open", "credit", "debit"}, currency: Currencies, amount: Nat \ {0}, key: Keys]

(***************************************************************************)
(* get_or_create_wallet (which uses no amount and no key), credit_wallet,  *)
(* debit_wallet, and transfer with its two derived keys.                   *)
(***************************************************************************)
Plans == {p \in Seq(Legs) :
             \/ Len(p) = 1
             \/ /\ Len(p) = 2
                /\ p[1].kind = "debit"
                /\ p[2].kind = "credit"
                /\ p[1].key # p[2].key}

ASSUME ConstantsAssumption ==
    /\ NoWallet \notin WalletIds
    /\ Cur \in [WalletIds -> Currencies]
    /\ DOMAIN Opening \subseteq WalletIds
    /\ \A w \in DOMAIN Opening : Opening[w] \in Nat
    /\ \A q \in Requests : Plan[q] \in Plans

VARIABLES
    exists,     \* the ids of the committed rows of swx_wallet
    balance,    \* balance[w]: the column balance of that row
    ledger,     \* ledger[w]: the row of swx_ledger_balance, 0 when there is none
    total,      \* total[w]: the sum of the committed entries of w
    entries,    \* the committed entries made by the requests
    call,       \* call[q]: where the request is, and what it has read
    dirty,      \* dirty[q]: what its transaction wrote and locked
    slipped     \* history: wallets a stale credit or a replay has committed to

tables == <<exists, balance, ledger, total, entries, slipped>>
vars == <<tables, call, dirty>>

-----------------------------------------------------------------------------

Entry == [by: Requests, key: Keys, wallet: WalletIds, after: Nat]

PC == {"new", "find", "create", "lookup", "post", "record", "set", "commit",
       "done", "failed"}

Call == [pc: PC, leg: 1..2, wallet: WalletIds \cup {NoWallet}, seen: Nat,
         after: Nat, replay: BOOLEAN, created: BOOLEAN]

Dirty == [entries: SUBSET Entry, keys: SUBSET Keys,
          posted: SUBSET WalletIds, ledger: [WalletIds -> Nat],
          change: [WalletIds -> Int],
          held: SUBSET WalletIds, written: SUBSET WalletIds,
          balance: [WalletIds -> Nat], slips: SUBSET WalletIds]

Zero == [w \in WalletIds |-> 0]

Clean == [entries |-> {}, keys |-> {}, posted |-> {}, ledger |-> Zero,
          change |-> Zero, held |-> {}, written |-> {}, balance |-> Zero,
          slips |-> {}]

NewCall == [pc |-> "new", leg |-> 1, wallet |-> NoWallet, seen |-> 0,
            after |-> 0, replay |-> FALSE, created |-> FALSE]

(***************************************************************************)
(* No balance is ever negative, in any of the tables.                      *)
(***************************************************************************)
TypeOK ==
    /\ exists \subseteq WalletIds
    /\ balance \in [WalletIds -> Nat]
    /\ ledger \in [WalletIds -> Nat]
    /\ total \in [WalletIds -> Int]
    /\ entries \subseteq Entry
    /\ call \in [Requests -> Call]
    /\ dirty \in [Requests -> Dirty]
    /\ slipped \subseteq WalletIds

Opened == [w \in WalletIds |-> IF w \in DOMAIN Opening THEN Opening[w] ELSE 0]

Init ==
    /\ exists = DOMAIN Opening
    /\ balance = Opened
    /\ ledger = Opened
    /\ total = Opened
    /\ entries = {}
    /\ call = [q \in Requests |-> NewCall]
    /\ dirty = [q \in Requests |-> Clean]
    /\ slipped = {}

-----------------------------------------------------------------------------
(* What a transaction sees, and what it waits for *)

Leg(q) == Plan[q][call[q].leg]

Rows(c) == {w \in exists : Cur[w] = c}

Balance(q, w) == IF w \in dirty[q].written THEN dirty[q].balance[w] ELSE balance[w]

Ledger(q, w) == IF w \in dirty[q].posted THEN dirty[q].ledger[w] ELSE ledger[w]

Existing(q) == {e \in entries \cup dirty[q].entries : e.key = Leg(q).key}

Finding(q) == call[q].pc \in {"new", "find"}

Locking(q) == Finding(q) /\ Leg(q).kind = "debit"

Blockers(q) ==
    {r \in Requests \ {q} :
        \/ Locking(q) /\ Rows(Leg(q).currency) \cap dirty[r].held # {}
        \/ call[q].pc = "post" /\ call[q].wallet \in dirty[r].posted
        \/ call[q].pc = "record" /\ Leg(q).key \in dirty[r].keys
        \/ call[q].pc = "set" /\ call[q].wallet \in dirty[r].held}

Free(q) == Blockers(q) = {}

(***************************************************************************)
(* Requests that wait for each other in a cycle.                           *)
(***************************************************************************)
Deadlocked(q) ==
    \E D \in SUBSET Requests :
        /\ q \in D
        /\ \A r \in D : Blockers(r) \cap D # {} /\ \E s \in D : r \in Blockers(s)

Move(q, c) == call' = [call EXCEPT ![q] = c]

Dirties(q, d) == dirty' = [dirty EXCEPT ![q] = d]

(***************************************************************************)
(* The commit: all that the transaction wrote becomes visible at once.     *)
(***************************************************************************)
Publish(q) ==
    /\ balance' = [w \in WalletIds |-> Balance(q, w)]
    /\ ledger' = [w \in WalletIds |-> Ledger(q, w)]
    /\ total' = [w \in WalletIds |-> total[w] + dirty[q].change[w]]
    /\ entries' = entries \cup dirty[q].entries
    /\ slipped' = slipped \cup dirty[q].slips
    /\ Dirties(q, Clean)

-----------------------------------------------------------------------------
(* The legs *)

AfterFind(q) == IF Leg(q).kind = "open" THEN "commit" ELSE "lookup"

(* Mutant: the session is committed when the wallet is found, too. *)
FindWallet_Commits(q) ==
    /\ Finding(q)
    /\ Leg(q).kind # "debit"
    /\ \/ /\ Rows(Leg(q).currency) = {}
          /\ Move(q, [call[q] EXCEPT !.pc = "create"])
       \/ \E w \in Rows(Leg(q).currency) :
              Move(q, [call[q] EXCEPT !.pc = AfterFind(q), !.wallet = w,
                                      !.seen = Balance(q, w)])
    /\ Publish(q)
    /\ UNCHANGED exists

(***************************************************************************)
(* _wallet_entity: a SELECT that locks nothing.                            *)
(***************************************************************************)
FindWallet(q) ==
    LET rows == Rows(Leg(q).currency) IN
    /\ Finding(q)
    /\ Leg(q).kind # "debit"
    /\ \/ /\ rows = {}
          /\ Move(q, [call[q] EXCEPT !.pc = "create"])
       \/ \E w \in rows :
              /\ rows = {w}
              /\ Move(q, [call[q] EXCEPT !.pc = AfterFind(q), !.wallet = w,
                                         !.seen = Balance(q, w)])
    /\ UNCHANGED <<tables, dirty>>

(***************************************************************************)
(* No row was found: one is inserted and the session committed, with all   *)
(* that an earlier leg of the same transaction had written.                *)
(***************************************************************************)
CreateWallet(q) ==
    /\ call[q].pc = "create"
    /\ \E w \in WalletIds \ exists :
           /\ Cur[w] = Leg(q).currency
           /\ exists' = exists \cup {w}
           /\ Move(q, [call[q] EXCEPT !.pc = AfterFind(q), !.wallet = w,
                                      !.seen = 0, !.created = TRUE])
    /\ Publish(q)

(* Mutant: the wallet is read without FOR UPDATE. *)
FindForDebit_NoLock(q) ==
    /\ Finding(q)
    /\ Leg(q).kind = "debit"
    /\ \E w \in Rows(Leg(q).currency) :
           /\ Rows(Leg(q).currency) = {w}
           /\ Balance(q, w) >= Leg(q).amount
           /\ Move(q, [call[q] EXCEPT !.pc = "lookup", !.wallet = w,
                                      !.seen = Balance(q, w)])
    /\ UNCHANGED <<tables, dirty>>

(***************************************************************************)
(* get_by_account_currency_for_update, and the check of the balance.       *)
(***************************************************************************)
FindForDebit(q) ==
    /\ Locking(q)
    /\ Free(q)
    /\ \E w \in Rows(Leg(q).currency) :
           /\ Rows(Leg(q).currency) = {w}
           /\ Balance(q, w) >= Leg(q).amount
           /\ Move(q, [call[q] EXCEPT !.pc = "lookup", !.wallet = w,
                                      !.seen = Balance(q, w)])
           /\ Dirties(q, [dirty[q] EXCEPT !.held = @ \cup {w}])
    /\ UNCHANGED tables

(* Mutant: the ledger's own check of the funds is missing. *)
Sufficient_Unchecked(q) == TRUE

(***************************************************************************)
(* LEDGER_ALLOW_NEGATIVE_BALANCE is False, its default.                    *)
(***************************************************************************)
Sufficient(q) ==
    Leg(q).kind = "debit" => Ledger(q, call[q].wallet) >= Leg(q).amount

(***************************************************************************)
(* The change the entry of the leg makes.                                  *)
(***************************************************************************)
Change(q) == IF Leg(q).kind = "debit" THEN -Leg(q).amount ELSE Leg(q).amount

(***************************************************************************)
(* ledger_service: a key that has an entry returns that entry.             *)
(***************************************************************************)
Replay(q) ==
    /\ call[q].pc = "lookup"
    /\ \E e \in Existing(q) :
           Move(q, [call[q] EXCEPT !.pc = "set", !.after = e.after, !.replay = TRUE])
    /\ UNCHANGED <<tables, dirty>>

(***************************************************************************)
(* Otherwise the balance is read, without a lock, and the next one         *)
(* computed.  Should the key get its entry between the two reads, the      *)
(* insertion of the record fails all the same.                             *)
(***************************************************************************)
Lookup(q) ==
    /\ call[q].pc = "lookup"
    /\ Existing(q) = {}
    /\ Sufficient(q)
    /\ Move(q, [call[q] EXCEPT !.pc = "post", !.replay = FALSE,
                               !.after = Ledger(q, call[q].wallet) + Change(q)])
    /\ UNCHANGED <<tables, dirty>>

Plus(f, w, n) == [f EXCEPT ![w] = @ + n]

(***************************************************************************)
(* The entry and the ledger balance it leaves, written by Post.            *)
(***************************************************************************)
Booked(q) ==
    LET w == call[q].wallet
        stale == Leg(q).kind # "debit" /\ call[q].after # Ledger(q, w) + Change(q)
    IN  [dirty[q] EXCEPT
            !.entries = @ \cup {[by |-> q, key |-> Leg(q).key, wallet |-> w,
                                 after |-> call[q].after]},
            !.posted = @ \cup {w},
            !.ledger = [@ EXCEPT ![w] = call[q].after],
            !.change = Plus(@, w, Change(q)),
            !.slips = IF stale THEN @ \cup {w} ELSE @]

(***************************************************************************)
(* The entry is inserted, and the ledger balance set to its balance_after. *)
(***************************************************************************)
Post(q) ==
    /\ call[q].pc = "post"
    /\ Free(q)
    /\ Dirties(q, Booked(q))
    /\ Move(q, [call[q] EXCEPT !.pc = "record"])
    /\ UNCHANGED tables

(* Mutant: ON CONFLICT DO NOTHING. *)
Recorded_Ignored(q) == FALSE

Recorded(q) == \E e \in entries : e.key = Leg(q).key

(***************************************************************************)
(* The idempotency record is inserted; its key is unique.                  *)
(***************************************************************************)
Record(q) ==
    /\ call[q].pc = "record"
    /\ Free(q)
    /\ ~Recorded(q)
    /\ Dirties(q, [dirty[q] EXCEPT !.keys = @ \cup {Leg(q).key}])
    /\ Move(q, [call[q] EXCEPT !.pc = "set"])
    /\ UNCHANGED tables

AfterLeg(q) == IF call[q].leg < Len(Plan[q]) THEN "find" ELSE "commit"

(***************************************************************************)
(* _set_balance: the ORM leaves the column balance out of the UPDATE when  *)
(* it is set to the value the session had loaded.                          *)
(***************************************************************************)
Result(q) ==
    IF call[q].after = call[q].seen THEN Balance(q, call[q].wallet) ELSE call[q].after

Slips(q) ==
    /\ Leg(q).kind # "debit" \/ call[q].replay
    /\ Result(q) # Ledger(q, call[q].wallet)

(***************************************************************************)
(* The wallet row with its new balance, written by SetWallet.              *)
(***************************************************************************)
Shown(q) ==
    LET w == call[q].wallet
    IN  [dirty[q] EXCEPT
            !.held = @ \cup {w},
            !.written = @ \cup {w},
            !.balance = [@ EXCEPT ![w] = Result(q)],
            !.slips = IF Slips(q) THEN @ \cup {w} ELSE @]

(***************************************************************************)
(* update_balance_no_commit: the UPDATE locks the row in any case.         *)
(***************************************************************************)
SetWallet(q) ==
    /\ call[q].pc = "set"
    /\ Free(q)
    /\ Dirties(q, Shown(q))
    /\ Move(q, [call[q] EXCEPT !.pc = AfterLeg(q),
                               !.leg = IF AfterLeg(q) = "find" THEN 2 ELSE @])
    /\ UNCHANGED tables

Commit(q) ==
    /\ call[q].pc = "commit"
    /\ Publish(q)
    /\ Move(q, [call[q] EXCEPT !.pc = "done"])
    /\ UNCHANGED exists

-----------------------------------------------------------------------------
(* Failures *)

(* Mutant: the exception is not followed by a rollback. *)
RollBack_Never(q) ==
    /\ Move(q, [call[q] EXCEPT !.pc = "failed"])
    /\ UNCHANGED <<tables, dirty>>

RollBack(q) ==
    /\ Dirties(q, Clean)
    /\ Move(q, [call[q] EXCEPT !.pc = "failed"])
    /\ UNCHANGED tables

Running(q) == call[q].pc \notin {"new", "done", "failed"}

(***************************************************************************)
(* The code or a constraint refuses the request: two rows for one currency *)
(* (scalar_one_or_none raises), no wallet to debit, not enough in it or in *)
(* the ledger, a key recorded by another transaction.                      *)
(***************************************************************************)
Refused(q) ==
    \/ Finding(q) /\ Cardinality(Rows(Leg(q).currency)) > 1
    \/ /\ Locking(q) /\ Free(q)
       /\ \A w \in Rows(Leg(q).currency) : Balance(q, w) < Leg(q).amount
    \/ call[q].pc = "lookup" /\ Existing(q) = {} /\ ~Sufficient(q)
    \/ call[q].pc = "record" /\ Free(q) /\ Recorded(q)

Refuse(q) == Refused(q) /\ RollBack(q)

(***************************************************************************)
(* The database's deadlock detector chooses a victim.                      *)
(***************************************************************************)
BreakDeadlock(q) == Deadlocked(q) /\ RollBack(q)

(***************************************************************************)
(* The connection, the process or a statement fails before the commit.     *)
(***************************************************************************)
Abort(q) == Running(q) /\ RollBack(q)

-----------------------------------------------------------------------------

Step(q) ==
    \/ FindWallet(q) \/ CreateWallet(q) \/ FindForDebit(q)
    \/ Replay(q) \/ Lookup(q) \/ Post(q) \/ Record(q)
    \/ SetWallet(q) \/ Commit(q) \/ Refuse(q) \/ BreakDeadlock(q)

Next == \E q \in Requests : Step(q) \/ Abort(q)

Spec == Init /\ [][Next]_vars

(***************************************************************************)
(* A request that has begun goes on: the event loop runs its coroutine,    *)
(* the database grants a free lock and breaks deadlocks.  Nothing makes a  *)
(* request begin.                                                          *)
(***************************************************************************)
FairSpec ==
    /\ Spec
    /\ \A q \in Requests : WF_vars(call[q].pc # "new" /\ Step(q))

-----------------------------------------------------------------------------
(* Properties *)

(***************************************************************************)
(* An idempotency key makes at most one entry, however often the request   *)
(* is repeated and whichever of the repetitions run at the same time.      *)
(***************************************************************************)
OncePerKey == \A e, f \in entries : e.key = f.key => e = f

(***************************************************************************)
(* The service implements the journal: each leg is booked once, for its    *)
(* amount, in a wallet of its currency, and no transfer credits what it    *)
(* did not debit, although wallets are created and the session committed   *)
(* in the middle of its transaction.                                       *)
(***************************************************************************)
Books == INSTANCE Journal WITH posted <- {e.key : e \in entries}

ExactlyOnce == Books!Spec

(***************************************************************************)
(* The three balances of a wallet are equal, and nothing more than it held *)
(* was spent, whatever debits and transfers out of it interleave, fail or  *)
(* repeat, as long as no credit computed from a stale balance and no       *)
(* replay of an overtaken entry has been committed to it.                  *)
(***************************************************************************)
BalancesAgree ==
    \A w \in exists \ slipped :
        balance[w] = ledger[w] /\ ledger[w] = total[w]

Posted(k) == \E e \in entries : e.key = k

(***************************************************************************)
(* A transfer posts both legs or neither, except when it had to create the *)
(* wallet it transfers to.                                                 *)
(***************************************************************************)
TransferWhole ==
    \A q \in Requests : Len(Plan[q]) = 2 /\ Posted(Plan[q][1].key) =>
        \/ Posted(Plan[q][2].key)
        \/ \E r \in Requests : Plan[r] = Plan[q] /\ call[r].created

(***************************************************************************)
(* Every request that has begun ends: requests never wait for each other   *)
(* but in cycles that the database sees and breaks, and no end of a        *)
(* request leaves a lock behind.                                           *)
(***************************************************************************)
Finishes ==
    \A q \in Requests : Running(q) ~> call[q].pc \in {"done", "failed"}

-----------------------------------------------------------------------------
(* What the docs promise and the code does not keep *)

(***************************************************************************)
(* "Make wallet operations atomic ... allowing concurrent requests to read *)
(* stale balances (double-spend risk)", CHANGELOG.md:557-561, says what    *)
(* was fixed: the balance is the sum of the entries.                       *)
(***************************************************************************)
LedgerIsSum == \A w \in exists : ledger[w] = total[w]
=============================================================================
