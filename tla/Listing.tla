------------------------------ MODULE Listing ------------------------------
(***************************************************************************)
(* Paged reading: BaseController.list and BaseRepository.paginate          *)
(* (swx_core/controllers/base.py, repositories/base.py) with               *)
(* PaginatedResponse (utils/pagination.py).                                *)
(*                                                                         *)
(* A page is two queries in two sessions, first the rows, then their       *)
(* number, from which has_next is computed.  A client asks for page after  *)
(* page while rows are inserted, deleted and restored.  Rows are ordered   *)
(* by created_at, which is the time before the commit that shows the row;  *)
(* rows of the same time (create_many gives one time to all) come in any   *)
(* order, in another one for every query.                                  *)
(***************************************************************************)
EXTENDS Integers, FiniteSets

CONSTANTS
    Items,
    PerPage,
    LastItemTime        \* bound: the values of created_at

ASSUME PageAssumption ==
    /\ IsFiniteSet(Items)
    /\ PerPage \in Nat \ {0}
    /\ LastItemTime \in Nat

VARIABLES
    created,    \* created[r]: the time the row was created, 0: not yet
    writing,    \* the rows of transactions that have not committed
    visible,    \* the rows that are stored and not soft-deleted
    descending, \* the order asked for
    now,
    page,       \* the page the client is at
    items,      \* the rows of the page, while its count is read
    pc,
    seen,       \* the rows the client was given
    repeated,   \* rows it was given twice
    present,    \* history: the rows visible from the first query on
    changes     \* history: what else happened to old rows meanwhile

listVars == <<created, writing, visible, descending, now, page, items, pc, seen, repeated, present, changes>>

ListTypeOK ==
    /\ created \in [Items -> 0..LastItemTime]
    /\ writing \in SUBSET Items
    /\ visible \in SUBSET Items
    /\ descending \in BOOLEAN
    /\ now \in 1..LastItemTime
    /\ page \in Nat \ {0}
    /\ items \in SUBSET Items
    /\ pc \in {"rows", "count", "end"}
    /\ seen \in SUBSET Items
    /\ repeated \in SUBSET Items
    /\ present \in SUBSET Items
    /\ changes \in SUBSET {"deletion", "restoration", "overtaking"}

ListInit ==
    /\ created \in [Items -> 0..LastItemTime]
    /\ visible \in SUBSET {r \in Items : created[r] # 0}
    /\ writing \in SUBSET ({r \in Items : created[r] # 0} \ visible)
    /\ descending \in BOOLEAN
    /\ now \in 1..LastItemTime
    /\ \A r \in Items : created[r] <= now
    /\ page = 1
    /\ items = {}
    /\ pc = "rows"
    /\ seen = {}
    /\ repeated = {}
    /\ present = visible
    /\ changes = {}

-----------------------------------------------------------------------------
(* Rows come and go *)

reading == <<descending, page, items, pc, seen, repeated>>

Tick ==
    /\ now < LastItemTime
    /\ now' = now + 1
    /\ UNCHANGED <<created, writing, visible, present, changes, reading>>

(***************************************************************************)
(* create or create_many gives the row its time.  Nobody sees it yet, and  *)
(* nobody ever does when the transaction fails.                            *)
(***************************************************************************)
AddRow(r) ==
    /\ created[r] = 0
    /\ created' = [created EXCEPT ![r] = now]
    /\ writing' = writing \cup {r}
    /\ UNCHANGED <<now, visible, present, changes, reading>>

(***************************************************************************)
(* The row is committed; a younger one may have been committed before it.  *)
(***************************************************************************)
CommitRow(r) ==
    /\ r \in writing
    /\ writing' = writing \ {r}
    /\ visible' = visible \cup {r}
    /\ changes' = IF \E q \in visible : created[q] > created[r] THEN changes \cup {"overtaking"} ELSE changes
    /\ UNCHANGED <<created, now, present, reading>>

(***************************************************************************)
(* Deleted, or marked is_deleted.                                          *)
(***************************************************************************)
DeleteRow(r) ==
    /\ r \in visible
    /\ visible' = visible \ {r}
    /\ present' = present \ {r}
    /\ changes' = changes \cup {"deletion"}
    /\ UNCHANGED <<created, writing, now, reading>>

RestoreRow(r) ==
    /\ created[r] # 0
    /\ r \notin visible \cup writing
    /\ visible' = visible \cup {r}
    /\ changes' = changes \cup {"restoration"}
    /\ UNCHANGED <<created, writing, now, present, reading>>

-----------------------------------------------------------------------------
(* The client and its queries *)

(***************************************************************************)
(* q comes before r in the order asked for.                                *)
(***************************************************************************)
Precedes(q, r) ==
    IF descending THEN created[q] > created[r] ELSE created[q] < created[r]

(***************************************************************************)
(* S can be the first rows of the visible ones.                            *)
(***************************************************************************)
Leading(S) == \A r \in S, q \in visible \ S : ~ Precedes(q, r)

AtMost(m, n) == IF m < n THEN m ELSE n

(***************************************************************************)
(* ORDER BY created_at OFFSET (page - 1) * per_page LIMIT per_page: rows   *)
(* of one time in any order.                                               *)
(***************************************************************************)
Pages ==
    LET total == Cardinality(visible)
        skip  == AtMost((page - 1) * PerPage, total)
    IN  {S \in SUBSET visible :
            /\ Cardinality(S) = AtMost(PerPage, total - skip)
            /\ \E B \in SUBSET (visible \ S) :
                    Cardinality(B) = skip /\ Leading(B) /\ Leading(B \cup S)}

FindAll ==
    /\ pc = "rows"
    /\ items' \in Pages
    /\ pc' = "count"
    /\ UNCHANGED <<created, writing, visible, descending, now, page, seen, repeated, present, changes>>

(* Mutant: pages are counted rounding down. *)
HasNext_Down == page < Cardinality(visible) \div PerPage

HasNext == page < (Cardinality(visible) + PerPage - 1) \div PerPage

(***************************************************************************)
(* The count, with which the response is complete.  The client asks for    *)
(* the next page when has_next says that there is one.                     *)
(***************************************************************************)
Count ==
    /\ pc = "count"
    /\ seen' = seen \cup items
    /\ repeated' = repeated \cup (seen \cap items)
    /\ items' = {}
    /\ IF HasNext THEN page' = page + 1 /\ pc' = "rows"
       ELSE pc' = "end" /\ UNCHANGED page
    /\ UNCHANGED <<created, writing, visible, descending, now, present, changes>>

ListNext ==
    \/ Tick
    \/ \E r \in Items : AddRow(r) \/ CommitRow(r) \/ DeleteRow(r) \/ RestoreRow(r)
    \/ FindAll
    \/ Count

ListSpec == ListInit /\ [][ListNext]_listVars

-----------------------------------------------------------------------------

Tied == \E q, r \in Items : q # r /\ created[q] # 0 /\ created[q] = created[r]

(***************************************************************************)
(* Who follows has_next to the end has been given every row that was there *)
(* all the time, whatever is created or restored meanwhile: rows move to   *)
(* later pages only, and the count is not older than the page.             *)
(***************************************************************************)
NothingMissed ==
    pc = "end" /\ ~ Tied /\ "deletion" \notin changes => present \subseteq seen

(***************************************************************************)
(* In ascending order new rows come last, and no row is given twice, as    *)
(* long as rows are committed in the order of their times: who is          *)
(* overtaken moves the rows behind it to a later page.                     *)
(***************************************************************************)
NothingTwice ==
    ~ descending /\ ~ Tied /\ changes = {} => repeated = {}

(***************************************************************************)
(* What offset pages are worth while others write.                         *)
(***************************************************************************)
ListingSafe ==
    /\ NothingMissed
    /\ NothingTwice
=============================================================================
