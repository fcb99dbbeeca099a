------------------------------- MODULE Units -------------------------------
(***************************************************************************)
(* A unit of work over a session that the caller gives                     *)
(* (swx_core/utils/unit_of_work.py) and the repositories in it             *)
(* (repositories/base.py).  Without a given session __aenter__ fails:      *)
(* get_session() is a bare async generator, which has no __aenter__.       *)
(*                                                                         *)
(* A write of a repository ends in session.commit(), also when the session *)
(* was injected, and commits what else is pending in it.                   *)
(***************************************************************************)
CONSTANT Writes

VARIABLES
    given,      \* a session was given
    unit,       \* "new", "open", "left"
    pending,    \* writes in the session's transaction
    broken,     \* the session wants a rollback before it does anything more
    saved,      \* writes in the database
    committed,
    rolledBack,
    error,      \* the exception on its way out
    dropped,    \* history: writes a rollback took back
    addedLate,  \* history: writes added after commit() or rollback()
    kept,       \* history: writes that repositories committed
    caught      \* history: the block went on after the database had failed

unitVars == <<given, unit, pending, broken, saved, committed, rolledBack, error,
              dropped, addedLate, kept, caught>>

UnitTypeOK ==
    /\ given \in BOOLEAN
    /\ unit \in {"new", "open", "left"}
    /\ pending \in SUBSET Writes
    /\ broken \in BOOLEAN
    /\ saved \in SUBSET Writes
    /\ committed \in BOOLEAN
    /\ rolledBack \in BOOLEAN
    /\ error \in {"none", "block", "unit", "enter", "database"}
    /\ dropped \in SUBSET Writes
    /\ addedLate \in SUBSET Writes
    /\ kept \in SUBSET Writes
    /\ caught \in BOOLEAN

UnitInit ==
    /\ given \in BOOLEAN
    /\ unit = "new"
    /\ pending = {} /\ saved = {} /\ dropped = {}
    /\ addedLate = {} /\ kept = {}
    /\ committed = FALSE /\ rolledBack = FALSE
    /\ broken = FALSE /\ caught = FALSE
    /\ error = "none"

-----------------------------------------------------------------------------

Enter ==
    /\ unit = "new"
    /\ IF given THEN unit' = "open" /\ UNCHANGED error ELSE unit' = "left" /\ error' = "enter"
    /\ UNCHANGED <<given, pending, broken, saved, committed, rolledBack, dropped, addedLate, kept, caught>>

Running == unit = "open" /\ error = "none"

FreshUnit(w) == w \notin pending \cup saved \cup dropped

Late(w) == IF committed \/ rolledBack THEN addedLate \cup {w} ELSE addedLate

(***************************************************************************)
(* The block adds an object to the session itself.                         *)
(***************************************************************************)
Add(w) ==
    /\ Running
    /\ FreshUnit(w)
    /\ pending' = pending \cup {w}
    /\ addedLate' = Late(w)
    /\ UNCHANGED <<given, unit, broken, saved, committed, rolledBack, error, dropped, kept, caught>>

(***************************************************************************)
(* The repository's commit, after which refresh() may still raise.         *)
(***************************************************************************)
RepositoryCreate(w) ==
    /\ Running
    /\ ~ broken
    /\ FreshUnit(w)
    /\ saved' = saved \cup pending \cup {w}
    /\ kept' = kept \cup pending \cup {w}
    /\ pending' = {}
    /\ addedLate' = Late(w)
    /\ error' \in {"none", "database"}
    /\ UNCHANGED <<given, unit, broken, committed, rolledBack, dropped, caught>>

SaveAll ==
    /\ ~ broken
    /\ saved' = saved \cup pending
    /\ pending' = {}
    /\ committed' = TRUE

(***************************************************************************)
(* A commit fails: the session takes the whole transaction back by itself, *)
(* wants a rollback before anything else, and the unit's flags say nothing *)
(* of it.  Until then every commit fails and leaves what was added since.  *)
(***************************************************************************)
CommitFails(writes) ==
    /\ error' = "database"
    /\ broken' = TRUE
    /\ IF broken THEN pending' = writes /\ UNCHANGED dropped
       ELSE pending' = {} /\ dropped' = dropped \cup writes

Commit ==
    /\ Running
    /\ \/ /\ committed \/ rolledBack
          /\ error' = "unit"
          /\ UNCHANGED <<pending, broken, saved, committed, dropped>>
       \/ /\ ~ committed /\ ~ rolledBack
          /\ \/ SaveAll /\ UNCHANGED <<error, broken, dropped>>
             \/ CommitFails(pending) /\ UNCHANGED <<saved, committed>>
    /\ UNCHANGED <<given, unit, rolledBack, addedLate, kept, caught>>

WriteFails(w) ==
    /\ Running
    /\ FreshUnit(w)
    /\ CommitFails(pending \cup {w})
    /\ addedLate' = Late(w)
    /\ UNCHANGED <<given, unit, saved, committed, rolledBack, kept, caught>>

(***************************************************************************)
(* The block catches what was raised in it, and goes on; it may roll back  *)
(* the session that broke.                                                 *)
(***************************************************************************)
Catch ==
    /\ unit = "open"
    /\ error # "none"
    /\ error' = "none"
    /\ caught' = (caught \/ error = "database")
    /\ UNCHANGED <<given, unit, pending, broken, saved, committed, rolledBack, dropped, addedLate, kept>>

SessionRollback ==
    /\ Running
    /\ broken
    /\ broken' = FALSE
    /\ dropped' = dropped \cup pending
    /\ pending' = {}
    /\ UNCHANGED <<given, unit, saved, committed, rolledBack, error, addedLate, kept, caught>>

(* Mutant: the flag is set and the session left alone. *)
DropAll_Flag ==
    /\ rolledBack' = TRUE
    /\ UNCHANGED <<pending, broken, dropped>>

DropAll ==
    /\ dropped' = dropped \cup pending
    /\ pending' = {}
    /\ broken' = FALSE
    /\ rolledBack' = TRUE

(***************************************************************************)
(* rollback() raises after a commit, and does nothing the second time.     *)
(***************************************************************************)
Rollback ==
    /\ Running
    /\ \/ committed /\ error' = "unit" /\ UNCHANGED <<pending, broken, dropped, rolledBack>>
       \/ ~ committed /\ rolledBack /\ UNCHANGED <<pending, broken, dropped, rolledBack, error>>
       \/ ~ committed /\ ~ rolledBack /\ DropAll /\ UNCHANGED error
    /\ UNCHANGED <<given, unit, saved, committed, addedLate, kept, caught>>

RaiseInBlock ==
    /\ Running
    /\ error' = "block"
    /\ UNCHANGED <<given, unit, pending, broken, saved, committed, rolledBack, dropped, addedLate, kept, caught>>

(***************************************************************************)
(* __aexit__: after an exception roll back, which after an explicit commit *)
(* raises in its turn; else commit, unless the block did either itself.    *)
(***************************************************************************)
Exit ==
    /\ unit = "open"
    /\ unit' = "left"
    /\ \/ /\ error # "none" /\ committed
          /\ error' = "unit"
          /\ UNCHANGED <<pending, broken, saved, committed, rolledBack, dropped>>
       \/ /\ error # "none" /\ ~ committed /\ ~ rolledBack
          /\ DropAll
          /\ UNCHANGED <<saved, committed, error>>
       \/ /\ error = "none" /\ ~ committed /\ ~ rolledBack
          /\ \/ SaveAll /\ UNCHANGED <<broken, dropped, error>>
             \/ CommitFails(pending) /\ UNCHANGED <<saved, committed>>
          /\ UNCHANGED rolledBack
       \/ /\ \/ error = "none" /\ committed
             \/ ~ committed /\ rolledBack
          /\ UNCHANGED <<pending, broken, saved, committed, rolledBack, dropped, error>>
    /\ UNCHANGED <<given, addedLate, kept, caught>>

UnitNext ==
    \/ Enter
    \/ \E w \in Writes : Add(w) \/ RepositoryCreate(w) \/ WriteFails(w)
    \/ Commit
    \/ Catch
    \/ SessionRollback
    \/ Rollback
    \/ RaiseInBlock
    \/ Exit

UnitSpec == UnitInit /\ [][UnitNext]_unitVars

-----------------------------------------------------------------------------

(***************************************************************************)
(* When a unit is left nothing lies in its session any more, but for what  *)
(* was written after the block ended the unit itself, or after a failure   *)
(* it caught without a rollback, and then the last commit raises: no path, *)
(* explicit or not, forgets to commit or to roll back.                     *)
(***************************************************************************)
NothingForgotten ==
    unit = "left" =>
        \/ pending \subseteq addedLate
        \/ error = "database" /\ broken /\ caught

(***************************************************************************)
(* A unit of work that was entered ends committed or rolled back, by its   *)
(* own flags, and never both, whatever the block called or caught before   *)
(* and wherever it raised, unless its last commit failed.  One that ends   *)
(* without an exception or a rollback has committed, and lost a write only *)
(* to a failure that the block caught.                                     *)
(***************************************************************************)
OutcomeTells ==
    unit = "left" =>
        /\ error = "none" /\ ~ rolledBack => committed /\ (dropped = {} \/ caught)
        /\ given => committed \/ rolledBack \/ error = "database"
        /\ ~ (committed /\ rolledBack)

(***************************************************************************)
(* How far a unit is all or nothing: what it leaves in the database        *)
(* without having committed was committed by a repository in it, and a     *)
(* unit without such a write, without a caught failure and without writes  *)
(* after its end has saved everything or nothing.                          *)
(***************************************************************************)
OnlyRepositoriesSplit ==
    unit = "left" =>
        /\ ~ committed => saved = kept
        /\ kept = {} /\ addedLate = {} /\ ~ caught => saved = {} \/ dropped = {}

UnitsSafe ==
    /\ NothingForgotten
    /\ OutcomeTells
    /\ OnlyRepositoriesSplit
=============================================================================
