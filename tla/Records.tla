------------------------------ MODULE Records ------------------------------
(***************************************************************************)
(* The writes every resource inherits: BaseController                      *)
(* (swx_core/controllers/base.py) over BaseService (services/base.py) over *)
(* BaseRepository (repositories/base.py).                                  *)
(*                                                                         *)
(* Each repository method opens a session of its own, so one request is    *)
(* several transactions: the service finds the row, the repository loads   *)
(* it again, writes the columns that differ from what it loaded, commits   *)
(* and reads the row back; then the service emits an event.  Other         *)
(* requests do the same between any two of these.  A soft delete and a     *)
(* restore are edits of the column is_deleted.                             *)
(***************************************************************************)
EXTENDS Naturals, Sequences, FiniteSets

CONSTANTS
    Ids,
    Columns,
    Values,
    RecordCalls,
    Work,       \* Work[c]: what the request c asks for
    Blank       \* the columns of a row nobody edited

(***************************************************************************)
(* A request: of one row, or in bulk of several; checked when the          *)
(* controller asks exists() first (controller.delete does).  A row that is *)
(* created is nobody else's: its id is a new UUID.                         *)
(***************************************************************************)
Request == [kind: {"create", "edit", "remove"}, ids: Seq(Ids),
            sets: UNION {[S -> Values] : S \in SUBSET Columns},
            checked: BOOLEAN, bulk: BOOLEAN]

ASSUME WorkAssumption ==
    /\ Work \in [RecordCalls -> Request]
    /\ \A c \in RecordCalls :
          /\ Work[c].ids # <<>>
          /\ ~ Work[c].bulk => Len(Work[c].ids) = 1
          /\ Work[c].kind # "edit" => DOMAIN Work[c].sets = {}
          /\ \A d \in RecordCalls : \A m \in DOMAIN Work[c].ids, n \in DOMAIN Work[d].ids :
                "create" = Work[c].kind /\ "create" = Work[d].kind /\ Work[c].ids[m] = Work[d].ids[n]
                => c = d /\ m = n
    /\ Blank \in [Columns -> Values]

VARIABLES
    stored,     \* the rows in the table
    removed,    \* history: the rows that were in it
    row,        \* row[i]: the columns of i, while it is stored
    requests,   \* requests[c]: how far it is
    told        \* events emitted: <<name, id>>

recordVars == <<stored, removed, row, requests, told>>

RowType == [Columns -> Values]

Stage == {"new", "exists", "find", "load", "insert", "write", "refresh", "emit", "done"}

CallState == [pc: Stage, left: Seq(Ids), loaded: RowType,
              answer: {"none", "ok", "notfound", "failed", "rejected"}]

RecordTypeOK ==
    /\ stored \in SUBSET Ids
    /\ removed \in SUBSET Ids
    /\ row \in [Ids -> RowType]
    /\ requests \in [RecordCalls -> CallState]
    /\ told \in SUBSET ({"created", "updated", "deleted"} \X Ids)

CreatesRow(c) == Work[c].kind = "create"

RowsOf(c) == {Work[c].ids[n] : n \in DOMAIN Work[c].ids}

RecordInit ==
    /\ stored = {i \in Ids : \A c \in RecordCalls : CreatesRow(c) => i \notin RowsOf(c)}
    /\ removed = {}
    /\ row = [i \in Ids |-> Blank]
    /\ requests = [c \in RecordCalls |-> [pc |-> "new", left |-> Work[c].ids, loaded |-> Blank, answer |-> "none"]]
    /\ told = {}

-----------------------------------------------------------------------------
(* One request *)

Reached(c, stage) == requests[c].pc = stage

(***************************************************************************)
(* The row a request is at.                                                *)
(***************************************************************************)
Target(c) == Head(requests[c].left)

Proceed(c, stage) == requests' = [requests EXCEPT ![c].pc = stage]

Answer(c, answer) == requests' = [requests EXCEPT ![c].pc = "done", ![c].answer = answer]

FirstStage(c) ==
    IF CreatesRow(c) THEN "insert" ELSE IF Work[c].checked THEN "exists" ELSE "find"

(***************************************************************************)
(* One row is dealt with.  After the last one a bulk method emits a string *)
(* and a dictionary, where emit takes one Event: it raises.                *)
(***************************************************************************)
Finish(c) ==
    IF ~ Work[c].bulk THEN Answer(c, "ok")
    ELSE IF Len(requests[c].left) = 1 THEN Answer(c, "failed")
    ELSE requests' = [requests EXCEPT ![c].pc = FirstStage(c), ![c].left = Tail(@)]

(***************************************************************************)
(* The service or the repository did not find the row.  Bulk methods skip  *)
(* it; controller.delete, soft or hard, does not look at what the service  *)
(* returned; update and restore answer 404.                                *)
(***************************************************************************)
Missing(c) ==
    IF Work[c].bulk \/ Work[c].checked THEN Finish(c) ELSE Answer(c, "notfound")

(***************************************************************************)
(* A client names rows it has seen.                                        *)
(***************************************************************************)
BeginWork(c) ==
    /\ Reached(c, "new")
    /\ CreatesRow(c) \/ RowsOf(c) \subseteq stored \cup removed
    /\ Proceed(c, FirstStage(c))
    /\ UNCHANGED <<stored, removed, row, told>>

Exists(c) ==
    /\ Reached(c, "exists")
    /\ IF Target(c) \in stored THEN Proceed(c, "find") ELSE Answer(c, "notfound")
    /\ UNCHANGED <<stored, removed, row, told>>

FindById(c) ==
    /\ Reached(c, "find")
    /\ IF Target(c) \in stored THEN Proceed(c, "load") ELSE Missing(c)
    /\ UNCHANGED <<stored, removed, row, told>>

(***************************************************************************)
(* The SELECT of the repository's update or delete.                        *)
(***************************************************************************)
LoadRow(c) ==
    /\ Reached(c, "load")
    /\ IF Target(c) \in stored
       THEN requests' = [requests EXCEPT ![c].pc = "write", ![c].loaded = row[Target(c)]]
       ELSE Missing(c)
    /\ UNCHANGED <<stored, removed, row, told>>

InsertRow(c) ==
    /\ Reached(c, "insert")
    /\ stored' = stored \cup {Target(c)}
    /\ row' = [row EXCEPT ![Target(c)] = Blank]
    /\ Proceed(c, "refresh")
    /\ UNCHANGED <<removed, told>>

(* Mutant: the whole loaded object is written back. *)
Written_Whole(c, k) ==
    IF k \in DOMAIN Work[c].sets THEN Work[c].sets[k] ELSE requests[c].loaded[k]

(***************************************************************************)
(* The UPDATE names the columns whose value is not the loaded one.         *)
(***************************************************************************)
Written(c, k) ==
    IF k \in DOMAIN Work[c].sets /\ Work[c].sets[k] # requests[c].loaded[k]
    THEN Work[c].sets[k]
    ELSE row[Target(c)][k]

(***************************************************************************)
(* An UPDATE that matches no row raises StaleDataError.  (updated_at makes *)
(* sure that there is an UPDATE.)                                          *)
(***************************************************************************)
Update(c) ==
    /\ Reached(c, "write")
    /\ Work[c].kind = "edit"
    /\ IF Target(c) \in stored
       THEN /\ row' = [row EXCEPT ![Target(c)] = [k \in Columns |-> Written(c, k)]]
            /\ Proceed(c, "refresh")
       ELSE Answer(c, "failed") /\ UNCHANGED row
    /\ UNCHANGED <<stored, removed, told>>

(***************************************************************************)
(* A DELETE that matches no row is only warned about.                      *)
(***************************************************************************)
DeleteLoaded(c) ==
    /\ Reached(c, "write")
    /\ Work[c].kind = "remove"
    /\ stored' = stored \ {Target(c)}
    /\ removed' = removed \cup {Target(c)}
    /\ IF Work[c].bulk THEN Finish(c) ELSE Proceed(c, "emit")
    /\ UNCHANGED <<row, told>>

(***************************************************************************)
(* session.refresh after the commit: a row removed since raises.           *)
(***************************************************************************)
Refresh(c) ==
    /\ Reached(c, "refresh")
    /\ IF Target(c) \notin stored THEN Answer(c, "failed")
       ELSE IF Work[c].bulk THEN Finish(c) ELSE Proceed(c, "emit")
    /\ UNCHANGED <<stored, removed, row, told>>

(***************************************************************************)
(* What a request asks for breaks a constraint of the table (a unique      *)
(* value, a reference): the commit raises IntegrityError, and nobody       *)
(* catches it.                                                             *)
(***************************************************************************)
RejectWrite(c) ==
    /\ Reached(c, "insert") \/ Reached(c, "write")
    /\ Answer(c, "rejected")
    /\ UNCHANGED <<stored, removed, row, told>>

EventName(c) ==
    CASE CreatesRow(c) -> "created"
      [] Work[c].kind = "edit" -> "updated"
      [] OTHER -> "deleted"

Emit(c) ==
    /\ Reached(c, "emit")
    /\ told' = told \cup {<<EventName(c), Target(c)>>}
    /\ Finish(c)
    /\ UNCHANGED <<stored, removed, row>>

RecordNext ==
    \E c \in RecordCalls :
        \/ BeginWork(c)
        \/ Exists(c)
        \/ FindById(c)
        \/ LoadRow(c)
        \/ InsertRow(c)
        \/ Update(c)
        \/ DeleteLoaded(c)
        \/ RejectWrite(c)
        \/ Refresh(c)
        \/ Emit(c)

RecordSpec == RecordInit /\ [][RecordNext]_recordVars

-----------------------------------------------------------------------------

(***************************************************************************)
(* An edit that was answered stands: unless another request edits the same *)
(* column, the row has the value asked for, whatever was edited or         *)
(* restored beside it in the meantime.                                     *)
(***************************************************************************)
OnlyEditStands ==
    \A c \in RecordCalls : \A i \in RowsOf(c) \cap stored : \A k \in DOMAIN Work[c].sets :
        \/ requests[c].answer # "ok"
        \/ row[i][k] = Work[c].sets[k]
        \/ \E d \in RecordCalls \ {c} : ~ Reached(d, "new") /\ i \in RowsOf(d) /\ k \in DOMAIN Work[d].sets

(***************************************************************************)
(* Unless its values break a constraint, a request for one row is refused  *)
(* only when somebody removed that row: no interleaving of edits makes the *)
(* ORM give up.                                                            *)
(***************************************************************************)
RefusedOnlyWhenGone ==
    \A c \in RecordCalls :
        requests[c].answer \in {"notfound", "failed"} /\ ~ Work[c].bulk => RowsOf(c) \subseteq removed

(***************************************************************************)
(* Events tell what the table holds: created and updated rows were stored, *)
(* a row told to be deleted does not come back.                            *)
(***************************************************************************)
EventsAreTrue ==
    \A event \in told :
        IF event[1] = "deleted" THEN event[2] \notin stored
        ELSE event[2] \in stored \cup removed

(***************************************************************************)
(* Requests that meet on a row do not undo each other's columns, are not   *)
(* refused for what others edited, and tell what happened.                 *)
(***************************************************************************)
RecordsSafe ==
    /\ OnlyEditStands
    /\ RefusedOnlyWhenGone
    /\ EventsAreTrue
=============================================================================
