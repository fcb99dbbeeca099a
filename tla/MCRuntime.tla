------------------------------ MODULE MCRuntime -----------------------------
(***************************************************************************)
(* Instances for TLC of what a process is built from: its start and stop,  *)
(* the container, events, caches, the layers under every service, and the  *)
(* calls of language models. They share no state: a behaviour runs the one *)
(* that part names, and leaves the others in one initial state.            *)
(***************************************************************************)
EXTENDS Lifecycle, Container, EventBus, Caches, Records, Listing, Units,
        Fallback

VARIABLE part

OneSource == [e \in Events |-> "p"]
OwnPriority == [l \in Listeners |-> l]

HomeOf == [c \in Lookups \cup Changes |-> IF c \in {"u1", "m1"} THEN "p" ELSE "q"]

NoColumn == [k \in {} |-> "old"]
OneRow(kind, i, sets, checked) ==
    [kind |-> kind, ids |-> <<i>>, sets |-> sets, checked |-> checked, bulk |-> FALSE]
WorkOf == [c \in RecordCalls |->
    CASE c = "rename" -> OneRow("edit", 1, [title |-> "new"], FALSE)
      [] c = "hide"   -> OneRow("edit", 1, [is_deleted |-> "yes"], TRUE)
      [] c = "create" -> OneRow("create", 2, NoColumn, FALSE)
      [] c = "remove" -> OneRow("remove", 2, NoColumn, TRUE)
      [] c = "clear"  -> [OneRow("remove", 1, NoColumn, FALSE) EXCEPT !.ids = <<1, 2>>, !.bulk = TRUE]]
BlankRow == [title |-> "old", is_deleted |-> "no"]

Idling ==
    /\ part # "listing" => /\ created = [r \in Items |-> 0]
                           /\ now = 1 /\ descending = TRUE
    /\ part # "units" => given = TRUE
    /\ part # "fallback" => chained = TRUE

Init ==
    /\ part \in {"lifecycle", "container", "events", "caches", "records",
                 "listing", "units", "fallback"}
    /\ Idling
    /\ LifeInit
    /\ ContainerInit
    /\ BusInit
    /\ CacheInit
    /\ RecordInit
    /\ ListInit
    /\ UnitInit
    /\ FallbackInit

LifePart == part = "lifecycle" /\ LifeNext
    /\ UNCHANGED <<part, containerVars, busVars, cacheVars, recordVars,
                   listVars, unitVars, fallbackVars>>
ContainerPart == part = "container" /\ ContainerNext
    /\ UNCHANGED <<part, lifeVars, busVars, cacheVars, recordVars,
                   listVars, unitVars, fallbackVars>>
BusPart == part = "events" /\ BusNext
    /\ UNCHANGED <<part, lifeVars, containerVars, cacheVars, recordVars,
                   listVars, unitVars, fallbackVars>>
CachePart == part = "caches" /\ CacheNext
    /\ UNCHANGED <<part, lifeVars, containerVars, busVars, recordVars,
                   listVars, unitVars, fallbackVars>>
RecordPart == part = "records" /\ RecordNext
    /\ UNCHANGED <<part, lifeVars, containerVars, busVars, cacheVars,
                   listVars, unitVars, fallbackVars>>
ListPart == part = "listing" /\ ListNext
    /\ UNCHANGED <<part, lifeVars, containerVars, busVars, cacheVars,
                   recordVars, unitVars, fallbackVars>>
UnitPart == part = "units" /\ UnitNext
    /\ UNCHANGED <<part, lifeVars, containerVars, busVars, cacheVars,
                   recordVars, listVars, fallbackVars>>
FallbackPart == part = "fallback" /\ FallbackNext
    /\ UNCHANGED <<part, lifeVars, containerVars, busVars, cacheVars,
                   recordVars, listVars, unitVars>>

Next ==
    \/ LifePart
    \/ ContainerPart
    \/ BusPart
    \/ CachePart
    \/ RecordPart
    \/ ListPart
    \/ UnitPart
    \/ FallbackPart

Spec == Init /\ [][Next]_<<part, lifeVars, containerVars, busVars,
                           cacheVars, recordVars, listVars, unitVars,
                           fallbackVars>>

(***************************************************************************)
(* The types of the eight.                                                 *)
(***************************************************************************)
RuntimeTypes ==
    /\ part = "lifecycle" => LifeTypeOK
    /\ part = "container" => ContainerTypeOK
    /\ part = "events" => BusTypeOK
    /\ part = "caches" => CacheTypeOK
    /\ part = "records" => RecordTypeOK
    /\ part = "listing" => ListTypeOK
    /\ part = "units" => UnitTypeOK
    /\ part = "fallback" => FallbackTypeOK

(***************************************************************************)
(* What keeps a process whole: its services and jobs, and the container it *)
(* takes its objects from.                                                 *)
(***************************************************************************)
ProcessSafe ==
    /\ LifecycleSafe
    /\ ContainerSafe

(***************************************************************************)
(* What the rows of a table owe to their writers and their readers.        *)
(***************************************************************************)
DataSafe ==
    /\ RecordsSafe
    /\ ListingSafe
=============================================================================
