------------------------------ MODULE EventBus ------------------------------
(***************************************************************************)
(* The event bus of each process (swx_core/events/dispatcher.py) and the   *)
(* bridge between them over Redis Pub/Sub (events/redis_bridge.py).        *)
(*                                                                         *)
(* A dispatch takes a copy of the listeners, sorted by priority, and       *)
(* awaits one after the other; what raises is logged by its name.  Then it *)
(* forgets those registered for once, and publishes.  Dispatches of one    *)
(* process interleave at each await.                                       *)
(***************************************************************************)
EXTENDS Integers, FiniteSets

CONSTANTS
    Nodes,          \* the processes
    Events,         \* calls of dispatch, all of one event name
    Source,         \* Source[e]: the process of the call
    Listeners,
    Priority,       \* Priority[l], all different
    Once,           \* the listeners registered with once=True
    Nameless        \* callables that have no __name__

ASSUME EventBusAssumption ==
    /\ Source \in [Events -> Nodes]
    /\ Priority \in [Listeners -> Nat]
    /\ \A k, l \in Listeners : Priority[k] = Priority[l] => k = l
    /\ Once \subseteq Listeners
    /\ Nameless \subseteq Listeners

VARIABLES
    registered,     \* registered[p]: the listeners of process p
    event,          \* event[e]: where the dispatch is, its copy of the listeners,
                    \* those still to call, those to forget, and stopped
    bridge,         \* bridge[p]: the subscription of the process
    inbox,          \* inbox[p]: messages Redis has sent to p and p has not handled
    called,         \* history: called[e]: listeners the dispatch has called
    published,      \* history: published[e]: how often the event was published
    disturbed       \* history: two dispatches of one process overlapped, or one broke off

busVars == <<registered, event, bridge, inbox, called, published, disturbed>>

BusTypeOK ==
    /\ registered \in [Nodes -> SUBSET Listeners]
    /\ event \in [Events -> [pc: {"new", "run", "forget", "publish", "done", "raised"},
                             all: SUBSET Listeners, todo: SUBSET Listeners,
                             once: SUBSET Once, stopped: BOOLEAN]]
    /\ bridge \in [Nodes -> {"off", "on", "broken", "deaf"}]
    /\ inbox \in [Nodes -> SUBSET Events]
    /\ \A p \in Nodes : inbox[p] # {} => bridge[p] = "on"
    /\ called \in [Events -> SUBSET Listeners]
    /\ published \in [Events -> Nat]
    /\ disturbed \in BOOLEAN

BusInit ==
    /\ registered = [p \in Nodes |-> Listeners]
    /\ event = [e \in Events |-> [pc |-> "new", all |-> {}, todo |-> {}, once |-> {}, stopped |-> FALSE]]
    /\ bridge = [p \in Nodes |-> "off"]
    /\ inbox = [p \in Nodes |-> {}]
    /\ called = [e \in Events |-> {}]
    /\ published = [e \in Events |-> 0]
    /\ disturbed = FALSE

-----------------------------------------------------------------------------
(* dispatch *)

EAt(e, label) == event[e].pc = label

Dispatch(e) ==
    LET listeners == registered[Source[e]] IN
    /\ EAt(e, "new")
    /\ event' = [event EXCEPT ![e].pc = "run", ![e].all = listeners, ![e].todo = listeners]
    /\ disturbed' = (disturbed \/ \E f \in Events : Source[f] = Source[e] /\ event[f].pc \in {"run", "forget"})
    /\ UNCHANGED <<registered, bridge, inbox, called, published>>

(* Mutant: the order is that of registration. *)
NextListener_Any(e) == event[e].todo

NextListener(e) == {l \in event[e].todo : \A k \in event[e].todo : Priority[k] <= Priority[l]}

(* Mutant: the bus iterates over its own list. *)
CallListener_Live(e, l) ==
    /\ EAt(e, "run")
    /\ ~ event[e].stopped
    /\ l \in NextListener(e)
    /\ called' = IF l \in registered[Source[e]] THEN [called EXCEPT ![e] = @ \cup {l}] ELSE called
    /\ event' = [event EXCEPT ![e].todo = @ \ {l}, ![e].once = @ \cup ({l} \cap Once)]
    /\ UNCHANGED <<registered, bridge, inbox, published, disturbed>>

(***************************************************************************)
(* The listener returns, and may have stopped the event.                   *)
(***************************************************************************)
CallListener(e, l) ==
    /\ EAt(e, "run")
    /\ ~ event[e].stopped
    /\ l \in NextListener(e)
    /\ called' = [called EXCEPT ![e] = @ \cup {l}]
    /\ \E s \in BOOLEAN : event' = [event EXCEPT ![e].todo = @ \ {l}, ![e].once = @ \cup ({l} \cap Once),
                                                ![e].stopped = s]
    /\ UNCHANGED <<registered, bridge, inbox, published, disturbed>>

(***************************************************************************)
(* The listener raises: it is not forgotten, and the handler logs its      *)
(* __name__.  Without one, the AttributeError ends the dispatch: nothing   *)
(* is forgotten, nothing is published.                                     *)
(***************************************************************************)
ListenerRaises(e, l) ==
    /\ EAt(e, "run")
    /\ ~ event[e].stopped
    /\ l \in NextListener(e)
    /\ called' = [called EXCEPT ![e] = @ \cup {l}]
    /\ event' = [event EXCEPT ![e].todo = @ \ {l}, ![e].pc = IF l \in Nameless THEN "raised" ELSE "run"]
    /\ disturbed' = (disturbed \/ l \in Nameless)
    /\ UNCHANGED <<registered, bridge, inbox, published>>

ListenersDone(e) ==
    /\ EAt(e, "run")
    /\ event[e].stopped \/ event[e].todo = {}
    /\ event' = [event EXCEPT ![e].pc = "forget"]
    /\ UNCHANGED <<registered, bridge, inbox, called, published, disturbed>>

(* Mutant: nothing is forgotten. *)
ForgetOnce_Not(e) ==
    /\ EAt(e, "forget")
    /\ event' = [event EXCEPT ![e].pc = "publish"]
    /\ UNCHANGED <<registered, bridge, inbox, called, published, disturbed>>

ForgetOnce(e) ==
    /\ EAt(e, "forget")
    /\ registered' = [registered EXCEPT ![Source[e]] = @ \ event[e].once]
    /\ event' = [event EXCEPT ![e].pc = "publish"]
    /\ UNCHANGED <<bridge, inbox, called, published, disturbed>>

Forget(p, l) ==
    /\ l \in registered[p] \ Once
    /\ registered' = [registered EXCEPT ![p] = @ \ {l}]
    /\ UNCHANGED <<event, bridge, inbox, called, published, disturbed>>

-----------------------------------------------------------------------------
(* The bridge *)

Subscribed == {p \in Nodes : bridge[p] = "on"}

(***************************************************************************)
(* Redis sends the message to whoever is subscribed now, the publisher     *)
(* among them; or it is away, which is logged.                             *)
(***************************************************************************)
Publish(e) ==
    /\ EAt(e, "publish")
    /\ event' = [event EXCEPT ![e].pc = "done"]
    /\ \/ /\ published' = [published EXCEPT ![e] = @ + 1]
          /\ inbox' = [p \in Nodes |-> IF p \in Subscribed THEN inbox[p] \cup {e} ELSE inbox[p]]
       \/ UNCHANGED <<published, inbox>>
    /\ UNCHANGED <<registered, bridge, called, disturbed>>

(* Mutant: the listeners run, and the event is published again. *)
HandleMessage_Echoes(p, e) ==
    /\ e \in inbox[p]
    /\ inbox' = [q \in Nodes |-> IF q \in Subscribed THEN inbox[q] \cup {e} ELSE inbox[q]]
    /\ published' = [published EXCEPT ![e] = @ + 1]
    /\ UNCHANGED <<registered, event, bridge, called, disturbed>>

(***************************************************************************)
(* The message is dispatched again with a keyword _broadcast_source, which *)
(* the constructor of Event does not have: the TypeError is logged as a    *)
(* message that could not be parsed, and no listener is called.            *)
(***************************************************************************)
HandleMessage(p, e) ==
    /\ e \in inbox[p]
    /\ inbox' = [inbox EXCEPT ![p] = @ \ {e}]
    /\ UNCHANGED <<registered, event, bridge, called, published, disturbed>>

Start(p) ==
    /\ bridge[p] = "off"
    /\ bridge' = [bridge EXCEPT ![p] = "on"]
    /\ UNCHANGED <<registered, event, inbox, called, published, disturbed>>

(***************************************************************************)
(* A broken subscription loses what was under way.                         *)
(***************************************************************************)
LoseConnection(p) ==
    /\ bridge[p] = "on"
    /\ bridge' = [bridge EXCEPT ![p] = "broken"]
    /\ inbox' = [inbox EXCEPT ![p] = {}]
    /\ UNCHANGED <<registered, event, called, published, disturbed>>

(***************************************************************************)
(* The subscription is made anew, but the loop goes on reading the one it  *)
(* began with, which is closed: nothing arrives until the bridge is        *)
(* stopped and started.                                                    *)
(***************************************************************************)
Resubscribe(p) ==
    /\ bridge[p] = "broken"
    /\ bridge' = [bridge EXCEPT ![p] = "deaf"]
    /\ UNCHANGED <<registered, event, inbox, called, published, disturbed>>

Stop(p) ==
    /\ bridge[p] # "off"
    /\ bridge' = [bridge EXCEPT ![p] = "off"]
    /\ inbox' = [inbox EXCEPT ![p] = {}]
    /\ UNCHANGED <<registered, event, called, published, disturbed>>

BusNext ==
    \/ \E e \in Events :
        \/ Dispatch(e)
        \/ \E l \in Listeners : CallListener(e, l) \/ ListenerRaises(e, l)
        \/ ListenersDone(e)
        \/ ForgetOnce(e)
        \/ Publish(e)
    \/ \E p \in Nodes, l \in Listeners : Forget(p, l)
    \/ \E p \in Nodes, e \in Events : HandleMessage(p, e)
    \/ \E p \in Nodes : Start(p) \/ LoseConnection(p) \/ Resubscribe(p) \/ Stop(p)

BusSpec == BusInit /\ [][BusNext]_busVars

-----------------------------------------------------------------------------

(***************************************************************************)
(* A dispatch calls its listeners by priority, whatever other dispatches   *)
(* and forget() do meanwhile.                                              *)
(***************************************************************************)
ByPriority ==
    [][\A e \in Events : \A l \in called'[e] \ called[e], k \in called[e] : Priority[l] < Priority[k]]_busVars

(***************************************************************************)
(* Every listener that was registered when the dispatch began is called    *)
(* unless an earlier one stopped the event, though it be forgotten by then.*)
(***************************************************************************)
AllCalled ==
    \A e \in Events : event[e].pc \in {"forget", "publish", "done"} /\ ~ event[e].stopped
        => called[e] = event[e].all

(***************************************************************************)
(* "once: Remove listener after first invocation": after one that returns, *)
(* if no dispatches of a process overlap and none breaks off.              *)
(***************************************************************************)
OnceOnly ==
    ~ disturbed => \A p \in Nodes, l \in Once :
        Cardinality({e \in Events : Source[e] = p /\ l \in event[e].once}) <= 1

(***************************************************************************)
(* What comes from Redis is not published again.                           *)
(***************************************************************************)
NoEcho == \A e \in Events : published[e] <= 1

(***************************************************************************)
(* A dispatch calls each of its listeners, those for once in one dispatch  *)
(* only, and an event is published at most once.                           *)
(***************************************************************************)
EventsSafe ==
    /\ AllCalled
    /\ OnceOnly
    /\ NoEcho
=============================================================================
