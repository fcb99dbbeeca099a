----------------------------- MODULE Container -----------------------------
(***************************************************************************)
(* The dependency container and its scopes                                 *)
(* (swx_core/container/container.py, fastapi_integration.py).              *)
(*                                                                         *)
(* One container serves all requests.  A request opens a scope, resolves a *)
(* service and closes the scope; requests run in threads of their own.     *)
(* The maps and the build stack are shared and not locked; the two locks   *)
(* are reentrant.  Instances are named by who built them.                  *)
(***************************************************************************)
EXTENDS Integers, Sequences, FiniteSets

CONSTANTS
    Threads,
    Singletons,
    Scoped,         \* services bound as scoped; all others are transient
    Services,
    Needs,          \* Needs[k]: the service k is built from, or none
    NoService,
    Base,           \* the scope in force when no request runs
    Goals           \* the services a request may ask for

ASSUME ContainerAssumption ==
    /\ Singletons \cup Scoped \subseteq Services
    /\ Singletons \cap Scoped = {}
    /\ Needs \in [Services -> Services \cup {NoService}]
    /\ NoService \notin Services
    /\ Base \notin Threads
    /\ Goals \subseteq Services

VARIABLES
    instances,      \* the singletons that are stored
    current,        \* the scope in force
    scopes,         \* scopes[s]: who stored which scoped instance in s
    stack,          \* _build_stack
    held,           \* holders of _singleton_lock and _scoped_lock, and depth
    thread,         \* thread[t]: its goal and frames, the scope to restore
    built,          \* history: how often each singleton was built
    taken,          \* history: taken[t]: who built what t got, or nobody
    overlapped      \* history: two scopes were open at the same time

containerVars == <<instances, current, scopes, stack, held, thread, built, taken, overlapped>>

Locks == {"singleton", "scoped"}
Nobody == Base

Frame == [key: Services, at: {"make", "look", "acquire", "recheck", "store", "return", "raise"}]

(***************************************************************************)
(* Stack and frames stay as short as the longest chain of needs, so        *)
(* their lengths are not bounded here.                                     *)
(***************************************************************************)
ContainerTypeOK ==
    /\ instances \subseteq Singletons
    /\ current \in Threads \cup {Base}
    /\ scopes \in [Threads \cup {Base} -> SUBSET (Threads \X Scoped)]
    /\ stack \in Seq(Services)
    /\ held \in [Locks -> [holder: Threads \cup {Nobody}, depth: Nat]]
    /\ \A l \in Locks : (held[l].depth = 0) <=> (held[l].holder = Nobody)
    /\ thread \in [Threads -> [goal: Services \cup {NoService}, frames: Seq(Frame), saved: Threads \cup {Base},
                               state: {"new", "making", "made", "raised", "closed"}]]
    /\ built \in [Singletons -> Nat]
    /\ taken \in [Threads -> Threads \cup {Nobody}]
    /\ overlapped \in BOOLEAN

ContainerInit ==
    /\ instances = {}
    /\ current = Base
    /\ scopes = [s \in Threads \cup {Base} |-> {}]
    /\ stack = <<>>
    /\ held = [l \in Locks |-> [holder |-> Nobody, depth |-> 0]]
    /\ thread = [t \in Threads |-> [goal |-> NoService, frames |-> <<>>, saved |-> Base, state |-> "new"]]
    /\ built = [k \in Singletons |-> 0]
    /\ taken = [t \in Threads |-> Nobody]
    /\ overlapped = FALSE

-----------------------------------------------------------------------------
(* Locks and frames *)

Obtainable(t, l) == held[l].holder \in {t, Nobody}

Obtain(t, l) == held' = [held EXCEPT ![l] = [holder |-> t, depth |-> @.depth + 1]]

(* Mutant: a lock given back keeps its holder. *)
Released_KeepsHolder(l) == [held[l] EXCEPT !.depth = @ - 1]

Released(l) == IF held[l].depth = 1 THEN [holder |-> Nobody, depth |-> 0]
               ELSE [held[l] EXCEPT !.depth = @ - 1]

LockOf(k) == IF k \in Singletons THEN "singleton" ELSE "scoped"

Front(s) == SubSeq(s, 1, Len(s) - 1)

At(t, label) == thread[t].frames # <<>> /\ Head(thread[t].frames).at = label

Key(t) == Head(thread[t].frames).key

To(frames, label) == [frames EXCEPT ![1].at = label]

Step(t, label) == thread' = [thread EXCEPT ![t].frames = To(@, label)]

InStack(k) == \E i \in DOMAIN stack : stack[i] = k

InScope(k) == {p \in scopes[current] : p[2] = k}

-----------------------------------------------------------------------------
(* async_scope, with the scoped lock held for the switch only *)

OpenIn(t, k, scope) ==
    /\ thread[t].state = "new"
    /\ Obtainable(t, "scoped")
    /\ current' = scope
    /\ thread' = [thread EXCEPT ![t] = [goal |-> k, frames |-> <<[key |-> k, at |-> "make"]>>,
                                        saved |-> current, state |-> "making"]]
    /\ overlapped' = (overlapped \/ \E u \in Threads : thread[u].state \notin {"new", "closed"})
    /\ UNCHANGED <<instances, scopes, stack, held, built, taken>>

(* Mutant: a scope goes on with the instances of the one before. *)
OpenScope_Inherits(t, k) == OpenIn(t, k, current)

OpenScope(t, k) == OpenIn(t, k, t)

(***************************************************************************)
(* The end of a scope restores what was in force at its beginning, also    *)
(* when scopes do not nest.                                                *)
(***************************************************************************)
CloseScope(t) ==
    /\ thread[t].state \in {"made", "raised"}
    /\ Obtainable(t, "scoped")
    /\ current' = thread[t].saved
    /\ thread' = [thread EXCEPT ![t].state = "closed"]
    /\ UNCHANGED <<instances, scopes, stack, held, built, taken, overlapped>>

-----------------------------------------------------------------------------
(* make and _resolve *)

Make(t) ==
    /\ At(t, "make")
    /\ IF InStack(Key(t))
       THEN Step(t, "raise") /\ UNCHANGED stack
       ELSE Step(t, "look") /\ stack' = Append(stack, Key(t))
    /\ UNCHANGED <<instances, current, scopes, held, built, taken, overlapped>>

Keep(t, who) == taken' = [taken EXCEPT ![t] = IF Len(thread[t].frames) = 1 THEN who ELSE @]

(***************************************************************************)
(* A stored singleton is found without a lock; the scoped ones are looked  *)
(* up under the scoped lock, for every service.                            *)
(***************************************************************************)
LookUp(t) ==
    /\ At(t, "look")
    /\ \/ Key(t) \in instances /\ Step(t, "return") /\ UNCHANGED taken
       \/ /\ Key(t) \notin instances
          /\ Obtainable(t, "scoped")
          /\ IF InScope(Key(t)) # {}
             THEN \E p \in InScope(Key(t)) : Keep(t, p[1]) /\ Step(t, "return")
             ELSE Step(t, "acquire") /\ UNCHANGED taken
    /\ UNCHANGED <<instances, current, scopes, stack, held, built, overlapped>>

Acquire(t) ==
    /\ At(t, "acquire")
    /\ IF Key(t) \in Singletons \cup Scoped
       THEN Obtainable(t, LockOf(Key(t))) /\ Obtain(t, LockOf(Key(t)))
       ELSE UNCHANGED held
    /\ Step(t, "recheck")
    /\ UNCHANGED <<instances, current, scopes, stack, built, taken, overlapped>>

Begin(t) ==
    /\ thread' = [thread EXCEPT ![t].frames =
                    IF Needs[Key(t)] = NoService THEN To(@, "store")
                    ELSE <<[key |-> Needs[Key(t)], at |-> "make"]>> \o To(@, "store")]
    /\ UNCHANGED <<held, taken>>

(* Mutant: the singleton is not looked up again under the lock. *)
Recheck_Skipped(t) ==
    /\ At(t, "recheck")
    /\ \/ Key(t) \in Scoped /\ \E p \in InScope(Key(t)) :
            Keep(t, p[1]) /\ Step(t, "return") /\ held' = [held EXCEPT !["scoped"] = Released("scoped")]
       \/ ~ (Key(t) \in Scoped /\ InScope(Key(t)) # {}) /\ Begin(t)
    /\ UNCHANGED <<instances, current, scopes, stack, built, overlapped>>

(***************************************************************************)
(* Under the lock the lookup is repeated; then the factory runs, which     *)
(* makes what the service needs.                                           *)
(***************************************************************************)
Recheck(t) ==
    /\ At(t, "recheck")
    /\ \/ /\ Key(t) \in instances
          /\ Step(t, "return")
          /\ held' = [held EXCEPT !["singleton"] = Released("singleton")]
          /\ UNCHANGED taken
       \/ /\ Key(t) \in Scoped
          /\ \E p \in InScope(Key(t)) : Keep(t, p[1])
          /\ Step(t, "return")
          /\ held' = [held EXCEPT !["scoped"] = Released("scoped")]
       \/ /\ Key(t) \notin instances
          /\ Key(t) \in Scoped => InScope(Key(t)) = {}
          /\ Begin(t)
    /\ UNCHANGED <<instances, current, scopes, stack, built, overlapped>>

Store(t) ==
    /\ At(t, "store")
    /\ instances' = instances \cup ({Key(t)} \cap Singletons)
    /\ built' = [k \in Singletons |-> built[k] + IF k = Key(t) THEN 1 ELSE 0]
    /\ scopes' = IF Key(t) \in Scoped THEN [scopes EXCEPT ![current] = @ \cup {<<t, Key(t)>>}] ELSE scopes
    /\ held' = IF Key(t) \in Singletons \cup Scoped
               THEN [held EXCEPT ![LockOf(Key(t))] = Released(LockOf(Key(t)))] ELSE held
    /\ Keep(t, t)
    /\ Step(t, "return")
    /\ UNCHANGED <<current, stack, overlapped>>

(***************************************************************************)
(* The finally clause takes the last key, whoever put it there.            *)
(***************************************************************************)
Return(t) ==
    /\ At(t, "return")
    /\ stack' = Front(stack)
    /\ thread' = [thread EXCEPT ![t].frames = Tail(@), ![t].state =
                    IF Len(thread[t].frames) = 1 THEN "made" ELSE "making"]
    /\ UNCHANGED <<instances, current, scopes, held, built, taken, overlapped>>

(* Mutant: a factory that fails keeps its key on the stack. *)
Raise_NoPop(t) ==
    /\ At(t, "raise")
    /\ LET rest == Tail(thread[t].frames)
       IN  IF rest = <<>>
           THEN /\ thread' = [thread EXCEPT ![t].frames = <<>>, ![t].state = "raised"]
                /\ UNCHANGED held
           ELSE /\ thread' = [thread EXCEPT ![t].frames = To(rest, "raise")]
                /\ held' = IF Head(rest).key \in Singletons \cup Scoped
                           THEN [held EXCEPT ![LockOf(Head(rest).key)] = Released(LockOf(Head(rest).key))]
                           ELSE held
    /\ UNCHANGED <<instances, current, scopes, stack, built, taken, overlapped>>

(***************************************************************************)
(* The frame that raised has put nothing on the stack; each frame below    *)
(* gives its lock back and takes a key from the stack.                     *)
(***************************************************************************)
Raise(t) ==
    /\ At(t, "raise")
    /\ LET rest == Tail(thread[t].frames)
       IN  IF rest = <<>>
           THEN /\ thread' = [thread EXCEPT ![t].frames = <<>>, ![t].state = "raised"]
                /\ UNCHANGED <<stack, held>>
           ELSE /\ thread' = [thread EXCEPT ![t].frames = To(rest, "raise")]
                /\ stack' = Front(stack)
                /\ held' = IF Head(rest).key \in Singletons \cup Scoped
                           THEN [held EXCEPT ![LockOf(Head(rest).key)] = Released(LockOf(Head(rest).key))]
                           ELSE held
    /\ UNCHANGED <<instances, current, scopes, built, taken, overlapped>>

ContainerNext ==
    \E t \in Threads :
        \/ \E k \in Goals : OpenScope(t, k)
        \/ Make(t)
        \/ LookUp(t)
        \/ Acquire(t)
        \/ Recheck(t)
        \/ Store(t)
        \/ Return(t)
        \/ Raise(t)
        \/ CloseScope(t)

ContainerSpec == ContainerInit /\ [][ContainerNext]_containerVars

-----------------------------------------------------------------------------

(***************************************************************************)
(* A singleton is built once, however many threads ask for it at once.     *)
(***************************************************************************)
BuiltOnce == \A k \in Singletons : built[k] <= 1

(***************************************************************************)
(* When no thread is at work, the locks are free and the build stack is    *)
(* empty, although threads take each other's keys from it.                 *)
(***************************************************************************)
LeftClean ==
    (\A t \in Threads : thread[t].frames = <<>>) =>
        stack = <<>> /\ \A l \in Locks : held[l].holder = Nobody

(***************************************************************************)
(* As long as scopes do not overlap, a request gets a scoped instance of   *)
(* its own, and the container is in the scope of the one request at work.  *)
(***************************************************************************)
OwnScope ==
    ~ overlapped =>
        /\ \A t \in Threads : thread[t].goal \in Scoped => taken[t] \in {t, Nobody}
        /\ current = Base \/ thread[current].state \notin {"new", "closed"}

(***************************************************************************)
(* What concurrent requests get from the container, and what they leave    *)
(* behind.                                                                 *)
(***************************************************************************)
ContainerSafe ==
    /\ BuiltOnce
    /\ LeftClean
    /\ OwnScope

(***************************************************************************)
(* "Thread-safe singleton/scoped resolution via RLock" (container.py): two *)
(* threads do not wait for each other.                                     *)
(***************************************************************************)
Waits(t, l) ==
    /\ ~ Obtainable(t, l)
    /\ \/ l = "scoped" /\ At(t, "look") /\ Key(t) \notin instances
       \/ At(t, "acquire") /\ l = LockOf(Key(t))

NoDeadlock ==
    ~ \E t, u \in Threads :
        /\ Waits(t, "scoped") /\ held["scoped"].holder = u
        /\ Waits(u, "singleton") /\ held["singleton"].holder = t

-----------------------------------------------------------------------------

(***************************************************************************)
(* Two ways the services S, A, B and C may need one another, for the runs: *)
(* the scoped S and the singleton A are built from one other singleton, or *)
(* from two different ones.                                                *)
(***************************************************************************)
NeedsOne == [k \in Services |-> IF k = "B" THEN NoService ELSE "B"]

NeedsTwo == [k \in Services |-> IF k = "S" THEN "C" ELSE IF k = "A" THEN "B" ELSE NoService]
=============================================================================
