\* Two requests: one makes a singleton with its need, one a scoped service.
CONSTANTS
    Threads = {"t1", "t2"}
    Singletons = {"A", "B", "C"}
    Scoped = {"S"}
    Services = {"A", "B", "C", "S"}
    Needs <- NeedsTwo
    NoService = "none"
    Base = "base"
    Goals = {"A", "S"}
SPECIFICATION ContainerSpec
INVARIANTS NoDeadlock
CHECK_DEADLOCK FALSE
