\* Three services, of which the last is the scheduler, with one job; three
\* threads on the container; two events over two processes; two lookups and a
\* change of permissions over two processes; two edits, a creation, a deletion
\* and a bulk deletion of two rows; three rows on pages of two; a session with
\* three writes; two providers with a caller that waits and one that streams.
CONSTANTS
    ServiceCount = 3
    Jobs = {"report"}
    Raising = {"report"}
    LastTask = 3
    Threads = {"t1", "t2", "t3"}
    Singletons = {"A", "B"}
    Scoped = {"S"}
    Services = {"A", "B", "S"}
    Needs <- NeedsOne
    NoService = "none"
    Base = "base"
    Goals = {"A", "S"}
    Nodes = {"p", "q"}
    Events = {"e1", "e2"}
    Source <- OneSource
    Listeners = {1, 2}
    Priority <- OwnPriority
    Once = {2}
    Nameless = {1}
    Processes = {"p", "q"}
    Lookups = {"u1", "u3"}
    Changes = {"m1"}
    Home <- HomeOf
    Ttl = 2
    LastTime = 3
    Ids = {1, 2}
    Columns = {"title", "is_deleted"}
    Values = {"old", "new", "yes", "no"}
    RecordCalls = {"rename", "hide", "create", "remove", "clear"}
    Work <- WorkOf
    Blank <- BlankRow
    Items = {"r1", "r2", "r3"}
    PerPage = 2
    LastItemTime = 3
    Writes = {"w1", "w2", "w3"}
    Callers = {"waits", "streams"}
    Streaming = {"streams"}
    Providers = 2
    FailureThreshold = 2
    RecoverySeconds = 1
    MaxRetries = 1
    LastSecond = 1
SPECIFICATION Spec
INVARIANTS RuntimeTypes ProcessSafe EventsSafe CachesSafe DataSafe UnitsSafe
    FallbackSafe
PROPERTIES ByPriority
CHECK_DEADLOCK FALSE
