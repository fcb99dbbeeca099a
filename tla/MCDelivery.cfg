\* The drain worker and a request write at once; stops, crashes, retention.
\* One delivery that two sessions may have, two retries, one asked for by hand.
CONSTANTS
    drain = drain
    request = request
    Writers <- TwoWriters
    Drain = drain
    MaxEntries = 1
    MaxQueue = 2
    BatchSize = 2
    MaxRetryCycles = 1
    MaxPuts = 2
    Posts = {"d1"}
    Carriers = {"w1", "w2"}
    MaxRetries = 2
    Threshold = 2
    MaxManual = 1
SPECIFICATION Spec
INVARIANTS DeliveryTypes SerialChainMatches DeliverySafe
PROPERTIES  Settles
CHECK_DEADLOCK FALSE
