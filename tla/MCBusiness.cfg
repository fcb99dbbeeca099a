\* Two creations, one of them a trial, a Stripe synchronisation and two
\* edits; two attempts for a plan and two for a pack, three deliveries of an
\* event; three reviews of an adjustment by two admins; two charges and two
\* resets over two windows; three lots with two consumers and a sweep; two
\* grants of a consent, a withdrawal, an expiry pass and a check; one erasure
\* request, two executions and a cancellation, any MaxErasureCalls of them,
\* beside another request of the user; three reads of a setting in two
\* processes beside two writes; two servers and the command line over five
\* configurations.
CONSTANTS
    Creates = {"c1", "c2"}
    Trials = {"c2"}
    StripeIds = {"s1"}
    Syncs = {"y1"}
    Edits = {"e1", "e2"}
    References = {"plan", "pack"}
    Plans = {"plan"}
    Attempts = {"confirm", "webhook", "credit", "topup"}
    ReferenceOf <- ReferenceOfAttempt
    Deliveries = {"d1", "d2", "d3"}
    Admins = {"ann", "bob"}
    Reviews = {"a1", "a2", "r1"}
    Approving = {"a1", "a2"}
    Charges = {"small", "big"}
    Tokens <- TokensOf
    Resets = {"reset1", "reset2"}
    WindowQuota = 2
    MonthQuota = 3
    WindowResets = 1
    DayResets = 1
    LastWindow = 1
    Lots = {1, 2, 3}
    LotTokens <- TokensOfLot
    Expiring = {1, 2}
    Consumers = {"two", "three"}
    Wanted <- WantedBy
    Sweeps = {"sweep"}
    Grants = {"grant1", "grant2"}
    Withdrawals = {"withdraw"}
    Passes = {"pass"}
    Checks = {"check"}
    Processes = {"worker"}
    Ttl = 1
    LastMoment = 1
    ProcessOf <- ProcessOfCall
    Tables = {1, 2}
    TokenTable = 1
    Refusing = {2}
    Requests = {"r1"}
    Executions = {"x1", "x2"}
    Verified = {"x1"}
    Cancellations = {"k1"}
    Visits = {"v1"}
    MaxErasureCalls = 3
    Workers = {"p", "q"}
    Reads = {"a1", "a2", "b1"}
    ReaderOf <- WorkerOf
    Writes = {1, 2}
    CacheTtl = 2
    LastTick = 3
    Servers = {"s1", "s2"}
    Command = "cli"
    SecretRows = {"hook", "mail"}
    Covered = {"hook"}
    Stages <- Plan
    MaxWrites = 1
SPECIFICATION Spec
INVARIANTS BusinessTypes SubscriptionsSafe MoneySafe ConsentSafe
    ErasureSafe ConfigurationSafe
PROPERTIES ChargesSafe GraceRespected
CHECK_DEADLOCK FALSE
