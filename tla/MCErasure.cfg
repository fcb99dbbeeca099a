\* One request, two executions, a cancellation and a visit; one table refuses.
CONSTANTS
    Tables = {1, 2, 3}
    TokenTable = 2
    Refusing = {3}
    Requests = {"r1"}
    Executions = {"x1", "x2"}
    Verified = {"x1"}
    Cancellations = {"k1"}
    Visits = {"v1"}
SPECIFICATION ErasureSpec
INVARIANTS CertificateHonest
CHECK_DEADLOCK FALSE
