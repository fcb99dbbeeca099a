\* Three rate checks of one key; two logins, a sign-in with a second factor
\* and one by a provider, a refresh, a logout and a password reset of one
\* user, any MaxAuthCalls of them; two enrolments of a second factor with a
\* confirmation, an entry, a removal and a renewal; an API key that is made,
\* rotated, edited, used, revoked and swept; two users, two social identities
\* and seven calls; two team invitations with five answers; two organization
\* invitations with three answers; two policies.
CONSTANTS
    Checks = {1, 2, 3}
    Limit = 2
    Span = 3
    Violations = 2
    AbuseSpan = 2
    LastTick = 5
    Logins = {"l1", "l2"}
    Challenges = {"m1"}
    SocialLogins = {"s1"}
    MaxAuthCalls = 4
    Refreshes = {"f1"}
    Logouts = {"o1"}
    PasswordResets = {"p1"}
    MaxSessions = 2
    Threshold = 2
    Enrolments = {1, 2}
    Confirmations = {11}
    Entries = {21}
    Removals = {31}
    Renewals = {3}
    CodesPerSet = 1
    Keys = {"k1", "k2"}
    Scopes = {"read"}
    Creators = {"c1"}
    Rotations = {"r1"}
    Revocations = {"v1"}
    Requests = {"q1"}
    ScopeEdits = {"e1"}
    KeyLife = 0
    IdleLimit = 0
    LastPeriod = 1
    Addresses = {"ann", "bob"}
    Identities = {"goog", "face"}
    Links = {"link1", "link2"}
    Unlinks = {"unlink1", "unlink2"}
    SignIns = {"sign1"}
    Registrations = {"callback"}
    Verifications = {"verify"}
    SocialSignUps = {"callback"}
    UserOf <- UserOfCall
    IdentityOf <- IdentityOfCall
    ProviderOf <- ProviderOfIdentity
    Invites = {"i1", "i2"}
    Accepts = {"a1", "a2"}
    Declines = {"d1"}
    Withdrawals = {"w1"}
    Users = {"own", "ann", "bob"}
    Owner = "own"
    OrgInvites = {"v1", "v2"}
    OrgAccepts = {"j1", "j2"}
    AcceptsFor <- AcceptsBy
    OrgRejects = {"n1"}
    MaxMembers = 2
    PolicyIds = {"p1", "p2"}
    Operators = {"ne", "not_exists"}
    Priorities = {1, 2}
SPECIFICATION Spec
INVARIANTS AccessTypes  KeysSafe AccountsSafe MembershipSafe
    DecisionRight
PROPERTIES AnswerStays
CHECK_DEADLOCK FALSE
