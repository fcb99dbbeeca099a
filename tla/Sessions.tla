------------------------------ MODULE Sessions ------------------------------
(***************************************************************************)
(* The refresh tokens of one user and the counting of wrong passwords      *)
(* (swx_core/services/auth_service.py, security/refresh_token_service.py,  *)
(* services/auth/session_service.py and their repositories).               *)
(*                                                                         *)
(* Each call has a database session of its own, reads what it needs and    *)
(* writes it back later; each step below is one statement or transaction.  *)
(* A refresh token is named by the call that issued it.  epoch counts the  *)
(* passwords: a token is of the epoch in which the call, or the first of   *)
(* the calls that it goes back to, made sure who the user is.              *)
(***************************************************************************)
EXTENDS Integers, FiniteSets

CONSTANTS
    Logins,         \* password logins
    Challenges,     \* calls of verify_mfa_challenge_service
    SocialLogins,   \* calls of login_social_user_service
    Refreshes,      \* calls of refresh_access_token_service
    Logouts,        \* calls of logout_service
    PasswordResets, \* calls of reset_password_service
    MaxSessions,    \* MAX_CONCURRENT_SESSIONS
    Threshold       \* ACCOUNT_LOCKOUT_THRESHOLD

ASSUME SessionsAssumption ==
    /\ MaxSessions \in Nat \ {0}
    /\ Threshold \in Nat \ {0}
    /\ Logins \cap (Challenges \cup SocialLogins \cup Refreshes \cup Logouts) = {}
    /\ Challenges \cap (SocialLogins \cup Refreshes \cup Logouts) = {}
    /\ SocialLogins \cap (Refreshes \cup Logouts) = {}
    /\ Refreshes \cap Logouts = {}
    /\ PasswordResets \cap (Logins \cup Challenges \cup SocialLogins \cup Refreshes \cup Logouts) = {}

VARIABLES
    rows,           \* the user's rows: creation order, token, and its epoch
    made,           \* rows created so far
    epoch,          \* the password hash in the users table
    failed,         \* failed_login_attempts
    lock,           \* locked_until: "none", "locked", or "over"
    auth,           \* auth[c]: where the call is and what it has read
    challenge,      \* the epochs of the mfa_tokens that are out
    entwined,       \* history: calls that write tokens, or count, overlapped
    outlived,       \* history: a reset met a call at work or an mfa_token
                    \* from before it, or died half-way
    wrong           \* history: wrong passwords since the last lock or success

authVars == <<rows, made, epoch, failed, lock, auth, challenge, entwined, outlived, wrong>>

Issuers == Logins \cup Challenges \cup SocialLogins \cup Refreshes
AuthCalls == Issuers \cup Logouts \cup PasswordResets

Row == [n: Nat, token: Issuers, epoch: Nat]

AuthTypeOK ==
    /\ rows \subseteq Row
    /\ \A r, s \in rows : r.n = s.n => r = s
    /\ made \in Nat
    /\ epoch \in Nat
    /\ failed \in Nat
    /\ lock \in {"none", "locked", "over"}
    /\ auth \in [AuthCalls -> [pc: {"new", "password", "lock", "limit", "trim", "find", "store",
                                    "clear", "delete", "revoke", "done", "failed"},
                               seen: Nat, tries: Nat, dirty: BOOLEAN, epoch: Nat]]
    /\ challenge \subseteq Nat
    /\ entwined \in BOOLEAN
    /\ outlived \in BOOLEAN
    /\ wrong \in Nat

AuthInit ==
    /\ rows = {}
    /\ made = 0
    /\ epoch = 0
    /\ failed = 0
    /\ lock = "none"
    /\ auth = [c \in AuthCalls |-> [pc |-> "new", seen |-> 0, tries |-> 0, dirty |-> FALSE, epoch |-> 0]]
    /\ challenge = {}
    /\ entwined = FALSE
    /\ outlived = FALSE
    /\ wrong = 0

AGoto(c, label) == auth' = [auth EXCEPT ![c].pc = label]

Working == {c \in AuthCalls : auth[c].pc \notin {"new", "done", "failed"}}

Newest(S) == {r \in S : \A s \in S : s.n <= r.n}

-----------------------------------------------------------------------------
(* login_user_service *)

LoadUser(c) ==
    /\ auth[c].pc = "new"
    /\ lock # "locked"
    /\ auth' = [auth EXCEPT ![c].pc = "password", ![c].tries = failed, ![c].epoch = epoch,
                            ![c].dirty = (failed # 0 \/ lock # "none")]
    /\ entwined' = (entwined \/ Working # {})
    /\ UNCHANGED <<rows, made, epoch, failed, lock, challenge, outlived, wrong>>

RightPassword(c) ==
    /\ auth[c].pc = "password"
    /\ AGoto(c, "limit")
    /\ UNCHANGED <<rows, made, epoch, failed, lock, challenge, entwined, outlived, wrong>>

(***************************************************************************)
(* A user with a second factor gets an mfa_token instead: a signed token,  *)
(* of which nothing is stored and which serves until it expires.           *)
(***************************************************************************)
AskForFactor(c) ==
    /\ auth[c].pc = "password"
    /\ challenge' = challenge \cup {auth[c].epoch}
    /\ AGoto(c, "done")
    /\ UNCHANGED <<rows, made, epoch, failed, lock, entwined, outlived, wrong>>

ChallengeExpires(e) ==
    /\ challenge' = challenge \ {e}
    /\ challenge' # challenge
    /\ UNCHANGED <<rows, made, epoch, failed, lock, auth, entwined, outlived, wrong>>

(***************************************************************************)
(* verify_mfa_challenge_service, given a code that is right, goes on with  *)
(* the token it was handed, whatever has become of the password.           *)
(***************************************************************************)
VerifyChallenge(c) ==
    /\ auth[c].pc = "new"
    /\ \E e \in challenge : auth' = [auth EXCEPT ![c].pc = "limit", ![c].epoch = e]
    /\ entwined' = (entwined \/ Working # {})
    /\ UNCHANGED <<rows, made, epoch, failed, lock, challenge, outlived, wrong>>

(***************************************************************************)
(* login_social_user_service: the provider vouches for the user.           *)
(***************************************************************************)
SocialLogin(c) ==
    /\ auth[c].pc = "new"
    /\ auth' = [auth EXCEPT ![c].pc = "limit", ![c].epoch = epoch]
    /\ entwined' = (entwined \/ Working # {})
    /\ UNCHANGED <<rows, made, epoch, failed, lock, challenge, outlived, wrong>>

(* Mutant: the account is locked one wrong password late. *)
WrongPassword_OffByOne(c) ==
    /\ auth[c].pc = "password"
    /\ failed' = auth[c].tries + 1
    /\ AGoto(c, IF failed' > Threshold THEN "lock" ELSE "done")
    /\ wrong' = wrong + 1
    /\ UNCHANGED <<rows, made, epoch, lock, challenge, entwined, outlived>>

(***************************************************************************)
(* increment_failed_login_attempts adds to what was loaded.                *)
(***************************************************************************)
WrongPassword(c) ==
    /\ auth[c].pc = "password"
    /\ failed' = auth[c].tries + 1
    /\ AGoto(c, IF failed' >= Threshold THEN "lock" ELSE "done")
    /\ wrong' = wrong + 1
    /\ UNCHANGED <<rows, made, epoch, lock, challenge, entwined, outlived>>

LockUserAccount(c) ==
    /\ auth[c].pc = "lock"
    /\ lock' = "locked"
    /\ wrong' = 0
    /\ AGoto(c, "done")
    /\ UNCHANGED <<rows, made, epoch, failed, challenge, entwined, outlived>>

LockEnds ==
    /\ lock = "locked"
    /\ lock' = "over"
    /\ UNCHANGED <<rows, made, epoch, failed, auth, challenge, entwined, outlived, wrong>>

ResetLoginAttempts(c) ==
    /\ auth[c].pc = "clear"
    /\ failed' = IF auth[c].dirty THEN 0 ELSE failed
    /\ lock' = IF auth[c].dirty THEN "none" ELSE lock
    /\ wrong' = 0
    /\ AGoto(c, "done")
    /\ UNCHANGED <<rows, made, epoch, challenge, entwined, outlived>>

-----------------------------------------------------------------------------
(* create_refresh_token *)

(***************************************************************************)
(* enforce_concurrent_limit counts, and then deletes all but the newest.   *)
(***************************************************************************)
CountSessions(c) ==
    /\ auth[c].pc = "limit"
    /\ AGoto(c, IF Cardinality(rows) < MaxSessions THEN "find" ELSE "trim")
    /\ UNCHANGED <<rows, made, epoch, failed, lock, challenge, entwined, outlived, wrong>>

RevokeOldest(c) ==
    /\ auth[c].pc = "trim"
    /\ rows' = {r \in rows : Cardinality({s \in rows : s.n > r.n}) < MaxSessions - 1}
    /\ AGoto(c, "find")
    /\ UNCHANGED <<made, epoch, failed, lock, challenge, entwined, outlived, wrong>>

(* Mutant: an existing row is not looked for. *)
FindToken_None(c) ==
    /\ auth[c].pc = "find"
    /\ auth' = [auth EXCEPT ![c].pc = "store", ![c].seen = 0]
    /\ UNCHANGED <<rows, made, epoch, failed, lock, challenge, entwined, outlived, wrong>>

FindToken(c) ==
    /\ auth[c].pc = "find"
    /\ \/ rows = {} /\ auth' = [auth EXCEPT ![c].pc = "store", ![c].seen = 0]
       \/ \E r \in Newest(rows) : auth' = [auth EXCEPT ![c].pc = "store", ![c].seen = r.n]
    /\ UNCHANGED <<rows, made, epoch, failed, lock, challenge, entwined, outlived, wrong>>

Stored(c) == AGoto(c, IF c \in Logins THEN "clear" ELSE "done")

CreateToken(c) ==
    /\ auth[c].pc = "store"
    /\ auth[c].seen = 0
    /\ made' = made + 1
    /\ rows' = rows \cup {[n |-> made', token |-> c, epoch |-> auth[c].epoch]}
    /\ Stored(c)
    /\ UNCHANGED <<epoch, failed, lock, challenge, entwined, outlived, wrong>>

(***************************************************************************)
(* The row that was found gets the new token.  If it is gone by now the    *)
(* UPDATE raises, see AuthFails.                                           *)
(***************************************************************************)
UpdateExistingToken(c) ==
    /\ auth[c].pc = "store"
    /\ \E r \in rows :
        /\ r.n = auth[c].seen
        /\ rows' = (rows \ {r}) \cup {[n |-> r.n, token |-> c, epoch |-> auth[c].epoch]}
    /\ Stored(c)
    /\ UNCHANGED <<made, epoch, failed, lock, challenge, entwined, outlived, wrong>>

-----------------------------------------------------------------------------

(***************************************************************************)
(* verify_refresh_token compares with the newest row only.                 *)
(***************************************************************************)
VerifyRefresh(c) ==
    /\ auth[c].pc = "new"
    /\ \E r \in Newest(rows) : auth' = [auth EXCEPT ![c].pc = "limit", ![c].epoch = r.epoch]
    /\ entwined' = (entwined \/ Working # {})
    /\ UNCHANGED <<rows, made, epoch, failed, lock, challenge, outlived, wrong>>

VerifyLogout(c) ==
    /\ auth[c].pc = "new"
    /\ \E r \in Newest(rows) : auth' = [auth EXCEPT ![c].pc = "delete", ![c].seen = r.n]
    /\ entwined' = (entwined \/ Working # {})
    /\ UNCHANGED <<rows, made, epoch, failed, lock, challenge, outlived, wrong>>

(***************************************************************************)
(* revoke_refresh_token, if the row still has the token.                   *)
(***************************************************************************)
RevokeToken(c) ==
    /\ auth[c].pc = "delete"
    /\ rows' = {r \in rows : r.n # auth[c].seen}
    /\ AGoto(c, "done")
    /\ UNCHANGED <<made, epoch, failed, lock, challenge, entwined, outlived, wrong>>

UpdatePasswordHash(c) ==
    /\ auth[c].pc = "new"
    /\ epoch' = epoch + 1
    /\ AGoto(c, "revoke")
    /\ UNCHANGED <<rows, made, failed, lock, challenge, entwined, outlived, wrong>>

(* A call at work, or an mfa_token, that goes back to an older password. *)
OfOlderPassword ==
    \/ \E d \in Working \cap Issuers : auth[d].epoch < epoch
    \/ \E e \in challenge : e < epoch

(* Mutant: the reset revokes the newest session only. *)
RevokeAllTokens_Newest(c) ==
    /\ auth[c].pc = "revoke"
    /\ rows' = rows \ Newest(rows)
    /\ outlived' = (outlived \/ OfOlderPassword)
    /\ AGoto(c, "done")
    /\ UNCHANGED <<made, epoch, failed, lock, challenge, entwined, wrong>>

(***************************************************************************)
(* The password is committed before the sessions are deleted.              *)
(***************************************************************************)
RevokeAllTokens(c) ==
    /\ auth[c].pc = "revoke"
    /\ rows' = {}
    /\ outlived' = (outlived \/ OfOlderPassword)
    /\ AGoto(c, "done")
    /\ UNCHANGED <<made, epoch, failed, lock, challenge, entwined, wrong>>

(***************************************************************************)
(* revoke_all_sessions by the user, and the cleanup of idle sessions.      *)
(***************************************************************************)
RevokeSessions ==
    /\ rows # {}
    /\ rows' = {}
    /\ UNCHANGED <<made, epoch, failed, lock, auth, challenge, entwined, outlived, wrong>>

AuthFails(c) ==
    /\ c \in Working
    /\ AGoto(c, "failed")
    /\ entwined' = (entwined \/ auth[c].pc \in {"lock", "clear"})
    /\ outlived' = (outlived \/ auth[c].pc = "revoke")
    /\ UNCHANGED <<rows, made, epoch, failed, lock, challenge, wrong>>

AuthNext ==
    \/ \E c \in Logins :
        \/ LoadUser(c)
        \/ RightPassword(c)
        \/ AskForFactor(c)
        \/ WrongPassword(c)
        \/ LockUserAccount(c)
        \/ ResetLoginAttempts(c)
    \/ \E c \in Issuers :
        \/ CountSessions(c)
        \/ RevokeOldest(c)
        \/ FindToken(c)
        \/ CreateToken(c)
        \/ UpdateExistingToken(c)
    \/ \E c \in Challenges : VerifyChallenge(c)
    \/ \E c \in SocialLogins : SocialLogin(c)
    \/ \E c \in Refreshes : VerifyRefresh(c)
    \/ \E c \in Logouts : VerifyLogout(c) \/ RevokeToken(c)
    \/ \E c \in PasswordResets : UpdatePasswordHash(c) \/ RevokeAllTokens(c)
    \/ \E c \in AuthCalls : AuthFails(c)
    \/ \E e \in challenge : ChallengeExpires(e)
    \/ LockEnds
    \/ RevokeSessions

AuthSpec == AuthInit /\ [][AuthNext]_authVars

-----------------------------------------------------------------------------

(***************************************************************************)
(* A user has one row, which moves from token to token: only logins and    *)
(* refreshes that overlap leave more.                                      *)
(***************************************************************************)
OneRow == ~ entwined => Cardinality(rows) <= 1

(***************************************************************************)
(* Once a reset is through, no session goes back to an older password,     *)
(* unless the reset met a call at work that had checked that password, or  *)
(* an mfa_token handed out for it: nothing takes those back.               *)
(***************************************************************************)
ResetEndsSessions ==
    (~ outlived /\ \A c \in PasswordResets : auth[c].pc # "revoke") => \A r \in rows : r.epoch = epoch

(***************************************************************************)
(* The account is locked by the Threshold-th wrong password in a row,      *)
(* however the logins before went, as long as they do not overlap.         *)
(***************************************************************************)
GuessesBounded ==
    (~ entwined /\ \A c \in Logins : auth[c].pc # "lock") => wrong < Threshold

(***************************************************************************)
(* One session, ended by a reset of the password, behind a bounded number  *)
(* of guesses.                                                             *)
(***************************************************************************)
SessionsSafe ==
    /\ OneRow
    /\ ResetEndsSessions
    /\ GuessesBounded
=============================================================================
