------------------------------ MODULE Accounts ------------------------------
(***************************************************************************)
(* The ways into an account: registration, verification of the e-mail      *)
(* address, and linking, unlinking and signing in with the identities of   *)
(* social providers (services/auth/account_linking_service.py,             *)
(* services/auth_service.py, services/auth/email_verification_service.py,  *)
(* repositories/social_account_repository.py).                             *)
(*                                                                         *)
(* Every query and every commit is a step.  users.email is unique; the     *)
(* table of the links has no unique constraint, and a query that expects   *)
(* at most one row raises when it finds two.                               *)
(***************************************************************************)
EXTENDS Naturals, FiniteSets

CONSTANTS
    Addresses,       \* an account is named by its e-mail address
    Identities,      \* an account at a social provider
    Links, Unlinks, SignIns, Registrations, Verifications,
    UserOf,          \* the user a call is about
    IdentityOf,      \* the identity a call is about
    ProviderOf,      \* the provider of an identity
    SocialSignUps    \* registrations that a provider's callback makes

Linking == Links \cup SignIns
AccountCalls == Linking \cup Unlinks \cup Registrations \cup Verifications

ASSUME AccountsAssumption ==
    /\ UserOf \in [AccountCalls -> Addresses]
    /\ IdentityOf \in [AccountCalls -> Identities]
    /\ Links \cap (SignIns \cup Unlinks \cup Registrations \cup Verifications) = {}
    /\ SignIns \cap (Unlinks \cup Registrations \cup Verifications) = {}
    /\ Unlinks \cap (Registrations \cup Verifications) = {}
    /\ Registrations \cap Verifications = {}
    /\ SocialSignUps \subseteq Registrations

VARIABLES
    mustVerify, \* EMAIL_VERIFICATION_ENABLED
    account,    \* the row of a user; callback: a provider's callback made it
    links,      \* the rows that bind an identity to a user
    step,       \* where a call stands
    chosen,     \* the row an unlink is about to delete
    rivals,     \* history: calls whose check another call made stale
    stranded    \* history: users whose sign-up died before the link

accountVars == <<mustVerify, account, links, step, chosen, rivals, stranded>>

Ended == {"done", "entered", "refused", "failed"}

NoAccount == [exists |-> FALSE, password |-> FALSE, verified |-> FALSE, callback |-> FALSE]

AccountRow == [exists : BOOLEAN, password : BOOLEAN, verified : BOOLEAN, callback : BOOLEAN]

AccountTypeOK ==
    /\ mustVerify \in BOOLEAN
    /\ account \in [Addresses -> AccountRow]
    /\ links \subseteq [by : Linking, user : Addresses, identity : Identities]
    /\ step \in [AccountCalls -> {"start", "register", "own", "email", "create", "insert", "bind", "mark", "find", "delete"} \cup Ended]
    /\ chosen \in [Unlinks -> SUBSET [by : Linking, user : Addresses, identity : Identities]]
    /\ rivals \subseteq AccountCalls
    /\ stranded \subseteq Addresses

(***************************************************************************)
(* Who is logged in, and may link or unlink, has an account.               *)
(***************************************************************************)
AccountInit ==
    /\ mustVerify \in BOOLEAN
    /\ account \in [Addresses -> {NoAccount} \cup
                        [exists : {TRUE}, password : {TRUE}, verified : BOOLEAN, callback : {FALSE}]]
    /\ links = {}
    /\ step = [c \in AccountCalls |-> "start"]
    /\ chosen = [c \in Unlinks |-> {}]
    /\ rivals = {}
    /\ stranded = {}

-----------------------------------------------------------------------------

Move(c, to) == step' = [step EXCEPT ![c] = to]

OfIdentity(i) == {r \in links : r.identity = i}
OfUser(u) == {r \in links : r.user = u}
OfProvider(u, i) == {r \in OfUser(u) : ProviderOf[r.identity] = ProviderOf[i]}

(***************************************************************************)
(* scalar_one_or_none(): nothing, one row, or an exception.                *)
(***************************************************************************)
Query(c, rows, found, missing) ==
    Move(c, CASE rows = {} -> missing
              [] Cardinality(rows) = 1 -> found
              [] OTHER -> "failed")

FindIdentity(c) ==
    /\ c \in Linking /\ step[c] = "start"
    /\ c \in Links => account[UserOf[c]].exists
    /\ IF c \in Links THEN Query(c, OfIdentity(IdentityOf[c]), "refused", "own")
       ELSE Query(c, OfIdentity(IdentityOf[c]), "done", "email")
    /\ UNCHANGED <<mustVerify, account, links, chosen, rivals, stranded>>

FindOwn(c) ==
    /\ c \in Links /\ step[c] = "own"
    /\ Query(c, OfProvider(UserOf[c], IdentityOf[c]), "refused", "insert")
    /\ UNCHANGED <<mustVerify, account, links, chosen, rivals, stranded>>

(* Mutant: an address nobody has verified is good enough. *)
FindEmail_Any(c) ==
    /\ c \in SignIns /\ step[c] = "email"
    /\ Move(c, IF account[UserOf[c]].exists THEN "insert" ELSE "create")
    /\ UNCHANGED <<mustVerify, account, links, chosen, rivals, stranded>>

FindEmail(c) ==
    /\ c \in SignIns /\ step[c] = "email"
    /\ LET a == account[UserOf[c]] IN
       Move(c, CASE a.exists /\ mustVerify /\ ~ a.verified -> "refused"
                 [] a.exists /\ (mustVerify => a.verified) -> "insert"
                 [] OTHER -> "create")
    /\ UNCHANGED <<mustVerify, account, links, chosen, rivals, stranded>>

(***************************************************************************)
(* The callback lets in the user who has the address, whatever is linked   *)
(* to him, and registers one when there is none.                           *)
(***************************************************************************)
FindByAddress(c) ==
    /\ c \in SocialSignUps /\ step[c] = "start"
    /\ Move(c, IF account[UserOf[c]].exists THEN "entered" ELSE "register")
    /\ UNCHANGED <<mustVerify, account, links, chosen, rivals, stranded>>

FindUser(c) ==
    /\ c \in Registrations
    /\ step[c] = IF c \in SocialSignUps THEN "register" ELSE "start"
    /\ Move(c, IF account[UserOf[c]].exists THEN "refused" ELSE "create")
    /\ UNCHANGED <<mustVerify, account, links, chosen, rivals, stranded>>

(***************************************************************************)
(* A sign-in makes a verified user without a password; a registration one  *)
(* who is not verified yet, with a password unless a callback asks for it  *)
(* (auth_provider is not "local"): that user has no link either.           *)
(***************************************************************************)
CreateUser(c) ==
    /\ step[c] = "create"
    /\ IF account[UserOf[c]].exists
       THEN Move(c, "failed") /\ UNCHANGED account
       ELSE /\ account' = [account EXCEPT ![UserOf[c]] =
                    [exists |-> TRUE, password |-> c \in Registrations \ SocialSignUps,
                     verified |-> c \in SignIns, callback |-> c \in SocialSignUps]]
            /\ Move(c, IF c \in SignIns THEN "bind" ELSE "mark")
    /\ UNCHANGED <<mustVerify, links, chosen, rivals, stranded>>

(***************************************************************************)
(* The insert makes the earlier look-ups of the others stale.              *)
(***************************************************************************)
Attach(c) ==
    /\ step[c] \in {"insert", "bind"}
    /\ links' = links \cup {[by |-> c, user |-> UserOf[c], identity |-> IdentityOf[c]]}
    /\ Move(c, IF c \in SignIns /\ step[c] = "insert" THEN "mark" ELSE "done")
    /\ rivals' = rivals \cup {d \in Linking \ {c} : /\ step[d] \notin Ended \cup {"start", "mark"}
                                                   /\ IdentityOf[d] = IdentityOf[c]}
    /\ UNCHANGED <<mustVerify, account, chosen, stranded>>

(* Mutant: only a switched off verification marks the user. *)
MarkVerified_Local(c) ==
    /\ step[c] = "mark"
    /\ account' = [account EXCEPT ![UserOf[c]].verified = @ \/ ~ mustVerify]
    /\ Move(c, "done")
    /\ UNCHANGED <<mustVerify, links, chosen, rivals, stranded>>

(***************************************************************************)
(* mark_social_user_verified, and auto_verify_if_disabled for the others.  *)
(***************************************************************************)
MarkVerified(c) ==
    /\ step[c] = "mark"
    /\ account' = [account EXCEPT ![UserOf[c]].verified =
                       @ \/ c \in SignIns \cup SocialSignUps \/ ~ mustVerify]
    /\ Move(c, "done")
    /\ UNCHANGED <<mustVerify, links, chosen, rivals, stranded>>

VerifyEmail(c) ==
    /\ c \in Verifications /\ step[c] = "start"
    /\ IF account[UserOf[c]].exists /\ ~ account[UserOf[c]].verified /\ mustVerify
       THEN account' = [account EXCEPT ![UserOf[c]].verified = TRUE] /\ Move(c, "done")
       ELSE Move(c, "refused") /\ UNCHANGED account
    /\ UNCHANGED <<mustVerify, links, chosen, rivals, stranded>>

(* Mutant: the only identity may go when the account is verified. *)
CountLinks_Verified(c) ==
    /\ c \in Unlinks /\ step[c] = "start"
    /\ LET a == account[UserOf[c]] IN
       /\ a.exists
       /\ Move(c, IF a.verified \/ Cardinality(OfUser(UserOf[c])) > 1 THEN "find" ELSE "refused")
    /\ UNCHANGED <<mustVerify, account, links, chosen, rivals, stranded>>

CountLinks(c) ==
    /\ c \in Unlinks /\ step[c] = "start"
    /\ LET a == account[UserOf[c]] IN
       /\ a.exists
       /\ Move(c, IF a.password \/ Cardinality(OfUser(UserOf[c])) > 1 THEN "find" ELSE "refused")
    /\ UNCHANGED <<mustVerify, account, links, chosen, rivals, stranded>>

FindRow(c) ==
    /\ step[c] = "find"
    /\ LET rows == OfProvider(UserOf[c], IdentityOf[c]) IN
       /\ Query(c, rows, "delete", "refused")
       /\ chosen' = [chosen EXCEPT ![c] = IF Cardinality(rows) = 1 THEN rows ELSE {}]
    /\ UNCHANGED <<mustVerify, account, links, rivals, stranded>>

Unlink(c) ==
    /\ step[c] = "delete"
    /\ links' = links \ chosen[c]
    /\ Move(c, "done")
    /\ rivals' = rivals \cup {d \in Unlinks \ {c} : step[d] \in {"find", "delete"} /\ UserOf[d] = UserOf[c]}
    /\ UNCHANGED <<mustVerify, account, chosen, stranded>>

(***************************************************************************)
(* The database raises, or the process dies.                               *)
(***************************************************************************)
CallFails(c) ==
    /\ step[c] \notin Ended \cup {"start"}
    /\ Move(c, "failed")
    /\ stranded' = IF step[c] = "bind" THEN stranded \cup {UserOf[c]} ELSE stranded
    /\ UNCHANGED <<mustVerify, account, links, chosen, rivals>>

AccountNext ==
    \E c \in AccountCalls :
        \/ FindIdentity(c) \/ FindOwn(c) \/ FindEmail(c)
        \/ FindByAddress(c) \/ FindUser(c) \/ CreateUser(c) \/ Attach(c)
        \/ MarkVerified(c) \/ VerifyEmail(c) \/ CountLinks(c) \/ FindRow(c) \/ Unlink(c) \/ CallFails(c)

AccountSpec == AccountInit /\ [][AccountNext]_accountVars

-----------------------------------------------------------------------------

(***************************************************************************)
(* An identity leads to one account by one row, unless one of the calls    *)
(* that linked it had its look-up made stale by another.                   *)
(***************************************************************************)
OneOwner ==
    \A r, s \in links :
        (r # s /\ r.identity = s.identity) => (r.by \in rivals \/ s.by \in rivals)

(***************************************************************************)
(* A user without a password keeps an identity to come in with once one    *)
(* was linked, unless two calls unlinked at once.  Before that there is a  *)
(* sign-up still under way or cut off before the link, which the next      *)
(* sign-in repairs, or a user whom a callback made, and whom it finds by   *)
(* his address: an unlink never takes the first identity he linked.        *)
(***************************************************************************)
WayIn ==
    \A u \in Addresses :
        account[u].exists /\ ~ account[u].password =>
            \/ OfUser(u) # {}
            \/ u \in stranded
            \/ account[u].callback /\ \A c \in Unlinks : UserOf[c] = u => step[c] # "done"
            \/ \E c \in SignIns : UserOf[c] = u /\ step[c] = "bind"
            \/ \E c \in Unlinks : UserOf[c] = u /\ c \in rivals

(***************************************************************************)
(* Where verification is on, an identity came to an existing account by    *)
(* its address only when the address was verified.                         *)
(***************************************************************************)
AddressProven ==
    mustVerify => \A r \in links : r.by \in SignIns => account[r.user].verified

(***************************************************************************)
(* A registration by a callback that was answered has left the user        *)
(* verified, although he was committed unverified first; where             *)
(* verification is off every registration has.                             *)
(***************************************************************************)
SignUpVerified ==
    \A c \in Registrations :
        step[c] = "done" /\ (c \in SocialSignUps \/ ~ mustVerify) => account[UserOf[c]].verified

AccountsSafe ==
    /\ OneOwner
    /\ WayIn
    /\ AddressProven
    /\ SignUpVerified
=============================================================================
