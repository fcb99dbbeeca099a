------------------------------ MODULE MCAccess ------------------------------
(***************************************************************************)
(* Instances for TLC of the modules about who gets in: requests and calls  *)
(* within limits, users with tokens, second factors, keys and social       *)
(* identities, and members of teams and organizations. They share no       *)
(* state: a behaviour runs the one that part names, and leaves the others  *)
(* in one initial state. Calls of one kind are alike, and so are new rows  *)
(* of a table: two of them are taken in the order of their names. Of the   *)
(* calls about one user's tokens any MaxAuthCalls are made.                *)
(***************************************************************************)
EXTENDS RateWindow, Sessions, Mfa, ApiKeys, Accounts, Teams, Organizations,
        Policies

CONSTANT MaxAuthCalls   \* calls about one user's tokens in a behaviour

VARIABLE part

UserOfCall == [c \in AccountCalls |-> IF c \in {"link2", "callback"} THEN "bob" ELSE "ann"]
IdentityOfCall == [c \in AccountCalls |-> IF c \in {"link1", "unlink2"} THEN "face" ELSE "goog"]
ProviderOfIdentity == [i \in Identities |-> i]

AcceptsBy == [a \in OrgAccepts |-> IF a = "j1" THEN "ann" ELSE "bob"]

AnyPolicy ==
    CHOOSE c \in Configuration : c.enabled /\ c.conditions = {}

Idling ==
    /\ part # "teams" => \A c \in Invites \cup Answers : answering[c].of = CHOOSE i \in Invites : TRUE
    /\ part # "organizations" => \A c \in OrgCalls : joining[c].of = CHOOSE i \in OrgInvites : TRUE

Init ==
    /\ part \in {"rate", "sessions", "factor", "keys", "accounts", "teams",
                 "organizations", "policies"}
    /\ RateInit
    /\ AuthInit
    /\ MfaInit
    /\ KeyInit
    /\ part # "accounts" => mustVerify = TRUE /\ account = [u \in Addresses |-> NoAccount]
    /\ AccountInit
    /\ TeamInit
    /\ OrgInit
    /\ IF part = "policies" THEN PolicyInit
       ELSE /\ policy = [p \in PolicyIds |-> AnyPolicy]
            /\ actual = "equal"
            /\ left = {} /\ allowed = FALSE /\ decision = "none"
    /\ Idling

CallsBounded ==
    /\ auth["l2"].pc # "new" => auth["l1"].pc # "new"
    /\ Cardinality({c \in AuthCalls : auth[c].pc # "new"}) <= MaxAuthCalls

KeysInOrder == key["k2"].row # "none" => key["k1"].row # "none"

AnswersInOrder ==
    /\ answering["i2"].pc # "new" => answering["i1"].pc # "new"
    /\ answering["a2"].pc # "new" => answering["a1"].pc # "new"

RatePart == part = "rate" /\ RateNext
    /\ UNCHANGED <<part, authVars, mfaVars, keyVars, accountVars,
                   teamVars, orgVars, policyVars>>
AuthPart == part = "sessions" /\ AuthNext
    /\ CallsBounded'
    /\ UNCHANGED <<part, rateVars, mfaVars, keyVars, accountVars,
                   teamVars, orgVars, policyVars>>
MfaPart == part = "factor" /\ MfaNext
    /\ UNCHANGED <<part, rateVars, authVars, keyVars, accountVars,
                   teamVars, orgVars, policyVars>>
KeyPart == part = "keys" /\ KeyNext
    /\ KeysInOrder'
    /\ UNCHANGED <<part, rateVars, authVars, mfaVars, accountVars,
                   teamVars, orgVars, policyVars>>
AccountPart == part = "accounts" /\ AccountNext
    /\ UNCHANGED <<part, rateVars, authVars, mfaVars, keyVars, teamVars,
                   orgVars, policyVars>>
TeamPart == part = "teams" /\ TeamNext
    /\ AnswersInOrder'
    /\ UNCHANGED <<part, rateVars, authVars, mfaVars, keyVars,
                   accountVars, orgVars, policyVars>>
OrgPart == part = "organizations" /\ OrgNext
    /\ UNCHANGED <<part, rateVars, authVars, mfaVars, keyVars,
                   accountVars, teamVars, policyVars>>
PolicyPart == part = "policies" /\ PolicyNext
    /\ UNCHANGED <<part, rateVars, authVars, mfaVars, keyVars,
                   accountVars, teamVars, orgVars>>

Next ==
    \/ RatePart
    \/ AuthPart
    \/ MfaPart
    \/ KeyPart
    \/ AccountPart
    \/ TeamPart
    \/ OrgPart
    \/ PolicyPart

Spec == Init /\ [][Next]_<<part, rateVars, authVars, mfaVars, keyVars,
                           accountVars, teamVars, orgVars, policyVars>>

(***************************************************************************)
(* The types of the eight.                                                 *)
(***************************************************************************)
AccessTypes ==
    /\ part = "rate" => RateTypeOK
    /\ part = "sessions" => AuthTypeOK
    /\ part = "factor" => MfaTypeOK
    /\ part = "keys" => KeyTypeOK
    /\ part = "accounts" => AccountTypeOK
    /\ part = "teams" => TeamTypeOK
    /\ part = "organizations" => OrgTypeOK
    /\ part = "policies" => PolicyTypeOK

(***************************************************************************)
(* Requests and sign-ins: the sliding window with the counter of refusals, *)
(* the tokens of one user, and the second factor.                          *)
(***************************************************************************)
AccessSafe ==
    /\ RateSafe
    /\ SessionsSafe
    /\ MfaSafe

(***************************************************************************)
(* Who belongs: invitations to a team and to an organization.              *)
(***************************************************************************)
MembershipSafe ==
    /\ TeamsSafe
    /\ OrganizationsSafe
=============================================================================
