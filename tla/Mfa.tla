-------------------------------- MODULE Mfa --------------------------------
(***************************************************************************)
(* The second factor of one user (services/auth/mfa_service.py,            *)
(* repositories/mfa_repository.py, verify_mfa_challenge_service of         *)
(* services/auth_service.py): a secret, the flag that asks for it, and the *)
(* recovery codes.                                                         *)
(*                                                                         *)
(* Every call has a session of its own, whose identity map keeps the user  *)
(* as the call first loaded it, and each commit is a step.  A secret is    *)
(* named by the enrolment that made it (0: none), a recovery code by the   *)
(* call it was made for and a number.                                      *)
(***************************************************************************)
EXTENDS Naturals, FiniteSets

CONSTANTS
    Enrolments,     \* calls of enroll; numbers from 1
    Confirmations,  \* calls of verify_enrollment
    Entries,        \* calls of verify_mfa_challenge_service and step_up
    Removals,       \* calls of disable
    Renewals,       \* calls of regenerate_recovery_codes; numbers like Enrolments
    CodesPerSet     \* RECOVERY_CODE_COUNT

ASSUME MfaAssumption ==
    /\ Enrolments \subseteq Nat \ {0}
    /\ CodesPerSet \in Nat \ {0}
    /\ IsFiniteSet(Entries \cup Removals \cup Renewals)
    /\ Enrolments \cap (Confirmations \cup Entries \cup Removals \cup Renewals) = {}
    /\ Confirmations \cap (Entries \cup Removals \cup Renewals) = {}
    /\ Entries \cap (Removals \cup Renewals) = {}
    /\ Removals \cap Renewals = {}

VARIABLES
    secret,         \* users.mfa_secret
    enabled,        \* users.mfa_enabled
    stamped,        \* users.mfa_verified_at is set
    codes,          \* codes[k]: the row of a code: "none", "unused", "used"
    factor,         \* factor[c]: where a call is, and what it has loaded
    proof,          \* proof[c]: what the call was given: a secret or a code
    taken,          \* history: taken[k]: how often a code was accepted
    asked,          \* history: the secrets that were ever asked for
    twin,           \* history: codes that two calls had in hand at a time
    crossed         \* history: a call wrote a user whom another had changed
                    \* since it loaded him, or two wrote codes at a time

mfaVars == <<secret, enabled, stamped, codes, factor, proof, taken, asked, twin, crossed>>

Code == (Enrolments \cup Renewals) \X (1 .. CodesPerSet)
FactorChecks == Entries \cup Removals \cup Renewals
MfaCalls == Enrolments \cup Confirmations \cup FactorChecks

MfaTypeOK ==
    /\ secret \in Enrolments \cup {0}
    /\ enabled \in BOOLEAN /\ stamped \in BOOLEAN /\ crossed \in BOOLEAN
    /\ codes \in [Code -> {"none", "unused", "used"}]
    /\ factor \in [MfaCalls -> [pc : {"new", "code", "passed", "drop", "codes", "stamp", "over"},
                                secret : Enrolments \cup {0}, enabled : BOOLEAN, stamped : BOOLEAN]]
    /\ proof \in [FactorChecks -> {<<s, 0>> : s \in Enrolments \cup {0}} \cup Code]
    /\ taken \in [Code -> 0 .. Cardinality(FactorChecks)]
    /\ asked \subseteq Enrolments
    /\ twin \subseteq Code

MfaInit ==
    /\ secret = 0
    /\ enabled = FALSE
    /\ stamped = FALSE
    /\ codes = [k \in Code |-> "none"]
    /\ factor = [c \in MfaCalls |-> [pc |-> "new", secret |-> 0, enabled |-> FALSE, stamped |-> FALSE]]
    /\ proof = [c \in FactorChecks |-> <<0, 0>>]
    /\ taken = [k \in Code |-> 0]
    /\ asked = {}
    /\ twin = {}
    /\ crossed = FALSE

-----------------------------------------------------------------------------

UnderWay(c) == factor[c].pc \notin {"new", "over"}

Step(c, pc) == factor' = [factor EXCEPT ![c].pc = pc]

Over(c) ==
    factor' = [factor EXCEPT ![c] = [pc |-> "over", secret |-> 0, enabled |-> FALSE, stamped |-> FALSE]]

Loaded(c, pc) ==
    factor' = [factor EXCEPT ![c] = [pc |-> pc, secret |-> secret, enabled |-> enabled, stamped |-> stamped]]

Changed(c) == factor[c].secret # secret \/ factor[c].enabled # enabled

CodesOf(c) == {k \in Code : k[1] = c}

(***************************************************************************)
(* enroll: the new secret counts at once, confirmed or not, and the codes  *)
(* of an earlier enrolment stay.                                           *)
(***************************************************************************)
SetSecret(c) ==
    /\ factor[c].pc = "new"
    /\ secret' = c
    /\ Step(c, "codes")
    /\ asked' = IF enabled THEN asked \cup {c} ELSE asked
    /\ crossed' = (crossed \/ \E d \in MfaCalls : UnderWay(d))
    /\ UNCHANGED <<enabled, stamped, codes, proof, taken, twin>>

CreateCodes(c) ==
    /\ factor[c].pc = "codes"
    /\ codes' = [k \in Code |-> IF k \in CodesOf(c) THEN "unused" ELSE codes[k]]
    /\ Over(c)
    /\ UNCHANGED <<secret, enabled, stamped, proof, taken, asked, twin, crossed>>

(***************************************************************************)
(* verify_enrollment; a wrong code is a failure.                           *)
(***************************************************************************)
ConfirmLoad(c) ==
    /\ factor[c].pc = "new"
    /\ secret # 0
    /\ Loaded(c, "passed")
    /\ UNCHANGED <<secret, enabled, stamped, codes, proof, taken, asked, twin, crossed>>

(***************************************************************************)
(* update_mfa_status(enabled = True): the session writes the columns whose *)
(* value differs from the one it loaded, so never the secret.              *)
(***************************************************************************)
Enable(c) ==
    /\ factor[c].pc = "passed" /\ c \in Confirmations
    /\ enabled' = (enabled \/ ~ factor[c].enabled)
    /\ factor' = [factor EXCEPT ![c] = [pc |-> "stamp", secret |-> secret, enabled |-> enabled',
                                        stamped |-> stamped]]
    /\ asked' = IF enabled' THEN (asked \cup {secret}) \ {0} ELSE asked
    /\ crossed' = (crossed \/ Changed(c))
    /\ UNCHANGED <<secret, stamped, codes, proof, taken, twin>>

SetVerifiedAt(c) ==
    /\ factor[c].pc = "stamp"
    /\ stamped' = TRUE
    /\ Over(c)
    /\ crossed' = (crossed \/ Changed(c))
    /\ UNCHANGED <<secret, enabled, codes, proof, taken, asked, twin>>

-----------------------------------------------------------------------------

(***************************************************************************)
(* The start of the calls that ask for a code, which is either one of the  *)
(* current secret or some recovery code.                                   *)
(***************************************************************************)
CheckLoad(c) ==
    /\ factor[c].pc = "new"
    /\ enabled
    /\ \/ secret # 0 /\ proof' = [proof EXCEPT ![c] = <<secret, 0>>] /\ Loaded(c, "passed")
          /\ UNCHANGED twin
       \/ \E k \in Code :
             /\ codes[k] = "unused"
             /\ proof' = [proof EXCEPT ![c] = k]
             /\ Loaded(c, "code")
             /\ twin' = IF \E d \in FactorChecks \ {c} : factor[d].pc = "code" /\ proof[d] = k
                        THEN twin \cup {k} ELSE twin
    /\ UNCHANGED <<secret, enabled, stamped, codes, taken, asked, crossed>>

(* Mutant: the code is not marked. *)
UseCode_Unmarked(c) ==
    LET k == proof[c] IN
    /\ factor[c].pc = "code"
    /\ taken' = [taken EXCEPT ![k] = @ + 1]
    /\ Step(c, "passed")
    /\ UNCHANGED <<secret, enabled, stamped, codes, proof, asked, twin, crossed>>

(***************************************************************************)
(* The hash has been compared in a thread; marking a code whose row has    *)
(* been deleted meanwhile raises, marking a used one does not.             *)
(***************************************************************************)
UseCode(c) ==
    LET k == proof[c] IN
    /\ factor[c].pc = "code"
    /\ IF codes[k] = "none"
       THEN Over(c) /\ UNCHANGED <<codes, taken>>
       ELSE /\ codes' = [codes EXCEPT ![k] = "used"]
            /\ taken' = [taken EXCEPT ![k] = @ + 1]
            /\ Step(c, "passed")
    /\ UNCHANGED <<secret, enabled, stamped, proof, asked, twin, crossed>>

Enter(c) ==
    /\ factor[c].pc = "passed" /\ c \in Entries
    /\ Over(c)
    /\ UNCHANGED <<secret, enabled, stamped, codes, proof, taken, asked, twin, crossed>>

(* Mutant: the secret stays. *)
Disable_Half(c) ==
    /\ factor[c].pc = "passed" /\ c \in Removals
    /\ enabled' = FALSE
    /\ stamped' = (stamped /\ ~ factor[c].stamped)
    /\ Step(c, "drop")
    /\ crossed' = (crossed \/ Changed(c) \/ factor[c].stamped # stamped)
    /\ UNCHANGED <<secret, codes, proof, taken, asked, twin>>

(***************************************************************************)
(* update_mfa_status(enabled = False), then the codes.  As in Enable, a    *)
(* column that was empty when it was loaded is not written: a time of      *)
(* verification that another call has set since then stays.                *)
(***************************************************************************)
Disable(c) ==
    /\ factor[c].pc = "passed" /\ c \in Removals
    /\ enabled' = FALSE
    /\ secret' = IF factor[c].secret # 0 THEN 0 ELSE secret
    /\ stamped' = (stamped /\ ~ factor[c].stamped)
    /\ Step(c, "drop")
    /\ crossed' = (crossed \/ Changed(c) \/ factor[c].stamped # stamped)
    /\ UNCHANGED <<codes, proof, taken, asked, twin>>

(* Mutant: the used ones stay. *)
DeleteCodes_Unused(c) ==
    /\ \/ c \in Removals /\ factor[c].pc = "drop" /\ Over(c)
       \/ c \in Renewals /\ factor[c].pc = "passed" /\ Step(c, "codes")
    /\ codes' = [k \in Code |-> IF codes[k] = "unused" THEN "none" ELSE codes[k]]
    /\ crossed' = (crossed \/ \E d \in MfaCalls \ {c} : UnderWay(d))
    /\ UNCHANGED <<secret, enabled, stamped, proof, taken, asked, twin>>

DeleteCodes(c) ==
    /\ \/ c \in Removals /\ factor[c].pc = "drop" /\ Over(c)
       \/ c \in Renewals /\ factor[c].pc = "passed" /\ Step(c, "codes")
    /\ codes' = [k \in Code |-> "none"]
    /\ crossed' = (crossed \/ \E d \in MfaCalls \ {c} : UnderWay(d))
    /\ UNCHANGED <<secret, enabled, stamped, proof, taken, asked, twin>>

MfaFails(c) ==
    /\ UnderWay(c)
    /\ Over(c)
    /\ crossed' = (crossed \/ factor[c].pc \in {"codes", "drop"})
    /\ UNCHANGED <<secret, enabled, stamped, codes, proof, taken, asked, twin>>

MfaNext ==
    \/ \E c \in Enrolments : SetSecret(c)
    \/ \E c \in Enrolments \cup Renewals : CreateCodes(c)
    \/ \E c \in Confirmations : ConfirmLoad(c) \/ Enable(c) \/ SetVerifiedAt(c)
    \/ \E c \in FactorChecks : CheckLoad(c) \/ UseCode(c) \/ Enter(c) \/ Disable(c) \/ DeleteCodes(c)
    \/ \E c \in MfaCalls : MfaFails(c)

MfaSpec == MfaInit /\ [][MfaNext]_mfaVars

-----------------------------------------------------------------------------

(***************************************************************************)
(* A recovery code lets in one call, unless two compared it at a time.     *)
(***************************************************************************)
CodeOnce == \A k \in Code \ twin : taken[k] <= 1

(***************************************************************************)
(* Who is asked for a code has a secret to make it from, and recovery      *)
(* codes, unless a call wrote a user whom another had just changed, died   *)
(* half-way, or is still at work.                                          *)
(***************************************************************************)
CanBeMet ==
    enabled /\ ~ crossed =>
        /\ secret # 0
        /\ (\A c \in MfaCalls : ~ UnderWay(c)) => \E k \in Code : codes[k] # "none"

(***************************************************************************)
(* Once the factor has been turned off nothing of what was asked for is    *)
(* left, under the same conditions: neither the secret nor a code.         *)
(***************************************************************************)
OffIsOff ==
    (\A c \in MfaCalls : ~ UnderWay(c)) /\ ~ crossed /\ ~ enabled =>
        /\ ~ stamped
        /\ secret \notin asked
        /\ \A k \in Code : codes[k] # "none" => k[1] \in Enrolments \ asked

MfaSafe ==
    /\ CodeOnce
    /\ CanBeMet
    /\ OffIsOff
=============================================================================
