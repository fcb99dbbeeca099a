---------------------------- MODULE KeyRotation ----------------------------
(***************************************************************************)
(* Secrets at rest while the encryption key is introduced and rotated      *)
(* (security/encryption.py; the command security:encrypt-secrets of        *)
(* cli/commands/security.py; the services that store a secret with         *)
(* encrypt_value and fall back to plain text).                             *)
(*                                                                         *)
(* A stored value tells how it was made: its version label, or "plain", or *)
(* "bare" for one of the time before labels, and the key and salt.  Every  *)
(* process goes through the same list of configurations at its own pace,   *)
(* by a restart or because the settings object changes under it.           *)
(***************************************************************************)
EXTENDS Naturals, Sequences, FiniteSets

CONSTANTS
    Servers,        \* the processes that read and write secrets
    Command,        \* the process of encrypt-secrets
    SecretRows,     \* rows that hold a secret
    Covered,        \* those of the tables encrypt-secrets goes through
    Stages,         \* Stages[i]: the key, the previous key and the salt
    MaxWrites       \* bound on the writes of each row

NoKey == "none"
DefaultSalt == "default"

ASSUME StagesAssumption ==
    /\ Covered \subseteq SecretRows
    /\ Command \notin Servers
    /\ Len(Stages) \in Nat \ {0}
    /\ DOMAIN Stages = 1 .. Len(Stages)
    /\ MaxWrites \in Nat
    /\ \A i \in DOMAIN Stages : Stages[i].key = NoKey => Stages[i].previous = NoKey

Procs == Servers \cup {Command}

VARIABLES
    stage,          \* stage[p]: the configuration of a process
    resolved,       \* resolved[p]: the stage whose keys it has derived, or 0
    stored,         \* stored[r]: the value in a row
    content,        \* content[r]: the number of the secret it was made from
    sweeper,        \* the command: where it is, and the values it has read
    written,        \* history: written[r]: how often a secret was set
    jobRaced        \* history: rows written between the command's read and commit

rotVars == <<stage, resolved, stored, content, sweeper, written, jobRaced>>

Labels == {"plain", "bare", "v1", "v2"}
AllKeys == {Stages[i].key : i \in DOMAIN Stages} \cup {NoKey}
Salts == {Stages[i].salt : i \in DOMAIN Stages} \cup {DefaultSalt}
StoredValue == [label : Labels, key : AllKeys, salt : Salts]
Plain == [label |-> "plain", key |-> NoKey, salt |-> DefaultSalt]

RotTypeOK ==
    /\ stage \in [Procs -> DOMAIN Stages]
    /\ resolved \in [Procs -> 0 .. Len(Stages)]
    /\ stored \in [SecretRows -> StoredValue]
    /\ content \in [SecretRows -> 0 .. MaxWrites]
    /\ sweeper \in [pc : {"idle", "read"}, seen : [SecretRows -> 0 .. MaxWrites], todo : SUBSET SecretRows]
    /\ written \in [SecretRows -> 0 .. MaxWrites]
    /\ jobRaced \subseteq SecretRows

RotInit ==
    /\ stage = [p \in Procs |-> 1]
    /\ resolved = [p \in Procs |-> 0]
    /\ stored = [r \in SecretRows |-> Plain]
    /\ content = [r \in SecretRows |-> 0]
    /\ sweeper = [pc |-> "idle", seen |-> [r \in SecretRows |-> 0], todo |-> {}]
    /\ written = [r \in SecretRows |-> 0]
    /\ jobRaced = {}

-----------------------------------------------------------------------------

Single(i) == Stages[i].previous \in {NoKey, Stages[i].key}

(* Mutant: the new key takes the old label. *)
KeyOf_Swapped(i, label) ==
    IF Single(i) \/ label = "v1" THEN Stages[i].key ELSE Stages[i].previous

(***************************************************************************)
(* _resolve_versions: with one key it is version 1; with two the previous  *)
(* one is version 1 and the current one version 2.                         *)
(***************************************************************************)
KeyOf(i, label) ==
    IF Single(i) \/ label = "v2" THEN Stages[i].key ELSE Stages[i].previous

Versions(i) ==
    IF Stages[i].key = NoKey THEN {} ELSE IF Single(i) THEN {"v1"} ELSE {"v1", "v2"}

(***************************************************************************)
(* decrypt: a label selects its key, no label the lowest version; version  *)
(* 1 also tries the default salt.  What was never encrypted is not sent    *)
(* here (is_encrypted of the callers).                                     *)
(***************************************************************************)
Decrypts(i, s) ==
    \/ s.label = "plain"
    \/ LET label == IF s.label = "bare" THEN "v1" ELSE s.label IN
       /\ label \in Versions(i)
       /\ KeyOf(i, label) = s.key
       /\ s.salt \in {Stages[i].salt} \cup (IF label = "v1" THEN {DefaultSalt} ELSE {})

(***************************************************************************)
(* encrypt takes the highest version; without a key the callers keep the   *)
(* plain text.                                                             *)
(***************************************************************************)
Encrypted(i) ==
    IF Versions(i) = {} THEN Plain
    ELSE LET label == IF "v2" \in Versions(i) THEN "v2" ELSE "v1" IN
         [label |-> label, key |-> KeyOf(i, label), salt |-> Stages[i].salt]

(* Mutant: the derived keys are kept whatever the configuration is now. *)
KeysOf_Kept(p) == IF resolved[p] = 0 THEN stage[p] ELSE resolved[p]

(***************************************************************************)
(* The derived keys are kept with the configuration they were made from.   *)
(***************************************************************************)
KeysOf(p) ==
    IF resolved[p] # 0 /\ Stages[resolved[p]] = Stages[stage[p]] THEN resolved[p] ELSE stage[p]

-----------------------------------------------------------------------------

Configure(p) ==
    /\ stage[p] < Len(Stages)
    /\ \A q \in Procs : stage[q] >= stage[p]
    /\ stage' = [stage EXCEPT ![p] = @ + 1]
    /\ \/ UNCHANGED resolved
       \/ resolved' = [resolved EXCEPT ![p] = 0]
    /\ UNCHANGED <<stored, content, sweeper, written, jobRaced>>

SetSecret(p, r) ==
    /\ written[r] < MaxWrites
    /\ written' = [written EXCEPT ![r] = @ + 1]
    /\ content' = [content EXCEPT ![r] = written[r] + 1]
    /\ stored' = [stored EXCEPT ![r] = Encrypted(KeysOf(p))]
    /\ resolved' = [resolved EXCEPT ![p] = KeysOf(p)]
    /\ jobRaced' = IF sweeper.pc = "read" THEN jobRaced \cup {r} ELSE jobRaced
    /\ UNCHANGED <<stage, sweeper>>

(***************************************************************************)
(* encrypt-secrets reads the rows of its tables, takes those that are not  *)
(* encrypted at all, and writes them back by id.  It asks for a key first. *)
(***************************************************************************)
Scan ==
    /\ sweeper.pc = "idle"
    /\ Stages[stage[Command]].key # NoKey
    /\ sweeper' = [pc |-> "read", seen |-> content, todo |-> {r \in Covered : stored[r].label = "plain"}]
    /\ UNCHANGED <<stage, resolved, stored, content, written, jobRaced>>

(* Mutant: every row is written, with whatever has been read. *)
WriteBack_All ==
    /\ sweeper.pc = "read"
    /\ stored' = [r \in SecretRows |-> IF r \in Covered THEN Encrypted(KeysOf(Command)) ELSE stored[r]]
    /\ content' = [r \in SecretRows |-> IF r \in sweeper.todo THEN sweeper.seen[r] ELSE 0]
    /\ resolved' = [resolved EXCEPT ![Command] = KeysOf(Command)]
    /\ sweeper' = [sweeper EXCEPT !.pc = "idle"]
    /\ UNCHANGED <<stage, written, jobRaced>>

WriteBack ==
    /\ sweeper.pc = "read"
    /\ stored' = [r \in SecretRows |-> IF r \in sweeper.todo THEN Encrypted(KeysOf(Command)) ELSE stored[r]]
    /\ content' = [r \in SecretRows |-> IF r \in sweeper.todo THEN sweeper.seen[r] ELSE content[r]]
    /\ resolved' = [resolved EXCEPT ![Command] = KeysOf(Command)]
    /\ sweeper' = [sweeper EXCEPT !.pc = "idle"]
    /\ UNCHANGED <<stage, written, jobRaced>>

CommandFails ==
    /\ sweeper.pc = "read"
    /\ sweeper' = [sweeper EXCEPT !.pc = "idle"]
    /\ UNCHANGED <<stage, resolved, stored, content, written, jobRaced>>

RotNext ==
    \/ \E p \in Procs : Configure(p)
    \/ \E p \in Servers, r \in SecretRows : SetSecret(p, r)
    \/ Scan \/ WriteBack \/ CommandFails

RotSpec == RotInit /\ [][RotNext]_rotVars

-----------------------------------------------------------------------------

(***************************************************************************)
(* While the key is rotated once - the key that version 1 stood for is     *)
(* still the only one or the previous one, and a salt of one's own came    *)
(* once - whoever has the newest configuration in use reads every secret,  *)
(* whichever process wrote it.                                             *)
(***************************************************************************)
Newest == CHOOSE i \in DOMAIN Stages : (\E p \in Procs : stage[p] = i) /\ \A p \in Procs : stage[p] <= i

FirstRotation ==
    \A i, j \in 1 .. Newest : i < j =>
        /\ Single(i)
        /\ Stages[i].key # NoKey =>
               /\ Stages[i].key = IF Single(j) THEN Stages[j].key ELSE Stages[j].previous
               /\ Stages[i].salt \in {Stages[j].salt, DefaultSalt}

WindowReadable ==
    FirstRotation => \A p \in Procs, r \in SecretRows : stage[p] = Newest => Decrypts(KeysOf(p), stored[r])

(***************************************************************************)
(* A row holds the secret that was set last, unless it was set while the   *)
(* command was between its read and its commit, and then an older one.     *)
(***************************************************************************)
SecretKept ==
    \A r \in SecretRows : content[r] <= written[r] /\ (r \notin jobRaced => content[r] = written[r])

RotationSafe ==
    /\ WindowReadable
    /\ SecretKept
=============================================================================
