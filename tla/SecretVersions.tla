--------------------------- MODULE SecretVersions ----------------------------
(***************************************************************************)
(* One secret path and its versions: secret/application.Service over the   *)
(* tables namespaces, secrets and secret_versions.                         *)
(*                                                                         *)
(* Paths share no row but that of their namespace, so one path shows every *)
(* interaction.  A service call is a sequence of database statements with  *)
(* nothing that holds them together (only the creation of a secret is one  *)
(* transaction), so each statement is an action and the calls of several   *)
(* clients interleave between any two.  A client is a request slot, used   *)
(* again for its next call.                                                *)
(*                                                                         *)
(* A value stands for its plaintext, ciphertext and digest together.  The  *)
(* time in delete_after is kept only as present or absent: no statement of *)
(* the program compares it with the clock.                                 *)
(***************************************************************************)
EXTENDS Naturals, FiniteSets

CONSTANTS
    Clients,         \* concurrent request slots
    Values,          \* secret values
    Types,           \* secret types: static, dynamic, kv
    NoValue,         \* a call that carries no value
    NoType,          \* no row in secrets, or a call that carries no type
    MaxVersion       \* bound: no Put is followed past this version

ASSUME ConstantsAssumption ==
    /\ NoValue \notin Values
    /\ NoType \notin Types
    /\ MaxVersion \in Nat \ {0}

VARIABLES
    namespace,       \* there is a row in namespaces
    type,            \* secrets.type, NoType when there is no row
    current,         \* secrets.current_version, 0 when there is no row
    versions,        \* secret_versions: version number -> row
    call,            \* the call each client has in flight
    acks,            \* history: <<version, value>> of every Put that returned
    rolledBack       \* history: Rollback has set current_version

vars == <<namespace, type, current, versions, call, acks, rolledBack>>
tables == <<namespace, type, current, versions>>
history == <<acks, rolledBack>>

-----------------------------------------------------------------------------
States == {"active", "deleted", "destroyed"}
VersionRow == [value : Values, state : States, deleteAfter : BOOLEAN]

Ops == {"none", "createNamespace", "put", "rollback", "changeState"}
Steps == {"idle", "getNamespace", "insertNamespace", "getSecret", "getVersion",
          "createSecret", "createVersion", "setCurrent", "setState"}
Call == [op : Ops, step : Steps, value : Values \cup {NoValue},
         type : Types \cup {NoType}, version : Nat]

Idle == [op |-> "none", step |-> "idle", value |-> NoValue,
         type |-> NoType, version |-> 0]

SecretExists == type # NoType
Existing == DOMAIN versions

NewRow(x) == [value |-> x, state |-> "active", deleteAfter |-> FALSE]

(* The INSERT of a row whose version number is free: UNIQUE(secret_id,     *)
(* version) rejects any other.                                             *)
AddVersion(v, x) ==
    versions' = [w \in Existing \cup {v} |-> IF w = v THEN NewRow(x) ELSE versions[w]]

-----------------------------------------------------------------------------
(* The next statement of the operation op of client c is step.             *)
At(c, op, step) == call[c].op = op /\ call[c].step = step

Goto(c, step) == call' = [call EXCEPT ![c].step = step]
GotoWith(c, step, v) == call' = [call EXCEPT ![c].step = step, ![c].version = v]
Return(c) == call' = [call EXCEPT ![c] = Idle]

(* Put returns the metadata of the version it wrote, or its last answer is *)
(* lost and it returns an error for what was done all the same.            *)
AckOrLose(c, v) ==
    \/ acks' = acks \cup {<<v, call[c].value>>}
    \/ acks' = acks

Init ==
    /\ namespace = FALSE
    /\ type = NoType
    /\ current = 0
    /\ versions = [v \in {} |-> NewRow(NoValue)]
    /\ call = [c \in Clients |-> Idle]
    /\ acks = {}
    /\ rolledBack = FALSE

(* A request arrives: its validated arguments start a call.                *)
Start(c) ==
    /\ call[c] = Idle
    /\ \/ call' = [call EXCEPT ![c].op = "createNamespace", ![c].step = "getNamespace"]
       \/ \E x \in Values, t \in Types :
             call' = [call EXCEPT ![c] = [op |-> "put", step |-> "getNamespace",
                                          value |-> x, type |-> t, version |-> 0]]
       \/ \E o \in {"rollback", "changeState"}, v \in 0..MaxVersion :
             call' = [call EXCEPT ![c].op = o, ![c].step = "getSecret", ![c].version = v]
    /\ UNCHANGED <<tables, history>>

-----------------------------------------------------------------------------
(* CreateNamespace: GetNamespace must fail, then INSERT, which UNIQUE(name)*)
(* rejects when another call got in between.                               *)
CheckNamespaceFree(c) ==
    /\ At(c, "createNamespace", "getNamespace")
    /\ IF namespace THEN Return(c) ELSE Goto(c, "insertNamespace")
    /\ UNCHANGED <<tables, history>>

InsertNamespace(c) ==
    /\ At(c, "createNamespace", "insertNamespace")
    /\ namespace' = TRUE
    /\ Return(c)
    /\ UNCHANGED <<type, current, versions, history>>

-----------------------------------------------------------------------------
(* PutSecret: the namespace must exist.                                    *)
PutUncheckedNamespace(c) ==
    /\ At(c, "put", "getNamespace")
    /\ Goto(c, "getSecret")
    /\ UNCHANGED <<tables, history>>
PutGetNamespace(c) ==
    /\ At(c, "put", "getNamespace")
    /\ IF namespace THEN Goto(c, "getSecret") ELSE Return(c)
    /\ UNCHANGED <<tables, history>>

(* secret.CurrentVersion + 1, where one might expect MAX(version) + 1.     *)
NextOfAll == Cardinality(Existing) + 1
NextVersion == current + 1

(* GetSecret found the secret: the type must agree.                        *)
PutFound(c) ==
    /\ At(c, "put", "getSecret")
    /\ SecretExists
    /\ IF type # call[c].type THEN Return(c)
       ELSE /\ NextVersion <= MaxVersion
            /\ GotoWith(c, "createVersion", NextVersion)
    /\ UNCHANGED <<tables, history>>

PutNotFound(c) ==
    /\ At(c, "put", "getSecret")
    /\ ~ SecretExists
    /\ Goto(c, "createSecret")
    /\ UNCHANGED <<tables, history>>

(* CreateSecretWithVersion, one transaction: UNIQUE(namespace, path)       *)
(* rejects it when the secret exists by now.                               *)
PutCreateSecret(c) ==
    /\ At(c, "put", "createSecret")
    /\ \/ /\ SecretExists
          /\ UNCHANGED <<tables, history>>
       \/ /\ ~ SecretExists
          /\ type' = call[c].type
          /\ current' = 1
          /\ AddVersion(1, call[c].value)
          /\ AckOrLose(c, 1)
          /\ UNCHANGED <<namespace, rolledBack>>
    /\ Return(c)

(* CreateVersion: UNIQUE(secret_id, version) rejects a number in use.      *)
PutUpsertVersion(c) ==
    /\ At(c, "put", "createVersion")
    /\ AddVersion(call[c].version, call[c].value)
    /\ Goto(c, "setCurrent")
    /\ UNCHANGED <<namespace, type, current, history>>
PutCurrentFirst(c) ==
    /\ At(c, "put", "createVersion")
    /\ call[c].version \notin Existing
    /\ current' = call[c].version
    /\ Goto(c, "setCurrent")
    /\ UNCHANGED <<namespace, type, versions, history>>
PutCreateVersion(c) ==
    /\ At(c, "put", "createVersion")
    /\ \/ /\ call[c].version \in Existing
          /\ Return(c)
          /\ UNCHANGED versions
       \/ /\ call[c].version \notin Existing
          /\ AddVersion(call[c].version, call[c].value)
          /\ Goto(c, "setCurrent")
    /\ UNCHANGED <<namespace, type, current, history>>

(* SetCurrentVersion, an unconditional UPDATE, and Put returns.            *)
PutSetCurrent(c) ==
    /\ At(c, "put", "setCurrent")
    /\ current' = call[c].version
    /\ AckOrLose(c, call[c].version)
    /\ Return(c)
    /\ UNCHANGED <<namespace, type, versions, rolledBack>>

-----------------------------------------------------------------------------
(* SoftDeleteVersion, RestoreVersion and DestroyVersion differ only in the *)
(* state they set at the end, so which one a call is is decided there.     *)
(* resolveVersion: version 0 is the current one when the secret is read.   *)
ResolveCurrent(c) ==
    /\ At(c, "changeState", "getSecret")
    /\ IF SecretExists
         THEN GotoWith(c, "getVersion", IF call[c].version = 0 THEN current
                                                               ELSE call[c].version)
         ELSE Return(c)
    /\ UNCHANGED <<tables, history>>

ResolveVersion(c) ==
    /\ At(c, "changeState", "getVersion")
    /\ IF call[c].version \in Existing THEN Goto(c, "setState") ELSE Return(c)
    /\ UNCHANGED <<tables, history>>

(* SetVersionState: one UPDATE of state and delete_after.                  *)
SetStateKeepsDeadline(c, state, deleteAfter) ==
    /\ At(c, "changeState", "setState")
    /\ versions' = [versions EXCEPT ![call[c].version].state = state,
                                    ![call[c].version].deleteAfter = @ \/ deleteAfter]
    /\ Return(c)
    /\ UNCHANGED <<namespace, type, current, history>>
SetVersionState(c, state, deleteAfter) ==
    /\ At(c, "changeState", "setState")
    /\ versions' = [versions EXCEPT ![call[c].version].state = state,
                                    ![call[c].version].deleteAfter = deleteAfter]
    /\ Return(c)
    /\ UNCHANGED <<namespace, type, current, history>>

DestroyUnknownState(c) == SetVersionState(c, "destroy", FALSE)
SoftDelete(c) == SetVersionState(c, "deleted", TRUE)
Restore(c) == SetVersionState(c, "active", FALSE)
Destroy(c) == SetVersionState(c, "destroyed", FALSE)

-----------------------------------------------------------------------------
(* Rollback: the secret and the version must exist.  (The version is read  *)
(* once more at the end, which changes nothing.)                           *)
RollbackGetSecret(c) ==
    /\ At(c, "rollback", "getSecret")
    /\ IF SecretExists THEN Goto(c, "getVersion") ELSE Return(c)
    /\ UNCHANGED <<tables, history>>

RollbackUnchecked(c) ==
    /\ At(c, "rollback", "getVersion")
    /\ Goto(c, "setCurrent")
    /\ UNCHANGED <<tables, history>>
RollbackGetVersion(c) ==
    /\ At(c, "rollback", "getVersion")
    /\ IF call[c].version \in Existing THEN Goto(c, "setCurrent") ELSE Return(c)
    /\ UNCHANGED <<tables, history>>

RollbackSetCurrent(c) ==
    /\ At(c, "rollback", "setCurrent")
    /\ current' = call[c].version
    /\ rolledBack' = TRUE
    /\ Return(c)
    /\ UNCHANGED <<namespace, type, versions, acks>>

-----------------------------------------------------------------------------
(* A statement fails, the request is cancelled or its server dies: the     *)
(* call ends where it stands and what it wrote stays.                      *)
Abort(c) ==
    /\ call[c] # Idle
    /\ Return(c)
    /\ UNCHANGED <<tables, history>>

(* PutSecret takes any error of GetSecret for "no such secret" and goes on *)
(* to create it.                                                           *)
PutGetSecretFails(c) ==
    /\ At(c, "put", "getSecret")
    /\ SecretExists
    /\ Goto(c, "createSecret")
    /\ UNCHANGED <<tables, history>>

Step(c) ==
    \/ Start(c)
    \/ CheckNamespaceFree(c) \/ InsertNamespace(c)
    \/ PutGetNamespace(c) \/ PutFound(c) \/ PutNotFound(c)
    \/ PutCreateSecret(c) \/ PutCreateVersion(c) \/ PutSetCurrent(c)
    \/ ResolveCurrent(c) \/ ResolveVersion(c)
    \/ SoftDelete(c) \/ Restore(c) \/ Destroy(c)
    \/ RollbackGetSecret(c) \/ RollbackGetVersion(c) \/ RollbackSetCurrent(c)

Next == \E c \in Clients : Step(c) \/ Abort(c) \/ PutGetSecretFails(c)

Spec == Init /\ [][Next]_vars

(* No statement fails and no server dies.                                  *)
FaultFreeSpec == Init /\ [][\E c \in Clients : Step(c)]_vars

-----------------------------------------------------------------------------
(* Every variable keeps its type.                                          *)
TypeOK ==
    /\ namespace \in BOOLEAN
    /\ type \in Types \cup {NoType}
    /\ current \in Nat
    /\ Existing \subseteq Nat
    /\ versions \in [Existing -> VersionRow]
    /\ call \in [Clients -> Call]
    /\ acks \subseteq (Nat \X Values)
    /\ rolledBack \in BOOLEAN

(* A secret only exists in a namespace that exists, though no foreign key  *)
(* says so and PutSecret reads the namespace long before it writes.        *)
NamespaceBeforeSecret == SecretExists => namespace

(* current_version always names a stored version: a reader who asks for    *)
(* the current version finds one between any two statements of any Put and *)
(* Rollback, and wherever they fail.                                       *)
CurrentExists == SecretExists <=> current \in Existing

(* What Put acknowledged stays stored: the value it was given is the value *)
(* of the version it named, so no two Puts were given the same version for *)
(* different values.                                                       *)
AckedValueStored ==
    \A a \in acks : a[1] \in Existing /\ versions[a[1]].value = a[2]

(* Exactly the soft-deleted versions have a purge time: a restored or      *)
(* destroyed one keeps none, and a deleted one is never without.           *)
DeadlineIffDeleted ==
    \A v \in Existing : versions[v].deleteAfter <=> versions[v].state = "deleted"

(* Until somebody rolls back, readers never see the current version go     *)
(* backwards, although Put sets it in a statement of its own: a Put whose  *)
(* insert is done is the only one that can be between its two statements.  *)
MonotoneWithoutRollback == [][~ rolledBack' => current' >= current]_vars

(* SecretVersions implements VersionedSecret: however Puts and rollbacks   *)
(* interleave and wherever they stop, no version is stored twice, no number*)
(* is left out, only what is stored becomes current, and only what was     *)
(* stored under a number is acknowledged for it.                           *)
Abstract == INSTANCE VersionedSecret WITH
    stored <- [v \in Existing |-> versions[v].value]
RefinesVersionedSecret == Abstract!Spec

(* "Permanently destroy a version": a destroyed version stays destroyed.   *)
DestroyedForever ==
    [][\A v \in Existing : versions[v].state = "destroyed" =>
          versions'[v].state = "destroyed"]_vars

(* "Create or update a secret": when no call is in flight, the next Put of *)
(* the secret's type finds its version number free.                        *)
UpdateNotBlocked ==
    (SecretExists /\ \A c \in Clients : call[c] = Idle) => current + 1 \notin Existing
==============================================================================
