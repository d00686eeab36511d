------------------------- MODULE SecretVersionsProofs -------------------------
(***************************************************************************)
(* Theorems about SecretVersions, for any clients, values, types and any   *)
(* bound on the versions.                                                  *)
(*                                                                         *)
(* No lock and no transaction joins the statements of a call, so what a    *)
(* call relies on when it writes must be something no other call can take  *)
(* away: versions are only added and keep their value.  CallOK states it   *)
(* for each call, TablesOK what it keeps true of the tables.               *)
(***************************************************************************)
EXTENDS SecretVersions, TLAPS

(* What a call in flight relies on.                                        *)
CallOK(c) ==
    /\ call[c].op = "put" => call[c].value \in Values /\ call[c].type \in Types
    /\ At(c, "put", "createVersion") =>
          call[c].version >= 1 /\ call[c].version - 1 \in Existing
    /\ At(c, "put", "setCurrent") =>
          /\ call[c].version \in Existing
          /\ versions[call[c].version].value = call[c].value
    /\ call[c].op = "put" => call[c].step = "getNamespace" \/ namespace
    /\ At(c, "changeState", "setState") => call[c].version \in Existing
    /\ At(c, "rollback", "setCurrent") => call[c].version \in Existing

(* The row in secrets and the rows in secret_versions agree.               *)
SecretOK ==
    IF SecretExists THEN current \in Existing /\ namespace
                    ELSE current = 0 /\ Existing = {}
DownClosed == \A v \in Existing : v >= 1 /\ \A w \in 1..v : w \in Existing

TablesOK == SecretOK /\ DownClosed /\ AckedValueStored /\ DeadlineIffDeleted

SecretInv == TypeOK /\ TablesOK /\ \A c \in Clients : CallOK(c)

-----------------------------------------------------------------------------
(* Empty tables, with no call in flight, satisfy the invariant.            *)
LEMMA SecretInit == Init => SecretInv
<1> SUFFICES ASSUME Init PROVE SecretInv
  OBVIOUS
<1>1. Existing = {}
  BY DEF Init, Existing
<1>2. Idle \in Call
  BY DEF Idle, Call, Ops, Steps
<1>3. TypeOK
  <2>1. versions \in [Existing -> VersionRow]
    BY <1>1 DEF Init, Existing
  <2> QED
    BY <1>1, <1>2, <2>1 DEF Init, TypeOK
<1>4. TablesOK
  BY <1>1 DEF Init, TablesOK, SecretOK, SecretExists, DownClosed, AckedValueStored,
              DeadlineIffDeleted
<1>5. \A c \in Clients : CallOK(c)
  BY DEF Init, CallOK, At, Idle
<1> QED
  BY <1>3, <1>4, <1>5 DEF SecretInv

-----------------------------------------------------------------------------
(* A step that leaves the tables alone and moves one call, to CallOK.      *)
LEMMA MoveCall ==
    ASSUME SecretInv, NEW c \in Clients, NEW r \in Call,
           call' = [call EXCEPT ![c] = r],
           UNCHANGED <<tables, history>>,
           CallOK(c)'
    PROVE  SecretInv'
<1>1. TypeOK'
  BY DEF SecretInv, TypeOK, tables, history, Existing
<1>2. TablesOK'
  BY DEF SecretInv, TablesOK, SecretOK, SecretExists, Existing, DownClosed,
         AckedValueStored, DeadlineIffDeleted, tables, history
<1>3. ASSUME NEW d \in Clients PROVE CallOK(d)'
  <2>1. CASE d = c
    BY <2>1
  <2>2. CASE d # c
    <3>1. call'[d] = call[d] /\ versions' = versions /\ namespace' = namespace
      BY <2>2 DEF SecretInv, TypeOK, tables
    <3> QED
      BY <3>1 DEF SecretInv, CallOK, At, Existing
  <2> QED
    BY <2>1, <2>2
<1> QED
  BY <1>1, <1>2, <1>3 DEF SecretInv

(* What a call knows keeps its type when the call moves to another step.   *)
LEMMA CallTypes ==
    ASSUME SecretInv, NEW c \in Clients
    PROVE  /\ call \in [Clients -> Call]
           /\ call[c] \in Call
           /\ call[c].version \in Nat
           /\ Idle \in Call
           /\ \A s \in Steps : [call[c] EXCEPT !.step = s] \in Call
           /\ \A s \in Steps, v \in Nat :
                 [call[c] EXCEPT !.step = s, !.version = v] \in Call
BY DEF SecretInv, TypeOK, Call, Idle, Ops, Steps

(* The call returns, whatever it was.                                      *)
LEMMA ReturnStep ==
    ASSUME SecretInv, NEW c \in Clients, Return(c), UNCHANGED <<tables, history>>
    PROVE  SecretInv'
<1>1. call' = [call EXCEPT ![c] = Idle] /\ call'[c] = Idle /\ Idle \in Call
  BY CallTypes DEF Return
<1>2. CallOK(c)'
  BY <1>1 DEF CallOK, At, Idle
<1> QED
  BY <1>1, <1>2, MoveCall

(* The call may go on to statement s for version v.                        *)
Ready(c, s, v) ==
    /\ call[c].op = "put" =>
          /\ s = "getNamespace" \/ namespace
          /\ s = "createVersion" => v >= 1 /\ v - 1 \in Existing
          /\ s # "setCurrent"
    /\ call[c].op = "changeState" /\ s = "setState" => v \in Existing
    /\ call[c].op = "rollback" /\ s = "setCurrent" => v \in Existing

(* A call that only reads, and moves on to a step that what it read        *)
(* allows, keeps the invariant.                                            *)
LEMMA GotoStep ==
    ASSUME SecretInv, NEW c \in Clients, UNCHANGED <<tables, history>>,
           NEW s \in Steps, NEW v \in Nat, Ready(c, s, v),
           (Goto(c, s) /\ v = call[c].version) \/ GotoWith(c, s, v)
    PROVE  SecretInv'
<1> DEFINE r == [call[c] EXCEPT !.step = s, !.version = v]
<1>1. r \in Call /\ call \in [Clients -> Call] /\ call[c] \in Call
  BY CallTypes
<1>2. call' = [call EXCEPT ![c] = r]
  BY <1>1 DEF Goto, GotoWith, Call
<1>3. /\ r.op = call[c].op /\ r.value = call[c].value /\ r.type = call[c].type
      /\ r.step = s /\ r.version = v
  BY <1>1 DEF Call
<1>4. versions' = versions /\ namespace' = namespace /\ Existing' = Existing
  BY DEF tables, Existing
<1>5. CallOK(c)
  BY DEF SecretInv
<1> HIDE DEF r
<1>6. call'[c] = r
  BY <1>1, <1>2
<1>7. CallOK(c)'
  BY <1>3, <1>4, <1>5, <1>6 DEF CallOK, At, Ready
<1> QED
  BY <1>1, <1>2, <1>7, MoveCall

(* The statements that only read.                                          *)
LEMMA ReadStep ==
    ASSUME SecretInv, NEW c \in Clients,
           \/ CheckNamespaceFree(c) \/ PutGetNamespace(c) \/ PutFound(c)
           \/ PutNotFound(c) \/ PutGetSecretFails(c) \/ ResolveCurrent(c)
           \/ ResolveVersion(c) \/ RollbackGetSecret(c) \/ RollbackGetVersion(c)
    PROVE  SecretInv'
<1>1. /\ call[c].version \in Nat /\ current \in Nat /\ CallOK(c) /\ SecretOK
  BY CallTypes DEF SecretInv, TypeOK, TablesOK
<1>2. UNCHANGED <<tables, history>>
  BY DEF CheckNamespaceFree, PutGetNamespace, PutFound, PutNotFound, PutGetSecretFails,
         ResolveCurrent, ResolveVersion, RollbackGetSecret, RollbackGetVersion
<1>3. CASE Return(c)
  BY <1>2, <1>3, ReturnStep
<1>4. ASSUME NEW s \in Steps, Goto(c, s), Ready(c, s, call[c].version) PROVE SecretInv'
  BY <1>1, <1>2, <1>4, GotoStep
<1>5. CASE ~ Return(c)
  <2>0. /\ "insertNamespace" \in Steps /\ "getSecret" \in Steps /\ "getVersion" \in Steps
        /\ "createSecret" \in Steps /\ "createVersion" \in Steps
        /\ "setCurrent" \in Steps /\ "setState" \in Steps
    BY DEF Steps
  <2>1. CASE CheckNamespaceFree(c)
    <3>1. Goto(c, "insertNamespace") /\ Ready(c, "insertNamespace", call[c].version)
      BY <1>5, <2>1 DEF CheckNamespaceFree, At, Ready
    <3> QED
      BY <1>4, <2>0, <3>1
  <2>2. CASE PutGetNamespace(c)
    <3>1. Goto(c, "getSecret") /\ Ready(c, "getSecret", call[c].version)
      BY <1>5, <2>2 DEF PutGetNamespace, At, Ready
    <3> QED
      BY <1>4, <2>0, <3>1
  <2>3. CASE PutFound(c)
    <3>1. /\ GotoWith(c, "createVersion", NextVersion)
          /\ call[c].op = "put" /\ SecretExists
      BY <1>5, <2>3 DEF PutFound, At
    <3>2. NextVersion \in Nat /\ Ready(c, "createVersion", NextVersion)
      BY <1>1, <3>1 DEF NextVersion, SecretOK, Ready
    <3> QED
      BY <1>2, <2>0, <3>1, <3>2, GotoStep
  <2>4. CASE PutNotFound(c) \/ PutGetSecretFails(c)
    <3>1. Goto(c, "createSecret") /\ call[c].op = "put" /\ call[c].step = "getSecret"
      BY <2>4 DEF PutNotFound, PutGetSecretFails, At
    <3>2. Ready(c, "createSecret", call[c].version)
      BY <1>1, <3>1 DEF CallOK, Ready
    <3> QED
      BY <1>4, <2>0, <3>1, <3>2
  <2>5. CASE ResolveCurrent(c)
    <3>1. PICK v \in Nat : GotoWith(c, "getVersion", v)
      BY <1>1, <1>5, <2>5 DEF ResolveCurrent
    <3>2. Ready(c, "getVersion", v)
      BY <2>5 DEF ResolveCurrent, At, Ready
    <3> QED
      BY <1>2, <2>0, <3>1, <3>2, GotoStep
  <2>6. CASE ResolveVersion(c)
    <3>1. Goto(c, "setState") /\ Ready(c, "setState", call[c].version)
      BY <1>5, <2>6 DEF ResolveVersion, At, Ready
    <3> QED
      BY <1>4, <2>0, <3>1
  <2>7. CASE RollbackGetSecret(c)
    <3>1. Goto(c, "getVersion") /\ Ready(c, "getVersion", call[c].version)
      BY <1>5, <2>7 DEF RollbackGetSecret, At, Ready
    <3> QED
      BY <1>4, <2>0, <3>1
  <2>8. CASE RollbackGetVersion(c)
    <3>1. Goto(c, "setCurrent") /\ Ready(c, "setCurrent", call[c].version)
      BY <1>5, <2>8 DEF RollbackGetVersion, At, Ready
    <3> QED
      BY <1>4, <2>0, <3>1
  <2> QED
    BY <2>1, <2>2, <2>3, <2>4, <2>5, <2>6, <2>7, <2>8
<1> QED
  BY <1>3, <1>5

(* A new request of any kind knows nothing of the tables yet.              *)
LEMMA StartStep ==
    ASSUME SecretInv, NEW c \in Clients, Start(c)
    PROVE  SecretInv'
<1>1. /\ call \in [Clients -> Call] /\ call[c] = Idle /\ Idle \in Call
      /\ UNCHANGED <<tables, history>>
  BY CallTypes DEF Start
<1> DEFINE Starts(r) == /\ call' = [call EXCEPT ![c] = r]
                        /\ r.step \in {"getNamespace", "getSecret"}
                        /\ r.op = "put" => /\ r.step = "getNamespace"
                                           /\ r.value \in Values /\ r.type \in Types
<1>2. \E r \in Call : Starts(r)
  <2>1. CASE call' = [call EXCEPT ![c].op = "createNamespace", ![c].step = "getNamespace"]
    <3> DEFINE r == [Idle EXCEPT !.op = "createNamespace", !.step = "getNamespace"]
    <3>1. r \in Call /\ r.step = "getNamespace" /\ r.op = "createNamespace"
      BY <1>1 DEF Call, Ops, Steps
    <3>2. call' = [call EXCEPT ![c] = r]
      BY <1>1, <2>1
    <3> HIDE DEF r
    <3> QED
      BY <3>1, <3>2
  <2>2. ASSUME NEW x \in Values, NEW t \in Types,
               call' = [call EXCEPT ![c] = [op |-> "put", step |-> "getNamespace",
                                            value |-> x, type |-> t, version |-> 0]]
        PROVE  \E r \in Call : Starts(r)
    <3> DEFINE r == [op |-> "put", step |-> "getNamespace",
                     value |-> x, type |-> t, version |-> 0]
    <3>1. /\ r \in Call /\ r.step = "getNamespace"
          /\ r.value \in Values /\ r.type \in Types
      BY DEF Call, Ops, Steps
    <3>2. call' = [call EXCEPT ![c] = r]
      BY <2>2
    <3> HIDE DEF r
    <3> QED
      BY <3>1, <3>2
  <2>3. ASSUME NEW o \in {"rollback", "changeState"}, NEW v \in 0..MaxVersion,
               call' = [call EXCEPT ![c].op = o, ![c].step = "getSecret", ![c].version = v]
        PROVE  \E r \in Call : Starts(r)
    <3> DEFINE r == [Idle EXCEPT !.op = o, !.step = "getSecret", !.version = v]
    <3>0. v \in Nat /\ o \in Ops /\ "getSecret" \in Steps
      BY ConstantsAssumption DEF Ops, Steps
    <3>1. r \in Call /\ r.step = "getSecret" /\ r.op = o
      BY <1>1, <3>0 DEF Call
    <3>2. call' = [call EXCEPT ![c] = r]
      BY <1>1, <2>3
    <3>3. o # "put"
      OBVIOUS
    <3> HIDE DEF r
    <3> QED
      BY <3>1, <3>2, <3>3
  <2> QED
    BY <2>1, <2>2, <2>3 DEF Start
<1>3. PICK r \in Call : Starts(r)
  BY <1>2
<1>4. call'[c] = r
  BY <1>1, <1>3
<1>5. CallOK(c)'
  BY <1>3, <1>4 DEF CallOK, At
<1> QED
  BY <1>1, <1>3, <1>5, MoveCall

-----------------------------------------------------------------------------
(* The statements that write: versions are only added and keep their       *)
(* value, a namespace stays, so the other calls keep what they rely on.    *)
LEMMA OthersKeep ==
    ASSUME SecretInv, NEW c \in Clients, NEW d \in Clients, call'[d] = call[d],
           Existing \subseteq Existing',
           \A v \in Existing : versions'[v].value = versions[v].value,
           namespace => namespace'
    PROVE  CallOK(d)'
<1>1. CallOK(d)
  BY DEF SecretInv
<1> QED
  BY <1>1 DEF CallOK, At

(* The slot of a call that returned is idle, and the other slots are       *)
(* untouched.                                                              *)
LEMMA Returned ==
    ASSUME SecretInv, NEW c \in Clients, Return(c)
    PROVE  /\ call' \in [Clients -> Call]
           /\ \A d \in Clients : d # c => call'[d] = call[d]
           /\ CallOK(c)'
<1>1. call' = [call EXCEPT ![c] = Idle] /\ call'[c] = Idle /\ Idle \in Call
      /\ call \in [Clients -> Call]
  BY CallTypes DEF Return
<1>2. CallOK(c)'
  BY <1>1 DEF CallOK, At, Idle
<1> QED
  BY <1>1, <1>2

(* CreateNamespace only ever adds the namespace.                           *)
LEMMA InsertNamespaceStep ==
    ASSUME SecretInv, NEW c \in Clients, InsertNamespace(c)
    PROVE  SecretInv'
<1>1. /\ namespace' = TRUE /\ Return(c) /\ Existing' = Existing
      /\ UNCHANGED <<type, current, versions, acks, rolledBack>>
  BY DEF InsertNamespace, history, Existing
<1>2. TypeOK'
  BY <1>1, Returned DEF SecretInv, TypeOK
<1>3. TablesOK'
  BY <1>1 DEF SecretInv, TablesOK, SecretOK, SecretExists, DownClosed,
              AckedValueStored, DeadlineIffDeleted
<1>4. \A d \in Clients : CallOK(d)'
  BY <1>1, Returned, OthersKeep
<1> QED
  BY <1>2, <1>3, <1>4 DEF SecretInv

(* A version that is added leaves the others as they were.                 *)
LEMMA Added ==
    ASSUME NEW v, NEW x, AddVersion(v, x)
    PROVE  /\ Existing' = Existing \cup {v}
           /\ versions' \in [Existing' -> {versions'[w] : w \in Existing'}]
           /\ versions'[v] = NewRow(x)
           /\ \A w \in Existing : w # v => versions'[w] = versions[w]
BY DEF AddVersion, Existing

(* CreateSecretWithVersion starts a secret at version 1, or is rejected.   *)
LEMMA PutCreateSecretStep ==
    ASSUME SecretInv, NEW c \in Clients, PutCreateSecret(c)
    PROVE  SecretInv'
<1>1. CASE SecretExists
  BY <1>1, ReturnStep DEF PutCreateSecret
<1>2. CASE ~ SecretExists
  <2>1. /\ At(c, "put", "createSecret") /\ Return(c)
        /\ type' = call[c].type /\ current' = 1 /\ AddVersion(1, call[c].value)
        /\ UNCHANGED <<namespace, rolledBack>>
        /\ acks' = acks \/ acks' = acks \cup {<<1, call[c].value>>}
    BY <1>2 DEF PutCreateSecret, AckOrLose
  <2>2. /\ call[c].value \in Values /\ type' \in Types /\ namespace
        /\ Existing = {} /\ acks = {}
    <3>1. CallOK(c) /\ SecretOK /\ AckedValueStored /\ TypeOK
      BY DEF SecretInv, TablesOK
    <3>2. Existing = {} /\ acks = {}
      BY <1>2, <3>1 DEF SecretOK, AckedValueStored
    <3> QED
      BY <2>1, <3>1, <3>2 DEF CallOK, At
  <2>3. /\ Existing' = {1} /\ versions'[1] = NewRow(call[c].value)
        /\ versions' \in [Existing' -> {versions'[w] : w \in Existing'}]
    BY <2>1, <2>2, Added
  <2>4. NewRow(call[c].value) \in VersionRow
    BY <2>2 DEF NewRow, VersionRow, States
  <2>5. versions' \in [Existing' -> VersionRow]
    BY <2>3, <2>4
  <2>6. TypeOK'
    BY <2>1, <2>2, <2>3, <2>5, Returned DEF SecretInv, TypeOK
  <2>7. TablesOK'
    <3>1. SecretOK'
      BY <2>1, <2>2, <2>3, ConstantsAssumption DEF SecretOK, SecretExists
    <3>2. DownClosed'
      BY <2>3 DEF DownClosed
    <3>3. AckedValueStored' /\ DeadlineIffDeleted'
      BY <2>1, <2>2, <2>3 DEF AckedValueStored, DeadlineIffDeleted, NewRow
    <3> QED
      BY <3>1, <3>2, <3>3 DEF TablesOK
  <2>8. \A d \in Clients : CallOK(d)'
    BY <2>1, <2>2, Returned, OthersKeep
  <2> QED
    BY <2>6, <2>7, <2>8 DEF SecretInv
<1> QED
  BY <1>1, <1>2

(* CreateVersion adds the version after one that is stored, or is          *)
(* rejected.                                                               *)
LEMMA PutCreateVersionStep ==
    ASSUME SecretInv, NEW c \in Clients, PutCreateVersion(c)
    PROVE  SecretInv'
<1> DEFINE v == call[c].version
           r == [call[c] EXCEPT !.step = "setCurrent"]
<1>1. CASE v \in Existing /\ Return(c) /\ UNCHANGED versions
  <2>1. UNCHANGED <<tables, history>>
    BY <1>1 DEF PutCreateVersion, tables
  <2> QED
    BY <1>1, <2>1, ReturnStep
<1>2. CASE v \notin Existing /\ AddVersion(v, call[c].value) /\ Goto(c, "setCurrent")
  <2>1. /\ UNCHANGED <<namespace, type, current, acks, rolledBack>>
        /\ call[c].op = "put" /\ call[c].step = "createVersion"
    BY DEF PutCreateVersion, At, history
  <2>2. /\ call[c].value \in Values /\ v \in Nat /\ v >= 1 /\ v - 1 \in Existing
        /\ call[c].type \in Types /\ namespace
    BY <2>1, CallTypes DEF SecretInv, CallOK, At
  <2>3. /\ Existing' = Existing \cup {v} /\ versions'[v] = NewRow(call[c].value)
        /\ versions' \in [Existing' -> {versions'[w] : w \in Existing'}]
        /\ \A w \in Existing : versions'[w] = versions[w]
    BY <1>2, Added
  <2>4. /\ r \in Call /\ call' = [call EXCEPT ![c] = r] /\ call' \in [Clients -> Call]
        /\ \A d \in Clients : d # c => call'[d] = call[d]
        /\ call'[c].op = "put" /\ call'[c].step = "setCurrent"
        /\ call'[c].value = call[c].value /\ call'[c].type = call[c].type
        /\ call'[c].version = v
    <3>1. "setCurrent" \in Steps /\ call \in [Clients -> Call] /\ call[c] \in Call
      BY CallTypes DEF Steps
    <3> QED
      BY <1>2, <2>1, <3>1, CallTypes DEF Goto, Call
  <2>5. NewRow(call[c].value) \in VersionRow
    BY <2>2 DEF NewRow, VersionRow, States
  <2>6. TypeOK'
    <3>1. versions \in [Existing -> VersionRow] /\ Existing \subseteq Nat
      BY DEF SecretInv, TypeOK
    <3>2. \A w \in Existing' : versions'[w] \in VersionRow
      BY <2>3, <2>5, <3>1
    <3>3. versions' \in [Existing' -> VersionRow]
      BY <2>3, <3>2
    <3>4. Existing' \subseteq Nat
      BY <2>2, <2>3, <3>1
    <3> QED
      BY <2>1, <2>4, <3>3, <3>4 DEF SecretInv, TypeOK
  <2>7. TablesOK'
    <3>1. TablesOK /\ \A w \in Existing : w \in Nat
      BY DEF SecretInv, TypeOK
    <3>2. SecretOK'
      BY <2>1, <2>2, <2>3, <3>1 DEF TablesOK, SecretOK, SecretExists
    <3>3. DownClosed'
      <4>1. \A w \in 1..v : w = v \/ w \in 1..(v - 1)
        BY <2>2
      <4> QED
        BY <2>2, <2>3, <3>1, <4>1 DEF TablesOK, DownClosed
    <3>4. AckedValueStored'
      BY <2>1, <2>3, <3>1 DEF TablesOK, AckedValueStored
    <3>5. DeadlineIffDeleted'
      BY <2>3, <3>1 DEF TablesOK, DeadlineIffDeleted, NewRow
    <3> QED
      BY <3>2, <3>3, <3>4, <3>5 DEF TablesOK
  <2>8. CallOK(c)'
    BY <2>1, <2>2, <2>3, <2>4 DEF CallOK, At, NewRow
  <2>9. ASSUME NEW d \in Clients, d # c PROVE CallOK(d)'
    BY <2>1, <2>3, <2>4, <2>9, OthersKeep
  <2> QED
    BY <2>6, <2>7, <2>8, <2>9 DEF SecretInv
<1> QED
  BY <1>1, <1>2 DEF PutCreateVersion

(* SetCurrentVersion names a stored version, whoever calls it: the version *)
(* was inserted or read before, and versions are never removed.            *)
LEMMA SetCurrentStep ==
    ASSUME SecretInv, NEW c \in Clients, PutSetCurrent(c) \/ RollbackSetCurrent(c)
    PROVE  SecretInv'
<1> DEFINE v == call[c].version
<1>1. /\ call[c].op \in {"put", "rollback"} /\ call[c].step = "setCurrent"
      /\ current' = v /\ Return(c)
      /\ UNCHANGED <<namespace, type, versions>>
      /\ UNCHANGED rolledBack \/ rolledBack' = TRUE
      /\ acks' = acks \/ (call[c].op = "put" /\ acks' = acks \cup {<<v, call[c].value>>})
  <2>1. CASE PutSetCurrent(c)
    BY <2>1 DEF PutSetCurrent, At, AckOrLose
  <2>2. CASE RollbackSetCurrent(c)
    BY <2>2 DEF RollbackSetCurrent, At
  <2> QED
    BY <2>1, <2>2
<1>2. v \in Existing /\ v \in Nat /\ Existing' = Existing
  BY <1>1, CallTypes DEF SecretInv, CallOK, At, Existing
<1>3. call[c].op = "put" => call[c].value \in Values /\ versions[v].value = call[c].value
  BY <1>1 DEF SecretInv, CallOK, At
<1>4. TypeOK'
  <2>1. TypeOK
    BY DEF SecretInv
  <2>2. acks' \subseteq (Nat \X Values)
    BY <1>1, <1>2, <1>3, <2>1 DEF TypeOK
  <2>3. rolledBack' \in BOOLEAN
    BY <1>1, <2>1 DEF TypeOK
  <2> QED
    BY <1>1, <1>2, <2>1, <2>2, <2>3, Returned DEF TypeOK
<1>5. TablesOK'
  <2>1. TablesOK
    BY DEF SecretInv
  <2>2. SecretOK'
    BY <1>1, <1>2, <2>1 DEF TablesOK, SecretOK, SecretExists
  <2>3. DownClosed' /\ DeadlineIffDeleted'
    BY <1>1, <1>2, <2>1 DEF TablesOK, DownClosed, DeadlineIffDeleted
  <2>4. AckedValueStored'
    BY <1>1, <1>2, <1>3, <2>1 DEF TablesOK, AckedValueStored
  <2> QED
    BY <2>2, <2>3, <2>4 DEF TablesOK
<1>6. ASSUME NEW d \in Clients PROVE CallOK(d)'
  BY <1>1, <1>2, Returned, OthersKeep
<1> QED
  BY <1>4, <1>5, <1>6 DEF SecretInv

(* SetVersionState writes a purge time exactly with the state "deleted".   *)
LEMMA SetStateStep ==
    ASSUME SecretInv, NEW c \in Clients, SoftDelete(c) \/ Restore(c) \/ Destroy(c)
    PROVE  SecretInv'
<1> DEFINE v == call[c].version
<1>1. PICK state \in States, deleteAfter \in BOOLEAN :
         /\ SetVersionState(c, state, deleteAfter)
         /\ deleteAfter <=> state = "deleted"
  BY DEF SoftDelete, Restore, Destroy, States
<1>2. /\ At(c, "changeState", "setState") /\ Return(c)
      /\ versions' = [versions EXCEPT ![v].state = state, ![v].deleteAfter = deleteAfter]
      /\ UNCHANGED <<namespace, type, current, acks, rolledBack>>
  BY <1>1 DEF SetVersionState, history
<1>3. v \in Existing /\ TypeOK /\ TablesOK /\ versions \in [Existing -> VersionRow]
  BY <1>2 DEF SecretInv, CallOK, TypeOK
<1>4. /\ versions[v] \in VersionRow /\ Existing' = Existing
      /\ versions'[v] = [versions[v] EXCEPT !.state = state, !.deleteAfter = deleteAfter]
      /\ \A w \in Existing : w # v => versions'[w] = versions[w]
  BY <1>2, <1>3 DEF Existing
<1>5. /\ versions'[v] \in VersionRow /\ versions'[v].value = versions[v].value
      /\ versions'[v].state = state /\ versions'[v].deleteAfter = deleteAfter
  BY <1>4 DEF VersionRow
<1>6. versions' \in [Existing' -> VersionRow]
  BY <1>2, <1>3, <1>4, <1>5
<1>7. TypeOK'
  BY <1>2, <1>3, <1>4, <1>6, Returned DEF TypeOK
<1>8. TablesOK'
  <2>1. SecretOK' /\ DownClosed'
    BY <1>2, <1>3, <1>4 DEF TablesOK, SecretOK, SecretExists, DownClosed
  <2>2. AckedValueStored'
    BY <1>2, <1>3, <1>4, <1>5 DEF TablesOK, AckedValueStored
  <2>3. DeadlineIffDeleted'
    BY <1>1, <1>3, <1>4, <1>5 DEF TablesOK, DeadlineIffDeleted
  <2> QED
    BY <2>1, <2>2, <2>3 DEF TablesOK
<1>9. ASSUME NEW d \in Clients PROVE CallOK(d)'
  BY <1>2, <1>4, <1>5, Returned, OthersKeep
<1> QED
  BY <1>7, <1>8, <1>9 DEF SecretInv

-----------------------------------------------------------------------------
(* The invariant is inductive: one case for each statement of the service. *)
LEMMA SecretNext == SecretInv /\ [Next]_vars => SecretInv'
<1> SUFFICES ASSUME SecretInv, [Next]_vars
             PROVE  SecretInv'
  OBVIOUS
<1>1. ASSUME NEW c \in Clients, Step(c) PROVE SecretInv'
  <2>1. CASE Start(c)
    BY <2>1, StartStep
  <2>2. CASE \/ CheckNamespaceFree(c) \/ PutGetNamespace(c) \/ PutFound(c)
             \/ PutNotFound(c) \/ ResolveCurrent(c) \/ ResolveVersion(c)
             \/ RollbackGetSecret(c) \/ RollbackGetVersion(c)
    BY <2>2, ReadStep
  <2>3. CASE InsertNamespace(c)
    BY <2>3, InsertNamespaceStep
  <2>4. CASE PutCreateSecret(c)
    BY <2>4, PutCreateSecretStep
  <2>5. CASE PutCreateVersion(c)
    BY <2>5, PutCreateVersionStep
  <2>6. CASE PutSetCurrent(c) \/ RollbackSetCurrent(c)
    BY <2>6, SetCurrentStep
  <2>7. CASE SoftDelete(c) \/ Restore(c) \/ Destroy(c)
    BY <2>7, SetStateStep
  <2> QED
    BY <1>1, <2>1, <2>2, <2>3, <2>4, <2>5, <2>6, <2>7 DEF Step
<1>2. ASSUME NEW c \in Clients, Abort(c) PROVE SecretInv'
  BY <1>2, ReturnStep DEF Abort
<1>3. ASSUME NEW c \in Clients, PutGetSecretFails(c) PROVE SecretInv'
  BY <1>3, ReadStep
<1>4. ASSUME UNCHANGED vars PROVE SecretInv'
  <2>1. UNCHANGED <<namespace, type, current, versions, call, acks, rolledBack>>
    BY <1>4 DEF vars
  <2>2. Existing' = Existing
    BY <2>1 DEF Existing
  <2> QED
    BY <2>1, <2>2 DEF SecretInv, TypeOK, TablesOK, SecretOK, SecretExists, DownClosed,
                      AckedValueStored, DeadlineIffDeleted, CallOK, At
<1> QED
  BY <1>1, <1>2, <1>3, <1>4 DEF Next

(* Whatever the interleaving of the calls and wherever they stop, what     *)
(* each call relies on holds, and secrets and secret_versions agree.       *)
THEOREM SecretCorrect == Spec => []SecretInv
BY SecretInit, SecretNext, PTL DEF Spec

(* Every variable keeps its type.                                          *)
THEOREM SecretTypeCorrect == Spec => []TypeOK
<1>1. SecretInv => TypeOK
  BY DEF SecretInv
<1> QED
  BY <1>1, SecretCorrect, PTL

(* A secret only exists in a namespace that exists, although no foreign    *)
(* key says so.                                                            *)
THEOREM SecretInNamespace == Spec => []NamespaceBeforeSecret
<1>1. SecretInv => NamespaceBeforeSecret
  BY DEF SecretInv, TablesOK, SecretOK, NamespaceBeforeSecret
<1> QED
  BY <1>1, SecretCorrect, PTL

(* current_version names a stored version whenever there is a secret,      *)
(* between any two statements of Put and Rollback.                         *)
THEOREM CurrentIsStored == Spec => []CurrentExists
<1>1. SecretInv => CurrentExists
  BY DEF SecretInv, TablesOK, SecretOK, CurrentExists
<1> QED
  BY <1>1, SecretCorrect, PTL

(* An acknowledged value stays the value of the version it was             *)
(* acknowledged as.                                                        *)
THEOREM AcknowledgedValueStored == Spec => []AckedValueStored
<1>1. SecretInv => AckedValueStored
  BY DEF SecretInv, TablesOK
<1> QED
  BY <1>1, SecretCorrect, PTL

(* Exactly the soft-deleted versions have a purge time.                    *)
THEOREM PurgeTimeIffDeleted == Spec => []DeadlineIffDeleted
<1>1. SecretInv => DeadlineIffDeleted
  BY DEF SecretInv, TablesOK
<1> QED
  BY <1>1, SecretCorrect, PTL

-----------------------------------------------------------------------------
(* Before the first rollback the newest version is at most one ahead of    *)
(* the current one, and only one Put is between its two statements.        *)
PutsOK ==
    /\ \A v \in Existing : v <= current + 1
    /\ \A c \in Clients : At(c, "put", "createVersion") => call[c].version <= current + 1
    /\ \A c \in Clients : At(c, "put", "setCurrent") => call[c].version = current + 1
    /\ \A c, d \in Clients :
          At(c, "put", "setCurrent") /\ At(d, "put", "setCurrent") => c = d

NoRollbackInv == ~ rolledBack => PutsOK

(* A step that leaves the versions and the current one alone.              *)
LEMMA PutsKeep ==
    ASSUME NoRollbackInv, NEW c \in Clients, Existing' = Existing,
           UNCHANGED <<current, rolledBack>>,
           \A d \in Clients : d # c => call'[d] = call[d],
           ~ At(c, "put", "setCurrent")',
           At(c, "put", "createVersion")' => call'[c].version = current + 1,
           current \in Nat
    PROVE  NoRollbackInv'
<1> SUFFICES ASSUME ~ rolledBack PROVE PutsOK'
  BY DEF NoRollbackInv
<1>1. PutsOK
  BY DEF NoRollbackInv
<1> QED
  BY <1>1 DEF PutsOK, At

(* The call moved on within its operation.                                 *)
LEMMA MovedOn ==
    ASSUME SecretInv, NEW c \in Clients, NEW s \in Steps, NEW v \in Nat,
           (Goto(c, s) /\ v = call[c].version) \/ GotoWith(c, s, v)
    PROVE  /\ \A d \in Clients : d # c => call'[d] = call[d]
           /\ call'[c].op = call[c].op /\ call'[c].step = s /\ call'[c].version = v
<1>1. call \in [Clients -> Call] /\ call[c] \in Call
  BY CallTypes
<1>2. CASE Goto(c, s) /\ v = call[c].version
  BY <1>1, <1>2 DEF Goto, Call
<1>3. CASE GotoWith(c, s, v)
  BY <1>1, <1>3 DEF GotoWith, Call
<1> QED
  BY <1>2, <1>3

(* A call that returned is at no step of Put.                              *)
LEMMA IdleAfterReturn ==
    ASSUME SecretInv, NEW c \in Clients, Return(c)
    PROVE  call'[c] = Idle /\ \A d \in Clients : d # c => call'[d] = call[d]
<1>1. call \in [Clients -> Call]
  BY CallTypes
<1> QED
  BY <1>1 DEF Return

(* The steps that leave the versions and the current one alone.            *)
LEMMA PutsQuiet ==
    ASSUME SecretInv, NoRollbackInv, NEW c \in Clients,
           \/ Start(c) \/ CheckNamespaceFree(c) \/ InsertNamespace(c)
           \/ PutGetNamespace(c) \/ PutFound(c) \/ PutNotFound(c) \/ PutGetSecretFails(c)
           \/ ResolveCurrent(c) \/ ResolveVersion(c) \/ SoftDelete(c) \/ Restore(c)
           \/ Destroy(c) \/ RollbackGetSecret(c) \/ RollbackGetVersion(c) \/ Abort(c)
    PROVE  NoRollbackInv' /\ UNCHANGED current
<1>1. current \in Nat /\ call[c].version \in Nat /\ call \in [Clients -> Call]
  BY CallTypes DEF SecretInv, TypeOK
<1>2. Existing' = Existing /\ UNCHANGED <<current, rolledBack>>
  <2>1. CASE SoftDelete(c) \/ Restore(c) \/ Destroy(c)
    BY <2>1 DEF SoftDelete, Restore, Destroy, SetVersionState, Existing, history
  <2>2. CASE ~ (SoftDelete(c) \/ Restore(c) \/ Destroy(c))
    BY <2>2 DEF Start, CheckNamespaceFree, InsertNamespace, PutGetNamespace, PutFound,
                PutNotFound, PutGetSecretFails, ResolveCurrent, ResolveVersion,
                RollbackGetSecret, RollbackGetVersion, Abort, Existing, tables, history
  <2> QED
    BY <2>1, <2>2
<1>3. CASE Return(c)
  <2>1. call'[c] = Idle /\ \A d \in Clients : d # c => call'[d] = call[d]
    BY <1>3, IdleAfterReturn
  <2> QED
    BY <1>1, <1>2, <2>1, PutsKeep DEF At, Idle
<1>4. CASE Start(c)
  <2>1. \A d \in Clients : d # c => call'[d] = call[d]
    BY <1>1, <1>4 DEF Start
  <2>2. call'[c].step \in {"getNamespace", "getSecret"}
    <3>1. call[c] = Idle
      BY <1>4 DEF Start
    <3> QED
      BY <1>1, <1>4, <3>1 DEF Start, Idle
  <2> QED
    BY <1>1, <1>2, <2>1, <2>2, PutsKeep DEF At
<1>5. ASSUME NEW s \in Steps, NEW v \in Nat,
             (Goto(c, s) /\ v = call[c].version) \/ GotoWith(c, s, v),
             call[c].op = "put" => s # "setCurrent" /\ (s = "createVersion" => v = current + 1)
      PROVE  NoRollbackInv'
  BY <1>1, <1>2, <1>5, MovedOn, PutsKeep DEF At
<1>6. CASE ~ Return(c) /\ ~ Start(c)
  <2>1. CASE PutFound(c)
    <3>1. GotoWith(c, "createVersion", current + 1)
      BY <1>6, <2>1 DEF PutFound, NextVersion
    <3>2. "createVersion" \in Steps /\ current + 1 \in Nat
      BY <1>1 DEF Steps
    <3> QED
      BY <1>2, <1>5, <3>1, <3>2
  <2>2. CASE ResolveCurrent(c)
    <3>1. PICK v \in Nat : GotoWith(c, "getVersion", v)
      BY <1>1, <1>6, <2>2 DEF ResolveCurrent
    <3>2. "getVersion" \in Steps
      BY DEF Steps
    <3> QED
      BY <1>2, <1>5, <3>1, <3>2
  <2>3. CASE PutGetNamespace(c) \/ PutNotFound(c) \/ PutGetSecretFails(c)
    <3>1. PICK s \in {"getSecret", "createSecret"} : Goto(c, s)
      BY <1>6, <2>3 DEF PutGetNamespace, PutNotFound, PutGetSecretFails
    <3>2. s \in Steps /\ s # "setCurrent" /\ s # "createVersion"
      BY DEF Steps
    <3> QED
      BY <1>1, <1>2, <1>5, <3>1, <3>2
  <2>4. CASE CheckNamespaceFree(c) \/ ResolveVersion(c) \/ RollbackGetSecret(c)
             \/ RollbackGetVersion(c)
    <3>1. PICK s \in {"insertNamespace", "setState", "getVersion", "setCurrent"} : Goto(c, s)
      BY <1>6, <2>4 DEF CheckNamespaceFree, ResolveVersion, RollbackGetSecret,
                        RollbackGetVersion
    <3>2. s \in Steps /\ call[c].op # "put"
      BY <2>4 DEF Steps, At, CheckNamespaceFree, ResolveVersion, RollbackGetSecret,
                  RollbackGetVersion
    <3> QED
      BY <1>1, <1>2, <1>5, <3>1, <3>2
  <2> QED
    BY <1>6, <2>1, <2>2, <2>3, <2>4 DEF InsertNamespace, SoftDelete, Restore, Destroy,
                                        SetVersionState, Abort
<1> QED
  BY <1>2, <1>3, <1>4, <1>6

(* The steps that add a version or move the current one.                   *)
LEMMA PutsWrite ==
    ASSUME SecretInv, NoRollbackInv, NEW c \in Clients,
           PutCreateSecret(c) \/ PutCreateVersion(c) \/ PutSetCurrent(c)
    PROVE  NoRollbackInv' /\ (~ rolledBack' => current' >= current)
<1> DEFINE v == call[c].version
<1>1. /\ current \in Nat /\ v \in Nat /\ call \in [Clients -> Call]
      /\ SecretOK /\ DownClosed /\ CallOK(c) /\ Existing \subseteq Nat
  BY CallTypes DEF SecretInv, TypeOK, TablesOK
<1>2. CASE Return(c) /\ UNCHANGED <<tables, history>>
  <2>1. call'[c] = Idle /\ \A d \in Clients : d # c => call'[d] = call[d]
    BY <1>2, IdleAfterReturn
  <2>2. Existing' = Existing /\ UNCHANGED <<current, rolledBack>>
    BY <1>2 DEF Existing, tables, history
  <2> QED
    BY <1>1, <2>1, <2>2, PutsKeep DEF At, Idle
<1>3. CASE PutCreateSecret(c) /\ ~ SecretExists
  <2>1. /\ Return(c) /\ current' = 1 /\ rolledBack' = rolledBack
        /\ Existing' = Existing \cup {1}
    BY <1>3, Added DEF PutCreateSecret
  <2>2. Existing = {} /\ current = 0
    BY <1>1, <1>3 DEF SecretOK
  <2>3. \A d \in Clients : ~ At(d, "put", "createVersion") /\ ~ At(d, "put", "setCurrent")
    BY <2>2 DEF SecretInv, CallOK
  <2>4. \A d \in Clients : ~ At(d, "put", "createVersion")' /\ ~ At(d, "put", "setCurrent")'
    BY <2>1, <2>3, IdleAfterReturn DEF At, Idle
  <2>5. PutsOK'
    BY <2>1, <2>2, <2>4 DEF PutsOK
  <2> QED
    BY <2>1, <2>2, <2>5 DEF NoRollbackInv
<1>4. CASE PutCreateVersion(c) /\ v \notin Existing
  <2>1. /\ At(c, "put", "createVersion") /\ Goto(c, "setCurrent")
        /\ Existing' = Existing \cup {v} /\ UNCHANGED <<current, rolledBack>>
    BY <1>4, Added DEF PutCreateVersion, history
  <2>2. /\ \A d \in Clients : d # c => call'[d] = call[d]
        /\ call'[c].op = "put" /\ call'[c].step = "setCurrent" /\ call'[c].version = v
    <3>1. "setCurrent" \in Steps
      BY DEF Steps
    <3> QED
      BY <1>1, <2>1, <3>1, MovedOn DEF At
  <2>3. SUFFICES ASSUME ~ rolledBack PROVE PutsOK'
    BY <1>1, <2>1 DEF NoRollbackInv
  <2>4. PutsOK
    BY <2>3 DEF NoRollbackInv
  <2>5. v = current + 1
    <3>1. v <= current + 1 /\ v >= 1 /\ v - 1 \in Existing
      BY <1>1, <2>1, <2>4 DEF PutsOK, CallOK
    <3>2. SecretExists /\ current \in Existing
      BY <1>1, <3>1 DEF SecretOK
    <3>3. ~ (v <= current)
      <4> SUFFICES ASSUME v <= current PROVE FALSE
        OBVIOUS
      <4>1. v \in 1..current
        BY <1>1, <3>1
      <4> QED
        BY <1>1, <1>4, <3>2, <4>1 DEF DownClosed
    <3> QED
      BY <1>1, <3>1, <3>3
  <2>6. \A d \in Clients : ~ At(d, "put", "setCurrent")
    <3> SUFFICES ASSUME NEW d \in Clients, At(d, "put", "setCurrent") PROVE FALSE
      OBVIOUS
    <3>1. call[d].version = current + 1 /\ call[d].version \in Existing
      BY <2>4 DEF PutsOK, SecretInv, CallOK
    <3> QED
      BY <1>4, <2>5, <3>1
  <2> QED
    BY <1>1, <2>1, <2>2, <2>4, <2>5, <2>6 DEF PutsOK, At
<1>5. CASE PutSetCurrent(c)
  <2>1. /\ At(c, "put", "setCurrent") /\ current' = v /\ Return(c)
        /\ Existing' = Existing /\ UNCHANGED rolledBack
    BY <1>5 DEF PutSetCurrent, Existing
  <2>2. call'[c] = Idle /\ \A d \in Clients : d # c => call'[d] = call[d]
    BY <2>1, IdleAfterReturn
  <2>3. SUFFICES ASSUME ~ rolledBack PROVE PutsOK' /\ current' >= current
    BY <2>1 DEF NoRollbackInv
  <2>4. PutsOK /\ v = current + 1
    BY <2>1, <2>3 DEF NoRollbackInv, PutsOK
  <2>5. \A d \in Clients : ~ At(d, "put", "setCurrent")'
    BY <2>1, <2>2, <2>4 DEF PutsOK, At, Idle
  <2>6. \A d \in Clients : At(d, "put", "createVersion")' =>
           At(d, "put", "createVersion") /\ call'[d].version = call[d].version
    BY <2>2 DEF At, Idle
  <2>7. \A d \in Clients : call[d].version \in Nat
    BY CallTypes
  <2>8. \A d \in Clients : At(d, "put", "createVersion")' => call'[d].version <= current' + 1
    BY <1>1, <2>1, <2>4, <2>6, <2>7 DEF PutsOK
  <2>9. \A w \in Existing' : w <= current' + 1
    BY <1>1, <2>1, <2>4 DEF PutsOK
  <2> QED
    BY <1>1, <2>1, <2>4, <2>5, <2>8, <2>9 DEF PutsOK
<1> QED
  BY <1>1, <1>2, <1>3, <1>4, <1>5 DEF PutCreateSecret, PutCreateVersion, tables

(* No statement moves current_version back while no rollback has been.     *)
LEMMA MonotoneStep ==
    ASSUME SecretInv, NoRollbackInv, [Next]_vars
    PROVE  NoRollbackInv' /\ (~ rolledBack' => current' >= current)
<1>1. current \in Nat
  BY DEF SecretInv, TypeOK
<1>2. ASSUME NEW c \in Clients, Step(c) \/ Abort(c) \/ PutGetSecretFails(c)
      PROVE  NoRollbackInv' /\ (~ rolledBack' => current' >= current)
  <2>1. CASE RollbackSetCurrent(c)
    BY <2>1 DEF RollbackSetCurrent, NoRollbackInv
  <2>2. CASE PutCreateSecret(c) \/ PutCreateVersion(c) \/ PutSetCurrent(c)
    BY <2>2, PutsWrite
  <2>3. CASE \/ Start(c) \/ CheckNamespaceFree(c) \/ InsertNamespace(c)
             \/ PutGetNamespace(c) \/ PutFound(c) \/ PutNotFound(c) \/ PutGetSecretFails(c)
             \/ ResolveCurrent(c) \/ ResolveVersion(c) \/ SoftDelete(c) \/ Restore(c)
             \/ Destroy(c) \/ RollbackGetSecret(c) \/ RollbackGetVersion(c) \/ Abort(c)
    BY <1>1, <2>3, PutsQuiet
  <2> QED
    BY <1>2, <2>1, <2>2, <2>3 DEF Step
<1>3. CASE UNCHANGED vars
  BY <1>1, <1>3 DEF vars, NoRollbackInv, PutsOK, At, Existing
<1> QED
  BY <1>2, <1>3 DEF Next

(* Until somebody rolls back, the current version never goes backwards,    *)
(* for any number of concurrent Puts and wherever they stop.               *)
THEOREM MonotoneUntilRollback == Spec => MonotoneWithoutRollback
<1>1. Init => NoRollbackInv
  BY DEF Init, NoRollbackInv, PutsOK, At, Idle, Existing
<1>2. SecretInv /\ NoRollbackInv /\ [Next]_vars => NoRollbackInv'
  BY MonotoneStep
<1>3. SecretInv /\ NoRollbackInv /\ [Next]_vars => [~ rolledBack' => current' >= current]_vars
  BY MonotoneStep
<1> QED
  BY <1>1, <1>2, <1>3, SecretCorrect, PTL DEF Spec, MonotoneWithoutRollback
-----------------------------------------------------------------------------
(* What VersionedSecret sees of the rows.                                  *)
Stored == [v \in Existing |-> versions[v].value]

(* The rows of one step and of the next, seen that way.                    *)
LEMMA StoredIs ==
    /\ DOMAIN Stored = Existing /\ \A v \in Existing : Stored[v] = versions[v].value
    /\ DOMAIN Stored' = Existing' /\ \A v \in Existing' : Stored'[v] = versions'[v].value
BY DEF Stored, Existing

(* A secret that does not exist has no versions.                           *)
LEMMA NothingStored == Init => Abstract!Init
<1> SUFFICES ASSUME Init PROVE Abstract!Init
  OBVIOUS
<1>1. Existing = {}
  BY DEF Init, Existing
<1>2. [v \in Existing |-> versions[v].value] = << >>
  BY <1>1
<1> QED
  BY <1>2 DEF Init, Abstract!Init

(* Nothing that VersionedSecret sees changes.                              *)
LEMMA SameValues ==
    ASSUME UNCHANGED <<current, acks>>, Existing' = Existing,
           \A v \in Existing : versions'[v].value = versions[v].value
    PROVE  UNCHANGED Abstract!vars
<1>1. [v \in Existing' |-> versions'[v].value] = [v \in Existing |-> versions[v].value]
  OBVIOUS
<1> QED
  BY <1>1 DEF Abstract!vars, Existing

(* Every write of a Put that gets through stores the next version.         *)
LEMMA AddedIsStored ==
    ASSUME NEW n \in Nat, NEW x \in Values, AddVersion(n, x),
           n \notin Existing, n >= 1, n = 1 \/ n - 1 \in Existing,
           IF current = 0 THEN current' = n /\ (acks' = acks \/ acks' = acks \cup {<<n, x>>})
                          ELSE UNCHANGED <<current, acks>>
    PROVE  Abstract!Next
<1>1. /\ Existing' = Existing \cup {n}
      /\ versions'[n].value = x
      /\ \A w \in Existing : versions'[w] = versions[w]
  <2>1. /\ Existing' = Existing \cup {n} /\ versions'[n] = NewRow(x)
        /\ \A w \in Existing : w # n => versions'[w] = versions[w]
    BY Added
  <2>2. NewRow(x).value = x
    BY DEF NewRow
  <2> QED
    BY <2>1, <2>2
<1>2. n \in {m + 1 : m \in Existing \cup {0}} \ Existing
  <2>1. n = (n - 1) + 1 /\ n - 1 \in Existing \cup {0}
    OBVIOUS
  <2> QED
    BY <2>1
<1>3. Stored' = [v \in Existing \cup {n} |-> IF v = n THEN x ELSE Stored[v]]
  BY <1>1 DEF Stored, Existing
<1>4. Stored'[n] = x
  BY <1>3
<1>5. Abstract!Free = {m + 1 : m \in Existing \cup {0}} \ Existing
  BY DEF Abstract!Free
<1>6. Abstract!Store(n, x)
  BY <1>2, <1>3, <1>4, <1>5, StoredIs DEF Abstract!Store, Abstract!Acknowledge, Stored
<1> QED
  BY <1>2, <1>5, <1>6 DEF Abstract!Next

(* The UPDATE of current_version selects a version, and a Put is told so.  *)
LEMMA SetIsSelected ==
    ASSUME NEW n \in Existing, NEW x, current' = n, UNCHANGED versions,
           acks' = acks \/ (acks' = acks \cup {<<n, x>>} /\ versions[n].value = x)
    PROVE  Abstract!Next
<1>1. Stored' = Stored /\ DOMAIN Stored = Existing /\ Stored'[n] = versions[n].value
  BY DEF Stored, Existing
<1>2. Abstract!Select(n)
  BY <1>1 DEF Abstract!Select, Abstract!Acknowledge, Stored
<1> QED
  BY <1>1, <1>2 DEF Abstract!Next, Stored

(* Each statement of the service stores a version, selects one, or is not  *)
(* seen.                                                                   *)
LEMMA VersionsStep == SecretInv /\ [Next]_vars => [Abstract!Next]_(Abstract!vars)
<1> SUFFICES ASSUME SecretInv, [Next]_vars
             PROVE  Abstract!Next \/ UNCHANGED Abstract!vars
  OBVIOUS
<1>1. TypeOK /\ TablesOK /\ versions \in [Existing -> VersionRow]
  BY DEF SecretInv, TypeOK
<1>2. ASSUME UNCHANGED <<current, versions, acks>> PROVE UNCHANGED Abstract!vars
  BY <1>2, SameValues DEF Existing
<1>3. ASSUME NEW c \in Clients, PutCreateSecret(c)
      PROVE  Abstract!Next \/ UNCHANGED Abstract!vars
  <2>1. CASE SecretExists
    <3>1. UNCHANGED <<tables, history>>
      BY <1>3, <2>1 DEF PutCreateSecret
    <3> QED
      BY <1>2, <3>1 DEF tables, history
  <2>2. CASE ~ SecretExists
    <3>1. /\ At(c, "put", "createSecret") /\ current' = 1
          /\ AddVersion(1, call[c].value)
          /\ acks' = acks \/ acks' = acks \cup {<<1, call[c].value>>}
      BY <1>3, <2>2 DEF PutCreateSecret, AckOrLose
    <3>2. current = 0 /\ Existing = {}
      BY <1>1, <2>2 DEF TablesOK, SecretOK
    <3>3. call[c].value \in Values
      BY <3>1 DEF SecretInv, CallOK, At
    <3>4. PICK n \in Nat, x \in Values : n = 1 /\ x = call[c].value
      BY <3>3
    <3>5. Abstract!Next
      BY <3>1, <3>2, <3>4, AddedIsStored
    <3> QED
      BY <3>5
  <2> QED
    BY <2>1, <2>2
<1>4. ASSUME NEW c \in Clients, PutCreateVersion(c)
      PROVE  Abstract!Next \/ UNCHANGED Abstract!vars
  <2>1. At(c, "put", "createVersion") /\ UNCHANGED <<current, acks>>
    BY <1>4 DEF PutCreateVersion, history
  <2>2. CASE UNCHANGED versions
    BY <1>2, <2>1, <2>2
  <2>3. CASE call[c].version \notin Existing /\ AddVersion(call[c].version, call[c].value)
    <3>1. /\ call[c].value \in Values /\ call[c].version \in Nat
          /\ call[c].version >= 1 /\ call[c].version - 1 \in Existing
      BY <2>1, CallTypes DEF SecretInv, CallOK, At
    <3>2. current # 0
      <4>1. current \in Existing
        BY <1>1, <3>1 DEF TablesOK, SecretOK
      <4> QED
        BY <1>1, <4>1 DEF TablesOK, DownClosed
    <3>3. PICK n \in Nat, x \in Values : n = call[c].version /\ x = call[c].value
      BY <3>1
    <3>4. Abstract!Next
      BY <2>1, <2>3, <3>1, <3>2, <3>3, AddedIsStored
    <3> QED
      BY <3>4
  <2> QED
    BY <1>4, <2>2, <2>3 DEF PutCreateVersion
<1>5. ASSUME NEW c \in Clients, PutSetCurrent(c) \/ RollbackSetCurrent(c)
      PROVE  Abstract!Next
  <2>1. call[c].version \in Existing /\ current' = call[c].version /\ UNCHANGED versions
    BY <1>5 DEF PutSetCurrent, RollbackSetCurrent, SecretInv, CallOK
  <2>2. \/ acks' = acks
        \/ /\ acks' = acks \cup {<<call[c].version, call[c].value>>}
           /\ versions[call[c].version].value = call[c].value
    BY <1>5 DEF PutSetCurrent, RollbackSetCurrent, AckOrLose, SecretInv, CallOK
  <2> QED
    BY <2>1, <2>2, SetIsSelected
<1>6. ASSUME NEW c \in Clients, SoftDelete(c) \/ Restore(c) \/ Destroy(c)
      PROVE  UNCHANGED Abstract!vars
  <2>1. PICK state, deleteAfter :
           versions' = [versions EXCEPT ![call[c].version].state = state,
                                        ![call[c].version].deleteAfter = deleteAfter]
    BY <1>6 DEF SoftDelete, Restore, Destroy, SetVersionState
  <2>2. UNCHANGED <<current, acks>>
    BY <1>6 DEF SoftDelete, Restore, Destroy, SetVersionState, history
  <2>3. Existing' = Existing /\ \A v \in Existing : versions'[v].value = versions[v].value
    BY <1>1, <2>1 DEF Existing, VersionRow
  <2> QED
    BY <2>2, <2>3, SameValues
<1>7. ASSUME NEW c \in Clients,
             \/ Start(c) \/ CheckNamespaceFree(c) \/ InsertNamespace(c)
             \/ PutGetNamespace(c) \/ PutFound(c) \/ PutNotFound(c) \/ PutGetSecretFails(c)
             \/ ResolveCurrent(c) \/ ResolveVersion(c)
             \/ RollbackGetSecret(c) \/ RollbackGetVersion(c) \/ Abort(c)
      PROVE  UNCHANGED <<current, versions, acks>>
  BY <1>7 DEF Start, CheckNamespaceFree, InsertNamespace, PutGetNamespace, PutFound,
              PutNotFound, PutGetSecretFails, ResolveCurrent, ResolveVersion,
              RollbackGetSecret, RollbackGetVersion, Abort, tables, history
<1>8. CASE UNCHANGED vars
  BY <1>2, <1>8 DEF vars
<1>9. CASE Next
  BY <1>2, <1>3, <1>4, <1>5, <1>6, <1>7, <1>9 DEF Next, Step
<1> QED
  BY <1>8, <1>9

(* The service implements VersionedSecret, whoever writes at the same time *)
(* and wherever calls end: Store is the INSERT of a version, Select the    *)
(* UPDATE of current_version, by Put as by Rollback.                       *)
THEOREM ImplementsVersionedSecret == Spec => RefinesVersionedSecret
BY NothingStored, VersionsStep, SecretCorrect, PTL
   DEF Spec, RefinesVersionedSecret, Abstract!Spec
==============================================================================
