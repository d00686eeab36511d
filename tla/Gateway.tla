------------------------------- MODULE Gateway --------------------------------
(***************************************************************************)
(* Requests through the REST and the gRPC gateway: read the target where   *)
(* the handler does, decide, operate, record.  The four are separate       *)
(* statements and no transaction joins them, so policies come and go       *)
(* between a decision and what is done on the strength of it, and a call   *)
(* can end between what it did and its audit event.                        *)
(*                                                                         *)
(* Policies are the one kind of object modelled in full here, since they   *)
(* are what decisions are made from.  Leases, CAs and certificates are     *)
(* never deleted and never change their namespace; the services that keep  *)
(* them have modules of their own and are one step here.                   *)
(*                                                                         *)
(* A client is a request slot, used again for its next request.  What a    *)
(* request says is chosen where it is first used.                          *)
(***************************************************************************)
EXTENDS Policies

CONSTANTS
    Clients,         \* concurrent request slots
    Namespaces,      \* namespaces of requests and objects, without "*"
    Identities,      \* identities of callers, without "admin"
    Ips,             \* addresses of HTTP callers
    RawPaths,        \* paths as clients write them
    Inputs,          \* the policies that clients ask for
    Names,           \* names of policies
    Ids,             \* bound: ids of policies, each created once
    NoName, NoId     \* a call that names no policy

ASSUME ConstantsAssumption ==
    /\ Star \notin Namespaces
    /\ Admin \notin Identities
    /\ NoName \notin Names
    /\ NoId \notin Ids
    /\ "crypto" \in Characters
    /\ RawPaths \subseteq Seq(Characters)
    /\ \A i \in Inputs : i.prefix \in Seq(Characters)

VARIABLES
    policies,        \* table policies: a set of rows
    call,            \* the request each client has in flight
    used,            \* history: the ids ever inserted
    deleted,         \* history: the policies a client was told are deleted
    audited          \* history: the policies whose deletion the audit log tells of

vars == <<policies, call, used, deleted, audited>>
history == <<used, deleted, audited>>

Http == INSTANCE HttpHandlers
Grpc == INSTANCE GrpcHandlers
Registered(api) == IF api = "http" THEN Http!Registered ELSE Grpc!Registered
Apis == {"http", "grpc"}

-----------------------------------------------------------------------------
clean(api, path) == IF api = "http" THEN cleanWildcardPath(path) ELSE normalizePath(path)

Written(paths) == UNION {{clean(api, s) : s \in paths} : api \in Apis}
Prefixed == Written({i.prefix : i \in Inputs})
Policy == [id : Ids, name : Names, namespace : Namespaces \cup {Star}, prefix : Prefixed,
           identity : {i.identity : i \in Inputs}, capabilities : SUBSET Capabilities,
           conditions : {i.conditions : i \in Inputs}]

CryptoPath == <<Slash, "crypto">>
KnownPaths ==
    Written(RawPaths) \cup {NormalizePath(s) : s \in RawPaths} \cup {Root, CryptoPath}
TouchedPaths == KnownPaths \cup {NormalizePath(p) : p \in KnownPaths}

(* The path, which the secret service may have rewritten by the time a     *)
(* call is recorded; the policy the call has read and the one it finds     *)
(* when it deletes; the row its decision rests on (none for the admin and  *)
(* for methods that ask for no decision); the namespace of the CA or the   *)
(* certificate that the service has looked up besides; and the policies    *)
(* that were gone when the call started.                                   *)
Call == [step : {"idle", "get", "authorize", "operate", "check", "insert", "find",
                 "delete", "record"},
         api : Apis, handler : Http!Registered \cup Grpc!Registered,
         namespace : Namespaces \cup {Star}, path : TouchedPaths,
         name : Names \cup {NoName}, read : Ids \cup {NoId}, found : Ids \cup {NoId},
         basis : SUBSET Policy, also : SUBSET Namespaces, gone : SUBSET Ids]
Idle == [step |-> "idle", api |-> "http", handler |-> Http!listNamespaces,
         namespace |-> Star, path |-> Root, name |-> NoName, read |-> NoId, found |-> NoId,
         basis |-> {}, also |-> {}, gone |-> {}]

Init ==
    /\ policies = {}
    /\ call = [c \in Clients |-> Idle]
    /\ used = {}
    /\ deleted = {}
    /\ audited = {}

At(c, step) == call[c].step = step
Return(c) == call' = [call EXCEPT ![c] = Idle]

FirstStep(handler) ==
    CASE handler.target \in {"object", "policy"} -> "get"
      [] handler.target \in {"request", "server"} -> "authorize"
      [] handler.target = "none" -> "operate"

(* An authenticated request that the rate limiter lets through.            *)
Start(c) ==
    /\ call[c] = Idle
    /\ \E api \in Apis : \E h \in Registered(api) :
          call' = [call EXCEPT ![c] = [Idle EXCEPT !.step = FirstStep(h), !.api = api,
                                                   !.handler = h, !.gone = deleted]]
    /\ UNCHANGED <<policies, history>>

-----------------------------------------------------------------------------
(* The lease, CA or certificate, or the policy, that the request names.    *)
ReadObject(c) ==
    /\ At(c, "get") /\ call[c].handler.target = "object"
    /\ \E ns \in Namespaces, s \in RawPaths :
          call' = [call EXCEPT ![c].step = "authorize", ![c].namespace = ns,
                      ![c].path = IF call[c].handler.path = "own"
                                    THEN NormalizePath(s) ELSE Root]
    /\ UNCHANGED <<policies, history>>

ReadPolicy(c) ==
    /\ At(c, "get") /\ call[c].handler.target = "policy"
    /\ \E p \in policies :
          call' = [call EXCEPT ![c].step = "authorize", ![c].namespace = p.namespace,
                               ![c].name = p.name, ![c].read = p.id]
    /\ UNCHANGED <<policies, history>>

(* The requests a call may put to Authorize: who asks, from where and, as  *)
(* far as that is not settled yet, for what.  The HTTP method is another   *)
(* key of the context and left out.                                        *)
Contexts(api) ==
    IF api = "http" THEN {[ip |-> a] : a \in Ips} ELSE {[grpc |-> "true"]}

Subjects(c) ==
    LET h == call[c].handler IN
    CASE h.target = "request" ->
           [namespace : Namespaces \cup {Star},
            path : IF h.path = "/" THEN {Root} ELSE {clean(call[c].api, s) : s \in RawPaths}]
      [] h.target = "server" ->
           {[namespace |-> Star, path |-> IF h.path = "/" THEN Root ELSE CryptoPath]}
      [] OTHER -> {[namespace |-> call[c].namespace, path |-> call[c].path]}

Request(c, identity, subject, context) ==
    [identity |-> identity, namespace |-> subject.namespace, path |-> subject.path,
     capability |-> call[c].handler.capability, context |-> context]

AfterGrant(op) ==
    CASE op \in {"read", "write", "shown"} -> "operate"
      [] op = "createPolicy" -> "check"
      [] op = "deletePolicy" -> "find"

(* The decision rests on one of the rows that let the request through.     *)
Allow(c) ==
    /\ At(c, "authorize")
    /\ \E i \in Identities \cup {Admin}, s \in Subjects(c), x \in Contexts(call[c].api) :
       \E basis \in IF i = Admin THEN {{}}
                   ELSE {{p} : p \in Granting(policies, Request(c, i, s, x))} :
          call' = [call EXCEPT ![c].step = AfterGrant(call[c].handler.op),
                               ![c].namespace = s.namespace, ![c].path = s.path,
                               ![c].basis = basis]
    /\ UNCHANGED <<policies, history>>

(* A denial over HTTP is recorded, one over gRPC is not.                   *)
Deny(c) ==
    /\ At(c, "authorize")
    /\ \E i \in Identities, s \in Subjects(c), x \in Contexts(call[c].api) :
          Granting(policies, Request(c, i, s, x)) = {}
    /\ IF call[c].api = "http"
         THEN call' = [call EXCEPT ![c] = [Idle EXCEPT !.step = "record"]]
         ELSE Return(c)
    /\ UNCHANGED <<policies, history>>

-----------------------------------------------------------------------------
(* What else the service looks up: the parent of a new CA, whose key signs *)
(* it, and the certificate of an OCSP response, if there is one.  Nothing  *)
(* is decided on their namespaces.                                         *)
LookedUp(also) ==
    CASE also = "nothing" -> {{}}
      [] also = "parent" -> {{n} : n \in Namespaces}
      [] also = "certificate" -> {{}} \cup {{n} : n \in Namespaces}

(* A service does what the request asks.  The secret service takes the     *)
(* path its own way; the lease service looks for a secret by the path as   *)
(* it is; nobody else changes the one that was decided on.                 *)
Operate(c) ==
    /\ At(c, "operate")
    /\ call[c].handler.path = "stored" => call[c].path = NormalizePath(call[c].path)
    /\ \E also \in LookedUp(call[c].handler.also) :
          call' = [call EXCEPT ![c].step = "record", ![c].also = also,
                      ![c].path = IF call[c].handler.path = "own"
                                    THEN NormalizePath(@) ELSE @]
    /\ UNCHANGED <<policies, history>>

Taken(name) == \E p \in policies : p.name = name

(* Service.Create: any error of Get is taken for a name that is free.      *)
CheckName(c) ==
    /\ At(c, "check")
    /\ \E name \in Names :
          call' = [call EXCEPT ![c].step = "insert", ![c].name = name]
    /\ UNCHANGED <<policies, history>>

NameTaken(c) ==
    /\ At(c, "check")
    /\ \E name \in Names : Taken(name)
    /\ Return(c)
    /\ UNCHANGED <<policies, history>>

(* INSERT INTO policies, whose name is UNIQUE.  (Mutant: it is not.)       *)
AddRow(c) ==
    \E id \in Ids \ used, input \in Inputs :
        /\ ValidInput(input)
        /\ policies' = policies \cup
              {[id |-> id, name |-> call[c].name, namespace |-> call[c].namespace,
                prefix |-> clean(call[c].api, input.prefix), identity |-> input.identity,
                capabilities |-> input.capabilities, conditions |-> input.conditions]}
        /\ used' = used \cup {id}

InsertAnyName(c) == AddRow(c)
Insert(c) == ~ Taken(call[c].name) /\ AddRow(c)

InsertPolicy(c) ==
    /\ At(c, "insert")
    /\ Insert(c)
    /\ call' = [call EXCEPT ![c].step = "record"]
    /\ UNCHANGED <<deleted, audited>>

(* The row is there and the server never learns of it.                     *)
InsertUnacknowledged(c) ==
    /\ At(c, "insert")
    /\ Insert(c)
    /\ Return(c)
    /\ UNCHANGED <<deleted, audited>>

(* Service.Delete finds the policy again, by the name the handler found    *)
(* it by, and deletes the one that has this name now.                      *)
FindPolicy(c) ==
    /\ At(c, "find")
    /\ \E p \in policies :
          /\ p.name = call[c].name
          /\ call' = [call EXCEPT ![c].step = "delete", ![c].found = p.id,
                                  ![c].namespace = p.namespace]
    /\ UNCHANGED <<policies, history>>

(* DELETE FROM policies WHERE id, which may find nothing any more.         *)
(* (Mutant: a WHERE that never matches.)                                   *)
WithoutNothing(id) == UNCHANGED policies
Without(id) == policies' = {p \in policies : p.id # id}

DeletePolicy(c) ==
    /\ At(c, "delete")
    /\ Without(call[c].found)
    /\ deleted' = deleted \cup {call[c].read, call[c].found}
    /\ call' = [call EXCEPT ![c].step = "record"]
    /\ UNCHANGED <<used, audited>>

(* It is done and the server never learns of it.                           *)
DeleteUnacknowledged(c) ==
    /\ At(c, "delete")
    /\ Without(call[c].found)
    /\ Return(c)
    /\ UNCHANGED history

-----------------------------------------------------------------------------
(* audit.Record stores the event of what has been done or denied, or it    *)
(* fails: its error is ignored, also when the client has gone meanwhile.   *)
(* Of the events, those of deletions are kept here: they are written from  *)
(* the policy that the handler read, not from the one that Delete found.   *)
Record(c) ==
    /\ At(c, "record")
    /\ audited' = audited \cup
          (IF call[c].handler.op = "deletePolicy" THEN {call[c].read} ELSE {})
    /\ Return(c)
    /\ UNCHANGED <<policies, used, deleted>>

RecordFails(c) ==
    /\ At(c, "record")
    /\ Return(c)
    /\ UNCHANGED <<policies, history>>

(* Anything else fails: the client gets an error, and nothing is recorded. *)
(* (Mutant: no return after the error.)                                    *)
AbortAndGoOn(c) ==
    /\ call[c] # Idle /\ ~ At(c, "record")
    /\ call' = [call EXCEPT ![c].step = "record"]
    /\ UNCHANGED <<policies, history>>

Abort(c) ==
    /\ call[c] # Idle /\ ~ At(c, "record")
    /\ Return(c)
    /\ UNCHANGED <<policies, history>>

Next ==
    \E c \in Clients :
        \/ Start(c) \/ ReadObject(c) \/ ReadPolicy(c)
        \/ Allow(c) \/ Deny(c) \/ Operate(c)
        \/ CheckName(c) \/ NameTaken(c)
        \/ InsertPolicy(c) \/ InsertUnacknowledged(c)
        \/ FindPolicy(c) \/ DeletePolicy(c) \/ DeleteUnacknowledged(c)
        \/ Record(c) \/ RecordFails(c) \/ Abort(c)

Spec == Init /\ [][Next]_vars

-----------------------------------------------------------------------------
(* Every variable keeps its type; only capabilities that exist are stored. *)
TypeOK ==
    /\ policies \subseteq Policy
    /\ call \in [Clients -> Call]
    /\ used \subseteq Ids
    /\ deleted \subseteq used
    /\ audited \subseteq used

(* The paths that lie at or below a prefix in the tree of names, and the   *)
(* prefixes whose test as strings follows the tree.                        *)
Below == {x \in TouchedPaths \X Prefixed : IsUnder(x[1], x[2])}

FollowingTree ==
    {prefix \in Prefixed : \A s \in RawPaths :
        /\ \A api \in Apis :
              pathInherits(clean(api, s), prefix) => <<clean(api, s), prefix>> \in Below
        /\ \A i \in Inputs :
              (prefix = cleanWildcardPath(i.prefix) /\ IsUnder(s, i.prefix))
                  => pathInherits(cleanWildcardPath(s), prefix)}

(* What a finished call has touched, and how it came by it.                *)
Touched(k) ==
    {[by |-> "decision", namespace |-> k.namespace, path |-> k.path]} \cup
    {[by |-> k.handler.also, namespace |-> n, path |-> Root] : n \in k.also}

(* What a request touches lies where the policy it was let through by      *)
(* grants something, name by name along the path: although the gateways    *)
(* and the secret service write a path differently, and although Delete    *)
(* looks its policy up a second time.  There are three exceptions, all the *)
(* code's own: the parent CA that a new one is signed by and the           *)
(* certificate that OCSP tells of, which are looked up in any namespace    *)
(* and only read; and a policy created in the place of the one decided on, *)
(* which DeletesAnotherOnlyIfGone is about.                                *)
ActedWithinGrant ==
    \A c \in Clients : \A p \in call[c].basis : \A t \in Touched(call[c]) :
        (/\ At(c, "record")
         /\ t.by \notin {"parent", "certificate"}
         /\ call[c].found = call[c].read) =>
            t.namespace = p.namespace /\ <<t.path, p.prefix>> \in Below

(* Delete goes by a name, and the decision was on the policy that had it   *)
(* before.  It never takes another policy while the one decided on is      *)
(* there, however creations and deletions of the name race.                *)
DeletesAnotherOnlyIfGone ==
    \A c \in Clients :
        (At(c, "delete") /\ call[c].found # call[c].read) =>
            \A p \in policies : p.id # call[c].read

(* A policy whose deletion a client was told of grants nothing to requests *)
(* that start afterwards, however deletions and creations of its name race.*)
DeletedGrantsNothing ==
    \A c \in Clients : \A p \in call[c].basis : p.id \notin call[c].gone

(* The audit log tells of no deletion that has not happened: a policy that *)
(* an event names is not there any more, although the event is written     *)
(* from what the handler read and Delete may have found another.           *)
AuditedAreGone == \A p \in policies : p.id \notin audited

(* As strings, the prefix of a stored policy covers nothing that lies      *)
(* elsewhere in the tree of names, whichever gateway wrote it and          *)
(* whichever asks; where the HTTP gateway wrote both, the policy covers    *)
(* everything below the prefix that its author gave.                       *)
InheritsBySegments == \A p \in policies : p.prefix \in FollowingTree
==============================================================================
