---------------------------- MODULE GatewayProofs -----------------------------
(***************************************************************************)
(* Proofs about Gateway, for any number of requests in flight, policies,   *)
(* names and paths.                                                        *)
(***************************************************************************)
EXTENDS Gateway, PathsProofs, TLAPS

Shapes == [target : {"object", "policy", "request", "server", "none"},
           path : {"own", "stored", "/", "/crypto"},
           capability : Capabilities \cup {"none"},
           op : {"read", "write", "shown", "createPolicy", "deletePolicy"},
           also : {"nothing", "parent", "certificate"}]

(* Every handler has one of the shapes, and the one that deletes a policy  *)
(* has read it before.                                                     *)
LEMMA HandlerShapes ==
  ASSUME NEW api \in Apis, NEW h \in Registered(api)
  PROVE  h \in Shapes /\ (h.op = "deletePolicy" => h.target = "policy")
<1>1. CASE api = "http"
  <2>1. h \in Http!Registered
    BY <1>1 DEF Registered
  <2> QED
    BY <2>1 DEF Shapes, Capabilities,
         Http!Handler, Http!Besides, Http!Named, Http!NamedSecret, Http!Whole, Http!OfLease,
         Http!OfPolicy, Http!OfCA, Http!OfCertificate, Http!Everywhere, Http!Crypto,
         Http!createNamespace, Http!listNamespaces, Http!createSecret,
         Http!listSecrets, Http!getSecret, Http!putSecret, Http!listVersions,
         Http!softDeleteVersion, Http!restoreVersion, Http!destroyVersion,
         Http!rollbackVersion, Http!createLease, Http!getLease, Http!renewLease,
         Http!revokeLease, Http!createPolicy, Http!listPolicies, Http!getPolicy,
         Http!deletePolicy, Http!listAudit, Http!verifyAudit, Http!createRootCA,
         Http!createIntermediateCA, Http!listCAs, Http!getCA, Http!getCRL,
         Http!getOCSP, Http!issueCertificate, Http!renewCertificate,
         Http!revokeCertificate, Http!listCertificates, Http!getCertificate,
         Http!cryptoEncrypt, Http!cryptoDecrypt, Http!cryptoSign, Http!cryptoVerify,
         Http!cryptoDerive, Http!cryptoRandom, Http!Registered
<1>2. CASE api = "grpc"
  <2>1. h \in Grpc!Registered
    BY <1>2 DEF Registered
  <2> QED
    BY <2>1 DEF Shapes, Capabilities,
         Grpc!Handler, Grpc!Besides, Grpc!Named, Grpc!NamedSecret, Grpc!Whole, Grpc!OfLease,
         Grpc!OfPolicy, Grpc!OfCA, Grpc!OfCertificate, Grpc!Everywhere, Grpc!Crypto,
         Grpc!Undecided, Grpc!createNamespace, Grpc!putSecret, Grpc!getSecret,
         Grpc!listSecrets, Grpc!listVersions, Grpc!softDeleteVersion,
         Grpc!restoreVersion, Grpc!destroyVersion, Grpc!rollbackVersion,
         Grpc!createLease, Grpc!renewLease, Grpc!revokeLease, Grpc!createPolicy,
         Grpc!listPolicies, Grpc!deletePolicy, Grpc!listAudit, Grpc!verifyAudit,
         Grpc!createRootCA, Grpc!createIntermediateCA, Grpc!issueCertificate,
         Grpc!renewCertificate, Grpc!revokeCertificate, Grpc!getCRL, Grpc!getOCSP,
         Grpc!encrypt, Grpc!decrypt, Grpc!sign, Grpc!verify, Grpc!deriveKey,
         Grpc!random, Grpc!Registered
<1> QED
  BY <1>1, <1>2 DEF Apis

-----------------------------------------------------------------------------
(* Ids are never used twice, so a deleted policy does not come back; and   *)
(* names are unique, as ids are.                                           *)
TableOK ==
    /\ policies \subseteq Policy
    /\ used \subseteq Ids
    /\ deleted \subseteq used
    /\ audited \subseteq deleted
    /\ \A p \in policies : p.id \in used \ deleted
    /\ \A p, q \in policies : (p.id = q.id \/ p.name = q.name) => p = q

(* The policy that a deletion has read still has the name and namespace it *)
(* was read with, if it is there; once Delete has found another one of     *)
(* that name, it is not there; and it is deleted by the time this is       *)
(* recorded.                                                               *)
TargetOK(k) ==
    /\ k.handler.op = "deletePolicy" => k.handler.target = "policy"
    /\ k.step \in {"find", "delete"} => k.handler.op = "deletePolicy"
    /\ k.step \in {"operate", "check", "insert"} => k.handler.op # "deletePolicy"
    /\ (k.step \in {"authorize", "find", "delete"} /\ k.handler.op = "deletePolicy") =>
          /\ k.read \in used
          /\ \A q \in policies : q.id = k.read =>
                /\ q.name = k.name
                /\ k.step # "delete" => q.namespace = k.namespace
    /\ k.step = "delete" =>
          /\ k.found \in used
          /\ k.read = k.found \/ \A q \in policies : q.id # k.read
    /\ (k.step = "record" /\ k.handler.op = "deletePolicy") => k.read \in deleted

(* The path lies below the prefix of the policy that was decided on; and   *)
(* the namespace decided on is the one that is acted in, but for a         *)
(* deletion of another policy.                                             *)
DecidedOn(k) ==
    /\ k.step \in {"get", "authorize"} => k.basis = {}
    /\ \A p \in k.basis :
          /\ IsUnder(k.path, p.prefix)
          /\ (k.step \in {"delete", "record"} => k.found = k.read) =>
                k.namespace = p.namespace

CallOK(k) ==
    /\ k.gone \subseteq deleted
    /\ \A p \in k.basis : p.id \notin k.gone
    /\ k.step # "record" => k.path \in KnownPaths
    /\ k.step = "insert" => k.name \in Names
    /\ k.handler.also = "nothing" => k.also = {}
    /\ TargetOK(k)
    /\ DecidedOn(k)

GatewayInv ==
    /\ TableOK
    /\ call \in [Clients -> Call]
    /\ \A c \in Clients : CallOK(call[c])

-----------------------------------------------------------------------------
(* What a request in flight knows stays true while others insert and       *)
(* delete policies.                                                        *)
LEMMA OthersKeepCallOK ==
  ASSUME NEW k \in Call, CallOK(k), TableOK,
         used \subseteq used', deleted \subseteq deleted',
         \A q \in policies' : q \in policies \/ q.id \notin used
  PROVE  CallOK(k)'
<1>1. TargetOK(k)'
  BY DEF CallOK, TargetOK
<1> QED
  BY <1>1 DEF CallOK, DecidedOn

(* One request moves to a state that is right, and the table stays right.  *)
LEMMA CallStep ==
  ASSUME GatewayInv, NEW c \in Clients, NEW k \in Call, CallOK(k)',
         call' = [call EXCEPT ![c] = k],
         TableOK', used \subseteq used', deleted \subseteq deleted',
         \A q \in policies' : q \in policies \/ q.id \notin used
  PROVE  GatewayInv'
<1>1. call \in [Clients -> Call] /\ TableOK
  BY DEF GatewayInv
<1>2. call' \in [Clients -> Call]
  BY <1>1
<1>3. /\ call'[c] = k
      /\ \A d \in Clients \ {c} : call'[d] = call[d]
  BY <1>1
<1>4. ASSUME NEW d \in Clients PROVE CallOK(call[d])'
  <2>1. CASE d = c
    BY <1>3, <2>1 DEF CallOK, TargetOK, DecidedOn
  <2>2. CASE d # c
    <3>1. PICK l : l = call[d]
      OBVIOUS
    <3>2. l \in Call /\ CallOK(l)
      BY <1>1, <3>1 DEF GatewayInv
    <3>3. CallOK(l)'
      BY <1>1, <3>2, OthersKeepCallOK
    <3>4. call'[d] = l
      BY <1>3, <2>2, <3>1
    <3> QED
      BY <3>3, <3>4 DEF CallOK, TargetOK, DecidedOn
  <2> QED
    BY <2>1, <2>2
<1> QED
  BY <1>2, <1>4 DEF GatewayInv

(* The same for the many steps that leave the table as it is.              *)
LEMMA CallOnly ==
  ASSUME GatewayInv, NEW c \in Clients, NEW k \in Call, CallOK(k),
         call' = [call EXCEPT ![c] = k], UNCHANGED <<policies, history>>
  PROVE  GatewayInv'
<1>1. TableOK
  BY DEF GatewayInv
<1>2. UNCHANGED <<policies, used, deleted, audited>>
  BY DEF history
<1>3. TableOK'
  BY <1>1, <1>2 DEF TableOK
<1>4. CallOK(k)'
  BY <1>2 DEF CallOK, TargetOK, DecidedOn
<1> QED
  BY <1>2, <1>3, <1>4, CallStep
-----------------------------------------------------------------------------
LEMMA IdleOK ==
  /\ Idle \in Call
  /\ Idle.step = "idle" /\ Idle.handler.op # "deletePolicy"
  /\ CallOK(Idle)
<1>1. Http!listNamespaces \in Http!Registered /\ Http!listNamespaces.op # "deletePolicy"
  BY DEF Http!listNamespaces, Http!Everywhere, Http!Handler, Http!Registered
<1>2. Root \in KnownPaths
  BY DEF KnownPaths
<1>3. Idle \in Call /\ Idle.step = "idle" /\ Idle.basis = {} /\ Idle.gone = {}
         /\ Idle.also = {}
         /\ Idle.path = Root /\ Idle.handler = Http!listNamespaces
  BY <1>1, <1>2 DEF Idle, Call, Apis, TouchedPaths
<1> QED
  BY <1>1, <1>2, <1>3 DEF CallOK, TargetOK, DecidedOn

LEMMA CallTypes ==
  ASSUME GatewayInv, NEW c \in Clients
  PROVE  /\ call \in [Clients -> Call]
         /\ call[c] \in Call
         /\ CallOK(call[c])
         /\ TableOK
BY DEF GatewayInv

LEMMA InitCorrect == Init => GatewayInv
<1> SUFFICES ASSUME Init PROVE GatewayInv
  OBVIOUS
<1>1. TableOK
  BY DEF Init, TableOK
<1>2. call \in [Clients -> Call] /\ \A c \in Clients : call[c] = Idle
  BY IdleOK DEF Init
<1>3. \A c \in Clients : CallOK(call[c])
  BY <1>2, IdleOK
<1> QED
  BY <1>1, <1>2, <1>3 DEF GatewayInv

(* A call that ends without being recorded, or with its event lost.        *)
LEMMA ReturnStep ==
  ASSUME GatewayInv, NEW c \in Clients, Return(c), UNCHANGED <<policies, history>>
  PROVE  GatewayInv'
<1>1. PICK k : k = Idle
  OBVIOUS
<1>2. k \in Call /\ CallOK(k)
  BY <1>1, IdleOK
<1>3. call' = [call EXCEPT ![c] = k]
  BY <1>1 DEF Return
<1> QED
  BY <1>2, <1>3, CallOnly

LEMMA StartStep ==
  ASSUME GatewayInv, NEW c \in Clients, Start(c)
  PROVE  GatewayInv'
<1>0. PICK api \in Apis : \E h \in Registered(api) :
         call' = [call EXCEPT ![c] = [Idle EXCEPT !.step = FirstStep(h), !.api = api,
                                                  !.handler = h, !.gone = deleted]]
  BY DEF Start
<1>1. PICK h \in Registered(api) :
         call' = [call EXCEPT ![c] = [Idle EXCEPT !.step = FirstStep(h), !.api = api,
                                                  !.handler = h, !.gone = deleted]]
  BY <1>0
<1>2. PICK k : k = [Idle EXCEPT !.step = FirstStep(h), !.api = api, !.handler = h,
                                !.gone = deleted]
  OBVIOUS
<1>3. /\ h \in Shapes /\ (h.op = "deletePolicy" => h.target = "policy")
      /\ h \in Http!Registered \cup Grpc!Registered
  BY HandlerShapes DEF Registered
<1>4. /\ FirstStep(h) \in {"get", "authorize", "operate"}
      /\ h.op = "deletePolicy" => FirstStep(h) = "get"
  BY <1>3 DEF FirstStep, Shapes
<1>5. deleted \in SUBSET Ids
  BY CallTypes DEF TableOK
<1>6. Root \in KnownPaths
  BY DEF KnownPaths
<1>7. /\ k \in Call
      /\ k.step = FirstStep(h) /\ k.handler = h /\ k.gone = deleted
      /\ k.basis = {} /\ k.also = {} /\ k.path = Root
  BY <1>2, <1>3, <1>4, <1>5, <1>6, IdleOK DEF Call, Idle
<1>8. CallOK(k)
  BY <1>3, <1>4, <1>6, <1>7 DEF CallOK, TargetOK, DecidedOn
<1>9. call' = [call EXCEPT ![c] = k]
  BY <1>1, <1>2
<1>10. UNCHANGED <<policies, history>>
  BY DEF Start
<1> QED
  BY <1>7, <1>8, <1>9, <1>10, CallOnly

LEMMA ReadObjectStep ==
  ASSUME GatewayInv, NEW c \in Clients, ReadObject(c)
  PROVE  GatewayInv'
<1>1. PICK ns \in Namespaces, s \in RawPaths :
         call' = [call EXCEPT ![c].step = "authorize", ![c].namespace = ns,
                      ![c].path = IF call[c].handler.path = "own"
                                    THEN NormalizePath(s) ELSE Root]
  BY DEF ReadObject
<1>2. PICK path : path = IF call[c].handler.path = "own" THEN NormalizePath(s) ELSE Root
  OBVIOUS
<1>3. path \in KnownPaths
  BY <1>2 DEF KnownPaths
<1>4. PICK k : k = [call[c] EXCEPT !.step = "authorize", !.namespace = ns, !.path = path]
  OBVIOUS
<1>5. call[c] \in Call /\ CallOK(call[c]) /\ call \in [Clients -> Call]
  BY CallTypes
<1>6. call[c].step = "get" /\ call[c].handler.target = "object"
  BY DEF ReadObject, At
<1>7. /\ k \in Call
      /\ k.step = "authorize" /\ k.handler = call[c].handler /\ k.gone = call[c].gone
      /\ k.also = call[c].also
      /\ k.basis = call[c].basis /\ k.path = path
  BY <1>3, <1>4, <1>5 DEF Call, TouchedPaths
<1>8. CallOK(k)
  BY <1>3, <1>5, <1>6, <1>7 DEF CallOK, TargetOK, DecidedOn
<1>9. call' = [call EXCEPT ![c] = k]
  BY <1>1, <1>2, <1>4, <1>5
<1>10. UNCHANGED <<policies, history>>
  BY DEF ReadObject
<1> QED
  BY <1>7, <1>8, <1>9, <1>10, CallOnly

LEMMA ReadPolicyStep ==
  ASSUME GatewayInv, NEW c \in Clients, ReadPolicy(c)
  PROVE  GatewayInv'
<1>1. PICK p \in policies :
         call' = [call EXCEPT ![c].step = "authorize", ![c].namespace = p.namespace,
                              ![c].name = p.name, ![c].read = p.id]
  BY DEF ReadPolicy
<1>2. PICK k : k = [call[c] EXCEPT !.step = "authorize", !.namespace = p.namespace,
                                   !.name = p.name, !.read = p.id]
  OBVIOUS
<1>3. call[c] \in Call /\ CallOK(call[c]) /\ call \in [Clients -> Call] /\ TableOK
  BY CallTypes
<1>4. call[c].step = "get" /\ call[c].handler.target = "policy"
  BY DEF ReadPolicy, At
<1>5. p \in Policy /\ p.id \in used /\ \A q \in policies : q.id = p.id => q = p
  BY <1>3 DEF TableOK
<1>6. used \subseteq Ids
  BY <1>3 DEF TableOK
<1>7. /\ k \in Call
      /\ k.step = "authorize" /\ k.handler = call[c].handler /\ k.gone = call[c].gone
      /\ k.also = call[c].also
      /\ k.basis = call[c].basis /\ k.path = call[c].path
      /\ k.read = p.id /\ k.name = p.name /\ k.namespace = p.namespace
  BY <1>2, <1>3, <1>5, <1>6 DEF Call, Policy
<1>8. CallOK(k)
  BY <1>3, <1>4, <1>5, <1>7 DEF CallOK, TargetOK, DecidedOn
<1>9. call' = [call EXCEPT ![c] = k]
  BY <1>1, <1>2, <1>3
<1>10. UNCHANGED <<policies, history>>
  BY DEF ReadPolicy
<1> QED
  BY <1>7, <1>8, <1>9, <1>10, CallOnly

(* What a gateway makes of a path that a client wrote is known.            *)
LEMMA CleanIsWritten ==
  ASSUME NEW paths, NEW api \in Apis, NEW s \in paths
  PROVE  clean(api, s) \in Written(paths)
<1>1. clean(api, s) \in {clean(api, t) : t \in paths}
  OBVIOUS
<1>2. {clean(api, t) : t \in paths} \in {{clean(a, t) : t \in paths} : a \in Apis}
  OBVIOUS
<1> QED
  BY <1>1, <1>2 DEF Written

(* A path stays a string when a gateway writes it its way.                 *)
LEMMA WrittenAreStrings ==
  ASSUME NEW paths, paths \subseteq Strings
  PROVE  Written(paths) \subseteq Strings
<1>1. ASSUME NEW api \in Apis, NEW s \in paths PROVE clean(api, s) \in Strings
  BY CleanKeepsNames DEF clean
<1> QED
  BY <1>1 DEF Written

(* Prefixes and the paths of calls are strings, of whatever characters.    *)
LEMMA PathsAreStrings ==
  /\ Prefixed \subseteq Strings
  /\ KnownPaths \subseteq Strings
<1>1. /\ RawPaths \subseteq Strings /\ {i.prefix : i \in Inputs} \subseteq Strings
      /\ "crypto" \in Characters
  BY ConstantsAssumption DEF ConstantsAssumption, Strings
<1>2. CryptoPath \in Strings
  BY <1>1, SlashAssumption DEF CryptoPath, Strings
<1>3. Prefixed \subseteq Strings /\ Written(RawPaths) \subseteq Strings
  BY <1>1, WrittenAreStrings DEF Prefixed
<1>4. \A s \in RawPaths : NormalizePath(s) \in Strings
  BY <1>1, CleanKeepsNames
<1> QED
  BY <1>2, <1>3, <1>4, RootIs DEF KnownPaths

LEMMA SubjectsKnown ==
  ASSUME GatewayInv, NEW c \in Clients, call[c].step # "record", NEW s \in Subjects(c)
  PROVE  s.namespace \in Namespaces \cup {Star} /\ s.path \in KnownPaths
<1>1. call[c] \in Call /\ call[c].path \in KnownPaths
  BY CallTypes DEF CallOK
<1>2. call[c].api \in Apis /\ call[c].namespace \in Namespaces \cup {Star}
  BY <1>1 DEF Call
<1>3. Root \in KnownPaths /\ CryptoPath \in KnownPaths
  BY DEF KnownPaths
<1>4. CASE call[c].handler.target = "request"
  <2>1. PICK api : api = call[c].api
    OBVIOUS
  <2>2. \A t \in RawPaths : clean(api, t) \in KnownPaths
    BY <1>2, <2>1, CleanIsWritten DEF KnownPaths
  <2>3. s \in [namespace : Namespaces \cup {Star},
               path : IF call[c].handler.path = "/" THEN {Root}
                      ELSE {clean(call[c].api, t) : t \in RawPaths}]
    BY <1>4 DEF Subjects
  <2>4. s.namespace \in Namespaces \cup {Star}
    BY <2>3
  <2>5. s.path = Root \/ s.path \in {clean(api, t) : t \in RawPaths}
    BY <2>1, <2>3
  <2> QED
    BY <1>3, <2>2, <2>4, <2>5
<1>5. CASE call[c].handler.target = "server"
  <2>1. s = [namespace |-> Star, path |-> IF call[c].handler.path = "/"
                                            THEN Root ELSE CryptoPath]
    BY <1>5 DEF Subjects
  <2> QED
    BY <1>3, <2>1
<1>6. CASE call[c].handler.target \notin {"request", "server"}
  <2>1. s = [namespace |-> call[c].namespace, path |-> call[c].path]
    BY <1>6 DEF Subjects
  <2> QED
    BY <1>1, <1>2, <2>1
<1> QED
  BY <1>4, <1>5, <1>6

LEMMA AllowStep ==
  ASSUME GatewayInv, NEW c \in Clients, Allow(c)
  PROVE  GatewayInv'
<1>1. PICK i \in Identities \cup {Admin}, s \in Subjects(c), x \in Contexts(call[c].api) :
       \E b \in IF i = Admin THEN {{}}
                ELSE {{p} : p \in Granting(policies, Request(c, i, s, x))} :
          call' = [call EXCEPT ![c].step = AfterGrant(call[c].handler.op),
                               ![c].namespace = s.namespace, ![c].path = s.path,
                               ![c].basis = b]
  BY DEF Allow
<1>2. PICK b : 
         /\ b \in IF i = Admin THEN {{}}
                  ELSE {{p} : p \in Granting(policies, Request(c, i, s, x))}
         /\ call' = [call EXCEPT ![c].step = AfterGrant(call[c].handler.op),
                                 ![c].namespace = s.namespace, ![c].path = s.path,
                                 ![c].basis = b]
  BY <1>1
<1>3. call[c] \in Call /\ CallOK(call[c]) /\ call \in [Clients -> Call] /\ TableOK
  BY CallTypes
<1>4. b \subseteq policies /\ \A p \in b : p.namespace = s.namespace
  <2>1. \A p \in Granting(policies, Request(c, i, s, x)) :
           p \in policies /\ p.namespace = s.namespace
    BY DEF Granting, List, Request
  <2> QED
    BY <1>2, <2>1
<1>5. b \in SUBSET Policy /\ \A p \in b : p.id \notin call[c].gone
  BY <1>3, <1>4 DEF TableOK, CallOK
<1>6. call[c].step = "authorize"
  BY DEF Allow, At
<1>7. s.namespace \in Namespaces \cup {Star} /\ s.path \in KnownPaths
  BY <1>6, SubjectsKnown
<1>8. PICK step : step = AfterGrant(call[c].handler.op)
  OBVIOUS
<1>9. /\ step \in {"operate", "check", "find"}
      /\ step = "find" <=> call[c].handler.op = "deletePolicy"
  <2>1. PICK h : h = call[c].handler
    OBVIOUS
  <2>2. h \in Registered("http") \/ h \in Registered("grpc")
    BY <1>3, <2>1 DEF Call, Registered
  <2>3. h \in Shapes
    BY <2>2, HandlerShapes DEF Apis
  <2> QED
    BY <1>8, <2>1, <2>3 DEF AfterGrant, Shapes
<1>10. PICK k : k = [call[c] EXCEPT !.step = step, !.namespace = s.namespace,
                                    !.path = s.path, !.basis = b]
  OBVIOUS
<1>11. /\ k \in Call
       /\ k.step = step /\ k.handler = call[c].handler /\ k.gone = call[c].gone
       /\ k.also = call[c].also
       /\ k.basis = b /\ k.namespace = s.namespace /\ k.path = s.path
       /\ k.read = call[c].read /\ k.name = call[c].name
  BY <1>3, <1>5, <1>7, <1>9, <1>10 DEF Call, TouchedPaths
<1>12. CallOK(k)
  <2>1. call[c].handler.target = "policy" => s.namespace = call[c].namespace
    BY DEF Subjects
  <2>2. TargetOK(k)
    BY <1>3, <1>6, <1>9, <1>11, <2>1 DEF CallOK, TargetOK
  <2>3. ASSUME NEW p \in b PROVE IsUnder(s.path, p.prefix)
    <3>1. i # Admin /\ p \in Granting(policies, Request(c, i, s, x))
      BY <1>2
    <3>2. pathInherits(s.path, p.prefix)
      BY <3>1 DEF Granting, Request
    <3>3. s.path \in Strings /\ p.prefix \in Strings
      BY <1>5, <1>7, PathsAreStrings DEF Policy
    <3> QED
      BY <3>2, <3>3, InheritingIsBelow
  <2>4. DecidedOn(k)
    BY <1>4, <1>9, <1>11, <2>3 DEF DecidedOn
  <2> QED
    BY <1>3, <1>5, <1>7, <1>9, <1>11, <2>2, <2>4 DEF CallOK
<1>13. call' = [call EXCEPT ![c] = k]
  BY <1>2, <1>3, <1>8, <1>10
<1>14. UNCHANGED <<policies, history>>
  BY DEF Allow
<1> QED
  BY <1>11, <1>12, <1>13, <1>14, CallOnly

LEMMA DenyStep ==
  ASSUME GatewayInv, NEW c \in Clients, Deny(c)
  PROVE  GatewayInv'
<1>1. UNCHANGED <<policies, history>>
  BY DEF Deny
<1>2. CASE call[c].api = "http"
  <2>1. PICK k : k = [Idle EXCEPT !.step = "record"]
    OBVIOUS
  <2>2. call' = [call EXCEPT ![c] = k]
    BY <1>2, <2>1 DEF Deny
  <2>3. /\ k \in Call
        /\ k.step = "record" /\ k.handler = Idle.handler /\ k.gone = {} /\ k.basis = {}
        /\ k.also = {}
    BY <2>1, IdleOK DEF Call, Idle
  <2>4. CallOK(k)
    BY <2>3, IdleOK DEF CallOK, TargetOK, DecidedOn
  <2> QED
    BY <1>1, <2>2, <2>3, <2>4, CallOnly
<1>3. CASE call[c].api # "http"
  <2>1. Return(c)
    BY <1>3 DEF Deny
  <2> QED
    BY <1>1, <2>1, ReturnStep
<1> QED
  BY <1>2, <1>3

LEMMA OperateStep ==
  ASSUME GatewayInv, NEW c \in Clients, Operate(c)
  PROVE  GatewayInv'
<1>1. call[c] \in Call /\ CallOK(call[c]) /\ call \in [Clients -> Call]
  BY CallTypes
<1>2. call[c].step = "operate"
  BY DEF Operate, At
<1>3. PICK path : path = IF call[c].handler.path = "own"
                           THEN NormalizePath(call[c].path) ELSE call[c].path
  OBVIOUS
<1>4. path \in TouchedPaths
  BY <1>1, <1>2, <1>3 DEF CallOK, TouchedPaths
<1>5. PICK also \in LookedUp(call[c].handler.also) :
         call' = [call EXCEPT ![c].step = "record", ![c].also = also, ![c].path = path]
  BY <1>1, <1>3 DEF Operate
<1>6. also \in SUBSET Namespaces /\ (call[c].handler.also = "nothing" => also = {})
  <2>1. call[c].handler.also \in {"nothing", "parent", "certificate"}
    <3>1. PICK h : h = call[c].handler
      OBVIOUS
    <3>2. h \in Registered("http") \/ h \in Registered("grpc")
      BY <1>1, <3>1 DEF Call, Registered
    <3>3. h \in Shapes
      BY <3>2, HandlerShapes DEF Apis
    <3> QED
      BY <3>1, <3>3 DEF Shapes
  <2> QED
    BY <1>5, <2>1 DEF LookedUp
<1>7. PICK k : k = [call[c] EXCEPT !.step = "record", !.also = also, !.path = path]
  OBVIOUS
<1>8. /\ k \in Call
      /\ k.step = "record" /\ k.handler = call[c].handler /\ k.gone = call[c].gone
      /\ k.basis = call[c].basis
      /\ k.namespace = call[c].namespace
      /\ k.read = call[c].read /\ k.found = call[c].found
      /\ k.path = path /\ k.also = also
  BY <1>1, <1>4, <1>6, <1>7 DEF Call
<1>9. CallOK(k)
  <2>1. ASSUME NEW p \in k.basis PROVE IsUnder(k.path, p.prefix)
    <3>1. IsUnder(call[c].path, p.prefix)
      BY <1>1, <1>8 DEF CallOK, DecidedOn
    <3>2. call[c].path \in Strings
      BY <1>1, <1>2, PathsAreStrings DEF CallOK
    <3>3. TrimSlashes(path) = TrimSlashes(call[c].path)
      BY <1>3, <3>2, CleanKeepsNames
    <3> QED
      BY <1>8, <3>1, <3>3 DEF IsUnder
  <2>2. DecidedOn(k)
    BY <1>1, <1>2, <1>8, <2>1 DEF CallOK, DecidedOn
  <2> QED
    BY <1>1, <1>2, <1>6, <1>8, <2>2 DEF CallOK, TargetOK
<1>10. call' = [call EXCEPT ![c] = k]
  BY <1>1, <1>5, <1>7
<1>11. UNCHANGED <<policies, history>>
  BY DEF Operate
<1> QED
  BY <1>8, <1>9, <1>10, <1>11, CallOnly

LEMMA CheckNameStep ==
  ASSUME GatewayInv, NEW c \in Clients, CheckName(c)
  PROVE  GatewayInv'
<1>1. PICK name \in Names :
         call' = [call EXCEPT ![c].step = "insert", ![c].name = name]
  BY DEF CheckName
<1>2. PICK k : k = [call[c] EXCEPT !.step = "insert", !.name = name]
  OBVIOUS
<1>3. call[c] \in Call /\ CallOK(call[c]) /\ call \in [Clients -> Call]
  BY CallTypes
<1>4. call[c].step = "check"
  BY DEF CheckName, At
<1>5. /\ k \in Call
      /\ k.step = "insert" /\ k.handler = call[c].handler /\ k.gone = call[c].gone
      /\ k.also = call[c].also
      /\ k.basis = call[c].basis /\ k.path = call[c].path /\ k.name = name
      /\ k.namespace = call[c].namespace
  BY <1>2, <1>3 DEF Call
<1>6. CallOK(k)
  BY <1>3, <1>4, <1>5 DEF CallOK, TargetOK, DecidedOn
<1>7. call' = [call EXCEPT ![c] = k]
  BY <1>1, <1>2, <1>3
<1>8. UNCHANGED <<policies, history>>
  BY DEF CheckName
<1> QED
  BY <1>5, <1>6, <1>7, <1>8, CallOnly

LEMMA FindPolicyStep ==
  ASSUME GatewayInv, NEW c \in Clients, FindPolicy(c)
  PROVE  GatewayInv'
<1>1. PICK p \in policies :
         /\ p.name = call[c].name
         /\ call' = [call EXCEPT ![c].step = "delete", ![c].found = p.id,
                                 ![c].namespace = p.namespace]
  BY DEF FindPolicy
<1>2. PICK k : k = [call[c] EXCEPT !.step = "delete", !.found = p.id,
                                   !.namespace = p.namespace]
  OBVIOUS
<1>3. call[c] \in Call /\ CallOK(call[c]) /\ call \in [Clients -> Call] /\ TableOK
  BY CallTypes
<1>4. call[c].step = "find"
  BY DEF FindPolicy, At
<1>5. p \in Policy /\ p.id \in used /\ \A q \in policies : q.name = p.name => q = p
  BY <1>3 DEF TableOK
<1>6. /\ k \in Call
      /\ k.step = "delete" /\ k.handler = call[c].handler /\ k.gone = call[c].gone
      /\ k.also = call[c].also
      /\ k.basis = call[c].basis /\ k.path = call[c].path /\ k.name = call[c].name
      /\ k.namespace = p.namespace
      /\ k.read = call[c].read /\ k.found = p.id
  BY <1>2, <1>3, <1>5 DEF Call, Policy
<1>7. k.read = k.found \/ \A q \in policies : q.id # k.read
  BY <1>1, <1>3, <1>4, <1>5, <1>6 DEF CallOK, TargetOK, DecidedOn
<1>8. CallOK(k)
  BY <1>3, <1>4, <1>5, <1>6, <1>7 DEF CallOK, TargetOK, DecidedOn
<1>9. call' = [call EXCEPT ![c] = k]
  BY <1>1, <1>2, <1>3
<1>10. UNCHANGED <<policies, history>>
  BY DEF FindPolicy
<1> QED
  BY <1>6, <1>8, <1>9, <1>10, CallOnly

(* The id of the new row is new and so is its name.                        *)
LEMMA InsertAddsOne ==
  ASSUME GatewayInv, NEW c \in Clients, At(c, "insert"), Insert(c),
         UNCHANGED <<deleted, audited>>
  PROVE  /\ TableOK'
         /\ used \subseteq used'
         /\ \A q \in policies' : q \in policies \/ q.id \notin used
<1>1. call[c] \in Call /\ CallOK(call[c]) /\ TableOK
  BY CallTypes
<1>2. call[c].step = "insert" /\ ~ Taken(call[c].name)
  BY DEF Insert, At
<1>3. PICK id \in Ids \ used : \E input \in Inputs :
         /\ ValidInput(input)
         /\ policies' = policies \cup
              {[id |-> id, name |-> call[c].name, namespace |-> call[c].namespace,
                prefix |-> clean(call[c].api, input.prefix), identity |-> input.identity,
                capabilities |-> input.capabilities, conditions |-> input.conditions]}
         /\ used' = used \cup {id}
  BY DEF Insert, AddRow
<1>4. PICK input \in Inputs :
         /\ ValidInput(input)
         /\ policies' = policies \cup
              {[id |-> id, name |-> call[c].name, namespace |-> call[c].namespace,
                prefix |-> clean(call[c].api, input.prefix), identity |-> input.identity,
                capabilities |-> input.capabilities, conditions |-> input.conditions]}
         /\ used' = used \cup {id}
  BY <1>3
<1>5. PICK p : p = [id |-> id, name |-> call[c].name, namespace |-> call[c].namespace,
                    prefix |-> clean(call[c].api, input.prefix),
                    identity |-> input.identity, capabilities |-> input.capabilities,
                    conditions |-> input.conditions]
  OBVIOUS
<1>6. policies' = policies \cup {p} /\ used' = used \cup {id}
  BY <1>4, <1>5
<1>7. p \in Policy
  <2>1. call[c].name \in Names /\ call[c].namespace \in Namespaces \cup {Star}
        /\ call[c].api \in Apis
    BY <1>1, <1>2 DEF CallOK, Call
  <2>2. clean(call[c].api, input.prefix) \in Prefixed
    <3>1. PICK api : api = call[c].api
      OBVIOUS
    <3>2. input.prefix \in {i.prefix : i \in Inputs}
      OBVIOUS
    <3>3. clean(api, input.prefix) \in Prefixed
      BY <2>1, <3>1, <3>2, CleanIsWritten DEF Prefixed
    <3> QED
      BY <3>1, <3>3
  <2>3. input.capabilities \in SUBSET Capabilities
    BY <1>4 DEF ValidInput
  <2> QED
    BY <1>5, <2>1, <2>2, <2>3 DEF Policy
<1>8. p.id = id /\ \A q \in policies : q.name # p.name
  BY <1>2, <1>5 DEF Taken
<1>9. TableOK'
  BY <1>1, <1>6, <1>7, <1>8 DEF TableOK
<1> QED
  BY <1>6, <1>8, <1>9

LEMMA InsertPolicyStep ==
  ASSUME GatewayInv, NEW c \in Clients, InsertPolicy(c)
  PROVE  GatewayInv'
<1>1. call[c] \in Call /\ CallOK(call[c]) /\ call \in [Clients -> Call]
  BY CallTypes
<1>2. call[c].step = "insert" /\ deleted' = deleted
  BY DEF InsertPolicy, At
<1>3. /\ TableOK'
      /\ used \subseteq used'
      /\ \A q \in policies' : q \in policies \/ q.id \notin used
  BY InsertAddsOne DEF InsertPolicy
<1>4. PICK k : k = [call[c] EXCEPT !.step = "record"]
  OBVIOUS
<1>5. /\ k \in Call
      /\ k.step = "record" /\ k.handler = call[c].handler /\ k.gone = call[c].gone
      /\ k.also = call[c].also
      /\ k.basis = call[c].basis
      /\ k.namespace = call[c].namespace
      /\ k.read = call[c].read /\ k.found = call[c].found /\ k.path = call[c].path
  BY <1>1, <1>4 DEF Call
<1>6. CallOK(k)'
  BY <1>1, <1>2, <1>5 DEF CallOK, TargetOK, DecidedOn
<1>7. call' = [call EXCEPT ![c] = k]
  BY <1>1, <1>4 DEF InsertPolicy
<1>8. deleted \subseteq deleted'
  BY <1>2
<1> QED
  BY <1>3, <1>5, <1>6, <1>7, <1>8, CallStep

LEMMA InsertUnacknowledgedStep ==
  ASSUME GatewayInv, NEW c \in Clients, InsertUnacknowledged(c)
  PROVE  GatewayInv'
<1>1. deleted' = deleted /\ deleted \subseteq deleted'
  BY DEF InsertUnacknowledged
<1>2. /\ TableOK'
      /\ used \subseteq used'
      /\ \A q \in policies' : q \in policies \/ q.id \notin used
  BY InsertAddsOne DEF InsertUnacknowledged
<1>3. PICK k : k = Idle
  OBVIOUS
<1>4. k \in Call /\ k.step = "idle" /\ CallOK(k) /\ k.handler = Idle.handler
  BY <1>3, IdleOK
<1>5. CallOK(k)'
  BY <1>1, <1>4 DEF CallOK, TargetOK, DecidedOn
<1>6. call' = [call EXCEPT ![c] = k]
  BY <1>3 DEF InsertUnacknowledged, Return
<1> QED
  BY <1>1, <1>2, <1>4, <1>5, <1>6, CallStep

(* Neither the policy that was read nor the one that was found is left.    *)
LEMMA DeletePolicyStep ==
  ASSUME GatewayInv, NEW c \in Clients, DeletePolicy(c)
  PROVE  GatewayInv'
<1>1. call[c] \in Call /\ CallOK(call[c]) /\ call \in [Clients -> Call] /\ TableOK
  BY CallTypes
<1>2. call[c].step = "delete"
  BY DEF DeletePolicy, At
<1>3. /\ policies' = {p \in policies : p.id # call[c].found}
      /\ deleted' = deleted \cup {call[c].read, call[c].found}
      /\ used' = used /\ audited' = audited
  BY DEF DeletePolicy, Without
<1>4. /\ call[c].read \in used /\ call[c].found \in used
      /\ call[c].read = call[c].found \/ \A q \in policies : q.id # call[c].read
  BY <1>1, <1>2 DEF CallOK, TargetOK, DecidedOn
<1>5. TableOK'
  BY <1>1, <1>3, <1>4 DEF TableOK
<1>6. PICK k : k = [call[c] EXCEPT !.step = "record"]
  OBVIOUS
<1>7. /\ k \in Call
      /\ k.step = "record" /\ k.handler = call[c].handler /\ k.gone = call[c].gone
      /\ k.also = call[c].also
      /\ k.basis = call[c].basis
      /\ k.namespace = call[c].namespace
      /\ k.read = call[c].read /\ k.found = call[c].found /\ k.path = call[c].path
  BY <1>1, <1>6 DEF Call
<1>8. CallOK(k)'
  BY <1>1, <1>3, <1>7 DEF CallOK, TargetOK, DecidedOn
<1>9. call' = [call EXCEPT ![c] = k]
  BY <1>1, <1>6 DEF DeletePolicy
<1>10. /\ used \subseteq used' /\ deleted \subseteq deleted'
       /\ \A q \in policies' : q \in policies \/ q.id \notin used
  BY <1>3
<1> QED
  BY <1>5, <1>7, <1>8, <1>9, <1>10, CallStep

LEMMA DeleteUnacknowledgedStep ==
  ASSUME GatewayInv, NEW c \in Clients, DeleteUnacknowledged(c)
  PROVE  GatewayInv'
<1>1. TableOK
  BY CallTypes
<1>2. /\ policies' = {p \in policies : p.id # call[c].found}
      /\ UNCHANGED <<used, deleted, audited>>
  BY DEF DeleteUnacknowledged, Without, history
<1>3. TableOK'
  BY <1>1, <1>2 DEF TableOK
<1>4. PICK k : k = Idle
  OBVIOUS
<1>5. k \in Call /\ k.step = "idle" /\ CallOK(k)
  BY <1>4, IdleOK
<1>6. CallOK(k)'
  BY <1>2, <1>5 DEF CallOK, TargetOK, DecidedOn
<1>7. call' = [call EXCEPT ![c] = k]
  BY <1>4 DEF DeleteUnacknowledged, Return
<1>8. /\ used \subseteq used' /\ deleted \subseteq deleted'
      /\ \A q \in policies' : q \in policies \/ q.id \notin used
  BY <1>2
<1> QED
  BY <1>3, <1>5, <1>6, <1>7, <1>8, CallStep

(* A deletion that comes to be recorded has happened.                      *)
LEMMA RecordStep ==
  ASSUME GatewayInv, NEW c \in Clients, Record(c)
  PROVE  GatewayInv'
<1>1. CallOK(call[c]) /\ TableOK
  BY CallTypes
<1>2. /\ audited' = audited \cup
            (IF call[c].handler.op = "deletePolicy" THEN {call[c].read} ELSE {})
      /\ UNCHANGED <<policies, used, deleted>>
  BY DEF Record
<1>3. call[c].handler.op = "deletePolicy" => call[c].read \in deleted
  BY <1>1 DEF Record, At, CallOK, TargetOK
<1>4. TableOK'
  BY <1>1, <1>2, <1>3 DEF TableOK
<1>5. PICK k : k = Idle
  OBVIOUS
<1>6. k \in Call /\ k.step = "idle" /\ CallOK(k)
  BY <1>5, IdleOK
<1>7. CallOK(k)'
  BY <1>2, <1>6 DEF CallOK, TargetOK, DecidedOn
<1>8. call' = [call EXCEPT ![c] = k]
  BY <1>5 DEF Record, Return
<1>9. /\ used \subseteq used' /\ deleted \subseteq deleted'
      /\ \A q \in policies' : q \in policies \/ q.id \notin used
  BY <1>2
<1> QED
  BY <1>4, <1>6, <1>7, <1>8, <1>9, CallStep

-----------------------------------------------------------------------------
LEMMA NextCorrect == GatewayInv /\ [Next]_vars => GatewayInv'
<1> SUFFICES ASSUME GatewayInv, [Next]_vars PROVE GatewayInv'
  OBVIOUS
<1>1. ASSUME NEW c \in Clients, NameTaken(c) PROVE GatewayInv'
  BY <1>1, ReturnStep DEF NameTaken
<1>2. ASSUME NEW c \in Clients, Abort(c) PROVE GatewayInv'
  BY <1>2, ReturnStep DEF Abort
<1>3. ASSUME NEW c \in Clients, RecordFails(c) PROVE GatewayInv'
  BY <1>3, ReturnStep DEF RecordFails
<1>4. CASE UNCHANGED vars
  BY <1>4 DEF vars, GatewayInv, TableOK, CallOK, TargetOK, DecidedOn
<1>5. CASE Next
  BY <1>1, <1>2, <1>3, <1>5, StartStep, ReadObjectStep, ReadPolicyStep, AllowStep,
     DenyStep, OperateStep, CheckNameStep, InsertPolicyStep, InsertUnacknowledgedStep,
     FindPolicyStep, DeletePolicyStep, DeleteUnacknowledgedStep, RecordStep DEF Next
<1> QED
  BY <1>4, <1>5

(* However many requests, over both gateways and from whomever, are in     *)
(* flight: names and ids of the stored policies are unique, no policy has  *)
(* an id that a client was told is deleted, and what a call has read       *)
(* before it decides, finds and deletes stays as it needs it.              *)
THEOREM GatewayCorrect == Spec => []GatewayInv
BY InitCorrect, NextCorrect, PTL DEF Spec

(* Only capabilities that exist are stored, only known handlers run, and   *)
(* every other variable keeps its type.                                    *)
THEOREM GatewayTypeCorrect == Spec => []TypeOK
<1>1. GatewayInv => TypeOK
  BY DEF GatewayInv, TableOK, TypeOK
<1> QED
  BY <1>1, GatewayCorrect, PTL

(* A policy whose deletion was acknowledged grants nothing to requests     *)
(* that start afterwards, even if Delete has removed another policy of the *)
(* same name than the one the handler read and decided on.                 *)
THEOREM DeletedNeverGrants == Spec => []DeletedGrantsNothing
<1>1. GatewayInv => DeletedGrantsNothing
  BY DEF GatewayInv, CallOK, DeletedGrantsNothing
<1> QED
  BY <1>1, GatewayCorrect, PTL

(* However creations and deletions of a name race, Delete only takes       *)
(* another policy than the one that was read and decided on when that one  *)
(* is not there any more.                                                  *)
THEOREM NeverDeletesAnother == Spec => []DeletesAnotherOnlyIfGone
<1>1. GatewayInv => DeletesAnotherOnlyIfGone
  BY DEF GatewayInv, CallOK, TargetOK, At, DeletesAnotherOnlyIfGone
<1> QED
  BY <1>1, GatewayCorrect, PTL

(* A policy whose deletion the audit log tells of is gone, although the    *)
(* event names the policy that was read and Delete may have removed        *)
(* another, and whatever fails on the way.                                 *)
THEOREM AuditTellsNoLie == Spec => []AuditedAreGone
<1>1. GatewayInv => AuditedAreGone
  BY DEF GatewayInv, TableOK, AuditedAreGone
<1> QED
  BY <1>1, GatewayCorrect, PTL

(* As strings, the prefix of a stored policy covers nothing that lies      *)
(* elsewhere in the tree of names, whichever gateway wrote it and          *)
(* whichever asks; where the HTTP gateway wrote both, the policy covers    *)
(* everything below the prefix that its author gave.                       *)
THEOREM InheritsAlwaysBySegments == Spec => []InheritsBySegments
<1>1. ASSUME NEW prefix \in Prefixed PROVE prefix \in FollowingTree
  <2>1. RawPaths \subseteq Strings /\ \A i \in Inputs : i.prefix \in Strings
    BY ConstantsAssumption DEF ConstantsAssumption, Strings
  <2>2. prefix \in Strings
    BY PathsAreStrings
  <2>3. ASSUME NEW s \in RawPaths, NEW api \in Apis, pathInherits(clean(api, s), prefix)
        PROVE  <<clean(api, s), prefix>> \in Below
    <3>1. PICK path : path = clean(api, s)
      OBVIOUS
    <3>2. path \in KnownPaths
      BY <3>1, CleanIsWritten DEF KnownPaths
    <3>3. path \in Strings /\ path \in TouchedPaths
      BY <3>2, PathsAreStrings DEF TouchedPaths
    <3>4. IsUnder(path, prefix)
      BY <2>2, <2>3, <3>1, <3>3, InheritingIsBelow
    <3> QED
      BY <3>1, <3>3, <3>4 DEF Below
  <2>4. ASSUME NEW s \in RawPaths, NEW i \in Inputs,
               prefix = cleanWildcardPath(i.prefix), IsUnder(s, i.prefix)
        PROVE  pathInherits(cleanWildcardPath(s), prefix)
    BY <2>1, <2>4, BelowInherits
  <2> QED
    BY <2>3, <2>4 DEF FollowingTree
<1>2. GatewayInv => InheritsBySegments
  BY <1>1 DEF GatewayInv, TableOK, Policy, InheritsBySegments
<1> QED
  BY <1>2, GatewayCorrect, PTL

(* Of what a request touches, all lies, name by name, below the prefix of  *)
(* the policy it was let through by, in that policy's namespace: also      *)
(* where the secret service has written the path anew, and where a policy  *)
(* was looked up twice.  The parent CA of a new CA, the certificate of an  *)
(* OCSP response and a policy deleted in the place of the one read are the *)
(* exceptions, and the only ones.                                          *)
THEOREM AlwaysActedWithinGrant == Spec => []ActedWithinGrant
<1>1. ASSUME GatewayInv PROVE ActedWithinGrant
  <2> SUFFICES ASSUME NEW c \in Clients, NEW p \in call[c].basis,
                      NEW t \in Touched(call[c]),
                      call[c].step = "record", t.by \notin {"parent", "certificate"},
                      call[c].found = call[c].read
               PROVE  t.namespace = p.namespace /\ <<t.path, p.prefix>> \in Below
    BY DEF ActedWithinGrant, At
  <2>1. call[c] \in Call /\ CallOK(call[c]) /\ DecidedOn(call[c])
    BY <1>1, CallTypes DEF CallOK
  <2>2. call[c].path \in TouchedPaths /\ p \in Policy
    BY <2>1 DEF Call
  <2>3. p.prefix \in Prefixed
    BY <2>2 DEF Policy
  <2>4. t = [by |-> "decision", namespace |-> call[c].namespace, path |-> call[c].path]
    <3>1. call[c].also # {} => call[c].handler.also \in {"parent", "certificate"}
      <4>1. PICK h : h = call[c].handler
        OBVIOUS
      <4>2. h \in Registered("http") \/ h \in Registered("grpc")
        BY <2>1, <4>1 DEF Call, Registered
      <4>3. h.also \in {"nothing", "parent", "certificate"}
        BY <4>2, HandlerShapes DEF Apis, Shapes
      <4> QED
        BY <2>1, <4>1, <4>3 DEF CallOK
    <3> QED
      BY <3>1 DEF Touched
  <2> QED
    BY <2>1, <2>2, <2>3, <2>4 DEF DecidedOn, Below
<1> QED
  BY <1>1, GatewayCorrect, PTL
==============================================================================
