------------------------------ MODULE PkiProofs -------------------------------
(***************************************************************************)
(* Proofs about Pki, for any number of clients, CAs, certificates and      *)
(* reasons.                                                                *)
(***************************************************************************)
EXTENDS Pki, TLAPS

Listed == {r.serial : r \in revocations}
Revoked == {s \in Serials : IsRevoked(s)}

(* What a call in flight has found out and still holds: the parent of the  *)
(* CA it creates, the certificate it revokes, and what it is about to say  *)
(* of those that it was asked after.                                       *)
CallOK(k) ==
    /\ k.step = "getCA" => k.op \in DOMAIN AfterGetCA
    /\ k.step = "insertCA" => k.ca \in CAs /\ k.parent \in {NoCA} \cup Stored
    /\ k.op \in {"issue", "createIntermediate"} \/ k.step = "insertCertificate" => k.ca \in CAs
    /\ k.op = "revoke" => k.reason \in Reasons
    /\ k.step \in {"updateCertificate", "insertRevocation"} =>
          k.op = "revoke" /\ k.serial \in Issued
    /\ k.step = "insertRevocation" => IsRevoked(k.serial)
    /\ k.listed \subseteq revocations
    /\ k.op = "crl" =>
          /\ k.known \subseteq Listed
          /\ k.step = "reply" =>
                \A s \in k.known : certs[s].ca = k.ca => \E r \in k.listed : r.serial = s
    /\ k.op = "ocsp" =>
          /\ k.serial \in Serials
          /\ k.known \subseteq Revoked
          /\ k.step \in {"reply", "replyUnread"} /\ ~ k.good => IsRevoked(k.serial)
          /\ k.step = "reply" /\ k.good => k.serial \notin k.known

PkiInv ==
    /\ TypeOK /\ ChainsToRoot /\ ListedIsRevoked /\ ReasonRecorded
    /\ \A c \in Clients : CallOK(call[c])
    /\ recorded \subseteq Listed
    /\ told \subseteq Revoked

-----------------------------------------------------------------------------
(* A call at rest asks and knows nothing.                                  *)
LEMMA IdleOK == Idle \in Call /\ CallOK(Idle) /\ Idle.step = "idle"
  BY DEF Idle, Call, Ops, Steps, CallOK, AfterGetCA

(* At the start the tables are empty.                                      *)
LEMMA PkiInit == Init => PkiInv
<1> SUFFICES ASSUME Init PROVE PkiInv
  OBVIOUS
<1>1. TypeOK
  BY IdleOK DEF Init, TypeOK, Stored, Issued
<1>2. ChainsToRoot /\ ListedIsRevoked /\ ReasonRecorded
  BY DEF Init, ChainsToRoot, ListedIsRevoked, ReasonRecorded, Stored, Issued
<1>3. \A c \in Clients : CallOK(call[c])
  BY IdleOK DEF Init
<1> QED
  BY <1>1, <1>2, <1>3 DEF Init, PkiInv

(* What a call knows is not undone by what others write: rows are added,   *)
(* certificates keep their CA, and a revoked one stays revoked.            *)
LEMMA CallKeeps ==
  ASSUME PkiInv, NEW k \in Call, CallOK(k),
         Stored \subseteq Stored', Issued \subseteq Issued',
         revocations \subseteq revocations',
         \A s \in Issued : certs'[s].ca = certs[s].ca,
         \A s \in Issued : IsRevoked(s) => IsRevoked(s)'
  PROVE  CallOK(k)'
<1>1. Listed \subseteq Listed' /\ Listed \subseteq Issued
  BY DEF Listed, PkiInv, ListedIsRevoked, IsRevoked
<1>2. Revoked \subseteq Revoked' /\ Revoked \subseteq Issued
  BY DEF Revoked, IsRevoked
<1>3. \A s : IsRevoked(s) => IsRevoked(s)'
  BY DEF IsRevoked
<1>4. k.op = "crl" /\ k.step = "reply" =>
        \A s \in k.known : certs'[s].ca = k.ca => \E r \in k.listed : r.serial = s
  BY <1>1 DEF CallOK
<1> QED
  BY <1>1, <1>2, <1>3, <1>4 DEF CallOK

(* A step of one call that writes to no table.                             *)
LEMMA CallStep ==
  ASSUME PkiInv, NEW c \in Clients, NEW k \in Call, CallOK(k),
         call' = [call EXCEPT ![c] = k],
         UNCHANGED tables,
         torn \subseteq torn', torn' \subseteq Revocation,
         recorded' \subseteq Listed, told' \subseteq Revoked,
         call[c].step = "insertRevocation" => NewRow(c) \in torn'
  PROVE  PkiInv'
<1>1. call \in [Clients -> Call] /\ UNCHANGED <<cas, certs, revocations>>
  BY DEF PkiInv, TypeOK, tables
<1>2. \A d \in Clients : call'[d] = IF d = c THEN k ELSE call[d]
  BY <1>1
<1>3. UNCHANGED <<Stored, Issued, Listed, Revoked>> /\ \A s : IsRevoked(s)' <=> IsRevoked(s)
  BY <1>1 DEF Stored, Issued, Listed, Revoked, IsRevoked
<1>4. TypeOK'
  <2>1. Listed \subseteq Serials /\ Revoked \subseteq Serials
    BY DEF PkiInv, TypeOK, Listed, Revoked, Revocation
  <2> QED
    BY <1>1, <1>3, <2>1 DEF PkiInv, TypeOK, Stored, Issued
<1>5. ChainsToRoot' /\ ListedIsRevoked'
  BY <1>1, <1>3 DEF PkiInv, ChainsToRoot, ListedIsRevoked
<1>6. ReasonRecorded'
  <2> SUFFICES ASSUME NEW s \in Issued, IsRevoked(s)
               PROVE  LET row == [serial |-> s, reason |-> certs[s].reason] IN
                      \/ row \in revocations \cup torn'
                      \/ \E d \in Clients :
                            At(d, "revoke", "insertRevocation")' /\ NewRow(d)' = row
    BY <1>1, <1>3 DEF ReasonRecorded
  <2> DEFINE row == [serial |-> s, reason |-> certs[s].reason]
  <2>1. CASE row \in revocations \cup torn
    BY <2>1
  <2>2. CASE \E d \in Clients : At(d, "revoke", "insertRevocation") /\ NewRow(d) = row
    <3> PICK d \in Clients : At(d, "revoke", "insertRevocation") /\ NewRow(d) = row
      BY <2>2
    <3>1. CASE d = c
      BY <3>1 DEF At
    <3>2. CASE d # c
      <4>1. call'[d] = call[d]
        BY <1>2, <3>2
      <4>2. At(d, "revoke", "insertRevocation")' /\ NewRow(d)' = row
        BY <4>1 DEF At, NewRow
      <4> QED
        BY <4>2
    <3> QED
      BY <3>1, <3>2
  <2> QED
    BY <2>1, <2>2 DEF PkiInv, ReasonRecorded
<1>7. ASSUME NEW d \in Clients PROVE CallOK(call[d])'
  <2>1. call'[d] \in Call /\ CallOK(call'[d])
    BY <1>1, <1>2 DEF PkiInv
  <2> QED
    BY <1>1, <1>3, <2>1 DEF CallOK
<1> QED
  BY <1>3, <1>4, <1>5, <1>6, <1>7 DEF PkiInv

(* A call that returns, or ends early, without writing to a table.         *)
LEMMA ReturnStep ==
  ASSUME PkiInv, NEW c \in Clients, Return(c),
         UNCHANGED <<tables, history>>, call[c].step # "insertRevocation"
  PROVE  PkiInv'
  BY IdleOK, CallStep DEF Return, history, PkiInv, TypeOK

(* A call whose step alone changes.                                        *)
LEMMA GotoStep ==
  ASSUME PkiInv, NEW c \in Clients, NEW step \in Steps, Goto(c, step),
         UNCHANGED <<tables, history>>, call[c].step # "insertRevocation",
         CallOK([call[c] EXCEPT !.step = step])
  PROVE  PkiInv'
<1>1. call[c] \in Call
  BY DEF PkiInv, TypeOK
<1>2. [call[c] EXCEPT !.step = step] \in Call
  BY <1>1 DEF Call
<1>3. call' = [call EXCEPT ![c] = [call[c] EXCEPT !.step = step]]
  BY DEF Goto
<1> QED
  BY <1>2, <1>3, CallStep DEF history, PkiInv, TypeOK

-----------------------------------------------------------------------------
(* The calls that look for a CA first.                                     *)
LEMMA RequestsFindCA ==
  DOMAIN AfterGetCA = {"createIntermediate", "issue", "crl", "ocsp"}
  BY DEF AfterGetCA

(* A request arrives.                                                      *)
LEMMA StartStep ==
  ASSUME PkiInv, NEW c \in Clients, Start(c)
  PROVE  PkiInv'
<1>1. PICK r \in Requests : call' = [call EXCEPT ![c] = r]
  BY DEF Start
<1>2. recorded \subseteq Serials /\ told \subseteq Serials
  BY DEF PkiInv, TypeOK
<1>4. recorded \subseteq Revoked /\ recorded \subseteq Listed /\ told \subseteq Revoked
  <2>1. Listed \subseteq Revoked
    BY DEF Listed, Revoked, PkiInv, TypeOK, ListedIsRevoked, IsRevoked
  <2> QED
    BY <2>1 DEF PkiInv
<1>5. r \in Call
  BY <1>2, ConstantsAssumption DEF Requests, Call, Ops, Steps
<1>6. CallOK(r)
  BY <1>4, RequestsFindCA DEF Requests, CallOK
<1>7. call[c].step # "insertRevocation"
  BY IdleOK DEF Start
<1> QED
  BY <1>1, <1>5, <1>6, <1>7, CallStep DEF Start, history, PkiInv, TypeOK

(* The CA is there, or the call ends.                                      *)
LEMMA GetCAStep ==
  ASSUME PkiInv, NEW c \in Clients, GetCA(c)
  PROVE  PkiInv'
<1>1. /\ call[c] \in Call /\ CallOK(call[c]) /\ call[c].step = "getCA"
      /\ UNCHANGED <<tables, history>>
  BY DEF PkiInv, TypeOK, GetCA
<1>2. CASE Return(c)
  BY <1>1, <1>2, ReturnStep
<1>3. CASE ~ Return(c)
  <2> DEFINE k == [call[c] EXCEPT !.step = AfterGetCA[call[c].op]]
  <2>1. /\ call[c].op \in {"createIntermediate", "issue", "crl", "ocsp"}
        /\ Goto(c, AfterGetCA[call[c].op])
        /\ call[c].op = "createIntermediate" => call[c].parent \in Stored
    BY <1>1, <1>3 DEF GetCA, CallOK, AfterGetCA
  <2>2. /\ k.ca = call[c].ca /\ k.parent = call[c].parent /\ k.op = call[c].op
        /\ k.listed = call[c].listed /\ k.known = call[c].known /\ k.serial = call[c].serial
        /\ k.reason = call[c].reason /\ k.step = AfterGetCA[call[c].op]
    BY <1>1 DEF Call
  <2>3. AfterGetCA[call[c].op] \in Steps
    BY <2>1 DEF AfterGetCA, Steps
  <2> HIDE DEF k
  <2>4. CallOK(k)
    <3>1. CASE call[c].op = "createIntermediate"
      BY <1>1, <2>1, <2>2, <3>1 DEF CallOK, AfterGetCA
    <3>2. CASE call[c].op = "issue"
      BY <1>1, <2>1, <2>2, <3>2 DEF CallOK, AfterGetCA
    <3>3. CASE call[c].op = "crl"
      BY <1>1, <2>1, <2>2, <3>3 DEF CallOK, AfterGetCA
    <3>4. CASE call[c].op = "ocsp"
      BY <1>1, <2>1, <2>2, <3>4 DEF CallOK, AfterGetCA
    <3> QED
      BY <2>1, <3>1, <3>2, <3>3, <3>4
  <2> QED
    BY <1>1, <2>1, <2>3, <2>4, GotoStep DEF k
<1> QED
  BY <1>2, <1>3

(* Renew and Revoke read the certificate.                                  *)
LEMMA GetCertificateStep ==
  ASSUME PkiInv, NEW c \in Clients, RenewGet(c) \/ RevokeGet(c)
  PROVE  PkiInv'
<1>1. /\ call[c] \in Call /\ CallOK(call[c]) /\ call[c].step = "getCertificate"
      /\ UNCHANGED <<tables, history>>
  BY DEF PkiInv, TypeOK, RenewGet, RevokeGet, At
<1>2. CASE Return(c)
  BY <1>1, <1>2, ReturnStep
<1>3. CASE RenewGet(c) /\ ~ Return(c)
  <2>1. call[c].serial \in Issued /\ call[c].op = "renew"
    BY <1>3 DEF RenewGet, At
  <2> DEFINE ca == certs[call[c].serial].ca
             k == [call[c] EXCEPT !.step = "insertCertificate", !.ca = ca]
  <2>2. ca \in CAs
    BY <2>1 DEF PkiInv, TypeOK, Certificate
  <2>3. call' = [call EXCEPT ![c] = k]
    <3>1. call' = [call EXCEPT ![c].step = "insertCertificate", ![c].ca = ca]
      BY <1>3 DEF RenewGet
    <3> HIDE DEF ca
    <3> QED
      BY <3>1, <1>1 DEF PkiInv, TypeOK
  <2> HIDE DEF ca
  <2>4. /\ k \in Call /\ k.op = "renew" /\ k.step = "insertCertificate" /\ k.ca = ca
        /\ k.listed = call[c].listed
    BY <1>1, <2>1, <2>2 DEF Call, Steps
  <2> HIDE DEF k
  <2>5. CallOK(k)
    BY <1>1, <2>2, <2>4 DEF CallOK
  <2> QED
    BY <1>1, <2>3, <2>4, <2>5, CallStep DEF history, PkiInv, TypeOK
<1>4. CASE RevokeGet(c) /\ ~ Return(c)
  <2>1. call[c].serial \in Issued /\ call[c].op = "revoke" /\ Goto(c, "updateCertificate")
    BY <1>4 DEF RevokeGet, At
  <2> DEFINE k == [call[c] EXCEPT !.step = "updateCertificate"]
  <2>2. /\ k.op = "revoke" /\ k.step = "updateCertificate" /\ k.serial = call[c].serial
        /\ k.reason = call[c].reason /\ k.listed = call[c].listed
    BY <1>1, <2>1 DEF Call
  <2> HIDE DEF k
  <2>3. CallOK(k)
    BY <1>1, <2>1, <2>2 DEF CallOK
  <2> QED
    BY <1>1, <2>1, <2>3, GotoStep DEF k, Steps
<1> QED
  BY <1>2, <1>3, <1>4

(* The rows of a CRL, or the certificate OCSP is asked for, are read.      *)
LEMMA ReadStep ==
  ASSUME PkiInv, NEW c \in Clients, ListRevocations(c) \/ OcspGet(c) \/ OcspGetFails(c)
  PROVE  PkiInv'
<1>1. /\ call \in [Clients -> Call] /\ call[c] \in Call /\ CallOK(call[c])
      /\ call[c].step # "insertRevocation" /\ UNCHANGED <<tables, history>>
  BY DEF PkiInv, TypeOK, ListRevocations, OcspGet, OcspGetFails, At
<1>2. CASE ListRevocations(c)
  <2> DEFINE listed == {r \in revocations : certs[r.serial].ca = call[c].ca}
             k == [call[c] EXCEPT !.step = "reply", !.listed = listed]
  <2>1. call[c].op = "crl" /\ listed \subseteq revocations /\ listed \subseteq Revocation
        /\ \A s \in Listed : certs[s].ca = call[c].ca => \E r \in listed : r.serial = s
    BY <1>2 DEF ListRevocations, At, PkiInv, TypeOK, Listed
  <2>2. call' = [call EXCEPT ![c].step = "reply", ![c].listed = listed]
    BY <1>2 DEF ListRevocations
  <2> HIDE DEF listed
  <2>3. call' = [call EXCEPT ![c] = k]
    BY <1>1, <2>2
  <2>4. /\ k \in Call /\ k.op = "crl" /\ k.step = "reply" /\ k.listed = listed
        /\ k.known = call[c].known /\ k.ca = call[c].ca
    BY <1>1, <2>1 DEF Call, Steps
  <2> HIDE DEF k
  <2>5. CallOK(k)
    BY <1>1, <2>1, <2>4 DEF CallOK
  <2> QED
    BY <1>1, <2>3, <2>4, <2>5, CallStep DEF history, PkiInv, TypeOK
<1>3. CASE OcspGet(c) \/ OcspGetFails(c)
  <2>1. PICK good \in BOOLEAN, step \in {"reply", "replyUnread"} :
           /\ call' = [call EXCEPT ![c].step = step, ![c].good = good]
           /\ ~ good => IsRevoked(call[c].serial)
           /\ step = "reply" /\ good => ~ IsRevoked(call[c].serial)
    <3>1. CASE OcspGet(c)
      <4>1. IsRevoked(call[c].serial) \in BOOLEAN
        BY DEF IsRevoked
      <4> QED
        BY <3>1, <4>1 DEF OcspGet
    <3>2. CASE OcspGetFails(c)
      BY <3>2 DEF OcspGetFails
    <3> QED
      BY <1>3, <3>1, <3>2
  <2> DEFINE k == [call[c] EXCEPT !.step = step, !.good = good]
  <2>2. call[c].op = "ocsp"
    BY <1>3 DEF OcspGet, OcspGetFails, At
  <2>3. call' = [call EXCEPT ![c] = k]
    BY <1>1, <2>1
  <2>4. /\ k \in Call /\ k.op = "ocsp" /\ k.step = step /\ k.good = good
        /\ k.known = call[c].known /\ k.serial = call[c].serial
        /\ k.listed = call[c].listed
    BY <1>1, <2>2 DEF Call, Steps
  <2> HIDE DEF k
  <2>5. CallOK(k)
    BY <1>1, <2>1, <2>2, <2>4 DEF CallOK, Revoked
  <2> QED
    BY <1>1, <2>3, <2>4, <2>5, CallStep DEF history, PkiInv, TypeOK
<1> QED
  BY <1>2, <1>3

(* An answer goes out: what it says is listed, or revoked.                 *)
LEMMA ReplyStep ==
  ASSUME PkiInv, NEW c \in Clients, Reply(c)
  PROVE  PkiInv'
<1>1. /\ call[c] \in Call /\ CallOK(call[c]) /\ call[c].step \in {"reply", "replyUnread"}
  BY DEF PkiInv, TypeOK, Reply
<1>2. recorded' \subseteq Listed
  BY <1>1 DEF PkiInv, CallOK, Listed, Reply
<1>3. told' \subseteq Revoked
  <2>1. call[c].op = "ocsp" /\ ~ call[c].good => call[c].serial \in Revoked
    BY <1>1 DEF CallOK, Revoked
  <2> QED
    BY <2>1 DEF PkiInv, Reply
<1> QED
  BY <1>1, <1>2, <1>3, IdleOK, CallStep DEF Reply, Return, PkiInv, TypeOK

(* A call ends between two statements.                                     *)
LEMMA AbortStep ==
  ASSUME PkiInv, NEW c \in Clients, Abort(c)
  PROVE  PkiInv'
<1>1. call[c] \in Call /\ CallOK(call[c])
  BY DEF PkiInv, TypeOK
<1>2. call[c].step = "insertRevocation" => NewRow(c) \in Revocation
  <2>1. call[c].step = "insertRevocation" =>
           call[c].serial \in Serials /\ call[c].reason \in Reasons
    BY <1>1 DEF CallOK, PkiInv, TypeOK
  <2> QED
    BY <2>1 DEF NewRow, Revocation
<1>3. torn \subseteq torn' /\ torn' \subseteq Revocation
      /\ (call[c].step = "insertRevocation" => NewRow(c) \in torn')
  BY <1>2 DEF Abort, PkiInv, TypeOK
<1> QED
  BY <1>3, IdleOK, CallStep DEF Abort, Return, PkiInv

-----------------------------------------------------------------------------
(* The other calls after a write to a table, and the writer at rest.       *)
LEMMA CallsAfterWrite ==
  ASSUME PkiInv, NEW c \in Clients, NEW k \in Call, call' = [call EXCEPT ![c] = k],
         CallOK(k)',
         Stored \subseteq Stored', Issued \subseteq Issued',
         revocations \subseteq revocations',
         \A s \in Issued : certs'[s].ca = certs[s].ca,
         \A s \in Issued : IsRevoked(s) => IsRevoked(s)'
  PROVE  call' \in [Clients -> Call] /\ \A d \in Clients : CallOK(call[d])'
<1>1. call \in [Clients -> Call]
  BY DEF PkiInv, TypeOK
<1>2. ASSUME NEW d \in Clients PROVE CallOK(call[d])'
  <2>1. CASE d = c
    <3>1. call'[d] = k
      BY <1>1, <2>1
    <3> QED
      BY <3>1 DEF CallOK
  <2>2. CASE d # c
    <3>1. call'[d] = call[d] /\ call[d] \in Call /\ CallOK(call[d])
      BY <1>1, <2>2 DEF PkiInv
    <3>2. \A j : j \in Call /\ CallOK(j) => CallOK(j)'
      BY CallKeeps
    <3>3. CallOK(call[d]) => call'[d] \in Call /\ CallOK(call'[d])
      BY <3>1
    <3> QED
      BY <3>1, <3>2 DEF CallOK
  <2> QED
    BY <2>1, <2>2
<1> QED
  BY <1>1, <1>2

(* A call that is at rest is so whatever the tables hold.                  *)
LEMMA IdleStaysOK == CallOK(Idle)'
  BY DEF Idle, CallOK, AfterGetCA

(* A CA gets a name that no other has, under a parent that is there: no    *)
(* group of CAs closes upon itself.                                        *)
LEMMA InsertCAStep ==
  ASSUME PkiInv, NEW c \in Clients, InsertCA(c)
  PROVE  PkiInv'
<1> DEFINE ca == call[c].ca
           parent == call[c].parent
<1>1. /\ call[c] \in Call /\ ca \in CAs /\ parent \in {NoCA} \cup Stored
      /\ UNCHANGED <<certs, revocations, torn, recorded, told>> /\ Return(c)
  BY DEF PkiInv, TypeOK, CallOK, InsertCA, history
<1>2. /\ Stored \subseteq Stored' /\ \A a \in Stored : cas'[a] = cas[a]
      /\ cas' \in [Stored' -> CAs \cup {NoCA}] /\ Stored' \subseteq CAs
      /\ Stored' = Stored \/ (ca \notin Stored /\ Stored' = Stored \cup {ca} /\ cas'[ca] = parent)
  <2>1. cas \in [Stored -> CAs \cup {NoCA}] /\ Stored \subseteq CAs
    BY DEF PkiInv, TypeOK
  <2>2. CASE UNCHANGED cas
    BY <2>1, <2>2 DEF Stored
  <2>3. CASE /\ ca \notin Stored
             /\ cas' = [a \in Stored \cup {ca} |-> IF a = ca THEN parent ELSE cas[a]]
    <3>1. Stored' = Stored \cup {ca}
      BY <2>3 DEF Stored
    <3>2. \A a \in Stored : cas'[a] = cas[a] /\ cas[a] \in CAs \cup {NoCA}
      BY <2>1, <2>3
    <3>3. cas'[ca] = parent
      BY <2>3
    <3>4. parent \in CAs \cup {NoCA}
      BY <1>1, <2>1
    <3> HIDE DEF ca, parent
    <3>5. cas' \in [Stored' -> CAs \cup {NoCA}]
      BY <2>3, <3>1, <3>2, <3>3, <3>4
    <3> QED
      BY <1>1, <2>1, <2>3, <3>1, <3>2, <3>3, <3>5
  <2> QED
    BY <2>2, <2>3 DEF InsertCA
<1>3. UNCHANGED <<Issued, Listed, Revoked>> /\ \A s : IsRevoked(s)' <=> IsRevoked(s)
  BY <1>1 DEF Issued, Listed, Revoked, IsRevoked
<1>4. call' \in [Clients -> Call] /\ \A d \in Clients : CallOK(call[d])'
  BY <1>1, <1>2, <1>3, IdleOK, IdleStaysOK, CallsAfterWrite DEF Return
<1>5. TypeOK'
  BY <1>1, <1>2, <1>3, <1>4 DEF PkiInv, TypeOK
<1>6. ChainsToRoot'
  <2> SUFFICES ASSUME NEW group \in SUBSET Stored', group # {}
               PROVE  \E a \in group : cas'[a] \in {NoCA} \cup (Stored' \ group)
    BY DEF ChainsToRoot
  <2>1. CASE group \ {ca} = {} /\ ca \notin Stored
    BY <1>1, <1>2, <2>1
  <2>2. CASE group \subseteq Stored
    <3>1. PICK a \in group : cas[a] \in {NoCA} \cup (Stored \ group)
      BY <2>2 DEF PkiInv, ChainsToRoot
    <3> QED
      BY <1>2, <2>2, <3>1
  <2>3. CASE group \ {ca} # {} /\ ca \notin Stored
    <3>1. group \ {ca} \subseteq Stored
      BY <1>2
    <3>2. PICK a \in group \ {ca} : cas[a] \in {NoCA} \cup (Stored \ (group \ {ca}))
      BY <2>3, <3>1 DEF PkiInv, ChainsToRoot
    <3> QED
      BY <1>2, <2>3, <3>1, <3>2
  <2> QED
    BY <1>2, <2>1, <2>2, <2>3
<1>7. ListedIsRevoked' /\ recorded' \subseteq Listed' /\ told' \subseteq Revoked'
  BY <1>1, <1>3 DEF PkiInv, ListedIsRevoked
<1>8. ReasonRecorded'
  <2>1. \A d \in Clients : At(d, "revoke", "insertRevocation") =>
           At(d, "revoke", "insertRevocation")' /\ NewRow(d)' = NewRow(d)
    <3>1. \A d \in Clients : d # c => call'[d] = call[d]
      BY <1>1 DEF Return, PkiInv, TypeOK
    <3> QED
      BY <3>1 DEF InsertCA, At, NewRow
  <2> QED
    BY <1>1, <1>3, <2>1 DEF PkiInv, ReasonRecorded
<1> QED
  BY <1>4, <1>5, <1>6, <1>7, <1>8 DEF PkiInv

(* A certificate gets a serial that no other has.                          *)
LEMMA InsertCertificateStep ==
  ASSUME PkiInv, NEW c \in Clients, InsertCertificate(c)
  PROVE  PkiInv'
<1> DEFINE row == [ca |-> call[c].ca, reason |-> NoReason]
<1>1. PICK s \in Serials \ Issued :
         certs' = [t \in Issued \cup {s} |-> IF t = s THEN row ELSE certs[t]]
  BY DEF InsertCertificate
<1>2. /\ call[c] \in Call /\ call[c].ca \in CAs
      /\ UNCHANGED <<cas, revocations, torn, recorded, told>> /\ Return(c)
  BY DEF PkiInv, TypeOK, CallOK, InsertCertificate, history
<1>3. row \in Certificate /\ row.reason = NoReason
  BY <1>2 DEF Certificate
<1> HIDE DEF row
<1>4. /\ Issued' = Issued \cup {s} /\ certs'[s] = row
      /\ \A t \in Issued : certs'[t] = certs[t]
  BY <1>1 DEF Issued
<1>5. certs' \in [Issued' -> Certificate]
  <2>1. \A t \in Issued : certs[t] \in Certificate
    BY DEF PkiInv, TypeOK
  <2> QED
    BY <1>1, <1>3, <1>4, <2>1
<1>6. UNCHANGED <<Stored, Listed, Revoked>> /\ \A t : IsRevoked(t)' <=> IsRevoked(t)
  <2>1. \A t : IsRevoked(t)' <=> IsRevoked(t)
    BY <1>1, <1>3, <1>4 DEF IsRevoked
  <2> QED
    BY <1>2, <2>1 DEF Stored, Listed, Revoked
<1>7. call' \in [Clients -> Call] /\ \A d \in Clients : CallOK(call[d])'
  BY <1>2, <1>4, <1>6, IdleOK, IdleStaysOK, CallsAfterWrite DEF Return
<1>8. TypeOK'
  BY <1>1, <1>2, <1>4, <1>5, <1>6, <1>7 DEF PkiInv, TypeOK
<1>9. ChainsToRoot' /\ ListedIsRevoked' /\ recorded' \subseteq Listed' /\ told' \subseteq Revoked'
  BY <1>2, <1>6 DEF PkiInv, ChainsToRoot, ListedIsRevoked
<1>10. ReasonRecorded'
  <2>1. \A d \in Clients : At(d, "revoke", "insertRevocation") =>
           At(d, "revoke", "insertRevocation")' /\ NewRow(d)' = NewRow(d)
    <3>1. \A d \in Clients : d # c => call'[d] = call[d]
      BY <1>2 DEF Return, PkiInv, TypeOK
    <3> QED
      BY <3>1 DEF InsertCertificate, At, NewRow
  <2>2. \A t \in Issued' : IsRevoked(t) => t \in Issued /\ certs'[t] = certs[t]
    BY <1>4 DEF IsRevoked
  <2> QED
    BY <1>2, <1>6, <2>1, <2>2 DEF PkiInv, ReasonRecorded
<1> QED
  BY <1>7, <1>8, <1>9, <1>10 DEF PkiInv

(* Revoke writes the status, and then owes the revocation.                 *)
LEMMA RevokeCertificateStep ==
  ASSUME PkiInv, NEW c \in Clients, RevokeCertificate(c)
  PROVE  PkiInv'
<1>0. /\ call \in [Clients -> Call] /\ call[c] \in Call /\ CallOK(call[c])
      /\ call[c].op = "revoke" /\ call[c].step = "updateCertificate"
      /\ call[c].serial \in Issued /\ call[c].reason \in Reasons
  BY DEF PkiInv, TypeOK, CallOK, RevokeCertificate, At
<1>a. PICK s, reason, k : /\ s = call[c].serial /\ reason = call[c].reason
                         /\ k = [call[c] EXCEPT !.step = "insertRevocation"]
  OBVIOUS
<1>1. /\ call \in [Clients -> Call] /\ call[c] \in Call /\ CallOK(call[c])
      /\ call[c].op = "revoke" /\ call[c].step = "updateCertificate"
      /\ s \in Issued /\ reason \in Reasons /\ reason # NoReason
  BY <1>0, <1>a, ConstantsAssumption
<1>2. /\ UNCHANGED <<cas, revocations, torn, recorded, told>>
      /\ call' = [call EXCEPT ![c] = k]
      /\ certs' = [certs EXCEPT ![s].reason = reason]
  BY <1>0, <1>a DEF RevokeCertificate, Goto, history
<1>3. /\ Issued' = Issued /\ certs' \in [Issued -> Certificate]
      /\ \A t \in Issued : certs'[t].ca = certs[t].ca
      /\ \A t \in Issued : t # s => certs'[t] = certs[t]
      /\ certs'[s].reason = reason
  <2> DEFINE row == [certs[s] EXCEPT !.reason = reason]
  <2>1. certs \in [Issued -> Certificate] /\ certs[s] \in Certificate
    BY <1>1 DEF PkiInv, TypeOK
  <2>2. row \in Certificate /\ row.ca = certs[s].ca /\ row.reason = reason
    BY <1>1, <2>1 DEF Certificate
  <2>3. certs' = [certs EXCEPT ![s] = row]
    BY <1>2
  <2> HIDE DEF row
  <2> QED
    BY <1>1, <2>1, <2>2, <2>3 DEF Issued
<1>4. /\ k \in Call /\ k.op = "revoke" /\ k.step = "insertRevocation" /\ k.serial = s
      /\ k.reason = reason /\ k.listed = call[c].listed
  BY <1>0, <1>a DEF Call, Steps
<1>5. (\A t : IsRevoked(t) => IsRevoked(t)') /\ IsRevoked(s)'
  BY <1>1, <1>3 DEF IsRevoked
<1>6. UNCHANGED <<Stored, Listed>> /\ Revoked \subseteq Revoked'
  BY <1>2, <1>5 DEF Stored, Listed, Revoked
<1>7. CallOK(k)'
  <2>1. k.listed \subseteq revocations'
    BY <1>1, <1>2, <1>4 DEF CallOK
  <2> QED
    BY <1>1, <1>3, <1>4, <1>5, <2>1 DEF CallOK
<1>8. call' \in [Clients -> Call] /\ \A d \in Clients : CallOK(call[d])'
  BY <1>2, <1>3, <1>4, <1>5, <1>6, <1>7, CallsAfterWrite
<1>9. TypeOK'
  BY <1>2, <1>3, <1>6, <1>8 DEF PkiInv, TypeOK
<1>10. ChainsToRoot' /\ ListedIsRevoked' /\ recorded' \subseteq Listed' /\ told' \subseteq Revoked'
  BY <1>2, <1>5, <1>6 DEF PkiInv, ChainsToRoot, ListedIsRevoked
<1>11. ReasonRecorded'
  <2> SUFFICES ASSUME NEW t \in Issued, IsRevoked(t)'
               PROVE  LET row == [serial |-> t, reason |-> certs'[t].reason] IN
                      \/ row \in revocations \cup torn
                      \/ \E d \in Clients :
                            At(d, "revoke", "insertRevocation")' /\ NewRow(d)' = row
    BY <1>2, <1>3 DEF ReasonRecorded
  <2>1. \A d \in Clients : call'[d] = IF d = c THEN k ELSE call[d]
    BY <1>1, <1>2
  <2>2. CASE t = s
    <3>1. call'[c] = k
      BY <2>1
    <3>2. At(c, "revoke", "insertRevocation")' /\ NewRow(c)' = [serial |-> s, reason |-> reason]
      BY <1>4, <3>1 DEF At, NewRow
    <3> QED
      BY <1>3, <2>2, <3>2
  <2>3. CASE t # s
    <3>1. certs'[t] = certs[t] /\ IsRevoked(t)
      BY <1>3, <2>3 DEF IsRevoked
    <3>2. \A d \in Clients : At(d, "revoke", "insertRevocation") =>
             At(d, "revoke", "insertRevocation")' /\ NewRow(d)' = NewRow(d)
      BY <1>1, <2>1 DEF At, NewRow
    <3> QED
      BY <3>1, <3>2 DEF PkiInv, ReasonRecorded
  <2> QED
    BY <2>2, <2>3
<1> QED
  BY <1>8, <1>9, <1>10, <1>11 DEF PkiInv

(* The revocation is there, and may be acknowledged.                       *)
LEMMA CreateRevocationStep ==
  ASSUME PkiInv, NEW c \in Clients, CreateRevocation(c)
  PROVE  PkiInv'
<1>1. /\ call[c] \in Call /\ call[c].serial \in Issued /\ IsRevoked(call[c].serial)
      /\ call[c].reason \in Reasons
  BY DEF PkiInv, TypeOK, CallOK, CreateRevocation, At
<1>2. /\ UNCHANGED <<cas, certs, torn, told>> /\ Return(c)
      /\ revocations' = revocations \cup {NewRow(c)}
      /\ recorded' \subseteq recorded \cup {call[c].serial}
  BY DEF CreateRevocation, Acknowledge
<1>3. NewRow(c) \in Revocation /\ NewRow(c).serial = call[c].serial
  BY <1>1 DEF NewRow, Revocation, PkiInv, TypeOK
<1>4. UNCHANGED <<Stored, Issued, Revoked>> /\ (\A t : IsRevoked(t)' <=> IsRevoked(t))
  BY <1>2 DEF Stored, Issued, Revoked, IsRevoked
<1>5. Listed' = Listed \cup {call[c].serial}
  BY <1>2, <1>3 DEF Listed
<1>6. call' \in [Clients -> Call] /\ \A d \in Clients : CallOK(call[d])'
  BY <1>2, <1>4, IdleOK, IdleStaysOK, CallsAfterWrite DEF Return
<1>7. TypeOK'
  <2>1. recorded' \subseteq Serials
    BY <1>1, <1>2 DEF PkiInv, TypeOK
  <2> QED
    BY <1>2, <1>3, <1>4, <1>6, <2>1 DEF PkiInv, TypeOK
<1>8. ChainsToRoot' /\ ListedIsRevoked' /\ recorded' \subseteq Listed' /\ told' \subseteq Revoked'
  BY <1>1, <1>2, <1>3, <1>4, <1>5 DEF PkiInv, ChainsToRoot, ListedIsRevoked
<1>9. ReasonRecorded'
  <2> SUFFICES ASSUME NEW t \in Issued, IsRevoked(t)
               PROVE  LET row == [serial |-> t, reason |-> certs[t].reason] IN
                      \/ row \in revocations' \cup torn
                      \/ \E d \in Clients :
                            At(d, "revoke", "insertRevocation")' /\ NewRow(d)' = row
    BY <1>2, <1>4 DEF ReasonRecorded
  <2>1. \A d \in Clients : d # c => call'[d] = call[d]
    BY <1>2 DEF Return, PkiInv, TypeOK
  <2>2. \A d \in Clients : d # c /\ At(d, "revoke", "insertRevocation") =>
           At(d, "revoke", "insertRevocation")' /\ NewRow(d)' = NewRow(d)
    BY <2>1 DEF At, NewRow
  <2> QED
    BY <1>2, <2>2 DEF PkiInv, ReasonRecorded
<1> QED
  BY <1>6, <1>7, <1>8, <1>9 DEF PkiInv

-----------------------------------------------------------------------------
(* Every step keeps the invariant.                                         *)
LEMMA PkiStep == PkiInv /\ [Next]_vars => PkiInv'
<1> SUFFICES ASSUME PkiInv, [Next]_vars PROVE PkiInv'
  OBVIOUS
<1>1. ASSUME NEW c \in Clients,
             \/ Start(c) \/ GetCA(c) \/ InsertCA(c)
             \/ RenewGet(c) \/ InsertCertificate(c)
             \/ RevokeGet(c) \/ RevokeCertificate(c) \/ CreateRevocation(c)
             \/ ListRevocations(c) \/ OcspGet(c) \/ OcspGetFails(c) \/ Reply(c)
             \/ Abort(c)
      PROVE  PkiInv'
  BY <1>1, StartStep, GetCAStep, InsertCAStep, GetCertificateStep, InsertCertificateStep,
     RevokeCertificateStep, CreateRevocationStep, ReadStep, ReplyStep, AbortStep
<1>2. CASE UNCHANGED vars
  BY <1>2 DEF PkiInv, TypeOK, ChainsToRoot, ListedIsRevoked, ReasonRecorded, CallOK, Listed,
              Revoked, Stored, Issued, IsRevoked, At, NewRow, vars
<1> QED
  BY <1>1, <1>2 DEF Next

(* The invariant of the PKI.                                               *)
THEOREM PkiCorrect == Spec => []PkiInv
  BY PkiInit, PkiStep, PTL DEF Spec

(* Every variable keeps its type.                                          *)
THEOREM PkiTypeCorrect == Spec => []TypeOK
<1>1. PkiInv => TypeOK
  BY DEF PkiInv
<1> QED
  BY <1>1, PkiCorrect, PTL

(* No interleaving of creations closes a cycle of CAs.                     *)
THEOREM CAsFormAForest == Spec => []ChainsToRoot
<1>1. PkiInv => ChainsToRoot
  BY DEF PkiInv
<1> QED
  BY <1>1, PkiCorrect, PTL

(* What a CRL lists is revoked for OCSP too.                               *)
THEOREM ListedMeansRevoked == Spec => []ListedIsRevoked
<1>1. PkiInv => ListedIsRevoked
  BY DEF PkiInv
<1> QED
  BY <1>1, PkiCorrect, PTL

(* The reason that a certificate shows is one of its revocations'.         *)
THEOREM ReasonsAreRecorded == Spec => []ReasonRecorded
<1>1. PkiInv => ReasonRecorded
  BY DEF PkiInv
<1> QED
  BY <1>1, PkiCorrect, PTL

(* A CRL forgets no revocation that was acknowledged or on one before.     *)
THEOREM CrlForgetsNothing == Spec => []CrlComplete
<1>1. PkiInv => CrlComplete
  BY DEF PkiInv, CrlComplete, CallOK, At
<1> QED
  BY <1>1, PkiCorrect, PTL

(* OCSP calls no certificate good that it, or a CRL, called revoked.       *)
THEOREM OcspForgetsNothing == Spec => []OcspNeverForgets
<1>1. PkiInv => OcspNeverForgets
  BY DEF PkiInv, OcspNeverForgets, CallOK, At
<1> QED
  BY <1>1, PkiCorrect, PTL
==============================================================================
