--------------------------------- MODULE Pki ----------------------------------
(***************************************************************************)
(* Certificate authorities, certificates and their revocation:             *)
(* pki/application.Service over pki_cas, certificates and revocations.     *)
(*                                                                         *)
(* Revoke writes the status of the certificate and then the revocation, in *)
(* two statements that no transaction joins.  OCSP answers from the first, *)
(* a CRL is made from the second, and either may read between the two.     *)
(* Each statement is an action; a client is a request slot, used again for *)
(* its next call.                                                          *)
(*                                                                         *)
(* Keys, signatures, names and validity times are left out: no statement   *)
(* depends on them.  A certificate is its serial number, which is random   *)
(* and taken never to repeat.  revoked_at goes where revocation_reason     *)
(* goes, and the reason stands for both.                                   *)
(***************************************************************************)
EXTENDS Naturals, FiniteSets

CONSTANTS
    Clients,         \* concurrent request slots
    CAs,             \* names of certificate authorities
    Serials,         \* bound: the certificates that can be issued
    Reasons,         \* revocation reasons, none of them empty
    NoCA,            \* the parent of a root, and a call that names no CA
    NoSerial,        \* a call that names no certificate
    NoReason         \* revocation_reason of a certificate with status issued

ASSUME ConstantsAssumption ==
    /\ NoCA \notin CAs
    /\ NoSerial \notin Serials
    /\ NoReason \notin Reasons

VARIABLES
    cas,             \* pki_cas: name -> name of the parent
    certs,           \* certificates: serial -> signing CA and reason
    revocations,     \* revocations: serials and reasons
    call,            \* the call each client has in flight
    torn,            \* history: revocations whose INSERT never came
    recorded,        \* history: serials acknowledged as revoked or on a CRL
    told             \* history: serials that OCSP has called revoked

vars == <<cas, certs, revocations, call, torn, recorded, told>>
tables == <<cas, certs, revocations>>
history == <<torn, recorded, told>>

-----------------------------------------------------------------------------
Certificate == [ca : CAs, reason : Reasons \cup {NoReason}]
Revocation == [serial : Serials, reason : Reasons]

Stored == DOMAIN cas
Issued == DOMAIN certs
IsRevoked(s) == s \in Issued /\ certs[s].reason # NoReason

Ops == {"none", "createRoot", "createIntermediate", "issue", "renew", "revoke",
        "crl", "ocsp"}
Steps == {"idle", "getCA", "getCertificate", "insertCA", "insertCertificate",
          "updateCertificate", "insertRevocation", "listRevocations",
          "reply", "replyUnread"}

(* listed and good are what crl and ocsp are about to answer, known is     *)
(* what had been said of revoked certificates when they were asked.        *)
Call == [op : Ops, step : Steps, ca : CAs \cup {NoCA}, parent : CAs \cup {NoCA},
         serial : Serials \cup {NoSerial}, reason : Reasons \cup {NoReason},
         listed : SUBSET Revocation, good : BOOLEAN, known : SUBSET Serials]

Idle == [op |-> "none", step |-> "idle", ca |-> NoCA, parent |-> NoCA,
         serial |-> NoSerial, reason |-> NoReason,
         listed |-> {}, good |-> FALSE, known |-> {}]

At(c, op, step) == call[c].op = op /\ call[c].step = step
Goto(c, step) == call' = [call EXCEPT ![c].step = step]
Return(c) == call' = [call EXCEPT ![c] = Idle]

Init ==
    /\ cas = << >>
    /\ certs = << >>
    /\ revocations = {}
    /\ call = [c \in Clients |-> Idle]
    /\ torn = {}
    /\ recorded = {}
    /\ told = {}

-----------------------------------------------------------------------------
(* A request with its validated arguments.                                 *)
Requests ==
    LET asking(op, step, ca, parent, serial, reason, known) ==
          [op : {op}, step : {step}, ca : ca, parent : parent, serial : serial,
           reason : reason, listed : {{}}, good : {FALSE}, known : {known}]
        ofCA(op, step, parent, known) ==
          asking(op, step, CAs, parent, {NoSerial}, {NoReason}, known)
        ofCertificate(op, reason) ==
          asking(op, "getCertificate", {NoCA}, {NoCA}, Serials, reason, {})
    IN  ofCA("createRoot", "insertCA", {NoCA}, {})
        \cup ofCA("createIntermediate", "getCA", CAs, {})
        \cup ofCA("issue", "getCA", {NoCA}, {})
        \cup ofCA("crl", "getCA", {NoCA}, recorded)
        \cup ofCertificate("renew", {NoReason})
        \cup ofCertificate("revoke", Reasons)
        \cup asking("ocsp", "getCA", CAs, {NoCA}, Serials, {NoReason}, recorded \cup told)

Start(c) ==
    /\ call[c] = Idle
    /\ \E r \in Requests : call' = [call EXCEPT ![c] = r]
    /\ UNCHANGED <<tables, history>>

(* The CA a call works with, for an intermediate its parent, must exist.   *)
AfterGetCA == [createIntermediate |-> "insertCA", issue |-> "insertCertificate",
               crl |-> "listRevocations", ocsp |-> "getCertificate"]

GetCA(c) ==
    /\ call[c].step = "getCA"
    /\ LET wanted == IF call[c].op = "createIntermediate" THEN call[c].parent
                                                          ELSE call[c].ca IN
       IF wanted \in Stored THEN Goto(c, AfterGetCA[call[c].op]) ELSE Return(c)
    /\ UNCHANGED <<tables, history>>

(* CreateCA: UNIQUE(name) rejects a name in use.                           *)
UpsertCA(c) ==
    /\ call[c].step = "insertCA"
    /\ cas' = [a \in Stored \cup {call[c].ca} |->
                  IF a = call[c].ca THEN call[c].parent ELSE cas[a]]
    /\ Return(c)
    /\ UNCHANGED <<certs, revocations, history>>
InsertCA(c) ==
    /\ call[c].step = "insertCA"
    /\ \/ /\ call[c].ca \in Stored
          /\ UNCHANGED cas
       \/ /\ call[c].ca \notin Stored
          /\ cas' = [a \in Stored \cup {call[c].ca} |->
                        IF a = call[c].ca THEN call[c].parent ELSE cas[a]]
    /\ Return(c)
    /\ UNCHANGED <<certs, revocations, history>>

-----------------------------------------------------------------------------
(* Renew reads the certificate, whatever its status, and the CA that       *)
(* signed it, which is never removed.                                      *)
RenewGet(c) ==
    /\ At(c, "renew", "getCertificate")
    /\ IF call[c].serial \in Issued
         THEN call' = [call EXCEPT ![c].step = "insertCertificate",
                                   ![c].ca = certs[call[c].serial].ca]
         ELSE Return(c)
    /\ UNCHANGED <<tables, history>>

(* issueWithKey: Issue and Renew end with a certificate of their own.      *)
RenewInPlace(c) ==
    /\ call[c].step = "insertCertificate"
    /\ \E s \in IF call[c].op = "renew" THEN {call[c].serial} ELSE Serials \ Issued :
          certs' = [t \in Issued \cup {s} |->
                       IF t = s THEN [ca |-> call[c].ca, reason |-> NoReason] ELSE certs[t]]
    /\ Return(c)
    /\ UNCHANGED <<cas, revocations, history>>
InsertCertificate(c) ==
    /\ call[c].step = "insertCertificate"
    /\ \E s \in Serials \ Issued :
          certs' = [t \in Issued \cup {s} |->
                       IF t = s THEN [ca |-> call[c].ca, reason |-> NoReason] ELSE certs[t]]
    /\ Return(c)
    /\ UNCHANGED <<cas, revocations, history>>

-----------------------------------------------------------------------------
(* Revoke takes a certificate of any status, revoked ones too.             *)
RevokeWithoutUpdate(c) ==
    /\ At(c, "revoke", "getCertificate")
    /\ IF call[c].serial \in Issued THEN Goto(c, "insertRevocation") ELSE Return(c)
    /\ UNCHANGED <<tables, history>>
RevokeGet(c) ==
    /\ At(c, "revoke", "getCertificate")
    /\ IF call[c].serial \in Issued THEN Goto(c, "updateCertificate") ELSE Return(c)
    /\ UNCHANGED <<tables, history>>

(* UPDATE certificates SET status, revoked_at, revocation_reason: whatever *)
(* an earlier revocation wrote is overwritten.                             *)
RevokeCertificate(c) ==
    /\ At(c, "revoke", "updateCertificate")
    /\ certs' = [certs EXCEPT ![call[c].serial].reason = call[c].reason]
    /\ Goto(c, "insertRevocation")
    /\ UNCHANGED <<cas, revocations, history>>

RowWithoutReason(c) == [serial |-> call[c].serial, reason |-> NoReason]
NewRow(c) == [serial |-> call[c].serial, reason |-> call[c].reason]

(* INSERT INTO revocations; Revoke returns, or its answer is lost.         *)
Acknowledge(c) == recorded' = recorded \cup {call[c].serial} \/ recorded' = recorded

InsertErrorIgnored(c) ==
    /\ At(c, "revoke", "insertRevocation")
    /\ revocations' \in {revocations, revocations \cup {NewRow(c)}}
    /\ Acknowledge(c)
    /\ Return(c)
    /\ UNCHANGED <<cas, certs, torn, told>>
InsertOncePerSerial(c) ==
    /\ At(c, "revoke", "insertRevocation")
    /\ revocations' = IF \E r \in revocations : r.serial = call[c].serial
                        THEN revocations ELSE revocations \cup {NewRow(c)}
    /\ Acknowledge(c)
    /\ Return(c)
    /\ UNCHANGED <<cas, certs, torn, told>>
CreateRevocation(c) ==
    /\ At(c, "revoke", "insertRevocation")
    /\ revocations' = revocations \cup {NewRow(c)}
    /\ Acknowledge(c)
    /\ Return(c)
    /\ UNCHANGED <<cas, certs, torn, told>>

-----------------------------------------------------------------------------
(* CRL: the revocations of the certificates this CA has signed.            *)
ListRevocations(c) ==
    /\ At(c, "crl", "listRevocations")
    /\ call' = [call EXCEPT ![c].step = "reply",
                            ![c].listed = {r \in revocations : certs[r.serial].ca = call[c].ca}]
    /\ UNCHANGED <<tables, history>>

(* OCSP: good unless the certificate is found and is revoked.              *)
OcspGet(c) ==
    /\ At(c, "ocsp", "getCertificate")
    /\ call' = [call EXCEPT ![c].step = "reply", ![c].good = ~ IsRevoked(call[c].serial)]
    /\ UNCHANGED <<tables, history>>

(* The lookup fails, and the answer is good all the same.                  *)
OcspGetFails(c) ==
    /\ At(c, "ocsp", "getCertificate")
    /\ call' = [call EXCEPT ![c].step = "replyUnread", ![c].good = TRUE]
    /\ UNCHANGED <<tables, history>>

(* The signed CRL or response reaches who asked for it.                    *)
Reply(c) ==
    /\ call[c].step \in {"reply", "replyUnread"}
    /\ recorded' = recorded \cup {r.serial : r \in call[c].listed}
    /\ told' = IF call[c].op = "ocsp" /\ ~ call[c].good
                 THEN told \cup {call[c].serial} ELSE told
    /\ Return(c)
    /\ UNCHANGED <<tables, torn>>

(* A statement fails, the request ends or its server dies.                 *)
Abort(c) ==
    /\ call[c] # Idle
    /\ torn' = IF call[c].step = "insertRevocation" THEN torn \cup {NewRow(c)} ELSE torn
    /\ Return(c)
    /\ UNCHANGED <<tables, recorded, told>>

Next == \E c \in Clients :
    \/ Start(c) \/ GetCA(c) \/ InsertCA(c)
    \/ RenewGet(c) \/ InsertCertificate(c)
    \/ RevokeGet(c) \/ RevokeCertificate(c) \/ CreateRevocation(c)
    \/ ListRevocations(c) \/ OcspGet(c) \/ OcspGetFails(c) \/ Reply(c)
    \/ Abort(c)

Spec == Init /\ [][Next]_vars

-----------------------------------------------------------------------------
(* Every variable keeps its type.                                          *)
TypeOK ==
    /\ Stored \subseteq CAs
    /\ cas \in [Stored -> CAs \cup {NoCA}]
    /\ Issued \subseteq Serials
    /\ certs \in [Issued -> Certificate]
    /\ revocations \subseteq Revocation
    /\ call \in [Clients -> Call]
    /\ torn \subseteq Revocation
    /\ recorded \subseteq Serials
    /\ told \subseteq Serials

(* Every CA chains to a root: among any CAs there is one whose parent is   *)
(* not among them.  Names are unique and a parent is stored before its     *)
(* child, so no interleaving of creations closes a cycle.                  *)
ChainsToRoot ==
    \A group \in SUBSET Stored :
        group # {} => \E a \in group : cas[a] \in {NoCA} \cup (Stored \ group)

(* What a CRL lists is revoked for OCSP too: a revocation is only inserted *)
(* once the certificate has its status, and nothing takes that back.       *)
ListedIsRevoked == \A r \in revocations : IsRevoked(r.serial)

(* The reason and time a revoked certificate shows are those of one of its *)
(* revocations, however Revoke calls overlap, unless that very call ended  *)
(* between its two statements or still stands there.                       *)
ReasonRecorded ==
    \A s \in Issued : IsRevoked(s) =>
        LET row == [serial |-> s, reason |-> certs[s].reason] IN
        \/ row \in revocations \cup torn
        \/ \E c \in Clients : At(c, "revoke", "insertRevocation") /\ NewRow(c) = row

(* A certificate whose revocation was acknowledged, or that was on any CRL *)
(* before, is on every CRL its CA is asked for from then on.               *)
CrlComplete ==
    \A c \in Clients : At(c, "crl", "reply") =>
        \A s \in call[c].known :
            certs[s].ca = call[c].ca => \E r \in call[c].listed : r.serial = s

(* A certificate whose revocation was acknowledged, that was on a CRL or   *)
(* that OCSP has called revoked is never called good again, except when    *)
(* its lookup fails.                                                       *)
OcspNeverForgets ==
    \A c \in Clients : At(c, "ocsp", "reply") =>
        (call[c].good => call[c].serial \notin call[c].known)
==============================================================================
