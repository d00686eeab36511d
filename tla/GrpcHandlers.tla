---------------------------- MODULE GrpcHandlers ------------------------------
(* The methods of the gRPC gateway, api/grpc, in the order of methods.go.  *)
EXTENDS Handlers

createNamespace == Whole("create", "write")
putSecret == Named("create", "write")
getSecret == Named("read", "read")
listSecrets == Whole("list", "read")
listVersions == Named("read", "read")
softDeleteVersion == Named("delete", "write")
restoreVersion == Named("update", "write")
destroyVersion == Named("delete", "write")
rollbackVersion == Named("update", "write")

createLease == NamedSecret("create", "write")
renewLease == OfLease("update", "write")
revokeLease == OfLease("delete", "write")

createPolicy == Whole("create", "createPolicy")
listPolicies == Whole("list", "read")
deletePolicy == OfPolicy("delete", "deletePolicy")

listAudit == Whole("list", "read")
verifyAudit == Undecided("read")

createRootCA == Whole("create", "write")
createIntermediateCA == Besides("parent", Whole("create", "write"))
issueCertificate == OfCA("create", "write")
renewCertificate == OfCertificate("update", "write")
revokeCertificate == OfCertificate("delete", "write")
getCRL == OfCA("read", "read")
getOCSP == Besides("certificate", OfCA("read", "read"))

encrypt == Undecided("read")
decrypt == Undecided("read")
sign == Undecided("read")
verify == Undecided("read")
deriveKey == Undecided("read")
random == Undecided("read")

Registered == {
    createNamespace, putSecret, getSecret, listSecrets, listVersions,
    softDeleteVersion, restoreVersion, destroyVersion, rollbackVersion, createLease,
    renewLease, revokeLease, createPolicy, listPolicies, deletePolicy, listAudit,
    verifyAudit, createRootCA, createIntermediateCA, issueCertificate,
    renewCertificate, revokeCertificate, getCRL, getOCSP, encrypt, decrypt, sign,
    verify, deriveKey, random}
==============================================================================
