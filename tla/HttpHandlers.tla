---------------------------- MODULE HttpHandlers ------------------------------
(* The handlers of the REST gateway, api/http, in the order of its files.  *)
EXTENDS Handlers

createNamespace == Whole("create", "write")
listNamespaces == Everywhere("list", "read")

createSecret == Named("create", "write")
listSecrets == Whole("list", "read")
getSecret == Named("read", "read")
putSecret == Named("update", "write")
listVersions == Named("read", "read")
softDeleteVersion == Named("delete", "write")
restoreVersion == Named("update", "write")
destroyVersion == Named("delete", "write")
rollbackVersion == Named("update", "write")

createLease == NamedSecret("create", "write")
getLease == OfLease("read", "shown")
renewLease == OfLease("update", "write")
revokeLease == OfLease("delete", "write")

createPolicy == Whole("create", "createPolicy")
listPolicies == Whole("list", "read")
getPolicy == OfPolicy("read", "shown")
deletePolicy == OfPolicy("delete", "deletePolicy")

listAudit == Whole("list", "read")
verifyAudit == Everywhere("read", "read")

createRootCA == Whole("create", "write")
createIntermediateCA == Besides("parent", Whole("create", "write"))
listCAs == Whole("list", "read")
getCA == OfCA("read", "shown")
getCRL == OfCA("read", "read")
getOCSP == Besides("certificate", OfCA("read", "read"))
issueCertificate == OfCA("create", "write")
renewCertificate == OfCertificate("update", "write")
revokeCertificate == OfCertificate("delete", "write")
listCertificates == Whole("list", "read")
getCertificate == OfCertificate("read", "shown")

cryptoEncrypt == Crypto("create")
cryptoDecrypt == Crypto("read")
cryptoSign == Crypto("update")
cryptoVerify == Crypto("read")
cryptoDerive == Crypto("create")
cryptoRandom == Crypto("read")

Registered == {
    createNamespace, listNamespaces, createSecret, listSecrets, getSecret, putSecret,
    listVersions, softDeleteVersion, restoreVersion, destroyVersion, rollbackVersion,
    createLease, getLease, renewLease, revokeLease, createPolicy, listPolicies,
    getPolicy, deletePolicy, listAudit, verifyAudit, createRootCA,
    createIntermediateCA, listCAs, getCA, getCRL, getOCSP, issueCertificate,
    renewCertificate, revokeCertificate, listCertificates, getCertificate,
    cryptoEncrypt, cryptoDecrypt, cryptoSign, cryptoVerify, cryptoDerive, cryptoRandom}
==============================================================================
