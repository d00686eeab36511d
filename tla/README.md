# Specifications of the secrets and certificate management platform

TLA+ models of the server in this repository, the TLC configurations that
check them on small instances, and TLAPS proofs of what holds for instances
of any size. Paths below are relative to the repository.

Four components carry the state that concurrent requests fight over: the
hash-chained audit log, the versions of a secret, the leases with the loop that
expires them, and certificates with their revocation. None of them keeps state in
the process. Every service call is a sequence of PostgreSQL statements, mostly
without a transaction around them, and any number of handlers (of one server or
of several) interleave between any two statements. This is the level of their
models: **one action per database statement**, together with the Go code that
runs between it and the next one.

Around them stand the two gateways, which ask the policy service before they call
one of these services and record an audit event after it; the rate limiter, which
does keep state in the process, behind a mutex; and the life of the process itself,
whose shutdown has to leave the requests in progress something to work with. They
have modules of their own, in which a service call is one step.

## Inventory

| Component | State | Operations | Interacts with | What is hard | What makes it correct |
|---|---|---|---|---|---|
| Audit log (`internal/audit`) | table `audit_events`: a chain of HMACs ordered by a BIGSERIAL | Record, List, Verify | recorded by every handler after its operation | optimistic append with 3 attempts, advisory lock inside a transaction, bounded pool, lost commit acknowledgements, rolled back sequence numbers, time resolution | the chain is linear; an acknowledged event is there once; every Record returns; that Verify accepts what was recorded does not hold (finding 1) |
| Secret versions (`internal/secret`) | `namespaces`, `secrets` (with `current_version`), `secret_versions` | CreateNamespace, PutSecret, Get, SoftDelete, Restore, Destroy, Rollback | crypto service for values; leases refer to secrets | read, decide, write in separate statements; a version and `current_version` written apart; errors taken for "not found" | acknowledged values stay; versions have no gaps; current names a stored version; purge times follow states |
| Leases (`internal/lease`, `leaseExpiryLoop` in `cmd/server/main.go`) | table `leases` | Create, Renew, Revoke, ExpireDue every 30 s | secrets (must exist, dynamic), the ticker, the gauge | time passes between check and write; unguarded UPDATEs; a list of due leases that goes stale; a pass that ends at its first error | bounded lifetime; revocation is final and never dated ahead; a renewal stored in time is not undone; what is due ends |
| Metrics (`internal/platform/metrics`) | gauge `scp_active_leases`, counters | Inc, Dec from HTTP handlers | leases | moved beside the state it counts | the gauge equals the number of active leases |
| PKI (`internal/pki`) | `pki_cas`, `certificates`, `revocations` | create root and intermediate, issue, renew, revoke, CRL, OCSP | crypto backends | revoke is two statements and no transaction; CRL and OCSP read between them; CRL numbers are seconds | a CRL lists only what OCSP calls revoked; neither forgets a revocation; CAs form a forest |
| Policies (`internal/policy`) | table `policies` | Create, Get, List, Delete, Authorize | asked by every handler | delete by name finds the policy anew after the handler authorized it; paths, identities and conditions | a policy covers what lies below its prefix and nothing else; a deleted one grants nothing any more; another is deleted only in place of one that is gone |
| Rate limiter (`api/http/middleware.go`) | map from client to window start and count | Allow, sweep | first in the request path | window boundaries, sweep only beyond 10000 entries | at most two bursts within a second; nobody is turned away without one; old windows go |
| HTTP gateway (`api/http`) | none | routes | all services | authorize, operate and record are separate; errors of Record are dropped | what the decision names lies under the policy that grants it; the audit log tells of no deletion that has not happened |
| gRPC gateway (`api/grpc`) | none | methods | all services | as HTTP, but a denial is not audited, and some methods ask for no decision | as HTTP, for the methods that ask for a decision |
| Lifecycle (`cmd/server/main.go`) | goroutines, pool | start, signal, shutdown | servers, expiry loop, pool | order of shutdown; gRPC's graceful stop has no time limit | only a request that was given up on finds the pool closed; shutdown ends unless a gRPC call does not |
| Connection pool (`internal/platform/database`) | open connections | acquire, release | repositories | a bounded resource held while waiting for a lock | no deadlock |
| Crypto and key backends (`internal/crypto`, `internal/backend`) | keys read at start | Encrypt, Decrypt, Sign, HMAC | secrets, PKI, audit | none: stateless | |
| Migrations, configuration, CLI, logging | files, environment | | | none: sequential I/O | |

`PROJECT.json` gives the status of each component, the line every definition
comes from, and the list of hazards: the places in the code where something can
go wrong that a test would hardly reach, each with the properties that watch it.

## Modules

| Module | What it is |
|---|---|
| `AppendOnlyLog` | abstract specification: what the audit log promises its callers |
| `AuditChain` | Record, statement by statement; implements `AppendOnlyLog` |
| `AuditChainProofs` | theorems about `AuditChain` |
| `VersionedSecret` | abstract specification: what the secret service promises about versions |
| `SecretVersions` | every operation on one secret path that changes state; implements `VersionedSecret` |
| `SecretVersionsProofs` | theorems about `SecretVersions` |
| `Leases`, `LeasesProofs` | Create, Renew, Revoke and the expiry loop, against a clock; theorems |
| `LeaseGauge` | `Leases` with the metric the handlers keep beside it |
| `Pki`, `PkiProofs` | CAs, certificates, revocation, CRL and OCSP; theorems |
| `Paths`, `PathsProofs` | the four ways the code writes down and compares paths, and what a path means; theorems |
| `Policies` | the decision of Authorize over a set of policies |
| `Handlers`, `HttpHandlers`, `GrpcHandlers` | the kinds of handlers, and the 38 and 30 handlers of the gateways |
| `Gateway`, `GatewayProofs` | requests through both gateways, with policies that come and go; theorems |
| `RateLimiter`, `RateLimiterProofs` | the windows of the limiter; theorems |
| `Lifecycle`, `LifecycleProofs` | the process from start to shutdown, its servers, loop and pool; theorems |
| `MCAuditChain`, `MCSecretVersions`, `MCLeases`, `MCPki`, `MCGateway`, `MCRateLimiter` | the definitions TLC needs for its instances |

### AuditChain

State: `rows` is the committed part of `audit_events` in commit order, `nextSeq`
the BIGSERIAL behind `sequence`, `lockHolder` the transaction that holds
`pg_advisory_xact_lock(737373)`. For each call of Record: `pc` (the next
statement, or what the call returned), `attempt` (the loop counter), `prev` and
`createdAt` (the event as built), `seq` (what its INSERT returned).

| Action | Code |
|---|---|
| `ReadLastHash` | `repo.LastHash`, then the event is built and hashed (`service.go:28-47`) |
| `Begin`, `Lock` | `pool.Begin`, `pg_advisory_xact_lock` (`repository.go:24-32`) |
| `Compare`, `Conflict` | the second read of the last hash; `ErrChainConflict`, rollback, next attempt or giving up |
| `Insert` | `INSERT ... RETURNING sequence`: uses a number even if rolled back later |
| `Commit` | the commit takes effect; its acknowledgement may be lost |
| `Fail` | any statement fails, a context ends, a server dies: rollback, error |

A hash is represented by what it commits to: the sequence of entries
(call, time) up to it. This is HMAC-SHA256 taken as collision-free, and it makes
"the same hash" and "the same history" one thing. Of a timestamp, only the part
below a microsecond is kept: it goes into the hash (RFC3339Nano) and not into
the column (TIMESTAMPTZ). The order of `ListAll` is computed from sequence
numbers, not assumed to be commit order; that both agree is one of the lemmas.
The pool is a bound on open transactions; a single statement needs a free
connection within its step.

### SecretVersions

One path: paths share no row but that of their namespace. State: the three
tables (`namespace`, `type` and `current`, `versions`), `call` (for each request
slot the operation, its next statement, its arguments and what it has read), and
two history variables, `acks` (what Put returned) and `rolledBack`.
`Start` is a request arriving with validated arguments; `CheckNamespaceFree` and
`InsertNamespace` are CreateNamespace; the `Put...` actions are the statements
of PutSecret, with `PutGetSecretFails` for its habit of taking any error of
GetSecret for a missing secret; `ResolveCurrent`, `ResolveVersion` and then
`SoftDelete`, `Restore` or `Destroy` are the three operations that share
`resolveVersion`; the `Rollback...` actions are Rollback. `Abort` ends a call at
any statement. The UNIQUE constraints of the schema appear where they reject an
INSERT. Values stand for plaintext, ciphertext and digest together; `delete_after`
is kept as present or absent, since nothing in the program compares it with the
clock.

### Leases and LeaseGauge

State: `now`, the table `leases`, `call` as above, `ticker` (the one-element
channel of `time.Ticker`), `due` (what the current pass of ExpireDue has listed
and not revoked yet), and two history variables, `revokedByCall` and `renewedLate`
(the leases renewed when their time had come already, which the loop may have listed).
`Advance` lets
time pass between any two statements. `Renew` is `RenewGet`, `RenewCheck` and
`UpdateExpiry`; `Revoke` is `RevokeGet` and `RevokeUpdate`. Where the code reads
the clock a second time before it writes, the write takes any time between the
previous read and now. `ListDue` uses the time in the channel, which may be long
past when a pass took long; `RevokeDue` writes the expiry it has *listed*, as
the code does. `LoopFails` ends a pass at an error, or stands for a restart,
which also empties the channel. `Second` units of time make one second, because
`ttl_seconds` drops what is below a second and Renew falls back to it.
`LeaseGauge` conjoins the gauge to the actions whose handlers move it.

### Pki

State: the three tables (`cas` maps a CA to its parent, `certs` a serial to its CA
and revocation reason, `revocations` is a set of rows), `call` as above, and three
history variables: `torn` (revocations whose INSERT never came), `recorded`
(serials acknowledged as revoked, or on a CRL that was delivered) and `told`
(serials OCSP has called revoked). `GetCA` then `InsertCA` is CreateIntermediate,
`InsertCA` alone CreateRoot; `GetCA`, `InsertCertificate` is Issue; `RenewGet`,
`InsertCertificate` is Renew; `RevokeGet`, `RevokeCertificate`, `CreateRevocation`
is Revoke, with its two writes apart. A CRL is read by `ListRevocations` and
delivered by `Reply`, an OCSP answer is made by `OcspGet` (or `OcspGetFails`, where
an error leaves the status at good) and delivered by `Reply`; both keep in `known`
what had been said of revoked certificates when they were asked. The reason of a
revocation stands for its time, too: both are written together. Keys, names and
validity times are left out, since no statement depends on them, and so is the
CRL number, of which nothing can be said (see the hazards).

### Gateway, with Paths, Policies and Handlers

All 68 handlers have one of a few shapes: read an object or not, ask the policy
service, call a service, record. `Handlers` names the shapes; `HttpHandlers` and
`GrpcHandlers` say which one each handler has, with the capability it asks for and
where the path it decides on comes from. They differ in more places than one would
think: some gRPC methods ask for no decision, and only HTTP records a denial.

State: `policies` is the table, `call` a request slot per client. Three variables are
history: `used` (the ids ever inserted), `deleted` (the policies a client was told are
gone) and `audited` (the policies whose deletion an audit event tells of).

| Action | Code |
|---|---|
| `Start` | an authenticated request reaches its handler |
| `ReadObject`, `ReadPolicy` | the handler reads the lease, CA, certificate or policy whose namespace it decides on |
| `Allow`, `Deny` | `Service.Authorize` over the rows of that moment; a denial is recorded over HTTP |
| `Operate` | the service call, one step; the secret service normalizes the path in its own way, and what the PKI looks up besides may lie in any namespace |
| `CheckName`, `NameTaken`, `InsertPolicy`, `InsertUnacknowledged` | `policy.Service.Create`: a lookup, then the INSERT and its UNIQUE; it may take effect although the call fails |
| `FindPolicy`, `DeletePolicy`, `DeleteUnacknowledged` | `policy.Service.Delete`: it finds the policy anew by its name, then deletes it by its id |
| `Record`, `RecordFails` | the audit event, whose error is ignored; of a deletion it names the policy that was read |
| `Abort` | anything else fails, and nothing is recorded |

Paths are sequences of characters of which only the slash means anything. `clean`
is the way each gateway takes a path; the secret service has a third. `NumberedNames`
says what a path means: the names between its slashes, each with its number. Slashes
at either end separate nothing; between two slashes inside a path is an empty name,
since everybody keeps those. `IsUnder` compares paths by these names and is the
reference the prefix test of the code, `pathInherits`, is held against. A condition
is the set of values it accepts. Leases, CAs and certificates are
never deleted and keep their namespace, so reading one is a choice of its namespace
and path.

A decision covers the one object it names. Two operations of the PKI reach a second
one by a name or a serial number alone: CreateIntermediate signs with the key of a
parent CA, and OCSP reads the status of a certificate, of whatever namespace. `also`
says so of these handlers (`Besides`), and a call keeps the namespace of the object
that was looked up. The other operations reach further objects only from the one
decided on, whose namespace they share. Serial numbers are random and taken as distinct.

### RateLimiter

State: `now`, the map `windows` as in the code, and two histories: `recent` counts,
per client, what was let through in this and the last few ticks (less than a second
of them), `lastAllowed` is when the last request was let through. `Allow` holds its
mutex throughout, so a request is one step: `AllowTrue` or `AllowFalse`. The
configured rate only enters the burst, when that is not configured; nothing else in
the code uses it, so a client that sends steadily gets a burst per second. The clock
is Go's monotonic one.

### Lifecycle

State: `main` (the statement `main` is at), `signalled`, `server` (the two goroutines
in Serve), `pool`, `cancelled` (the loop's context), and `user`: for each request and
for the loop whether it runs and whether it holds a connection. `timedOut` and
`refused` are history. The actions from `LoadConfig` to `Listen` are the start, any of
which can fail and exit without running what is deferred; `Leave` is the `select`,
`Shutdown` and `GracefulStop` the two that stop the servers, and `GracefulStop`'s
return and `PoolClosed` the deferred calls. What net/http, grpc and pgxpool do is
taken from their documentation and marked external. A request begins while its server
serves and is not being stopped, and runs any number of statements (`Acquire`,
`Release`), for each of which it needs one of the connections.

## Runs

| Run | Instance | States | Shows |
|---|---|---|---|
| `audit` | 4 calls, 3 attempts, 2 connections, fairness | 301,107 | every property below, including refinement and termination |
| `audit_verify` | 3 calls, clock with nanoseconds | | `VerifyValid` violated (finding 1) |
| `secrets` | 2 request slots, 2 values, 2 types, 3 versions, symmetry | 3.45 M | the safety properties below |
| `secret_destroyed` | 1 slot, no failures | | `DestroyedForever` violated (finding 2) |
| `secret_update` | 1 slot, no failures | | `UpdateNotBlocked` violated (finding 3) |
| `leases` | 2 slots, 1 lease, TTLs 0, 1/2 s and above the maximum of 1 s, clock to 1.5 s, 1 loop failure, fairness | 1.27 M | the properties below, including liveness |
| `pki` | 2 slots, 2 CAs, 2 certificates, 1 reason, symmetry | 1.27 M | the properties below but `ReasonRecorded` |
| `pki_reasons` | 2 slots, 1 CA, 2 certificates, 2 reasons, symmetry | 3.16 M | `ReasonRecorded` |
| `lease_gauge` | 1 slot, 1 lease, no failures | | `GaugeCountsActive` violated (finding 4) |
| `gateway` | 2 slots, 2 namespaces, 3 paths, 3 inputs, 1 name, 2 policy ids, symmetry | 6.07 M | the properties below |
| `limiter` | 3 clients, 3 ticks to a second and 4 to a minute, burst 2, 1 window kept unswept, clock to 12, symmetry | 33,160 | the properties below |
| `lifecycle` | 2 HTTP requests, 1 gRPC call, the loop, 2 connections, fairness | 1,551 | the properties below, including liveness |

Properties of `audit`:

- `ChainLinked`: in sequence order every event names the hash of the one before
  it. The advisory lock and the second read keep two Records from appending to
  the same row.
- `AckedIsStored`: an acknowledged event is stored, once, under the number returned.
- `ExhaustedByContention`: Record gives up only after as many events of others
  were stored as it made attempts.
- `RefinesLog`: `AuditChain` implements `AppendOnlyLog`. With the log read in
  sequence order, this is where an event appearing *before* one already listed
  would show.
- `EveryRecordReturns` (liveness): no call waits for ever for the lock or for a
  connection of a pool smaller than the load.

Verify makes a second check, that every hash is found again from the columns. It is
part of `VerifyValid`, which does not hold and is the property of `audit_verify`.

Properties of `secrets`: `NamespaceBeforeSecret`, `CurrentExists`,
`AckedValueStored` (no two Puts are told they wrote the same version with
different values), `DeadlineIffDeleted`, and the action property
`MonotoneWithoutRollback` (before any rollback the current version never goes
back, although Put sets it in a late and unconditional statement; after one, it
can, which is why the property stops there). `RefinesVersionedSecret`: seen through
the values of the stored versions, `current_version` and the acknowledgements,
every statement stores the next version, selects a stored one, or changes nothing.
So numbers have no gaps, no value is ever replaced, and readers never get a
version that is not there.

Properties of `leases`: `ExpiryWithinMaxTTL`, `RevocationNotInFuture`,
`EarlyRevocationOnlyByCall` (the loop, working from a stale list, ends no lease before
its time and undoes no renewal that was stored before the lease's time; one that was
stored when the time had come, it can undo), `RevokedForever` (action property:
a Renew that writes after a Revoke does not bring the lease back), and
`DueIsRevoked` (liveness: a due lease is revoked in the end, unless a Renew
under way extends it, whatever pass of the loop fails).

Properties of `pki` and `pki_reasons`: `ChainsToRoot` (racing creations never close
a cycle of parents), `ListedIsRevoked` (what a CRL lists, OCSP calls revoked: the
status is written before the row), `CrlComplete` (a certificate whose revocation was
acknowledged, or that was on a delivered CRL, is on every CRL asked for later),
`OcspNeverForgets` (it is never called good again, nor is one that OCSP called
revoked, except when the lookup fails), and `ReasonRecorded` (the reason and time
a revoked certificate shows are those of one of its revocations, however Revoke
calls overlap, unless that call ended between its statements). The converse of
`ListedIsRevoked` does not hold: a Revoke that ends between its two statements
leaves a certificate that OCSP calls revoked and no CRL lists until it is revoked
again.

Properties of `gateway`:

- `ActedWithinGrant`: what a request touches lies where the policy it was let
  through by grants something, though gateway and service write a path in different
  ways, and though Delete finds its policy a second time. The code makes three
  exceptions, which the property names: the parent CA a new CA is signed by and the
  certificate an OCSP response is about, which may lie in any namespace; and a policy
  that Delete takes in place of the one decided on.
- `DeletesAnotherOnlyIfGone`: Delete takes such another policy only if the one decided
  on was deleted and its name given away in between. While that one is there, no race
  of creations and deletions leads to another; UNIQUE is what prevents it, since
  Create takes any error of its lookup for a free name.
- `DeletedGrantsNothing`: once a client was told that a policy is deleted, no
  request that starts later is let through by it, however deletions, creations of
  the same name and decisions race. A request decided before goes on: decision
  and operation are not one transaction.
- `AuditedAreGone`: the audit log tells of no deletion that has not happened. The
  event names the policy that the handler read, Delete may have removed another, and
  an error may come after either.
- `InheritsBySegments`: the prefix of a stored policy covers nothing that lies
  elsewhere in the tree of names, whichever gateway wrote it and whichever asks;
  where both are HTTP it covers everything below. The gateways disagree only on
  runs of slashes in front, which gRPC keeps: a policy with such a prefix grants
  less over the other.

Properties of `limiter`: `TwiceBurst` (windows are fixed to a client's first
request, so a burst at the end of one and another at the start of the next fall
within a second; never a third, also when a window is swept away), `DeniedForBurst`
(a client is only turned away for its own burst of the last second) and `MapBounded`
(beyond its limit the map holds only windows not older than a minute when a request
was last let through: requests that are turned away never sweep).

Properties of `lifecycle`: `GrpcNotCut` (no gRPC call and no pass of the loop ever
finds the pool closed, wherever the signal, a failing listener or a goroutine that
comes late to its Serve falls), `HttpCutOnlyAfterTimeout` (an HTTP request only does
when `Shutdown` gave up on it, and then it may have done its work without recording
it) and `ShutdownCompletes` (liveness: after a signal the process ends, also with an
HTTP request that never does, unless a gRPC call never does: `GracefulStop` has no
time limit, and no second signal helps).

### Bounds, and why they are enough

- *Audit*: exhausting three attempts takes three commits of other calls, hence
  four calls. Two connections for four calls make both the pool and the lock
  contended. The theorems lift all of it to any number of calls, attempts and
  connections; liveness stays with these bounds.
- *Secrets*: every race in the code is between two calls, one deciding on what
  the other changes; a slot is reused, so histories have any length. Three
  versions allow a rollback past one version and a Put after it. `MaxVersion`
  stops a Put that would go further. Clients, values and types are
  interchangeable and no liveness is checked, so symmetry is sound. The theorems
  need no bound on clients, values or versions.
- *Leases*: operations on different leases touch different rows, and they meet
  only in the loop, where the failure of one leaves another for a later pass;
  with one lease that is a failed pass and a retry. `MaxNow` of 3 units lets a
  lease of 1 or 2 units be created, expire, be listed and be renewed late.
  `MaxFailures` bounds the failures of the loop, as liveness needs: a loop that
  fails for ever revokes nothing.

- *Pki*: two slots give every pair of overlapping calls. A second certificate lets
  Renew add one to a CA whose first is being revoked, a second CA gives CRLs
  something to leave out and hierarchies something to close a cycle with. Two
  reasons tell overlapping revocations apart; they are checked with one CA, as
  the reason does not depend on it. `Serials` bounds the certificates ever issued.

- *Gateway*: two slots give every pair of a decision and a change of the policies it
  rests on, and of two deletions or creations; two ids of one name let a policy be
  deleted and created anew, and a slot used again sees what was deleted before. The
  paths are one that both gateways take alike, one that they keep apart and one that
  begins with the letters of the first without being below it. Of the inputs, one
  is for a subtree, one for a single caller under a condition, and one asks for a
  capability that does not exist. Clients, namespaces and ids are interchangeable, and
  only safety is checked. The theorems need none of these bounds.
- *Limiter*: twelve ticks are four windows and three sweeps; three clients are more
  than the map keeps unswept, so that one's request sweeps away another's window
  and not the third's. The theorems need none of these.
- *Lifecycle*: two HTTP requests and a gRPC call with the loop compete for fewer
  connections than there are users, and one of two requests can be left behind
  while the other is done. The theorems need no bound.

### Fairness

- `AuditChain`: weak fairness of `Step(c)` for each call. A goroutine that can
  run does, and both the lock manager and the pool queue their waiters first
  come first served. A call waiting for the lock is not *continuously* able to
  take it, but every call makes at most `MaxAttempts` attempts, so others do
  not keep it from it for ever, and weak fairness is enough. No failure is ever
  required to happen.
- `Leases`: weak fairness of `Tick`, `ListDue` and `RevokeDue`: the ticker and the
  loop goroutine run as long as the server does. Clients and the clock owe
  nothing.
- `Lifecycle`: weak fairness of what main does, its timer included, and of the end of
  each statement: PostgreSQL answers, or the connection fails. Nothing is assumed of
  what requests do between their statements, of those who make them, nor of servers:
  `Shutdown` ends by its time limit. For gRPC the code has none, so the property
  says "unless a gRPC call never ends" instead of an assumption that it does.
- The other runs check safety only and assume none.

Deadlock is checked in every run but `lifecycle`, in which the process ends. In
`AuditChain` the state in which all calls have returned stutters (`Finished`).

## Theorems

All constants are arbitrary under the ASSUMEs of the modules: sets of calls,
clients, values and types of any size, `MaxAttempts`, `MaxConns` and
`MaxVersion` positive, paths any sequences over any set of characters that has the
slash.

**AuditChainProofs.** The argument has two layers. `OrderInv` says that the lock
is held by exactly the transaction between its lock statement and its end, that
committed sequence numbers increase, and that a number that was taken and is not
committed yet is larger than all committed ones. It follows that commit order is
sequence order, so `TailHash` is the hash of the last row and `ListAll` is `rows`
(`TailIsLast`, `ListIsRows`). `ChainInv` adds that, between comparison and commit,
the row the event was built on is still the last; that each row is built on the
one before it; that a call has at most one row, and none before it commits; and,
for the retries, that the chain was at least `attempt - 1` events long when it
was last read. `ChainLinked` alone is not inductive: it says nothing of the
transaction about to insert, nor of the order in which numbers are committed.

- `TypeCorrect`, `OrderCorrect`, `ChainCorrect`: the invariants.
- `ChainNeverForks`, `AcknowledgedStored`, `GivesUpByContention`: `ChainLinked`,
  `AckedIsStored`, `ExhaustedByContention`.
- `ImplementsAppendOnlyLog`: `RefinesLog`. A `Commit` is an `Add`, a failure or
  giving up is a `Refuse`, everything else stutters.

**SecretVersionsProofs.** No lock and no transaction joins the statements of a
call, so what a call relies on when it writes must be something no other call
can take away. `SecretInv` states it for each call in flight (`CallOK`): the
predecessor of the version it will insert is stored; the version it will make
current is stored, with its value; its namespace exists. These hold because
versions are only ever added and keep their value. With that the tables stay
consistent (`TablesOK`).

- `SecretCorrect`, `SecretTypeCorrect`: the invariant and the types.
- `SecretInNamespace`, `CurrentIsStored`, `AcknowledgedValueStored`,
  `PurgeTimeIffDeleted`: the four invariants of the run.
- `ImplementsVersionedSecret`: `RefinesVersionedSecret`. The INSERT of a version is
  a `Store` (`AddedIsStored`): `CallOK` says that its predecessor is stored, and
  that there is a current version by then unless this is the first. The UPDATE of
  `current_version` is a `Select`, by Put as by Rollback (`SetIsSelected`).
- `MonotoneUntilRollback`: `MonotoneWithoutRollback`, from a second invariant,
  `NoRollbackInv`: without a rollback no stored version is more than one ahead
  of `current_version`, and a Put between its two statements is the one that is.

**LeasesProofs.** The UPDATEs have no guard, so what makes them right is what a
call or the loop read before. `LeasesInv` states what is left of it by the time of
the write: a lease about to be extended is renewable (which never changes), a
listed lease that was not renewed late still has the expiry that was listed, the
times to be written are of the past or within `MaxTTL` of now, and a lease about to be
inserted shares its id with nothing. From the last one it follows that no INSERT
brings a revoked lease back.

- `LeasesCorrect`, `LeasesTypeCorrect`: the invariant and the types; the latter
  needs that dropping what is below a second keeps the order (`DivMonotone`).
- `NeverBeyondMaxTTL`, `RevokedInThePast`, `LoopNeverEarly`, `NeverUnrevoked`: the
  three invariants and the action property of the run.

**PkiProofs.** `PkiInv` adds to the properties of the tables what each call holds
(`CallOK`): a parent that is stored, a certificate that is revoked once its
revocation is about to be inserted, and, for a CRL or an OCSP answer under way, that
it agrees with all that had been said when it was asked for. Others only add rows,
never change a certificate's CA and never take a revocation back (`CallKeeps`), so
all of it survives what they write. `ChainsToRoot` is about every group of CAs at
once and carries itself: a new name is in no group but its own, and its parent is
older.

- `PkiCorrect`, `PkiTypeCorrect`: the invariant and the types.
- `CAsFormAForest`, `ListedMeansRevoked`, `ReasonsAreRecorded`, `CrlForgetsNothing`,
  `OcspForgetsNothing`: the five invariants of the runs.

**RateLimiterProofs.** `TwiceBurst` is not inductive, since nothing in it says how
much of a client's recent requests the open window has counted. `CountOK` does: what
came since the window began is its count, what came before is at most a burst,
and with no open window all of it is. A sweep only takes windows that are over,
because a minute is at least a second, which is the assumption that matters.

- `LimiterCorrect`, `LimiterTypeCorrect`: the invariant and the types; the burst is
  positive whatever is configured (`BurstPositive`).
- `AtMostTwoBursts`, `DeniedOnlyForBurst`, `MapStaysBounded`: the three invariants.

**LifecycleProofs.** `PoolFollowsMain` says where main has to be for the pool to be
closed, and that the loop was told to stop before; `Drained` that what was waited for
is idle and stays so, since nothing begins on a server that is being stopped.

- `LifecycleCorrect`, `LifecycleTypeCorrect`: the invariant and the types, including
  the count of connections.
- `GrpcNeverCut`, `HttpCutAfterTimeout`: the two other invariants of the run.

**GatewayProofs.** That a deleted policy grants nothing rests on two things that hold
together: ids are never used twice, and the policy the handler read is gone once
Delete has removed the one it found. The second is `TargetOK`: as long as the policy that
was read is in the table it has the name and the namespace it was read with, so
a lookup by name that finds another one, names being unique, finds the first one
gone (`TableOK`). `DecidedOn` carries what a decision rests on to the step that is
recorded: the namespace of the policy, and that the path lies below its prefix. That
it does so when the decision is made, and still when the secret service has written
the path anew, is what `PathsProofs` contributes. For the events, the invariant says
that the policy a call is about to record as deleted is among `deleted`, none of which
is in the table.

- `GatewayCorrect`, `GatewayTypeCorrect`: the invariant and the types, over the
  handlers of both gateways (`HandlerShapes`).
- `DeletedNeverGrants`, `NeverDeletesAnother`, `AuditTellsNoLie`: the invariants about
  deletions, for any number of requests, names and ids.
- `AlwaysActedWithinGrant`, `InheritsAlwaysBySegments`: the two about paths, for raw
  paths and prefixes of any length over any characters.

**PathsProofs.** About strings alone, no state. The middle notion is `Covers`: one
string is the beginning of another and ends there or before a slash. `pathInherits`
is that, once a slash is taken off the ends (`InheritsIsCovers`). Whoever writes a path
down moves its letters by a fixed distance and leaves what is left after trimming
(`SameLettersTrimSame`, `CleanKeepsNames`), and trimming keeps `Covers`. It
remains that a string covers another just when its names are names of the other
under the same numbers. In one direction both strings have the same starts up to
the end of the first (`CoveredNames`). In the other (`NamesCover`) take the first
place where the strings differ: the name it belongs to starts, with the same number,
in both strings, since different starts have different numbers (`NumbersDiffer`) and
a string that ends before has no start with that number (`TooShort`); so the name is
the same in both, and there is no such place. The first place exists because a set of
natural numbers has a least element (`LeastNumber`), which follows from the
well-foundedness of `<` and takes the place of induction.

- `InheritingIsBelow`: what `pathInherits` lets through lies below the prefix,
  whatever two strings it is given.
- `BelowInherits`: what lies below a prefix is let through, where both were
  written down by the HTTP gateway. It does not hold for gRPC, see above.

**Only model-checked.** The liveness properties (`EveryRecordReturns`,
`DueIsRevoked`, `ShutdownCompletes`), since liveness under fairness and ENABLED are
beyond the prover. No module declares a RECURSIVE operator; where a proof needs
induction over the places of a string it takes the least counterexample instead.

## Findings

1. **Verification of the audit log** (`audit_verify`). The hash covers `created_at`
   with nanoseconds (`internal/audit/application/service.go:93`), the column keeps
   microseconds, and Verify hashes what it reads back. One event recorded at a
   time with a sub-microsecond part makes Verify report a mismatch, where
   `README.md:163` expects `"valid":true`.
2. **Destroyed versions come back** (`secret_destroyed`). `cmd/cli/main.go:176` says
   "Permanently destroy a version"; RestoreVersion sets any version active.
3. **A rollback blocks updates** (`secret_update`). PutSecret takes
   `CurrentVersion + 1`, which is in use after a rollback, and UNIQUE rejects it
   every time, where `cmd/cli/main.go:94` says "Create or update a secret".
4. **The lease gauge drifts** (`lease_gauge`). It is "Current active dynamic secret
   leases." (`internal/platform/metrics/metrics.go:39`), but the expiry loop does not
   move it and a repeated Revoke moves it twice.

## Not modelled

- Cryptography (its results are taken as collision-free values), configuration,
  logging, migrations, the command line client, routing and encoding: stateless,
  or sequential I/O at start-up. The other middleware of the REST gateway (request
  ids, logging, recovery from panics) keeps no state. net/http, grpc and pgxpool are
  taken as documented.
- Read-only operations of the modelled services, except where a property is about
  what they return (`ListAll`, Verify, LastHash, CRL, OCSP).
- *Gateway*: white space around names and paths, which the code trims; the HTTP
  method, one more key of the context of conditions. ServeMux redirects URLs with
  "//", so some of the raw paths reach an HTTP handler only in a body or a query. The services behind a decision
  are one step here; their own interleavings are in their own modules. The
  events of deletions are the only ones whose content is modelled. That an operation
  can be left without its event, since the error of Record is ignored, is in the model
  (`RecordFails`), and no property bounds what is lost.
- *RateLimiter*: that a remote address carries its port, so that two connections of
  one client may be two addresses; the model takes any addresses.
- *Lifecycle*: TLS settings, values that change no order; requests that a listener
  has accepted and not handed to a handler.

## Plan

1. A refinement that joins `Gateway` with `AuditChain`: `Record` as an `Add` of
   `AppendOnlyLog`, which `AuditChain` implements.
