----------------------------- MODULE AuditChain ------------------------------
(***************************************************************************)
(* The tamper-evident audit log: audit/application.Service.Record run by   *)
(* any number of request handlers, over the audit_events table.            *)
(*                                                                         *)
(* A call reads the last hash, builds and hashes its event, and appends it *)
(* in a transaction that takes an advisory lock, compares the last hash    *)
(* again, inserts and commits.  A moved chain is a conflict, and the call  *)
(* starts over, at most MaxAttempts times.  Each database statement is an  *)
(* action, so calls interleave between any two of them; nothing of a call  *)
(* is kept in the process, so the calls may belong to several servers.     *)
(*                                                                         *)
(* A hash is represented by what it commits to.  HMAC-SHA256 of            *)
(*     previous_hash | actor | ... | created_at | metadata                 *)
(* is assumed collision-free, so it stands for the previous hash followed  *)
(* by one more entry: a sequence of entries, the empty one for "genesis".  *)
(*                                                                         *)
(* Of a timestamp only the part below a microsecond is kept: it is what    *)
(* RFC3339Nano prints into the hash and TIMESTAMPTZ does not store.        *)
(***************************************************************************)
EXTENDS Naturals, Sequences, FiniteSets

CONSTANTS
    Calls,           \* the Record calls that are ever made
    NoCall,          \* "nobody", for the advisory lock
    MaxAttempts,     \* attempts of one call: 3 in the code
    MaxConns,        \* size of the connection pool
    Nanos            \* the sub-microsecond parts the clock can show

ASSUME ConstantsAssumption ==
    /\ NoCall \notin Calls
    /\ MaxAttempts \in Nat \ {0}
    /\ MaxConns \in Nat \ {0}
    /\ Nanos \subseteq Nat

VARIABLES
    rows,            \* committed rows of audit_events, in commit order
    nextSeq,         \* next value of the BIGSERIAL behind "sequence"
    lockHolder,      \* transaction that holds pg_advisory_xact_lock(737373)
    pc,              \* next statement of each call, or what it returned
    attempt,         \* the loop counter of Record, from 1
    prev,            \* event.PreviousHash of each call
    createdAt,       \* event.CreatedAt of each call
    seq              \* the sequence the call's INSERT returned, 0 before

vars == <<rows, nextSeq, lockHolder, pc, attempt, prev, createdAt, seq>>

-----------------------------------------------------------------------------
Entry == Calls \X Nat
Genesis == << >>

(* Service.hash: the content of an event is its call.                      *)
Digest(previous, call, at) == Append(previous, <<call, at>>)

(* The column type of created_at rounds a timestamp down to microseconds.  *)
Stored(at) == 0

Row == [seq : Nat, call : Calls, prev : Seq(Entry), hash : Seq(Entry), at : Nat]

(* SELECT event_hash ... ORDER BY sequence DESC LIMIT 1, or 'genesis'.     *)
TailHash ==
    IF rows = << >> THEN Genesis
    ELSE rows[CHOOSE i \in DOMAIN rows :
                 \A j \in DOMAIN rows : rows[j].seq <= rows[i].seq].hash

(* SELECT ... FROM audit_events ORDER BY sequence ASC.                     *)
ListAll ==
    [i \in DOMAIN rows |->
        rows[CHOOSE k \in DOMAIN rows :
                Cardinality({j \in DOMAIN rows : rows[j].seq < rows[k].seq}) = i - 1]]

-----------------------------------------------------------------------------
Returned == {"ok", "exhausted", "error"}
InTransaction == {"lock", "compare", "insert", "commit"}

(* Connections in use: a statement outside a transaction takes and returns *)
(* its connection within the one step.                                     *)
FreeConn == Cardinality({c \in Calls : pc[c] \in InTransaction}) < MaxConns

(* The loop of Record: another attempt is left.                            *)
AttemptLeftOffByOne(c) == attempt[c] <= MaxAttempts
AttemptLeft(c) == attempt[c] < MaxAttempts

(* Every attempt starts again at LastHash.                                 *)
RetryWithoutReread == "begin"
Retry == "read"

(* The end of a transaction, committed or rolled back, frees the lock.     *)
ReleaseForgotten(c) == lockHolder
Release(c) == IF lockHolder = c THEN NoCall ELSE lockHolder

(* pg_advisory_xact_lock makes its caller wait while another holds it.     *)
LockFreeAlways == TRUE
LockFree == lockHolder = NoCall

(* The last hash is still the one the event was built on.                  *)
HeadUnmoved(c) == TailHash = prev[c]

Init ==
    /\ rows = << >>
    /\ nextSeq = 1
    /\ lockHolder = NoCall
    /\ pc = [c \in Calls |-> "read"]
    /\ attempt = [c \in Calls |-> 1]
    /\ prev = [c \in Calls |-> Genesis]
    /\ createdAt = [c \in Calls |-> 0]
    /\ seq = [c \in Calls |-> 0]

(* repo.LastHash, then the event is built and hashed.                      *)
ReadLastHash(c) ==
    /\ pc[c] = "read"
    /\ FreeConn
    /\ prev' = [prev EXCEPT ![c] = TailHash]
    /\ \E n \in Nanos : createdAt' = [createdAt EXCEPT ![c] = n]
    /\ pc' = [pc EXCEPT ![c] = "begin"]
    /\ UNCHANGED <<rows, nextSeq, lockHolder, attempt, seq>>

(* pool.Begin waits for a free connection.                                 *)
Begin(c) ==
    /\ pc[c] = "begin"
    /\ FreeConn
    /\ pc' = [pc EXCEPT ![c] = "lock"]
    /\ UNCHANGED <<rows, nextSeq, lockHolder, attempt, prev, createdAt, seq>>

Lock(c) ==
    /\ pc[c] = "lock"
    /\ LockFree
    /\ lockHolder' = c
    /\ pc' = [pc EXCEPT ![c] = "compare"]
    /\ UNCHANGED <<rows, nextSeq, attempt, prev, createdAt, seq>>

(* The second read of the last hash finds it unmoved.                      *)
Compare(c) ==
    /\ pc[c] = "compare"
    /\ HeadUnmoved(c)
    /\ pc' = [pc EXCEPT ![c] = "insert"]
    /\ UNCHANGED <<rows, nextSeq, lockHolder, attempt, prev, createdAt, seq>>

(* ErrChainConflict: the transaction is rolled back and Record tries again *)
(* or, after its last attempt, gives up.                                   *)
Conflict(c) ==
    /\ pc[c] = "compare"
    /\ ~ HeadUnmoved(c)
    /\ lockHolder' = Release(c)
    /\ \/ /\ AttemptLeft(c)
          /\ attempt' = [attempt EXCEPT ![c] = @ + 1]
          /\ pc' = [pc EXCEPT ![c] = Retry]
       \/ /\ ~ AttemptLeft(c)
          /\ pc' = [pc EXCEPT ![c] = "exhausted"]
          /\ UNCHANGED attempt
    /\ UNCHANGED <<rows, nextSeq, prev, createdAt, seq>>

(* INSERT ... RETURNING sequence uses up a value of the BIGSERIAL even if  *)
(* the transaction is rolled back later.                                   *)
Insert(c) ==
    /\ pc[c] = "insert"
    /\ seq' = [seq EXCEPT ![c] = nextSeq]
    /\ nextSeq' = nextSeq + 1
    /\ pc' = [pc EXCEPT ![c] = "commit"]
    /\ UNCHANGED <<rows, lockHolder, attempt, prev, createdAt>>

NewRow(c) == [seq  |-> seq[c],
              call |-> c,
              prev |-> prev[c],
              hash |-> Digest(prev[c], c, createdAt[c]),
              at   |-> Stored(createdAt[c])]

(* tx.Commit takes effect.  Record returns the event, or an error when the *)
(* acknowledgement of the commit is lost.                                  *)
CommitRetried(c) ==
    /\ pc[c] = "commit"
    /\ rows' = Append(rows, NewRow(c))
    /\ lockHolder' = Release(c)
    /\ \E reply \in {"ok", "read"} : pc' = [pc EXCEPT ![c] = reply]
    /\ UNCHANGED <<nextSeq, attempt, prev, createdAt, seq>>
Commit(c) ==
    /\ pc[c] = "commit"
    /\ rows' = Append(rows, NewRow(c))
    /\ lockHolder' = Release(c)
    /\ \E reply \in {"ok", "error"} : pc' = [pc EXCEPT ![c] = reply]
    /\ UNCHANGED <<nextSeq, attempt, prev, createdAt, seq>>

(* Any statement may fail, a context may end, a server may die: the call   *)
(* ends with an error and an open transaction is rolled back.              *)
FailAtCommitIgnored(c) ==
    /\ pc[c] \notin Returned
    /\ pc' = [pc EXCEPT ![c] = IF pc[c] = "commit" THEN "ok" ELSE "error"]
    /\ lockHolder' = Release(c)
    /\ UNCHANGED <<rows, nextSeq, attempt, prev, createdAt, seq>>
Fail(c) ==
    /\ pc[c] \notin Returned
    /\ pc' = [pc EXCEPT ![c] = "error"]
    /\ lockHolder' = Release(c)
    /\ UNCHANGED <<rows, nextSeq, attempt, prev, createdAt, seq>>

Step(c) ==
    \/ ReadLastHash(c) \/ Begin(c) \/ Lock(c)
    \/ Compare(c) \/ Conflict(c) \/ Insert(c) \/ Commit(c)

Next == \E c \in Calls : Step(c) \/ Fail(c)

(* All calls have returned.  TLC checks deadlock, so the end is a stutter. *)
Finished ==
    /\ \A c \in Calls : pc[c] \in Returned
    /\ UNCHANGED vars

(* A call that can take its next statement does: neither the Go scheduler  *)
(* nor the pool nor the lock manager, which are all first come first       *)
(* served, passes it over for ever.  A failure is never required.          *)
Spec == Init /\ [][Next \/ Finished]_vars
FairSpec == Spec /\ \A c \in Calls : WF_vars(Step(c))

-----------------------------------------------------------------------------
(* Every variable keeps its type; the attempts stay within the loop bound. *)
TypeOK ==
    /\ rows \in Seq(Row)
    /\ nextSeq \in Nat \ {0}
    /\ lockHolder \in Calls \cup {NoCall}
    /\ pc \in [Calls -> {"read", "begin"} \cup InTransaction \cup Returned]
    /\ attempt \in [Calls -> 1..MaxAttempts]
    /\ prev \in [Calls -> Seq(Entry)]
    /\ createdAt \in [Calls -> Nat]
    /\ seq \in [Calls -> Nat]

(* The first check of Service.Verify: in sequence order, every event names *)
(* the hash of the event before it.  The chain never forks, whatever the   *)
(* interleaving of Record calls and wherever they fail.                    *)
ChainLinked ==
    \A i \in DOMAIN ListAll :
        ListAll[i].prev = IF i = 1 THEN Genesis ELSE ListAll[i - 1].hash

(* The second check of Service.Verify: the hash computed again from the    *)
(* stored columns is the stored hash.                                      *)
HashesRecompute ==
    \A i \in DOMAIN rows :
        rows[i].hash = Digest(rows[i].prev, rows[i].call, rows[i].at)

(* GET /v1/audit/verify answers "valid":true whenever it is asked, as the  *)
(* last step of the README's verification sequence expects.                *)
VerifyValid == ChainLinked /\ HashesRecompute

(* Record that returned an event has stored that event, under the sequence *)
(* number it returned, and it is there exactly once.                       *)
AckedIsStored ==
    \A c \in Calls : pc[c] = "ok" =>
        \E i \in DOMAIN rows :
            /\ rows[i].call = c
            /\ rows[i].seq = seq[c]
            /\ \A j \in DOMAIN rows : rows[j].call = c => j = i

(* "failed to append audit event after retries" is only returned when, on  *)
(* each of the attempts, some other event got in first: as many events of  *)
(* other calls are stored as Record made attempts.                         *)
ExhaustedByContention ==
    \A c \in Calls : pc[c] = "exhausted" =>
        Cardinality({i \in DOMAIN rows : rows[i].call # c}) >= MaxAttempts

(* Every Record call returns: no call waits for ever for the advisory lock *)
(* or for one of the connections of a pool smaller than the load.          *)
EveryRecordReturns == \A c \in Calls : <>(pc[c] \in Returned)

(* AuditChain implements AppendOnlyLog, the log being what ListAll lists:  *)
(* no event is ever listed before one that was listed earlier, none is     *)
(* stored twice, and an acknowledged one is in the log.                    *)
Abstract == INSTANCE AppendOnlyLog WITH
    log     <- [i \in DOMAIN ListAll |-> ListAll[i].call],
    outcome <- [c \in Calls |-> CASE pc[c] = "ok" -> "ok"
                                  [] pc[c] \in {"exhausted", "error"} -> "error"
                                  [] OTHER -> "pending"]
RefinesLog == Abstract!Spec
==============================================================================
