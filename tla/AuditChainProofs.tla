--------------------------- MODULE AuditChainProofs ---------------------------
(***************************************************************************)
(* Theorems about AuditChain, for any set of calls, any number of attempts *)
(* and connections and any clock.                                          *)
(*                                                                         *)
(* OrderInv says what the advisory lock protects: only its holder is       *)
(* between the comparison and the commit, so sequence numbers are          *)
(* committed in the order they were handed out, and reading the table in   *)
(* the order of "sequence" is reading it in the order of the commits.      *)
(* ChainInv adds what that gives: the row about to be committed follows    *)
(* the last one.                                                           *)
(***************************************************************************)
EXTENDS AuditChain, TLAPS, FiniteSetTheorems, SequenceTheorems

Locked == {"compare", "insert", "commit"}

(* The lock is held by the one call between comparison and commit.         *)
LockHeld == \A c \in Calls : pc[c] \in Locked <=> lockHolder = c

(* Commit order is sequence order.                                         *)
Increasing == \A i, j \in DOMAIN rows : i < j => rows[i].seq < rows[j].seq

(* The BIGSERIAL is ahead of every row, committed or about to be.          *)
SeqUsed == \A i \in DOMAIN rows : rows[i].seq < nextSeq
SeqAhead ==
    \A c \in Calls : pc[c] = "commit" =>
        /\ seq[c] < nextSeq
        /\ \A i \in DOMAIN rows : rows[i].seq < seq[c]

OrderInv == TypeOK /\ LockHeld /\ Increasing /\ SeqUsed /\ SeqAhead

-----------------------------------------------------------------------------
(* The hash of the row committed last.                                     *)
LastHash == IF rows = << >> THEN Genesis ELSE rows[Len(rows)].hash

(* Every committed row has the fields of an event: what ListAll scans.     *)
LEMMA RowType ==
    ASSUME rows \in Seq(Row), NEW i \in DOMAIN rows
    PROVE  /\ rows[i].seq \in Nat
           /\ rows[i].call \in Calls
           /\ rows[i].prev \in Seq(Entry)
           /\ rows[i].hash \in Seq(Entry)
<1>1. rows[i] \in Row
  OBVIOUS
<1> QED
  BY <1>1 DEF Row

(* An interval from 1 to n has n elements.                                 *)
LEMMA IntervalCardinality ==
    ASSUME NEW n \in Nat
    PROVE  Cardinality(1..n) = n
<1>1. 1 \in Int /\ n \in Int
  OBVIOUS
<1>2. Cardinality(1..n) = IF 1 > n THEN 0 ELSE n - 1 + 1
  BY <1>1, FS_Interval, Zenon
<1> QED
  BY <1>2

(* While commit order is sequence order, ORDER BY sequence DESC LIMIT 1    *)
(* finds the row committed last.                                           *)
LEMMA TailIsLast ==
    ASSUME rows \in Seq(Row), Increasing
    PROVE  TailHash = LastHash /\ TailHash \in Seq(Entry)
<1>1. CASE rows = << >>
  BY <1>1 DEF TailHash, LastHash, Genesis
<1>2. CASE rows # << >>
  <2> DEFINE IsTail(i) == \A j \in DOMAIN rows : rows[j].seq <= rows[i].seq
  <2>1. Len(rows) \in DOMAIN rows /\ Len(rows) \in Nat /\ DOMAIN rows = 1..Len(rows)
    BY <1>2
  <2>2. \A i \in DOMAIN rows : rows[i].seq \in Nat /\ rows[i].hash \in Seq(Entry)
    BY RowType
  <2>3. IsTail(Len(rows))
    BY <2>1, <2>2 DEF Increasing
  <2>4. ASSUME NEW i \in DOMAIN rows, IsTail(i) PROVE i = Len(rows)
    BY <2>1, <2>2, <2>4 DEF Increasing
  <2>5. Len(rows) = CHOOSE i \in DOMAIN rows : IsTail(i)
    <3> HIDE DEF IsTail
    <3> QED
      BY <2>1, <2>3, <2>4
  <2>6. TailHash = rows[CHOOSE i \in DOMAIN rows : IsTail(i)].hash
    BY <1>2 DEF TailHash
  <2> HIDE DEF IsTail
  <2>7. TailHash = rows[Len(rows)].hash
    BY <2>5, <2>6
  <2> QED
    BY <1>2, <2>1, <2>2, <2>7 DEF LastHash
<1> QED
  BY <1>1, <1>2

(* While commit order is sequence order, ORDER BY sequence ASC lists the   *)
(* rows in the order they were committed.                                  *)
LEMMA ListIsRows ==
    ASSUME rows \in Seq(Row), Increasing
    PROVE  ListAll = rows
<1>1. \A i \in DOMAIN rows : rows[i].seq \in Nat
  BY RowType
<1>2. DOMAIN rows = 1..Len(rows) /\ Len(rows) \in Nat
  OBVIOUS
<1> DEFINE Before(k) == {j \in DOMAIN rows : rows[j].seq < rows[k].seq}
<1>3. ASSUME NEW k \in DOMAIN rows PROVE Cardinality(Before(k)) = k - 1
  <2>1. Before(k) = 1..(k - 1)
    BY <1>1, <1>2 DEF Increasing
  <2>2. k - 1 \in Nat
    BY <1>2
  <2>3. Cardinality(1..(k - 1)) = k - 1
    BY <2>2, IntervalCardinality
  <2> QED
    BY <2>1, <2>3
<1>4. ASSUME NEW i \in DOMAIN rows
      PROVE  i = CHOOSE k \in DOMAIN rows : Cardinality(Before(k)) = i - 1
  <2> HIDE DEF Before
  <2> QED
    BY <1>2, <1>3
<1> DEFINE Pick(i) == CHOOSE k \in DOMAIN rows : Cardinality(Before(k)) = i - 1
<1>5. ListAll = [i \in DOMAIN rows |-> rows[Pick(i)]]
  BY DEF ListAll
<1>6. \A i \in DOMAIN rows : Pick(i) = i
  BY <1>4
<1> HIDE DEF Pick
<1>7. ListAll = [i \in DOMAIN rows |-> rows[i]]
  BY <1>5, <1>6
<1> QED
  BY <1>7

(* Appending a row keeps the rows before it where they are.                *)
LEMMA AppendRow ==
    ASSUME NEW s \in Seq(Row), NEW r \in Row
    PROVE  /\ Append(s, r) \in Seq(Row)
           /\ Len(Append(s, r)) = Len(s) + 1
           /\ DOMAIN Append(s, r) = 1..(Len(s) + 1)
           /\ DOMAIN s = 1..Len(s)
           /\ Len(s) \in Nat
           /\ \A i \in DOMAIN s : Append(s, r)[i] = s[i]
           /\ Append(s, r)[Len(s) + 1] = r
           /\ Append(s, r) # << >>
OBVIOUS

(* The row an INSERT of the audit table writes is a row of the model.      *)
LEMMA NewRowType ==
    ASSUME TypeOK, NEW c \in Calls
    PROVE  NewRow(c) \in Row
BY DEF TypeOK, NewRow, Row, Digest, Entry, Stored

-----------------------------------------------------------------------------
(* An empty table, with the lock free, satisfies the invariant of the      *)
(* order.                                                                  *)
LEMMA OrderInit == Init => OrderInv
<1> SUFFICES ASSUME Init PROVE OrderInv
  OBVIOUS
<1>1. TypeOK
  BY ConstantsAssumption DEF Init, TypeOK, Genesis, InTransaction, Returned
<1>2. LockHeld
  BY ConstantsAssumption DEF Init, LockHeld, Locked
<1>3. Increasing /\ SeqUsed /\ SeqAhead
  BY DEF Init, Increasing, SeqUsed, SeqAhead
<1> QED
  BY <1>1, <1>2, <1>3 DEF OrderInv

(* Every statement of Record leaves every variable with its type.          *)
LEMMA TypeStep == OrderInv /\ [Next \/ Finished]_vars => TypeOK'
<1> SUFFICES ASSUME OrderInv, [Next \/ Finished]_vars
             PROVE  TypeOK'
  OBVIOUS
<1> TypeOK
  BY DEF OrderInv
<1> USE DEF TypeOK, InTransaction, Returned
<1>1. ASSUME NEW c \in Calls, ReadLastHash(c) PROVE TypeOK'
  <2>1. TailHash \in Seq(Entry)
    BY TailIsLast DEF OrderInv
  <2> QED
    BY <1>1, <2>1, ConstantsAssumption DEF ReadLastHash
<1>2. ASSUME NEW c \in Calls, Begin(c) \/ Lock(c) \/ Compare(c) PROVE TypeOK'
  BY <1>2 DEF Begin, Lock, Compare
<1>3. ASSUME NEW c \in Calls, Conflict(c) PROVE TypeOK'
  <2>1. attempt' \in [Calls -> 1..MaxAttempts]
    <3>1. CASE AttemptLeft(c) /\ attempt' = [attempt EXCEPT ![c] = @ + 1]
      BY <3>1, ConstantsAssumption DEF AttemptLeft
    <3>2. CASE UNCHANGED attempt
      BY <3>2
    <3> QED
      BY <1>3, <3>1, <3>2 DEF Conflict
  <2> QED
    BY <1>3, <2>1 DEF Conflict, Release, Retry
<1>4. ASSUME NEW c \in Calls, Insert(c) PROVE TypeOK'
  BY <1>4 DEF Insert
<1>5. ASSUME NEW c \in Calls, Commit(c) PROVE TypeOK'
  <2>1. rows' \in Seq(Row)
    BY <1>5, NewRowType, AppendRow DEF Commit
  <2> QED
    BY <1>5, <2>1 DEF Commit, Release
<1>6. ASSUME NEW c \in Calls, Fail(c) PROVE TypeOK'
  BY <1>6 DEF Fail, Release
<1>7. CASE UNCHANGED vars
  BY <1>7 DEF vars
<1> QED
  BY <1>1, <1>2, <1>3, <1>4, <1>5, <1>6, <1>7 DEF Next, Finished, Step

(* The advisory lock is held by exactly the transaction between its SELECT *)
(* pg_advisory_xact_lock and its end, whichever statement of Record runs.  *)
LEMMA LockStep == OrderInv /\ [Next \/ Finished]_vars => LockHeld'
<1> SUFFICES ASSUME OrderInv, [Next \/ Finished]_vars
             PROVE  LockHeld'
  OBVIOUS
<1>0. /\ pc \in [Calls -> {"read", "begin"} \cup InTransaction \cup Returned]
      /\ lockHolder \in Calls \cup {NoCall}
      /\ LockHeld
  BY DEF OrderInv, TypeOK
<1> USE <1>0, ConstantsAssumption DEF LockHeld, Locked
<1>1. ASSUME NEW c \in Calls, ReadLastHash(c) \/ Begin(c) PROVE LockHeld'
  BY <1>1 DEF ReadLastHash, Begin
<1>2. ASSUME NEW c \in Calls, Lock(c) PROVE LockHeld'
  BY <1>2 DEF Lock, LockFree
<1>3. ASSUME NEW c \in Calls, Compare(c) \/ Insert(c) PROVE LockHeld'
  BY <1>3 DEF Compare, Insert
<1>4. ASSUME NEW c \in Calls, Conflict(c) PROVE LockHeld'
  BY <1>4 DEF Conflict, Release, Retry
<1>5. ASSUME NEW c \in Calls, Commit(c) PROVE LockHeld'
  BY <1>5 DEF Commit, Release
<1>6. ASSUME NEW c \in Calls, Fail(c) PROVE LockHeld'
  BY <1>6 DEF Fail, Release
<1>7. CASE UNCHANGED vars
  BY <1>7 DEF vars
<1> QED
  BY <1>1, <1>2, <1>3, <1>4, <1>5, <1>6, <1>7 DEF Next, Finished, Step

(* Committed sequence numbers stay in increasing order: a number is taken  *)
(* and committed under the one lock, though a rollback may leave a gap.    *)
LEMMA SequenceStep ==
    OrderInv /\ [Next \/ Finished]_vars => Increasing' /\ SeqUsed' /\ SeqAhead'
<1> SUFFICES ASSUME OrderInv, [Next \/ Finished]_vars
             PROVE  Increasing' /\ SeqUsed' /\ SeqAhead'
  OBVIOUS
<1>0. /\ TypeOK /\ LockHeld /\ Increasing /\ SeqUsed /\ SeqAhead
      /\ pc \in [Calls -> {"read", "begin"} \cup InTransaction \cup Returned]
      /\ seq \in [Calls -> Nat]
      /\ nextSeq \in Nat
      /\ rows \in Seq(Row)
  BY DEF OrderInv, TypeOK
<1>1. \A i \in DOMAIN rows : rows[i].seq \in Nat
  BY <1>0, RowType
<1> USE DEF Increasing, SeqUsed, SeqAhead
<1>2. ASSUME NEW c \in Calls,
             ReadLastHash(c) \/ Begin(c) \/ Lock(c) \/ Compare(c) \/ Conflict(c) \/ Fail(c)
      PROVE  Increasing' /\ SeqUsed' /\ SeqAhead'
  <2>1. UNCHANGED <<rows, nextSeq, seq>>
    BY <1>2 DEF ReadLastHash, Begin, Lock, Compare, Conflict, Fail
  <2>2. \A d \in Calls : pc'[d] = "commit" => pc[d] = "commit"
    BY <1>2, <1>0 DEF ReadLastHash, Begin, Lock, Compare, Conflict, Fail, Retry
  <2> QED
    BY <1>0, <2>1, <2>2
<1>3. ASSUME NEW c \in Calls, Insert(c) PROVE Increasing' /\ SeqUsed' /\ SeqAhead'
  BY <1>3, <1>0, <1>1 DEF Insert
<1>4. ASSUME NEW c \in Calls, Commit(c) PROVE Increasing' /\ SeqUsed' /\ SeqAhead'
  <2>1. /\ rows' = Append(rows, NewRow(c))
        /\ NewRow(c) \in Row
        /\ NewRow(c).seq = seq[c]
        /\ UNCHANGED <<nextSeq, seq>>
    BY <1>4, <1>0, NewRowType DEF Commit, NewRow
  <2>2. /\ DOMAIN rows' = 1..(Len(rows) + 1)
        /\ DOMAIN rows = 1..Len(rows)
        /\ Len(rows) \in Nat
        /\ \A i \in DOMAIN rows : rows'[i] = rows[i]
        /\ rows'[Len(rows) + 1].seq = seq[c]
    BY <1>0, <2>1, AppendRow
  <2>3. seq[c] < nextSeq /\ \A i \in DOMAIN rows : rows[i].seq < seq[c]
    BY <1>0, <1>4 DEF Commit
  <2>4. \A d \in Calls : pc'[d] # "commit"
    <3>1. \A d \in Calls : pc[d] = "commit" => d = c
      BY <1>0, <1>4 DEF Commit, LockHeld, Locked
    <3> QED
      BY <1>0, <1>4, <3>1 DEF Commit
  <2> QED
    BY <1>0, <1>1, <2>1, <2>2, <2>3, <2>4
<1>5. CASE UNCHANGED vars
  BY <1>0, <1>5 DEF vars
<1> QED
  BY <1>2, <1>3, <1>4, <1>5 DEF Next, Finished, Step

(* Sequence numbers are committed in the order they were handed out, and   *)
(* the advisory lock has at most one holder, in every reachable state.     *)
THEOREM OrderCorrect == Spec => []OrderInv
<1>1. OrderInv /\ [Next \/ Finished]_vars => OrderInv'
  BY TypeStep, LockStep, SequenceStep DEF OrderInv
<1> QED
  BY <1>1, OrderInit, PTL DEF Spec

(* Every variable keeps its type under every statement of every Record     *)
(* call; in particular no call makes more than MaxAttempts attempts.       *)
THEOREM TypeCorrect == Spec => []TypeOK
<1>1. OrderInv => TypeOK
  BY DEF OrderInv
<1> QED
  BY <1>1, OrderCorrect, PTL

-----------------------------------------------------------------------------
(* From the comparison to the commit, what the event was built on is the   *)
(* last row.                                                               *)
HeadHeld == \A c \in Calls : pc[c] \in {"insert", "commit"} => prev[c] = LastHash

(* Each row follows the one committed before it, and its hash commits to   *)
(* as many entries as there are rows up to it.                             *)
Linked ==
    \A i \in DOMAIN rows :
        rows[i].prev = IF i = 1 THEN Genesis ELSE rows[i - 1].hash
HashLength == \A i \in DOMAIN rows : Len(rows[i].hash) = i

(* A row's call has returned, and has no other row.                        *)
OncePerCall ==
    \A i \in DOMAIN rows :
        /\ pc[rows[i].call] \in {"ok", "error"}
        /\ \A j \in DOMAIN rows : rows[j].call = rows[i].call => j = i

(* The event of a call that returned "ok" is stored under its sequence.    *)
Acked ==
    \A c \in Calls : pc[c] = "ok" =>
        \E i \in DOMAIN rows : rows[i].call = c /\ rows[i].seq = seq[c]

(* What a call has read was the last hash when the chain was that long.    *)
ReadFromChain ==
    \A c \in Calls :
        \/ prev[c] = Genesis
        \/ /\ Len(prev[c]) \in DOMAIN rows
           /\ rows[Len(prev[c])].hash = prev[c]

(* The chain has grown by one row at least for every attempt that failed.  *)
Tries ==
    \A c \in Calls :
        /\ pc[c] = "read" => attempt[c] - 1 <= Len(rows)
        /\ pc[c] \in {"begin"} \cup InTransaction => attempt[c] - 1 <= Len(prev[c])
        /\ pc[c] = "exhausted" => MaxAttempts <= Len(rows)

ChainParts ==
    /\ HeadHeld /\ Linked /\ HashLength /\ OncePerCall /\ Acked
    /\ ReadFromChain /\ Tries

ChainInv == OrderInv /\ ChainParts

-----------------------------------------------------------------------------
(* An empty chain satisfies the invariant of the chain.                    *)
LEMMA ChainInit == Init => ChainInv
<1> SUFFICES ASSUME Init PROVE ChainInv
  OBVIOUS
<1>1. OrderInv
  BY OrderInit
<1>2. DOMAIN rows = {} /\ Len(rows) = 0
  BY DEF Init
<1>3. HeadHeld /\ Linked /\ HashLength /\ OncePerCall /\ Acked
  BY <1>2 DEF Init, HeadHeld, Linked, HashLength, OncePerCall, Acked
<1>4. ReadFromChain /\ Tries
  BY <1>2 DEF Init, ReadFromChain, Tries, InTransaction
<1> QED
  BY <1>1, <1>3, <1>4 DEF ChainInv, ChainParts

(* What the steps of the proof need of the types.                          *)
LEMMA ChainTypes ==
    ASSUME OrderInv
    PROVE  /\ rows \in Seq(Row)
           /\ DOMAIN rows = 1..Len(rows)
           /\ Len(rows) \in Nat
           /\ pc \in [Calls -> {"read", "begin"} \cup InTransaction \cup Returned]
           /\ attempt \in [Calls -> 1..MaxAttempts]
           /\ prev \in [Calls -> Seq(Entry)]
           /\ seq \in [Calls -> Nat]
           /\ TailHash = LastHash
           /\ TailHash \in Seq(Entry)
           /\ \A c \in Calls : Len(prev[c]) \in Nat
<1>1. TypeOK /\ Increasing /\ rows \in Seq(Row) /\ prev \in [Calls -> Seq(Entry)]
  BY DEF OrderInv, TypeOK
<1>2. TailHash = LastHash /\ TailHash \in Seq(Entry)
  BY <1>1, TailIsLast
<1>3. \A c \in Calls : Len(prev[c]) \in Nat
  BY <1>1
<1>4. DOMAIN rows = 1..Len(rows) /\ Len(rows) \in Nat
  BY <1>1
<1> QED
  BY <1>1, <1>2, <1>3, <1>4 DEF TypeOK

(* The steps that read the last hash or find it moved.                     *)
LEMMA ReadStep ==
    ASSUME ChainInv, NEW c \in Calls, ReadLastHash(c)
    PROVE  ChainParts'
<1> USE ChainTypes DEF ChainInv
<1>1. /\ UNCHANGED <<rows, seq, attempt>>
      /\ pc[c] = "read"
      /\ pc' = [pc EXCEPT ![c] = "begin"]
      /\ prev' = [prev EXCEPT ![c] = LastHash]
  BY DEF ReadLastHash
<1>2. Len(LastHash) = Len(rows)
  BY DEF ChainParts, HashLength, LastHash, Genesis
<1>3. HeadHeld'
  BY <1>1 DEF ChainParts, HeadHeld, LastHash
<1>4. Linked' /\ HashLength'
  BY <1>1 DEF ChainParts, Linked, HashLength
<1>5. OncePerCall'
  BY <1>1, RowType DEF ChainParts, OncePerCall
<1>6. Acked'
  BY <1>1 DEF ChainParts, Acked
<1>7. ReadFromChain'
  BY <1>1, <1>2 DEF ChainParts, ReadFromChain, LastHash
<1>8. Tries'
  BY <1>1, <1>2 DEF ChainParts, Tries, InTransaction
<1> QED
  BY <1>3, <1>4, <1>5, <1>6, <1>7, <1>8 DEF ChainParts

(* An attempt that finds the chain moved has an event of another call to   *)
(* blame that no attempt before it had.                                    *)
LEMMA ConflictStep ==
    ASSUME ChainInv, NEW c \in Calls, Conflict(c)
    PROVE  ChainParts'
<1> USE ChainTypes DEF ChainInv
<1>1. /\ UNCHANGED <<rows, seq, prev>>
      /\ pc[c] = "compare"
      /\ TailHash # prev[c]
      /\ \/ /\ attempt' = [attempt EXCEPT ![c] = @ + 1]
            /\ pc' = [pc EXCEPT ![c] = "read"]
         \/ /\ attempt[c] >= MaxAttempts
            /\ attempt' = attempt
            /\ pc' = [pc EXCEPT ![c] = "exhausted"]
  BY ConstantsAssumption DEF Conflict, HeadUnmoved, AttemptLeft, Retry
<1>2. Len(prev[c]) < Len(rows)
  <2>1. CASE prev[c] = Genesis
    BY <1>1, <2>1 DEF LastHash, Genesis
  <2>2. CASE Len(prev[c]) \in DOMAIN rows /\ rows[Len(prev[c])].hash = prev[c]
    BY <1>1, <2>2 DEF LastHash
  <2> QED
    BY <2>1, <2>2 DEF ChainParts, ReadFromChain
<1>3. attempt[c] - 1 <= Len(prev[c])
  BY <1>1 DEF ChainParts, Tries, InTransaction
<1>4. HeadHeld'
  BY <1>1 DEF ChainParts, HeadHeld, LastHash
<1>5. Linked' /\ HashLength'
  BY <1>1 DEF ChainParts, Linked, HashLength
<1>6. OncePerCall'
  BY <1>1, RowType DEF ChainParts, OncePerCall
<1>7. Acked'
  BY <1>1 DEF ChainParts, Acked
<1>8. ReadFromChain'
  BY <1>1 DEF ChainParts, ReadFromChain
<1>9. Tries'
  BY <1>1, <1>2, <1>3, ConstantsAssumption DEF ChainParts, Tries, InTransaction
<1> QED
  BY <1>4, <1>5, <1>6, <1>7, <1>8, <1>9 DEF ChainParts

(* The other steps that leave the table alone.                             *)
LEMMA QuietStep ==
    ASSUME ChainInv, NEW c \in Calls,
           Begin(c) \/ Lock(c) \/ Compare(c) \/ Insert(c) \/ Fail(c)
    PROVE  ChainParts'
<1> USE ChainTypes DEF ChainInv
<1>1. UNCHANGED <<rows, prev, attempt>>
  BY DEF Begin, Lock, Compare, Insert, Fail
<1>2. HeadHeld'
  <2>1. CASE Compare(c)
    BY <1>1, <2>1 DEF Compare, HeadUnmoved, ChainParts, HeadHeld, LastHash
  <2>2. CASE Begin(c) \/ Lock(c) \/ Insert(c) \/ Fail(c)
    BY <1>1, <2>2 DEF Begin, Lock, Insert, Fail, ChainParts, HeadHeld, LastHash
  <2> QED
    BY <2>1, <2>2
<1>3. Linked' /\ HashLength'
  BY <1>1 DEF ChainParts, Linked, HashLength
<1>4. OncePerCall'
  <2>1. \A d \in Calls : pc[d] \in {"ok", "error"} => pc'[d] = pc[d]
    BY DEF Begin, Lock, Compare, Insert, Fail, Returned
  <2> QED
    BY <1>1, <2>1, RowType DEF ChainParts, OncePerCall
<1>5. Acked'
  <2>1. \A d \in Calls : pc'[d] = "ok" => pc[d] = "ok" /\ seq'[d] = seq[d]
    BY DEF Begin, Lock, Compare, Insert, Fail
  <2> QED
    BY <1>1, <2>1 DEF ChainParts, Acked
<1>6. ReadFromChain'
  BY <1>1 DEF ChainParts, ReadFromChain
<1>7. Tries'
  BY <1>1 DEF ChainParts, Tries, InTransaction, Begin, Lock, Compare, Insert, Fail
<1> QED
  BY <1>2, <1>3, <1>4, <1>5, <1>6, <1>7 DEF ChainParts

(* A commit appends a row that follows the last one, and it is the first   *)
(* row of its call.                                                        *)
LEMMA CommitStep ==
    ASSUME ChainInv, NEW c \in Calls, Commit(c)
    PROVE  ChainParts'
<1>1. OrderInv /\ ChainParts /\ rows \in Seq(Row)
  BY ChainTypes DEF ChainInv
<1>2. PICK n \in Nat : n = Len(rows) /\ DOMAIN rows = 1..n
  BY <1>1
<1>3. /\ UNCHANGED <<seq, prev, attempt>>
      /\ pc[c] = "commit"
      /\ pc'[c] \in {"ok", "error"}
      /\ \A d \in Calls : d # c => pc'[d] = pc[d]
  BY <1>1, ChainTypes DEF Commit
<1>4. NewRow(c) \in Row
  BY <1>1, NewRowType DEF OrderInv
<1>5. /\ DOMAIN rows' = 1..(n + 1)
      /\ Len(rows') = n + 1
      /\ rows' # << >>
      /\ \A i \in 1..n : rows'[i] = rows[i]
      /\ rows'[n + 1] = NewRow(c)
  BY <1>1, <1>2, <1>4, AppendRow DEF Commit
<1>6. /\ NewRow(c).seq = seq[c]
      /\ NewRow(c).call = c
      /\ NewRow(c).prev = LastHash
      /\ NewRow(c).hash = Digest(prev[c], c, createdAt[c])
      /\ prev[c] = LastHash
  BY <1>1, <1>3 DEF NewRow, ChainParts, HeadHeld
<1>7. LastHash = IF n = 0 THEN Genesis ELSE rows[n].hash
  BY <1>1, <1>2 DEF LastHash
<1>8. Len(NewRow(c).hash) = n + 1
  <2>1. Len(prev[c]) = n
    BY <1>1, <1>2, <1>6, <1>7 DEF ChainParts, HashLength, Genesis
  <2>2. prev[c] \in Seq(Entry) /\ <<c, createdAt[c]>> \in Entry
    BY <1>1 DEF OrderInv, TypeOK, Entry
  <2> QED
    BY <1>6, <2>1, <2>2 DEF Digest
<1>9. \A i \in 1..n : rows[i].call \in Calls /\ rows[i].call # c
  BY <1>1, <1>2, <1>3, RowType DEF ChainParts, OncePerCall
<1>10. \A i \in 1..(n + 1) : i = n + 1 \/ (i \in 1..n /\ i # n + 1)
  OBVIOUS
<1>11. HeadHeld'
  <2>1. \A d \in Calls : pc[d] \in Locked => d = c
    BY <1>1, <1>3 DEF OrderInv, LockHeld, Locked
  <2> QED
    BY <1>3, <2>1 DEF HeadHeld, Locked
<1>12. Linked'
  <2> SUFFICES ASSUME NEW i \in 1..(n + 1)
               PROVE  rows'[i].prev = IF i = 1 THEN Genesis ELSE rows'[i - 1].hash
    BY <1>5 DEF Linked
  <2>1. CASE i = n + 1
    <3>1. i # 1 => n # 0 /\ n \in 1..n /\ i - 1 = n
      BY <2>1
    <3>2. i = 1 => n = 0
      BY <2>1
    <3> QED
      BY <1>5, <1>6, <1>7, <2>1, <3>1, <3>2
  <2>2. CASE i \in 1..n
    <3>1. i # 1 => i - 1 \in 1..n
      BY <2>2
    <3>2. rows[i].prev = IF i = 1 THEN Genesis ELSE rows[i - 1].hash
      BY <1>1, <1>2, <2>2 DEF ChainParts, Linked
    <3> QED
      BY <1>5, <2>2, <3>1, <3>2
  <2> QED
    BY <1>10, <2>1, <2>2
<1>13. HashLength'
  <2> SUFFICES ASSUME NEW i \in 1..(n + 1) PROVE Len(rows'[i].hash) = i
    BY <1>5 DEF HashLength
  <2> QED
    BY <1>1, <1>2, <1>5, <1>8, <1>10 DEF ChainParts, HashLength
<1>14. OncePerCall'
  <2>1. \A i \in 1..n : /\ pc[rows[i].call] \in {"ok", "error"}
                       /\ \A j \in 1..n : rows[j].call = rows[i].call => j = i
    BY <1>1, <1>2 DEF ChainParts, OncePerCall
  <2>2. \A i \in 1..n : rows'[i].call = rows[i].call /\ rows'[i].call # c
    BY <1>5, <1>9
  <2>3. rows'[n + 1].call = c
    BY <1>5, <1>6
  <2>4. ASSUME NEW i \in 1..(n + 1) PROVE pc'[rows'[i].call] \in {"ok", "error"}
    BY <1>3, <1>9, <1>10, <2>1, <2>2, <2>3
  <2>5. ASSUME NEW i \in 1..(n + 1), NEW j \in 1..(n + 1), rows'[j].call = rows'[i].call
        PROVE  j = i
    BY <1>10, <2>1, <2>2, <2>3, <2>5
  <2> QED
    BY <1>5, <2>4, <2>5 DEF OncePerCall
<1>15. Acked'
  <2> SUFFICES ASSUME NEW d \in Calls, pc'[d] = "ok"
               PROVE  \E i \in 1..(n + 1) : rows'[i].call = d /\ rows'[i].seq = seq'[d]
    BY <1>5 DEF Acked
  <2>1. CASE d = c
    <3>1. n + 1 \in 1..(n + 1)
      OBVIOUS
    <3> QED
      BY <1>3, <1>5, <1>6, <2>1, <3>1
  <2>2. CASE d # c
    <3>1. PICK i \in 1..n : rows[i].call = d /\ rows[i].seq = seq[d]
      BY <1>1, <1>2, <1>3, <2>2 DEF ChainParts, Acked
    <3>2. i \in 1..(n + 1)
      OBVIOUS
    <3> QED
      BY <1>3, <1>5, <3>1, <3>2
  <2> QED
    BY <2>1, <2>2
<1>16. ReadFromChain'
  <2>1. \A i \in 1..n : i \in 1..(n + 1)
    OBVIOUS
  <2> QED
    BY <1>1, <1>2, <1>3, <1>5, <2>1 DEF ChainParts, ReadFromChain
<1>17. Tries'
  <2>1. \A d \in Calls : attempt[d] \in Nat /\ Len(prev[d]) \in Nat
    BY <1>1, ChainTypes
  <2>2. \A d \in Calls : d = c \/ pc'[d] = pc[d]
    BY <1>3
  <2> QED
    BY <1>1, <1>2, <1>3, <1>5, <2>1, <2>2, ConstantsAssumption
       DEF ChainParts, Tries, InTransaction
<1> QED
  BY <1>11, <1>12, <1>13, <1>14, <1>15, <1>16, <1>17 DEF ChainParts

(* Every statement of every call keeps the chain's invariant.              *)
THEOREM ChainCorrect == Spec => []ChainInv
<1>1. ChainInv /\ [Next \/ Finished]_vars => ChainInv'
  <2> SUFFICES ASSUME ChainInv, [Next \/ Finished]_vars
               PROVE  ChainInv'
    OBVIOUS
  <2>1. OrderInv'
    BY TypeStep, LockStep, SequenceStep DEF OrderInv, ChainInv
  <2>2. ASSUME NEW c \in Calls, Step(c) \/ Fail(c) PROVE ChainParts'
    <3>1. CASE ReadLastHash(c)
      BY <3>1, ReadStep
    <3>2. CASE Conflict(c)
      BY <3>2, ConflictStep
    <3>3. CASE Begin(c) \/ Lock(c) \/ Compare(c) \/ Insert(c) \/ Fail(c)
      BY <3>3, QuietStep
    <3>4. CASE Commit(c)
      BY <3>4, CommitStep
    <3> QED
      BY <2>2, <3>1, <3>2, <3>3, <3>4 DEF Step
  <2>3. ASSUME UNCHANGED vars PROVE ChainParts'
    BY <2>3 DEF vars, ChainInv, ChainParts, HeadHeld, LastHash, Linked, HashLength,
                OncePerCall, Acked, ReadFromChain, Tries
  <2>4. (\E c \in Calls : Step(c) \/ Fail(c)) \/ UNCHANGED vars
    BY DEF Next, Finished
  <2>5. ChainParts'
    BY <2>2, <2>3, <2>4
  <2> QED
    BY <2>1, <2>5 DEF ChainInv
<1> QED
  BY <1>1, ChainInit, PTL DEF Spec

-----------------------------------------------------------------------------
(* The chain that Service.Verify walks never forks, whatever the           *)
(* interleaving of Record calls and wherever they fail: for any number of  *)
(* calls, what holds on the instance TLC checks.                           *)
THEOREM ChainNeverForks == Spec => []ChainLinked
<1>1. ChainInv => ChainLinked
  <2> SUFFICES ASSUME ChainInv PROVE ChainLinked
    OBVIOUS
  <2>1. ListAll = rows
    BY ListIsRows DEF ChainInv, OrderInv, TypeOK
  <2>2. Linked
    BY DEF ChainInv, ChainParts
  <2> QED
    BY <2>1, <2>2 DEF Linked, ChainLinked
<1> QED
  BY <1>1, ChainCorrect, PTL

(* Record that returned an event has stored it, once, under the sequence   *)
(* number it returned.                                                     *)
THEOREM AcknowledgedStored == Spec => []AckedIsStored
<1>1. ChainInv => AckedIsStored
  <2> SUFFICES ASSUME ChainInv, NEW c \in Calls, pc[c] = "ok"
               PROVE  \E i \in DOMAIN rows :
                         /\ rows[i].call = c
                         /\ rows[i].seq = seq[c]
                         /\ \A j \in DOMAIN rows : rows[j].call = c => j = i
    BY DEF AckedIsStored
  <2>1. PICK i \in DOMAIN rows : rows[i].call = c /\ rows[i].seq = seq[c]
    BY DEF ChainInv, ChainParts, Acked
  <2>2. \A j \in DOMAIN rows : rows[j].call = c => j = i
    BY <2>1 DEF ChainInv, ChainParts, OncePerCall
  <2> QED
    BY <2>1, <2>2
<1> QED
  BY <1>1, ChainCorrect, PTL

(* Record gives up only when as many events of other calls got in as it    *)
(* made attempts, for any number of attempts.                              *)
THEOREM GivesUpByContention == Spec => []ExhaustedByContention
<1>1. ChainInv => ExhaustedByContention
  <2> SUFFICES ASSUME ChainInv, NEW c \in Calls, pc[c] = "exhausted"
               PROVE  Cardinality({i \in DOMAIN rows : rows[i].call # c}) >= MaxAttempts
    BY DEF ExhaustedByContention
  <2>1. DOMAIN rows = 1..Len(rows) /\ Len(rows) \in Nat
    BY ChainTypes DEF ChainInv
  <2>2. \A i \in DOMAIN rows : rows[i].call # c
    BY DEF ChainInv, ChainParts, OncePerCall
  <2>3. {i \in DOMAIN rows : rows[i].call # c} = 1..Len(rows)
    BY <2>1, <2>2
  <2>4. Cardinality(1..Len(rows)) = Len(rows)
    BY <2>1, IntervalCardinality
  <2>5. MaxAttempts <= Len(rows)
    BY DEF ChainInv, ChainParts, Tries
  <2> QED
    BY <2>1, <2>3, <2>4, <2>5, ConstantsAssumption
<1> QED
  BY <1>1, ChainCorrect, PTL

-----------------------------------------------------------------------------
(* The refinement mapping of RefinesLog, and its log by commit order.      *)
ListedLog == [i \in DOMAIN ListAll |-> ListAll[i].call]
Log == [i \in DOMAIN rows |-> rows[i].call]
Outcome == [c \in Calls |-> CASE pc[c] = "ok" -> "ok"
                             [] pc[c] \in {"exhausted", "error"} -> "error"
                             [] OTHER -> "pending"]

(* An empty audit table is an empty abstract log, with every call pending. *)
LEMMA LogInit == Init => Abstract!Init
<1> SUFFICES ASSUME Init PROVE Abstract!Init
  OBVIOUS
<1>1. rows = << >>
  BY DEF Init
<1>2. rows \in Seq(Row) /\ Increasing
  BY <1>1 DEF Increasing
<1>3. ListAll = << >>
  BY <1>1, <1>2, ListIsRows
<1> QED
  BY <1>3 DEF Init, Abstract!Init

(* A commit adds the call's event to the log; a call that fails or gives   *)
(* up is refused; every other statement is a stutter.                      *)
LEMMA LogStep ==
    ASSUME ChainInv, ListAll = rows, (ListAll = rows)', [Next \/ Finished]_vars
    PROVE  [Abstract!Next]_(Abstract!vars)
<1> DEFINE add(c) == /\ Outcome[c] = "pending"
                     /\ ~ \E i \in DOMAIN Log : Log[i] = c
                     /\ Log' = Append(Log, c)
                     /\ \E reply \in {"ok", "error"} :
                           Outcome' = [Outcome EXCEPT ![c] = reply]
           refuse(c) == /\ Outcome[c] = "pending"
                        /\ Outcome' = [Outcome EXCEPT ![c] = "error"]
                        /\ UNCHANGED Log
<1>0. /\ rows \in Seq(Row)
      /\ pc \in [Calls -> {"read", "begin"} \cup InTransaction \cup Returned]
      /\ OncePerCall
  BY ChainTypes DEF ChainInv, ChainParts
<1>1. ASSUME NEW c \in Calls, Commit(c) PROVE add(c)
  <2>1. PICK reply \in {"ok", "error"} : pc' = [pc EXCEPT ![c] = reply]
    BY <1>1 DEF Commit
  <2>2. Outcome[c] = "pending"
    BY <1>1 DEF Commit, Outcome
  <2>3. Outcome' = [Outcome EXCEPT ![c] = reply]
    BY <1>0, <2>1 DEF Outcome
  <2>4. ~ \E i \in DOMAIN Log : Log[i] = c
    BY <1>0, <1>1 DEF Commit, Log, OncePerCall
  <2>5. PICK n \in Nat : n = Len(rows) /\ DOMAIN rows = 1..n
    BY <1>0
  <2>6. NewRow(c) \in Row /\ NewRow(c).call = c /\ rows' = Append(rows, NewRow(c))
    BY <1>1, NewRowType DEF Commit, NewRow, ChainInv, OrderInv
  <2>7. /\ DOMAIN rows' = 1..(n + 1)
        /\ \A i \in 1..n : rows'[i] = rows[i]
        /\ rows'[n + 1].call = c
    BY <1>0, <2>5, <2>6, AppendRow
  <2>8. Log \in Seq(Calls) /\ Len(Log) = n
    BY <1>0, <2>5, RowType DEF Log
  <2>9. Log' = Append(Log, c)
    <3>1. \A i \in 1..(n + 1) : i = n + 1 \/ i \in 1..n
      OBVIOUS
    <3>2. \A i \in 1..n : rows'[i].call = Log[i] /\ rows'[i].call \in Calls
      BY <1>0, <2>5, <2>7, RowType DEF Log
    <3>3. Log' = [i \in 1..(n + 1) |-> rows'[i].call]
      BY <2>7 DEF Log
    <3>4. Log' \in Seq(Calls) /\ Len(Log') = n + 1
      BY <2>7, <3>1, <3>2, <3>3
    <3>5. /\ Append(Log, c) \in Seq(Calls)
          /\ Len(Append(Log, c)) = n + 1
          /\ \A i \in 1..n : Append(Log, c)[i] = Log[i]
          /\ Append(Log, c)[n + 1] = c
      BY <2>8, AppendProperties
    <3>6. ASSUME NEW i \in 1..(n + 1) PROVE Log'[i] = Append(Log, c)[i]
      BY <2>7, <3>1, <3>2, <3>3, <3>5
    <3> HIDE DEF Log
    <3> QED
      BY <3>4, <3>5, <3>6, SeqEqual
  <2> QED
    BY <2>2, <2>3, <2>4, <2>9
<1>2. ASSUME NEW c \in Calls, Fail(c) PROVE refuse(c)
  BY <1>0, <1>2 DEF Fail, Outcome, Log, Returned
<1>3. ASSUME NEW c \in Calls, Conflict(c) PROVE refuse(c) \/ UNCHANGED <<Log, Outcome>>
  BY <1>0, <1>3 DEF Conflict, Retry, Outcome, Log
<1>4. ASSUME NEW c \in Calls,
             ReadLastHash(c) \/ Begin(c) \/ Lock(c) \/ Compare(c) \/ Insert(c)
      PROVE  UNCHANGED <<Log, Outcome>>
  BY <1>0, <1>4 DEF ReadLastHash, Begin, Lock, Compare, Insert, Outcome, Log
<1>5. ASSUME UNCHANGED vars PROVE UNCHANGED <<Log, Outcome>>
  BY <1>5 DEF vars, Outcome, Log
<1>6. (\E c \in Calls : add(c) \/ refuse(c)) \/ UNCHANGED <<Log, Outcome>>
  <2> HIDE DEF add, refuse
  <2> QED
    BY <1>1, <1>2, <1>3, <1>4, <1>5 DEF Next, Step, Finished
<1>7. Log = ListedLog /\ Log' = ListedLog'
  BY DEF Log, ListedLog
<1>8. \/ \E c \in Calls :
         \/ /\ Outcome[c] = "pending"
            /\ ~ \E i \in DOMAIN ListedLog : ListedLog[i] = c
            /\ ListedLog' = Append(ListedLog, c)
            /\ \E reply \in {"ok", "error"} : Outcome' = [Outcome EXCEPT ![c] = reply]
         \/ /\ Outcome[c] = "pending"
            /\ Outcome' = [Outcome EXCEPT ![c] = "error"]
            /\ UNCHANGED ListedLog
      \/ UNCHANGED <<ListedLog, Outcome>>
  BY <1>6, <1>7
<1> QED
  BY <1>8, Zenon DEF Abstract!Next, Abstract!Add, Abstract!Refuse, Abstract!InLog,
                     Abstract!vars, ListedLog, Outcome

(* The audit log implements AppendOnlyLog: every statement of every Record *)
(* call appends one entry to what ListAll lists, refuses a call, or        *)
(* changes neither the log nor what a caller was told.                     *)
THEOREM ImplementsAppendOnlyLog == Spec => RefinesLog
<1>1. ChainInv => ListAll = rows
  BY ListIsRows DEF ChainInv, OrderInv, TypeOK
<1> QED
  BY <1>1, LogInit, LogStep, ChainCorrect, PTL DEF Spec, RefinesLog, Abstract!Spec
==============================================================================
