----------------------------- MODULE LeasesProofs -----------------------------
(***************************************************************************)
(* Proofs about Leases, for any number of clients and leases, any TTLs and *)
(* any resolution of the clock.                                            *)
(***************************************************************************)
EXTENDS Leases, Integers, TLAPS

(* What a call in flight has found out still holds when it writes: that    *)
(* its lease is there and, before a renewal, renewable, and that the clock *)
(* it read is not ahead.                                                   *)
CallOK(k) ==
    /\ k.op = "create" => k.id \in Ids /\ k.ttl <= MaxTTL /\ k.at <= now + MaxTTL
    /\ k.op = "renew" =>
          /\ k.id \in Stored
          /\ k.step # "get" => leases[k.id].renewable
          /\ k.step = "updateExpiry" => k.at <= now /\ k.ttl <= MaxTTL
    /\ k.op = "revoke" => k.id \in Stored /\ (k.step = "revoke" => k.at <= now)

(* A lease that is about to be inserted is not there, and nobody else has  *)
(* its id.                                                                 *)
Apart(c) ==
    call[c].op = "create" =>
        /\ call[c].id \notin Stored
        /\ \A d \in Clients \ {c} : call[d].id # call[c].id

(* A lease on the loop's list was due; unless it was renewed when its time *)
(* had come, its expiry is the one that was listed.                        *)
ListedOK(i) ==
    /\ due[i].expiresAt <= now
    /\ i \notin renewedLate => due[i].expiresAt = leases[i].expiresAt

RowsOK == ExpiryWithinMaxTTL /\ RevocationNotInFuture /\ EarlyRevocationOnlyByCall

LeasesInv ==
    /\ TypeOK
    /\ RowsOK
    /\ \A c \in Clients : CallOK(call[c]) /\ Apart(c)
    /\ \A i \in DOMAIN due : ListedOK(i)
    /\ ticker # Never => ticker <= now

-----------------------------------------------------------------------------
(* Whole seconds: dividing keeps the order.                                *)
LEMMA DivMonotone ==
  ASSUME NEW s \in Nat \ {0}, NEW a \in Nat, NEW b \in Nat, a <= b
  PROVE  a \div s \in 0..(b \div s)
<1> DEFINE x == a \div s
           y == b \div s
<1>1. x \in Int /\ y \in Int /\ x >= 0
  OBVIOUS
<1>2. s * x <= a
  OBVIOUS
<1>3. b < s * (y + 1)
  OBVIOUS
<1> HIDE DEF x, y
<1>4. s * x < s * (y + 1)
  BY <1>1, <1>2, <1>3
<1>5. x <= y
  BY <1>1, <1>4
<1> QED
  BY <1>1, <1>5 DEF x, y

-----------------------------------------------------------------------------
(* At the start there is no lease and no call.                             *)
LEMMA LeasesInit == Init => LeasesInv
<1> SUFFICES ASSUME Init PROVE LeasesInv
  OBVIOUS
<1>1. Idle \in Call
  BY DEF Idle, Call, Steps, Time
<1>2. TypeOK
  BY <1>1, ConstantsAssumption DEF Init, TypeOK, Stored, Time
<1>3. RowsOK
  BY DEF Init, RowsOK, ExpiryWithinMaxTTL, RevocationNotInFuture,
         EarlyRevocationOnlyByCall, Stored
<1>4. \A c \in Clients : CallOK(call[c]) /\ Apart(c)
  BY DEF Init, CallOK, Apart, Idle
<1> QED
  BY <1>2, <1>3, <1>4 DEF Init, LeasesInv

(* A step of one call that writes no row.                                  *)
LEMMA CallStep ==
  ASSUME LeasesInv, NEW c \in Clients, NEW k \in Call,
         call' = [call EXCEPT ![c] = k],
         UNCHANGED <<now, leases, loop, history>>,
         CallOK(k),
         k.op = "create" => /\ k.id \notin Stored
                            /\ \A d \in Clients \ {c} : call[d].id # k.id,
         \A d \in Clients \ {c} : call[d].op = "create" => call[d].id # k.id
  PROVE  LeasesInv'
<1>1. call \in [Clients -> Call]
  BY DEF LeasesInv, TypeOK
<1>2. TypeOK'
  BY <1>1 DEF LeasesInv, TypeOK, loop, history, Stored
<1>3. RowsOK'
  BY DEF LeasesInv, RowsOK, ExpiryWithinMaxTTL, RevocationNotInFuture,
         EarlyRevocationOnlyByCall, history, Stored, IsRevoked
<1>4. ASSUME NEW d \in Clients PROVE CallOK(call[d])'
  <2>1. call'[d] = IF d = c THEN k ELSE call[d]
    BY <1>1
  <2> QED
    BY <2>1 DEF LeasesInv, CallOK, Stored
<1>5. ASSUME NEW d \in Clients PROVE Apart(d)'
  <2>1. \A e \in Clients : call'[e] = IF e = c THEN k ELSE call[e]
    BY <1>1
  <2> QED
    BY <2>1 DEF LeasesInv, Apart, Stored
<1>6. (\A i \in DOMAIN due : ListedOK(i))' /\ (ticker # Never => ticker <= now)'
  BY DEF LeasesInv, ListedOK, loop, history
<1> QED
  BY <1>2, <1>3, <1>4, <1>5, <1>6 DEF LeasesInv

(* A call that returns without writing.                                    *)
LEMMA ReturnStep ==
  ASSUME LeasesInv, NEW c \in Clients, Return(c),
         UNCHANGED <<now, leases, loop, history>>
  PROVE  LeasesInv'
<1>1. Idle \in Call /\ CallOK(Idle) /\ Idle.op # "create" /\ Idle.id \notin Ids
  BY ConstantsAssumption DEF Idle, Call, Steps, Time, CallOK
<1>2. \A d \in Clients : call[d].op = "create" => call[d].id \in Ids
  BY DEF LeasesInv, CallOK
<1> QED
  BY <1>1, <1>2, CallStep DEF Return

(* Time passes: it can only come closer to an expiry.                      *)
LEMMA AdvanceStep == LeasesInv /\ Advance => LeasesInv'
<1> SUFFICES ASSUME LeasesInv, Advance PROVE LeasesInv'
  OBVIOUS
<1>1. now \in Nat /\ now' = now + 1 /\ MaxTTL \in Nat
      /\ UNCHANGED <<leases, call, ticker, due, failures, revokedByCall, renewedLate>>
  BY ConstantsAssumption DEF LeasesInv, TypeOK, Time, Advance, loop, history
<1>2. TypeOK'
  BY <1>1 DEF LeasesInv, TypeOK, Time, Stored
<1>3. \A i \in Stored : /\ leases[i].expiresAt \in Nat
                        /\ leases[i].revokedAt \in Nat \cup {Never}
  BY DEF LeasesInv, TypeOK, LeaseRow, Time
<1>4. RowsOK'
  BY <1>1, <1>3 DEF LeasesInv, RowsOK, ExpiryWithinMaxTTL, RevocationNotInFuture,
                    EarlyRevocationOnlyByCall, Stored, IsRevoked
<1>5. \A c \in Clients : call[c].at \in Nat
  BY DEF LeasesInv, TypeOK, Call, Time
<1>6. \A c \in Clients : (CallOK(call[c]) /\ Apart(c))'
  BY <1>1, <1>5 DEF LeasesInv, CallOK, Apart, Stored
<1>7. (\A i \in DOMAIN due : ListedOK(i))'
  <2>1. \A i \in DOMAIN due : due[i].expiresAt \in Nat
    BY DEF LeasesInv, TypeOK, LeaseRow, Time
  <2> QED
    BY <1>1, <2>1 DEF LeasesInv, ListedOK
<1>8. (ticker # Never => ticker <= now)'
  BY <1>1 DEF LeasesInv, TypeOK, Time
<1> QED
  BY <1>2, <1>4, <1>6, <1>7, <1>8 DEF LeasesInv

-----------------------------------------------------------------------------
(* The steps of the calls that write no row.                               *)
LEMMA StartCreateStep ==
  ASSUME LeasesInv, NEW c \in Clients, StartCreate(c)
  PROVE  LeasesInv'
<1>1. PICK i \in Ids, asked \in TTLs, renewable \in BOOLEAN :
        LET ttl == IF asked = 0 THEN DefaultTTL ELSE asked IN
        /\ Fresh(i)
        /\ ttl <= MaxTTL
        /\ call' = [call EXCEPT ![c] =
              [op |-> "create", step |-> "insert", id |-> i, ttl |-> ttl,
               renewable |-> renewable, at |-> now + ttl]]
  BY DEF StartCreate
<1> DEFINE ttl == IF asked = 0 THEN DefaultTTL ELSE asked
           k == [op |-> "create", step |-> "insert", id |-> i, ttl |-> ttl,
                 renewable |-> renewable, at |-> now + ttl]
<1>2. ttl \in Nat /\ ttl <= MaxTTL /\ now \in Nat /\ MaxTTL \in Nat
  BY <1>1, ConstantsAssumption DEF LeasesInv, TypeOK, Time
<1>3. call' = [call EXCEPT ![c] = k]
  BY <1>1
<1> HIDE DEF ttl
<1>4. k \in Call /\ k.id = i
  BY <1>2 DEF Call, Steps, Time
<1>5. CallOK(k)
  BY <1>2 DEF CallOK
<1> HIDE DEF k
<1>6. i \notin Stored /\ \A d \in Clients : call[d].id # i
  BY <1>1 DEF Fresh
<1> QED
  BY <1>3, <1>4, <1>5, <1>6, CallStep DEF StartCreate

(* A request about a lease that is there: nobody is about to insert it.    *)
LEMMA StartStep ==
  ASSUME LeasesInv, NEW c \in Clients, StartRenew(c) \/ StartRevoke(c)
  PROVE  LeasesInv'
<1>1. ASSUME NEW k \in Call, call' = [call EXCEPT ![c] = k], k.id \in Stored,
             k.op \in {"renew", "revoke"}, k.step = "get"
      PROVE  LeasesInv'
  <2>1. CallOK(k)
    BY <1>1 DEF CallOK
  <2>2. \A d \in Clients : call[d].op = "create" => call[d].id # k.id
    BY <1>1 DEF LeasesInv, Apart
  <2> QED
    BY <1>1, <2>1, <2>2, CallStep DEF StartRenew, StartRevoke
<1>2. CASE StartRenew(c)
  <2>1. PICK i \in Stored, ttl \in TTLs :
           call' = [call EXCEPT ![c] = [Idle EXCEPT !.op = "renew", !.step = "get",
                                                    !.id = i, !.ttl = ttl]]
    BY <1>2 DEF StartRenew
  <2>2. i \in Ids /\ ttl \in Nat
    BY ConstantsAssumption DEF LeasesInv, TypeOK
  <2> DEFINE k == [Idle EXCEPT !.op = "renew", !.step = "get", !.id = i, !.ttl = ttl]
  <2>3. k \in Call /\ k.id = i /\ k.op = "renew" /\ k.step = "get"
    BY <2>2 DEF Idle, Call, Steps, Time
  <2>4. call' = [call EXCEPT ![c] = k]
    BY <2>1
  <2> HIDE DEF k
  <2> QED
    BY <1>1, <2>3, <2>4
<1>3. CASE StartRevoke(c)
  <2>1. PICK i \in Stored :
           call' = [call EXCEPT ![c] = [Idle EXCEPT !.op = "revoke", !.step = "get",
                                                    !.id = i]]
    BY <1>3 DEF StartRevoke
  <2>2. i \in Ids
    BY DEF LeasesInv, TypeOK
  <2> DEFINE k == [Idle EXCEPT !.op = "revoke", !.step = "get", !.id = i]
  <2>3. k \in Call /\ k.id = i /\ k.op = "revoke" /\ k.step = "get"
    BY <2>2 DEF Idle, Call, Steps, Time
  <2>4. call' = [call EXCEPT ![c] = k]
    BY <2>1
  <2> HIDE DEF k
  <2> QED
    BY <1>1, <2>3, <2>4
<1> QED
  BY <1>2, <1>3

(* A call that goes on to its next step with what it has read.             *)
LEMMA GoOnStep ==
  ASSUME LeasesInv, NEW c \in Clients, call[c].op \in {"renew", "revoke"},
         NEW step \in Steps, NEW ttl \in Nat, NEW at \in Time,
         call' = [call EXCEPT ![c] = [call[c] EXCEPT !.step = step, !.ttl = ttl, !.at = at]],
         UNCHANGED <<now, leases, loop, history>>,
         call[c].op = "renew" => /\ leases[call[c].id].renewable
                                 /\ step = "updateExpiry" => at <= now /\ ttl <= MaxTTL,
         call[c].op = "revoke" => at <= now
  PROVE  LeasesInv'
<1> DEFINE k == [call[c] EXCEPT !.step = step, !.ttl = ttl, !.at = at]
<1>1. call[c] \in Call
  BY DEF LeasesInv, TypeOK
<1>2. /\ k \in Call /\ k.op = call[c].op /\ k.id = call[c].id
      /\ k.step = step /\ k.at = at /\ k.ttl = ttl
  BY <1>1 DEF Call
<1> HIDE DEF k
<1>3. CallOK(k)
  BY <1>2 DEF LeasesInv, CallOK
<1>4. \A d \in Clients \ {c} : call[d].op = "create" => call[d].id # k.id
  BY <1>2 DEF LeasesInv, Apart
<1>5. call' = [call EXCEPT ![c] = k]
  BY DEF k
<1> QED
  BY <1>2, <1>3, <1>4, <1>5, CallStep

(* The reads and checks of Renew and Revoke.                               *)
LEMMA ReadStep ==
  ASSUME LeasesInv, NEW c \in Clients, RenewGet(c) \/ RenewCheck(c) \/ RevokeGet(c)
  PROVE  LeasesInv'
<1>1. call[c] \in Call /\ now \in Time /\ UNCHANGED <<now, leases, loop, history>>
  BY DEF LeasesInv, TypeOK, RenewGet, RenewCheck, RevokeGet
<1>2. CASE Return(c)
  BY <1>1, <1>2, ReturnStep
<1>3. CASE RenewGet(c) /\ ~ Return(c)
  <2> DEFINE row == leases[call[c].id]
             ttl == IF call[c].ttl = 0 THEN row.ttlSeconds * Second ELSE call[c].ttl
  <2>1. call[c].op = "renew" /\ call[c].id \in Stored /\ row.renewable
    BY <1>3 DEF LeasesInv, CallOK, RenewGet, At
  <2>2. row \in LeaseRow
    BY <2>1 DEF LeasesInv, TypeOK
  <2>3. row.ttlSeconds \in Nat /\ row.expiresAt \in Time /\ Second \in Nat
    BY <2>2, ConstantsAssumption DEF LeaseRow
  <2>4. ttl \in Nat
    BY <1>1, <2>3 DEF Call
  <2>5. call' = [call EXCEPT ![c] =
                   [call[c] EXCEPT !.step = "check", !.ttl = ttl, !.at = row.expiresAt]]
    <3>1. call' = [call EXCEPT ![c].step = "check", ![c].at = row.expiresAt,
                      ![c].ttl = IF @ = 0 THEN row.ttlSeconds * Second ELSE @]
      BY <1>3 DEF RenewGet
    <3> HIDE DEF row
    <3> QED
      BY <3>1, <1>1 DEF LeasesInv, TypeOK, Call
  <2> HIDE DEF ttl
  <2> QED
    BY <1>1, <2>1, <2>3, <2>4, <2>5, GoOnStep DEF Steps
<1>4. CASE RenewCheck(c) /\ ~ Return(c)
  <2>1. call[c].op = "renew" /\ call[c].step = "check" /\ leases[call[c].id].renewable
    BY <1>4 DEF LeasesInv, CallOK, RenewCheck, At
  <2>2. call[c].ttl \in Nat /\ call[c].ttl <= MaxTTL /\ now <= now
    BY <1>1, <1>4 DEF RenewCheck, WithinMaxTTL, Call, Time
  <2>3. call' = [call EXCEPT ![c] =
                   [call[c] EXCEPT !.step = "updateExpiry", !.ttl = call[c].ttl, !.at = now]]
    <3>1. call' = [call EXCEPT ![c].step = "updateExpiry", ![c].at = now]
      BY <1>4 DEF RenewCheck
    <3> QED
      BY <3>1, <1>1 DEF LeasesInv, TypeOK, Call
  <2> QED
    BY <1>1, <2>1, <2>2, <2>3, GoOnStep DEF Steps
<1>5. CASE RevokeGet(c) /\ ~ Return(c)
  <2>1. call[c].op = "revoke" /\ call[c].ttl \in Nat /\ now <= now
    BY <1>1, <1>5 DEF RevokeGet, At, Call, Time
  <2>2. call' = [call EXCEPT ![c] =
                   [call[c] EXCEPT !.step = "revoke", !.ttl = call[c].ttl, !.at = now]]
    <3>1. call' = [call EXCEPT ![c].step = "revoke", ![c].at = now]
      BY <1>5 DEF RevokeGet
    <3> QED
      BY <3>1, <1>1 DEF LeasesInv, TypeOK, Call
  <2> QED
    BY <1>1, <2>1, <2>2, GoOnStep DEF Steps
<1> QED
  BY <1>2, <1>3, <1>4, <1>5

-----------------------------------------------------------------------------
(* What a written row means for the calls: nothing but their own return,   *)
(* as long as no row goes, none becomes renewable or not, and a new one is *)
(* inserted by the call that has its id.                                   *)
LEMMA CallsAfterWrite ==
  ASSUME LeasesInv, NEW c \in Clients, Return(c), now' = now,
         \A i \in Stored : i \in Stored' /\ leases'[i].renewable = leases[i].renewable,
         \A i \in Stored' : i \in Stored \/ (call[c].op = "create" /\ i = call[c].id)
  PROVE  call' \in [Clients -> Call] /\ \A d \in Clients : (CallOK(call[d]) /\ Apart(d))'
<1>1. call \in [Clients -> Call]
  BY DEF LeasesInv, TypeOK
<1>2. Idle \in Call /\ Idle.op = "none" /\ Idle.id \notin Ids
  BY ConstantsAssumption DEF Idle, Call, Steps, Time
<1>3. \A d \in Clients : call'[d] = IF d = c THEN Idle ELSE call[d]
  BY <1>1 DEF Return
<1>4. call' \in [Clients -> Call]
  BY <1>1, <1>2 DEF Return
<1>5. ASSUME NEW d \in Clients PROVE CallOK(call[d])'
  <2>1. CASE d = c
    BY <2>1, <1>2, <1>3 DEF CallOK
  <2>2. CASE d # c
    <3>1. call'[d] = call[d] /\ CallOK(call[d])
      BY <2>2, <1>3 DEF LeasesInv
    <3> QED
      BY <3>1 DEF CallOK
  <2> QED
    BY <2>1, <2>2
<1>6. ASSUME NEW d \in Clients PROVE Apart(d)'
  <2>1. CASE d = c
    BY <2>1, <1>2, <1>3 DEF Apart
  <2>2. CASE d # c
    <3>1. SUFFICES ASSUME call[d].op = "create"
                   PROVE  /\ call[d].id \notin Stored'
                          /\ \A e \in Clients \ {d} : call'[e].id # call[d].id
      BY <2>2, <1>3 DEF Apart
    <3>2. call[d].id \in Ids /\ call[d].id \notin Stored
          /\ \A e \in Clients \ {d} : call[e].id # call[d].id
      BY <3>1 DEF LeasesInv, CallOK, Apart
    <3>3. call[d].id \notin Stored'
      BY <3>2, <2>2
    <3> QED
      BY <3>2, <3>3, <1>2, <1>3
  <2> QED
    BY <2>1, <2>2
<1> QED
  BY <1>4, <1>5, <1>6

(* A call inserts its lease beside the others.                             *)
LEMMA InsertStep ==
  ASSUME LeasesInv, NEW c \in Clients, Insert(c)
  PROVE  LeasesInv'
<1> DEFINE new == call[c].id
           row == [ttlSeconds |-> WholeSeconds(call[c].ttl), renewable |-> call[c].renewable,
                   expiresAt |-> call[c].at, revokedAt |-> Never]
<1>1. /\ call[c] \in Call /\ call[c].op = "create" /\ new \in Ids /\ new \notin Stored
      /\ call[c].ttl <= MaxTTL /\ call[c].at <= now + MaxTTL
  BY DEF LeasesInv, TypeOK, CallOK, Apart, Insert, At
<1>2. row \in LeaseRow
  <2>1. WholeSeconds(call[c].ttl) \in 0..(MaxTTL \div Second)
    <3>1. call[c].ttl \in Nat /\ MaxTTL \in Nat /\ Second \in Nat \ {0}
      BY <1>1, ConstantsAssumption DEF Call
    <3> QED
      BY <1>1, <3>1, DivMonotone DEF WholeSeconds
  <2>2. call[c].at \in Time /\ call[c].renewable \in BOOLEAN
    BY <1>1 DEF Call
  <2> QED
    BY <2>1, <2>2 DEF LeaseRow
<1> HIDE DEF row
<1>3. /\ leases' = [i \in Stored \cup {new} |-> IF i = new THEN row ELSE leases[i]]
      /\ Return(c)
      /\ UNCHANGED <<now, ticker, due, failures, revokedByCall, renewedLate>>
  BY DEF Insert, row, loop, history
<1>4. /\ Stored' = Stored \cup {new} /\ leases'[new] = row
      /\ \A i \in Stored : leases'[i] = leases[i]
  BY <1>1, <1>3 DEF Stored
<1>5. call' \in [Clients -> Call] /\ \A d \in Clients : (CallOK(call[d]) /\ Apart(d))'
  <2>1. /\ \A i \in Stored : i \in Stored' /\ leases'[i].renewable = leases[i].renewable
        /\ \A i \in Stored' : i \in Stored \/ (call[c].op = "create" /\ i = call[c].id)
    BY <1>1, <1>4
  <2> QED
    BY <1>3, <2>1, CallsAfterWrite
<1>6. TypeOK'
  <2>1. leases' \in [Stored' -> LeaseRow]
    <3>1. \A i \in Stored : leases[i] \in LeaseRow
      BY DEF LeasesInv, TypeOK
    <3> QED
      BY <1>2, <1>3, <1>4, <3>1
  <2> QED
    BY <1>1, <1>3, <1>4, <1>5, <2>1 DEF LeasesInv, TypeOK
<1>7. RowsOK'
  <2>1. row.expiresAt = call[c].at /\ row.revokedAt = Never
    BY DEF row
  <2> QED
    BY <1>1, <1>3, <1>4, <2>1 DEF LeasesInv, RowsOK, ExpiryWithinMaxTTL,
       RevocationNotInFuture, EarlyRevocationOnlyByCall, IsRevoked
<1>8. (\A i \in DOMAIN due : ListedOK(i))'
  BY <1>3, <1>4 DEF LeasesInv, TypeOK, ListedOK
<1> QED
  BY <1>3, <1>5, <1>6, <1>7, <1>8 DEF LeasesInv

(* Only a renewable lease is extended, and from a clock already read; if   *)
(* it is listed, its time has come.                                        *)
LEMMA UpdateExpiryStep ==
  ASSUME LeasesInv, NEW c \in Clients, UpdateExpiry(c)
  PROVE  LeasesInv'
<1> DEFINE i == call[c].id
<1>1. PICK t \in call[c].at..now :
         leases' = [leases EXCEPT ![i].expiresAt = t + call[c].ttl]
  BY DEF UpdateExpiry
<1>2. /\ call[c] \in Call /\ call[c].op = "renew" /\ i \in Stored
      /\ leases[i].renewable /\ call[c].ttl <= MaxTTL
  BY DEF LeasesInv, TypeOK, CallOK, UpdateExpiry, At
<1>3. /\ call[c].at \in Nat /\ call[c].ttl \in Nat /\ now \in Nat /\ MaxTTL \in Nat
      /\ t \in Nat /\ t <= now
  BY <1>2, ConstantsAssumption DEF LeasesInv, TypeOK, Call, Time
<1>4. /\ Return(c) /\ UNCHANGED <<now, ticker, due, failures, revokedByCall>>
      /\ renewedLate' = renewedLate \cup {j \in {i} : leases[j].expiresAt <= now}
  BY DEF UpdateExpiry, loop
<1>5. /\ Stored' = Stored /\ leases' \in [Stored -> LeaseRow]
      /\ \A j \in Stored : /\ leases'[j].renewable = leases[j].renewable
                           /\ leases'[j].revokedAt = leases[j].revokedAt
                           /\ j # i => leases'[j] = leases[j]
      /\ leases'[i].expiresAt = t + call[c].ttl
  <2>1. leases \in [Stored -> LeaseRow]
    BY DEF LeasesInv, TypeOK
  <2> DEFINE row == [leases[i] EXCEPT !.expiresAt = t + call[c].ttl]
  <2>2. leases' = [leases EXCEPT ![i] = row]
    BY <1>1
  <2>3. /\ row \in LeaseRow /\ row.renewable = leases[i].renewable
        /\ row.revokedAt = leases[i].revokedAt /\ row.expiresAt = t + call[c].ttl
    <3>1. leases[i] \in LeaseRow /\ t + call[c].ttl \in Nat
      BY <1>2, <1>3, <2>1
    <3> QED
      BY <3>1 DEF LeaseRow, Time
  <2> HIDE DEF row
  <2> QED
    BY <1>2, <2>1, <2>2, <2>3 DEF Stored
<1>6. call' \in [Clients -> Call] /\ \A d \in Clients : (CallOK(call[d]) /\ Apart(d))'
  BY <1>4, <1>5, CallsAfterWrite
<1>7. TypeOK'
  BY <1>2, <1>4, <1>5, <1>6 DEF LeasesInv, TypeOK
<1>8. RowsOK'
  <2>1. leases'[i].expiresAt <= now + MaxTTL
    BY <1>2, <1>3, <1>5
  <2>2. ExpiryWithinMaxTTL' /\ RevocationNotInFuture'
    BY <1>2, <1>4, <1>5, <2>1 DEF LeasesInv, RowsOK, ExpiryWithinMaxTTL,
       RevocationNotInFuture, IsRevoked
  <2>3. i \in renewedLate' \/ ~ IsRevoked(leases[i]) \/ i \in revokedByCall
    BY <1>2, <1>4 DEF LeasesInv, RowsOK, EarlyRevocationOnlyByCall
  <2>4. EarlyRevocationOnlyByCall'
    BY <1>2, <1>4, <1>5, <2>3 DEF LeasesInv, RowsOK, EarlyRevocationOnlyByCall, IsRevoked
  <2> QED
    BY <2>2, <2>4 DEF RowsOK
<1>9. (\A j \in DOMAIN due : ListedOK(j))'
  <2>1. i \in DOMAIN due => i \in renewedLate'
    BY <1>2, <1>4 DEF LeasesInv, ListedOK
  <2> QED
    BY <1>2, <1>4, <1>5, <2>1 DEF LeasesInv, TypeOK, ListedOK
<1> QED
  BY <1>4, <1>6, <1>7, <1>8, <1>9 DEF LeasesInv

-----------------------------------------------------------------------------
(* A write of revoked_at touches nothing else.                             *)
LEMMA RevokedRow ==
  ASSUME TypeOK, NEW i \in Stored, NEW at \in Nat, SetRevoked(i, at)
  PROVE  /\ Stored' = Stored /\ leases' \in [Stored -> LeaseRow]
         /\ \A j \in Stored : /\ leases'[j].renewable = leases[j].renewable
                              /\ leases'[j].expiresAt = leases[j].expiresAt
                              /\ j # i => leases'[j] = leases[j]
         /\ leases'[i].revokedAt = at
<1>1. leases \in [Stored -> LeaseRow] /\ leases[i] \in LeaseRow
  BY DEF TypeOK
<1> DEFINE row == [leases[i] EXCEPT !.revokedAt = at]
<1>2. leases' = [leases EXCEPT ![i] = row]
  BY DEF SetRevoked
<1>3. /\ row \in LeaseRow /\ row.renewable = leases[i].renewable
      /\ row.expiresAt = leases[i].expiresAt /\ row.revokedAt = at
  BY <1>1 DEF LeaseRow, Time
<1> HIDE DEF row
<1> QED
  BY <1>1, <1>2, <1>3 DEF Stored

(* A Revoke call revokes, as of a clock it has read.                       *)
LEMMA RevokeUpdateStep ==
  ASSUME LeasesInv, NEW c \in Clients, RevokeUpdate(c)
  PROVE  LeasesInv'
<1> DEFINE i == call[c].id
<1>1. PICK t \in call[c].at..now : SetRevoked(i, t)
  BY DEF RevokeUpdate
<1>2. call[c] \in Call /\ call[c].op = "revoke" /\ i \in Stored /\ TypeOK
  BY DEF LeasesInv, TypeOK, CallOK, RevokeUpdate, At
<1>3. t \in Nat /\ t <= now
  BY <1>2 DEF TypeOK, Call, Time
<1>4. /\ Return(c) /\ UNCHANGED <<now, ticker, due, failures, renewedLate>>
      /\ revokedByCall' = revokedByCall \cup {i}
  BY DEF RevokeUpdate, loop
<1>5. /\ Stored' = Stored /\ leases' \in [Stored -> LeaseRow]
      /\ \A j \in Stored : /\ leases'[j].renewable = leases[j].renewable
                           /\ leases'[j].expiresAt = leases[j].expiresAt
                           /\ j # i => leases'[j] = leases[j]
      /\ leases'[i].revokedAt = t
  BY <1>1, <1>2, <1>3, RevokedRow
<1>6. call' \in [Clients -> Call] /\ \A d \in Clients : (CallOK(call[d]) /\ Apart(d))'
  BY <1>4, <1>5, CallsAfterWrite
<1>7. TypeOK'
  BY <1>2, <1>4, <1>5, <1>6 DEF TypeOK
<1>8. RowsOK'
  BY <1>2, <1>3, <1>4, <1>5 DEF LeasesInv, RowsOK, ExpiryWithinMaxTTL,
     RevocationNotInFuture, EarlyRevocationOnlyByCall, IsRevoked
<1>9. (\A j \in DOMAIN due : ListedOK(j))'
  BY <1>4, <1>5 DEF LeasesInv, TypeOK, ListedOK
<1> QED
  BY <1>4, <1>6, <1>7, <1>8, <1>9 DEF LeasesInv

(* The loop revokes a listed lease, as of the expiry that was listed.      *)
LEMMA RevokeDueStep == LeasesInv /\ RevokeDue => LeasesInv'
<1> SUFFICES ASSUME LeasesInv, RevokeDue PROVE LeasesInv'
  OBVIOUS
<1>1. PICK i \in DOMAIN due :
         /\ SetRevoked(i, due[i].expiresAt)
         /\ due' = [j \in DOMAIN due \ {i} |-> due[j]]
         /\ UNCHANGED <<now, call, ticker, failures, revokedByCall, renewedLate>>
  BY DEF RevokeDue, history
<1>2. TypeOK /\ i \in Stored /\ due[i] \in LeaseRow
  BY DEF LeasesInv, TypeOK
<1>3. due[i].expiresAt \in Nat /\ due[i].expiresAt <= now
      /\ (i \notin renewedLate => due[i].expiresAt = leases[i].expiresAt)
  BY <1>2 DEF LeasesInv, LeaseRow, Time, ListedOK
<1>4. /\ Stored' = Stored /\ leases' \in [Stored -> LeaseRow]
      /\ \A j \in Stored : /\ leases'[j].renewable = leases[j].renewable
                           /\ leases'[j].expiresAt = leases[j].expiresAt
                           /\ j # i => leases'[j] = leases[j]
      /\ leases'[i].revokedAt = due[i].expiresAt
  BY <1>1, <1>2, <1>3, RevokedRow
<1>5. TypeOK'
  <2>1. due \in [DOMAIN due -> LeaseRow] /\ DOMAIN due \subseteq Stored
    BY <1>2 DEF TypeOK
  <2>2. due' \in [DOMAIN due' -> LeaseRow] /\ DOMAIN due' \subseteq Stored
    BY <1>1, <2>1
  <2> QED
    BY <1>1, <1>2, <1>4, <2>2 DEF TypeOK
<1>6. RowsOK'
  BY <1>1, <1>2, <1>3, <1>4 DEF LeasesInv, RowsOK, ExpiryWithinMaxTTL,
     RevocationNotInFuture, EarlyRevocationOnlyByCall, IsRevoked
<1>7. \A d \in Clients : (CallOK(call[d]) /\ Apart(d))'
  BY <1>1, <1>4 DEF LeasesInv, CallOK, Apart
<1>8. (\A j \in DOMAIN due : ListedOK(j))'
  BY <1>1, <1>2, <1>4 DEF LeasesInv, TypeOK, ListedOK
<1>9. (ticker # Never => ticker <= now)'
  BY <1>1 DEF LeasesInv
<1> QED
  BY <1>5, <1>6, <1>7, <1>8, <1>9 DEF LeasesInv

(* The ticker and the list: what is listed was due when it was listed.     *)
LEMMA LoopStep == LeasesInv /\ (Tick \/ ListDue \/ LoopFails) => LeasesInv'
<1> SUFFICES ASSUME LeasesInv, Tick \/ ListDue \/ LoopFails PROVE LeasesInv'
  OBVIOUS
<1>1. /\ UNCHANGED <<now, leases, call, revokedByCall, renewedLate>>
      /\ TypeOK /\ now \in Nat
  BY DEF LeasesInv, TypeOK, Time, Tick, ListDue, LoopFails, history
<1>2. ticker' \in Time \cup {Never} /\ (ticker' # Never => ticker' <= now)
  BY <1>1 DEF LeasesInv, TypeOK, Time, Tick, ListDue, LoopFails
<1>3. failures' \in 0..MaxFailures
  BY <1>1, ConstantsAssumption DEF TypeOK, Tick, ListDue, LoopFails
<1>4. /\ DOMAIN due' \subseteq Stored /\ due' \in [DOMAIN due' -> LeaseRow]
      /\ (\A i \in DOMAIN due : ListedOK(i))'
  <2>1. CASE Tick
    BY <2>1, <1>1 DEF Tick, LeasesInv, TypeOK, ListedOK
  <2>2. CASE LoopFails
    BY <2>2, <1>1 DEF LoopFails, LeasesInv, TypeOK, ListedOK
  <2>3. CASE ListDue
    <3>1. due' = [i \in {j \in Stored : DueAt(j, ticker)} |-> leases[i]]
          /\ ticker \in Nat /\ ticker <= now
      BY <2>3 DEF LeasesInv, TypeOK, Time, ListDue
    <3>2. \A i \in Stored : leases[i] \in LeaseRow /\ leases[i].expiresAt \in Nat
      BY <1>1 DEF TypeOK, LeaseRow, Time
    <3>3. \A i \in DOMAIN due' : due'[i] = leases[i] /\ i \in Stored
                                 /\ leases[i].expiresAt <= ticker
      BY <3>1 DEF DueAt
    <3>4. due' \in [DOMAIN due' -> LeaseRow]
      BY <3>1, <3>2
    <3> QED
      BY <1>1, <3>1, <3>2, <3>3, <3>4 DEF ListedOK
  <2> QED
    BY <2>1, <2>2, <2>3
<1>5. TypeOK'
  BY <1>1, <1>2, <1>3, <1>4 DEF TypeOK, Stored
<1>6. RowsOK' /\ \A d \in Clients : (CallOK(call[d]) /\ Apart(d))'
  BY <1>1 DEF LeasesInv, RowsOK, ExpiryWithinMaxTTL, RevocationNotInFuture,
              EarlyRevocationOnlyByCall, IsRevoked, CallOK, Apart, Stored
<1> QED
  BY <1>1, <1>2, <1>4, <1>5, <1>6 DEF LeasesInv

-----------------------------------------------------------------------------
(* Every step keeps the invariant.                                         *)
LEMMA LeasesStep == LeasesInv /\ [Next]_vars => LeasesInv'
<1> SUFFICES ASSUME LeasesInv, [Next]_vars PROVE LeasesInv'
  OBVIOUS
<1>1. CASE Advance \/ Tick \/ ListDue \/ RevokeDue \/ LoopFails
  BY <1>1, AdvanceStep, LoopStep, RevokeDueStep
<1>2. ASSUME NEW c \in Clients,
             \/ StartCreate(c) \/ Insert(c)
             \/ StartRenew(c) \/ RenewGet(c) \/ RenewCheck(c) \/ UpdateExpiry(c)
             \/ StartRevoke(c) \/ RevokeGet(c) \/ RevokeUpdate(c)
      PROVE  LeasesInv'
  BY <1>2, StartCreateStep, InsertStep, StartStep, ReadStep, UpdateExpiryStep,
     RevokeUpdateStep
<1>3. ASSUME NEW c \in Clients, Abort(c) PROVE LeasesInv'
  BY <1>3, ReturnStep DEF Abort
<1>4. CASE UNCHANGED vars
  BY <1>4 DEF LeasesInv, TypeOK, RowsOK, ExpiryWithinMaxTTL, RevocationNotInFuture,
              EarlyRevocationOnlyByCall, IsRevoked, CallOK, Apart, ListedOK, Stored,
              vars, loop, history
<1> QED
  BY <1>1, <1>2, <1>3, <1>4 DEF Next

(* The invariant of the leases.                                            *)
THEOREM LeasesCorrect == Spec => []LeasesInv
  BY LeasesInit, LeasesStep, PTL DEF Spec

(* Every variable keeps its type; ttl_seconds is in seconds.               *)
THEOREM LeasesTypeCorrect == Spec => []TypeOK
<1>1. LeasesInv => TypeOK
  BY DEF LeasesInv
<1> QED
  BY <1>1, LeasesCorrect, PTL

(* However it is renewed, no lease outlasts lease_max_ttl from now.        *)
THEOREM NeverBeyondMaxTTL == Spec => []ExpiryWithinMaxTTL
<1>1. LeasesInv => ExpiryWithinMaxTTL
  BY DEF LeasesInv, RowsOK
<1> QED
  BY <1>1, LeasesCorrect, PTL

(* No revocation is dated in the future.                                   *)
THEOREM RevokedInThePast == Spec => []RevocationNotInFuture
<1>1. LeasesInv => RevocationNotInFuture
  BY DEF LeasesInv, RowsOK
<1> QED
  BY <1>1, LeasesCorrect, PTL

(* Only a Revoke call ends a lease before its time, or the loop a lease    *)
(* that was renewed no sooner than its time had come.                      *)
THEOREM LoopNeverEarly == Spec => []EarlyRevocationOnlyByCall
<1>1. LeasesInv => EarlyRevocationOnlyByCall
  BY DEF LeasesInv, RowsOK
<1> QED
  BY <1>1, LeasesCorrect, PTL

(* A revoked lease stays revoked.                                          *)
THEOREM NeverUnrevoked == Spec => RevokedForever
<1> DEFINE Stays == \A i \in Stored : IsRevoked(leases[i]) =>
                       i \in DOMAIN leases' /\ IsRevoked(leases'[i])
<1>1. LeasesInv /\ [Next]_vars => [Stays]_vars
  <2> SUFFICES ASSUME LeasesInv, [Next]_vars PROVE Stays \/ UNCHANGED vars
    OBVIOUS
  <2>1. CASE leases' = leases
    BY <2>1 DEF Stored
  <2>2. CASE RevokeDue
    <3>1. PICK i \in DOMAIN due : SetRevoked(i, due[i].expiresAt)
      BY <2>2 DEF RevokeDue
    <3>2. i \in Stored /\ due[i].expiresAt \in Nat /\ TypeOK
      BY DEF LeasesInv, TypeOK, LeaseRow, Time
    <3> QED
      BY <3>1, <3>2, RevokedRow, ConstantsAssumption DEF IsRevoked, Stored
  <2>3. ASSUME NEW c \in Clients, RevokeUpdate(c) PROVE Stays
    <3>1. PICK t \in call[c].at..now : SetRevoked(call[c].id, t)
      BY <2>3 DEF RevokeUpdate
    <3>2. call[c].id \in Stored /\ call[c].at \in Nat /\ TypeOK
      BY <2>3 DEF LeasesInv, TypeOK, CallOK, RevokeUpdate, At, Call, Time
    <3>3. t \in Nat
      BY <3>1, <3>2
    <3> QED
      BY <3>1, <3>2, <3>3, RevokedRow, ConstantsAssumption DEF IsRevoked, Stored
  <2>4. ASSUME NEW c \in Clients, Insert(c) PROVE Stays
    <3>1. call[c].id \notin Stored
      BY <2>4 DEF LeasesInv, Apart, Insert, At
    <3> QED
      BY <2>4, <3>1 DEF Insert, Stored, IsRevoked
  <2>5. ASSUME NEW c \in Clients, UpdateExpiry(c) PROVE Stays
    <3>1. PICK t \in call[c].at..now :
             leases' = [leases EXCEPT ![call[c].id].expiresAt = t + call[c].ttl]
      BY <2>5 DEF UpdateExpiry
    <3>2. leases \in [Stored -> LeaseRow]
      BY DEF LeasesInv, TypeOK
    <3> QED
      BY <3>1, <3>2 DEF Stored, IsRevoked, LeaseRow
  <2> QED
    BY <2>1, <2>2, <2>3, <2>4, <2>5
       DEF Next, vars, Advance, Tick, ListDue, LoopFails, StartCreate, StartRenew, RenewGet,
           RenewCheck, StartRevoke, RevokeGet, Abort
<1>2. Spec => [][Stays]_vars
  BY <1>1, LeasesCorrect, PTL DEF Spec
<1> QED
  BY <1>2 DEF RevokedForever
==============================================================================
