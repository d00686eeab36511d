------------------------------- MODULE Leases --------------------------------
(***************************************************************************)
(* Leases on dynamic secrets: lease/application.Service over the table     *)
(* leases, and the expiry loop of cmd/server, which revokes what is due.   *)
(*                                                                         *)
(* Create, Renew and Revoke read the clock and the row, then write with an *)
(* UPDATE that has no guard; the loop lists the due leases and revokes     *)
(* them one by one.  Every statement is an action, so time passes and the  *)
(* row changes between a decision and the write that follows from it.      *)
(* A client is a request slot, used again for its next call.               *)
(*                                                                         *)
(* Time is counted in units of which Second make up one second, because a  *)
(* TTL may be finer than the whole seconds kept in ttl_seconds.  Whether   *)
(* the secret exists and is dynamic never changes: a call that finds it is *)
(* not returns at once, which Abort covers.                                *)
(***************************************************************************)
EXTENDS Naturals, FiniteSets

CONSTANTS
    Clients,         \* concurrent request slots
    Ids,             \* lease ids, each created once
    NoId,            \* a call that names no lease
    Never,           \* the NULL of revoked_at, and an empty ticker channel
    Second,          \* units of time in a second
    DefaultTTL,      \* defaults.lease_default_ttl
    MaxTTL,          \* defaults.lease_max_ttl
    TTLs,            \* the TTLs requests ask for, 0 for none or a negative one
    MaxNow,          \* bound: the clock stops here
    MaxFailures      \* bound: how often the expiry loop can fail

ASSUME ConstantsAssumption ==
    /\ NoId \notin Ids
    /\ Second \in Nat \ {0}
    /\ DefaultTTL \in Nat \ {0}
    /\ MaxTTL \in Nat \ {0}
    /\ TTLs \subseteq Nat
    /\ MaxNow \in Nat
    /\ MaxFailures \in Nat
    /\ Never \notin Nat

VARIABLES
    now,             \* the clock
    leases,          \* table leases: id -> row, for the ids in it
    call,            \* the call each client has in flight
    ticker,          \* time of the tick in the ticker's channel, or Never
    due,             \* id -> row: leases listed as due and not revoked yet
    failures,        \* failures of the expiry loop so far
    revokedByCall,   \* history: the leases a Revoke call has revoked
    renewedLate      \* history: the leases renewed when their time had come

loop == <<ticker, due, failures>>
history == <<revokedByCall, renewedLate>>
vars == <<now, leases, call, loop, history>>

-----------------------------------------------------------------------------
Time == Nat
LeaseRow == [ttlSeconds : 0..(MaxTTL \div Second), renewable : BOOLEAN, expiresAt : Time,
             revokedAt : Time \cup {Never}]

Steps == {"idle", "insert", "get", "check", "updateExpiry", "revoke"}

Stored == DOMAIN leases

(* What a call knows: the lease, its TTL (the one asked for, then the one  *)
(* that applies), renewable when it creates, and a time: the expiry it has *)
(* read or is about to insert, or when it last looked at clock or row.     *)
Call == [op : {"none", "create", "renew", "revoke"}, step : Steps,
         id : Ids \cup {NoId}, ttl : Nat, renewable : BOOLEAN, at : Time]
Idle == [op |-> "none", step |-> "idle", id |-> NoId, ttl |-> 0,
         renewable |-> FALSE, at |-> 0]

IsRevoked(row) == row.revokedAt # Never

At(c, op, step) == call[c].op = op /\ call[c].step = step
Return(c) == call' = [call EXCEPT ![c] = Idle]

Init ==
    /\ now = 0
    /\ leases = << >>
    /\ call = [c \in Clients |-> Idle]
    /\ ticker = Never
    /\ due = << >>
    /\ failures = 0
    /\ revokedByCall = {}
    /\ renewedLate = {}

Advance ==
    /\ now < MaxNow
    /\ now' = now + 1
    /\ UNCHANGED <<leases, call, loop, history>>

-----------------------------------------------------------------------------
(* uuid.New: an id that no lease and no call in flight has.                *)
Fresh(i) == i \notin Stored /\ \A c \in Clients : call[c].id # i

(* CreateInput.Normalize, then the lease is built with its time of expiry. *)
StartCreate(c) ==
    /\ call[c] = Idle
    /\ \E i \in Ids, asked \in TTLs, renewable \in BOOLEAN :
          LET ttl == IF asked = 0 THEN DefaultTTL ELSE asked IN
          /\ Fresh(i)
          /\ ttl <= MaxTTL
          /\ call' = [call EXCEPT ![c] =
                [op |-> "create", step |-> "insert", id |-> i, ttl |-> ttl,
                 renewable |-> renewable, at |-> now + ttl]]
    /\ UNCHANGED <<now, leases, loop, history>>

(* int64(input.TTL.Seconds()): what is left of a second is dropped.        *)
DurationAsNumber(ttl) == ttl
WholeSeconds(ttl) == ttl \div Second

Insert(c) ==
    /\ At(c, "create", "insert")
    /\ leases' = [i \in Stored \cup {call[c].id} |->
                     IF i = call[c].id
                       THEN [ttlSeconds |-> WholeSeconds(call[c].ttl),
                             renewable  |-> call[c].renewable,
                             expiresAt  |-> call[c].at,
                             revokedAt  |-> Never]
                       ELSE leases[i]]
    /\ Return(c)
    /\ UNCHANGED <<now, loop, history>>

-----------------------------------------------------------------------------
(* A request to renew or to revoke a lease arrives.                        *)
StartRenew(c) ==
    /\ call[c] = Idle
    /\ \E i \in Stored, ttl \in TTLs :
          call' = [call EXCEPT ![c] = [Idle EXCEPT !.op = "renew", !.step = "get",
                                                   !.id = i, !.ttl = ttl]]
    /\ UNCHANGED <<now, leases, loop, history>>

StartRevoke(c) ==
    /\ call[c] = Idle
    /\ \E i \in Stored :
          call' = [call EXCEPT ![c] = [Idle EXCEPT !.op = "revoke", !.step = "get",
                                                   !.id = i]]
    /\ UNCHANGED <<now, leases, loop, history>>

(* Renew reads the lease: it must be renewable and not revoked, and the    *)
(* lease's own TTL applies when none is asked for.                         *)
RenewGet(c) ==
    LET row == leases[call[c].id] IN
    /\ At(c, "renew", "get")
    /\ IF row.renewable /\ ~ IsRevoked(row)
         THEN call' = [call EXCEPT ![c].step = "check", ![c].at = row.expiresAt,
                                   ![c].ttl = IF @ = 0 THEN row.ttlSeconds * Second ELSE @]
         ELSE Return(c)
    /\ UNCHANGED <<now, leases, loop, history>>

MaxTTLNotChecked(ttl) == TRUE
WithinMaxTTL(ttl) == ttl <= MaxTTL

(* Then, by a later clock, it must not have expired: strictly, so a lease  *)
(* is still renewed at the instant ListActiveExpired counts it as due.     *)
RenewCheck(c) ==
    /\ At(c, "renew", "check")
    /\ IF now <= call[c].at /\ WithinMaxTTL(call[c].ttl)
         THEN call' = [call EXCEPT ![c].step = "updateExpiry", ![c].at = now]
         ELSE Return(c)
    /\ UNCHANGED <<now, leases, loop, history>>

(* UPDATE leases SET expires_at ... WHERE id, with no other condition: the *)
(* TTL runs from a clock read at some time between the check and now.      *)
UpdateExpiryAndUnrevoke(c) ==
    /\ At(c, "renew", "updateExpiry")
    /\ \E t \in call[c].at..now :
          leases' = [leases EXCEPT ![call[c].id].expiresAt = t + call[c].ttl,
                                   ![call[c].id].revokedAt = Never]
    /\ Return(c)
    /\ UNCHANGED <<now, loop, history>>
UpdateExpiry(c) ==
    /\ At(c, "renew", "updateExpiry")
    /\ \E t \in call[c].at..now :
          leases' = [leases EXCEPT ![call[c].id].expiresAt = t + call[c].ttl]
    /\ renewedLate' = renewedLate \cup {i \in {call[c].id} : leases[i].expiresAt <= now}
    /\ Return(c)
    /\ UNCHANGED <<now, loop, revokedByCall>>

(* Revoke reads the lease, and is done if it is revoked already.           *)
RevokeGet(c) ==
    LET row == leases[call[c].id] IN
    /\ At(c, "revoke", "get")
    /\ IF IsRevoked(row)
         THEN Return(c)
         ELSE call' = [call EXCEPT ![c].step = "revoke", ![c].at = now]
    /\ UNCHANGED <<now, leases, loop, history>>

(* UPDATE leases SET revoked_at ... WHERE id, with no other condition: as  *)
(* of a clock read at some time between RevokeGet and now.                 *)
SetRevoked(i, at) == leases' = [leases EXCEPT ![i].revokedAt = at]

RevokeUpdate(c) ==
    /\ At(c, "revoke", "revoke")
    /\ \E t \in call[c].at..now : SetRevoked(call[c].id, t)
    /\ revokedByCall' = revokedByCall \cup {call[c].id}
    /\ Return(c)
    /\ UNCHANGED <<now, loop, renewedLate>>

(* A statement fails or the request ends: what was written stays.          *)
Abort(c) ==
    /\ call[c] # Idle
    /\ Return(c)
    /\ UNCHANGED <<now, leases, loop, history>>

-----------------------------------------------------------------------------
(* The ticker puts the time into its channel, which holds one tick; while  *)
(* it is full, ticks are dropped.                                          *)
Tick ==
    /\ ticker = Never
    /\ ticker' = now
    /\ UNCHANGED <<now, leases, call, due, failures, history>>

(* ListActiveExpired with the time of the tick, which may be long past.    *)
DueAtIgnoringExpiry(i, t) == ~ IsRevoked(leases[i])
DueAtIfRenewable(i, t) ==
    ~ IsRevoked(leases[i]) /\ leases[i].expiresAt <= t /\ leases[i].renewable
DueAt(i, t) == ~ IsRevoked(leases[i]) /\ leases[i].expiresAt <= t

ListDue ==
    /\ ticker # Never
    /\ DOMAIN due = {}
    /\ due' = [i \in {j \in Stored : DueAt(j, ticker)} |-> leases[i]]
    /\ ticker' = Never
    /\ UNCHANGED <<now, leases, call, failures, history>>

(* The listed leases are revoked in the order of the rows, which is any,   *)
(* as of the time of expiry that was listed.                               *)
RevokeDueAtPresentExpiry ==
    \E i \in DOMAIN due :
        /\ SetRevoked(i, leases[i].expiresAt)
        /\ due' = [j \in DOMAIN due \ {i} |-> due[j]]
        /\ UNCHANGED <<now, call, ticker, failures, history>>
RevokeDue ==
    \E i \in DOMAIN due :
        /\ SetRevoked(i, due[i].expiresAt)
        /\ due' = [j \in DOMAIN due \ {i} |-> due[j]]
        /\ UNCHANGED <<now, call, ticker, failures, history>>

(* A statement of ExpireDue fails, or the server stops and starts again:   *)
(* the rest of the list is forgotten, and a restart empties the channel.   *)
LoopFails ==
    /\ failures < MaxFailures
    /\ failures' = failures + 1
    /\ due' = << >>
    /\ ticker' \in {ticker, Never}
    /\ UNCHANGED <<now, leases, call, history>>

Next ==
    \/ Advance
    \/ Tick \/ ListDue \/ RevokeDue \/ LoopFails
    \/ \E c \in Clients :
          \/ StartCreate(c) \/ Insert(c)
          \/ StartRenew(c) \/ RenewGet(c) \/ RenewCheck(c) \/ UpdateExpiry(c)
          \/ StartRevoke(c) \/ RevokeGet(c) \/ RevokeUpdate(c)
          \/ Abort(c)

Spec == Init /\ [][Next]_vars

(* The ticker ticks and the loop goroutine runs as long as the server      *)
(* does.  Clients and the clock owe nothing.                               *)
FairSpec == Spec /\ WF_vars(Tick) /\ WF_vars(ListDue) /\ WF_vars(RevokeDue)

-----------------------------------------------------------------------------
(* Every variable keeps its type; ttl_seconds is in seconds.               *)
TypeOK ==
    /\ now \in Time
    /\ Stored \subseteq Ids
    /\ leases \in [Stored -> LeaseRow]
    /\ call \in [Clients -> Call]
    /\ ticker \in Time \cup {Never}
    /\ DOMAIN due \subseteq Stored
    /\ due \in [DOMAIN due -> LeaseRow]
    /\ failures \in 0..MaxFailures
    /\ revokedByCall \subseteq Stored
    /\ renewedLate \subseteq Stored

(* No lease ever runs longer than lease_max_ttl from now, however often it *)
(* is renewed, by whom, and whichever TTL Renew falls back to.             *)
ExpiryWithinMaxTTL == \A i \in Stored : leases[i].expiresAt <= now + MaxTTL

(* No lease is recorded as revoked at a time still to come, although the   *)
(* expiry loop writes a time it read from a row that Renew may have moved. *)
RevocationNotInFuture ==
    \A i \in Stored : IsRevoked(leases[i]) => leases[i].revokedAt <= now

(* A lease lives until its time unless some Revoke call ended it: the      *)
(* expiry loop, working from a list that may be stale, takes none early.   *)
(* A renewal stored before the lease's time is never undone by that list;  *)
(* one stored when the time had come, and the lease may be listed, can be. *)
EarlyRevocationOnlyByCall ==
    \A i \in Stored \ (revokedByCall \cup renewedLate) :
        IsRevoked(leases[i]) =>
            leases[i].revokedAt = leases[i].expiresAt /\ leases[i].expiresAt <= now

(* A revoked lease stays revoked, also when a Renew call that read it      *)
(* before the revocation writes after it.                                  *)
RevokedForever ==
    [][\A i \in Stored : IsRevoked(leases[i]) =>
          i \in DOMAIN leases' /\ IsRevoked(leases'[i])]_vars

IsDue(i) == i \in Stored /\ ~ IsRevoked(leases[i]) /\ leases[i].expiresAt <= now

(* A lease that is due is revoked in the end unless a Renew that was under *)
(* way extends it, whatever the expiry loop fails at a few times over.     *)
DueIsRevoked ==
    \A i \in Ids : IsDue(i) ~> ~ IsDue(i)
==============================================================================
