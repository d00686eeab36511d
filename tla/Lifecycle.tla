------------------------------ MODULE Lifecycle -------------------------------
(***************************************************************************)
(* The life of the server process, cmd/server/main.go: it starts, serves   *)
(* until a signal or a listener stops it, and shuts down piece by piece,   *)
(* while requests of both gateways and the expiry loop use the pool.       *)
(*                                                                         *)
(* The servers and the pool are external and as documented: http.Server's  *)
(* Shutdown waits for the requests in progress until its context ends,     *)
(* grpc's GracefulStop waits for its calls without limit, neither cancels  *)
(* them, and pgxpool's Close refuses connections from then on and waits    *)
(* for the ones in use.                                                    *)
(*                                                                         *)
(* signal.NotifyContext takes signals until stop() runs, which is deferred *)
(* first and so runs last: a second signal does nothing.                   *)
(***************************************************************************)
EXTENDS Integers, FiniteSets

CONSTANTS
    HttpCalls, GrpcCalls,     \* concurrent request slots of the gateways
    Loop,                     \* the goroutine leaseExpiryLoop
    MaxConnections            \* configuration: database.max_connections

Calls == HttpCalls \cup GrpcCalls
Users == Calls \cup {Loop}
Servers == {"http", "grpc"}

ASSUME ConstantsAssumption ==
    /\ HttpCalls \cap GrpcCalls = {}
    /\ Loop \notin Calls
    /\ IsFiniteSet(Calls)
    /\ MaxConnections \in Nat \ {0}

VARIABLES
    main,            \* where main is; "died": os.Exit, or killed
    signalled,       \* SIGINT or SIGTERM arrived
    server,          \* its goroutine: not there yet, in Serve, out of it
    pool,            \* pgxpool.Pool
    cancelled,       \* expiryCtx
    user,            \* a request, or the loop in ExpireDue: does it hold a
                     \* connection?
    timedOut,        \* history: Shutdown gave up waiting
    refused          \* history: who found the pool closed, uncancelled

vars == <<main, signalled, server, pool, cancelled, user, timedOut, refused>>

Over == {"returned", "died"}
Alive == main \notin Over

Init ==
    /\ main = "config"
    /\ signalled = FALSE
    /\ server = [s \in Servers |-> "none"]
    /\ pool = "none"
    /\ cancelled = FALSE
    /\ user = [u \in Users |-> "none"]
    /\ timedOut = FALSE
    /\ refused = {}

-----------------------------------------------------------------------------
(* The steps of the start.  The context of the signals is there after the  *)
(* first, and the next two, which run statements under it, fail with it.   *)
LoadConfig ==
    /\ main = "config"
    /\ main' = "database"
    /\ UNCHANGED <<signalled, server, pool, cancelled, user, timedOut, refused>>

OpenDatabase ==
    /\ main = "database" /\ ~ signalled
    /\ main' = "migrate"
    /\ pool' = "open"
    /\ UNCHANGED <<signalled, server, cancelled, user, timedOut, refused>>

(* The loop is started before the listeners are.                           *)
Migrate ==
    /\ main = "migrate" /\ ~ signalled
    /\ main' = "listen"
    /\ user' = [user EXCEPT ![Loop] = "idle"]
    /\ UNCHANGED <<signalled, server, pool, cancelled, timedOut, refused>>

Listen ==
    /\ main = "listen"
    /\ main' = "serving"
    /\ UNCHANGED <<signalled, server, pool, cancelled, user, timedOut, refused>>

(* os.Exit runs nothing that is deferred.                                  *)
StartFails ==
    /\ main \in {"config", "database", "migrate", "listen"}
    /\ main' = "died"
    /\ UNCHANGED <<signalled, server, pool, cancelled, user, timedOut, refused>>

Signal ==
    /\ Alive /\ ~ signalled
    /\ signalled' = TRUE
    /\ main' = IF main = "config" THEN "died" ELSE main
    /\ UNCHANGED <<server, pool, cancelled, user, timedOut, refused>>

-----------------------------------------------------------------------------
(* The two goroutines.  A server that main has stopped returns at once.    *)
Stopped(s) == CASE s = "http" -> main \notin {"serving"}
                [] s = "grpc" -> main \notin {"serving", "shutdown"}

Serve(s) ==
    /\ Alive /\ main \notin {"config", "database", "migrate", "listen"}
    /\ server[s] = "none"
    /\ server' = [server EXCEPT ![s] = IF Stopped(s) THEN "ended" ELSE "serving"]
    /\ UNCHANGED <<main, signalled, pool, cancelled, user, timedOut, refused>>

(* Accept failed for good; requests in progress go on.                     *)
ServeFails(s) ==
    /\ Alive /\ server[s] = "serving"
    /\ server' = [server EXCEPT ![s] = "failed"]
    /\ UNCHANGED <<main, signalled, pool, cancelled, user, timedOut, refused>>

ServerOf(c) == IF c \in HttpCalls THEN "http" ELSE "grpc"

Begin(c) ==
    /\ Alive /\ user[c] = "none"
    /\ server[ServerOf(c)] = "serving" /\ ~ Stopped(ServerOf(c))
    /\ user' = [user EXCEPT ![c] = "idle"]
    /\ UNCHANGED <<main, signalled, server, pool, cancelled, timedOut, refused>>

End(c) ==
    /\ Alive /\ user[c] = "idle"
    /\ user' = [user EXCEPT ![c] = "none"]
    /\ UNCHANGED <<main, signalled, server, pool, cancelled, timedOut, refused>>

-----------------------------------------------------------------------------
Holding == {u \in Users : user[u] = "holding"}
Live(u) == u = Loop => ~ cancelled

(* A statement or a transaction begins: it needs a connection.  The loop's *)
(* are refused once its context is cancelled, and so is not yet by then.   *)
(* (Mutant: MaxConns is not set.)                                          *)
Unlimited == TRUE
Available == Cardinality(Holding) < MaxConnections

Acquire(u) ==
    /\ Alive /\ user[u] = "idle" /\ Live(u)
    /\ pool = "open" /\ Available
    /\ user' = [user EXCEPT ![u] = "holding"]
    /\ UNCHANGED <<main, signalled, server, pool, cancelled, timedOut, refused>>

Refuse(u) ==
    /\ Alive /\ user[u] = "idle" /\ Live(u)
    /\ pool = "closed"
    /\ refused' = refused \cup {u}
    /\ UNCHANGED <<main, signalled, server, pool, cancelled, user, timedOut>>

(* It ends, or fails because its context does.                             *)
Release(u) ==
    /\ Alive /\ user[u] = "holding"
    /\ user' = [user EXCEPT ![u] = "idle"]
    /\ UNCHANGED <<main, signalled, server, pool, cancelled, timedOut, refused>>

LoopEnds ==
    /\ Alive /\ user[Loop] = "idle" /\ cancelled
    /\ user' = [user EXCEPT ![Loop] = "none"]
    /\ UNCHANGED <<main, signalled, server, pool, cancelled, timedOut, refused>>

-----------------------------------------------------------------------------
(* select: a signal, or one of the servers has stopped by itself.          *)
Leave ==
    /\ main = "serving"
    /\ signalled \/ \E s \in Servers : server[s] = "failed"
    /\ main' = "shutdown"
    /\ cancelled' = TRUE
    /\ server' = [server EXCEPT !["http"] = IF @ = "none" THEN "none" ELSE "ended"]
    /\ UNCHANGED <<signalled, pool, user, timedOut, refused>>

Idle(calls) == \A c \in calls : user[c] = "none"

(* httpSrv.Shutdown returns, with or without an error, and GracefulStop    *)
(* begins.  (Mutants: Close instead of Shutdown; no time limit.)           *)
HttpClosed == TRUE
HttpDrained == Idle(HttpCalls)
NeverElapsed == FALSE
TimeoutElapsed == ~ Idle(HttpCalls)

Shutdown ==
    /\ main = "shutdown"
    /\ \/ HttpDrained /\ UNCHANGED timedOut
       \/ TimeoutElapsed /\ timedOut' = TRUE
    /\ main' = "graceful"
    /\ server' = [server EXCEPT !["grpc"] = IF @ = "none" THEN "none" ELSE "ended"]
    /\ UNCHANGED <<signalled, pool, cancelled, user, refused>>

(* GracefulStop returns, and main does: the deferred pool.Close begins.    *)
(* (Mutant: Stop instead of GracefulStop.)                                 *)
GrpcStopped == TRUE
GrpcDrained == Idle(GrpcCalls)

GracefulStop ==
    /\ main = "graceful" /\ GrpcDrained
    /\ main' = "closing"
    /\ pool' = "closed"
    /\ UNCHANGED <<signalled, server, cancelled, user, timedOut, refused>>

(* Close waits for the connections in use, those of the loop and of        *)
(* requests left behind too.                                               *)
AllReturned == Holding = {}

PoolClosed ==
    /\ main = "closing" /\ AllReturned
    /\ main' = "returned"
    /\ UNCHANGED <<signalled, server, pool, cancelled, user, timedOut, refused>>

-----------------------------------------------------------------------------
Main == LoadConfig \/ OpenDatabase \/ Migrate \/ Listen \/ StartFails
        \/ Leave \/ Shutdown \/ GracefulStop \/ PoolClosed

Next ==
    \/ Main \/ Signal \/ LoopEnds
    \/ \E s \in Servers : Serve(s) \/ ServeFails(s)
    \/ \E c \in Calls : Begin(c) \/ End(c)
    \/ \E u \in Users : Acquire(u) \/ Refuse(u) \/ Release(u)

(* main runs and its timer fires, and statements end.  Nothing is assumed  *)
(* of requests between their statements, nor of those who make them.       *)
Fairness == WF_vars(Main) /\ \A u \in Users : WF_vars(Release(u))

Spec == Init /\ [][Next]_vars /\ Fairness

-----------------------------------------------------------------------------
(* Every variable keeps its type; no more connections than configured.     *)
TypeOK ==
    /\ main \in {"config", "database", "migrate", "listen", "serving", "shutdown",
                 "graceful", "closing"} \cup Over
    /\ signalled \in BOOLEAN /\ cancelled \in BOOLEAN /\ timedOut \in BOOLEAN
    /\ server \in [Servers -> {"none", "serving", "failed", "ended"}]
    /\ pool \in {"none", "open", "closed"}
    /\ user \in [Users -> {"none", "idle", "holding"}]
    /\ Cardinality(Holding) <= MaxConnections
    /\ refused \subseteq Users

(* No gRPC call in progress, and no pass of the expiry loop that was not   *)
(* told to stop, ever finds the pool closed, wherever the signal, an early *)
(* end of a server or a late begin of its goroutine falls.                 *)
GrpcNotCut == refused \cap (GrpcCalls \cup {Loop}) = {}

(* An HTTP request finds the pool closed, and so may have done its work    *)
(* without recording it, only if Shutdown gave up waiting.                 *)
HttpCutOnlyAfterTimeout == refused # {} => timedOut

(* After a signal the process ends, unless a gRPC call never does.  An     *)
(* HTTP request that never ends does not keep it.                          *)
ShutdownCompletes ==
    (signalled ~> ~ Alive) \/ <>[](~ Idle(GrpcCalls))
==============================================================================
