--------------------------- MODULE LifecycleProofs ----------------------------
(***************************************************************************)
(* Proofs about Lifecycle, for any number of concurrent requests and of    *)
(* connections.                                                            *)
(***************************************************************************)
EXTENDS Lifecycle, FiniteSetTheorems, TLAPS

(* The pool is open while main may use it and closed only by its return;   *)
(* the context of the loop is cancelled before either server is stopped.   *)
PoolFollowsMain ==
    /\ pool = "closed" => main \in {"closing", "returned"}
    /\ main \in {"shutdown", "graceful", "closing", "returned"} => cancelled

(* What has been waited for is idle, and stays so.                         *)
Drained ==
    /\ main \in {"closing", "returned"} => Idle(GrpcCalls)
    /\ (main \in {"graceful", "closing", "returned"} /\ ~ timedOut) => Idle(HttpCalls)
    /\ main \notin {"graceful", "closing"} \cup Over => ~ timedOut

LifeInv ==
    /\ TypeOK /\ PoolFollowsMain /\ Drained
    /\ GrpcNotCut /\ HttpCutOnlyAfterTimeout
    /\ refused # {} => main \in {"closing"} \cup Over

-----------------------------------------------------------------------------
(* The users of the pool are finitely many, so connections can be counted. *)
LEMMA HoldingFinite == IsFiniteSet(Users) /\ IsFiniteSet(Holding)
<1>1. IsFiniteSet(Users)
  BY ConstantsAssumption, FS_AddElement DEF Users
<1>2. Holding \subseteq Users
  BY DEF Holding
<1> QED
  BY <1>1, <1>2, FS_Subset

(* Giving connections back keeps their number within the limit.            *)
LEMMA FewerHolding ==
  ASSUME TypeOK, Holding' \subseteq Holding
  PROVE  Cardinality(Holding') <= MaxConnections
<1>1. /\ IsFiniteSet(Holding) /\ Cardinality(Holding) \in Nat
      /\ Cardinality(Holding') \in Nat /\ Cardinality(Holding') <= Cardinality(Holding)
  BY HoldingFinite, FS_Subset, FS_CardinalityType
<1>2. Cardinality(Holding) <= MaxConnections /\ MaxConnections \in Nat
  BY ConstantsAssumption DEF TypeOK
<1> QED
  BY <1>1, <1>2

(* At the start there is nobody.                                           *)
LEMMA LifeInit == Init => LifeInv
<1> SUFFICES ASSUME Init PROVE LifeInv
  OBVIOUS
<1>1. Cardinality(Holding) = 0
  <2>1. Holding = {}
    BY DEF Init, Holding
  <2> QED
    BY <2>1, FS_EmptySet
<1>2. TypeOK
  <2>1. Cardinality(Holding) <= MaxConnections
    BY <1>1, ConstantsAssumption
  <2>2. server \in [Servers -> {"none", "serving", "failed", "ended"}]
    BY DEF Init
  <2>3. user \in [Users -> {"none", "idle", "holding"}]
    BY DEF Init
  <2> QED
    BY <2>1, <2>2, <2>3 DEF Init, TypeOK
<1> QED
  BY <1>2 DEF Init, LifeInv, PoolFollowsMain, Drained, GrpcNotCut,
              HttpCutOnlyAfterTimeout

-----------------------------------------------------------------------------
(* The steps of main up to serving.                                        *)
LEMMA LifeStart ==
  ASSUME LifeInv, LoadConfig \/ OpenDatabase \/ Migrate \/ Listen \/ StartFails \/ Signal
  PROVE  LifeInv'
<1>1. TypeOK'
  <2>1. Holding' \subseteq Holding
    BY DEF LifeInv, TypeOK, LoadConfig, OpenDatabase, Migrate, Listen, StartFails, Signal,
           Holding, Users
  <2>2. Cardinality(Holding') <= MaxConnections
    BY <2>1, FewerHolding DEF LifeInv
  <2>3. user' \in [Users -> {"none", "idle", "holding"}]
    BY DEF LifeInv, TypeOK, LoadConfig, OpenDatabase, Migrate, Listen, StartFails, Signal
  <2> QED
    BY <2>2, <2>3 DEF LifeInv, TypeOK, Over, LoadConfig, OpenDatabase, Migrate, Listen,
                      StartFails, Signal
<1>2. refused' = {} \/ (main' = main \/ main' = "died")
  BY DEF LoadConfig, OpenDatabase, Migrate, Listen, StartFails, Signal, LifeInv, Over
<1>3. PoolFollowsMain' /\ Drained'
  BY DEF LifeInv, PoolFollowsMain, Drained, Idle, LoadConfig, OpenDatabase, Migrate,
         Listen, StartFails, Signal, Alive, Over
<1>4. GrpcNotCut' /\ HttpCutOnlyAfterTimeout'
      /\ (refused # {} => main \in {"closing"} \cup Over)'
  BY DEF LifeInv, GrpcNotCut, HttpCutOnlyAfterTimeout, LoadConfig, OpenDatabase, Migrate,
         Listen, StartFails, Signal, Alive, Over
<1> QED
  BY <1>1, <1>3, <1>4 DEF LifeInv

(* The goroutines of the servers.                                          *)
LEMMA LifeServer ==
  ASSUME LifeInv, NEW s \in Servers, Serve(s) \/ ServeFails(s)
  PROVE  LifeInv'
<1>1. /\ server' \in [Servers -> {"none", "serving", "failed", "ended"}]
      /\ UNCHANGED <<main, signalled, pool, cancelled, user, timedOut, refused>>
  BY DEF LifeInv, TypeOK, Serve, ServeFails
<1> QED
  BY <1>1 DEF LifeInv, TypeOK, PoolFollowsMain, Drained, Idle, GrpcNotCut,
              HttpCutOnlyAfterTimeout, Holding

(* A request begins only while its server still takes any, so none joins   *)
(* those that have been waited for.                                        *)
LEMMA LifeBegin ==
  ASSUME LifeInv, NEW c \in Calls, Begin(c)
  PROVE  LifeInv'
<1>1. /\ user' = [user EXCEPT ![c] = "idle"] /\ user \in [Users -> {"none", "idle", "holding"}]
      /\ UNCHANGED <<main, signalled, server, pool, cancelled, timedOut, refused>>
  BY DEF LifeInv, TypeOK, Begin
<1>2. main = "serving" \/ (main = "shutdown" /\ c \notin HttpCalls)
  BY DEF Begin, ServerOf, Stopped
<1>3. Holding' \subseteq Holding
  BY <1>1 DEF Holding
<1>4. TypeOK'
  BY <1>1, <1>3, FewerHolding DEF LifeInv, TypeOK
<1> QED
  BY <1>1, <1>2, <1>4 DEF LifeInv, PoolFollowsMain, Drained, GrpcNotCut,
                          HttpCutOnlyAfterTimeout, Over

(* A request or the loop ends, or a statement does.                        *)
LEMMA LifeEnd ==
  ASSUME LifeInv, NEW u \in Users, NEW to \in {"none", "idle"},
         user[u] # "none", Alive,
         user' = [user EXCEPT ![u] = to],
         UNCHANGED <<main, signalled, server, pool, cancelled, timedOut, refused>>
  PROVE  LifeInv'
<1>1. user \in [Users -> {"none", "idle", "holding"}]
  BY DEF LifeInv, TypeOK
<1>2. Holding' \subseteq Holding
  BY <1>1 DEF Holding
<1>3. TypeOK'
  BY <1>1, <1>2, FewerHolding DEF LifeInv, TypeOK
<1>4. \A c \in Calls : user[c] = "none" => user'[c] = "none"
  BY <1>1 DEF Users
<1>5. Drained'
  BY <1>4 DEF LifeInv, Drained, Idle, Calls, Over
<1> QED
  BY <1>3, <1>5 DEF LifeInv, PoolFollowsMain, GrpcNotCut, HttpCutOnlyAfterTimeout

(* A statement begins on one of the connections that are left.             *)
LEMMA LifeAcquire ==
  ASSUME LifeInv, NEW u \in Users, Acquire(u)
  PROVE  LifeInv'
<1>1. /\ user \in [Users -> {"none", "idle", "holding"}] /\ user[u] = "idle" /\ Alive
      /\ user' = [user EXCEPT ![u] = "holding"]
      /\ UNCHANGED <<main, signalled, server, pool, cancelled, timedOut, refused>>
  BY DEF LifeInv, TypeOK, Acquire
<1>2. Cardinality(Holding') <= MaxConnections
  <2>1. Holding' = Holding \cup {u} /\ u \notin Holding
    BY <1>1 DEF Holding
  <2>2. Cardinality(Holding') = Cardinality(Holding) + 1 /\ Cardinality(Holding) \in Nat
    BY <2>1, HoldingFinite, FS_AddElement, FS_CardinalityType
  <2> QED
    BY <2>2, ConstantsAssumption DEF Acquire, Available
<1>3. TypeOK'
  BY <1>1, <1>2 DEF LifeInv, TypeOK
<1>4. \A c \in Calls : user[c] = "none" => user'[c] = "none"
  BY <1>1 DEF Users
<1>5. Drained'
  BY <1>1, <1>4 DEF LifeInv, Drained, Idle, Calls
<1> QED
  BY <1>1, <1>3, <1>5
     DEF LifeInv, PoolFollowsMain, GrpcNotCut, HttpCutOnlyAfterTimeout

(* Who finds the pool closed is an HTTP request that was left behind.      *)
LEMMA LifeRefuse ==
  ASSUME LifeInv, NEW u \in Users, Refuse(u)
  PROVE  LifeInv'
<1>1. main = "closing" /\ cancelled
  BY DEF LifeInv, PoolFollowsMain, Refuse, Alive, Over
<1>2. u \in HttpCalls /\ ~ Idle(HttpCalls)
  <2>1. u # Loop
    BY <1>1 DEF Refuse, Live
  <2>2. u \notin GrpcCalls
    BY <1>1 DEF LifeInv, Drained, Idle, Refuse
  <2> QED
    BY <2>1, <2>2 DEF Users, Calls, Idle, Refuse
<1>3. timedOut
  BY <1>1, <1>2 DEF LifeInv, Drained
<1>4. u \notin GrpcCalls \cup {Loop}
  BY <1>2, ConstantsAssumption DEF Calls
<1>5. /\ refused' = refused \cup {u}
      /\ UNCHANGED <<main, signalled, server, pool, cancelled, user, timedOut>>
  BY DEF Refuse
<1>6. GrpcNotCut'
  BY <1>4, <1>5 DEF LifeInv, GrpcNotCut
<1>7. TypeOK'
  BY <1>5 DEF LifeInv, TypeOK, Holding
<1> QED
  BY <1>1, <1>3, <1>5, <1>6, <1>7
     DEF LifeInv, PoolFollowsMain, Drained, Idle, HttpCutOnlyAfterTimeout,
         Holding, Over

-----------------------------------------------------------------------------
(* The steps of main from serving on.                                      *)
LEMMA LifeStop ==
  ASSUME LifeInv, Leave \/ Shutdown \/ GracefulStop \/ PoolClosed
  PROVE  LifeInv'
<1>1. UNCHANGED <<user, refused, signalled>>
  BY DEF Leave, Shutdown, GracefulStop, PoolClosed
<1>2. Holding' = Holding
  BY <1>1 DEF Holding
<1>3. server' \in [Servers -> {"none", "serving", "failed", "ended"}]
  <2>1. \A s \in Servers :
           [server EXCEPT ![s] = IF @ = "none" THEN "none" ELSE "ended"]
              \in [Servers -> {"none", "serving", "failed", "ended"}]
    BY DEF LifeInv, TypeOK
  <2> QED
    BY <2>1 DEF LifeInv, TypeOK, Leave, Shutdown, GracefulStop, PoolClosed, Servers
<1>4. TypeOK'
  BY <1>1, <1>2, <1>3 DEF LifeInv, TypeOK, Leave, Shutdown, GracefulStop, PoolClosed, Over
<1>5. PoolFollowsMain'
  BY DEF LifeInv, PoolFollowsMain, Leave, Shutdown, GracefulStop, PoolClosed
<1>6. Drained'
  BY DEF LifeInv, Drained, Idle, Leave, Shutdown, GracefulStop, PoolClosed, HttpDrained,
         TimeoutElapsed, GrpcDrained, Over
<1>7. GrpcNotCut' /\ HttpCutOnlyAfterTimeout'
  BY DEF LifeInv, GrpcNotCut, HttpCutOnlyAfterTimeout, Leave, Shutdown, GracefulStop,
         PoolClosed, Over
<1>8. (refused # {} => main \in {"closing"} \cup Over)'
  BY DEF LifeInv, Leave, Shutdown, GracefulStop, PoolClosed, Over
<1> QED
  BY <1>4, <1>5, <1>6, <1>7, <1>8 DEF LifeInv

(* Every step keeps the invariant.                                         *)
LEMMA LifeStep == LifeInv /\ [Next]_vars => LifeInv'
<1> SUFFICES ASSUME LifeInv, [Next]_vars PROVE LifeInv'
  OBVIOUS
<1>1. CASE Main
  BY <1>1, LifeStart, LifeStop DEF Main
<1>2. CASE Signal
  BY <1>2, LifeStart
<1>3. CASE LoopEnds
  BY <1>3, LifeEnd DEF LoopEnds, Users
<1>4. CASE \E s \in Servers : Serve(s) \/ ServeFails(s)
  BY <1>4, LifeServer
<1>5. CASE \E c \in Calls : Begin(c) \/ End(c)
  <2> PICK c \in Calls : Begin(c) \/ End(c)
    BY <1>5
  <2>1. CASE Begin(c)
    BY <2>1, LifeBegin
  <2>2. CASE End(c)
    BY <2>2, LifeEnd DEF End, Users
  <2> QED
    BY <2>1, <2>2
<1>6. CASE \E u \in Users : Acquire(u) \/ Refuse(u) \/ Release(u)
  <2> PICK u \in Users : Acquire(u) \/ Refuse(u) \/ Release(u)
    BY <1>6
  <2>1. CASE Acquire(u)
    BY <2>1, LifeAcquire
  <2>2. CASE Refuse(u)
    BY <2>2, LifeRefuse
  <2>3. CASE Release(u)
    BY <2>3, LifeEnd DEF Release
  <2> QED
    BY <2>1, <2>2, <2>3
<1>7. CASE UNCHANGED vars
  BY <1>7 DEF LifeInv, TypeOK, PoolFollowsMain, Drained, Idle, GrpcNotCut,
              HttpCutOnlyAfterTimeout, Holding, vars
<1> QED
  BY <1>1, <1>2, <1>3, <1>4, <1>5, <1>6, <1>7 DEF Next

-----------------------------------------------------------------------------
(* The invariant of the process.                                           *)
THEOREM LifecycleCorrect == Spec => []LifeInv
  BY LifeInit, LifeStep, PTL DEF Spec

(* Every variable keeps its type, and no more connections are in use than  *)
(* are configured.                                                         *)
THEOREM LifecycleTypeCorrect == Spec => []TypeOK
<1>1. LifeInv => TypeOK
  BY DEF LifeInv
<1> QED
  BY <1>1, LifecycleCorrect, PTL

(* No gRPC call and no pass of the loop finds the pool closed.             *)
THEOREM GrpcNeverCut == Spec => []GrpcNotCut
<1>1. LifeInv => GrpcNotCut
  BY DEF LifeInv
<1> QED
  BY <1>1, LifecycleCorrect, PTL

(* An HTTP request finds the pool closed only after Shutdown gave up.      *)
THEOREM HttpCutAfterTimeout == Spec => []HttpCutOnlyAfterTimeout
<1>1. LifeInv => HttpCutOnlyAfterTimeout
  BY DEF LifeInv
<1> QED
  BY <1>1, LifecycleCorrect, PTL
==============================================================================
