-------------------------- MODULE RateLimiterProofs ---------------------------
(***************************************************************************)
(* Proofs about RateLimiter, for any clients, any configured rate and      *)
(* burst, any resolution of the clock and any limit of the map.            *)
(***************************************************************************)
EXTENDS RateLimiter, TLAPS

(* The burst is positive, whatever is configured: a new window is not full.*)
LEMMA BurstPositive == burst \in Nat \ {0}
  BY ConstantsAssumption DEF burst, rate

(* Every request has an address to be counted under.                       *)
LEMMA KeyIsAddress == \A r \in Requests : clientIP(r) \in Addresses
  BY ConstantsAssumption DEF Requests, clientIP

(* The constants, and the ages of one tick, as the leaves need them.       *)
LEMMA AgesOK ==
  /\ Second \in Nat /\ Second >= 1 /\ Minute \in Nat /\ Minute >= Second
  /\ 0 \in Ages /\ Second - 1 \in Ages
  /\ \A a \in Ages : a \in Nat /\ a <= Second - 1 /\ (a # 0 => a - 1 \in Ages)
  BY ConstantsAssumption DEF Ages

-----------------------------------------------------------------------------
(* A window counts the requests of a client while it is open.              *)
Open(k) == k \in DOMAIN windows /\ ~ Expired(k)

(* What recent says of a client: it only grows with the age; while a       *)
(* window is open, its count is what came since it began and what came     *)
(* before is at most a burst; otherwise all of it is at most a burst, and  *)
(* nothing came in this tick.                                              *)
CountOK(k) ==
    /\ \A a, b \in Ages : a <= b => recent[k][a] <= recent[k][b]
    /\ Open(k) => /\ recent[k][now - windows[k].start] = windows[k].count
                  /\ recent[k][Second - 1] <= burst + windows[k].count
    /\ ~ Open(k) => recent[k][Second - 1] <= burst /\ recent[k][0] = 0

LimiterInv == TypeOK /\ (\A k \in Addresses : CountOK(k)) /\ MapBounded

-----------------------------------------------------------------------------
(* The state a request finds: a new window or the open one.                *)
LEMMA WindowFound ==
  ASSUME TypeOK, NEW k \in Addresses
  PROVE  /\ Window(k) \in [start : 0..now, count : 0..burst]
         /\ Open(k) => Window(k) = windows[k]
         /\ ~ Open(k) => Window(k) = [start |-> now, count |-> 0]
  BY BurstPositive DEF TypeOK, WindowState, Window, NewWindow, Open, Expired

(* What a request that is let through makes of the map: its window counts  *)
(* it, and others stay as they are or, older than a minute, go.            *)
LEMMA WindowsAllowed ==
  ASSUME TypeOK, NEW k \in Addresses, AllowTrue(k)
  PROVE  /\ DOMAIN windows' \subseteq DOMAIN windows \cup {k}
         /\ windows' = [j \in DOMAIN windows' |-> windows'[j]]
         /\ k \in DOMAIN windows'
         /\ windows'[k] = [start |-> Window(k).start, count |-> Window(k).count + 1]
         /\ \A j \in DOMAIN windows' \ {k} : windows'[j] = windows[j]
         /\ \A j \in DOMAIN windows \ DOMAIN windows' : now - windows[j].start > Minute
         /\ Cardinality(DOMAIN windows') > Limit =>
                \A j \in DOMAIN windows' : now - windows'[j].start <= Minute
<1> DEFINE new == [Window(k) EXCEPT !.count = @ + 1]
           map == Put(k, new)
<1>1. Window(k) \in [start : 0..now, count : 0..burst]
  BY WindowFound
<1>2. new = [start |-> Window(k).start, count |-> Window(k).count + 1]
  BY <1>1
<1>3. now \in Nat /\ Window(k).start \in 0..now /\ now - Window(k).start <= Minute
  BY <1>1, WindowFound, ConstantsAssumption, BurstPositive
     DEF TypeOK, Open, Expired, WindowState
<1>4. DOMAIN map = DOMAIN windows \cup {k} /\ map[k] = new
      /\ \A j \in DOMAIN windows \ {k} : map[j] = windows[j]
  BY DEF Put
<1>5. \A j \in DOMAIN windows : windows[j].start \in 0..now
  BY DEF TypeOK, WindowState
<1> HIDE DEF new, map
<1>6. windows' = [j \in Kept(map) |-> map[j]]
  BY DEF AllowTrue, Sweep, new, map
<1>7. DOMAIN windows' = Kept(map)
  BY <1>6
<1>8. CASE Cardinality(DOMAIN map) > Limit
  <2>1. DOMAIN windows' = {j \in DOMAIN map : now - map[j].start <= Minute}
    BY <1>7, <1>8 DEF Kept, Swept
  <2>2. k \in DOMAIN windows'
    BY <2>1, <1>2, <1>3, <1>4
  <2>3. \A j \in DOMAIN windows \ DOMAIN windows' : now - windows[j].start > Minute
    BY <2>1, <2>2, <1>3, <1>4, <1>5, ConstantsAssumption
  <2> QED
    BY <2>1, <2>2, <2>3, <1>2, <1>4, <1>6
<1>9. CASE ~ (Cardinality(DOMAIN map) > Limit)
  <2>1. DOMAIN windows' = DOMAIN map
    BY <1>7, <1>9 DEF Kept
  <2> QED
    BY <2>1, <1>2, <1>4, <1>6, <1>9
<1> QED
  BY <1>8, <1>9

(* A request that is turned away changes nothing: its window is open.      *)
LEMMA WindowsDenied ==
  ASSUME TypeOK, NEW k \in Addresses, AllowFalse(k)
  PROVE  Open(k) /\ UNCHANGED vars
<1>1. Open(k) /\ Window(k) = windows[k]
  BY WindowFound, BurstPositive DEF AllowFalse, Full
<1>2. windows = [j \in DOMAIN windows |-> windows[j]]
  BY DEF TypeOK
<1>3. windows' = windows
  BY <1>1, <1>2 DEF AllowFalse, Put, Open
<1> QED
  BY <1>1, <1>3 DEF AllowFalse, vars

-----------------------------------------------------------------------------
(* Before the first request every count is zero and there is no window.    *)
LEMMA LimiterInit == Init => LimiterInv
<1> SUFFICES ASSUME Init PROVE LimiterInv
  OBVIOUS
<1> USE ConstantsAssumption, BurstPositive
<1>1. TypeOK
  BY DEF Init, TypeOK, WindowState, Ages
<1>2. \A k \in Addresses : CountOK(k)
  BY DEF Init, CountOK, Open, Ages
<1>3. MapBounded
  BY DEF Init, MapBounded
<1> QED
  BY <1>1, <1>2, <1>3 DEF LimiterInv

(* Time passes: what is recent ages, and a window may end.                 *)
LEMMA LimiterTick == LimiterInv /\ Tick => LimiterInv'
<1> SUFFICES ASSUME LimiterInv, Tick PROVE LimiterInv'
  OBVIOUS
<1> USE AgesOK, BurstPositive
<1>1. TypeOK'
  <2>1. now \in Nat /\ now' = now + 1 /\ now' \in 0..MaxNow
    BY ConstantsAssumption DEF LimiterInv, TypeOK, Tick
  <2>2. lastAllowed' \in 0..now'
    BY <2>1 DEF LimiterInv, TypeOK, Tick
  <2>3. [start : 0..now, count : 1..burst] \subseteq [start : 0..now', count : 1..burst]
    BY <2>1
  <2>4. windows' \in [DOMAIN windows' -> [start : 0..now', count : 1..burst]]
    BY <2>3 DEF LimiterInv, TypeOK, Tick, WindowState
  <2>5. recent' \in [Addresses -> [Ages -> Nat]]
    BY DEF LimiterInv, TypeOK, Tick
  <2> QED
    BY <2>1, <2>2, <2>4, <2>5 DEF LimiterInv, TypeOK, Tick, WindowState
<1>2. ASSUME NEW k \in Addresses PROVE CountOK(k)'
  <2>1. now \in Nat /\ recent[k] \in [Ages -> Nat]
    BY DEF LimiterInv, TypeOK
  <2>2. k \in DOMAIN windows => windows[k].start \in 0..now /\ windows[k].count \in 1..burst
    BY DEF LimiterInv, TypeOK, WindowState
  <2>3. CountOK(k)
    BY DEF LimiterInv
  <2>4. \A a \in Ages : recent'[k][a] = IF a = 0 THEN 0 ELSE recent[k][a - 1]
    BY DEF Tick
  <2>5. now' = now + 1 /\ windows' = windows
    BY DEF Tick
  <2>m. \A a, b \in Ages : a <= b => recent[k][a] <= recent[k][b]
    BY <2>3 DEF CountOK
  <2>n. \A a \in Ages : recent[k][a] \in Nat
    BY <2>1
  <2>6. recent'[k][Second - 1] <= recent[k][Second - 1] /\ recent'[k][0] = 0
    <3>1. CASE Second = 1
      BY <3>1, <2>4, <2>n
    <3>2. CASE Second # 1
      <4>1. Second - 2 \in Ages /\ recent'[k][Second - 1] = recent[k][Second - 2]
        BY <3>2, <2>4 DEF Ages
      <4> QED
        BY <4>1, <2>4, <2>m
    <3> QED
      BY <3>1, <3>2
  <2>7. \A a, b \in Ages : a <= b => recent'[k][a] <= recent'[k][b]
    <3> SUFFICES ASSUME NEW a \in Ages, NEW b \in Ages, a <= b
                 PROVE  recent'[k][a] <= recent'[k][b]
      OBVIOUS
    <3>1. CASE a = 0
      <4>1. recent'[k][a] = 0 /\ recent'[k][b] \in Nat
        BY <3>1, <2>4, <2>n
      <4> QED
        BY <4>1
    <3>2. CASE a # 0
      <4>1. b # 0 /\ a - 1 \in Ages /\ b - 1 \in Ages /\ a - 1 <= b - 1
        BY <3>2 DEF Ages
      <4>2. recent'[k][a] = recent[k][a - 1] /\ recent'[k][b] = recent[k][b - 1]
        BY <3>2, <4>1, <2>4
      <4>3. recent[k][a - 1] <= recent[k][b - 1]
        BY <4>1, <2>m
      <4> QED
        BY <4>2, <4>3
    <3> QED
      BY <3>1, <3>2
  <2>8. CASE Open(k)'
    <3>1. Open(k) /\ now - windows[k].start + 1 \in Ages
      <4>1. k \in DOMAIN windows' /\ ~ (now' - windows'[k].start >= Second)
        BY ONLY <2>8 DEF Open, Expired
      <4>2. k \in DOMAIN windows /\ windows[k].start \in 0..now /\ Second \in Nat
        BY <2>2, <2>5, <4>1, ConstantsAssumption DEF ConstantsAssumption
      <4>3. now + 1 - windows[k].start < Second
        BY ONLY <2>1, <2>5, <4>1, <4>2
      <4> QED
        BY ONLY <2>1, <4>2, <4>3 DEF Open, Expired, Ages
    <3> DEFINE age == now - windows[k].start
    <3>2. age \in Nat /\ now' - windows'[k].start = age + 1
      BY <3>1, <2>1, <2>2, <2>5 DEF Open
    <3>3. recent[k][age] = windows[k].count /\ recent[k][Second - 1] <= burst + windows[k].count
      BY <3>1, <2>3 DEF CountOK
    <3> HIDE DEF age
    <3>4. recent'[k][age + 1] = recent[k][age]
      BY <3>1, <3>2, <2>4 DEF age
    <3>5. recent'[k][now' - windows'[k].start] = windows'[k].count
      BY <3>2, <3>3, <3>4, <2>5
    <3>6. recent'[k][Second - 1] <= burst + windows'[k].count
      <4>1. windows[k].count \in Nat /\ recent[k][Second - 1] \in Nat
            /\ recent'[k][Second - 1] \in Nat
        BY <3>1, <2>2, <2>4, <2>n DEF Open
      <4> QED
        BY <4>1, <3>3, <2>5, <2>6
    <3> QED
      BY <3>5, <3>6, <2>7, <2>8 DEF CountOK
  <2>9. CASE ~ Open(k)' /\ Open(k)
    <3>1. now - windows[k].start = Second - 1
      BY <2>1, <2>2, <2>5, <2>9 DEF Open, Expired
    <3>2. recent[k][Second - 1] <= burst
      BY <3>1, <2>2, <2>3, <2>9 DEF CountOK, Open
    <3>3. recent[k][Second - 1] \in Nat /\ recent'[k][Second - 1] \in Nat
      BY <2>4, <2>n
    <3>4. recent'[k][Second - 1] <= burst
      BY <3>2, <3>3, <2>6
    <3> QED
      BY <3>4, <2>6, <2>7, <2>9 DEF CountOK
  <2>10. CASE ~ Open(k)' /\ ~ Open(k)
    <3>1. recent[k][Second - 1] \in Nat /\ recent'[k][Second - 1] \in Nat
      BY <2>4, <2>n
    <3>2. recent'[k][Second - 1] <= burst
      BY <3>1, <2>3, <2>6, <2>10 DEF CountOK
    <3> QED
      BY <3>2, <2>6, <2>7, <2>10 DEF CountOK
  <2> QED
    BY <2>8, <2>9, <2>10
<1>3. MapBounded'
  BY DEF LimiterInv, MapBounded, Tick
<1> QED
  BY <1>1, <1>2, <1>3 DEF LimiterInv

(* A request is let through and counted.                                   *)
LEMMA LimiterAllow ==
  ASSUME LimiterInv, NEW k \in Addresses, AllowTrue(k)
  PROVE  LimiterInv'
<1> USE ConstantsAssumption, BurstPositive
<1>0. TypeOK
  BY DEF LimiterInv
<1>1. /\ now \in Nat /\ now' = now /\ lastAllowed' = now
      /\ recent \in [Addresses -> [Ages -> Nat]]
      /\ recent' = [recent EXCEPT ![k] = [a \in Ages |-> recent[k][a] + 1]]
  BY <1>0 DEF TypeOK, AllowTrue
<1>2. Window(k) \in [start : 0..now, count : 0..burst] /\ Window(k).count < burst
  BY <1>0, <1>1, WindowFound DEF AllowTrue, Full
<1>3. TypeOK'
  <2>1. \A j \in DOMAIN windows' : windows'[j] \in [start : 0..now, count : 1..burst]
    <3>1. windows'[k] \in [start : 0..now, count : 1..burst]
      <4>1. Window(k).start \in 0..now /\ Window(k).count + 1 \in 1..burst
        BY <1>2
      <4>2. windows'[k] = [start |-> Window(k).start, count |-> Window(k).count + 1]
        BY <1>0, WindowsAllowed
      <4> QED
        BY <4>1, <4>2
    <3>2. \A j \in DOMAIN windows' \ {k} : j \in DOMAIN windows /\ windows'[j] = windows[j]
      BY <1>0, WindowsAllowed
    <3> QED
      BY <3>1, <3>2, <1>0 DEF TypeOK, WindowState
  <2>2. windows' \in [DOMAIN windows' -> [start : 0..now, count : 1..burst]]
    BY <2>1, <1>0, WindowsAllowed
  <2>3. DOMAIN windows' \subseteq Addresses
    BY <1>0, WindowsAllowed DEF TypeOK
  <2>4. recent' \in [Addresses -> [Ages -> Nat]]
    BY <1>1
  <2> QED
    BY <2>2, <2>3, <2>4, <1>0, <1>1 DEF TypeOK, WindowState
<1>4. CountOK(k)'
  <2>1. \A a \in Ages : recent'[k][a] = recent[k][a] + 1 /\ recent[k][a] \in Nat
    BY <1>1
  <2>2. CountOK(k)
    BY DEF LimiterInv
  <2>3. /\ k \in DOMAIN windows'
        /\ windows'[k].start = Window(k).start
        /\ windows'[k].count = Window(k).count + 1
    <3>1. k \in DOMAIN windows'
      BY <1>0, WindowsAllowed
    <3>2. windows'[k] = [start |-> Window(k).start, count |-> Window(k).count + 1]
      BY <1>0, WindowsAllowed
    <3> QED
      BY <3>1, <3>2
  <2>4. \A a, b \in Ages : a <= b => recent'[k][a] <= recent'[k][b]
    <3> SUFFICES ASSUME NEW a \in Ages, NEW b \in Ages, a <= b
                 PROVE  recent'[k][a] <= recent'[k][b]
      OBVIOUS
    <3>1. recent[k][a] <= recent[k][b]
      BY <2>2 DEF CountOK
    <3>2. /\ recent'[k][a] = recent[k][a] + 1 /\ recent[k][a] \in Nat
          /\ recent'[k][b] = recent[k][b] + 1 /\ recent[k][b] \in Nat
      BY <2>1
    <3> QED
      BY <3>1, <3>2
  <2>5. CASE Open(k)
    <3>1. Window(k) = windows[k]
      BY <1>0, <2>5, WindowFound
    <3>2. Open(k)' /\ now - windows[k].start \in Ages
      BY <1>1, <1>2, <2>3, <2>5, <3>1 DEF Open, Expired, Ages
    <3> DEFINE age == now - windows[k].start
    <3>3. age \in Ages /\ Second - 1 \in Ages /\ now' - windows'[k].start = age
      BY <1>1, <2>3, <3>1, <3>2 DEF Ages
    <3> HIDE DEF age
    <3>4. recent[k][age] = windows[k].count /\ recent[k][Second - 1] <= burst + windows[k].count
      BY <2>2, <2>5 DEF CountOK, age
    <3>5. windows'[k].count = windows[k].count + 1 /\ windows[k].count \in Nat
      BY <1>2, <2>3, <3>1
    <3>6. recent'[k][age] = windows'[k].count
      BY <2>1, <3>3, <3>4, <3>5
    <3>7. recent'[k][Second - 1] <= burst + windows'[k].count
      BY <2>1, <3>3, <3>4, <3>5
    <3> QED
      BY <2>4, <3>2, <3>3, <3>6, <3>7 DEF CountOK
  <2>6. CASE ~ Open(k)
    <3>1. Window(k) = [start |-> now, count |-> 0]
      BY <1>0, <2>6, WindowFound
    <3>2. windows'[k].start = now /\ windows'[k].count = 1
      BY <2>3, <3>1
    <3>3. Open(k)'
      BY <1>1, <2>3, <3>2 DEF Open, Expired
    <3>4. recent'[k][0] = 1 /\ recent'[k][Second - 1] <= burst + 1
      BY <2>1, <2>2, <2>6 DEF CountOK, Ages
    <3> QED
      BY <1>1, <2>4, <3>2, <3>3, <3>4 DEF CountOK
  <2> QED
    BY <2>5, <2>6
<1>5. ASSUME NEW j \in Addresses \ {k} PROVE CountOK(j)'
  <2>1. recent'[j] = recent[j]
    BY <1>1
  <2>2. Open(j)' <=> Open(j)
    <3>1. CASE j \in DOMAIN windows'
      <4>1. j \in DOMAIN windows /\ windows'[j] = windows[j]
        BY <3>1, <1>0, WindowsAllowed
      <4> QED
        BY <3>1, <4>1, <1>1 DEF Open, Expired
    <3>2. CASE j \in DOMAIN windows \ DOMAIN windows'
      <4>1. now - windows[j].start > Minute
        BY <3>2, <1>0, WindowsAllowed
      <4>2. windows[j].start \in 0..now
        BY <3>2, <1>0 DEF TypeOK, WindowState
      <4>3. Expired(j)
        BY <4>1, <4>2, <1>1, AgesOK DEF Expired
      <4> QED
        BY <3>2, <4>3 DEF Open
    <3>3. CASE j \notin DOMAIN windows \cup DOMAIN windows'
      BY <3>3 DEF Open
    <3> QED
      BY <3>1, <3>2, <3>3
  <2>3. Open(j) => windows'[j] = windows[j]
    BY <1>0, <2>2, WindowsAllowed DEF Open
  <2> QED
    BY <1>1, <2>1, <2>2, <2>3 DEF LimiterInv, CountOK
<1>6. MapBounded'
  BY <1>0, <1>1, WindowsAllowed DEF MapBounded
<1> QED
  BY <1>3, <1>4, <1>5, <1>6 DEF LimiterInv

(* Every step keeps the invariant.                                         *)
LEMMA LimiterStep == LimiterInv /\ [Next]_vars => LimiterInv'
<1> SUFFICES ASSUME LimiterInv, [Next]_vars PROVE LimiterInv'
  OBVIOUS
<1>1. CASE Tick
  BY <1>1, LimiterTick
<1>2. ASSUME NEW r \in Requests, withRateLimit(r) PROVE LimiterInv'
  <2>1. clientIP(r) \in Addresses
    BY KeyIsAddress
  <2>2. CASE AllowTrue(clientIP(r))
    BY <2>1, <2>2, LimiterAllow
  <2>3. CASE AllowFalse(clientIP(r))
    <3>1. UNCHANGED vars
      BY <2>1, <2>3, WindowsDenied DEF LimiterInv
    <3> QED
      BY <3>1 DEF LimiterInv, TypeOK, WindowState, CountOK, Open, Expired, MapBounded, vars
  <2> QED
    BY <1>2, <2>2, <2>3 DEF withRateLimit
<1>3. CASE UNCHANGED vars
  BY <1>3 DEF LimiterInv, TypeOK, WindowState, CountOK, Open, Expired, MapBounded, vars
<1> QED
  BY <1>1, <1>2, <1>3 DEF Next

-----------------------------------------------------------------------------
(* The invariant of the limiter.                                           *)
THEOREM LimiterCorrect == Spec => []LimiterInv
  BY LimiterInit, LimiterStep, PTL DEF Spec

(* Windows lie in the past and hold at most a burst of requests.           *)
THEOREM LimiterTypeCorrect == Spec => []TypeOK
<1>1. LimiterInv => TypeOK
  BY DEF LimiterInv
<1> QED
  BY <1>1, LimiterCorrect, PTL

(* No client gets more than two bursts through in less than a second.      *)
THEOREM AtMostTwoBursts == Spec => []TwiceBurst
<1>1. LimiterInv => TwiceBurst
  <2> SUFFICES ASSUME LimiterInv, NEW k \in Addresses
               PROVE  recent[k][Second - 1] <= 2 * burst
    BY DEF TwiceBurst
  <2>1. recent[k][Second - 1] \in Nat
    BY ConstantsAssumption DEF LimiterInv, TypeOK, Ages
  <2>2. k \in DOMAIN windows => windows[k].count \in 1..burst
    BY DEF LimiterInv, TypeOK, WindowState
  <2> QED
    BY <2>1, <2>2, BurstPositive DEF LimiterInv, CountOK, Open
<1> QED
  BY <1>1, LimiterCorrect, PTL

(* A client that is turned away got a burst through less than a second ago.*)
THEOREM DeniedOnlyForBurst == Spec => []DeniedForBurst
<1>1. LimiterInv => DeniedForBurst
  <2> SUFFICES ASSUME LimiterInv, NEW k \in Addresses, Full(Window(k))
               PROVE  recent[k][Second - 1] >= burst
    BY DEF DeniedForBurst
  <2>1. Open(k) /\ Window(k) = windows[k]
    BY WindowFound, BurstPositive DEF LimiterInv, Full
  <2>2. windows[k].start \in 0..now /\ windows[k].count \in 1..burst /\ now \in Nat
    BY <2>1 DEF LimiterInv, TypeOK, WindowState, Open
  <2>3. now - windows[k].start \in Ages /\ Second - 1 \in Ages
    BY <2>1, <2>2, ConstantsAssumption DEF Open, Expired, Ages
  <2>4. recent[k][now - windows[k].start] <= recent[k][Second - 1]
    BY <2>3, ConstantsAssumption DEF LimiterInv, CountOK, Ages
  <2>5. recent[k][Second - 1] \in Nat
    BY <2>3 DEF LimiterInv, TypeOK
  <2> QED
    BY <2>1, <2>2, <2>4, <2>5, BurstPositive DEF LimiterInv, CountOK, Full
<1> QED
  BY <1>1, LimiterCorrect, PTL

(* Beyond its limit the map holds no window older than a minute at the     *)
(* last request that was let through.                                      *)
THEOREM MapStaysBounded == Spec => []MapBounded
<1>1. LimiterInv => MapBounded
  BY DEF LimiterInv
<1> QED
  BY <1>1, LimiterCorrect, PTL
==============================================================================
