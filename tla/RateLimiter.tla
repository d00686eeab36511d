----------------------------- MODULE RateLimiter ------------------------------
(***************************************************************************)
(* The limiter in front of the REST gateway, api/http/middleware.go: per   *)
(* client a window of one second that begins with its first request, and a *)
(* number of requests it may make before the window ends.  Allow holds the *)
(* mutex from its first line to its last, so a request is one step.        *)
(*                                                                         *)
(* Time is discrete; the clock is monotonic, as that of Go's time.Sub is.  *)
(* The configured rate only matters for what the burst falls back to.      *)
(***************************************************************************)
EXTENDS Integers, FiniteSets

CONSTANTS
    Addresses,       \* remote addresses, and values of X-Forwarded-For
    NoHeader,        \* a request without X-Forwarded-For
    RatePerSecond, RateBurst,     \* configuration: limits
    Second, Minute,  \* in ticks of the clock
    Limit,           \* how many windows are kept without sweeping, 10000
    MaxNow           \* bound: when the clock stops

ASSUME ConstantsAssumption ==
    /\ NoHeader \notin Addresses
    /\ RatePerSecond \in Int /\ RateBurst \in Int
    /\ Second \in Nat \ {0} /\ Minute \in Nat /\ Minute >= Second
    /\ Limit \in Nat
    /\ MaxNow \in Nat

rate == IF RatePerSecond <= 0 THEN 100 ELSE RatePerSecond
burst == IF RateBurst <= 0 THEN rate * 2 ELSE RateBurst

VARIABLES
    now,
    windows,         \* slidingWindowLimiter.windows: key -> windowState
    recent,          \* history: how many requests of a client were let
                     \* through in this and the a ticks before it
    lastAllowed      \* history: when a request was last let through

vars == <<now, windows, recent, lastAllowed>>

Ages == 0..(Second - 1)

Init ==
    /\ now = 0
    /\ windows = [k \in {} |-> 0]
    /\ recent = [k \in Addresses |-> [a \in Ages |-> 0]]
    /\ lastAllowed = 0

-----------------------------------------------------------------------------
Requests == [forwarded : Addresses \cup {NoHeader}, remote : Addresses]

clientIP(r) == IF r.forwarded # NoHeader THEN r.forwarded ELSE r.remote

Expired(k) == now - windows[k].start >= Second

(* The state of the client's window as the request finds it.               *)
(* (Mutant: a window that is over keeps its count.)                        *)
NewWindow == [start |-> now, count |-> 0]
StaleWindow(k) ==
    IF k \notin DOMAIN windows THEN NewWindow ELSE [windows[k] EXCEPT !.start = now]
Window(k) == IF k \notin DOMAIN windows \/ Expired(k) THEN NewWindow ELSE windows[k]

Put(k, state) == [j \in DOMAIN windows \cup {k} |-> IF j = k THEN state ELSE windows[j]]

(* What is left of a map with more than Limit windows: those that started  *)
(* at most a minute ago.  (Mutants: the comparison the other way round, so *)
(* that the windows in use go; no comparison, so that all of them stay.)   *)
SweptYoung(map) == {k \in DOMAIN map : now - map[k].start >= Minute}
SweptNone(map) == DOMAIN map
Swept(map) == {k \in DOMAIN map : now - map[k].start <= Minute}
Kept(map) == IF Cardinality(DOMAIN map) > Limit THEN Swept(map) ELSE DOMAIN map
Sweep(map) == [k \in Kept(map) |-> map[k]]

(* (Mutant: one request too many.)                                         *)
OverFull(state) == state.count > burst
Full(state) == state.count >= burst

(* Allow returns true, or false: too many requests.                        *)
AllowTrue(k) ==
    /\ ~ Full(Window(k))
    /\ windows' = Sweep(Put(k, [Window(k) EXCEPT !.count = @ + 1]))
    /\ recent' = [recent EXCEPT ![k] = [a \in Ages |-> @[a] + 1]]
    /\ lastAllowed' = now
    /\ UNCHANGED now

AllowFalse(k) ==
    /\ Full(Window(k))
    /\ windows' = Put(k, Window(k))
    /\ UNCHANGED <<now, recent, lastAllowed>>

withRateLimit(r) == AllowTrue(clientIP(r)) \/ AllowFalse(clientIP(r))

Tick ==
    /\ now < MaxNow
    /\ now' = now + 1
    /\ recent' = [k \in Addresses |->
                     [a \in Ages |-> IF a = 0 THEN 0 ELSE recent[k][a - 1]]]
    /\ UNCHANGED <<windows, lastAllowed>>

Next == Tick \/ \E r \in Requests : withRateLimit(r)

Spec == Init /\ [][Next]_vars

-----------------------------------------------------------------------------
(* Windows lie in the past and count at least one request, at most burst.  *)
WindowState == [start : 0..now, count : 1..burst]
TypeOK ==
    /\ now \in 0..MaxNow
    /\ lastAllowed \in 0..now
    /\ DOMAIN windows \subseteq Addresses
    /\ windows \in [DOMAIN windows -> WindowState]
    /\ recent \in [Addresses -> [Ages -> Nat]]

(* In less than a second no client gets more than two bursts of requests   *)
(* through: one before the end of a window and one after, but never a      *)
(* third, and never more because its window was swept away in between.     *)
TwiceBurst == \A k \in Addresses : recent[k][Second - 1] <= 2 * burst

(* A client is only turned away when a whole burst of its requests was let *)
(* through less than a second ago.                                         *)
DeniedForBurst ==
    \A k \in Addresses : Full(Window(k)) => recent[k][Second - 1] >= burst

(* The map outgrows its limit only by windows that had started within the  *)
(* minute before the last request that was let through, although requests  *)
(* that are turned away never sweep.                                       *)
MapBounded ==
    Cardinality(DOMAIN windows) > Limit =>
        \A k \in DOMAIN windows : lastAllowed - windows[k].start <= Minute
==============================================================================
