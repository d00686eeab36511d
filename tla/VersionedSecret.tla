--------------------------- MODULE VersionedSecret ----------------------------
(***************************************************************************)
(* What the secret service promises about the versions of one secret,      *)
(* whoever else writes: a version that is stored keeps its number and its  *)
(* value, numbers are given one after the other, readers always find a     *)
(* current version, and a Put that returned one has its value stored there.*)
(* A Put makes its version current in a step of its own, and what it never *)
(* comes to do, or never learns of, it does not acknowledge.               *)
(* SecretVersions is shown to implement this specification.                *)
(***************************************************************************)
EXTENDS Naturals

CONSTANT Values      \* secret values

VARIABLES
    stored,          \* the value of each version
    current,         \* the version readers get, 0 before the first
    acks             \* <<version, value>> of every Put that returned

vars == <<stored, current, acks>>

Init ==
    /\ stored = << >>
    /\ current = 0
    /\ acks = {}

Acknowledge(n) == acks' = acks \cup {<<n, stored'[n]>>} \/ UNCHANGED acks

(* The number after one that is taken.                                     *)
Free == {n + 1 : n \in DOMAIN stored \cup {0}} \ DOMAIN stored

(* A new version, which becomes current if it is the first.                *)
Store(n, x) ==
    /\ n \in Free
    /\ stored' = [v \in DOMAIN stored \cup {n} |-> IF v = n THEN x ELSE stored[v]]
    /\ IF current = 0 THEN current' = n /\ Acknowledge(n) ELSE UNCHANGED <<current, acks>>

(* Readers get version n from now on.                                      *)
Select(n) ==
    /\ n \in DOMAIN stored
    /\ current' = n
    /\ UNCHANGED stored
    /\ Acknowledge(n)

Next ==
    \/ \E n \in Free, x \in Values : Store(n, x)
    \/ \E n \in DOMAIN stored : Select(n)

Spec == Init /\ [][Next]_vars
==============================================================================
