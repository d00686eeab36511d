---------------------------- MODULE AppendOnlyLog ----------------------------
(***************************************************************************)
(* What the audit component promises its callers: one shared log that only *)
(* grows at its end, to which every Record call contributes at most one    *)
(* entry, and a reply that says "ok" only when the entry is in the log.    *)
(* A reply of "error" promises nothing: a lost commit acknowledgement      *)
(* leaves the entry in the log although the caller saw an error.           *)
(* AuditChain is shown to implement this specification.                    *)
(***************************************************************************)
EXTENDS Sequences, Naturals

CONSTANT Calls       \* the Record calls that are ever made

VARIABLES
    log,             \* the calls whose events are in the log, oldest first
    outcome          \* what each call was told: "pending", "ok" or "error"

vars == <<log, outcome>>

Init ==
    /\ log = << >>
    /\ outcome = [c \in Calls |-> "pending"]

InLog(c) == \E i \in DOMAIN log : log[i] = c

(* The event of c becomes the last entry, and c is told so or not.         *)
Add(c) ==
    /\ outcome[c] = "pending"
    /\ ~ InLog(c)
    /\ log' = Append(log, c)
    /\ \E reply \in {"ok", "error"} : outcome' = [outcome EXCEPT ![c] = reply]

(* c is told that its event was not recorded.                              *)
Refuse(c) ==
    /\ outcome[c] = "pending"
    /\ outcome' = [outcome EXCEPT ![c] = "error"]
    /\ UNCHANGED log

Next == \E c \in Calls : Add(c) \/ Refuse(c)

Spec == Init /\ [][Next]_vars
==============================================================================
