---------------------------- MODULE MCAuditChain -----------------------------
(* Small instances of AuditChain for TLC.                                  *)
EXTENDS AuditChain

(* A clock of microsecond resolution, and one that also shows nanoseconds. *)
MicrosecondClock == {0}
NanosecondClock == {0, 1}
==============================================================================
