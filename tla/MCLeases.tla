------------------------------ MODULE MCLeases -------------------------------
(* A small instance of Leases for TLC.                                     *)
EXTENDS Leases

(* With two units to a second and a maximum of one second: no TTL, half a  *)
(* second (which ttl_seconds keeps as 0), and more than the maximum.       *)
RequestedTTLs == {0, 1, MaxTTL + 1}
==============================================================================
