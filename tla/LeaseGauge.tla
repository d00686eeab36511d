----------------------------- MODULE LeaseGauge ------------------------------
(***************************************************************************)
(* The gauge scp_active_leases beside the leases it counts: the HTTP       *)
(* handlers move it when a Create or a Revoke returned without an error,   *)
(* and nothing else does.  The gauge is memory of one server, here never   *)
(* restarted; statements do not fail.                                      *)
(***************************************************************************)
EXTENDS Leases, Integers

VARIABLE gauge       \* metrics.Leases

gaugeVars == <<vars, gauge>>

GaugeInit == Init /\ gauge = 0

(* createLease: Leases.Inc() once the lease is stored.                     *)
CreateLease(c) == Insert(c) /\ gauge' = gauge + 1

(* revokeLease: Leases.Dec() whenever Revoke returned, be it that the      *)
(* lease was revoked already.                                              *)
RevokeLease(c) ==
    \/ RevokeUpdate(c) /\ gauge' = gauge - 1
    \/ RevokeGet(c) /\ gauge' = IF IsRevoked(leases[call[c].id]) THEN gauge - 1 ELSE gauge

Uncounted ==
    \/ Advance \/ Tick \/ ListDue \/ RevokeDue
    \/ \E c \in Clients :
          \/ StartCreate(c) \/ StartRevoke(c)
          \/ StartRenew(c) \/ RenewGet(c) \/ RenewCheck(c) \/ UpdateExpiry(c)

GaugeNext ==
    \/ Uncounted /\ UNCHANGED gauge
    \/ \E c \in Clients : CreateLease(c) \/ RevokeLease(c)

GaugeSpec == GaugeInit /\ [][GaugeNext]_gaugeVars

-----------------------------------------------------------------------------
Quiet == DOMAIN due = {} /\ \A c \in Clients : call[c] = Idle

(* "Current active dynamic secret leases.": with no call in flight and the *)
(* expiry loop at rest, the gauge is the number of leases not revoked.     *)
GaugeCountsActive ==
    Quiet => gauge = Cardinality({i \in Stored : ~ IsRevoked(leases[i])})
==============================================================================
