-------------------------- MODULE MCSecretVersions ---------------------------
(* Small instances of SecretVersions for TLC.  Clients, values and types   *)
(* are interchangeable, and no run of this module checks liveness.         *)
EXTENDS SecretVersions, TLC

Symmetry == Permutations(Clients) \cup Permutations(Values) \cup Permutations(Types)
==============================================================================
