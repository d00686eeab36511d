-------------------------------- MODULE MCPki ---------------------------------
(* A small instance of Pki for TLC.  Clients, CAs, serial numbers and      *)
(* reasons are interchangeable, and only safety is checked.                *)
EXTENDS Pki, TLC

Symmetry == Permutations(Clients) \cup Permutations(CAs) \cup Permutations(Serials)
            \cup Permutations(Reasons)
==============================================================================
