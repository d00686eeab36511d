------------------------------ MODULE MCGateway -------------------------------
(* A small instance of Gateway for TLC.                                    *)
EXTENDS Gateway

(* "a", "//a" and "ab": one path the two gateways take alike, one they     *)
(* keep apart, and one that begins like the first and is not below it.     *)
ThreePaths == {<<"a">>, <<"/", "/", "a">>, <<"a", "b">>}

NoConditions == << >>
CallerIs(identity, prefix, capabilities, conditions) ==
    [prefix |-> prefix, identity |-> identity, capabilities |-> capabilities,
     conditions |-> conditions]

(* A policy for one subtree, one for everything that only holds for HTTP   *)
(* callers of one address, and one with a capability that does not exist.  *)
ThreeInputs == {
    CallerIs(Star, <<"/", "/", "a">>, {"create", "read"}, NoConditions),
    CallerIs("alice", Root, {"delete", "create"}, [ip |-> {"office"}]),
    CallerIs(Star, Root, {"sudo"}, NoConditions)}

Symmetry == Permutations(Clients) \cup Permutations(Namespaces) \cup Permutations(Ids)
==============================================================================
