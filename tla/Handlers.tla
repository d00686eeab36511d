------------------------------- MODULE Handlers -------------------------------
(***************************************************************************)
(* The kinds of request handlers the two gateways are made of.  A handler  *)
(* is described by what it does besides decoding and encoding:             *)
(*                                                                         *)
(*   target      what it reads before the decision, if anything, and       *)
(*               whose namespace it decides on;                            *)
(*   path        the path it decides on: its target's own, that of a       *)
(*               secret as it is stored, "/" or "/crypto";                 *)
(*   capability  the capability it asks the policy service for;            *)
(*   op          the service call that follows: it reads, it writes, it    *)
(*               creates or deletes a policy, or there is none because     *)
(*               what was read before the decision is what is "shown";     *)
(*   also        what that call looks up besides by a name or a serial     *)
(*               number alone, in whatever namespace it lies.              *)
(***************************************************************************)
Handler(target, path, capability, op) ==
    [target |-> target, path |-> path, capability |-> capability, op |-> op,
     also |-> "nothing"]
Besides(also, handler) == [handler EXCEPT !.also = also]

(* Namespace and path, or the namespace alone, come with the request.      *)
Named(capability, op) == Handler("request", "own", capability, op)
NamedSecret(capability, op) == Handler("request", "stored", capability, op)
Whole(capability, op) == Handler("request", "/", capability, op)

(* The object is read first, and the decision is on its namespace.         *)
OfLease(capability, op) == Handler("object", "own", capability, op)
OfPolicy(capability, op) == Handler("policy", "/", capability, op)
OfCA(capability, op) == Handler("object", "/", capability, op)
OfCertificate(capability, op) == Handler("object", "/", capability, op)

(* The decision is on namespace "*".                                       *)
Everywhere(capability, op) == Handler("server", "/", capability, op)
Crypto(capability) == Handler("server", "/crypto", capability, "read")

(* The method asks for no decision.                                        *)
Undecided(op) == Handler("none", "/", "none", op)
==============================================================================
