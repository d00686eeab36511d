------------------------------- MODULE Policies -------------------------------
(***************************************************************************)
(* The decision of policy/application.Service.Authorize over the rows of   *)
(* the table policies.                                                     *)
(*                                                                         *)
(* A condition names a key of the request's context and the values it      *)
(* accepts there: "eq:", "prefix:", "in:", "cidr:" and a plain value are   *)
(* five ways to write down such a set.                                     *)
(***************************************************************************)
EXTENDS Paths

Star == "*"          \* the identity pattern of everybody, and a namespace
Admin == "admin"     \* the identity that needs no policy

Capabilities == {"read", "create", "update", "delete", "list"}

conditionValueMatches(accepted, actual) == actual \in accepted

(* Every condition holds; the context has to have the key.                 *)
conditionsMatch(conditions, context) ==
    \A key \in DOMAIN conditions :
        /\ key \in DOMAIN context
        /\ conditionValueMatches(conditions[key], context[key])

policyMatchesIdentity(pattern, identity) == pattern \in {Star, identity}

Allows(policy, capability) == capability \in policy.capabilities

(* The rows List reads.  Namespace "*" is a name like any other.           *)
(* (Mutant: the query without its WHERE.)                                  *)
ListAll(policies, namespace) == policies
List(policies, namespace) == {p \in policies : p.namespace = namespace}

(* The rows that let a request through; Authorize stops at the first one.  *)
Granting(policies, request) ==
    {p \in List(policies, request.namespace) :
        /\ policyMatchesIdentity(p.identity, request.identity)
        /\ pathInherits(request.path, p.prefix)
        /\ Allows(p, request.capability)
        /\ conditionsMatch(p.conditions, request.context)}

(* What createPolicy and Normalize accept.  (Mutant: names are not checked.)*)
UnvalidatedInput(input) == input.capabilities # {}
ValidInput(input) == input.capabilities # {} /\ input.capabilities \subseteq Capabilities
==============================================================================
