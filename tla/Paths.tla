-------------------------------- MODULE Paths ---------------------------------
(***************************************************************************)
(* Paths of secrets and prefixes of policies as the two gateways, the      *)
(* secret service and the policy service treat them, each in its own way.  *)
(* A path is a sequence of characters, of which only the slash means       *)
(* anything; white space around one is not modelled, so TrimSpace goes.    *)
(***************************************************************************)
EXTENDS SequencesExt

CONSTANT Characters     \* of paths, the slash among them

Slash == "/"
Root == <<Slash>>

ASSUME SlashAssumption == Slash \in Characters

(* The places of a string that hold no slash.                              *)
Letters(s) == {i \in DOMAIN s : s[i] # Slash}

(* strings.Trim(s, "/"), and a loop that trims the end but for one slash.  *)
TrimSlashes(s) ==
    IF Letters(s) = {} THEN << >> ELSE SubSeq(s, Min(Letters(s)), Max(Letters(s)))
TrimTrailing(s) ==
    IF Letters(s) = {} THEN Root ELSE SubSeq(s, 1, Max(Letters(s)))

(* The path as the HTTP handlers, the gRPC handlers and the secret service *)
(* take it.  All keep a run of slashes in between, gRPC also one in front. *)
cleanWildcardPath(s) == Root \o TrimSlashes(s)
normalizePath(s) == TrimTrailing(IF IsPrefix(Root, s) THEN s ELSE Root \o s)
NormalizePath(s) == Root \o TrimSlashes(s)

(* strings.TrimSuffix(s, "/")                                              *)
TrimSlash(s) == IF IsSuffix(Root, s) THEN Front(s) ELSE s

(* Does a policy with this prefix cover the path?  (Mutant: as strings.)   *)
pathHasPrefix(path, prefix) == prefix = Root \/ IsPrefix(TrimSlash(prefix), TrimSlash(path))
pathInherits(path, prefix) ==
    \/ prefix = Root
    \/ TrimSlash(path) = TrimSlash(prefix)
    \/ IsPrefix(TrimSlash(prefix) \o Root, TrimSlash(path))

-----------------------------------------------------------------------------
(* What a path means: the names between its slashes, each with its number. *)
(* Slashes at either end separate nothing; between two slashes inside a    *)
(* path is an empty name, since everybody keeps those.  A name is given by *)
(* its characters and their distance from the first.                       *)
Starts(t) == {i \in DOMAIN t : i = 1 \/ t[i - 1] = Slash}
Number(t, i) == Cardinality({j \in Starts(t) : j <= i})
NameFrom(t, i) ==
    [d \in {d \in 0 .. Len(t) - i : \A k \in i .. i + d : t[k] # Slash} |-> t[i + d]]

NumberedNames(t) == {<<Number(t, i), NameFrom(t, i)>> : i \in Starts(t)}

IsUnder(path, prefix) ==
    NumberedNames(TrimSlashes(prefix)) \subseteq NumberedNames(TrimSlashes(path))
==============================================================================
