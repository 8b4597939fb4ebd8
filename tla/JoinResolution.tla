--------------------------- MODULE JoinResolution ---------------------------
(***************************************************************************)
(* Which Decoy a Pod's honeypod.io/join annotation means.  The code has    *)
(* the rule twice: resolveJoinAnnotation (join_webhook.go), for the        *)
(* admission webhook and the Pod watch, and listJoinedPods                 *)
(* (decoy_controller.go), for the reconciler of one Decoy.                 *)
(*                                                                         *)
(* An annotation is Implicit ("true"), a Decoy (its "<namespace>/<name>"), *)
(* or NoJoin: absent, or text that is neither.                             *)
(***************************************************************************)
EXTENDS FiniteSets, Integers

CONSTANTS
    Decoys,             \* namespaced names of Decoys
    Namespaces,
    DecoyNs,            \* the namespace of each Decoy
    Implicit, NoJoin    \* the two annotations that are not a Decoy's name

ASSUME JoinAssumption ==
    /\ IsFiniteSet(Decoys)
    /\ DecoyNs \in [Decoys -> Namespaces]
    /\ Implicit \notin Decoys /\ NoJoin \notin Decoys /\ Implicit # NoJoin

Annotations == Decoys \cup {Implicit, NoJoin}

InNamespace(S, ns) == {d \in S : DecoyNs[d] = ns}

\* The Decoy a Pod of podNamespace with this annotation resolves to, as a set
\* of none or one, when the Decoys in S exist.  An explicit name resolves
\* whether or not there is such a Decoy.
resolveJoinAnnotation(S, podNamespace, value) ==
    LET inNS == InNamespace(S, podNamespace) IN
    CASE value \in Decoys  -> {value}
      [] value = NoJoin    -> {}
      [] value = Implicit  -> IF Cardinality(S) = 1 THEN S
                              ELSE IF Cardinality(inNS) = 1 THEN inNS ELSE {}

\* Mutant: a lone Decoy claims only the Pods of its own namespace.
isJoinedOwnNamespace(S, d, podNamespace, value) ==
    \/ value = d
    \/ /\ value = Implicit
       /\ Cardinality(InNamespace(S, DecoyNs[d])) = 1 /\ podNamespace = DecoyNs[d]

\* listJoinedPods counts such a Pod among those of d.
isJoined(S, d, podNamespace, value) ==
    LET soleInCluster == S = {d}
        soleInOwnNS   == /\ Cardinality(S) # 1
                         /\ Cardinality(InNamespace(S, DecoyNs[d])) = 1
    IN \/ value = d
       \/ /\ value = Implicit
          /\ soleInCluster \/ (soleInOwnNS /\ podNamespace = DecoyNs[d])

=============================================================================
