----------------------------- MODULE MCShimSeed -----------------------------
(***************************************************************************)
(* A small inner cluster with an object of every kind, two namespaces, and *)
(* three seeds: the author drops a CRD, a Pod and a Secret, or edits what  *)
(* stays.                                                                  *)
(***************************************************************************)
EXTENDS ShimSeed, TLC

CONSTANTS node, lease, crd, ctl, pod, secret, cm, svc, sys, user, e1, e2, e3

MCKeys == {node, lease, crd, ctl, pod, secret, cm, svc}
MCKind == node :> "Node" @@ lease :> "Lease" @@ crd :> "CRD" @@ ctl :> "Controller"
          @@ pod :> "Pod" @@ secret :> "Secret" @@ cm :> "ConfigMap" @@ svc :> "Service"
MCNs == [k \in MCKeys |-> CASE k \in {node, crd} -> NoNs [] k = ctl -> sys [] OTHER -> user]
MCOwner == [k \in MCKeys |-> IF k = pod THEN ctl ELSE NoKey]
MCEntries == {e1, e2, e3}
\* e1 and e2 differ in what may be updated; a Pod of e3 is not scheduled yet.
MCNodeOf == e1 :> node @@ e2 :> node @@ e3 :> NoKey
MCSeeds ==
    { [k \in MCKeys |-> e1],
      [k \in MCKeys |-> IF k \in {pod, cm} THEN e2 ELSE e1],
      [k \in MCKeys \ {crd, pod, secret} |-> e1] }
=============================================================================
