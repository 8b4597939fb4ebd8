------------------------------ MODULE SeedRender ------------------------------
(***************************************************************************)
(* What the operator renders of a Decoy's spec into the seed of the inner  *)
(* cluster (renderSeedJSON and its helpers in internal/controller/         *)
(* render.go).  A spec is a record with the fields                         *)
(*   nodes, pods, secrets, crds : the author's sequences: names of nodes,  *)
(*              Pods [ns, name, node], Secrets [ns, name] and names of CRDs*)
(*   system   : seedSystemComponents                                       *)
(* The lists of the seed are sets: only their members matter here.         *)
(***************************************************************************)
EXTENDS Sequences, FiniteSets, Naturals

NoOwner == <<"none">>
NoNode == ""

Elements(s) == {s[i] : i \in 1 .. Len(s)}

\* The cluster is dressed up only around at least one fake node.
Dressed(spec) == spec.system /\ spec.nodes # <<>>

defaultCRDs == {"certificates", "issuers", "clusterissuers", "servicemonitors", "prometheusrules"}

\* Mutant: a default is added beside the author's entry of that name.
renderCRDsTwice(spec) ==
    (IF spec.system THEN {[name |-> c, by |-> "default"] : c \in defaultCRDs} ELSE {})
    \cup {[name |-> c, by |-> "author"] : c \in Elements(spec.crds)}

\* The defaults, and the author's, who wins where the names are equal.
renderCRDs(spec) ==
    LET author == Elements(spec.crds)
        defaults == IF spec.system THEN defaultCRDs \ author ELSE {}
    IN  {[name |-> c, by |-> "default"] : c \in defaults}
        \cup {[name |-> c, by |-> "author"] : c \in author}

renderStandardObjects(spec) ==
    IF Dressed(spec)
    THEN {<<"Service", "kube-dns">>}
         \cup {<<"ConfigMap", n>> : n \in {"kubeadm-config", "kubelet-config", "kube-proxy", "coredns", "cluster-info"}}
    ELSE {}

Static == {"etcd", "kube-apiserver", "kube-controller-manager", "kube-scheduler"}

SystemPod(component, node, owner) ==
    [ns |-> "kube-system", name |-> <<component, node>>, node |-> node, owner |-> owner]

\* Static Pods belong to the first node, kube-proxy's to their DaemonSet.
defaultKubeSystemPods(spec) ==
    IF Dressed(spec)
    THEN {SystemPod(c, spec.nodes[1], <<"Node", spec.nodes[1]>>) : c \in Static}
         \cup {SystemPod("kube-proxy", n, <<"DaemonSet", "kube-proxy">>) : n \in Elements(spec.nodes)}
    ELSE {}

\* coredns is left to the inner cluster's own controllers.
defaultControllers(spec) ==
    IF Dressed(spec) THEN {<<"Deployment", "coredns">>, <<"DaemonSet", "kube-proxy">>} ELSE {}

AuthorPod(p) == [ns |-> p.ns, name |-> <<p.name>>, node |-> p.node, owner |-> NoOwner]

\* The node a real Pod runs on is not copied.
mirrorJoinedPod(p) == [ns |-> p.ns, name |-> <<p.name>>, node |-> NoNode, owner |-> NoOwner]

renderSeedJSON(spec, joined) ==
    [nodes |-> Elements(spec.nodes),
     secrets |-> Elements(spec.secrets),
     pods |-> {AuthorPod(p) : p \in Elements(spec.pods)} \cup {mirrorJoinedPod(p) : p \in joined}
              \cup defaultKubeSystemPods(spec),
     controllers |-> defaultControllers(spec),
     crds |-> renderCRDs(spec),
     standard |-> renderStandardObjects(spec)]

\* The name the shim's own client goes by.
shimUsername(spec) == IF spec.nodes # <<>> THEN spec.nodes[1] ELSE "worker-1"

\* The hostname of the decoy's Pod.
decoyHostname(spec) ==
    IF spec.pods # <<>> THEN spec.pods[1].name
    ELSE IF spec.nodes # <<>> THEN spec.nodes[1] ELSE "worker"

\* The namespace an exec session believes it is in.
servedNamespace(spec) ==
    IF spec.pods # <<>> THEN spec.pods[1].ns
    ELSE IF spec.secrets # <<>> THEN spec.secrets[1].ns ELSE "default"

=============================================================================
