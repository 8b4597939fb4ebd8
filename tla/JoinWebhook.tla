----------------------------- MODULE JoinWebhook -----------------------------
(***************************************************************************)
(* The rewrite of a joined Pod at its admission (MutatePod and its helpers *)
(* in internal/controller/join_webhook.go), as a function of the Pod and   *)
(* of what the webhook looks up.  A Pod is a record with the fields        *)
(*   ns         : its namespace                                            *)
(*   vols       : the names of its volumes                                 *)
(*   containers : a sequence, its init containers last                     *)
(*   mounts     : their mounts [in, vol, path], in the order the webhook   *)
(*                goes through them: containers, then init containers      *)
(*   env        : the variables set in every container                     *)
(***************************************************************************)
EXTENDS Sequences, Naturals, TLC

CONSTANTS
    NoPatch,     \* the Pod is admitted as it is
    AutoVolumes  \* names with the prefix kube-api-access-, the decoy's among them

DecoyVolume == "kube-api-access-decoy"
SAPath == "serviceaccount"

Strips(auto, mount) == mount.vol \in auto \/ mount.path = SAPath

\* The set autoVolNames after each mount.
AutoVolNames(pod) ==
    LET auto[i \in 0 .. Len(pod.mounts)] ==
            IF i = 0 THEN pod.vols \cap AutoVolumes
            ELSE IF Strips(auto[i - 1], pod.mounts[i])
                 THEN auto[i - 1] \cup {pod.mounts[i].vol} ELSE auto[i - 1]
    IN  auto

\* The mounts kept after each mount.
KeptMounts(pod) ==
    LET kept[i \in 0 .. Len(pod.mounts)] ==
            IF i = 0 THEN <<>>
            ELSE IF Strips(AutoVolNames(pod)[i - 1], pod.mounts[i]) THEN kept[i - 1]
                 ELSE Append(kept[i - 1], pod.mounts[i])
    IN  kept

\* Mutant: only volumes of the automatic kind are taken out.
stripByName(pod) ==
    SelectSeq(pod.mounts, LAMBDA mount : mount.vol \notin AutoVolumes)

\* Mutant: only the mounts at the ServiceAccount's path are taken out.
stripByPath(pod) ==
    SelectSeq(pod.mounts, LAMBDA mount : mount.path # SAPath)

stripAutoMount(pod) == KeptMounts(pod)[Len(pod.mounts)]

\* The port of the real cluster's "kubernetes" Service; a lookup that fails is
\* the empty sequence.
realKubernetesServicePort(ports) ==
    LET fits == {i \in 1 .. Len(ports) : ports[i].name = "https" \/ Len(ports) = 1}
    IN  IF fits = {} THEN 443
        ELSE ports[CHOOSE i \in fits : \A j \in fits : i <= j].port

PerPort(port) == {<<"PORT", port, suffix>> : suffix \in {"TCP", "PROTO", "PORT", "ADDR"}}

\* Mutant: the variables are named after the decoy's port.
serviceEnvOwnPort(clusterIP, decoyPort, realPort) ==
    [v \in {<<"SERVICE_HOST">>, <<"SERVICE_PORT">>, <<"SERVICE_PORT_HTTPS">>, <<"PORT">>}
           \cup PerPort(decoyPort) |-> <<clusterIP, decoyPort>>]

\* The variables set, and the address they are about.
kubernetesServiceEnv(clusterIP, decoyPort, realPort) ==
    [v \in {<<"SERVICE_HOST">>, <<"SERVICE_PORT">>, <<"SERVICE_PORT_HTTPS">>, <<"PORT">>}
           \cup PerPort(realPort) |-> <<clusterIP, decoyPort>>]

\* What the kubelet sets in every container for the real Service.
KubeletEnv(ports) ==
    {<<"SERVICE_HOST">>, <<"SERVICE_PORT">>, <<"PORT">>}
    \cup (IF \E i \in 1 .. Len(ports) : ports[i].name = "https" THEN {<<"SERVICE_PORT_HTTPS">>} ELSE {})
    \cup UNION {PerPort(ports[i].port) : i \in 1 .. Len(ports)}

\* Variables appended to a container's: of two with one name the last counts.
Overridden(old, new) ==
    [v \in DOMAIN old \cup DOMAIN new |-> IF v \in DOMAIN new THEN new[v] ELSE old[v]]

\* Same namespace: the decoy's own Secret; another one: the mirror there.
SecretFor(podNs, decoyNs) == IF podNs = decoyNs THEN "decoy" ELSE "decoy-creds"

\* clusterIP is "" when there is no Service or it has no address yet.
MutatePod(pod, decoyNs, clusterIP, decoyPort, realPorts) ==
    IF clusterIP \in {"", "None"} THEN NoPatch
    ELSE LET auto == AutoVolNames(pod)[Len(pod.mounts)]
             kept == stripAutoMount(pod)
             env == kubernetesServiceEnv(clusterIP, decoyPort, realKubernetesServicePort(realPorts))
         IN  [ns |-> pod.ns,
              vols |-> (pod.vols \ auto) \cup {DecoyVolume},
              source |-> SecretFor(pod.ns, decoyNs),
              containers |-> pod.containers,
              mounts |-> kept \o [i \in 1 .. Len(pod.containers) |->
                                    [in |-> pod.containers[i], vol |-> DecoyVolume, path |-> SAPath]],
              env |-> Overridden(pod.env, env)]

\* The webhook rewrote this Pod.
podIsRedirected(pod) == DecoyVolume \in pod.vols

=============================================================================
