------------------------------ MODULE Admission ------------------------------
(***************************************************************************)
(* The admission of Pods through the join webhook (NewPodMutationHandler,  *)
(* review and MutatePod in internal/controller/join_webhook.go), while the *)
(* Decoy and its Service change between its lookups, lookups fail and the  *)
(* API server may give up on the webhook.  The last Pod admitted may be    *)
(* exported and created once more.                                         *)
(***************************************************************************)
EXTENDS JoinWebhook

CONSTANTS
    None,         \* no Decoy, no Service
    Containers, Volumes, Paths, \* names, and where volumes are mounted
    Shapes,       \* Pods as they reach the webhook
    DecoyPorts,   \* values of spec.port
    ServiceIPs,   \* values of spec.clusterIP, "" and "None" among them
    RealServices, \* the ports of the real cluster's "kubernetes" Service
    DecoyNs,
    MaxEnv        \* bound on the changes in the cluster

NoPod == [ns |-> None]

Mounts == [in : Containers, vol : Volumes, path : Paths]

\* What the API server sees to before the webhook is called: container names are
\* unique and every mount is of a volume of the Pod; no Pod is made with a volume
\* of the decoy's name.
ASSUME ShapeAssumption ==
    \A p \in Shapes :
        /\ p # NoPod
        /\ p.vols \subseteq Volumes /\ DecoyVolume \notin p.vols
        /\ p.containers \in Seq(Containers)
        /\ \A i, j \in DOMAIN p.containers : p.containers[i] = p.containers[j] => i = j
        /\ p.mounts \in Seq(Mounts)
        /\ \A i \in DOMAIN p.mounts : p.mounts[i].vol \in p.vols

\* A "kubernetes" Service has one port.  The decoy's volume is named like an
\* automatic one.
ASSUME ServiceAssumption ==
    /\ DecoyVolume \in AutoVolumes /\ AutoVolumes \subseteq Volumes /\ SAPath \in Paths
    /\ \A ports \in RealServices : Len(ports) = 1
    /\ MaxEnv \in Nat

VARIABLES
    real,   \* the real cluster's "kubernetes" Service
    decoy,  \* the port of the Decoy, None if there is none
    ip,     \* the clusterIP of its Service, None if there is none
    asked,  \* the Pod under review
    at,     \* the step its review is at
    kt,     \* the port of the Decoy as the review read it
    svc,    \* the clusterIP as the review read it
    out,    \* the Pod as it was admitted
    known,  \* the review found the real Service
    env

vars == <<real, decoy, ip, asked, at, kt, svc, out, known, env>>

\* At each of its steps a review has what the step needs: a Pod, then the port
\* of a Decoy, then an address to rewrite the Pod with.
TypeOK ==
    /\ real \in RealServices /\ decoy \in DecoyPorts \cup {None} /\ ip \in ServiceIPs \cup {None}
    /\ at \in {"idle", "decoy", "service", "rewrite"}
    /\ at = "idle" <=> asked = NoPod
    /\ at \in {"service", "rewrite"} => kt \in DecoyPorts
    /\ at = "rewrite" => svc \in ServiceIPs \ {"", "None"}
    /\ env \in 0 .. MaxEnv

Init ==
    /\ real \in RealServices
    /\ decoy \in DecoyPorts \cup {None} /\ ip \in ServiceIPs \cup {None}
    /\ asked = NoPod /\ at = "idle" /\ kt = None /\ svc = None
    /\ out = NoPod /\ known = TRUE /\ env = 0

\* The API server accepts only mounts of volumes the Pod has.
Resolves(p) == \A i \in DOMAIN p.mounts : p.mounts[i].vol \in p.vols

Exported == {p \in {out} \ {NoPod} : Resolves(p)}

Create ==
    /\ at = "idle"
    /\ asked' \in Shapes \cup Exported
    /\ at' = "decoy" /\ out' = NoPod
    /\ UNCHANGED <<real, decoy, ip, kt, svc, known, env>>

\* The answer: Allowed in every case, with the patch that makes p of the Pod.
Allow(p) ==
    /\ out' = p
    /\ asked' = NoPod /\ at' = "idle" /\ kt' = None /\ svc' = None
    /\ UNCHANGED <<real, decoy, ip, env>>

\* The annotation does not resolve, there is no such Decoy, a lookup fails, the
\* object cannot be read or the patch not be made; or the call fails or times
\* out, and failurePolicy is Ignore.
FailOpen == at # "idle" /\ Allow(asked) /\ UNCHANGED known

getDecoy ==
    /\ at = "decoy" /\ decoy # None
    /\ kt' = decoy /\ at' = "service"
    /\ UNCHANGED <<real, decoy, ip, asked, svc, out, known, env>>

\* Mutant: a headless Service is taken for one with an address.
getAnyService ==
    /\ at = "service" /\ ip \notin {None, ""}
    /\ svc' = ip /\ at' = "rewrite"
    /\ UNCHANGED <<real, decoy, ip, asked, kt, out, known, env>>

getService ==
    /\ at = "service" /\ ip \notin {None, "", "None"}
    /\ svc' = ip /\ at' = "rewrite"
    /\ UNCHANGED <<real, decoy, ip, asked, kt, out, known, env>>

\* The lookup of the real Service may fail too: its port is then assumed.
rewrite ==
    /\ at = "rewrite"
    /\ known' \in BOOLEAN
    /\ Allow(MutatePod(asked, DecoyNs, svc, kt, IF known' THEN real ELSE <<>>))

ChangeCluster ==
    /\ env < MaxEnv /\ env' = env + 1
    /\ decoy' \in DecoyPorts \cup {None} /\ ip' \in ServiceIPs \cup {None}
    /\ <<decoy', ip'>> # <<decoy, ip>>
    /\ UNCHANGED <<real, asked, at, kt, svc, out, known>>

Next == Create \/ FailOpen \/ getDecoy \/ getService \/ rewrite \/ ChangeCluster

Spec == Init /\ [][Next]_vars

------------------------------------------------------------------------------
\* A volume of the Pod's own that is mounted at the ServiceAccount's path and
\* somewhere else too: the volume goes, a mount gone through before may stay.
SharesSAVolume(p) ==
    \E i, j \in DOMAIN p.mounts :
        /\ p.mounts[i].path = SAPath /\ p.mounts[j].path # SAPath
        /\ p.mounts[i].vol = p.mounts[j].vol

Trapped == IF out = NoPod THEN FALSE ELSE podIsRedirected(out)

\* Whatever volumes and mounts a Pod brings along, and however often it is
\* admitted, rewritten it finds one mount at the ServiceAccount's path of every
\* container, the decoy's, and no automatic volume beside the decoy's is left.
OnlyDecoyMounted ==
    Trapped =>
        /\ \A c \in DOMAIN out.containers :
              LET there == {i \in DOMAIN out.mounts : out.mounts[i].in = out.containers[c]
                                                      /\ out.mounts[i].path = SAPath}
              IN  \E i \in there : there = {i} /\ out.mounts[i].vol = DecoyVolume
        /\ out.vols \cap AutoVolumes = {DecoyVolume}

\* A rewrite leaves a Pod the API server accepts: every mount is of a volume the
\* Pod has, unless a volume is used at the ServiceAccount's path and elsewhere.
MountsResolve ==
    [][(at = "rewrite" /\ at' = "idle" /\ out' # asked /\ ~SharesSAVolume(asked)) =>
          Resolves(out')]_vars

\* No container of a rewritten Pod is told two addresses: what the kubelet sets
\* for the real "kubernetes" Service is overridden variable by variable, also in
\* a Pod that was exported with the address of an earlier Service, whatever the
\* real Service's one port is, if the review could look it up.
OneAddress ==
    (Trapped /\ known) =>
        /\ KubeletEnv(real) \subseteq DOMAIN out.env
        /\ \A u, v \in KubeletEnv(real) : out.env[u] = out.env[v]

==============================================================================
