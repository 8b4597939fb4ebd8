---------------------------- MODULE DecoyIdentity ----------------------------
(***************************************************************************)
(* The objects the reconciler keeps for one Decoy and the identity they    *)
(* give it: the Service and its address, the Secret with the tokens, the   *)
(* CA and the serving certificate, the ConfigMap, the volume claim, the    *)
(* Deployment and the Pod it runs, the NetworkPolicies, the copy of the    *)
(* credentials for joined Pods of another namespace, and the status        *)
(* (reconcile and what it calls in internal/controller/decoy_controller.go,*)
(* the builders in render.go).                                             *)
(*                                                                         *)
(* One action is one call to the API server with the code around it; other *)
(* users of the cluster act between any two of them.  Every object but the *)
(* Secret is written on every pass under its resourceVersion, so what a    *)
(* pass goes on with is current; the Secret is used as the informer cache  *)
(* holds it, `seen`, which may lag behind.                                 *)
(***************************************************************************)
EXTENDS SeedRender, JoinWebhook

CONSTANTS
    None,        \* no such object
    Specs,       \* specs a user gives the Decoy
    InitSpecs,   \* those it may be created with
    IPs,         \* addresses the API server assigns to Services
    UserIPs,     \* spec.clusterIP of a Service a user puts in the place of ours
    Ids,         \* what distinguishes generated tokens, keys and certificates
    DecoyNs,     \* the Decoy's namespace
    Candidates,  \* Pods [ns, name] that may name this Decoy
    MaxEnv       \* bound on disturbances: edits, deletions, failures, restarts

ASSUME IdsAssumption == Ids \subseteq Nat \ {0} /\ 1 \in Ids
ASSUME SpecsAssumption == InitSpecs \subseteq Specs /\ \A kt \in Specs : kt.nodes \in Seq(Elements(kt.nodes))
ASSUME IPsAssumption == "" \notin IPs
ASSUME BoundAssumption == MaxEnv \in Nat

VARIABLES
    spec,        \* the Decoy's spec
    svc,         \* the Service: [ip, port]
    secret,      \* the Secret: [tok, kcm, ca, key, leaf, kubeconfig]
    seen,        \* the Secret in the informer cache
    mirror,      \* the copy of the credentials in the other namespace
    cm,          \* the ConfigMap: [auth, seed]
    pvc,         \* whether the volume claim exists
    dep,         \* the template of the Deployment
    pod,         \* the Pod it runs, with the files that were read at its start
    egress,      \* whether the NetworkPolicy <name>-egress exists
    bare,        \* whose the NetworkPolicy <name> is: none, owned, foreign
    joined,      \* of the Candidates that exist, whether they were rewritten
    status,      \* [phase, joined] of the Decoy
    woken,       \* a pass is due
    w,           \* the worker: its step, and the Decoy, address and Secret of the pass
    listed,      \* the joined Pods of the pass
    sum,         \* the checksum of the pass
    due,         \* 0: the template has taken up everything it depends on,
                 \* 1: not yet, 2: there was a change since the pass began
    env          \* disturbances so far

cluster == <<svc, secret, mirror, cm, pvc, dep, pod, egress, bare>>
vars == <<spec, svc, secret, seen, mirror, cm, pvc, dep, pod, egress, bare,
          joined, status, woken, w, listed, sum, due, env>>

NoToken == 0
Lacks(s) == IF s = None THEN FALSE ELSE s.kcm = NoToken

\* The ids in use, of any kind.
IdsOf(s) == IF s = None THEN {} ELSE {s.tok, s.kcm, s.ca, s.leaf.id}
IdsIn(d) == IF d = None THEN {} ELSE {d.config.tok, d.config.kcm, d.leaf.id, d.leaf.ca}
UsedIds ==
    IdsOf(secret) \cup IdsOf(seen) \cup IdsOf(w.secret)
    \cup (IF mirror = None THEN {} ELSE {mirror.tok, mirror.ca})
    \cup (IF cm = None THEN {} ELSE {cm.auth.tok, cm.auth.kcm})
    \cup IdsIn(dep)
    \cup (IF pod = None THEN {}
          ELSE IdsIn(pod.template) \cup {pod.auth.tok, pod.auth.kcm, pod.leaf.id, pod.leaf.ca})

\* A generated value differs from every value in use: the smallest of those.
generateToken == {n \in Ids \ UsedIds : \A k \in Ids \ UsedIds : n <= k}

\* An address is listed in the certificate; a name that is none is a DNS name.
IssueServerCert(id, ca, ip) ==
    [id |-> id, ca |-> ca, ip |-> IF ip \in IPs THEN ip ELSE ""]

certCoversIP(leaf, ip) == ip \in IPs /\ leaf.ip = ip

renderTokenAuthFile(kt, s) == [tok |-> s.tok, kcm |-> s.kcm, user |-> shimUsername(kt)]

renderConfigData(kt, pods, s) ==
    [auth |-> renderTokenAuthFile(kt, s), seed |-> renderSeedJSON(kt, pods)]

\* Mutant: the seed is part of what restarts the decoy.
seedChecksum(data) == data.auth @@ [seed |-> data.seed]

\* The checksum stands for what it is taken of, the seed left out.
configChecksum(data) == data.auth

buildDeployment(kt, config, leaf, ip) ==
    [config |-> config, leaf |-> leaf, ip |-> ip, port |-> kt.port, persistent |-> kt.persistent,
     hostname |-> decoyHostname(kt), namespace |-> servedNamespace(kt)]

renderKubeconfig(kt, s) == [port |-> kt.port, ca |-> s.ca, tok |-> s.tok]

buildMirroredSecret(s) == [tok |-> s.tok, ca |-> s.ca]

needsMirror(pods) == \E p \in pods : p.ns # DecoyNs

Idle == [pc |-> "idle", kt |-> None, ip |-> "", secret |-> None]
Forget == listed' = <<>> /\ sum' = None

NoStatus == [phase |-> "none", endpoint |-> 0, joined |-> <<>>]

At(pc) == w.pc = pc
To(pc) == w' = [w EXCEPT !.pc = pc]
Disturb == env < MaxEnv /\ env' = env + 1
Touched == due' = IF due = 0 THEN 1 ELSE due

------------------------------------------------------------------------------
(* One pass of the reconciler, call by call. *)

\* reconcile begins: the request is taken, the Decoy read and the Service
\* applied.  Only the ports of an existing Service are set: its address stays.
applyService ==
    /\ At("idle") /\ woken
    /\ \E ip \in IPs :
          svc' = IF svc = None THEN [ip |-> ip, port |-> spec.port] ELSE [svc EXCEPT !.port = spec.port]
    /\ w' = [Idle EXCEPT !.pc = "secret", !.kt = spec, !.ip = svc'.ip]
    /\ woken' = (svc' # svc)
    /\ due' = IF due = 2 \/ svc = None THEN 1 ELSE due
    /\ UNCHANGED <<spec, secret, seen, mirror, cm, pvc, dep, pod, egress, bare, joined, status, listed, sum, env>>

\* A write of the pass to the Secret, on which it goes on.
WriteSecret(s, pc) ==
    /\ secret' = s
    /\ w' = [w EXCEPT !.secret = s, !.pc = pc]
    /\ Touched
    /\ UNCHANGED <<spec, svc, seen, mirror, cm, pvc, dep, pod, egress, bare, joined, status, listed, sum, woken, env>>

\* Mutant: the Secret is written whether or not there is one.
createAnyway ==
    /\ At("secret") /\ seen = None
    /\ \E n \in generateToken :
           WriteSecret([tok |-> n, kcm |-> n, ca |-> n, key |-> TRUE,
                        leaf |-> IssueServerCert(n, n, w.ip), kubeconfig |-> None], "mirror")

\* No Secret: one is generated and created.
createSecret ==
    /\ At("secret") /\ seen = None /\ secret = None
    /\ \E n \in generateToken :
           WriteSecret([tok |-> n, kcm |-> n, ca |-> n, key |-> TRUE,
                        leaf |-> IssueServerCert(n, n, w.ip), kubeconfig |-> None], "mirror")

\* A Secret of an older version has no kcm.token.
backfillKCM ==
    /\ At("secret") /\ Lacks(seen) /\ secret = seen
    /\ \E n \in generateToken : WriteSecret([secret EXCEPT !.kcm = n], "cert")

\* The Secret this pass checks the certificate of: its own write, or the cache.
existing == IF At("cert") THEN w.secret ELSE seen

\* Mutant: an older Secret is taken as complete.
AtCertAnyway == At("cert") \/ (At("secret") /\ seen # None)

AtCert == At("cert") \/ (At("secret") /\ seen # None /\ ~Lacks(seen))

certIsKept == w.ip = "" \/ certCoversIP(existing.leaf, w.ip)

\* Mutant: no certificate is ever issued again.
keepAnyCert ==
    /\ AtCert
    /\ w' = [w EXCEPT !.secret = existing, !.pc = "mirror"]
    /\ UNCHANGED <<spec, cluster, seen, joined, status, listed, sum, woken, due, env>>

\* The certificate covers the address, or there is none: it is left alone.
keepCert ==
    /\ AtCert /\ certIsKept
    /\ w' = [w EXCEPT !.secret = existing, !.pc = "mirror"]
    /\ UNCHANGED <<spec, cluster, seen, joined, status, listed, sum, woken, due, env>>

\* The CA signs again; a Secret of an older version has lost its key.
reissueServingCert ==
    /\ AtCert /\ ~certIsKept /\ secret = existing
    /\ \E n \in generateToken :
          LET ca == IF secret.key THEN secret.ca ELSE n
          IN  WriteSecret([secret EXCEPT !.ca = ca, !.key = TRUE, !.leaf = IssueServerCert(n, ca, w.ip)], "mirror")

\* The Pods are listed; the copy is written where one of another namespace
\* joined and deleted where none did.
reconcileMirroredSecrets ==
    /\ At("mirror")
    /\ mirror' = IF needsMirror(DOMAIN joined) THEN buildMirroredSecret(w.secret) ELSE None
    /\ listed' = joined
    /\ To("config")
    /\ UNCHANGED <<spec, svc, secret, seen, cm, pvc, dep, pod, egress, bare, joined, status, woken, sum, due, env>>

reconcileConfigMap ==
    /\ At("config")
    /\ cm' = renderConfigData(w.kt, DOMAIN listed, w.secret)
    /\ sum' = configChecksum(cm')
    /\ To("pvc")
    /\ woken' = (woken \/ cm' # cm)
    /\ UNCHANGED <<spec, svc, secret, seen, mirror, pvc, dep, pod, egress, bare, joined, status, listed, due, env>>

\* Created once and never deleted.
ensureDataPVC ==
    /\ At("pvc")
    /\ pvc' = (pvc \/ w.kt.persistent)
    /\ To("deployment")
    /\ UNCHANGED <<spec, svc, secret, seen, mirror, cm, dep, pod, egress, bare, joined, status, listed, sum, woken, due, env>>

Current(s) == secret # None /\ <<s.tok, s.kcm, s.leaf>> = <<secret.tok, secret.kcm, secret.leaf>>

applyDeployment ==
    /\ At("deployment")
    /\ dep' = buildDeployment(w.kt, sum, w.secret.leaf, w.ip)
    /\ To("netpol")
    /\ woken' = (woken \/ dep' # dep)
    /\ due' = IF due = 1 /\ Current(w.secret) THEN 0 ELSE due
    /\ UNCHANGED <<spec, svc, secret, seen, mirror, cm, pvc, pod, egress, bare, joined, status, listed, sum, env>>

\* The NetworkPolicy is applied; the one an older version left goes, a user's
\* of that name stays.
applyNetworkPolicy ==
    /\ At("netpol")
    /\ egress' = TRUE
    /\ bare' = IF bare = "owned" THEN "none" ELSE bare
    /\ woken' = (woken \/ ~egress \/ bare' # bare)
    /\ To("kubeconfig")
    /\ UNCHANGED <<spec, svc, secret, seen, mirror, cm, pvc, dep, pod, joined, status, listed, sum, due, env>>

kubeconfigIsCurrent == w.secret.kubeconfig = renderKubeconfig(w.kt, w.secret)

\* Mutant: a kubeconfig that is there is never rendered again.
kubeconfigOnce ==
    /\ At("kubeconfig")
    /\ \/ w.secret.kubeconfig # None /\ UNCHANGED secret
       \/ /\ w.secret.kubeconfig = None /\ secret # None /\ seen = secret
          /\ secret' = [secret EXCEPT !.kubeconfig = renderKubeconfig(w.kt, w.secret)]
    /\ To("status")
    /\ UNCHANGED <<spec, svc, seen, mirror, cm, pvc, dep, pod, egress, bare, joined, status, listed, sum, woken, due, env>>

\* The latest Secret is read again, until the cache is not behind.
reconcileKubeconfig ==
    /\ At("kubeconfig")
    /\ \/ kubeconfigIsCurrent /\ UNCHANGED secret
       \/ /\ ~kubeconfigIsCurrent /\ secret # None /\ seen = secret
          /\ secret' = [secret EXCEPT !.kubeconfig = renderKubeconfig(w.kt, w.secret)]
    /\ To("status")
    /\ UNCHANGED <<spec, svc, seen, mirror, cm, pvc, dep, pod, egress, bare, joined, status, listed, sum, woken, due, env>>

statusOf(kt, pods) ==
    [phase |-> IF pod # None THEN "Ready" ELSE "Pending", endpoint |-> kt.port, joined |-> pods]

updateStatus ==
    /\ At("status")
    /\ status' = statusOf(w.kt, listed)
    /\ w' = Idle
    /\ woken' = (woken \/ status' # status)
    /\ Forget
    /\ UNCHANGED <<spec, cluster, seen, joined, due, env>>

\* The pass ends with an error, which is put on the status, and is due again.
markFailed ==
    /\ w' = Idle
    /\ woken' = TRUE
    /\ status' = [status EXCEPT !.phase = "Failed"]
    /\ Forget
    /\ UNCHANGED <<spec, cluster, seen, joined, due>>

\* The API server refuses a write that is based on a stale Secret.
Refused ==
    /\ \/ At("secret") /\ seen = None /\ secret # None
       \/ At("secret") /\ Lacks(seen) /\ secret # seen
       \/ AtCert /\ ~certIsKept /\ secret # existing
       \/ At("kubeconfig") /\ ~kubeconfigIsCurrent /\ (seen = None \/ seen # secret)
    /\ markFailed
    /\ UNCHANGED env

\* Any call of a pass may fail.
CallFails == Disturb /\ w.pc # "idle" /\ markFailed

\* The manager is restarted: it lists every Decoy and every Secret anew.
Restart ==
    /\ Disturb
    /\ w' = Idle /\ woken' = TRUE /\ seen' = secret
    /\ Forget
    /\ UNCHANGED <<spec, cluster, joined, status, due>>

\* The watch of the Secrets delivers, and wakes their owner.
SyncSecret ==
    /\ seen # secret
    /\ seen' = secret /\ woken' = TRUE
    /\ UNCHANGED <<spec, cluster, joined, status, listed, sum, w, due, env>>

------------------------------------------------------------------------------
(* The rest of the cluster. *)

\* The Deployment controller and the kubelet: a Pod of the template replaces
\* the one there is; it reads its mounted files once, as it starts.
RollOut ==
    /\ dep # None /\ cm # None /\ secret # None /\ (dep.persistent => pvc)
    /\ IF pod = None THEN TRUE ELSE pod.template # dep
    /\ pod' = [template |-> dep, auth |-> cm.auth, leaf |-> secret.leaf]
    /\ woken' = TRUE
    /\ UNCHANGED <<spec, svc, secret, seen, mirror, cm, pvc, dep, egress, bare, joined, status, listed, sum, w, due, env>>

Evict ==
    /\ Disturb
    /\ pod # None /\ pod' = None /\ woken' = TRUE
    /\ UNCHANGED <<spec, svc, secret, seen, mirror, cm, pvc, dep, egress, bare, joined, status, listed, sum, w, due>>

\* The fields of the spec that the decoy cannot take up without a restart.
Rolling(kt) == <<kt.port, kt.persistent, shimUsername(kt), decoyHostname(kt), servedNamespace(kt)>>

EditSpec ==
    /\ Disturb
    /\ spec' \in Specs \ {spec}
    /\ woken' = TRUE
    /\ due' = IF Rolling(spec') # Rolling(spec) THEN 2 ELSE due
    /\ UNCHANGED <<cluster, seen, joined, status, listed, sum, w>>

DeleteSecret ==
    /\ Disturb
    /\ secret # None /\ secret' = None
    /\ due' = 2
    /\ UNCHANGED <<spec, svc, seen, mirror, cm, pvc, dep, pod, egress, bare, joined, status, listed, sum, woken, w>>

\* The Service is deleted, or a user's own takes its place.
ReplaceService ==
    /\ Disturb
    /\ svc # None
    /\ svc' \in {None} \cup {[ip |-> ip, port |-> svc.port] : ip \in UserIPs}
    /\ svc' # svc
    /\ woken' = TRUE /\ due' = 2
    /\ UNCHANGED <<spec, secret, seen, mirror, cm, pvc, dep, pod, egress, bare, joined, status, listed, sum, w>>

DeleteOwned ==
    /\ Disturb
    /\ woken' = TRUE
    /\ \/ cm # None /\ cm' = None /\ UNCHANGED <<dep, pod, egress>>
       \/ dep # None /\ dep' = None /\ pod' = None /\ UNCHANGED <<cm, egress>>
       \/ egress /\ egress' = FALSE /\ UNCHANGED <<cm, dep, pod>>
    /\ UNCHANGED <<spec, svc, secret, seen, mirror, pvc, bare, joined, status, listed, sum, w, due>>

\* An annotated Pod is created, through the webhook unless that is down
\* (failurePolicy Ignore), or a running Pod is annotated.
CreatePod(p) ==
    /\ Disturb
    /\ p \notin DOMAIN joined
    /\ LET asked == [ns |-> p.ns, vols |-> {}, containers |-> <<"main">>, mounts |-> <<>>, env |-> <<>>]
           out == MutatePod(asked, DecoyNs, IF svc = None THEN "" ELSE svc.ip, spec.port, <<>>)
       IN  \E admitted \in {asked, IF out = NoPatch THEN asked ELSE out} :
              joined' = joined @@ (p :> podIsRedirected(admitted))
    /\ woken' = TRUE
    /\ UNCHANGED <<listed, sum, spec, cluster, seen, status, w, due>>

DeletePod(p) ==
    /\ Disturb
    /\ p \in DOMAIN joined
    /\ joined' = [q \in DOMAIN joined \ {p} |-> joined[q]]
    /\ woken' = TRUE
    /\ UNCHANGED <<listed, sum, spec, cluster, seen, status, w, due>>

------------------------------------------------------------------------------
\* A Decoy just created, beside a NetworkPolicy of a user that has its name.
InitNew ==
    /\ svc = None /\ secret = None /\ cm = None /\ dep = None /\ pod = None
    /\ egress = FALSE /\ bare = "foreign"
    /\ due = 0

\* A Decoy of an older version: no kcm.token, no CA key, one NetworkPolicy
\* under the bare name.
InitUpgraded ==
    LET old == [tok |-> 1, kcm |-> NoToken, ca |-> 1, key |-> FALSE,
                leaf |-> [id |-> 1, ca |-> 1, ip |-> svc.ip],
                kubeconfig |-> [port |-> spec.port, ca |-> 1, tok |-> 1]]
    IN  /\ svc \in [ip : IPs, port : {spec.port}]
        /\ secret = old
        /\ cm = renderConfigData(spec, {}, old)
        /\ dep = buildDeployment(spec, cm.auth, old.leaf, svc.ip)
        /\ pod = [template |-> dep, auth |-> cm.auth, leaf |-> old.leaf]
        /\ egress = FALSE /\ bare = "owned"
        /\ due = 2

Init ==
    /\ spec \in InitSpecs
    /\ InitNew \/ InitUpgraded
    /\ seen = secret
    /\ mirror = None /\ pvc = (secret # None /\ spec.persistent)
    /\ joined = <<>> /\ status = NoStatus
    /\ woken = TRUE /\ w = Idle /\ listed = <<>> /\ sum = None /\ env = 0

Pass ==
    \/ applyService \/ createSecret \/ backfillKCM \/ keepCert \/ reissueServingCert
    \/ reconcileMirroredSecrets \/ reconcileConfigMap \/ ensureDataPVC \/ applyDeployment \/ applyNetworkPolicy
    \/ reconcileKubeconfig \/ updateStatus \/ Refused

Next ==
    \/ Pass \/ SyncSecret \/ RollOut
    \/ CallFails \/ Restart \/ Evict \/ EditSpec \/ DeleteSecret \/ ReplaceService \/ DeleteOwned
    \/ \E p \in Candidates : CreatePod(p) \/ DeletePod(p)

Spec == Init /\ [][Next]_vars

\* The work queue and the worker run, the watch delivers, the cluster runs Pods.
Fairness == WF_vars(Pass) /\ WF_vars(SyncSecret) /\ WF_vars(RollOut)

FairSpec == Spec /\ Fairness

------------------------------------------------------------------------------
Optional(S) == S \cup {None}
Leaves == [id : Ids, ca : Ids, ip : IPs \cup {""}]
Ports == {kt.port : kt \in Specs}
Kubeconfigs == [port : Ports, ca : Ids, tok : Ids]
Secrets == [tok : Ids, kcm : Ids \cup {NoToken}, ca : Ids, key : BOOLEAN,
            leaf : Leaves, kubeconfig : Optional(Kubeconfigs)]
Services == [ip : IPs \cup UserIPs, port : Ports]

ASSUME NoneAssumption == None \notin Services /\ None \notin Secrets

\* The Secrets and what is made of them hold generated values only, a running
\* Pod has read complete files, and the worker is at a step of reconcile.
TypeOK ==
    /\ spec \in Specs
    /\ svc \in Optional(Services)
    /\ secret \in Optional(Secrets) /\ seen \in Optional(Secrets) /\ w.secret \in Optional(Secrets)
    /\ mirror \in Optional([tok : Ids, ca : Ids])
    /\ pvc \in BOOLEAN /\ egress \in BOOLEAN /\ woken \in BOOLEAN
    /\ bare \in {"none", "owned", "foreign"}
    /\ w.pc \in {"idle", "secret", "cert", "mirror", "config", "pvc", "deployment", "netpol",
                 "kubeconfig", "status"}
    /\ w.pc \in {"mirror", "config", "pvc", "deployment", "netpol", "kubeconfig", "status"} =>
          w.secret # None /\ w.secret.kcm # NoToken
    /\ pod # None => pod.leaf \in Leaves
    /\ due \in 0 .. 2 /\ env \in 0 .. MaxEnv

\* The certificate a Pod of the template will serve covers the address the
\* template gives out as its node's, through replaced Services, reissued and
\* stale Secrets: exec, attach and logs are dialled at that address.
TemplateCovers == (dep # None /\ dep.ip \in IPs) => dep.leaf.ip = dep.ip

\* What a holder of the credentials relies on outlives every pass: the tokens,
\* and the CA as long as its key was kept, also when the cache the pass works
\* from is behind; a certificate is replaced only when it does not cover the
\* address; the volume claim and a NetworkPolicy of a user are never deleted.
IdentityKept ==
    [][/\ (secret # None /\ secret' # None) =>
             /\ secret'.tok = secret.tok
             /\ secret.kcm # NoToken => secret'.kcm = secret.kcm
             /\ secret.key => secret'.ca = secret.ca /\ secret'.key
             /\ secret'.leaf # secret.leaf => ~certCoversIP(secret.leaf, w.ip) /\ secret'.leaf.ca = secret'.ca
       /\ pvc => pvc'
       /\ bare = "foreign" => bare' = "foreign"]_vars

\* A running decoy is restarted only for a change it cannot take up otherwise:
\* of the address, the credentials or the part of the spec its template is
\* built from.  Pods that join and leave, failed passes, restarts of the manager
\* and repairs of other objects keep what was created inside it.
NoIdleRollout ==
    [][(dep # None /\ dep' # None /\ dep' # dep) => due > 0]_vars

\* Everything the Decoy consists of agrees with its spec, its Secret, its
\* address and the Pods that joined it.
Settled ==
    /\ svc # None /\ secret # None /\ svc.port = spec.port
    /\ svc.ip \in IPs => certCoversIP(secret.leaf, svc.ip)
    /\ secret.kcm # NoToken /\ secret.kubeconfig = renderKubeconfig(spec, secret)
    /\ mirror = IF needsMirror(DOMAIN joined) THEN buildMirroredSecret(secret) ELSE None
    /\ cm = renderConfigData(spec, DOMAIN joined, secret)
    /\ spec.persistent => pvc
    /\ dep = buildDeployment(spec, configChecksum(cm), secret.leaf, svc.ip)
    /\ pod # None /\ pod.template = dep /\ pod.leaf = secret.leaf
    /\ pod.auth.tok = secret.tok /\ pod.auth.kcm = secret.kcm
    /\ egress /\ bare # "owned"
    /\ status = statusOf(spec, joined)

\* After the last disturbance the Decoy settles, from a new one or from one of
\* an older version, and stays so.  (The name of the shim's client in the file a
\* Pod has read is left out: a Pod started between the two writes of a pass for
\* an edit that is then taken back keeps it.)
EventuallySettled == <>[]Settled

\* Passes come to rest: the Secret is not written for ever.
RewritesEnd == <>[][secret' = secret]_vars

\* Whatever the seed in the ConfigMap refers to is in it: the owner and the node
\* of every system Pod, the Service and ConfigMaps a cluster with such Pods has,
\* and one entry for every CRD.  The shim invents the identity of an owner that
\* is not there.
SeedResolves ==
    cm # None =>
        LET seed == cm.seed
            owners == {NoOwner} \cup {<<"Node", n>> : n \in seed.nodes} \cup seed.controllers
        IN  /\ \A p \in seed.pods : p.owner \in owners
            /\ \A p \in seed.pods : p.owner # NoOwner => p.node \in seed.nodes /\ seed.standard # {}
            /\ \A c, d \in seed.crds : c.name = d.name => c = d

==============================================================================
