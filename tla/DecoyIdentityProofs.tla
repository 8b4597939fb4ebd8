------------------------- MODULE DecoyIdentityProofs -------------------------
(***************************************************************************)
(* For every set of specs, addresses, Pods and any number of disturbances: *)
(* the template's certificate covers the template's address, passes keep   *)
(* the identity, the template changes only when something it is built from *)
(* has, and the seed resolves.                                             *)
(***************************************************************************)
EXTENDS DecoyIdentity, TLAPS

Steps == {"idle", "secret", "cert", "mirror", "config", "pvc", "deployment", "netpol",
          "kubeconfig", "status"}
Certified == {"mirror", "config", "pvc", "deployment", "netpol", "kubeconfig", "status"}
Workers == [pc : Steps, kt : Optional(Specs), ip : IPs \cup UserIPs \cup {""}, secret : Optional(Secrets)]

\* Shapes of the objects the argument is about.
IdentityTypes ==
    /\ spec \in Specs
    /\ svc \in Optional(Services)
    /\ secret \in Optional(Secrets) /\ seen \in Optional(Secrets)
    /\ w \in Workers

\* What a pass carries from step to step: past reconcileSecret it has a Secret,
\* and one whose certificate covers the address the pass began with.
PassCarries ==
    /\ w.pc # "idle" => w.kt \in Specs
    /\ w.pc = "cert" => w.secret \in Secrets
    /\ w.pc \in Certified => w.secret \in Secrets /\ (w.ip \in IPs => w.secret.leaf.ip = w.ip)

IdentityInv == IdentityTypes /\ PassCarries /\ TemplateCovers

\* The new certificate is well formed and lists the address, if it is one.
LEMMA IssuedCovers ==
    ASSUME NEW n \in Ids, NEW ca \in Ids, NEW ip
    PROVE  /\ IssueServerCert(n, ca, ip) \in Leaves
           /\ ip \in IPs => IssueServerCert(n, ca, ip).ip = ip
           /\ IssueServerCert(n, ca, ip).ca = ca
  BY Zenon DEF IssueServerCert, Leaves

\* A new Decoy and one of an older version start inside the invariant.
LEMMA IdentityInit == Init => IdentityInv
  <1> SUFFICES ASSUME Init PROVE IdentityInv
    OBVIOUS
  <1> USE IdsAssumption, SpecsAssumption, IPsAssumption
  <1>1. spec \in Specs /\ w = Idle /\ seen = secret
    BY Zenon DEF Init
  <1>2. w \in Workers /\ PassCarries
    BY <1>1, Zenon DEF Idle, Workers, Steps, Optional, PassCarries, Certified
  <1>3. CASE InitNew
    BY <1>1, <1>2, <1>3, Zenon DEF InitNew, IdentityInv, IdentityTypes, Optional, TemplateCovers
  <1>4. CASE InitUpgraded
    <2>1. svc \in Services
      BY <1>1, <1>4, Zenon DEF InitUpgraded, Services, Ports
    <2>2. svc.ip \in IPs
      BY <1>4, Zenon DEF InitUpgraded
    <2>3. [id |-> 1, ca |-> 1, ip |-> svc.ip] \in Leaves
      BY <2>2, Zenon DEF Leaves
    <2>4. [port |-> spec.port, ca |-> 1, tok |-> 1] \in Kubeconfigs
      BY <1>1, Zenon DEF Kubeconfigs, Ports
    <2>5. secret \in Secrets
      BY <1>4, <2>3, <2>4, Zenon DEF InitUpgraded, Secrets, Optional
    <2>6. TemplateCovers
      BY <1>4, Zenon DEF InitUpgraded, TemplateCovers, buildDeployment
    <2> QED
      BY <1>1, <1>2, <2>1, <2>5, <2>6, Zenon DEF IdentityInv, IdentityTypes, Optional
  <1> QED
    BY <1>3, <1>4, Zenon DEF Init

\* What a pass writes to the Secret is a Secret, and the pass goes on with it.
LEMMA IdentityWrite ==
    ASSUME IdentityInv, NEW s \in Secrets, NEW pc \in {"cert", "mirror"},
           w.pc # "idle", pc = "mirror" => (w.ip \in IPs => s.leaf.ip = w.ip),
           WriteSecret(s, pc)
    PROVE  IdentityInv'
  <1>1. w' \in Workers /\ w'.pc = pc /\ w'.kt = w.kt /\ w'.ip = w.ip /\ w'.secret = s
    BY Zenon DEF IdentityInv, IdentityTypes, WriteSecret, Workers, Steps, Optional
  <1>2. IdentityTypes'
    BY <1>1 DEF IdentityInv, IdentityTypes, WriteSecret, Optional
  <1>3. PassCarries'
    BY <1>1 DEF IdentityInv, PassCarries, WriteSecret, Certified
  <1>4. TemplateCovers'
    BY DEF IdentityInv, TemplateCovers, WriteSecret
  <1> QED
    BY <1>2, <1>3, <1>4 DEF IdentityInv

\* A step of the pass that leaves Service, Secret and template alone.
LEMMA IdentityAdvance ==
    ASSUME IdentityInv, NEW pc \in Certified, w.pc \in Certified, To(pc),
           UNCHANGED <<spec, svc, secret, seen>>, dep' = dep
    PROVE  IdentityInv'
  <1>1. w' \in Workers /\ w'.pc = pc /\ w'.kt = w.kt /\ w'.ip = w.ip /\ w'.secret = w.secret
    BY Zenon DEF IdentityInv, IdentityTypes, To, Workers, Steps, Certified
  <1>2. IdentityTypes'
    BY <1>1 DEF IdentityInv, IdentityTypes
  <1>3. PassCarries'
    BY <1>1 DEF IdentityInv, PassCarries, Certified
  <1>4. TemplateCovers'
    BY DEF IdentityInv, TemplateCovers
  <1> QED
    BY <1>2, <1>3, <1>4 DEF IdentityInv

\* A worker that gives up a pass, whatever becomes of the Secret in the cache.
LEMMA IdentityIdle ==
    ASSUME IdentityInv, w' = Idle, UNCHANGED <<spec, svc, secret>>, dep' = dep,
           seen' \in {seen, secret}
    PROVE  IdentityInv'
  <1>1. w' \in Workers /\ w'.pc = "idle"
    BY Zenon DEF Idle, Workers, Steps, Optional
  <1>2. IdentityTypes'
    BY <1>1 DEF IdentityInv, IdentityTypes
  <1>3. PassCarries'
    BY <1>1 DEF PassCarries, Certified
  <1>4. TemplateCovers'
    BY DEF IdentityInv, TemplateCovers
  <1> QED
    BY <1>2, <1>3, <1>4 DEF IdentityInv

\* A step beside the pass.
LEMMA IdentityBeside ==
    ASSUME IdentityInv, w' = w, spec' \in Specs, svc' \in Optional(Services),
           secret' \in Optional(Secrets), seen' \in Optional(Secrets), dep' \in {dep, None}
    PROVE  IdentityInv'
  <1>1. IdentityTypes' /\ PassCarries'
    BY DEF IdentityInv, IdentityTypes, PassCarries
  <1>2. TemplateCovers'
    BY DEF IdentityInv, TemplateCovers
  <1> QED
    BY <1>1, <1>2 DEF IdentityInv

\* The Secret whose certificate a pass checks is one.
LEMMA ExistingIsSecret ==
    ASSUME IdentityInv, AtCert
    PROVE  existing \in Secrets /\ w.pc # "idle"
  BY DEF IdentityInv, IdentityTypes, PassCarries, AtCert, At, existing, Optional

\* The start of a pass: the worker holds the spec and the address, no Secret.
LEMMA IdentityStart == IdentityInv /\ applyService => IdentityInv'
  <1> SUFFICES ASSUME IdentityInv, applyService PROVE IdentityInv'
    OBVIOUS
  <1>1. spec.port \in Ports /\ spec \in Specs
    BY DEF IdentityInv, IdentityTypes, Ports
  <1>2. svc' \in Services
    <2>1. CASE svc = None
      BY <1>1, <2>1 DEF applyService, Services
    <2>2. CASE svc # None
      <3>1. svc \in Services
        BY <2>2 DEF IdentityInv, IdentityTypes, Optional
      <3>2. svc' = [svc EXCEPT !.port = spec.port]
        BY <2>2 DEF applyService
      <3> QED
        BY <1>1, <3>1, <3>2 DEF Services
    <2> QED
      BY <2>1, <2>2
  <1>3. svc'.ip \in IPs \cup UserIPs
    BY <1>2 DEF Services
  <1>4. w' = [pc |-> "secret", kt |-> spec, ip |-> svc'.ip, secret |-> None]
    BY Zenon DEF applyService, Idle
  <1>5. w' \in Workers
    BY <1>1, <1>3, <1>4, Zenon DEF Workers, Steps, Optional
  <1>6. IdentityTypes'
    BY <1>2, <1>5 DEF IdentityInv, IdentityTypes, applyService, Optional
  <1>7. PassCarries'
    BY <1>1, <1>4 DEF PassCarries, Certified, applyService
  <1>8. TemplateCovers'
    BY DEF IdentityInv, TemplateCovers, applyService
  <1> QED
    BY <1>6, <1>7, <1>8 DEF IdentityInv

\* The four branches of reconcileSecret leave the pass with a Secret whose
\* certificate covers its address.
LEMMA IdentitySecret ==
    IdentityInv /\ (createSecret \/ backfillKCM \/ keepCert \/ reissueServingCert) => IdentityInv'
  <1> SUFFICES ASSUME IdentityInv, createSecret \/ backfillKCM \/ keepCert \/ reissueServingCert
               PROVE  IdentityInv'
    OBVIOUS
  <1>0. generateToken \subseteq Ids
    BY DEF generateToken
  <1>1. CASE createSecret
    <2>1. PICK n \in Ids : WriteSecret([tok |-> n, kcm |-> n, ca |-> n, key |-> TRUE,
                        leaf |-> IssueServerCert(n, n, w.ip), kubeconfig |-> None], "mirror")
      BY <1>0, <1>1, Zenon DEF createSecret
    <2> DEFINE s == [tok |-> n, kcm |-> n, ca |-> n, key |-> TRUE,
                     leaf |-> IssueServerCert(n, n, w.ip), kubeconfig |-> None]
    <2>2. s \in Secrets /\ s.leaf = IssueServerCert(n, n, w.ip)
      BY IssuedCovers DEF Secrets, Optional
    <2>3. w.ip \in IPs => s.leaf.ip = w.ip
      BY <2>2, IssuedCovers
    <2>4. w.pc # "idle" /\ WriteSecret(s, "mirror")
      BY <1>1, <2>1 DEF createSecret, At
    <2> HIDE DEF s
    <2> QED
      BY <2>2, <2>3, <2>4, IdentityWrite
  <1>2. CASE backfillKCM
    <2>1. secret \in Secrets
      BY <1>2 DEF backfillKCM, Lacks, IdentityInv, IdentityTypes, Optional
    <2>2. PICK n \in Ids : WriteSecret([secret EXCEPT !.kcm = n], "cert")
      BY <1>0, <1>2 DEF backfillKCM
    <2> DEFINE s == [secret EXCEPT !.kcm = n]
    <2>3. s \in Secrets
      BY <2>1 DEF Secrets
    <2>4. w.pc # "idle" /\ WriteSecret(s, "cert")
      BY <1>2, <2>2 DEF backfillKCM, At
    <2> HIDE DEF s
    <2> QED
      BY <2>3, <2>4, IdentityWrite
  <1>3. CASE keepCert
    <2>1. existing \in Secrets /\ w.pc # "idle"
      BY <1>3, ExistingIsSecret DEF keepCert
    <2> DEFINE s == existing
    <2>2. w.ip \in IPs => s.leaf.ip = w.ip
      BY <1>3, IPsAssumption, Zenon DEF keepCert, certIsKept, certCoversIP
    <2>3. w' = [w EXCEPT !.secret = s, !.pc = "mirror"]
      BY <1>3 DEF keepCert
    <2>4. s \in Secrets
      BY <2>1
    <2> HIDE DEF s
    <2>5. w' \in Workers /\ w'.pc = "mirror" /\ w'.kt = w.kt /\ w'.ip = w.ip /\ w'.secret = s
      BY <2>3, <2>4, Zenon DEF IdentityInv, IdentityTypes, Workers, Steps, Optional
    <2>6. IdentityTypes'
      BY <1>3, <2>5 DEF keepCert, cluster, IdentityInv, IdentityTypes
    <2>7. PassCarries'
      BY <2>1, <2>2, <2>4, <2>5 DEF IdentityInv, PassCarries, Certified
    <2>8. TemplateCovers'
      BY <1>3 DEF keepCert, cluster, IdentityInv, TemplateCovers
    <2> QED
      BY <2>6, <2>7, <2>8 DEF IdentityInv
  <1>4. CASE reissueServingCert
    <2>1. secret \in Secrets /\ w.pc # "idle"
      BY <1>4, ExistingIsSecret, ZenonT(30) DEF reissueServingCert
    <2>2. PICK n \in Ids, ca \in Ids :
             WriteSecret([secret EXCEPT !.ca = ca, !.key = TRUE, !.leaf = IssueServerCert(n, ca, w.ip)], "mirror")
      BY <1>0, <1>4, <2>1, Zenon DEF reissueServingCert, Secrets
    <2> DEFINE leaf == IssueServerCert(n, ca, w.ip)
               s == [secret EXCEPT !.ca = ca, !.key = TRUE, !.leaf = leaf]
    <2>3. leaf \in Leaves /\ (w.ip \in IPs => leaf.ip = w.ip)
      BY IssuedCovers
    <2>4. WriteSecret(s, "mirror")
      BY <2>2
    <2> HIDE DEF leaf
    <2>5. s \in Secrets /\ s.leaf = leaf
      BY <2>1, <2>3, Zenon DEF Secrets
    <2> HIDE DEF s
    <2> QED
      BY <2>1, <2>3, <2>4, <2>5, IdentityWrite
  <1> QED
    BY <1>1, <1>2, <1>3, <1>4

\* The template takes certificate and address from one pass.
LEMMA IdentityDeploy == IdentityInv /\ applyDeployment => IdentityInv'
  <1> SUFFICES ASSUME IdentityInv, applyDeployment PROVE IdentityInv'
    OBVIOUS
  <1>1. w.pc = "deployment" /\ w' = [w EXCEPT !.pc = "netpol"]
    BY DEF applyDeployment, At, To
  <1>2. w' \in Workers /\ w'.pc = "netpol" /\ w'.kt = w.kt /\ w'.ip = w.ip /\ w'.secret = w.secret
    BY <1>1, Zenon DEF IdentityInv, IdentityTypes, Workers, Steps
  <1>3. IdentityTypes'
    BY <1>2 DEF IdentityInv, IdentityTypes, applyDeployment
  <1>4. PassCarries'
    BY <1>1, <1>2 DEF IdentityInv, PassCarries, Certified
  <1>5. dep'.leaf = w.secret.leaf /\ dep'.ip = w.ip
    BY DEF applyDeployment, buildDeployment
  <1>6. w.ip \in IPs => w.secret.leaf.ip = w.ip
    BY <1>1 DEF IdentityInv, PassCarries, Certified
  <1>7. TemplateCovers'
    BY <1>5, <1>6 DEF TemplateCovers
  <1> QED
    BY <1>3, <1>4, <1>7 DEF IdentityInv

\* The kubeconfig is the only field the last write to the Secret changes.
LEMMA KubeconfigWrite ==
    ASSUME IdentityInv, reconcileKubeconfig, secret' # secret
    PROVE  /\ secret \in Secrets /\ secret' \in Secrets
           /\ secret' = [secret EXCEPT !.kubeconfig = renderKubeconfig(w.kt, w.secret)]
  <1>1. w.pc = "kubeconfig" /\ secret # None
        /\ secret' = [secret EXCEPT !.kubeconfig = renderKubeconfig(w.kt, w.secret)]
    BY DEF reconcileKubeconfig, At
  <1>2. w.kt \in Specs /\ w.secret \in Secrets /\ secret \in Secrets
    BY <1>1 DEF IdentityInv, IdentityTypes, PassCarries, Certified, Optional
  <1>3. w.kt.port \in Ports
    BY <1>2 DEF Ports
  <1>4. renderKubeconfig(w.kt, w.secret) \in Kubeconfigs
    BY <1>2, <1>3 DEF renderKubeconfig, Kubeconfigs, Secrets
  <1> QED
    BY <1>1, <1>2, <1>4 DEF Secrets, Optional

\* With or without that write the pass goes on with the Secret it has.
LEMMA IdentityKubeconfig == IdentityInv /\ reconcileKubeconfig => IdentityInv'
  <1> SUFFICES ASSUME IdentityInv, reconcileKubeconfig PROVE IdentityInv'
    OBVIOUS
  <1>1. w.pc = "kubeconfig" /\ To("status") /\ dep' = dep /\ UNCHANGED <<spec, svc, seen>>
    BY DEF reconcileKubeconfig, At
  <1>2. CASE secret' = secret
    BY <1>1, <1>2, IdentityAdvance DEF Certified
  <1>3. CASE secret' # secret
    <2>1. w' \in Workers /\ w'.pc = "status" /\ w'.kt = w.kt /\ w'.ip = w.ip /\ w'.secret = w.secret
      BY <1>1, Zenon DEF IdentityInv, IdentityTypes, To, Workers, Steps
    <2>2. secret' \in Secrets
      BY <1>3, KubeconfigWrite
    <2>3. IdentityTypes'
      BY <1>1, <2>1, <2>2 DEF IdentityInv, IdentityTypes, Optional
    <2>4. PassCarries'
      BY <1>1, <2>1 DEF IdentityInv, PassCarries, Certified
    <2>5. TemplateCovers'
      BY <1>1 DEF IdentityInv, TemplateCovers
    <2> QED
      BY <2>3, <2>4, <2>5 DEF IdentityInv
  <1> QED
    BY <1>2, <1>3

\* One step per action of the pass.
LEMMA IdentityPass == IdentityInv /\ Pass => IdentityInv'
  <1> SUFFICES ASSUME IdentityInv, Pass PROVE IdentityInv'
    OBVIOUS
  <1>1. CASE applyService
    BY <1>1, IdentityStart
  <1>2. CASE createSecret \/ backfillKCM \/ keepCert \/ reissueServingCert
    BY <1>2, IdentitySecret
  <1>3. CASE reconcileMirroredSecrets
    BY <1>3, IdentityAdvance DEF reconcileMirroredSecrets, At, Certified
  <1>4. CASE reconcileConfigMap
    BY <1>4, IdentityAdvance DEF reconcileConfigMap, At, Certified
  <1>5. CASE ensureDataPVC
    BY <1>5, IdentityAdvance DEF ensureDataPVC, At, Certified
  <1>6. CASE applyDeployment
    BY <1>6, IdentityDeploy
  <1>7. CASE applyNetworkPolicy
    BY <1>7, IdentityAdvance DEF applyNetworkPolicy, At, Certified
  <1>8. CASE reconcileKubeconfig
    BY <1>8, IdentityKubeconfig
  <1>9. CASE updateStatus
    BY <1>9, IdentityIdle DEF updateStatus, cluster
  <1>10. CASE Refused
    BY <1>10, IdentityIdle DEF Refused, markFailed, cluster
  <1> QED
    BY <1>1, <1>2, <1>3, <1>4, <1>5, <1>6, <1>7, <1>8, <1>9, <1>10 DEF Pass

\* Every step keeps the invariant.
LEMMA IdentityStep == IdentityInv /\ [Next]_vars => IdentityInv'
  <1> SUFFICES ASSUME IdentityInv, [Next]_vars PROVE IdentityInv'
    OBVIOUS
  <1>0. /\ spec \in Specs /\ svc \in Optional(Services)
        /\ secret \in Optional(Secrets) /\ seen \in Optional(Secrets)
    BY DEF IdentityInv, IdentityTypes
  <1>1. CASE Pass
    BY <1>1, IdentityPass
  <1>2. CASE SyncSecret
    BY <1>0, <1>2, IdentityBeside DEF SyncSecret, cluster
  <1>3. CASE RollOut
    BY <1>0, <1>3, IdentityBeside DEF RollOut
  <1>4. CASE CallFails
    BY <1>4, IdentityIdle DEF CallFails, markFailed, cluster
  <1>5. CASE Restart
    BY <1>5, IdentityIdle DEF Restart, cluster
  <1>6. CASE Evict
    BY <1>0, <1>6, IdentityBeside DEF Evict
  <1>7. CASE EditSpec
    BY <1>0, <1>7, IdentityBeside DEF EditSpec, cluster
  <1>8. CASE DeleteSecret
    BY <1>0, <1>8, IdentityBeside DEF DeleteSecret, Optional
  <1>9. CASE ReplaceService
    <2>1. svc \in Services
      BY <1>0, <1>9 DEF ReplaceService, Optional
    <2>2. svc' \in Optional(Services)
      BY <1>9, <2>1 DEF ReplaceService, Optional, Services
    <2> QED
      BY <1>0, <1>9, <2>2, IdentityBeside DEF ReplaceService
  <1>10. CASE DeleteOwned
    BY <1>0, <1>10, IdentityBeside DEF DeleteOwned
  <1>11. CASE \E p \in Candidates : CreatePod(p) \/ DeletePod(p)
    <2>1. UNCHANGED <<spec, cluster, seen, w>>
      BY <1>11, Zenon DEF CreatePod, DeletePod
    <2> QED
      BY <1>0, <2>1, IdentityBeside DEF cluster
  <1>12. CASE UNCHANGED vars
    BY <1>0, <1>12, IdentityBeside DEF vars
  <1> QED
    BY <1>1, <1>2, <1>3, <1>4, <1>5, <1>6, <1>7, <1>8, <1>9, <1>10, <1>11, <1>12 DEF Next

\* Whatever happens to Service, Secret, cache and worker, a Pod of the template
\* serves a certificate that covers the address the template gives out.
THEOREM TemplateAlwaysCovers == Spec => []TemplateCovers
  <1>1. IdentityInv => TemplateCovers
    BY DEF IdentityInv
  <1> QED
    BY <1>1, IdentityInit, IdentityStep, PTL DEF Spec

\* What IdentityKept says of one step, for the Secret and for the rest.
SecretKept ==
    (secret # None /\ secret' # None) =>
        /\ secret'.tok = secret.tok
        /\ secret.kcm # NoToken => secret'.kcm = secret.kcm
        /\ secret.key => secret'.ca = secret.ca /\ secret'.key
        /\ secret'.leaf # secret.leaf => ~certCoversIP(secret.leaf, w.ip) /\ secret'.leaf.ca = secret'.ca
OthersKept == (pvc => pvc') /\ (bare = "foreign" => bare' = "foreign")

\* Three steps write to a Secret that is there, each under its resourceVersion.
LEMMA SecretKeptStep == IdentityInv /\ [Next]_vars => SecretKept
  <1> SUFFICES ASSUME IdentityInv, [Next]_vars PROVE SecretKept
    OBVIOUS
  <1>0. generateToken \subseteq Ids
    BY DEF generateToken
  <1>1. CASE UNCHANGED secret
    BY <1>1 DEF SecretKept
  <1>2. CASE createSecret \/ DeleteSecret
    BY <1>2 DEF SecretKept, createSecret, DeleteSecret
  <1>3. CASE backfillKCM
    <2>1. secret \in Secrets /\ secret.kcm = NoToken
      BY <1>3 DEF backfillKCM, Lacks, IdentityInv, IdentityTypes, Optional
    <2>2. PICK n \in Ids : secret' = [secret EXCEPT !.kcm = n]
      BY <1>0, <1>3 DEF backfillKCM, WriteSecret
    <2> QED
      BY <2>1, <2>2 DEF SecretKept, Secrets
  <1>4. CASE reissueServingCert
    <2>1. secret \in Secrets /\ ~certCoversIP(secret.leaf, w.ip)
      BY <1>4, ExistingIsSecret, ZenonT(30) DEF reissueServingCert, certIsKept
    <2>2. PICK n \in Ids, ca \in Ids :
             /\ secret.key => ca = secret.ca
             /\ secret' = [secret EXCEPT !.ca = ca, !.key = TRUE, !.leaf = IssueServerCert(n, ca, w.ip)]
      BY <1>0, <1>4, <2>1, Zenon DEF reissueServingCert, WriteSecret, Secrets
    <2> DEFINE leaf == IssueServerCert(n, ca, w.ip)
    <2>3. leaf \in Leaves /\ leaf.ca = ca
      BY IssuedCovers
    <2>4. secret' = [secret EXCEPT !.ca = ca, !.key = TRUE, !.leaf = leaf]
      BY <2>2
    <2> HIDE DEF leaf
    <2>5. /\ secret'.tok = secret.tok /\ secret'.kcm = secret.kcm
          /\ secret'.ca = ca /\ secret'.key = TRUE /\ secret'.leaf = leaf
      BY <2>1, <2>4 DEF Secrets
    <2> QED
      BY <2>1, <2>2, <2>3, <2>5 DEF SecretKept
  <1>5. CASE reconcileKubeconfig /\ secret' # secret
    <2>1. /\ secret \in Secrets
          /\ secret' = [secret EXCEPT !.kubeconfig = renderKubeconfig(w.kt, w.secret)]
      BY <1>5, KubeconfigWrite
    <2>2. /\ secret'.tok = secret.tok /\ secret'.kcm = secret.kcm /\ secret'.ca = secret.ca
          /\ secret'.key = secret.key /\ secret'.leaf = secret.leaf
      BY <2>1 DEF Secrets
    <2> QED
      BY <2>2 DEF SecretKept
  <1>6. \/ UNCHANGED secret
        \/ createSecret \/ backfillKCM \/ reissueServingCert \/ DeleteSecret
        \/ reconcileKubeconfig /\ secret' # secret
    <2>1. Pass => \/ UNCHANGED secret \/ createSecret \/ backfillKCM \/ reissueServingCert
                  \/ reconcileKubeconfig /\ secret' # secret
      BY DEF Pass, applyService, keepCert, reconcileMirroredSecrets, reconcileConfigMap, ensureDataPVC,
             applyDeployment, applyNetworkPolicy, updateStatus, Refused, markFailed, cluster
    <2>2. (SyncSecret \/ RollOut \/ CallFails \/ Restart \/ Evict \/ EditSpec \/ ReplaceService \/ DeleteOwned)
             => UNCHANGED secret
      BY DEF SyncSecret, RollOut, CallFails, markFailed, Restart, Evict, EditSpec, ReplaceService,
             DeleteOwned, cluster
    <2>3. (\E p \in Candidates : CreatePod(p) \/ DeletePod(p)) => UNCHANGED secret
      BY Zenon DEF CreatePod, DeletePod, cluster
    <2>4. (UNCHANGED vars) => UNCHANGED secret
      BY DEF vars
    <2> QED
      BY <2>1, <2>2, <2>3, <2>4 DEF Next
  <1> QED
    BY <1>1, <1>2, <1>3, <1>4, <1>5, <1>6

\* Only ensureDataPVC writes the claim and only applyNetworkPolicy the policy
\* of the bare name.
LEMMA OthersKeptStep == [Next]_vars => OthersKept
  <1> SUFFICES ASSUME [Next]_vars PROVE OthersKept
    OBVIOUS
  <1>1. Pass => OthersKept
    <2>0. applyNetworkPolicy => OthersKept
      BY DEF applyNetworkPolicy, OthersKept
    <2>1. ensureDataPVC => OthersKept
      <3>1. ensureDataPVC => (pvc' = (pvc \/ w.kt.persistent)) /\ bare' = bare
        BY Zenon DEF ensureDataPVC
      <3> QED
        BY <3>1, Zenon DEF OthersKept
    <2>2. (createSecret \/ backfillKCM \/ reissueServingCert) => UNCHANGED <<pvc, bare>>
      BY Zenon DEF createSecret, backfillKCM, reissueServingCert, WriteSecret
    <2>3. (applyService \/ keepCert \/ reconcileMirroredSecrets \/ reconcileConfigMap
           \/ applyDeployment \/ reconcileKubeconfig \/ updateStatus \/ Refused) => UNCHANGED <<pvc, bare>>
      BY DEF applyService, keepCert, reconcileMirroredSecrets, reconcileConfigMap, applyDeployment,
             reconcileKubeconfig, updateStatus, Refused, markFailed, cluster
    <2>4. (UNCHANGED <<pvc, bare>>) => OthersKept
      BY DEF OthersKept
    <2> QED
      BY <2>0, <2>1, <2>2, <2>3, <2>4 DEF Pass
  <1>2. (SyncSecret \/ RollOut \/ CallFails \/ Restart \/ Evict \/ EditSpec \/ DeleteSecret
         \/ ReplaceService \/ DeleteOwned) => UNCHANGED <<pvc, bare>>
    BY DEF SyncSecret, RollOut, CallFails, markFailed, Restart, Evict, EditSpec, DeleteSecret,
           ReplaceService, DeleteOwned, cluster
  <1>3. (\E p \in Candidates : CreatePod(p) \/ DeletePod(p)) => UNCHANGED <<pvc, bare>>
    BY Zenon DEF CreatePod, DeletePod, cluster
  <1>4. (UNCHANGED vars) => UNCHANGED <<pvc, bare>>
    BY DEF vars
  <1> QED
    BY <1>1, <1>2, <1>3, <1>4 DEF Next, OthersKept

\* No pass, on whatever cached Secret it works, replaces a token, a CA whose
\* key was kept or a certificate that covers the address, or deletes the volume
\* claim or a user's NetworkPolicy.
THEOREM IdentityIsKept == Spec => IdentityKept
  <1>1. IdentityInv /\ [Next]_vars => [SecretKept /\ OthersKept]_vars
    BY SecretKeptStep, OthersKeptStep
  <1> QED
    BY <1>1, IdentityInit, IdentityStep, PTL DEF Spec, IdentityKept, SecretKept, OthersKept

-----------------------------------------------------------------------------
(* The template changes only when something it is built from has *)

\* certIsKept, of any certificate and address.
Kept(leaf, ip) == ip = "" \/ certCoversIP(leaf, ip)

\* The fields of a Secret the template depends on.
Same(s, t) == s.tok = t.tok /\ s.kcm = t.kcm /\ s.leaf = t.leaf

\* A cached Secret that a pass for this address would go on with as it is.
Usable(s, ip) == s # None /\ s.kcm # NoToken /\ Kept(s.leaf, ip)

\* The cache may be behind, but not with a Secret that a pass would use.
Accord == svc # None /\ secret # None /\ (Usable(seen, svc.ip) => Same(seen, secret))

Holding == {"cert"} \cup Certified

\* Nothing was reconciled yet.
Untouched == svc = None /\ secret = None /\ seen = None /\ dep = None /\ w.pc = "idle"

\* Unless there was a change since it began, a pass works for the address and
\* the spec there are.
PassAgrees ==
    (due # 2 /\ w.pc # "idle") => svc # None /\ w.ip = svc.ip /\ Rolling(w.kt) = Rolling(spec)

\* A pass that holds the current Secret has left no older one to go back to.
PassAccords == (due # 2 /\ w.pc \in Holding /\ Current(w.secret)) => Accord

\* The template has taken up what it depends on, and so will the pass in
\* progress and the next one.
TakenUp ==
    /\ Accord
    /\ dep # None => dep = buildDeployment(spec, renderTokenAuthFile(spec, secret), secret.leaf, svc.ip)
    /\ w.pc \in Holding => Current(w.secret)

\* The checksum a pass has taken is of its own Secret.
SumAgrees == w.pc \in {"pvc", "deployment"} => sum = renderTokenAuthFile(w.kt, w.secret)

RolloutInv ==
    /\ due \in 0 .. 2
    /\ PassAgrees /\ PassAccords /\ SumAgrees
    /\ due = 0 => Untouched \/ TakenUp

\* The template depends on a spec through Rolling and on a Secret through Same.
LEMMA SameTemplate ==
    ASSUME NEW a, NEW b, NEW s, NEW t, NEW ip, Rolling(a) = Rolling(b), Same(s, t)
    PROVE  buildDeployment(a, renderTokenAuthFile(a, s), s.leaf, ip)
             = buildDeployment(b, renderTokenAuthFile(b, t), t.leaf, ip)
  BY DEF Rolling, Same, buildDeployment, renderTokenAuthFile

\* A worker that gives up a pass.
LEMMA RolloutIdle ==
    ASSUME RolloutInv, w' = Idle, UNCHANGED <<spec, svc, secret, due>>, dep' = dep, seen' \in {seen, secret}
    PROVE  RolloutInv'
  <1>1. w'.pc = "idle"
    BY Zenon DEF Idle
  <1>2. PassAgrees' /\ PassAccords' /\ SumAgrees'
    BY <1>1 DEF PassAgrees, PassAccords, SumAgrees, Holding, Certified
  <1>3. Accord => Accord'
    BY DEF Accord, Same
  <1>4. TakenUp => TakenUp'
    BY <1>1, <1>3 DEF TakenUp, Holding, Certified
  <1>5. Untouched => Untouched'
    BY <1>1 DEF Untouched
  <1> QED
    BY <1>2, <1>4, <1>5 DEF RolloutInv

\* A step beside the pass that changes nothing the template depends on.
LEMMA RolloutBeside ==
    ASSUME RolloutInv, UNCHANGED <<w, sum, svc, secret, due>>, Rolling(spec') = Rolling(spec),
           dep' \in {dep, None}, seen' \in {seen, secret}
    PROVE  RolloutInv'
  <1>1. PassAgrees' /\ SumAgrees'
    BY DEF RolloutInv, PassAgrees, SumAgrees
  <1>2. Accord => Accord'
    BY DEF Accord, Same
  <1>3. PassAccords'
    BY <1>2 DEF RolloutInv, PassAccords, Current
  <1>4. TakenUp => TakenUp'
    <2>1. Same(secret, secret)
      BY DEF Same
    <2>2. buildDeployment(spec', renderTokenAuthFile(spec', secret), secret.leaf, svc.ip)
            = buildDeployment(spec, renderTokenAuthFile(spec, secret), secret.leaf, svc.ip)
      BY <2>1, SameTemplate
    <2> QED
      BY <1>2, <2>2 DEF TakenUp, Current
  <1>5. Untouched => Untouched'
    BY DEF Untouched
  <1> QED
    BY <1>1, <1>3, <1>4, <1>5 DEF RolloutInv

\* A change that the pass in progress may have missed.
LEMMA RolloutTouched ==
    ASSUME RolloutInv, UNCHANGED <<w, sum>>, due' = 2
    PROVE  RolloutInv'
  BY DEF RolloutInv, PassAgrees, PassAccords, SumAgrees

\* The start of a pass.
LEMMA RolloutStart ==
    ASSUME IdentityInv, RolloutInv, applyService
    PROVE  RolloutInv'
  <1>1. w' = [pc |-> "secret", kt |-> spec, ip |-> svc'.ip, secret |-> None] /\ w.pc = "idle"
    BY Zenon DEF applyService, Idle, At
  <1>2. UNCHANGED <<spec, secret, seen, dep>> /\ due' = IF due = 2 \/ svc = None THEN 1 ELSE due
    BY DEF applyService
  <1>3. svc' # None /\ (svc # None => svc'.ip = svc.ip)
    <2>1. svc' \in Services
      <3>1. CASE svc = None
        BY <3>1 DEF applyService, Services, IdentityInv, IdentityTypes, Ports
      <3>2. CASE svc # None
        BY <3>2 DEF applyService, Services, IdentityInv, IdentityTypes, Ports, Optional
      <3> QED
        BY <3>1, <3>2
    <2>2. svc # None => svc'.ip = svc.ip
      BY DEF applyService, Services, IdentityInv, IdentityTypes, Optional
    <2> QED
      BY <2>1, <2>2, NoneAssumption
  <1>4. PassAgrees' /\ PassAccords' /\ SumAgrees'
    BY <1>1, <1>2, <1>3 DEF PassAgrees, PassAccords, SumAgrees, Holding, Certified
  <1>5. TakenUp => TakenUp'
    BY <1>1, <1>2, <1>3 DEF TakenUp, Accord, Holding, Certified
  <1>6. due' \in 0 .. 2 /\ (due' = 0 => due = 0 /\ svc # None)
    BY <1>2 DEF RolloutInv
  <1> QED
    BY <1>4, <1>5, <1>6 DEF RolloutInv, Untouched

\* A write to the Secret after which the cache holds none that a pass would use.
LEMMA RolloutWrite ==
    ASSUME IdentityInv, RolloutInv, NEW s \in Secrets, NEW pc \in {"cert", "mirror"}, WriteSecret(s, pc),
           w.pc # "idle", s # None, due # 2 => ~Usable(seen, svc.ip)
    PROVE  RolloutInv'
  <1>1. w'.pc = pc /\ w'.kt = w.kt /\ w'.ip = w.ip /\ w'.secret = s /\ secret' = s
    BY Zenon DEF IdentityInv, IdentityTypes, WriteSecret, Workers
  <1>2. UNCHANGED <<spec, svc, seen, dep, sum>> /\ due' = IF due = 0 THEN 1 ELSE due
    BY DEF WriteSecret, Touched
  <1>3. due' \in 1 .. 2 /\ (due' # 2 => due # 2)
    BY <1>2 DEF RolloutInv
  <1>4. PassAgrees' /\ SumAgrees'
    BY <1>1, <1>2, <1>3 DEF RolloutInv, PassAgrees, SumAgrees
  <1>5. PassAccords'
    BY <1>1, <1>2, <1>3 DEF RolloutInv, PassAgrees, PassAccords, Accord
  <1> QED
    BY <1>3, <1>4, <1>5 DEF RolloutInv

\* The branches of reconcileSecret.  The two that write do so because the Secret
\* in the cache is none a pass could use; the one that does not goes on with a
\* Secret that is the current one, if the template had taken that up.
LEMMA RolloutSecret ==
    ASSUME IdentityInv, RolloutInv, createSecret \/ backfillKCM \/ keepCert \/ reissueServingCert
    PROVE  RolloutInv'
  <1>0. generateToken \subseteq Ids
    BY DEF generateToken
  <1>1. CASE createSecret
    <2>1. PICK n \in Ids : WriteSecret([tok |-> n, kcm |-> n, ca |-> n, key |-> TRUE,
                        leaf |-> IssueServerCert(n, n, w.ip), kubeconfig |-> None], "mirror")
      BY <1>0, <1>1, Zenon DEF createSecret
    <2> DEFINE s == [tok |-> n, kcm |-> n, ca |-> n, key |-> TRUE,
                     leaf |-> IssueServerCert(n, n, w.ip), kubeconfig |-> None]
    <2>2. s \in Secrets
      BY IssuedCovers DEF Secrets, Optional
    <2>3. w.pc # "idle" /\ WriteSecret(s, "mirror") /\ ~Usable(seen, svc.ip)
      BY <1>1, <2>1 DEF createSecret, At, Usable
    <2> HIDE DEF s
    <2> QED
      BY <2>2, <2>3, NoneAssumption, RolloutWrite
  <1>2. CASE backfillKCM
    <2>1. secret \in Secrets
      BY <1>2 DEF backfillKCM, Lacks, IdentityInv, IdentityTypes, Optional
    <2>2. PICK n \in Ids : WriteSecret([secret EXCEPT !.kcm = n], "cert")
      BY <1>0, <1>2 DEF backfillKCM
    <2> DEFINE s == [secret EXCEPT !.kcm = n]
    <2>3. s \in Secrets
      BY <2>1 DEF Secrets
    <2>4. w.pc # "idle" /\ WriteSecret(s, "cert") /\ ~Usable(seen, svc.ip)
      BY <1>2, <2>2 DEF backfillKCM, At, Usable, Lacks
    <2> HIDE DEF s
    <2> QED
      BY <2>3, <2>4, NoneAssumption, RolloutWrite
  <1>3. CASE keepCert
    <2>1. existing \in Secrets /\ w.pc # "idle" /\ Kept(existing.leaf, w.ip)
      BY <1>3, ExistingIsSecret, Zenon DEF keepCert, certIsKept, Kept
    <2>2. w' = [w EXCEPT !.secret = existing, !.pc = "mirror"]
      BY <1>3 DEF keepCert
    <2>3. w'.pc = "mirror" /\ w'.kt = w.kt /\ w'.ip = w.ip /\ w'.secret = existing
      BY <2>2, Zenon DEF IdentityInv, IdentityTypes, Workers
    <2>4. UNCHANGED <<spec, svc, secret, seen, dep, sum, due>>
      BY <1>3 DEF keepCert, cluster
    <2>5. (due # 2 /\ Current(existing)) => Accord
      <3>1. CASE w.pc = "cert"
        BY <3>1 DEF RolloutInv, PassAccords, Holding, existing, At
      <3>2. CASE w.pc # "cert"
        <4>1. existing = seen
          BY <3>2 DEF existing, At
        <4> QED
          BY <2>1, <4>1 DEF Accord, Current, Same, RolloutInv, PassAgrees
      <3> QED
        BY <3>1, <3>2
    <2>6. TakenUp /\ due = 0 => Current(existing)
      <3>1. CASE w.pc = "cert"
        BY <3>1 DEF TakenUp, Holding, existing, At
      <3>2. CASE w.pc # "cert"
        <4>1. existing = seen /\ seen # None /\ seen.kcm # NoToken
          BY <1>3, <3>2 DEF existing, At, keepCert, AtCert, Lacks
        <4>2. TakenUp /\ due = 0 => Usable(seen, svc.ip)
          BY <2>1, <4>1 DEF Usable, RolloutInv, PassAgrees
        <4> QED
          BY <4>1, <4>2 DEF TakenUp, Accord, Current, Same
      <3> QED
        BY <3>1, <3>2
    <2>7. PassAgrees' /\ SumAgrees'
      BY <2>1, <2>3, <2>4 DEF RolloutInv, PassAgrees, SumAgrees
    <2>8. (Accord => Accord') /\ (Current(existing) <=> Current(w.secret)')
      BY <2>3, <2>4 DEF Accord, Current
    <2>9. PassAccords'
      BY <2>3, <2>4, <2>5, <2>8 DEF PassAccords
    <2>10. (due = 0 /\ TakenUp) => TakenUp'
      BY <2>3, <2>4, <2>6, <2>8 DEF TakenUp
    <2> QED
      BY <2>1, <2>4, <2>7, <2>9, <2>10 DEF RolloutInv, Untouched
  <1>4. CASE reissueServingCert
    <2>1. secret = existing /\ secret \in Secrets /\ w.pc # "idle" /\ ~Kept(secret.leaf, w.ip)
      BY <1>4, ExistingIsSecret, ZenonT(30) DEF reissueServingCert, certIsKept, Kept
    <2>2. PICK n \in Ids, ca \in Ids :
             WriteSecret([secret EXCEPT !.ca = ca, !.key = TRUE, !.leaf = IssueServerCert(n, ca, w.ip)], "mirror")
      BY <1>0, <1>4, <2>1, Zenon DEF reissueServingCert, Secrets
    <2> DEFINE leaf == IssueServerCert(n, ca, w.ip)
               s == [secret EXCEPT !.ca = ca, !.key = TRUE, !.leaf = leaf]
    <2>3. leaf \in Leaves
      BY IssuedCovers
    <2>4. WriteSecret(s, "mirror")
      BY <2>2
    <2> HIDE DEF leaf
    <2>5. s \in Secrets
      BY <2>1, <2>3, Zenon DEF Secrets
    <2> HIDE DEF s
    <2>6. ASSUME due # 2, Usable(seen, svc.ip) PROVE FALSE
      <3>1. w.ip = svc.ip
        BY <2>1, <2>6 DEF RolloutInv, PassAgrees
      <3>2. seen.leaf = secret.leaf
        <4>1. CASE w.pc = "cert"
          <5>1. Current(w.secret) /\ w.pc \in Holding
            BY <2>1, <4>1, NoneAssumption DEF existing, At, Current, Holding
          <5> QED
            BY <2>6, <5>1 DEF RolloutInv, PassAccords, Accord, Same
        <4>2. CASE w.pc # "cert"
          BY <2>1, <4>2 DEF existing, At
        <4> QED
          BY <4>1, <4>2
      <3> QED
        BY <2>1, <2>6, <3>1, <3>2 DEF Usable
    <2> QED
      BY <2>1, <2>4, <2>5, <2>6, NoneAssumption, RolloutWrite
  <1> QED
    BY <1>1, <1>2, <1>3, <1>4

\* A step of the pass that leaves alone what the template depends on.
LEMMA RolloutAdvance ==
    ASSUME IdentityInv, RolloutInv, NEW pc \in Certified, w.pc \in Certified, To(pc),
           UNCHANGED <<spec, svc, secret, seen, due>>, dep' = dep,
           pc \in {"pvc", "deployment"} => sum' = renderTokenAuthFile(w.kt, w.secret)
    PROVE  RolloutInv'
  <1>1. w'.pc = pc /\ w'.kt = w.kt /\ w'.ip = w.ip /\ w'.secret = w.secret
    BY Zenon DEF IdentityInv, IdentityTypes, To, Workers
  <1>2. w.pc # "idle" /\ w.pc \in Holding /\ pc \in Holding
    BY DEF Certified, Holding
  <1>3. PassAgrees' /\ SumAgrees'
    BY <1>1, <1>2 DEF RolloutInv, PassAgrees, SumAgrees
  <1>4. (Accord => Accord') /\ (Current(w.secret)' <=> Current(w.secret))
    BY <1>1 DEF Accord, Current
  <1>5. PassAccords'
    BY <1>2, <1>4 DEF RolloutInv, PassAccords
  <1>6. TakenUp => TakenUp'
    BY <1>1, <1>2, <1>4 DEF TakenUp
  <1> QED
    BY <1>2, <1>3, <1>5, <1>6 DEF RolloutInv, Untouched

\* The Deployment is written: a change of the template means that it was due,
\* and with the current Secret it has then taken up everything.
LEMMA RolloutDeploy ==
    ASSUME IdentityInv, RolloutInv, applyDeployment
    PROVE  RolloutInv' /\ (dep # None /\ dep' # dep => due > 0)
  <1>1. w.pc = "deployment" /\ w'.pc = "netpol" /\ w'.kt = w.kt /\ w'.ip = w.ip /\ w'.secret = w.secret
    BY Zenon DEF applyDeployment, At, To, IdentityInv, IdentityTypes, Workers
  <1>2. UNCHANGED <<spec, svc, secret, seen, sum>> /\ due' = IF due = 1 /\ Current(w.secret) THEN 0 ELSE due
    BY DEF applyDeployment
  <1>3. w.pc \in Holding /\ ~Untouched
    BY <1>1 DEF Holding, Certified, Untouched
  <1>4. due # 2 => svc # None /\ w.ip = svc.ip /\ Rolling(w.kt) = Rolling(spec)
    BY <1>1 DEF RolloutInv, PassAgrees
  <1>5. dep' = buildDeployment(w.kt, renderTokenAuthFile(w.kt, w.secret), w.secret.leaf, w.ip)
    BY <1>1 DEF RolloutInv, SumAgrees, applyDeployment
  <1>6. ASSUME due # 2, Current(w.secret)
        PROVE  dep' = buildDeployment(spec, renderTokenAuthFile(spec, secret), secret.leaf, svc.ip)
    <2>1. Same(w.secret, secret)
      BY <1>6 DEF Current, Same
    <2> QED
      BY <1>4, <1>5, <1>6, <2>1, SameTemplate, SMTT(30)
  <1>7. (Accord => Accord') /\ (Current(w.secret)' <=> Current(w.secret))
    BY <1>1, <1>2 DEF Accord, Current
  <1>8. PassAgrees' /\ SumAgrees'
    BY <1>1, <1>2, <1>4, SMTT(30) DEF PassAgrees, SumAgrees
  <1>9. PassAccords'
    BY <1>2, <1>3, <1>7, SMTT(30) DEF RolloutInv, PassAccords
  <1>10. due' = 0 => due # 2 /\ Current(w.secret)
    BY <1>2, <1>3 DEF RolloutInv, TakenUp
  <1>11. due' = 0 => TakenUp'
    <2> SUFFICES ASSUME due' = 0 PROVE TakenUp'
      OBVIOUS
    <2>1. Accord
      BY <1>3, <1>10 DEF RolloutInv, PassAccords
    <2> QED
      BY <1>2, <1>6, <1>7, <1>10, <2>1 DEF TakenUp
  <1>12. due = 0 => (dep # None => dep' = dep)
    BY <1>3, <1>6 DEF RolloutInv, TakenUp
  <1>13. due' \in 0 .. 2 /\ due \in 0 .. 2
    BY <1>2 DEF RolloutInv
  <1> QED
    BY <1>8, <1>9, <1>11, <1>12, <1>13 DEF RolloutInv

\* The last write to the Secret does not touch what the template depends on.
LEMMA RolloutKubeconfig ==
    ASSUME IdentityInv, RolloutInv, reconcileKubeconfig
    PROVE  RolloutInv'
  <1>1. w.pc = "kubeconfig" /\ To("status") /\ dep' = dep /\ UNCHANGED <<spec, svc, seen, due>>
    BY DEF reconcileKubeconfig, At
  <1>2. CASE secret' = secret
    BY <1>1, <1>2, RolloutAdvance DEF Certified
  <1>3. CASE secret' # secret
    <2>1. w'.pc = "status" /\ w'.kt = w.kt /\ w'.ip = w.ip /\ w'.secret = w.secret
      BY <1>1, Zenon DEF IdentityInv, IdentityTypes, To, Workers
    <2>2. /\ secret # None /\ secret' # None
          /\ secret'.tok = secret.tok /\ secret'.kcm = secret.kcm /\ secret'.leaf = secret.leaf
      BY <1>3, KubeconfigWrite, NoneAssumption DEF Secrets
    <2>3. (Accord => Accord') /\ (Current(w.secret)' <=> Current(w.secret))
      BY <1>1, <2>1, <2>2 DEF Accord, Current, Same
    <2>4. PassAgrees' /\ SumAgrees'
      BY <1>1, <2>1 DEF RolloutInv, PassAgrees, SumAgrees
    <2>5. PassAccords'
      BY <1>1, <2>1, <2>3 DEF RolloutInv, PassAccords, Holding, Certified
    <2>6. TakenUp => TakenUp'
      <3>1. renderTokenAuthFile(spec, secret) = renderTokenAuthFile(spec, secret)'
        BY <1>1, <2>2 DEF renderTokenAuthFile
      <3> QED
        BY <1>1, <2>1, <2>2, <2>3, <3>1 DEF TakenUp, Holding, Certified
    <2> QED
      BY <1>1, <2>4, <2>5, <2>6 DEF RolloutInv, Untouched
  <1> QED
    BY <1>2, <1>3

\* What NoIdleRollout says of one step.
DueRollout == (dep # None /\ dep' # None /\ dep' # dep) => due > 0

\* One step per action of the pass.
LEMMA RolloutPass ==
    ASSUME IdentityInv, RolloutInv, Pass
    PROVE  RolloutInv' /\ DueRollout
  <1>1. CASE applyService
    BY <1>1, RolloutStart DEF applyService, DueRollout
  <1>2. CASE createSecret \/ backfillKCM \/ keepCert \/ reissueServingCert
    <2>1. dep' = dep
      BY <1>2, Zenon
        DEF createSecret, backfillKCM, keepCert, reissueServingCert, WriteSecret, cluster
    <2> QED
      BY <1>2, <2>1, RolloutSecret DEF DueRollout
  <1>3. CASE reconcileMirroredSecrets
    BY <1>3, RolloutAdvance DEF reconcileMirroredSecrets, At, Certified, DueRollout
  <1>4. CASE reconcileConfigMap
    <2>1. sum' = renderTokenAuthFile(w.kt, w.secret)
      BY <1>4 DEF reconcileConfigMap, renderConfigData, configChecksum
    <2> QED
      BY <1>4, <2>1, RolloutAdvance DEF reconcileConfigMap, At, Certified, DueRollout
  <1>5. CASE ensureDataPVC
    <2>1. sum' = renderTokenAuthFile(w.kt, w.secret)
      BY <1>5 DEF ensureDataPVC, At, RolloutInv, SumAgrees
    <2> QED
      BY <1>5, <2>1, RolloutAdvance DEF ensureDataPVC, At, Certified, DueRollout
  <1>6. CASE applyDeployment
    BY <1>6, RolloutDeploy DEF DueRollout
  <1>7. CASE applyNetworkPolicy
    BY <1>7, RolloutAdvance DEF applyNetworkPolicy, At, Certified, DueRollout
  <1>8. CASE reconcileKubeconfig
    BY <1>8, RolloutKubeconfig DEF reconcileKubeconfig, DueRollout
  <1>9. CASE updateStatus
    BY <1>9, RolloutIdle DEF updateStatus, cluster, DueRollout
  <1>10. CASE Refused
    BY <1>10, RolloutIdle DEF Refused, markFailed, cluster, DueRollout
  <1> QED
    BY <1>1, <1>2, <1>3, <1>4, <1>5, <1>6, <1>7, <1>8, <1>9, <1>10 DEF Pass

\* Every step keeps the invariant and replaces the template only when it is due.
LEMMA RolloutStep ==
    ASSUME IdentityInv, RolloutInv, [Next]_vars
    PROVE  RolloutInv' /\ DueRollout
  <1>1. CASE Pass
    BY <1>1, RolloutPass
  <1>2. CASE SyncSecret \/ RollOut \/ Evict \/ DeleteOwned
    BY <1>2, RolloutBeside DEF SyncSecret, RollOut, Evict, DeleteOwned, cluster, DueRollout
  <1>3. CASE CallFails \/ Restart
    BY <1>3, RolloutIdle DEF CallFails, markFailed, Restart, cluster, DueRollout
  <1>4. CASE EditSpec
    <2>1. UNCHANGED <<w, sum, svc, secret, seen, dep>>
      BY <1>4 DEF EditSpec, cluster
    <2>2. CASE Rolling(spec') = Rolling(spec)
      BY <1>4, <2>1, <2>2, RolloutBeside DEF EditSpec, DueRollout
    <2>3. CASE Rolling(spec') # Rolling(spec)
      BY <1>4, <2>1, <2>3, RolloutTouched DEF EditSpec, DueRollout
    <2> QED
      BY <2>2, <2>3
  <1>5. CASE DeleteSecret \/ ReplaceService
    BY <1>5, RolloutTouched DEF DeleteSecret, ReplaceService, DueRollout
  <1>6. CASE \E p \in Candidates : CreatePod(p) \/ DeletePod(p)
    <2>1. UNCHANGED <<spec, cluster, seen, w, sum, due>>
      BY <1>6, Zenon DEF CreatePod, DeletePod
    <2> QED
      BY <2>1, RolloutBeside DEF cluster, DueRollout
  <1>7. CASE UNCHANGED vars
    BY <1>7, RolloutBeside DEF vars, DueRollout
  <1> QED
    BY <1>1, <1>2, <1>3, <1>4, <1>5, <1>6, <1>7 DEF Next

\* A new Decoy is untouched, one of an older version is due.
LEMMA RolloutInit == Init => RolloutInv
  <1> SUFFICES ASSUME Init PROVE RolloutInv
    OBVIOUS
  <1>1. w.pc = "idle" /\ seen = secret
    BY Zenon DEF Init, Idle
  <1>2. PassAgrees /\ PassAccords /\ SumAgrees
    BY <1>1 DEF PassAgrees, PassAccords, SumAgrees, Holding, Certified
  <1>3. CASE InitNew
    BY <1>1, <1>2, <1>3 DEF InitNew, RolloutInv, Untouched
  <1>4. CASE InitUpgraded
    BY <1>2, <1>4, SMTT(30) DEF InitUpgraded, RolloutInv
  <1> QED
    BY <1>3, <1>4 DEF Init

\* Both invariants, on which the rest is built.
LEMMA IdentityAndRollout == Spec => [](IdentityInv /\ RolloutInv)
  <1>1. Init => IdentityInv /\ RolloutInv
    BY IdentityInit, RolloutInit
  <1>2. IdentityInv /\ RolloutInv /\ [Next]_vars => (IdentityInv /\ RolloutInv)'
    BY IdentityStep, RolloutStep
  <1> QED
    BY <1>1, <1>2, PTL DEF Spec

\* A running decoy is restarted only when its address, its credentials or the
\* part of the spec its template is built from has changed since the template
\* was written: not by Pods that join, lagging caches, failed passes, restarts
\* of the manager or repairs.
THEOREM RolloutOnlyWhenDue == Spec => NoIdleRollout
  <1>1. IdentityInv /\ RolloutInv /\ [Next]_vars => [DueRollout]_vars
    BY RolloutStep
  <1> QED
    BY <1>1, IdentityAndRollout, PTL DEF Spec, NoIdleRollout, DueRollout

-----------------------------------------------------------------------------
(* The seed *)

Resolves(seed) ==
    LET owners == {NoOwner} \cup {<<"Node", n>> : n \in seed.nodes} \cup seed.controllers
    IN  /\ \A p \in seed.pods : p.owner \in owners
        /\ \A p \in seed.pods : p.owner # NoOwner => p.node \in seed.nodes /\ seed.standard # {}
        /\ \A c, d \in seed.crds : c.name = d.name => c = d

\* A CRD is the author's or a default, never both.
LEMMA CRDsAreUnique ==
    ASSUME NEW kt, NEW c \in renderCRDs(kt), NEW d \in renderCRDs(kt), c.name = d.name
    PROVE  c = d
  <1> DEFINE author == Elements(kt.crds)
             defaults == IF kt.system THEN defaultCRDs \ author ELSE {}
  <1>1. renderCRDs(kt) = {[name |-> n, by |-> "default"] : n \in defaults}
                         \cup {[name |-> n, by |-> "author"] : n \in author}
    BY DEF renderCRDs
  <1>2. defaults \cap author = {}
    OBVIOUS
  <1> HIDE DEF author, defaults
  <1> QED
    BY <1>1, <1>2

\* The first node of a cluster that is dressed up is one of the seed's nodes.
LEMMA FirstNode ==
    ASSUME NEW kt \in Specs, kt.nodes # <<>>
    PROVE  kt.nodes[1] \in Elements(kt.nodes)
  <1> DEFINE E == Elements(kt.nodes)
  <1>1. kt.nodes \in Seq(E)
    BY SpecsAssumption
  <1> HIDE DEF E
  <1>2. Len(kt.nodes) \in Nat \ {0}
    BY <1>1
  <1> QED
    BY <1>2 DEF Elements

\* Whatever the spec and the joined Pods, the rendered seed is closed.
LEMMA RenderedResolves ==
    ASSUME NEW kt \in Specs, NEW pods
    PROVE  Resolves(renderSeedJSON(kt, pods))
  <1> DEFINE sd == renderSeedJSON(kt, pods)
             P1 == {AuthorPod(p) : p \in Elements(kt.pods)} \cup {mirrorJoinedPod(p) : p \in pods}
             P2 == defaultKubeSystemPods(kt)
  <1>1. /\ sd.nodes = Elements(kt.nodes) /\ sd.controllers = defaultControllers(kt)
        /\ sd.crds = renderCRDs(kt) /\ sd.standard = renderStandardObjects(kt)
        /\ sd.pods = P1 \cup P2
    BY Zenon DEF renderSeedJSON
  <1>2. \A p \in P1 : p.owner = NoOwner
    BY SMTT(30) DEF AuthorPod, mirrorJoinedPod
  <1>3. ASSUME NEW p \in P2
        PROVE  /\ Dressed(kt) /\ p.node \in Elements(kt.nodes)
               /\ \/ p.owner = <<"Node", kt.nodes[1]>>
                  \/ p.owner = <<"DaemonSet", "kube-proxy">>
    <2>1. Dressed(kt) /\ kt.nodes # <<>>
      BY <1>3 DEF defaultKubeSystemPods, Dressed
    <2>2. kt.nodes[1] \in Elements(kt.nodes)
      BY <2>1, FirstNode
    <2>3. CASE p \in {SystemPod(c, kt.nodes[1], <<"Node", kt.nodes[1]>>) : c \in Static}
      BY <2>1, <2>2, <2>3, SMTT(30) DEF SystemPod
    <2>4. CASE p \in {SystemPod("kube-proxy", n, <<"DaemonSet", "kube-proxy">>) : n \in Elements(kt.nodes)}
      BY <2>1, <2>4, SMTT(30) DEF SystemPod
    <2> QED
      BY <1>3, <2>1, <2>3, <2>4 DEF defaultKubeSystemPods
  <1>4. Dressed(kt) => /\ <<"DaemonSet", "kube-proxy">> \in defaultControllers(kt)
                       /\ renderStandardObjects(kt) # {}
                       /\ kt.nodes[1] \in Elements(kt.nodes)
    BY FirstNode, Zenon DEF Dressed, defaultControllers, renderStandardObjects
  <1>5. \A c, d \in sd.crds : c.name = d.name => c = d
    <2>1. sd.crds = renderCRDs(kt)
      BY <1>1
    <2> HIDE DEF sd
    <2> QED
      BY <2>1, CRDsAreUnique
  <1> HIDE DEF sd, P1, P2
  <1>6. ASSUME NEW p \in sd.pods
        PROVE  /\ p.owner \in {NoOwner} \cup {<<"Node", n>> : n \in sd.nodes} \cup sd.controllers
               /\ p.owner # NoOwner => p.node \in sd.nodes /\ sd.standard # {}
    <2>1. CASE p \in P1
      BY <1>2, <2>1
    <2>2. CASE p \in P2
      BY <1>1, <1>3, <1>4, <2>2
    <2> QED
      BY <1>1, <1>6, <2>1, <2>2
  <1>7. Resolves(sd)
    BY <1>5, <1>6 DEF Resolves
  <1> QED
    BY <1>7 DEF sd

\* Only a pass writes the ConfigMap, for the Decoy it has read.
LEMMA SeedStep ==
    ASSUME IdentityInv, SeedResolves, [Next]_vars
    PROVE  SeedResolves'
  <1>1. CASE cm' = cm \/ cm' = None
    BY <1>1 DEF SeedResolves
  <1>2. CASE reconcileConfigMap
    <2>1. w.kt \in Specs /\ cm' = renderConfigData(w.kt, DOMAIN listed, w.secret)
      BY <1>2 DEF reconcileConfigMap, At, IdentityInv, PassCarries
    <2>2. cm'.seed = renderSeedJSON(w.kt, DOMAIN listed)
      BY <2>1 DEF renderConfigData
    <2>3. Resolves(cm'.seed)
      BY <2>1, <2>2, RenderedResolves
    <2> QED
      BY <2>3 DEF SeedResolves, Resolves
  <1>3. \/ cm' = cm \/ cm' = None \/ reconcileConfigMap
    <2>1. CASE Pass
      BY <2>1, Zenon
        DEF Pass, applyService, createSecret, backfillKCM, reissueServingCert, WriteSecret, keepCert,
             reconcileMirroredSecrets, ensureDataPVC, applyDeployment, applyNetworkPolicy,
             reconcileKubeconfig, updateStatus, Refused, markFailed, cluster
    <2>2. CASE SyncSecret \/ RollOut \/ CallFails \/ Restart \/ Evict \/ EditSpec \/ DeleteSecret
               \/ ReplaceService \/ DeleteOwned
      BY <2>2 DEF SyncSecret, RollOut, CallFails, markFailed, Restart, Evict, EditSpec, DeleteSecret,
             ReplaceService, DeleteOwned, cluster
    <2>3. CASE \E p \in Candidates : CreatePod(p) \/ DeletePod(p)
      BY <2>3, Zenon DEF CreatePod, DeletePod, cluster
    <2>4. CASE UNCHANGED vars
      BY <2>4 DEF vars
    <2> QED
      BY <2>1, <2>2, <2>3, <2>4 DEF Next
  <1> QED
    BY <1>1, <1>2, <1>3

\* For every spec an author can write and any Pods that join, whatever the seed
\* in the ConfigMap refers to is in it.
THEOREM SeedAlwaysResolves == Spec => []SeedResolves
  <1>1. Init => SeedResolves
    <2> SUFFICES ASSUME Init PROVE SeedResolves
      OBVIOUS
    <2>1. CASE InitNew
      BY <2>1 DEF InitNew, SeedResolves
    <2>2. CASE InitUpgraded
      <3>1. spec \in Specs
        BY SpecsAssumption DEF Init
      <3>2. cm.seed = renderSeedJSON(spec, {})
        BY <2>2 DEF InitUpgraded, renderConfigData
      <3>3. Resolves(cm.seed)
        BY <3>1, <3>2, RenderedResolves
      <3> QED
        BY <3>3 DEF SeedResolves, Resolves
    <2> QED
      BY <2>1, <2>2 DEF Init
  <1> QED
    BY <1>1, SeedStep, IdentityAndRollout, PTL DEF Spec

-----------------------------------------------------------------------------
(* The types of the rest *)

\* A pass goes on only with a Secret that has both tokens.
PassComplete == w.pc \in Holding => w.secret.kcm # NoToken

MirrorTypes == mirror \in Optional([tok : Ids, ca : Ids])
FlagTypes == pvc \in BOOLEAN /\ egress \in BOOLEAN /\ woken \in BOOLEAN /\ bare \in {"none", "owned", "foreign"}
PodTypes == pod # None => pod.leaf \in Leaves
EnvTypes == env \in 0 .. MaxEnv

RestInv == PassComplete /\ MirrorTypes /\ FlagTypes /\ PodTypes /\ EnvTypes

\* Every write completes the Secret, and none is taken up that is not complete.
LEMMA CompleteStep ==
    ASSUME IdentityInv, PassComplete, [Next]_vars
    PROVE  PassComplete'
  <1>0. generateToken \subseteq Ids /\ \A n \in Ids : n # NoToken
    BY IdsAssumption DEF generateToken, NoToken
  <1>1. CASE createSecret
    <2>1. PICK n \in Ids : WriteSecret([tok |-> n, kcm |-> n, ca |-> n, key |-> TRUE,
                        leaf |-> IssueServerCert(n, n, w.ip), kubeconfig |-> None], "mirror")
      BY <1>0, <1>1, Zenon DEF createSecret
    <2>2. w'.secret.kcm = n
      BY <2>1, Zenon DEF WriteSecret, IdentityInv, IdentityTypes, Workers
    <2> QED
      BY <1>0, <2>2 DEF PassComplete
  <1>2. CASE backfillKCM
    <2>1. secret \in Secrets
      BY <1>2 DEF backfillKCM, Lacks, IdentityInv, IdentityTypes, Optional
    <2>2. PICK n \in Ids : WriteSecret([secret EXCEPT !.kcm = n], "cert")
      BY <1>0, <1>2 DEF backfillKCM
    <2>3. w'.secret = [secret EXCEPT !.kcm = n]
      BY <2>2, Zenon DEF WriteSecret, IdentityInv, IdentityTypes, Workers
    <2>4. w'.secret.kcm = n
      BY <2>1, <2>3 DEF Secrets
    <2> QED
      BY <1>0, <2>4 DEF PassComplete
  <1>3. CASE keepCert \/ reissueServingCert
    <2>1. existing \in Secrets /\ existing.kcm # NoToken
      <3>1. AtCert
        BY <1>3, Zenon DEF keepCert, reissueServingCert
      <3> QED
        BY <3>1, ExistingIsSecret DEF AtCert, At, existing, Lacks, PassComplete, Holding
    <2>2. w'.secret.kcm = existing.kcm
      <3>1. CASE keepCert
        BY <3>1, Zenon DEF keepCert, IdentityInv, IdentityTypes, Workers
      <3>2. CASE reissueServingCert
        <4>1. secret = existing
          BY <3>2 DEF reissueServingCert
        <4>2. PICK n, ca : w'.secret = [secret EXCEPT !.ca = ca, !.key = TRUE, !.leaf = IssueServerCert(n, ca, w.ip)]
          BY <3>2, ZenonT(60)
            DEF reissueServingCert, WriteSecret, IdentityInv, IdentityTypes, Workers
        <4> QED
          BY <2>1, <4>1, <4>2 DEF Secrets
      <3> QED
        BY <1>3, <3>1, <3>2
    <2> QED
      BY <2>1, <2>2 DEF PassComplete
  <1>4. ASSUME w.pc \in Certified, NEW pc, To(pc) PROVE PassComplete'
    <2>1. w'.secret = w.secret
      BY <1>4, Zenon DEF To, IdentityInv, IdentityTypes, Workers
    <2> QED
      BY <1>4, <2>1 DEF PassComplete, Holding
  <1>5. CASE reconcileMirroredSecrets \/ reconcileConfigMap \/ ensureDataPVC \/ applyDeployment
             \/ applyNetworkPolicy \/ reconcileKubeconfig
    BY <1>4, <1>5 DEF reconcileMirroredSecrets, reconcileConfigMap, ensureDataPVC, applyDeployment,
                      applyNetworkPolicy, reconcileKubeconfig, At, Certified
  <1>6. CASE applyService
    <2>1. w'.pc = "secret"
      BY <1>6 DEF applyService, Idle
    <2> QED
      BY <2>1 DEF PassComplete, Holding, Certified
  <1>7. CASE w' = Idle
    <2>1. w'.pc = "idle"
      BY <1>7, Zenon DEF Idle
    <2> QED
      BY <2>1 DEF PassComplete, Holding, Certified
  <1>8. CASE w' = w
    BY <1>8 DEF PassComplete
  <1>9. CASE Pass
    BY <1>1, <1>2, <1>3, <1>5, <1>6, <1>7, <1>9 DEF Pass, updateStatus, Refused, markFailed
  <1>10. CASE CallFails \/ Restart
    BY <1>7, <1>10 DEF CallFails, markFailed, Restart
  <1>11. CASE SyncSecret \/ RollOut \/ Evict \/ EditSpec \/ DeleteSecret \/ ReplaceService \/ DeleteOwned
    BY <1>8, <1>11 DEF SyncSecret, RollOut, Evict, EditSpec, DeleteSecret, ReplaceService, DeleteOwned
  <1>12. CASE \E p \in Candidates : CreatePod(p) \/ DeletePod(p)
    BY <1>8, <1>12, Zenon DEF CreatePod, DeletePod
  <1>13. CASE UNCHANGED vars
    BY <1>8, <1>13 DEF vars
  <1> QED
    BY <1>9, <1>10, <1>11, <1>12, <1>13 DEF Next

\* The mirror is a copy of a Secret, a Pod has read the certificate of one, and
\* disturbances are bounded.
LEMMA RestStep ==
    ASSUME IdentityInv, MirrorTypes, PodTypes, EnvTypes, [Next]_vars
    PROVE  MirrorTypes' /\ PodTypes' /\ EnvTypes'
  <1>1. ASSUME Disturb PROVE EnvTypes'
    BY <1>1, BoundAssumption DEF Disturb, EnvTypes
  <1>2. CASE reconcileMirroredSecrets
    <2>1. w.secret \in Secrets
      BY <1>2 DEF reconcileMirroredSecrets, At, IdentityInv, PassCarries, Certified
    <2>2. buildMirroredSecret(w.secret) \in [tok : Ids, ca : Ids]
      BY <2>1 DEF buildMirroredSecret, Secrets
    <2>3. mirror' \in {buildMirroredSecret(w.secret), None} /\ UNCHANGED <<pod, env>>
      BY <1>2 DEF reconcileMirroredSecrets
    <2> QED
      BY <2>2, <2>3 DEF MirrorTypes, PodTypes, EnvTypes, Optional
  <1>3. CASE RollOut
    <2>1. secret \in Secrets
      BY <1>3 DEF RollOut, IdentityInv, IdentityTypes, Optional
    <2>2. pod'.leaf = secret.leaf /\ UNCHANGED <<mirror, env>>
      BY <1>3 DEF RollOut
    <2> QED
      BY <2>1, <2>2 DEF MirrorTypes, PodTypes, EnvTypes, Secrets
  <1>4. ASSUME UNCHANGED mirror, pod' \in {pod, None}, Disturb \/ UNCHANGED env
        PROVE  MirrorTypes' /\ PodTypes' /\ EnvTypes'
    BY <1>1, <1>4 DEF MirrorTypes, PodTypes, EnvTypes
  <1>5. CASE Pass /\ ~reconcileMirroredSecrets
    <2>1. UNCHANGED <<mirror, pod, env>>
      BY <1>5, Zenon
        DEF Pass, applyService, createSecret, backfillKCM, reissueServingCert, WriteSecret, keepCert,
             reconcileConfigMap, ensureDataPVC, applyDeployment, applyNetworkPolicy,
             reconcileKubeconfig, updateStatus, Refused, markFailed, cluster
    <2> QED
      BY <1>4, <2>1
  <1>6. CASE SyncSecret \/ CallFails \/ Restart \/ Evict \/ EditSpec \/ DeleteSecret
             \/ ReplaceService \/ DeleteOwned
    <2>1. UNCHANGED mirror /\ pod' \in {pod, None} /\ (Disturb \/ UNCHANGED env)
      BY <1>6 DEF SyncSecret, CallFails, markFailed, Restart, Evict, EditSpec, DeleteSecret,
             ReplaceService, DeleteOwned, cluster
    <2> QED
      BY <1>4, <2>1
  <1>7. CASE \E p \in Candidates : CreatePod(p) \/ DeletePod(p)
    <2>1. UNCHANGED <<mirror, pod>> /\ Disturb
      BY <1>7, Zenon DEF CreatePod, DeletePod, cluster
    <2> QED
      BY <1>4, <2>1
  <1>8. CASE UNCHANGED vars
    BY <1>4, <1>8 DEF vars
  <1> QED
    BY <1>2, <1>3, <1>5, <1>6, <1>7, <1>8 DEF Next

\* Flags stay flags.
LEMMA FlagStep ==
    ASSUME FlagTypes, [Next]_vars
    PROVE  FlagTypes'
  <1>1. CASE applyService
    BY <1>1, Zenon DEF applyService, FlagTypes
  <1>2. CASE createSecret \/ backfillKCM \/ reissueServingCert \/ keepCert \/ reconcileMirroredSecrets
    BY <1>2, Zenon DEF createSecret, backfillKCM, reissueServingCert, WriteSecret, keepCert,
                reconcileMirroredSecrets, cluster, FlagTypes
  <1>3. CASE reconcileConfigMap
    BY <1>3, Zenon DEF reconcileConfigMap, FlagTypes
  <1>4. CASE ensureDataPVC
    BY <1>4, Zenon DEF ensureDataPVC, FlagTypes
  <1>5. CASE applyDeployment
    BY <1>5, Zenon DEF applyDeployment, FlagTypes
  <1>6. CASE applyNetworkPolicy
    <2>1. UNCHANGED pvc /\ egress' \in BOOLEAN /\ woken' \in BOOLEAN
      BY <1>6, Zenon DEF applyNetworkPolicy
    <2>2. bare' \in {"none", "owned", "foreign"}
      BY <1>6 DEF applyNetworkPolicy, FlagTypes
    <2> QED
      BY <2>1, <2>2 DEF FlagTypes
  <1>7. CASE reconcileKubeconfig \/ Refused \/ CallFails \/ Restart
    BY <1>7, Zenon
      DEF reconcileKubeconfig, Refused, CallFails, markFailed, Restart, cluster, FlagTypes
  <1>8. CASE updateStatus
    BY <1>8, Zenon DEF updateStatus, cluster, FlagTypes
  <1>9. CASE SyncSecret \/ RollOut \/ Evict \/ EditSpec \/ DeleteSecret \/ ReplaceService \/ DeleteOwned
    BY <1>9, Zenon
      DEF SyncSecret, RollOut, Evict, EditSpec, DeleteSecret, ReplaceService, DeleteOwned, cluster, FlagTypes
  <1>10. CASE \E p \in Candidates : CreatePod(p) \/ DeletePod(p)
    BY <1>10, Zenon DEF CreatePod, DeletePod, cluster, FlagTypes
  <1>11. CASE UNCHANGED vars
    BY <1>11 DEF vars, FlagTypes
  <1> QED
    BY <1>1, <1>2, <1>3, <1>4, <1>5, <1>6, <1>7, <1>8, <1>9, <1>10, <1>11 DEF Next, Pass

\* Both kinds of Decoy start with them.
LEMMA RestInit == Init => RestInv
  <1> SUFFICES ASSUME Init PROVE RestInv
    OBVIOUS
  <1>1. PassComplete
    BY Zenon DEF Init, Idle, PassComplete, Holding, Certified
  <1>2. MirrorTypes /\ EnvTypes
    BY BoundAssumption DEF Init, MirrorTypes, EnvTypes, Optional
  <1>3. pvc \in BOOLEAN /\ woken \in BOOLEAN
    BY Zenon DEF Init
  <1>4. egress \in BOOLEAN /\ bare \in {"none", "owned", "foreign"}
    BY ZenonT(30) DEF Init, InitNew, InitUpgraded
  <1>5. PodTypes
    <2>1. CASE InitNew
      BY <2>1 DEF InitNew, PodTypes
    <2>2. CASE InitUpgraded
      <3>1. pod.leaf = [id |-> 1, ca |-> 1, ip |-> svc.ip] /\ svc.ip \in IPs
        BY <2>2 DEF InitUpgraded
      <3>2. [id |-> 1, ca |-> 1, ip |-> svc.ip] \in Leaves
        BY <3>1, IdsAssumption, Zenon DEF Leaves
      <3> QED
        BY <3>1, <3>2 DEF PodTypes
    <2> QED
      BY <2>1, <2>2 DEF Init
  <1> QED
    BY <1>1, <1>2, <1>3, <1>4, <1>5 DEF RestInv, FlagTypes

\* In every run the Secrets hold generated values only, a pass past the check of
\* the certificate holds a complete Secret, and a running Pod a certificate.
THEOREM IdentityTypeCorrect == Spec => []TypeOK
  <1>1. IdentityInv /\ RestInv /\ [Next]_vars => RestInv'
    BY CompleteStep, RestStep, FlagStep DEF RestInv
  <1>2. IdentityInv /\ RolloutInv /\ RestInv => TypeOK
    <2> SUFFICES ASSUME IdentityInv, RolloutInv, RestInv PROVE TypeOK
      OBVIOUS
    <2>1. w.secret \in Optional(Secrets) /\ w.pc \in Steps
      BY Zenon DEF IdentityInv, IdentityTypes, Workers
    <2>2. w.pc \in Certified => w.secret # None /\ w.secret.kcm # NoToken
      BY NoneAssumption DEF IdentityInv, PassCarries, RestInv, PassComplete, Holding
    <2> QED
      BY <2>1, <2>2 DEF TypeOK, IdentityInv, IdentityTypes, RolloutInv, RestInv, MirrorTypes, FlagTypes,
                        PodTypes, EnvTypes, Steps, Certified
  <1> QED
    BY <1>1, <1>2, RestInit, IdentityAndRollout, PTL DEF Spec

=============================================================================
