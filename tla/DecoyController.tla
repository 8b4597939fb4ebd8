--------------------------- MODULE DecoyController ---------------------------
(***************************************************************************)
(* The Decoy reconciler (internal/controller/decoy_controller.go): one     *)
(* worker that takes Decoys off a queue and drives each through joined     *)
(* Pods, the finalizer, the mirrored credentials Secrets in other          *)
(* namespaces and the status, one API call at a time, while users change   *)
(* Pods and Decoys, calls fail and the process restarts.                   *)
(*                                                                         *)
(* The reconciler reads through informer caches.  A cache named in Lag     *)
(* shows some past state of its objects until it syncs; the others follow  *)
(* the API server at once.  A write is refused if the copy written is not  *)
(* the current version; RetryOnConflict reads the same cache again, so a   *)
(* retry that succeeds is the same call made after the cache has synced.   *)
(*                                                                         *)
(* The objects in the Decoy's own namespace (Service, Secret, ConfigMap,   *)
(* PVC, Deployment, NetworkPolicy, kubeconfig) are two stages of a pass    *)
(* that succeed or fail.                                                   *)
(***************************************************************************)
EXTENDS JoinResolution

CONSTANTS
    NoDecoy,
    DecoyName,   \* the name of each Decoy within its namespace
    Pods,
    PodNs,       \* the namespace of each Pod
    Lag,         \* which informer caches may lag: "decoys", "pods", "secrets"
    MaxEnv       \* bound on user actions, failures, restarts of a run

ASSUME ControllerAssumption ==
    /\ NoDecoy \notin Decoys
    /\ DOMAIN DecoyName = Decoys
    /\ PodNs \in [Pods -> Namespaces]
    /\ Lag \subseteq {"decoys", "pods", "secrets"}
    /\ MaxEnv \in Nat

VARIABLES
    decoys,    \* the Decoys in the API server
    pods,      \* the join annotation of each Pod; NoJoin if there is no Pod
    mirrors,   \* the mirrored Secrets: whose labels and credentials each has
    ending,    \* namespaces being terminated
    cache,     \* the informer caches, and which Decoys in them are outdated
    queue,     \* the work queue
    w,         \* the worker
    told,      \* auxiliary: per Decoy the Pods announced as joined so far
    env        \* environment actions so far

vars == <<decoys, pods, mirrors, ending, cache, queue, w, told, env>>

-----------------------------------------------------------------------------
(* Data *)

\* A mirror is a Secret of a fixed name per Decoy name, in another namespace.
MirrorKeys == Namespaces \X {DecoyName[d] : d \in Decoys}

mirroredSecretName(d, ns) == <<ns, DecoyName[d]>>

Decoy == [st : {"absent", "live", "deleting"}, fin : BOOLEAN,
          joined : SUBSET Pods, phase : {"", "Failed", "Reconciled"}]

Absent == [st |-> "absent", fin |-> FALSE, joined |-> {}, phase |-> ""]

Existing(ds) == {d \in Decoys : ds[d].st # "absent"}

\* kt is the reconciler's copy of the Decoy; current: no one has written the
\* object since.  todo: namespaces to mirror into.  stale: mirrors to delete.
WorkerIdle == [pc |-> "idle", key |-> NoDecoy, kt |-> Absent, current |-> FALSE,
               joined |-> {}, todo |-> {}, stale |-> {}]

Init ==
    /\ decoys = [d \in Decoys |-> Absent]
    /\ pods = [p \in Pods |-> NoJoin]
    /\ mirrors = [m \in MirrorKeys |-> NoDecoy]
    /\ ending = {}
    /\ cache = [decoys |-> decoys, pods |-> pods, mirrors |-> mirrors, outdated |-> {}]
    /\ queue = {}
    /\ w = WorkerIdle
    /\ told = [d \in Decoys |-> {}]
    /\ env = 0

-----------------------------------------------------------------------------
(* Writes, and what the watches make of them *)

\* mapJoinedPodToDecoy, for the old and the new Pod of an event.
mapJoinedPodToDecoy(p, old, new) ==
    LET S == Existing(cache.decoys) IN
    resolveJoinAnnotation(S, PodNs[p], old) \cup resolveJoinAnnotation(S, PodNs[p], new)

\* The Decoy d becomes obj.  The watch wakes the reconciler for any change,
\* and an update that changes nothing is no event.
WriteDecoy(d, obj, requeue) ==
    /\ decoys' = [decoys EXCEPT ![d] = obj]
    /\ IF obj = decoys[d]
       THEN queue' = queue \cup requeue /\ UNCHANGED cache
       ELSE IF "decoys" \in Lag
       THEN /\ queue' = queue \cup requeue
            /\ cache' = [cache EXCEPT !.outdated = @ \cup {d}]
       ELSE /\ queue' = queue \cup requeue \cup {d}
            /\ cache' = [cache EXCEPT !.decoys[d] = obj]

WritePod(p, value) ==
    /\ pods' = [pods EXCEPT ![p] = value]
    /\ IF "pods" \in Lag
       THEN UNCHANGED <<cache, queue>>
       ELSE /\ cache' = [cache EXCEPT !.pods[p] = value]
            /\ queue' = queue \cup mapJoinedPodToDecoy(p, pods[p], value)

\* Mirrors have no owner reference, so their events wake nobody.
WriteMirror(m, owner) ==
    /\ mirrors' = [mirrors EXCEPT ![m] = owner]
    /\ cache' = IF "secrets" \in Lag THEN cache
                ELSE [cache EXCEPT !.mirrors[m] = owner]

SyncDecoys ==
    /\ cache.outdated # {}
    /\ cache' = [cache EXCEPT !.decoys = decoys, !.outdated = {}]
    /\ queue' = queue \cup cache.outdated
    /\ UNCHANGED <<decoys, pods, mirrors, ending, w, told, env>>

SyncPods ==
    /\ cache.pods # pods
    /\ cache' = [cache EXCEPT !.pods = pods]
    /\ queue' = queue \cup UNION {mapJoinedPodToDecoy(p, cache.pods[p], pods[p]) :
                                    p \in {q \in Pods : cache.pods[q] # pods[q]}}
    /\ UNCHANGED <<decoys, pods, mirrors, ending, w, told, env>>

SyncSecrets ==
    /\ cache.mirrors # mirrors
    /\ cache' = [cache EXCEPT !.mirrors = mirrors]
    /\ UNCHANGED <<decoys, pods, mirrors, ending, queue, w, told, env>>

\* The informers deliver every cached object again every SyncPeriod.
Resync ==
    /\ queue' = queue \cup Existing(cache.decoys)
    /\ UNCHANGED <<decoys, pods, mirrors, ending, cache, w, told, env>>

-----------------------------------------------------------------------------
(* One pass of the worker *)

\* Mutant: the request's key is lost.
BeginKeyless(d, kt) ==
    [WorkerIdle EXCEPT !.pc = IF kt.st = "deleting" THEN "cleanup" ELSE "own",
                       !.kt = kt, !.current = d \notin cache.outdated]

\* A pass over d begins, with the copy of it that the cache holds.
Begin(d, kt) ==
    [WorkerIdle EXCEPT !.pc = IF kt.st = "deleting" THEN "cleanup" ELSE "own",
                       !.key = d, !.kt = kt, !.current = d \notin cache.outdated]

\* reconcile: the Get, and the early returns.  A Decoy that is gone, or is
\* being deleted and holds no finalizer, needs nothing more.
Start(d) ==
    LET kt == cache.decoys[d] IN
    /\ w.pc = "idle" /\ d \in queue
    /\ queue' = queue \ {d}
    /\ w' = IF kt.st = "absent" \/ (kt.st = "deleting" /\ ~kt.fin) THEN WorkerIdle
            ELSE Begin(d, kt)
    /\ UNCHANGED <<decoys, pods, mirrors, ending, cache, told, env>>

Goto(pc) == w' = [w EXCEPT !.pc = pc]

\* The Service and the credentials Secret are in place.
OwnObjects ==
    /\ w.pc = "own"
    /\ Goto("list")
    /\ UNCHANGED <<decoys, pods, mirrors, ending, cache, queue, told, env>>

\* listJoinedPods
JoinedPods(d) ==
    {p \in Pods : isJoined(Existing(cache.decoys), d, PodNs[p], cache.pods[p])}

\* The other namespaces that need a mirror.
Needed(d, joined) == {PodNs[p] : p \in joined} \ {DecoyNs[d]}

\* The Pods listed, and reconcileJoinTransitions: Events and alerts for the
\* difference to the status the pass began with.
ListJoined ==
    LET d      == w.key
        joined == JoinedPods(d)
    IN /\ w.pc = "list"
       /\ told' = [told EXCEPT ![d] = @ \cup (joined \ w.kt.joined)]
       /\ w' = [w EXCEPT !.pc = IF Needed(d, joined) # {} THEN "addfin" ELSE "prune",
                         !.joined = joined, !.todo = Needed(d, joined)]
       /\ UNCHANGED <<decoys, pods, mirrors, ending, cache, queue, env>>

\* The worker's copy is the version the API server holds.
Current == w.current /\ decoys[w.key].st # "absent"

\* Mutant: the finalizer is set on the copy and never written.
AddFinalizerUnsaved ==
    /\ w.pc = "addfin"
    /\ w' = [w EXCEPT !.pc = "mirror", !.kt.fin = TRUE]
    /\ UNCHANGED <<decoys, cache, queue, pods, mirrors, ending, told, env>>

\* setMirroredSecretsFinalizer(want): no call if the copy has it as wanted.
AddFinalizer ==
    /\ w.pc = "addfin"
    /\ w' = [w EXCEPT !.pc = "mirror", !.kt.fin = TRUE]
    /\ IF w.kt.fin THEN UNCHANGED <<decoys, cache, queue>>
       ELSE Current /\ WriteDecoy(w.key, [decoys[w.key] EXCEPT !.fin = TRUE], {})
    /\ UNCHANGED <<pods, mirrors, ending, told, env>>

\* applyResource for the mirror in ns: created, or updated in place with the
\* labels and the credentials of this Decoy.  A namespace being terminated
\* refuses the creation, which is skipped.
ApplyMirror(ns) ==
    LET m == mirroredSecretName(w.key, ns) IN
    /\ w.pc = "mirror" /\ ns \in w.todo
    /\ w' = [w EXCEPT !.todo = @ \ {ns}]
    /\ cache.mirrors[m] = mirrors[m]
    /\ IF mirrors[m] = NoDecoy /\ ns \in ending
       THEN UNCHANGED <<mirrors, cache>>
       ELSE WriteMirror(m, w.key)
    /\ UNCHANGED <<decoys, pods, ending, queue, told, env>>

MirrorsApplied ==
    /\ w.pc = "mirror" /\ w.todo = {}
    /\ Goto("prune")
    /\ UNCHANGED <<decoys, pods, mirrors, ending, cache, queue, told, env>>

\* Mutant: mirrors no longer needed are left behind.
MirrorsToDeleteNone(d, keep) == {}

\* The mirrors with d's labels outside the namespaces to keep.
MirrorsToDelete(d, keep) ==
    {m \in MirrorKeys : cache.mirrors[m] = d /\ m[1] \notin keep}

\* The List by labels: for a live Decoy the mirrors no longer needed, for
\* one being deleted (deleteMirroredSecrets) all of them.
ListMirrors ==
    LET keep == IF w.pc = "prune" THEN Needed(w.key, w.joined) ELSE {} IN
    /\ w.pc \in {"prune", "cleanup"}
    /\ w' = [w EXCEPT !.pc = IF w.pc = "prune" THEN "pruning" ELSE "cleaning",
                      !.stale = MirrorsToDelete(w.key, keep)]
    /\ UNCHANGED <<decoys, pods, mirrors, ending, cache, queue, told, env>>

\* A mirror that is gone already is no error.
DeleteMirror(m) ==
    /\ w.pc \in {"pruning", "cleaning"} /\ m \in w.stale
    /\ w' = [w EXCEPT !.stale = @ \ {m}]
    /\ WriteMirror(m, NoDecoy)
    /\ UNCHANGED <<decoys, pods, ending, queue, told, env>>

\* The finalizer comes off if no mirror is wanted.
RemoveFinalizer ==
    /\ w.pc = "pruning" /\ w.stale = {}
    /\ IF Needed(w.key, w.joined) = {} /\ w.kt.fin
       THEN /\ Current
            /\ w' = [w EXCEPT !.pc = "rest", !.kt.fin = FALSE]
            /\ WriteDecoy(w.key, [decoys[w.key] EXCEPT !.fin = FALSE], {})
       ELSE Goto("rest") /\ UNCHANGED <<decoys, cache, queue>>
    /\ UNCHANGED <<pods, mirrors, ending, told, env>>

\* Mutant: the finalizer is removed from the copy and never written.
ReleaseDecoyUnsaved ==
    /\ w.pc = "cleaning" /\ w.stale = {}
    /\ w' = WorkerIdle
    /\ UNCHANGED <<decoys, cache, queue, pods, mirrors, ending, told, env>>

\* The end of a deletion: with its finalizer gone the Decoy goes too.
ReleaseDecoy ==
    /\ w.pc = "cleaning" /\ w.stale = {}
    /\ Current
    /\ w' = WorkerIdle
    /\ WriteDecoy(w.key, Absent, {})
    /\ UNCHANGED <<pods, mirrors, ending, told, env>>

\* ConfigMap, PVC, Deployment, NetworkPolicy and kubeconfig are in place.
RestObjects ==
    /\ w.pc = "rest"
    /\ Goto("status")
    /\ UNCHANGED <<decoys, pods, mirrors, ending, cache, queue, told, env>>

\* Mutant: the Pods are listed again for the status.
UpdateStatusRelists ==
    /\ w.pc = "status"
    /\ decoys[w.key].st # "absent" /\ w.key \notin cache.outdated
    /\ w' = WorkerIdle
    /\ WriteDecoy(w.key, [decoys[w.key] EXCEPT !.joined = JoinedPods(w.key), !.phase = "Reconciled"], {})
    /\ UNCHANGED <<pods, mirrors, ending, told, env>>

\* updateStatus: the Decoy read again, its status replaced.
UpdateStatus ==
    /\ w.pc = "status"
    /\ decoys[w.key].st # "absent" /\ w.key \notin cache.outdated
    /\ w' = WorkerIdle
    /\ WriteDecoy(w.key, [decoys[w.key] EXCEPT !.joined = w.joined, !.phase = "Reconciled"], {})
    /\ UNCHANGED <<pods, mirrors, ending, told, env>>

-----------------------------------------------------------------------------
(* Errors *)

\* The environment spends one unit of its budget.
Spend == env < MaxEnv /\ env' = env + 1

\* The API server refuses the call the worker is about to make: the copy it
\* writes is old, the object is gone, or one it means to create exists.
Refused ==
    \/ w.pc = "addfin" /\ ~w.kt.fin /\ ~Current
    \/ w.pc = "mirror" /\ \E ns \in w.todo :
          LET m == mirroredSecretName(w.key, ns) IN cache.mirrors[m] # mirrors[m]
    \/ w.pc = "pruning" /\ w.stale = {} /\ Needed(w.key, w.joined) = {} /\ w.kt.fin /\ ~Current
    \/ w.pc = "cleaning" /\ w.stale = {} /\ ~Current
    \/ w.pc = "status" /\ (decoys[w.key].st = "absent" \/ w.key \in cache.outdated)

\* An error ends the pass at any call; a transient one counts as a fault.
CallFails ==
    /\ w.pc \notin {"idle", "failed"}
    /\ \/ Refused /\ UNCHANGED env
       \/ Spend
    /\ Goto("failed")
    /\ UNCHANGED <<decoys, pods, mirrors, ending, cache, queue, told>>

\* markFailed, unless the Decoy is gone, going, or written meanwhile; the
\* error returned puts the Decoy back on the queue.
MarkFailed ==
    LET d == w.key IN
    /\ w.pc = "failed"
    /\ w' = WorkerIdle
    /\ IF cache.decoys[d].st = "live" /\ d \notin cache.outdated
       THEN WriteDecoy(d, [decoys[d] EXCEPT !.phase = "Failed"], {d})
       ELSE queue' = queue \cup {d} /\ UNCHANGED <<decoys, cache>>
    /\ UNCHANGED <<pods, mirrors, ending, told, env>>

-----------------------------------------------------------------------------
(* Users, the tracker, namespaces and restarts *)

\* The worker's copy of d, if it has one, is no longer the current version.
Outdate(d) == w' = [w EXCEPT !.current = @ /\ w.key # d]

CreateDecoy(d) ==
    /\ decoys[d].st = "absent" /\ DecoyNs[d] \notin ending
    /\ Spend
    /\ WriteDecoy(d, [Absent EXCEPT !.st = "live"], {})
    /\ Outdate(d)
    /\ UNCHANGED <<pods, mirrors, ending, told>>

\* Without a finalizer the object goes at once, and what it owns with it.
DeleteDecoy(d) ==
    /\ decoys[d].st = "live"
    /\ Spend
    /\ WriteDecoy(d, IF decoys[d].fin THEN [decoys[d] EXCEPT !.st = "deleting"] ELSE Absent, {})
    /\ Outdate(d)
    /\ UNCHANGED <<pods, mirrors, ending, told>>

\* A write that leaves these fields alone: the activity tracker's, a user's.
TouchDecoy(d) ==
    /\ decoys[d].st # "absent"
    /\ Spend
    /\ IF "decoys" \in Lag
       THEN cache' = [cache EXCEPT !.outdated = @ \cup {d}] /\ UNCHANGED queue
       ELSE queue' = queue \cup {d} /\ UNCHANGED cache
    /\ Outdate(d)
    /\ UNCHANGED <<decoys, pods, mirrors, ending, told>>

\* A Pod is created or deleted, or its annotation changes.
AnnotatePod(p, value) ==
    /\ pods[p] # value
    /\ Spend
    /\ WritePod(p, value)
    /\ UNCHANGED <<decoys, mirrors, ending, w, told>>

TerminateNamespace(ns) ==
    /\ ns \notin ending
    /\ Spend
    /\ ending' = ending \cup {ns}
    /\ UNCHANGED <<decoys, pods, mirrors, cache, queue, w, told>>

\* Its Pods and Decoys gone, the namespace goes, and with it its Secrets.  One
\* of the same name may be there again at once.
NamespaceGone(ns) ==
    LET gone == [m \in MirrorKeys |-> IF m[1] = ns THEN NoDecoy ELSE mirrors[m]] IN
    /\ ns \in ending
    /\ \A p \in Pods : PodNs[p] = ns => pods[p] = NoJoin
    /\ InNamespace(Existing(decoys), ns) = {}
    /\ ending' = ending \ {ns}
    /\ mirrors' = gone
    /\ cache' = IF "secrets" \in Lag THEN cache ELSE [cache EXCEPT !.mirrors = gone]
    /\ UNCHANGED <<decoys, pods, queue, w, told, env>>

\* A new process lists everything and is handed every object once.
Restart ==
    /\ Spend
    /\ w' = WorkerIdle
    /\ cache' = [decoys |-> decoys, pods |-> pods, mirrors |-> mirrors, outdated |-> {}]
    /\ queue' = Existing(decoys) \cup
                UNION {resolveJoinAnnotation(Existing(decoys), PodNs[p], pods[p]) : p \in Pods}
    /\ UNCHANGED <<decoys, pods, mirrors, ending, told>>

-----------------------------------------------------------------------------

Step == \/ OwnObjects \/ ListJoined \/ AddFinalizer
        \/ (\E ns \in Namespaces : ApplyMirror(ns))
        \/ MirrorsApplied \/ ListMirrors
        \/ (\E m \in MirrorKeys : DeleteMirror(m))
        \/ RemoveFinalizer \/ ReleaseDecoy \/ RestObjects \/ UpdateStatus
        \/ CallFails \/ MarkFailed

Sync == SyncDecoys \/ SyncPods \/ SyncSecrets

Environment ==
    \/ \E d \in Decoys : CreateDecoy(d) \/ DeleteDecoy(d) \/ TouchDecoy(d)
    \/ \E p \in Pods, v \in Annotations : AnnotatePod(p, v)
    \/ \E ns \in Namespaces : TerminateNamespace(ns) \/ NamespaceGone(ns)
    \/ Restart

Next == (\E d \in Decoys : Start(d)) \/ Step \/ Sync \/ Resync \/ Environment

Spec == Init /\ [][Next]_vars

\* The worker runs and its queue is first in, first out; every watch delivers
\* in the end; the informers resync for ever.
Fairness ==
    /\ \A d \in Decoys : SF_vars(Start(d))
    /\ WF_vars(Step)
    /\ WF_vars(SyncDecoys) /\ WF_vars(SyncPods) /\ WF_vars(SyncSecrets)
    /\ WF_vars(Resync)

FairSpec == Spec /\ Fairness

-----------------------------------------------------------------------------
(* Properties *)

CacheType ==
    [decoys : [Decoys -> Decoy], pods : [Pods -> Annotations],
     mirrors : [MirrorKeys -> Decoys \cup {NoDecoy}], outdated : SUBSET Decoys]

WorkerType ==
    [pc : {"idle", "own", "list", "addfin", "mirror", "prune", "pruning", "cleanup",
           "cleaning", "rest", "status", "failed"},
     key : Decoys \cup {NoDecoy}, kt : Decoy, current : BOOLEAN,
     joined : SUBSET Pods, todo : SUBSET Namespaces, stale : SUBSET MirrorKeys]

\* The shape of the API objects, the caches and the worker.
TypeOK ==
    /\ decoys \in [Decoys -> Decoy]
    /\ pods \in [Pods -> Annotations]
    /\ mirrors \in [MirrorKeys -> Decoys \cup {NoDecoy}]
    /\ ending \subseteq Namespaces
    /\ cache \in CacheType
    /\ queue \subseteq Decoys
    /\ w \in WorkerType
    /\ w.pc # "idle" => w.key \in Decoys
    /\ told \in [Decoys -> SUBSET Pods]
    /\ env \in Nat

\* A mirrored Secret in another namespace always belongs to a Decoy that is
\* there and holds the finalizer, so something is left to clean it up: the
\* finalizer goes on before the first mirror and comes off after the last
\* (decoy_controller.go 97-108, 211-220, 261-290).
MirrorGuarded ==
    \A m \in MirrorKeys : mirrors[m] # NoDecoy =>
        decoys[mirrors[m]].st # "absent" /\ decoys[mirrors[m]].fin

\* The webhook and the Pod watch (resolveJoinAnnotation) and the reconciler
\* (listJoinedPods) agree which Decoy a Pod joins, whichever Decoys exist:
\* "so the webhook and the reconciler agree" (decoy_controller.go 376).
WebhookAgrees ==
    \A p \in Pods, d \in Existing(decoys) :
        isJoined(Existing(decoys), d, PodNs[p], pods[p]) <=>
            resolveJoinAnnotation(Existing(decoys), PodNs[p], pods[p]) = {d}

Joiners(d) == {p \in Pods : isJoined(Existing(decoys), d, PodNs[p], pods[p])}

Settled(d) ==
    /\ decoys[d].st # "deleting"
    /\ decoys[d].st = "live" =>
         /\ decoys[d].joined = Joiners(d)
         /\ decoys[d].phase = "Reconciled"
         /\ decoys[d].fin <=> Needed(d, Joiners(d)) # {}
         /\ \A m \in MirrorKeys : mirrors[m] = d => m[1] \in Needed(d, Joiners(d))
         /\ \A ns \in Needed(d, Joiners(d)) \ ending : mirrors[mirroredSecretName(d, ns)] = d

\* From some point on every pass begins with an up to date copy of the Decoy.
CacheKeepsUp == <>[][\A d \in Decoys : Start(d) => d \notin cache.outdated]_vars

\* Once users and faults leave the system alone, every Decoy still there
\* comes to show exactly the Pods that join it, to hold a mirror exactly
\* where one is needed and the finalizer exactly if one is, and no deletion
\* hangs: errors requeue, watches and the resync wake the reconciler.  (A
\* cache of Decoys that is behind at every start could fail every other pass.)
EventuallySettled == CacheKeepsUp => <>[](\A d \in Decoys : Settled(d))

\* No Pod is shown as joined that was not announced, whichever copy of the Decoy
\* a pass compared with and wherever it failed: the alert and the Event go out
\* before the status that makes the next pass silent (decoy_controller.go
\* 259, 425-460, 983).
JoinsAnnounced == \A d \in Decoys : decoys[d].joined \subseteq told[d]

=============================================================================
