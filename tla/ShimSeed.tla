------------------------------ MODULE ShimSeed ------------------------------
(***************************************************************************)
(* The kubelet-shim's seeding loop (internal/kubeletshim/kubeletshim.go    *)
(* and controllers.go, cmd/kubelet-shim/main.go): the start of the         *)
(* process, then one Seed pass per heartbeat that finishes terminating     *)
(* namespaces, upserts every object of the seed kind by kind, adopts       *)
(* scheduled Pods and deletes what an earlier pass created and the seed no *)
(* longer lists.  Meanwhile the seed is rendered anew, users of the inner  *)
(* cluster create and delete objects and namespaces, calls fail, and the   *)
(* container or the whole decoy Pod restarts.                              *)
(*                                                                         *)
(* A pass is one step per API write.  Reads are part of the write they     *)
(* lead to: an object that changes between them makes the write fail,      *)
(* which CallFails allows anywhere.  Entries of one kind are taken in any  *)
(* order, since an author may list them in any.                            *)
(***************************************************************************)
EXTENDS Naturals

CONSTANTS
    Keys,          \* the objects seeds may list, by kind, namespace and name
    NoKey,
    Kind,          \* the kind of each; the Lease of a node is a key too
    Namespaces,
    NoNs,
    Ns,            \* the namespace of each key, NoNs for a cluster-wide one
    Owner,         \* the Controller a Pod's ownerReference names, or NoKey
    Entries,       \* what a seed can say of an object
    NoEntry,
    NodeOf,        \* the node an entry binds a Pod to: no update may change it
    Seeds,         \* the seeds the operator may render
    System,        \* namespaces the API server keeps in being
    Persistent,    \* spec.persistence: the inner cluster outlives the Pod
    MaxEnv         \* bound on users' actions, failures and restarts

Kinds == {"Node", "Lease", "CRD", "Controller", "Pod", "Secret", "ConfigMap", "Service"}

ASSUME ShimAssumption ==
    /\ NoKey \notin Keys /\ NoNs \notin Namespaces /\ NoEntry \notin Entries
    /\ Kind \in [Keys -> Kinds]
    /\ Ns \in [Keys -> Namespaces \cup {NoNs}]
    /\ Owner \in [Keys -> Keys \cup {NoKey}]
    /\ NodeOf \in [Entries -> Keys \cup {NoKey}]
    /\ \A s \in Seeds : DOMAIN s \subseteq Keys /\ \A k \in DOMAIN s : s[k] \in Entries
    /\ System \subseteq Namespaces
    /\ Persistent \in BOOLEAN
    /\ MaxEnv \in Nat

VARIABLES
    file,       \* seed.json as the ConfigMap volume shows it
    objs,       \* the inner cluster's objects
    nss,        \* its namespaces
    sa,         \* the ServiceAccount directory
    pc,         \* where the process is
    seed,       \* cfg.Seed; the pass in progress works on this one
    todo,       \* keys the pass still has to upsert, then those to prune
    at,         \* the key whose second write is next, or NoKey
    stale,      \* the copy for that write is no longer current
    seen,       \* nsSeen
    dying,      \* terminating namespaces the pass has listed
    noUid,      \* Controllers whose UID came back empty in this pass
    installed,  \* installedCRDs
    prev,       \* seededPrev
    cur,        \* seededCur
    made,       \* auxiliary: what this pass has created
    lost,       \* auxiliary: created by the shim and then forgotten
    env         \* environment actions so far

cluster == <<file, objs, nss, sa>>
pass == <<pc, seed, todo, at, stale, seen, dying, noUid, cur, made>>
memory == <<installed, prev, lost>>
vars == <<file, objs, nss, sa, pc, seed, todo, at, stale, seen, dying, noUid, cur, made,
          installed, prev, lost, env>>

-----------------------------------------------------------------------------
(* Data *)

\* full: the second write of its creation is done too (a status, a Service's
\* EndpointSlice).  ending: a Pod with a deletionTimestamp.
Object == [by : {"shim", "other"}, entry : Entries, full : BOOLEAN, ending : BOOLEAN]

NoObject == [by |-> "none", entry |-> NoEntry, full |-> FALSE, ending |-> FALSE]

Exists(k) == objs[k] # NoObject

\* The order in which Seed works through the kinds.
Rank == [Node |-> 1, Lease |-> 2, CRD |-> 3, Controller |-> 4, Pod |-> 5,
         Secret |-> 6, ConfigMap |-> 7, Service |-> 8]

\* Kinds whose creation takes a second write.
TwoWrites == {"Node", "Controller", "Pod", "Service"}

\* The API server creates nothing in a namespace that is absent or terminating.
CanCreate(k) == Ns[k] # NoNs => nss[Ns[k]] = "active"

Created(k) == [by |-> "shim", entry |-> seed[k], full |-> Kind[k] \notin TwoWrites,
               ending |-> FALSE]

FirstNamespaces == [n \in Namespaces |-> IF n \in System THEN "active" ELSE "absent"]

Init ==
    /\ file \in Seeds
    /\ objs = [k \in Keys |-> NoObject]
    /\ nss = FirstNamespaces
    /\ sa = "none"
    /\ pc = "init"
    /\ seed = file
    /\ todo = {} /\ at = NoKey /\ stale = FALSE
    /\ seen = {} /\ dying = {} /\ noUid = {}
    /\ installed = {} /\ prev = {} /\ cur = {}
    /\ made = {} /\ lost = {}
    /\ env = 0

Disturb == env < MaxEnv /\ env' = env + 1

-----------------------------------------------------------------------------
(* The start of the process *)

\* One step of WriteServiceAccountLayout: the data directory and its files;
\* the ..data link; the leaf links and the mode.
WriteServiceAccountLayout(data, link) ==
    sa' = CASE sa = "none" -> data [] sa = data -> link [] OTHER -> "done"

\* Mutant: sa-setup has succeeded once the ..data link is there.
LinkIsEnough ==
    /\ pc = "init"
    /\ IF sa \in {"none", "data"}
       THEN WriteServiceAccountLayout("data", "linked") /\ UNCHANGED pc
       ELSE pc' = "boot" /\ UNCHANGED sa
    /\ UNCHANGED <<file, objs, nss, seed, todo, at, stale, seen, dying, noUid, cur, made,
                   memory, env>>

\* The sa-setup init container (kubelet-shim --write-sa-layout), run again until
\* it succeeds; a shim that is deployed without it goes straight to its boot.
SaSetup ==
    /\ pc = "init"
    /\ \/ sa # "done" /\ WriteServiceAccountLayout("data", "linked") /\ UNCHANGED pc
       \/ sa \in {"none", "done"} /\ pc' = "boot" /\ UNCHANGED sa
    /\ UNCHANGED <<file, objs, nss, seed, todo, at, stale, seen, dying, noUid, cur, made,
                   memory, env>>

\* writeServiceAccountFiles: a layout with a ..data link is left alone, also
\* one that this shim has been killed in the middle of.
Boot ==
    /\ pc = "boot"
    /\ IF sa \in {"none", "own data"}
       THEN WriteServiceAccountLayout("own data", "own link") /\ pc' = "files" /\ UNCHANGED seed
       ELSE pc' = "wait" /\ seed' = file /\ UNCHANGED sa
    /\ UNCHANGED <<file, objs, nss, todo, at, stale, seen, dying, noUid, cur, made, memory, env>>

\* What it has begun it finishes, unless it is killed.
WriteFiles ==
    /\ pc = "files"
    /\ IF sa # "done"
       THEN WriteServiceAccountLayout("own data", "own link") /\ UNCHANGED <<pc, seed>>
       ELSE pc' = "wait" /\ seed' = file /\ UNCHANGED sa
    /\ UNCHANGED <<file, objs, nss, todo, at, stale, seen, dying, noUid, cur, made, memory, env>>

\* waitForAPIServer; a deadline that passes is fatal and is a Restart.
Reachable ==
    /\ pc = "wait"
    /\ pc' = "first"
    /\ UNCHANGED <<cluster, seed, todo, at, stale, seen, dying, noUid, cur, made, memory, env>>

-----------------------------------------------------------------------------
(* The pass: namespaces *)

\* Mutant: the heartbeat goes on with the seed of the start.
KeepSeed == seed' = seed /\ UNCHANGED env

\* reloadSeed: a file that cannot be read leaves the seed in memory.
reloadSeed == \/ seed' = file /\ UNCHANGED env
              \/ seed' = seed /\ Disturb

\* The first pass takes the seed main has loaded, a heartbeat reloads it.
StartPass ==
    /\ \/ pc = "first" /\ UNCHANGED <<seed, env>>
       \/ pc = "idle" /\ reloadSeed
    /\ pc' = "namespaces"
    /\ dying' = {n \in Namespaces : nss[n] = "terminating"}
    /\ todo' = DOMAIN seed'
    /\ cur' = {} /\ made' = {} /\ seen' = {} /\ noUid' = {}
    /\ UNCHANGED <<cluster, at, stale, memory>>

Purged == {"Pod", "Secret", "ConfigMap", "Controller"}

\* purgeNamespace, best effort per object, then Finalize.  A namespace that
\* has changed since the list answers Conflict or NotFound and is skipped.
FinalizeNamespace(n) ==
    /\ pc = "namespaces" /\ n \in dying
    /\ LET inside == {k \in Keys : Ns[k] = n /\ Kind[k] \in Purged} IN
       \/ /\ nss[n] = "terminating"
          /\ objs' = [k \in Keys |-> IF k \in inside THEN NoObject ELSE objs[k]]
          /\ nss' = [nss EXCEPT ![n] = "absent"]
          /\ UNCHANGED env
       \/ /\ nss[n] = "terminating"
          /\ objs' = objs /\ Disturb
          /\ \/ nss' = [nss EXCEPT ![n] = "absent"]
             \/ UNCHANGED nss
       \/ /\ nss[n] # "terminating"
          /\ objs' = [k \in Keys |-> IF k \in inside THEN NoObject ELSE objs[k]]
          /\ UNCHANGED <<nss, env>>
    /\ dying' = dying \ {n}
    /\ UNCHANGED <<file, sa, pc, seed, todo, at, stale, seen, noUid, cur, made, memory>>

NamespacesDone ==
    /\ pc = "namespaces" /\ dying = {}
    /\ pc' = "apply"
    /\ UNCHANGED <<cluster, seed, todo, at, stale, seen, dying, noUid, cur, made, memory, env>>

-----------------------------------------------------------------------------
(* The pass: objects *)

\* k is next: no key of an earlier kind is left.
Turn(k) ==
    /\ pc = "apply" /\ at = NoKey /\ k \in todo
    /\ \A j \in todo : Rank[Kind[k]] <= Rank[Kind[j]]

\* Leases, Pods, Secrets, ConfigMaps and Services see to their namespace first.
NamespaceReady(k) == Ns[k] \in seen

ensureNamespace(k) ==
    /\ Turn(k) /\ Kind[k] \notin {"Node", "CRD", "Controller"} /\ ~NamespaceReady(k)
    /\ nss' = IF nss[Ns[k]] = "absent" THEN [nss EXCEPT ![Ns[k]] = "active"] ELSE nss
    /\ seen' = seen \cup {Ns[k]}
    /\ UNCHANGED <<file, objs, sa, pc, seed, todo, at, stale, dying, noUid, cur, made, memory, env>>

Create(k) ==
    /\ ~Exists(k) /\ CanCreate(k)
    /\ objs' = [objs EXCEPT ![k] = Created(k)]
    /\ made' = made \cup {k}

\* An update in place keeps the object, whoever created it.
Update(k) ==
    /\ Exists(k)
    /\ objs' = [objs EXCEPT ![k].entry = seed[k]]
    /\ UNCHANGED made

\* The key is done and marked; another write of it is to follow.
markSeeded(k) == todo' = todo \ {k} /\ cur' = cur \cup {k} /\ UNCHANGED at
ThenSecond(k) == at' = k /\ UNCHANGED <<todo, cur>>

\* nsSeen is shared by Pods and Secrets; Leases have their own, and ConfigMaps
\* and Services ask each time.
ForgetNamespaces(k) ==
    seen' = IF \/ Kind[k] \in {"ConfigMap", "Service"}
               \/ Kind[k] = "Lease" /\ \A j \in todo \ {k} : Kind[j] # "Lease"
            THEN {} ELSE seen

\* The node's fresh copy is carried into the status write.
upsertNode(k) ==
    /\ Turn(k) /\ Kind[k] = "Node"
    /\ Create(k) \/ Update(k)
    /\ ThenSecond(k) /\ stale' = FALSE
    /\ UNCHANGED <<file, nss, sa, pc, seed, seen, dying, noUid, memory, env>>

ensureNodeLease(k) ==
    /\ Turn(k) /\ Kind[k] = "Lease" /\ NamespaceReady(k)
    /\ Create(k) \/ (Exists(k) /\ UNCHANGED <<objs, made>>)
    /\ markSeeded(k) /\ ForgetNamespaces(k)
    /\ UNCHANGED <<file, nss, sa, pc, seed, stale, dying, noUid, memory, env>>

\* A CRD this process has installed or found once is never looked at again.
createCRD(k) ==
    /\ Turn(k) /\ Kind[k] = "CRD"
    /\ \/ k \in installed /\ UNCHANGED <<objs, made>>
       \/ k \notin installed /\ Create(k)
       \/ k \notin installed /\ Exists(k) /\ UNCHANGED <<objs, made>>
    /\ installed' = installed \cup {k}
    /\ markSeeded(k)
    /\ UNCHANGED <<file, nss, sa, pc, seed, stale, seen, dying, noUid, prev, lost, env>>

createController(k) ==
    /\ Turn(k) /\ Kind[k] = "Controller"
    /\ Create(k) \/ Update(k)
    /\ ThenSecond(k) /\ stale' = FALSE
    /\ UNCHANGED <<file, nss, sa, pc, seed, seen, dying, noUid, memory, env>>

\* Its status write may fail without failing the pass, but the UID recorded
\* for its Pods is then empty.
ControllerStatus ==
    /\ pc = "apply" /\ at # NoKey /\ Kind[at] = "Controller"
    /\ \/ /\ ~stale /\ Exists(at)
          /\ objs' = [objs EXCEPT ![at].full = TRUE]
          /\ UNCHANGED <<noUid, env>>
       \/ /\ noUid' = noUid \cup {at}
          /\ UNCHANGED objs
          /\ IF stale \/ ~Exists(at) THEN UNCHANGED env ELSE Disturb
    /\ at' = NoKey /\ todo' = todo \ {at} /\ cur' = cur \cup {at}
    /\ UNCHANGED <<file, nss, sa, pc, seed, stale, seen, dying, made, memory>>

\* A Pod being deleted is deleted for good and comes back with the next pass.
\* The copy that goes into the status write is the one from before the update,
\* so an update that changes the Pod makes that write fail.
upsertPod(k) ==
    /\ Turn(k) /\ Kind[k] = "Pod" /\ NamespaceReady(k)
    /\ \/ Create(k) /\ Owner[k] \notin noUid /\ ThenSecond(k) /\ stale' = FALSE
       \/ /\ Exists(k) /\ objs[k].ending
          /\ objs' = [objs EXCEPT ![k] = NoObject]
          /\ markSeeded(k) /\ UNCHANGED <<made, stale>>
       \/ /\ Update(k) /\ ~objs[k].ending /\ Owner[k] \notin noUid
          /\ NodeOf[objs[k].entry] = NodeOf[seed[k]]
          /\ ThenSecond(k) /\ stale' = (objs[k].entry # seed[k])
    /\ UNCHANGED <<file, nss, sa, pc, seed, seen, dying, noUid, memory, env>>

\* UpdateStatus of a Node or Pod: refused unless the copy is current.
UpdateStatus ==
    /\ pc = "apply" /\ at # NoKey /\ Kind[at] \in {"Node", "Pod"}
    /\ ~stale /\ Exists(at)
    /\ objs' = [objs EXCEPT ![at].full = TRUE]
    /\ at' = NoKey /\ todo' = todo \ {at} /\ cur' = cur \cup {at}
    /\ UNCHANGED <<file, nss, sa, pc, seed, stale, seen, dying, noUid, made, memory, env>>

upsertSecret(k) ==
    /\ Turn(k) /\ Kind[k] = "Secret" /\ NamespaceReady(k)
    /\ Create(k) \/ Update(k)
    /\ markSeeded(k)
    /\ UNCHANGED <<file, nss, sa, pc, seed, stale, seen, dying, noUid, memory, env>>

createConfigMap(k) ==
    /\ Turn(k) /\ Kind[k] = "ConfigMap" /\ NamespaceReady(k)
    /\ Create(k) \/ Update(k)
    /\ markSeeded(k) /\ ForgetNamespaces(k)
    /\ UNCHANGED <<file, nss, sa, pc, seed, stale, dying, noUid, memory, env>>

\* A Service that is there is left as it is.
createService(k) ==
    /\ Turn(k) /\ Kind[k] = "Service" /\ NamespaceReady(k)
    /\ Create(k) \/ (Exists(k) /\ UNCHANGED <<objs, made>>)
    /\ ThenSecond(k)
    /\ UNCHANGED <<file, nss, sa, pc, seed, stale, seen, dying, noUid, memory, env>>

ensureEndpointSlice ==
    /\ pc = "apply" /\ at # NoKey /\ Kind[at] = "Service"
    /\ \/ Exists(at) /\ objs[at].full /\ UNCHANGED objs
       \/ Exists(at) /\ CanCreate(at) /\ objs' = [objs EXCEPT ![at].full = TRUE]
       \/ ~Exists(at) /\ UNCHANGED objs
    /\ at' = NoKey /\ todo' = todo \ {at} /\ cur' = cur \cup {at}
    /\ ForgetNamespaces(at)
    /\ UNCHANGED <<file, nss, sa, pc, seed, stale, dying, noUid, made, memory, env>>

-----------------------------------------------------------------------------
(* The end of the pass *)

\* Mutant: what is still desired is not taken out of what is pruned.
PruneAll ==
    /\ pc = "apply" /\ todo = {} /\ at = NoKey
    /\ pc' = "prune" /\ todo' = prev
    /\ UNCHANGED <<cluster, seed, at, stale, seen, dying, noUid, cur, made, memory, env>>

\* adoptScheduledPods: Pods bound to one of the seed's nodes become Running, the
\* ones being deleted too; best effort.
adoptScheduledPods ==
    /\ pc = "apply" /\ todo = {} /\ at = NoKey
    /\ LET bound == {k \in Keys : /\ Kind[k] = "Pod" /\ Exists(k)
                                  /\ NodeOf[objs[k].entry] \in DOMAIN seed} IN
       \/ /\ objs' = [k \in Keys |-> IF k \in bound THEN [objs[k] EXCEPT !.full = TRUE]
                                                    ELSE objs[k]]
          /\ UNCHANGED env
       \/ UNCHANGED objs /\ Disturb
    /\ pc' = "prune" /\ todo' = prev \ cur
    /\ UNCHANGED <<file, nss, sa, seed, at, stale, seen, dying, noUid, cur, made, memory>>

\* Mutant: the entry is dropped even though the delete has failed.
PruneOnce(k) ==
    /\ pc = "prune" /\ k \in todo
    /\ todo' = todo \ {k}
    /\ \/ objs' = [objs EXCEPT ![k] = NoObject] /\ UNCHANGED env
       \/ Disturb /\ UNCHANGED objs
    /\ UNCHANGED <<file, nss, sa, pc, seed, at, stale, seen, dying, noUid, cur, made, memory>>

\* One round of pruneSeeded: a delete that fails keeps its entry.
pruneSeeded(k) ==
    /\ pc = "prune" /\ k \in todo
    /\ todo' = todo \ {k}
    /\ \/ objs' = [objs EXCEPT ![k] = NoObject] /\ UNCHANGED <<cur, env>>
       \/ cur' = cur \cup {k} /\ Disturb /\ UNCHANGED objs
    /\ UNCHANGED <<file, nss, sa, pc, seed, at, stale, seen, dying, noUid, made, memory>>

\* Between passes nothing of a pass is left.
EndPass ==
    /\ pc' = "idle" /\ todo' = {} /\ at' = NoKey /\ stale' = FALSE
    /\ seen' = {} /\ dying' = {} /\ noUid' = {} /\ cur' = {} /\ made' = {}
    /\ UNCHANGED <<cluster, seed, installed>>

FinishPass ==
    /\ pc = "prune" /\ todo = {}
    /\ prev' = cur /\ lost' = lost \ cur
    /\ EndPass /\ UNCHANGED env

\* Seed returns early: seededPrev stays, and what this pass created and an
\* earlier one had not is in no set.
ReturnError ==
    /\ lost' = lost \cup (made \ prev) /\ UNCHANGED prev
    /\ EndPass

CallFails == pc \in {"namespaces", "apply"} /\ ReturnError /\ Disturb

\* The API server answers every attempt the same: creation in a namespace that
\* is terminating, a Pod whose owner's UID is empty or whose node has changed, a
\* status write with a stale copy.
Refused ==
    /\ \/ \E k \in Keys :
            /\ Turn(k) /\ (NamespaceReady(k) \/ Kind[k] \in {"Node", "CRD", "Controller"})
            /\ \/ ~Exists(k) /\ ~CanCreate(k)
               \/ Kind[k] = "Pod" /\ ~objs[k].ending /\ Owner[k] \in noUid
               \/ /\ Kind[k] = "Pod" /\ Exists(k) /\ ~objs[k].ending
                  /\ NodeOf[objs[k].entry] # NodeOf[seed[k]]
       \/ at # NoKey /\ Kind[at] \in {"Node", "Pod"} /\ (stale \/ ~Exists(at))
       \/ at # NoKey /\ Kind[at] = "Service" /\ Exists(at) /\ ~objs[at].full /\ ~CanCreate(at)
    /\ ReturnError /\ UNCHANGED env

-----------------------------------------------------------------------------
(* The environment *)

\* The operator renders another seed (a Pod joins or leaves, the author edits).
EditSeed ==
    /\ Disturb
    /\ file' \in Seeds \ {file}
    /\ UNCHANGED <<objs, nss, sa, pass, memory>>

\* The API server ends a bound Pod gracefully and removes anything else.
DeleteObject(k) ==
    /\ Disturb /\ Exists(k) /\ ~objs[k].ending
    /\ objs' = [objs EXCEPT ![k] = IF Kind[k] = "Pod" /\ NodeOf[objs[k].entry] # NoKey
                                   THEN [@ EXCEPT !.ending = TRUE] ELSE NoObject]
    /\ stale' = (stale \/ at = k)
    /\ UNCHANGED <<file, nss, sa, pc, seed, todo, at, seen, dying, noUid, cur, made, memory>>

\* A user, or one of the inner cluster's controllers, creates an object.
CreateObject(k) ==
    /\ Disturb /\ ~Exists(k) /\ CanCreate(k)
    /\ \E e \in Entries : objs' = [objs EXCEPT ![k] =
            [by |-> "other", entry |-> e, full |-> Kind[k] \notin TwoWrites, ending |-> FALSE]]
    /\ UNCHANGED <<file, nss, sa, pass, memory>>

DeleteNamespace(n) ==
    /\ Disturb /\ nss[n] = "active" /\ n \notin System
    /\ nss' = [nss EXCEPT ![n] = "terminating"]
    /\ UNCHANGED <<file, objs, sa, pass, memory>>

\* kube-controller-manager's namespace controller, which empties it first.
NamespaceController(n) ==
    /\ Disturb /\ nss[n] = "terminating"
    /\ nss' = [nss EXCEPT ![n] = "absent"]
    /\ objs' = [k \in Keys |-> IF Ns[k] = n THEN NoObject ELSE objs[k]]
    /\ UNCHANGED <<file, sa, pass, memory>>

\* The process starts anew with nothing in memory.
Forget ==
    /\ todo' = {} /\ at' = NoKey /\ stale' = FALSE /\ seen' = {} /\ dying' = {}
    /\ noUid' = {} /\ cur' = {} /\ made' = {} /\ installed' = {} /\ prev' = {}
    /\ UNCHANGED <<file, seed>>

\* The container is restarted: the inner cluster's volumes stay.
Restart ==
    /\ Disturb /\ pc # "init"
    /\ pc' = "boot" /\ lost' = lost \cup prev \cup made
    /\ Forget /\ UNCHANGED <<objs, nss, sa>>

\* The decoy Pod is replaced: only what is on a PersistentVolumeClaim stays.
RestartPod ==
    /\ Disturb /\ pc # "init"
    /\ pc' = "init" /\ sa' = "none"
    /\ IF Persistent
       THEN lost' = lost \cup prev \cup made /\ UNCHANGED <<objs, nss>>
       ELSE lost' = {} /\ objs' = [k \in Keys |-> NoObject] /\ nss' = FirstNamespaces
    /\ Forget

-----------------------------------------------------------------------------
Upsert(k) ==
    \/ ensureNamespace(k) \/ upsertNode(k) \/ ensureNodeLease(k) \/ createCRD(k)
    \/ createController(k) \/ upsertPod(k) \/ upsertSecret(k) \/ createConfigMap(k)
    \/ createService(k)

Shim ==
    \/ SaSetup \/ Boot \/ WriteFiles \/ Reachable \/ StartPass
    \/ \E n \in Namespaces : FinalizeNamespace(n)
    \/ NamespacesDone
    \/ \E k \in Keys : Upsert(k) \/ pruneSeeded(k)
    \/ ControllerStatus \/ UpdateStatus \/ ensureEndpointSlice
    \/ adoptScheduledPods \/ FinishPass \/ CallFails \/ Refused

Environment ==
    \/ EditSeed \/ Restart \/ RestartPod
    \/ \E k \in Keys : DeleteObject(k) \/ CreateObject(k)
    \/ \E n \in Namespaces : DeleteNamespace(n) \/ NamespaceController(n)

Next == Shim \/ Environment

Spec == Init /\ [][Next]_vars

\* The container runs and the heartbeat's ticker fires: some step of the shim is
\* always taken in the end.  Nothing is assumed of the environment.
FairSpec == Spec /\ WF_vars(Shim)

-----------------------------------------------------------------------------
(* Properties *)

\* Every object the shim created and that is still there is one the shim can
\* still delete: the last finished pass tracks it or the running one has just
\* made it.  The exceptions are exactly the objects of a pass that failed and of
\* a process that was restarted, until a later pass lists them again.
AccountedFor ==
    \A k \in Keys : objs[k].by = "shim" => k \in prev \cup made \cup lost

\* A step that is not the environment's and removes somebody else's object.
ForeignKept ==
    \A k \in Keys :
        (objs[k].by = "other" /\ objs'[k] = NoObject /\ env' = env) =>
            \/ k \in prev /\ k \notin DOMAIN seed
            \/ k \in DOMAIN seed /\ objs[k].ending
            \/ Ns[k] \in dying

\* The shim deletes somebody else's object only where it stands under a name the
\* seed has listed (dropped from the seed, or a listed Pod being deleted), or
\* in a namespace this pass found terminating.
ForeignSpared == [][ForeignKept]_vars

\* However the init container and the shim are killed while they write the
\* ServiceAccount directory, the shim serves with the whole layout in place, or,
\* deployed without the init container, at least with a ..data link.
ServingHasLayout ==
    pc \notin {"init", "boot", "files"} => sa \in {"done", "own link"}

\* A listed Pod stands bound to another node than the seed says: every pass is
\* refused there and nothing after it is applied or pruned.
Wedged ==
    \E k \in DOMAIN file : /\ Kind[k] = "Pod" /\ Exists(k) /\ ~objs[k].ending
                           /\ NodeOf[objs[k].entry] # NodeOf[file[k]]

CreateOnly == {"Lease", "CRD", "Service"}

Converged(k) ==
    IF k \in DOMAIN file
    THEN \/ /\ Exists(k) /\ ~objs[k].ending
            /\ Kind[k] \in CreateOnly \/ (objs[k].entry = file[k] /\ objs[k].full)
         \/ Kind[k] = "CRD" /\ k \in installed
    ELSE objs[k].by = "shim" => k \in lost

\* When users, failures and restarts leave it alone the shim brings the inner
\* cluster to the seed: what is listed is there as listed, what it had created
\* and is listed no more is gone.  Not so for a CRD it remembers as installed,
\* for objects it has lost track of, and while a Pod's node wedges the pass.
EventuallyConverged == <>[](Wedged \/ \A k \in Keys : Converged(k))

=============================================================================
