----------------------- MODULE DecoyControllerProofs -----------------------
(***************************************************************************)
(* Proofs about JoinResolution and DecoyController, for any finite set of  *)
(* Decoys and any Pods, namespaces, names and bounds.                      *)
(***************************************************************************)
EXTENDS DecoyController, FiniteSetTheorems, TLAPS

-----------------------------------------------------------------------------
(* The two forms of the join rule are one *)

\* A set of one Decoy that has d in it is {d}.
LEMMA LoneMember ==
    ASSUME NEW S \in SUBSET Decoys, NEW d \in S
    PROVE  Cardinality(S) = 1 <=> S = {d}
<1>1. IsFiniteSet(S)
  BY JoinAssumption, FS_Subset
<1>2. ASSUME Cardinality(S) = 1 PROVE S = {d}
  <2>1. PICK e : S = {e}
    BY <1>1, <1>2, FS_Singleton
  <2> QED
    BY <2>1
<1>3. ASSUME S = {d} PROVE Cardinality(S) = 1
  BY <1>3, FS_Singleton
<1> QED
  BY <1>2, <1>3

\* For every set of Decoys, a Pod is among those the reconciler of d lists
\* exactly if the webhook and the Pod watch resolve its annotation to d.
THEOREM OneJoinRule ==
    ASSUME NEW S \in SUBSET Decoys, NEW d \in S, NEW ns \in Namespaces, NEW v \in Annotations
    PROVE  isJoined(S, d, ns, v) <=> resolveJoinAnnotation(S, ns, v) = {d}
<1> USE JoinAssumption
<1>1. CASE v \in Decoys
  BY <1>1 DEF isJoined, resolveJoinAnnotation
<1>2. CASE v = NoJoin
  BY <1>2 DEF isJoined, resolveJoinAnnotation
<1>3. CASE v = Implicit
  <2> DEFINE inNS == InNamespace(S, ns)
  <2>1. resolveJoinAnnotation(S, ns, v) =
          IF Cardinality(S) = 1 THEN S ELSE IF Cardinality(inNS) = 1 THEN inNS ELSE {}
    BY <1>3 DEF resolveJoinAnnotation
  <2>2. Cardinality(S) = 1 <=> S = {d}
    BY LoneMember
  <2>3. ASSUME ns = DecoyNs[d]
        PROVE  Cardinality(inNS) = 1 <=> inNS = {d}
    <3>1. inNS \in SUBSET Decoys /\ d \in inNS
      BY <2>3 DEF InNamespace
    <3> QED
      BY <3>1, LoneMember
  <2>4. ASSUME ns # DecoyNs[d]
        PROVE  d \notin inNS
    BY <2>4 DEF InNamespace
  <2> QED
    BY <1>3, <2>1, <2>2, <2>3, <2>4 DEF isJoined
<1> QED
  BY <1>1, <1>2, <1>3 DEF Annotations

-----------------------------------------------------------------------------
(* Type correctness *)

PCs == {"idle", "own", "list", "addfin", "mirror", "prune", "pruning", "cleanup",
        "cleaning", "rest", "status", "failed"}

\* The versions of a Decoy that anyone writes are Decoys.
LEMMA DecoyType ==
    /\ Absent \in Decoy /\ [Absent EXCEPT !.st = "live"] \in Decoy
    /\ \A o \in Decoy : /\ \A b \in BOOLEAN : [o EXCEPT !.fin = b] \in Decoy
                       /\ [o EXCEPT !.st = "deleting"] \in Decoy
                       /\ [o EXCEPT !.phase = "Failed"] \in Decoy
                       /\ \A j \in SUBSET Pods :
                            [o EXCEPT !.joined = j, !.phase = "Reconciled"] \in Decoy
  BY Zenon DEF Absent, Decoy

\* The changes to the worker's state keep it a worker's state.
LEMMA WorkerChange ==
    ASSUME NEW x \in WorkerType
    PROVE  /\ \A pc \in PCs : [x EXCEPT !.pc = pc] \in WorkerType
           /\ \A b \in BOOLEAN : [x EXCEPT !.current = b] \in WorkerType
           /\ \A pc \in PCs, b \in BOOLEAN : [x EXCEPT !.pc = pc, !.kt.fin = b] \in WorkerType
           /\ \A ns \in Namespaces : [x EXCEPT !.todo = @ \ {ns}] \in WorkerType
           /\ \A m \in MirrorKeys : [x EXCEPT !.stale = @ \ {m}] \in WorkerType
           /\ \A pc \in PCs, s \in SUBSET MirrorKeys : [x EXCEPT !.pc = pc, !.stale = s] \in WorkerType
           /\ \A pc \in PCs, j \in SUBSET Pods, t \in SUBSET Namespaces :
                [x EXCEPT !.pc = pc, !.joined = j, !.todo = t] \in WorkerType
<1>1. \A pc \in PCs : [x EXCEPT !.pc = pc] \in WorkerType
  BY DEF WorkerType, PCs
<1>2. \A b \in BOOLEAN : [x EXCEPT !.current = b] \in WorkerType
  BY DEF WorkerType
<1>3. \A pc \in PCs, b \in BOOLEAN : [x EXCEPT !.pc = pc, !.kt.fin = b] \in WorkerType
  <2> TAKE pc \in PCs, b \in BOOLEAN
  <2>1. x.kt \in Decoy
    BY DEF WorkerType
  <2>2. [x.kt EXCEPT !.fin = b] \in Decoy
    BY <2>1, DecoyType, Zenon
  <2>3. [x EXCEPT !.pc = pc, !.kt.fin = b] = [x EXCEPT !.pc = pc, !.kt = [x.kt EXCEPT !.fin = b]]
    BY DEF WorkerType
  <2> QED
    BY <2>2, <2>3, Zenon DEF WorkerType, PCs
<1>4. \A ns \in Namespaces : [x EXCEPT !.todo = @ \ {ns}] \in WorkerType
  BY DEF WorkerType
<1>5. \A m \in MirrorKeys : [x EXCEPT !.stale = @ \ {m}] \in WorkerType
  BY DEF WorkerType
<1>6. \A pc \in PCs, s \in SUBSET MirrorKeys : [x EXCEPT !.pc = pc, !.stale = s] \in WorkerType
  BY Zenon DEF WorkerType, PCs
<1>7. \A pc \in PCs, j \in SUBSET Pods, t \in SUBSET Namespaces :
        [x EXCEPT !.pc = pc, !.joined = j, !.todo = t] \in WorkerType
  BY ZenonT(30) DEF WorkerType, PCs
<1> QED
  BY <1>1, <1>2, <1>3, <1>4, <1>5, <1>6, <1>7, Zenon

\* The copy's finalizer is set or removed.
LEMMA WorkerFin ==
    ASSUME NEW x \in WorkerType, NEW y, NEW pc \in PCs, NEW b \in BOOLEAN,
           y = [x EXCEPT !.pc = pc, !.kt.fin = b]
    PROVE  /\ y \in WorkerType
           /\ y.key = x.key /\ y.pc = pc /\ y.kt.fin = b /\ y.joined = x.joined
           /\ y.stale = x.stale
<1>1. y \in WorkerType
  BY WorkerChange, Zenon
<1>2. y.key = x.key /\ y.pc = pc /\ y.joined = x.joined /\ y.stale = x.stale
  BY DEF WorkerType
<1>3. y.kt.fin = b
  BY Zenon DEF WorkerType, Decoy
<1> QED
  BY <1>1, <1>2, <1>3

\* A worker at rest, and one that begins a pass.
LEMMA WorkerStart ==
    ASSUME TypeOK, NEW d \in Decoys
    PROVE  WorkerIdle \in WorkerType /\ Begin(d, cache.decoys[d]) \in WorkerType
<1>1. WorkerIdle \in WorkerType
  BY DecoyType, Zenon DEF WorkerIdle, WorkerType
<1>2. cache.decoys[d] \in Decoy /\ (d \notin cache.outdated) \in BOOLEAN
  BY DEF TypeOK, CacheType
<1>3. \A pc \in PCs, k \in Decoy, c \in BOOLEAN :
        [WorkerIdle EXCEPT !.pc = pc, !.key = d, !.kt = k, !.current = c] \in WorkerType
  BY <1>1, Zenon DEF WorkerType, PCs
<1>4. (IF cache.decoys[d].st = "deleting" THEN "cleanup" ELSE "own") \in PCs
  BY DEF PCs
<1> QED
  BY <1>1, <1>2, <1>3, <1>4, Zenon DEF Begin

\* Changes to the caches.
LEMMA CacheChange ==
    ASSUME NEW c \in CacheType
    PROVE  /\ \A d \in Decoys : [c EXCEPT !.outdated = @ \cup {d}] \in CacheType
           /\ \A d \in Decoys, o \in Decoy : [c EXCEPT !.decoys[d] = o] \in CacheType
           /\ \A p \in Pods, v \in Annotations : [c EXCEPT !.pods[p] = v] \in CacheType
           /\ \A m \in MirrorKeys, o \in Decoys \cup {NoDecoy} : [c EXCEPT !.mirrors[m] = o] \in CacheType
           /\ \A f \in [Decoys -> Decoy] : [c EXCEPT !.decoys = f, !.outdated = {}] \in CacheType
           /\ \A f \in [Pods -> Annotations] : [c EXCEPT !.pods = f] \in CacheType
           /\ \A f \in [MirrorKeys -> Decoys \cup {NoDecoy}] : [c EXCEPT !.mirrors = f] \in CacheType
<1> USE DEF CacheType
<1>0. /\ c.decoys \in [Decoys -> Decoy] /\ c.pods \in [Pods -> Annotations]
      /\ c.mirrors \in [MirrorKeys -> Decoys \cup {NoDecoy}]
  OBVIOUS
<1>1. \A d \in Decoys : [c EXCEPT !.outdated = @ \cup {d}] \in CacheType
  OBVIOUS
<1>2. \A f \in [Decoys -> Decoy] : [c EXCEPT !.decoys = f, !.outdated = {}] \in CacheType
  BY Zenon
<1>3. \A f \in [Decoys -> Decoy] : [c EXCEPT !.decoys = f] \in CacheType
  OBVIOUS
<1>4. \A f \in [Pods -> Annotations] : [c EXCEPT !.pods = f] \in CacheType
  OBVIOUS
<1>5. \A f \in [MirrorKeys -> Decoys \cup {NoDecoy}] : [c EXCEPT !.mirrors = f] \in CacheType
  OBVIOUS
<1>6. \A d \in Decoys, o \in Decoy : [c EXCEPT !.decoys[d] = o] \in CacheType
  <2> TAKE d \in Decoys, o \in Decoy
  <2>1. [c EXCEPT !.decoys[d] = o] = [c EXCEPT !.decoys = [c.decoys EXCEPT ![d] = o]]
    OBVIOUS
  <2>2. [c.decoys EXCEPT ![d] = o] \in [Decoys -> Decoy]
    BY <1>0
  <2> QED
    BY <1>3, <2>1, <2>2, Zenon
<1>7. \A p \in Pods, v \in Annotations : [c EXCEPT !.pods[p] = v] \in CacheType
  <2> TAKE p \in Pods, v \in Annotations
  <2>1. [c EXCEPT !.pods[p] = v] = [c EXCEPT !.pods = [c.pods EXCEPT ![p] = v]]
    OBVIOUS
  <2>2. [c.pods EXCEPT ![p] = v] \in [Pods -> Annotations]
    BY <1>0
  <2> QED
    BY <1>4, <2>1, <2>2, Zenon
<1>8. \A m \in MirrorKeys, o \in Decoys \cup {NoDecoy} : [c EXCEPT !.mirrors[m] = o] \in CacheType
  <2> TAKE m \in MirrorKeys, o \in Decoys \cup {NoDecoy}
  <2>1. [c EXCEPT !.mirrors[m] = o] = [c EXCEPT !.mirrors = [c.mirrors EXCEPT ![m] = o]]
    OBVIOUS
  <2>2. [c.mirrors EXCEPT ![m] = o] \in [MirrorKeys -> Decoys \cup {NoDecoy}]
    BY <1>0
  <2> QED
    BY <1>5, <2>1, <2>2, Zenon
<1> HIDE DEF CacheType
<1> QED
  BY <1>1, <1>2, <1>4, <1>5, <1>6, <1>7, <1>8, Zenon

\* An annotation resolves to Decoys.
LEMMA ResolveType ==
    ASSUME NEW S \in SUBSET Decoys, NEW ns, NEW v \in Annotations
    PROVE  resolveJoinAnnotation(S, ns, v) \subseteq Decoys
<1> USE JoinAssumption
<1>1. CASE v \in Decoys
  BY <1>1 DEF resolveJoinAnnotation
<1>2. CASE v = NoJoin
  BY <1>2 DEF resolveJoinAnnotation
<1>3. CASE v = Implicit
  BY <1>3 DEF resolveJoinAnnotation, InNamespace
<1> QED
  BY <1>1, <1>2, <1>3 DEF Annotations

\* The writes, and what the watches make of them.
LEMMA WriteType ==
    ASSUME TypeOK
    PROVE  /\ \A d \in Decoys, o \in Decoy, q \in SUBSET Decoys : WriteDecoy(d, o, q) =>
                decoys' \in [Decoys -> Decoy] /\ cache' \in CacheType /\ queue' \subseteq Decoys
           /\ \A p \in Pods, v \in Annotations : WritePod(p, v) =>
                pods' \in [Pods -> Annotations] /\ cache' \in CacheType /\ queue' \subseteq Decoys
           /\ \A m \in MirrorKeys, o \in Decoys \cup {NoDecoy} : WriteMirror(m, o) =>
                mirrors' \in [MirrorKeys -> Decoys \cup {NoDecoy}] /\ cache' \in CacheType
           /\ \A p \in Pods, u \in Annotations, v \in Annotations :
                mapJoinedPodToDecoy(p, u, v) \subseteq Decoys
<1>0. /\ decoys \in [Decoys -> Decoy] /\ pods \in [Pods -> Annotations]
      /\ mirrors \in [MirrorKeys -> Decoys \cup {NoDecoy}]
      /\ cache \in CacheType /\ queue \subseteq Decoys
  BY DEF TypeOK
<1>1. ASSUME NEW d \in Decoys, NEW o \in Decoy, NEW q \in SUBSET Decoys, WriteDecoy(d, o, q)
      PROVE  decoys' \in [Decoys -> Decoy] /\ cache' \in CacheType /\ queue' \subseteq Decoys
  <2>1. decoys' \in [Decoys -> Decoy] /\ queue' \subseteq Decoys
    BY <1>0, <1>1 DEF WriteDecoy
  <2>2. \/ cache' = cache
        \/ cache' = [cache EXCEPT !.outdated = @ \cup {d}]
        \/ cache' = [cache EXCEPT !.decoys[d] = o]
    BY <1>1, Zenon, Zenon DEF WriteDecoy
  <2>3. [cache EXCEPT !.outdated = @ \cup {d}] \in CacheType /\ [cache EXCEPT !.decoys[d] = o] \in CacheType
    BY <1>0, CacheChange, Zenon, Zenon
  <2> QED
    BY <1>0, <2>1, <2>2, <2>3, Zenon, Zenon
<1>2. ASSUME NEW S \in SUBSET Decoys, NEW ns, NEW v \in Annotations
      PROVE  resolveJoinAnnotation(S, ns, v) \subseteq Decoys
  BY ResolveType
<1>3. \A p \in Pods, u \in Annotations, v \in Annotations : mapJoinedPodToDecoy(p, u, v) \subseteq Decoys
  BY <1>2 DEF mapJoinedPodToDecoy, Existing
<1>4. ASSUME NEW p \in Pods, NEW v \in Annotations, WritePod(p, v)
      PROVE  pods' \in [Pods -> Annotations] /\ cache' \in CacheType /\ queue' \subseteq Decoys
  <2>1. pods' \in [Pods -> Annotations] /\ pods[p] \in Annotations
    BY <1>0, <1>4 DEF WritePod
  <2>2. mapJoinedPodToDecoy(p, pods[p], v) \subseteq Decoys
    BY <1>3, <2>1
  <2>3. queue' \subseteq Decoys
    BY <1>0, <1>4, <2>2 DEF WritePod
  <2>4. cache' = cache \/ cache' = [cache EXCEPT !.pods[p] = v]
    BY <1>4, Zenon, Zenon DEF WritePod
  <2>5. [cache EXCEPT !.pods[p] = v] \in CacheType
    BY <1>0, CacheChange, Zenon
  <2> QED
    BY <1>0, <2>1, <2>3, <2>4, <2>5, Zenon, Zenon
<1>5. ASSUME NEW m \in MirrorKeys, NEW o \in Decoys \cup {NoDecoy}, WriteMirror(m, o)
      PROVE  mirrors' \in [MirrorKeys -> Decoys \cup {NoDecoy}] /\ cache' \in CacheType
  BY <1>0, <1>5, CacheChange, Zenon DEF WriteMirror
<1> QED
  BY <1>1, <1>3, <1>4, <1>5

\* Init is well formed.
LEMMA CtlTypeInit == Init => TypeOK
<1> SUFFICES ASSUME Init PROVE TypeOK
  OBVIOUS
<1> USE ControllerAssumption, JoinAssumption
<1>1. decoys \in [Decoys -> Decoy]
  BY DecoyType, Zenon DEF Init
<1>2. pods \in [Pods -> Annotations] /\ mirrors \in [MirrorKeys -> Decoys \cup {NoDecoy}]
  BY DEF Init, Annotations
<1>3. cache \in CacheType
  BY <1>1, <1>2 DEF Init, CacheType
<1>4. w \in WorkerType /\ w.pc = "idle"
  BY DecoyType, Zenon DEF Init, WorkerIdle, WorkerType
<1> QED
  BY <1>1, <1>2, <1>3, <1>4, Zenon DEF Init, TypeOK

\* Every step leads from a well-formed state to a well-formed one.
LEMMA CtlTypeStep == TypeOK /\ [Next]_vars => TypeOK'
<1> SUFFICES ASSUME TypeOK, [Next]_vars PROVE TypeOK'
  OBVIOUS
<1>0. /\ decoys \in [Decoys -> Decoy] /\ pods \in [Pods -> Annotations]
      /\ mirrors \in [MirrorKeys -> Decoys \cup {NoDecoy}] /\ ending \subseteq Namespaces
      /\ cache \in CacheType /\ queue \subseteq Decoys /\ w \in WorkerType
      /\ w.pc # "idle" => w.key \in Decoys
      /\ told \in [Decoys -> SUBSET Pods] /\ env \in Nat
  BY DEF TypeOK
<1>x. w \in WorkerType
  BY <1>0
<1>w. /\ w.kt \in Decoy /\ w.joined \subseteq Pods /\ w.todo \subseteq Namespaces
      /\ w.stale \subseteq MirrorKeys /\ w.current \in BOOLEAN
      /\ cache.decoys \in [Decoys -> Decoy] /\ cache.outdated \subseteq Decoys
  BY <1>0 DEF WorkerType, CacheType
<1>i. WorkerIdle \in WorkerType /\ WorkerIdle.pc = "idle"
  BY DecoyType, Zenon DEF WorkerIdle, WorkerType
\* The worker moves on with the Decoy it has.
<1>g. \A pc \in PCs : [w EXCEPT !.pc = pc] \in WorkerType /\ [w EXCEPT !.pc = pc].key = w.key
  <2>1. \A pc \in PCs : [w EXCEPT !.pc = pc] \in WorkerType
    BY <1>x, WorkerChange, Zenon
  <2>2. \A pc \in PCs : [w EXCEPT !.pc = pc].key = w.key
    BY <1>x DEF WorkerType
  <2> QED
    BY <2>1, <2>2
<1>1. ASSUME NEW d \in Decoys, Start(d) PROVE TypeOK'
  <2>1. w' \in WorkerType /\ (w'.pc # "idle" => w'.key \in Decoys)
    <3>1. CASE w' = WorkerIdle
      BY <1>i, <3>1
    <3>2. CASE w' = Begin(d, cache.decoys[d])
      <4>1. w' \in WorkerType
        BY <3>2, WorkerStart
      <4>2. w'.key = d
        BY <3>2 DEF Begin, WorkerIdle
      <4> QED
        BY <4>1, <4>2
    <3> QED
      BY <1>1, <3>1, <3>2 DEF Start
  <2> QED
    BY <1>0, <1>1, <2>1 DEF Start, TypeOK
<1>2. CASE OwnObjects \/ MirrorsApplied \/ RestObjects
  <2>1. w' \in WorkerType /\ (w'.pc # "idle" => w'.key \in Decoys)
    BY <1>0, <1>2, <1>g, Zenon DEF OwnObjects, MirrorsApplied, RestObjects, Goto, PCs
  <2> QED
    BY <1>0, <1>2, <2>1 DEF OwnObjects, MirrorsApplied, RestObjects, TypeOK
<1>3. CASE ListJoined
  <2> DEFINE joined == JoinedPods(w.key)
             need == Needed(w.key, joined)
             pc == IF need # {} THEN "addfin" ELSE "prune"
  <2>1. joined \subseteq Pods /\ w.key \in Decoys /\ need \subseteq Namespaces /\ pc \in PCs
    BY <1>0, <1>3, ControllerAssumption DEF ListJoined, JoinedPods, Needed, PCs
  <2>2. w' = [w EXCEPT !.pc = pc, !.joined = joined, !.todo = need]
    BY <1>3 DEF ListJoined
  <2>3. w' \in WorkerType /\ w'.key = w.key
    <3> HIDE DEF joined, need, pc
    <3>1. w' \in WorkerType
      BY <1>0, <2>1, <2>2, WorkerChange, Zenon
    <3>2. w'.key = w.key
      BY <1>0, <2>2 DEF WorkerType
    <3> QED
      BY <3>1, <3>2
  <2>4. told' \in [Decoys -> SUBSET Pods]
    <3>1. told' = [told EXCEPT ![w.key] = @ \cup (joined \ w.kt.joined)]
      BY <1>3 DEF ListJoined
    <3> HIDE DEF joined
    <3> QED
      BY <1>0, <2>1, <3>1
  <2> HIDE DEF joined, need, pc
  <2> QED
    BY <1>0, <1>3, <2>1, <2>3, <2>4 DEF ListJoined, TypeOK
<1>4. CASE AddFinalizer
  <2>1. w' \in WorkerType /\ w'.key = w.key
    <3>1. "mirror" \in PCs /\ w' = [w EXCEPT !.pc = "mirror", !.kt.fin = TRUE]
      BY <1>4 DEF AddFinalizer, PCs
    <3> QED
      BY <1>x, <3>1, WorkerFin, Zenon, Zenon
  <2>2. /\ decoys' \in [Decoys -> Decoy] /\ cache' \in CacheType /\ queue' \subseteq Decoys
    <3>1. [decoys[w.key] EXCEPT !.fin = TRUE] \in Decoy /\ w.key \in Decoys
      BY <1>0, <1>4, DecoyType, Zenon DEF AddFinalizer
    <3> QED
      BY <1>0, <1>4, <3>1, WriteType DEF AddFinalizer
  <2> QED
    BY <1>0, <1>4, <2>1, <2>2 DEF AddFinalizer, TypeOK
<1>5. ASSUME NEW ns \in Namespaces, ApplyMirror(ns) PROVE TypeOK'
  <2>1. w.key \in Decoys /\ mirroredSecretName(w.key, ns) \in MirrorKeys
    BY <1>0, <1>5 DEF ApplyMirror, mirroredSecretName, MirrorKeys
  <2>2. w' \in WorkerType /\ w'.key = w.key
    <3>1. w' = [w EXCEPT !.todo = @ \ {ns}]
      BY <1>5 DEF ApplyMirror
    <3>2. w' \in WorkerType
      BY <1>0, <3>1, WorkerChange, Zenon
    <3> QED
      BY <1>0, <3>1, <3>2 DEF WorkerType
  <2>3. mirrors' \in [MirrorKeys -> Decoys \cup {NoDecoy}] /\ cache' \in CacheType
    <3>1. \/ UNCHANGED <<mirrors, cache>>
          \/ WriteMirror(mirroredSecretName(w.key, ns), w.key)
      BY <1>5 DEF ApplyMirror
    <3> QED
      BY <1>0, <2>1, <3>1, WriteType
  <2> QED
    BY <1>0, <1>5, <2>1, <2>2, <2>3 DEF ApplyMirror, TypeOK
<1>6. CASE ListMirrors
  <2>1. w.key \in Decoys
    BY <1>0, <1>6 DEF ListMirrors
  <2>2. PICK s \in SUBSET MirrorKeys, pc \in PCs : w' = [w EXCEPT !.pc = pc, !.stale = s]
    <3> DEFINE keep == IF w.pc = "prune" THEN Needed(w.key, w.joined) ELSE {}
    <3>1. w' = [w EXCEPT !.pc = IF w.pc = "prune" THEN "pruning" ELSE "cleaning",
                         !.stale = MirrorsToDelete(w.key, keep)]
      BY <1>6 DEF ListMirrors
    <3>2. MirrorsToDelete(w.key, keep) \in SUBSET MirrorKeys
      BY DEF MirrorsToDelete
    <3>3. (IF w.pc = "prune" THEN "pruning" ELSE "cleaning") \in PCs
      BY DEF PCs
    <3> HIDE DEF keep
    <3> QED
      BY <3>1, <3>2, <3>3, Zenon
  <2>3. w' \in WorkerType /\ w'.key = w.key
    BY <1>x, <2>2, Zenon DEF WorkerType, PCs
  <2> QED
    BY <1>0, <1>6, <2>1, <2>3 DEF ListMirrors, TypeOK
<1>7. ASSUME NEW m \in MirrorKeys, DeleteMirror(m) PROVE TypeOK'
  <2>1. w' \in WorkerType /\ w'.key = w.key /\ w'.pc = w.pc
    <3>1. w' = [w EXCEPT !.stale = @ \ {m}]
      BY <1>7 DEF DeleteMirror
    <3> QED
      BY <1>x, <3>1 DEF WorkerType
  <2>2. mirrors' \in [MirrorKeys -> Decoys \cup {NoDecoy}] /\ cache' \in CacheType
    BY <1>0, <1>7, WriteType DEF DeleteMirror
  <2> QED
    BY <1>0, <1>7, <2>1, <2>2 DEF DeleteMirror, TypeOK
<1>8. CASE RemoveFinalizer
  <2>1. w.key \in Decoys
    BY <1>0, <1>8 DEF RemoveFinalizer
  <2>2. w' = [w EXCEPT !.pc = "rest", !.kt.fin = FALSE] \/ w' = [w EXCEPT !.pc = "rest"]
    BY <1>8 DEF RemoveFinalizer, Goto
  <2>3. w' \in WorkerType /\ w'.key = w.key
    <3>1. "rest" \in PCs
      BY DEF PCs
    <3>2. CASE w' = [w EXCEPT !.pc = "rest"]
      BY <1>x, <3>2 DEF WorkerType
    <3>3. CASE w' = [w EXCEPT !.pc = "rest", !.kt.fin = FALSE]
      BY <1>x, <3>1, <3>3, WorkerFin, Zenon, Zenon
    <3> QED
      BY <2>2, <3>2, <3>3
  <2>4. decoys' \in [Decoys -> Decoy] /\ cache' \in CacheType /\ queue' \subseteq Decoys
    <3>1. [decoys[w.key] EXCEPT !.fin = FALSE] \in Decoy
      BY <1>0, <2>1, DecoyType, Zenon
    <3>2. \/ UNCHANGED <<decoys, cache, queue>>
          \/ WriteDecoy(w.key, [decoys[w.key] EXCEPT !.fin = FALSE], {})
      BY <1>8, Zenon, Zenon DEF RemoveFinalizer
    <3> QED
      BY <1>0, <2>1, <3>1, <3>2, WriteType
  <2> QED
    BY <1>0, <1>8, <2>1, <2>3, <2>4 DEF RemoveFinalizer, TypeOK
<1>9. CASE ReleaseDecoy \/ UpdateStatus
  <2>1. w.key \in Decoys
    BY <1>0, <1>9 DEF ReleaseDecoy, UpdateStatus
  <2>2. PICK o \in Decoy : WriteDecoy(w.key, o, {})
    <3>1. Absent \in Decoy /\ [decoys[w.key] EXCEPT !.joined = w.joined, !.phase = "Reconciled"] \in Decoy
      BY <1>0, <1>w, <2>1, DecoyType, Zenon
    <3> QED
      BY <1>9, <3>1, Zenon DEF ReleaseDecoy, UpdateStatus
  <2>3. decoys' \in [Decoys -> Decoy] /\ cache' \in CacheType /\ queue' \subseteq Decoys
    BY <2>1, <2>2, WriteType
  <2> QED
    BY <1>0, <1>9, <1>i, <2>3 DEF ReleaseDecoy, UpdateStatus, TypeOK
<1>10. CASE CallFails
  <2>1. w' = [w EXCEPT !.pc = "failed"] /\ "failed" \in PCs /\ w.pc # "idle" /\ env' \in Nat
    BY <1>0, <1>10 DEF CallFails, Goto, PCs, Spend
  <2>2. w' \in WorkerType /\ w'.key = w.key
    BY <1>g, <2>1
  <2> QED
    BY <1>0, <1>10, <2>1, <2>2 DEF CallFails, TypeOK
<1>11. CASE MarkFailed
  <2>1. w.key \in Decoys
    BY <1>0, <1>11 DEF MarkFailed
  <2>2. [decoys[w.key] EXCEPT !.phase = "Failed"] \in Decoy
    BY <1>0, <2>1, DecoyType, Zenon
  <2>3. \/ WriteDecoy(w.key, [decoys[w.key] EXCEPT !.phase = "Failed"], {w.key})
        \/ queue' = queue \cup {w.key} /\ UNCHANGED <<decoys, cache>>
    BY <1>11, Zenon, Zenon DEF MarkFailed
  <2>4. decoys' \in [Decoys -> Decoy] /\ cache' \in CacheType /\ queue' \subseteq Decoys
    BY <1>0, <2>1, <2>2, <2>3, WriteType
  <2> QED
    BY <1>0, <1>11, <1>i, <2>4 DEF MarkFailed, TypeOK
<1>12. CASE SyncDecoys \/ SyncSecrets \/ Resync
  <2>1. cache' \in CacheType
    <3>1. CASE cache' = cache
      BY <1>0, <3>1
    <3>2. CASE cache' = [cache EXCEPT !.decoys = decoys, !.outdated = {}]
      BY <1>0, <3>2, Zenon DEF CacheType
    <3>3. CASE cache' = [cache EXCEPT !.mirrors = mirrors]
      BY <1>0, <3>3 DEF CacheType
    <3> QED
      BY <1>12, <3>1, <3>2, <3>3 DEF SyncDecoys, SyncSecrets, Resync
  <2>2. queue' \subseteq Decoys
    BY <1>0, <1>w, <1>12 DEF SyncDecoys, SyncSecrets, Resync, Existing
  <2> QED
    BY <1>0, <1>12, <2>1, <2>2 DEF SyncDecoys, SyncSecrets, Resync, TypeOK
<1>13. CASE SyncPods
  <2>1. cache' \in CacheType
    BY <1>0, <1>13, CacheChange, Zenon DEF SyncPods
  <2>2. \A p \in Pods : mapJoinedPodToDecoy(p, cache.pods[p], pods[p]) \subseteq Decoys
    <3>1. \A p \in Pods : cache.pods[p] \in Annotations /\ pods[p] \in Annotations
      BY <1>0 DEF CacheType
    <3> QED
      BY <3>1, WriteType
  <2>3. queue' \subseteq Decoys
    BY <1>0, <1>13, <2>2 DEF SyncPods
  <2> QED
    BY <1>0, <1>13, <2>1, <2>3 DEF SyncPods, TypeOK
\* Outdate touches one field of the worker.
<1>o. ASSUME NEW d \in Decoys, Outdate(d)
      PROVE  w' \in WorkerType /\ w'.key = w.key /\ w'.pc = w.pc
  <2>1. w' = [w EXCEPT !.current = w.current /\ w.key # d]
    BY <1>o DEF Outdate
  <2>2. (w.current /\ w.key # d) \in BOOLEAN
    OBVIOUS
  <2> QED
    BY <1>x, <2>1, <2>2, Zenon DEF WorkerType
<1>14. ASSUME NEW d \in Decoys, CreateDecoy(d) \/ DeleteDecoy(d) PROVE TypeOK'
  <2>1. PICK o \in Decoy : WriteDecoy(d, o, {})
    <3>1. /\ [Absent EXCEPT !.st = "live"] \in Decoy /\ Absent \in Decoy
          /\ [decoys[d] EXCEPT !.st = "deleting"] \in Decoy
      BY <1>0, DecoyType, Zenon
    <3> QED
      BY <1>14, <3>1, Zenon, Zenon DEF CreateDecoy, DeleteDecoy
  <2>2. decoys' \in [Decoys -> Decoy] /\ cache' \in CacheType /\ queue' \subseteq Decoys
    BY <2>1, WriteType
  <2>3. w' \in WorkerType /\ w'.key = w.key /\ w'.pc = w.pc
    BY <1>14, <1>o DEF CreateDecoy, DeleteDecoy
  <2>4. env' \in Nat
    BY <1>0, <1>14 DEF CreateDecoy, DeleteDecoy, Spend
  <2> QED
    BY <1>0, <1>14, <2>2, <2>3, <2>4 DEF CreateDecoy, DeleteDecoy, TypeOK
<1>15. ASSUME NEW d \in Decoys, TouchDecoy(d) PROVE TypeOK'
  <2>1. cache' \in CacheType
    <3>1. CASE cache' = [cache EXCEPT !.outdated = @ \cup {d}]
      BY <1>0, <3>1 DEF CacheType
    <3> QED
      BY <1>0, <1>15, <3>1 DEF TouchDecoy
  <2>2. w' \in WorkerType /\ w'.key = w.key /\ w'.pc = w.pc
    BY <1>15, <1>o DEF TouchDecoy
  <2> QED
    BY <1>0, <1>15, <2>1, <2>2 DEF TouchDecoy, Spend, TypeOK
<1>16. ASSUME NEW p \in Pods, NEW v \in Annotations, AnnotatePod(p, v) PROVE TypeOK'
  <2>1. pods' \in [Pods -> Annotations] /\ cache' \in CacheType /\ queue' \subseteq Decoys
    BY <1>16, WriteType DEF AnnotatePod
  <2> QED
    BY <1>0, <1>16, <2>1 DEF AnnotatePod, Spend, TypeOK
<1>17. ASSUME NEW ns \in Namespaces, TerminateNamespace(ns) PROVE TypeOK'
  BY <1>0, <1>17 DEF TerminateNamespace, Spend, TypeOK
<1>18. ASSUME NEW ns \in Namespaces, NamespaceGone(ns) PROVE TypeOK'
  <2>1. mirrors' \in [MirrorKeys -> Decoys \cup {NoDecoy}]
    BY <1>0, <1>18 DEF NamespaceGone
  <2>2. cache' = cache \/ cache' = [cache EXCEPT !.mirrors = mirrors']
    BY <1>18 DEF NamespaceGone
  <2>3. cache' \in CacheType
    BY <1>0, <2>1, <2>2 DEF CacheType
  <2> QED
    BY <1>0, <1>18, <2>1, <2>3 DEF NamespaceGone, TypeOK
<1>19. CASE Restart
  <2>1. cache' \in CacheType
    BY <1>0, <1>19 DEF Restart, CacheType
  <2>2. \A p \in Pods : resolveJoinAnnotation(Existing(decoys), PodNs[p], pods[p]) \subseteq Decoys
    BY <1>0, ResolveType DEF Existing
  <2>3. queue' \subseteq Decoys
    <3>1. queue' = Existing(decoys) \cup UNION {resolveJoinAnnotation(Existing(decoys), PodNs[p], pods[p]) : p \in Pods}
      BY <1>19 DEF Restart
    <3>2. Existing(decoys) \subseteq Decoys
      BY DEF Existing
    <3> QED
      BY <2>2, <3>1, <3>2
  <2>4. env' \in Nat
    BY <1>0, <1>19 DEF Restart, Spend
  <2> QED
    BY <1>0, <1>19, <1>i, <2>1, <2>3, <2>4 DEF Restart, TypeOK
<1>20. CASE UNCHANGED vars
  BY <1>0, <1>20 DEF vars, TypeOK
<1> QED
  BY <1>1, <1>2, <1>3, <1>4, <1>5, <1>6, <1>7, <1>8, <1>9, <1>10, <1>11, <1>12, <1>13,
     <1>14, <1>15, <1>16, <1>17, <1>18, <1>19, <1>20
     DEF Next, Step, Sync, Environment

\* The reconciler and its environment keep the shape of the API objects, the
\* caches, the queue and the worker, for any number of Decoys, Pods and
\* namespaces and whichever caches lag.
THEOREM CtlTypeCorrect == Spec => []TypeOK
  BY CtlTypeInit, CtlTypeStep, PTL DEF Spec

-----------------------------------------------------------------------------
(* No mirror without a finalizer *)

\* Only the cache of Pods may lag.
FreshReads == "decoys" \notin Lag /\ "secrets" \notin Lag

\* Then the reconciler reads Decoys and mirrors as they are.
FreshCaches == cache.decoys = decoys /\ cache.outdated = {} /\ cache.mirrors = mirrors

\* Only a Decoy that exists has a finalizer.
FinPresent == \A d \in Decoys : decoys[d].fin => decoys[d].st # "absent"

\* The finalizer of the worker's copy is on the Decoy, and it is there before
\* the first mirror.
CopyFin ==
    /\ w.pc # "idle" /\ w.kt.fin => decoys[w.key].fin
    /\ w.pc = "mirror" => w.kt.fin

\* Where the worker is about to take the finalizer off, the mirrors left are
\* the ones it has still to delete.
CleanupKnown ==
    (w.pc = "pruning" /\ Needed(w.key, w.joined) = {}) \/ w.pc = "cleaning" =>
        \A m \in MirrorKeys : mirrors[m] = w.key => m \in w.stale

GuardInv == FreshCaches /\ FinPresent /\ CopyFin /\ CleanupKnown /\ MirrorGuarded

\* The initial state has no mirrors and a worker at rest.
LEMMA GuardInit == Init => GuardInv
<1> SUFFICES ASSUME Init PROVE GuardInv
  OBVIOUS
<1>1. FreshCaches
  BY DEF Init, FreshCaches
<1>2. FinPresent
  BY Zenon DEF Init, FinPresent, Absent
<1>3. CopyFin /\ CleanupKnown
  BY DEF Init, CopyFin, CleanupKnown, WorkerIdle
<1>4. MirrorGuarded
  BY DEF Init, MirrorGuarded
<1> QED
  BY <1>1, <1>2, <1>3, <1>4 DEF GuardInv

\* A write of a Decoy or a mirror is in the cache at once.
LEMMA FreshWrite ==
    ASSUME TypeOK, FreshReads, FreshCaches
    PROVE  /\ \A d \in Decoys, o \in Decoy : \A q : WriteDecoy(d, o, q) =>
                decoys' = [decoys EXCEPT ![d] = o] /\ (mirrors' = mirrors => FreshCaches')
           /\ \A m \in MirrorKeys : \A o : WriteMirror(m, o) =>
                mirrors' = [mirrors EXCEPT ![m] = o] /\ (decoys' = decoys => FreshCaches')
<1>0. cache \in CacheType /\ decoys \in [Decoys -> Decoy]
  BY DEF TypeOK
<1>1. ASSUME NEW d \in Decoys, NEW o \in Decoy, NEW q, WriteDecoy(d, o, q)
      PROVE  decoys' = [decoys EXCEPT ![d] = o] /\ (mirrors' = mirrors => FreshCaches')
  <2>1. decoys' = [decoys EXCEPT ![d] = o]
    BY <1>1 DEF WriteDecoy
  <2>2. CASE o = decoys[d]
    <3>1. decoys' = decoys /\ cache' = cache
      BY <1>0, <1>1, <2>1, <2>2 DEF WriteDecoy
    <3> QED
      BY <2>1, <3>1 DEF FreshCaches
  <2>3. CASE o # decoys[d]
    <3>1. cache' = [cache EXCEPT !.decoys[d] = o]
      BY <1>1, <2>3 DEF WriteDecoy, FreshReads
    <3>2. /\ cache'.decoys = [cache.decoys EXCEPT ![d] = o]
          /\ cache'.outdated = cache.outdated /\ cache'.mirrors = cache.mirrors
      BY <1>0, <3>1 DEF CacheType
    <3> QED
      BY <2>1, <3>2 DEF FreshCaches
  <2> QED
    BY <2>2, <2>3
<1>2. ASSUME NEW m \in MirrorKeys, NEW o, WriteMirror(m, o)
      PROVE  mirrors' = [mirrors EXCEPT ![m] = o] /\ (decoys' = decoys => FreshCaches')
  <2>1. mirrors' = [mirrors EXCEPT ![m] = o] /\ cache' = [cache EXCEPT !.mirrors[m] = o]
    BY <1>2 DEF WriteMirror, FreshReads
  <2>2. /\ cache'.mirrors = [cache.mirrors EXCEPT ![m] = o]
        /\ cache'.outdated = cache.outdated /\ cache'.decoys = cache.decoys
    BY <1>0, <2>1 DEF CacheType
  <2> QED
    BY <2>1, <2>2 DEF FreshCaches
<1> QED
  BY <1>1, <1>2

\* A worker at rest has nothing to keep.
LEMMA IdleKeeps ==
    ASSUME w' = WorkerIdle
    PROVE  CopyFin' /\ CleanupKnown'
<1>1. w'.pc = "idle"
  BY DEF WorkerIdle
<1> QED
  BY <1>1 DEF CopyFin, CleanupKnown

\* A step that leaves the mirrors alone, and every Decoy its existence and its
\* finalizer, keeps what is about them.
LEMMA DecoysKept ==
    ASSUME TypeOK, FinPresent, MirrorGuarded, mirrors' = mirrors,
           \A d \in Decoys : /\ decoys'[d].fin = decoys[d].fin
                             /\ decoys[d].st # "absent" => decoys'[d].st # "absent"
    PROVE  FinPresent' /\ MirrorGuarded'
<1>1. FinPresent'
  BY DEF FinPresent
<1>2. MirrorGuarded'
  BY DEF MirrorGuarded, TypeOK
<1> QED
  BY <1>1, <1>2

\* Every step keeps the guard, if only the cache of Pods lags.
LEMMA GuardStep ==
    ASSUME FreshReads, TypeOK, GuardInv, [Next]_vars
    PROVE  GuardInv'
<1>0. /\ decoys \in [Decoys -> Decoy] /\ mirrors \in [MirrorKeys -> Decoys \cup {NoDecoy}]
      /\ w.pc # "idle" => w.key \in Decoys
  BY DEF TypeOK
<1>w. w \in WorkerType
  BY DEF TypeOK
<1>v. FreshCaches /\ FinPresent /\ CopyFin /\ CleanupKnown /\ MirrorGuarded
  BY DEF GuardInv
<1>d. NoDecoy \notin Decoys
  BY ControllerAssumption
\* The worker's own moves that write nothing.
<1>m. ASSUME UNCHANGED <<decoys, mirrors, cache>> PROVE FreshCaches' /\ FinPresent' /\ MirrorGuarded'
  BY <1>v, <1>m DEF FreshCaches, FinPresent, MirrorGuarded
<1>1. ASSUME NEW d \in Decoys, Start(d) PROVE GuardInv'
  <2>1. UNCHANGED <<decoys, mirrors, cache>>
    BY <1>1 DEF Start
  <2>2. CopyFin' /\ CleanupKnown'
    <3>1. CASE w' = WorkerIdle
      BY <3>1, IdleKeeps
    <3>2. CASE w' = Begin(d, cache.decoys[d])
      <4>1. w'.pc \in {"cleanup", "own"} /\ w'.key = d /\ w'.kt = decoys[d]
        BY <1>v, <3>2 DEF Begin, WorkerIdle, FreshCaches
      <4> QED
        BY <2>1, <4>1 DEF CopyFin, CleanupKnown
    <3> QED
      BY <1>1, <3>1, <3>2 DEF Start
  <2> QED
    BY <1>m, <2>1, <2>2 DEF GuardInv
<1>2. CASE OwnObjects \/ MirrorsApplied \/ RestObjects
  <2>1. UNCHANGED <<decoys, mirrors, cache>> /\ w.pc # "idle"
    BY <1>2 DEF OwnObjects, MirrorsApplied, RestObjects
  <2>2. w'.pc \in {"list", "prune", "status"} /\ w'.key = w.key /\ w'.kt = w.kt
    BY <1>w, <1>2 DEF OwnObjects, MirrorsApplied, RestObjects, Goto, WorkerType
  <2>3. CopyFin' /\ CleanupKnown'
    BY <1>v, <2>1, <2>2 DEF CopyFin, CleanupKnown
  <2> QED
    BY <1>m, <2>1, <2>3 DEF GuardInv
<1>3. CASE ListJoined
  <2>1. UNCHANGED <<decoys, mirrors, cache>> /\ w.pc # "idle"
    BY <1>3 DEF ListJoined
  <2>2. w'.pc \in {"addfin", "prune"} /\ w'.key = w.key /\ w'.kt = w.kt
    BY <1>w, <1>3 DEF ListJoined, WorkerType
  <2>3. CopyFin' /\ CleanupKnown'
    BY <1>v, <2>1, <2>2 DEF CopyFin, CleanupKnown
  <2> QED
    BY <1>m, <2>1, <2>3 DEF GuardInv
<1>4. CASE AddFinalizer
  <2>1. w' = [w EXCEPT !.pc = "mirror", !.kt.fin = TRUE] /\ w.pc = "addfin" /\ mirrors' = mirrors
    BY <1>4 DEF AddFinalizer
  <2>2. w'.pc = "mirror" /\ w'.kt.fin = TRUE /\ w'.key = w.key /\ w.key \in Decoys
    <3>1. "mirror" \in PCs
      BY DEF PCs
    <3>2. w'.pc = "mirror" /\ w'.kt.fin = TRUE /\ w'.key = w.key
      BY <1>w, <2>1, <3>1, WorkerFin, ZenonT(30)
    <3> QED
      BY <1>0, <2>1, <3>2
  <2>3. CleanupKnown'
    BY <2>2 DEF CleanupKnown
  <2>4. CASE w.kt.fin
    <3>1. UNCHANGED <<decoys, mirrors, cache>> /\ decoys[w.key].fin
      BY <1>v, <1>4, <2>1, <2>4 DEF AddFinalizer, CopyFin
    <3>2. CopyFin'
      BY <2>2, <3>1 DEF CopyFin
    <3> QED
      BY <1>m, <2>3, <3>1, <3>2 DEF GuardInv
  <2>5. CASE ~w.kt.fin
    <3> DEFINE o == [decoys[w.key] EXCEPT !.fin = TRUE]
    <3>1. WriteDecoy(w.key, o, {}) /\ decoys[w.key].st # "absent" /\ o \in Decoy
      BY <1>0, <1>4, <2>2, <2>5, DecoyType, Zenon DEF AddFinalizer, Current
    <3>2. o.fin = TRUE /\ o.st # "absent"
      BY <1>0, <2>2, <3>1, Zenon DEF Decoy
    <3> HIDE DEF o
    <3>3. decoys' = [decoys EXCEPT ![w.key] = o] /\ FreshCaches'
      BY <1>v, <2>1, <2>2, <3>1, FreshWrite
    <3>4. FinPresent' /\ CopyFin'
      BY <1>0, <1>v, <2>2, <3>2, <3>3 DEF FinPresent, CopyFin
    <3>5. MirrorGuarded'
      BY <1>0, <1>v, <2>1, <2>2, <3>2, <3>3 DEF MirrorGuarded
    <3> QED
      BY <2>3, <3>3, <3>4, <3>5 DEF GuardInv
  <2> QED
    BY <2>4, <2>5
<1>5. ASSUME NEW ns \in Namespaces, ApplyMirror(ns) PROVE GuardInv'
  <2> DEFINE m == mirroredSecretName(w.key, ns)
  <2>1. w.pc = "mirror" /\ w.key \in Decoys /\ decoys' = decoys
    BY <1>0, <1>5 DEF ApplyMirror
  <2>2. w'.pc = "mirror" /\ w'.key = w.key /\ w'.kt = w.kt
    BY <1>w, <1>5 DEF ApplyMirror, WorkerType
  <2>3. m \in MirrorKeys
    BY <2>1 DEF mirroredSecretName, MirrorKeys
  <2>4. decoys[w.key].fin /\ decoys[w.key].st # "absent"
    BY <1>v, <2>1 DEF CopyFin, FinPresent
  <2>5. CopyFin' /\ CleanupKnown' /\ FinPresent'
    BY <1>v, <2>1, <2>2 DEF CopyFin, CleanupKnown, FinPresent
  <2>6. CASE UNCHANGED <<mirrors, cache>>
    BY <1>m, <2>1, <2>5, <2>6 DEF GuardInv
  <2>7. CASE WriteMirror(m, w.key)
    <3>1. mirrors' = [mirrors EXCEPT ![m] = w.key] /\ FreshCaches'
      BY <1>v, <2>1, <2>3, <2>7, FreshWrite
    <3> HIDE DEF m
    <3>2. MirrorGuarded'
      BY <1>0, <1>v, <2>1, <2>3, <2>4, <3>1 DEF MirrorGuarded
    <3> QED
      BY <2>5, <3>1, <3>2 DEF GuardInv
  <2> QED
    BY <1>5, <2>6, <2>7 DEF ApplyMirror
<1>6. CASE ListMirrors
  <2> DEFINE keep == IF w.pc = "prune" THEN Needed(w.key, w.joined) ELSE {}
  <2>1. UNCHANGED <<decoys, mirrors, cache>> /\ w.pc \in {"prune", "cleanup"}
    BY <1>6 DEF ListMirrors
  <2>2. /\ w'.pc = IF w.pc = "prune" THEN "pruning" ELSE "cleaning"
        /\ w'.key = w.key /\ w'.kt = w.kt /\ w'.joined = w.joined
        /\ w'.stale = MirrorsToDelete(w.key, keep)
    BY <1>w, <1>6 DEF ListMirrors, WorkerType
  <2>3. CopyFin'
    BY <1>v, <2>1, <2>2 DEF CopyFin
  <2>4. CleanupKnown'
    <3>1. SUFFICES ASSUME (w'.pc = "pruning" /\ Needed(w.key, w.joined) = {}) \/ w'.pc = "cleaning",
                          NEW m \in MirrorKeys, mirrors[m] = w.key
                   PROVE  m \in w'.stale
      BY <2>1, <2>2 DEF CleanupKnown, Needed
    <3>2. keep = {}
      BY <2>1, <2>2, <3>1
    <3>3. cache.mirrors[m] = w.key
      BY <1>v, <3>1 DEF FreshCaches
    <3> QED
      BY <2>2, <3>2, <3>3 DEF MirrorsToDelete
  <2> QED
    BY <1>m, <2>1, <2>3, <2>4 DEF GuardInv
<1>7. ASSUME NEW m \in MirrorKeys, DeleteMirror(m) PROVE GuardInv'
  <2>1. w.pc \in {"pruning", "cleaning"} /\ decoys' = decoys /\ WriteMirror(m, NoDecoy)
    BY <1>7 DEF DeleteMirror
  <2>2. /\ w'.pc = w.pc /\ w'.key = w.key /\ w'.kt = w.kt /\ w'.joined = w.joined
        /\ w'.stale = w.stale \ {m}
    BY <1>w, <1>7 DEF DeleteMirror, WorkerType
  <2>3. mirrors' = [mirrors EXCEPT ![m] = NoDecoy] /\ FreshCaches'
    BY <1>v, <2>1, FreshWrite
  <2>4. CopyFin' /\ FinPresent'
    BY <1>v, <2>1, <2>2 DEF CopyFin, FinPresent
  <2>5. \A k \in MirrorKeys : mirrors'[k] # NoDecoy => k # m /\ mirrors'[k] = mirrors[k]
    BY <1>0, <2>3
  <2>6. MirrorGuarded'
    BY <1>v, <2>1, <2>5 DEF MirrorGuarded
  <2>7. CleanupKnown'
    <3>1. w.key # NoDecoy
      BY <1>0, <1>d, <2>1
    <3> QED
      BY <1>v, <2>2, <2>5, <3>1 DEF CleanupKnown, Needed
  <2> QED
    BY <2>3, <2>4, <2>6, <2>7 DEF GuardInv
<1>8. CASE RemoveFinalizer
  <2>1. w.pc = "pruning" /\ w.stale = {} /\ w.key \in Decoys /\ mirrors' = mirrors
    BY <1>0, <1>8 DEF RemoveFinalizer
  <2>2. CASE Needed(w.key, w.joined) = {} /\ w.kt.fin
    <3> DEFINE o == [decoys[w.key] EXCEPT !.fin = FALSE]
    <3>1. /\ w' = [w EXCEPT !.pc = "rest", !.kt.fin = FALSE] /\ WriteDecoy(w.key, o, {})
          /\ o \in Decoy
      BY <1>0, <1>8, <2>1, <2>2, DecoyType, Zenon DEF RemoveFinalizer
    <3>2. w'.pc = "rest" /\ ~w'.kt.fin
      <4>1. w'.pc = "rest" /\ w'.kt = [w.kt EXCEPT !.fin = FALSE] /\ w.kt \in Decoy
        BY <1>w, <3>1 DEF WorkerType
      <4>2. ~w'.kt.fin
        BY <4>1, Zenon DEF Decoy
      <4> QED
        BY <4>1, <4>2
    <3>3. o.fin = FALSE
      BY <1>0, <2>1, <3>1, Zenon DEF Decoy
    <3> HIDE DEF o
    <3>4. decoys' = [decoys EXCEPT ![w.key] = o] /\ FreshCaches'
      BY <1>v, <2>1, <3>1, FreshWrite
    <3>5. CopyFin' /\ CleanupKnown'
      BY <3>2 DEF CopyFin, CleanupKnown
    <3>6. FinPresent'
      BY <1>0, <1>v, <2>1, <3>3, <3>4 DEF FinPresent
    <3>7. \A m \in MirrorKeys : mirrors[m] # w.key
      BY <1>v, <2>1, <2>2 DEF CleanupKnown
    <3>8. MirrorGuarded'
      BY <1>0, <1>v, <2>1, <3>4, <3>7 DEF MirrorGuarded
    <3> QED
      BY <3>4, <3>5, <3>6, <3>8 DEF GuardInv
  <2>3. CASE ~(Needed(w.key, w.joined) = {} /\ w.kt.fin)
    <3>1. UNCHANGED <<decoys, mirrors, cache>> /\ w' = [w EXCEPT !.pc = "rest"]
      BY <1>8, <2>1, <2>3 DEF RemoveFinalizer, Goto
    <3>2. w'.pc = "rest" /\ w'.key = w.key /\ w'.kt = w.kt
      BY <1>w, <3>1 DEF WorkerType
    <3>3. CopyFin' /\ CleanupKnown'
      BY <1>v, <2>1, <3>1, <3>2 DEF CopyFin, CleanupKnown
    <3> QED
      BY <1>m, <3>1, <3>3 DEF GuardInv
  <2> QED
    BY <2>2, <2>3
<1>9. CASE ReleaseDecoy
  <2>1. w.pc = "cleaning" /\ w.stale = {} /\ w.key \in Decoys /\ mirrors' = mirrors
    BY <1>0, <1>9 DEF ReleaseDecoy
  <2>2. decoys' = [decoys EXCEPT ![w.key] = Absent] /\ FreshCaches'
    BY <1>v, <1>9, <2>1, FreshWrite, DecoyType, Zenon DEF ReleaseDecoy
  <2>3. FinPresent'
    BY <1>0, <1>v, <2>1, <2>2, Zenon DEF FinPresent, Absent
  <2>4. \A m \in MirrorKeys : mirrors[m] # w.key
    BY <1>v, <2>1 DEF CleanupKnown
  <2>5. MirrorGuarded'
    BY <1>0, <1>v, <2>1, <2>2, <2>4 DEF MirrorGuarded
  <2> QED
    BY <1>9, <2>2, <2>3, <2>5, IdleKeeps DEF ReleaseDecoy, GuardInv
<1>10. CASE UpdateStatus \/ MarkFailed
  <2>1. w.key \in Decoys /\ w' = WorkerIdle /\ mirrors' = mirrors
    BY <1>0, <1>10 DEF UpdateStatus, MarkFailed
  <2>2. CASE UNCHANGED <<decoys, cache>>
    BY <1>m, <2>1, <2>2, IdleKeeps DEF GuardInv
  <2>3. ASSUME NEW o \in Decoy, NEW q, WriteDecoy(w.key, o, q),
               o.fin = decoys[w.key].fin, o.st = decoys[w.key].st
        PROVE  GuardInv'
    <3>1. decoys' = [decoys EXCEPT ![w.key] = o] /\ FreshCaches'
      BY <1>v, <2>1, <2>3, FreshWrite
    <3>2. \A d \in Decoys : decoys'[d].fin = decoys[d].fin /\ decoys'[d].st = decoys[d].st
      BY <1>0, <2>1, <2>3, <3>1
    <3>3. FinPresent' /\ MirrorGuarded'
      BY <1>v, <2>1, <3>2, DecoysKept
    <3> QED
      BY <2>1, <3>1, <3>3, IdleKeeps DEF GuardInv
  <2>4. LET o == [decoys[w.key] EXCEPT !.joined = w.joined, !.phase = "Reconciled"]
            f == [decoys[w.key] EXCEPT !.phase = "Failed"]
        IN  /\ o \in Decoy /\ o.fin = decoys[w.key].fin /\ o.st = decoys[w.key].st
            /\ f \in Decoy /\ f.fin = decoys[w.key].fin /\ f.st = decoys[w.key].st
    BY <1>0, <1>w, <2>1, Zenon DEF Decoy, WorkerType
  <2>5. \/ UNCHANGED <<decoys, cache>>
        \/ WriteDecoy(w.key, [decoys[w.key] EXCEPT !.joined = w.joined, !.phase = "Reconciled"], {})
        \/ WriteDecoy(w.key, [decoys[w.key] EXCEPT !.phase = "Failed"], {w.key})
    BY <1>10, Zenon, Zenon DEF UpdateStatus, MarkFailed
  <2> QED
    BY <2>2, <2>3, <2>4, <2>5, Zenon
<1>11. CASE CallFails
  <2>1. UNCHANGED <<decoys, mirrors, cache>> /\ w.pc # "idle"
    BY <1>11 DEF CallFails
  <2>2. w'.pc = "failed" /\ w'.key = w.key /\ w'.kt = w.kt
    BY <1>w, <1>11 DEF CallFails, Goto, WorkerType
  <2>3. CopyFin' /\ CleanupKnown'
    BY <1>v, <2>1, <2>2 DEF CopyFin, CleanupKnown
  <2> QED
    BY <1>m, <2>1, <2>3 DEF GuardInv
\* What the worker knows of the Decoys and the mirrors survives a step that
\* leaves it alone, creates no mirror and takes no finalizer away.
<1>k. ASSUME w'.pc = w.pc, w'.key = w.key, w'.kt = w.kt, w'.joined = w.joined, w'.stale = w.stale,
             \A d \in Decoys : decoys[d].fin => decoys'[d].fin,
             \A m \in MirrorKeys : mirrors'[m] \in {mirrors[m], NoDecoy}
      PROVE  CopyFin' /\ CleanupKnown'
  <2>1. CopyFin'
    BY <1>0, <1>v, <1>k DEF CopyFin
  <2>2. CleanupKnown'
    BY <1>0, <1>d, <1>v, <1>k DEF CleanupKnown, Needed
  <2> QED
    BY <2>1, <2>2
<1>12. CASE SyncDecoys \/ SyncSecrets
  BY <1>v, <1>12 DEF SyncDecoys, SyncSecrets, FreshCaches
<1>13. CASE SyncPods
  <2>1. UNCHANGED <<decoys, mirrors, w>> /\ cache' = [cache EXCEPT !.pods = pods]
    BY <1>13 DEF SyncPods
  <2>2. cache'.decoys = cache.decoys /\ cache'.outdated = cache.outdated /\ cache'.mirrors = cache.mirrors
    BY <2>1 DEF TypeOK, CacheType
  <2>3. FreshCaches'
    BY <1>v, <2>1, <2>2 DEF FreshCaches
  <2> QED
    BY <1>v, <2>1, <2>3 DEF FinPresent, CopyFin, CleanupKnown, MirrorGuarded, Needed, GuardInv
<1>14. CASE Resync \/ UNCHANGED vars \/ \E ns \in Namespaces : TerminateNamespace(ns)
  <2>1. UNCHANGED <<decoys, mirrors, cache, w>>
    BY <1>14 DEF Resync, vars, TerminateNamespace
  <2> QED
    BY <1>v, <2>1 DEF FreshCaches, FinPresent, CopyFin, CleanupKnown, MirrorGuarded, Needed, GuardInv
<1>15. ASSUME NEW d \in Decoys, Outdate(d)
       PROVE  /\ w'.pc = w.pc /\ w'.key = w.key /\ w'.kt = w.kt /\ w'.joined = w.joined
              /\ w'.stale = w.stale
  BY <1>w, <1>15 DEF Outdate, WorkerType
<1>16. ASSUME NEW d \in Decoys, CreateDecoy(d) PROVE GuardInv'
  <2> DEFINE o == [Absent EXCEPT !.st = "live"]
  <2>1. mirrors' = mirrors /\ Outdate(d) /\ WriteDecoy(d, o, {}) /\ o \in Decoy /\ decoys[d].st = "absent"
    BY <1>16, DecoyType, Zenon DEF CreateDecoy
  <2>2. o.fin = FALSE
    BY DEF Absent
  <2> HIDE DEF o
  <2>3. decoys' = [decoys EXCEPT ![d] = o] /\ FreshCaches'
    BY <1>v, <2>1, FreshWrite
  <2>4. ~decoys[d].fin
    BY <1>v, <2>1 DEF FinPresent
  <2>5. FinPresent'
    BY <1>0, <1>v, <2>2, <2>3 DEF FinPresent
  <2>6. MirrorGuarded'
    BY <1>0, <1>v, <2>1, <2>3, <2>4 DEF MirrorGuarded
  <2>7. CopyFin' /\ CleanupKnown'
    <3>1. \A e \in Decoys : decoys[e].fin => decoys'[e].fin
      BY <1>0, <2>3, <2>4
    <3> QED
      BY <1>15, <1>k, <2>1, <3>1
  <2> QED
    BY <2>3, <2>5, <2>6, <2>7 DEF GuardInv
<1>17. ASSUME NEW d \in Decoys, DeleteDecoy(d) PROVE GuardInv'
  <2> DEFINE o == IF decoys[d].fin THEN [decoys[d] EXCEPT !.st = "deleting"] ELSE Absent
  <2>1. mirrors' = mirrors /\ Outdate(d) /\ WriteDecoy(d, o, {})
    BY <1>17 DEF DeleteDecoy
  <2>2. o \in Decoy
    BY <1>0, DecoyType, Zenon
  <2>3. o.fin = decoys[d].fin /\ (o.fin => o.st # "absent")
    BY <1>0, Zenon DEF Decoy, Absent
  <2> HIDE DEF o
  <2>4. decoys' = [decoys EXCEPT ![d] = o] /\ FreshCaches'
    BY <1>v, <2>1, <2>2, FreshWrite
  <2>5. FinPresent'
    BY <1>0, <1>v, <2>3, <2>4 DEF FinPresent
  <2>6. MirrorGuarded'
    BY <1>0, <1>v, <2>1, <2>3, <2>4 DEF MirrorGuarded
  <2>7. CopyFin' /\ CleanupKnown'
    <3>1. \A e \in Decoys : decoys[e].fin => decoys'[e].fin
      BY <1>0, <2>3, <2>4
    <3> QED
      BY <1>15, <1>k, <2>1, <3>1
  <2> QED
    BY <2>4, <2>5, <2>6, <2>7 DEF GuardInv
<1>18. ASSUME NEW d \in Decoys, TouchDecoy(d) PROVE GuardInv'
  <2>1. UNCHANGED <<decoys, mirrors, cache>> /\ Outdate(d)
    BY <1>18 DEF TouchDecoy, FreshReads
  <2>2. CopyFin' /\ CleanupKnown'
    BY <1>15, <1>k, <2>1
  <2> QED
    BY <1>m, <2>1, <2>2 DEF GuardInv
<1>19. ASSUME NEW p \in Pods, NEW v \in Annotations, AnnotatePod(p, v) PROVE GuardInv'
  <2>1. UNCHANGED <<decoys, mirrors, w>> /\ (cache' = cache \/ cache' = [cache EXCEPT !.pods[p] = v])
    BY <1>19 DEF AnnotatePod, WritePod
  <2>2. cache'.decoys = cache.decoys /\ cache'.outdated = cache.outdated /\ cache'.mirrors = cache.mirrors
    BY <2>1 DEF TypeOK, CacheType
  <2>3. FreshCaches'
    BY <1>v, <2>1, <2>2 DEF FreshCaches
  <2> QED
    BY <1>v, <2>1, <2>3 DEF FinPresent, CopyFin, CleanupKnown, MirrorGuarded, Needed, GuardInv
<1>20. ASSUME NEW ns \in Namespaces, NamespaceGone(ns) PROVE GuardInv'
  <2>1. /\ UNCHANGED <<decoys, w>> /\ cache' = [cache EXCEPT !.mirrors = mirrors']
        /\ mirrors' = [m \in MirrorKeys |-> IF m[1] = ns THEN NoDecoy ELSE mirrors[m]]
    BY <1>20 DEF NamespaceGone, FreshReads
  <2>2. FreshCaches'
    <3>1. /\ cache'.decoys = cache.decoys /\ cache'.outdated = cache.outdated
          /\ cache'.mirrors = mirrors'
      BY <2>1 DEF TypeOK, CacheType
    <3> QED
      BY <1>v, <2>1, <3>1 DEF FreshCaches
  <2>3. \A m \in MirrorKeys : mirrors'[m] \in {mirrors[m], NoDecoy}
    BY <2>1
  <2>4. CopyFin' /\ CleanupKnown'
    BY <1>k, <2>1, <2>3
  <2>5. FinPresent' /\ MirrorGuarded'
    BY <1>v, <2>1, <2>3 DEF FinPresent, MirrorGuarded
  <2> QED
    BY <2>2, <2>4, <2>5 DEF GuardInv
<1>21. CASE Restart
  <2>1. UNCHANGED <<decoys, mirrors>> /\ w' = WorkerIdle
    BY <1>21 DEF Restart
  <2>2. FreshCaches'
    BY <1>21, <2>1 DEF Restart, FreshCaches
  <2>3. FinPresent' /\ MirrorGuarded'
    BY <1>v, <2>1 DEF FinPresent, MirrorGuarded
  <2> QED
    BY <2>1, <2>2, <2>3, IdleKeeps DEF GuardInv
<1> QED
  BY <1>1, <1>2, <1>3, <1>4, <1>5, <1>6, <1>7, <1>8, <1>9, <1>10, <1>11, <1>12, <1>13,
     <1>14, <1>16, <1>17, <1>18, <1>19, <1>20, <1>21
     DEF Next, Step, Sync, Environment

\* With caches of Decoys and Secrets that keep up, no credentials mirror is
\* ever without a Decoy that exists and holds the finalizer, whatever users,
\* failures and restarts do between any two calls of the reconciler
\* (decoy_controller.go 211-220, 261-290).  The cache of Pods may lag.
THEOREM MirrorsGuarded == FreshReads => (Spec => []MirrorGuarded)
<1> SUFFICES ASSUME FreshReads PROVE Spec => []MirrorGuarded
  OBVIOUS
<1>1. Init => TypeOK /\ GuardInv
  BY CtlTypeInit, GuardInit
<1>2. TypeOK /\ GuardInv /\ [Next]_vars => TypeOK' /\ GuardInv'
  BY CtlTypeStep, GuardStep
<1>3. GuardInv => MirrorGuarded
  BY DEF GuardInv
<1> QED
  BY <1>1, <1>2, <1>3, PTL DEF Spec

\* The webhook, the Pod watch and the reconciler agree which Decoy a Pod
\* joins, in every state the system reaches (decoy_controller.go 369-409,
\* join_webhook.go 272-295).
THEOREM WebhookAlwaysAgrees == Spec => []WebhookAgrees
<1>1. TypeOK => WebhookAgrees
  <2> SUFFICES ASSUME TypeOK, NEW p \in Pods, NEW d \in Existing(decoys)
               PROVE  isJoined(Existing(decoys), d, PodNs[p], pods[p]) <=>
                        resolveJoinAnnotation(Existing(decoys), PodNs[p], pods[p]) = {d}
    BY DEF WebhookAgrees
  <2>1. Existing(decoys) \in SUBSET Decoys /\ pods[p] \in Annotations
    BY DEF Existing, TypeOK
  <2>2. PodNs[p] \in Namespaces
    BY ControllerAssumption
  <2> QED
    BY <2>1, <2>2, OneJoinRule
<1> QED
  BY <1>1, CtlTypeCorrect, PTL

-----------------------------------------------------------------------------
(* No Pod is shown as joined that was not announced, whichever caches lag *)

\* What the API server, the cache and the worker know of joined Pods has been
\* announced: a pass is silent about the Pods on its copy of the Decoy, so the
\* copies have to be announced too.
StoreTold ==
    \A d \in Decoys : decoys[d].joined \subseteq told[d] /\ cache.decoys[d].joined \subseteq told[d]
WorkerTold ==
    w.pc # "idle" => w.kt.joined \subseteq told[w.key] /\ w.joined \subseteq told[w.key]
ToldInv == StoreTold /\ WorkerTold

\* The worker goes on with what it knows of joined Pods, or rests.
WorkerGoesOn ==
    \/ w'.pc = "idle"
    \/ w.pc # "idle" /\ w'.key = w.key /\ w'.kt.joined = w.kt.joined /\ w'.joined = w.joined

\* At the start nobody has joined.
LEMMA ToldInit == Init => ToldInv
<1> SUFFICES ASSUME Init PROVE ToldInv
  OBVIOUS
<1>1. \A d \in Decoys : decoys[d] = Absent /\ cache.decoys = decoys
  BY DEF Init
<1>2. Absent.joined = {} /\ w.pc = "idle"
  BY Zenon DEF Init, Absent, WorkerIdle
<1> QED
  BY <1>1, <1>2 DEF ToldInv, StoreTold, WorkerTold

\* A write of a Decoy whose joined Pods were announced, seen or not by the cache.
LEMMA ToldWrite ==
    ASSUME TypeOK, StoreTold, told' = told, NEW d \in Decoys, NEW o \in Decoy, NEW q,
           o.joined \subseteq told[d], WriteDecoy(d, o, q)
    PROVE  StoreTold'
<1>0. cache \in CacheType /\ decoys \in [Decoys -> Decoy] /\ cache.decoys \in [Decoys -> Decoy]
  BY DEF TypeOK, CacheType
<1>1. \A e \in Decoys : decoys'[e] = IF e = d THEN o ELSE decoys[e]
  BY <1>0 DEF WriteDecoy
<1>2. \A e \in Decoys : cache'.decoys[e] \in {cache.decoys[e], decoys'[e]}
  <2>1. CASE cache' = cache
    BY <2>1
  <2>2. CASE cache' = [cache EXCEPT !.outdated = @ \cup {d}]
    BY <1>0, <2>2 DEF CacheType
  <2>3. CASE cache' = [cache EXCEPT !.decoys[d] = o]
    <3>1. cache'.decoys = [cache.decoys EXCEPT ![d] = o]
      BY <1>0, <2>3 DEF CacheType
    <3> QED
      BY <1>0, <1>1, <3>1
  <2> QED
    BY <2>1, <2>2, <2>3, Zenon DEF WriteDecoy
<1> QED
  BY <1>1, <1>2 DEF StoreTold

\* The copies of the Decoys, whole or by half, come from one another.
LEMMA ToldKept ==
    ASSUME StoreTold, told' = told, decoys' = decoys,
           \A d \in Decoys : cache'.decoys[d] \in {cache.decoys[d], decoys[d]}
    PROVE  StoreTold'
  BY DEF StoreTold

\* So do the ones a worker holds.
LEMMA WorkerToldKept ==
    ASSUME WorkerTold, told' = told, WorkerGoesOn
    PROVE  WorkerTold'
  BY DEF WorkerTold, WorkerGoesOn

\* What a step of the worker writes has been announced.
LEMMA ToldStep ==
    ASSUME TypeOK, ToldInv, Step, ~ListJoined
    PROVE  ToldInv'
<1>0. /\ decoys \in [Decoys -> Decoy] /\ cache \in CacheType /\ w \in WorkerType
      /\ w.pc # "idle" => w.key \in Decoys
  BY DEF TypeOK
<1>k. w \in WorkerType
  BY <1>0
<1>v. StoreTold /\ WorkerTold
  BY DEF ToldInv
<1>t. told' = told
  BY DEF Step, OwnObjects, AddFinalizer, ApplyMirror, MirrorsApplied, ListMirrors, DeleteMirror,
         RemoveFinalizer, ReleaseDecoy, RestObjects, UpdateStatus, CallFails, MarkFailed
\* A step that writes no Decoy.
<1>n. ASSUME UNCHANGED <<decoys, cache>> PROVE StoreTold'
  BY <1>v, <1>t, <1>n, ToldKept
<1>i. ASSUME w' = WorkerIdle PROVE WorkerGoesOn
  BY <1>i DEF WorkerGoesOn, WorkerIdle
<1>g. ASSUME NEW pc, w.pc # "idle", Goto(pc) PROVE WorkerGoesOn
  BY <1>k, <1>g DEF Goto, WorkerGoesOn, WorkerType
<1>f. ASSUME NEW pc \in PCs, NEW b \in BOOLEAN, w.pc # "idle", w' = [w EXCEPT !.pc = pc, !.kt.fin = b]
      PROVE  WorkerGoesOn
  <2>1. w'.key = w.key /\ w'.joined = w.joined
    BY <1>k, <1>f, WorkerFin, ZenonT(30)
  <2>2. w'.kt.joined = w.kt.joined
    BY <1>k, <1>f, Zenon DEF WorkerType, Decoy
  <2> QED
    BY <1>f, <2>1, <2>2 DEF WorkerGoesOn
<1>1. CASE OwnObjects \/ MirrorsApplied \/ RestObjects \/ CallFails
  <2>1. UNCHANGED <<decoys, cache>> /\ w.pc # "idle" /\ \E pc : Goto(pc)
    BY <1>1, Zenon DEF OwnObjects, MirrorsApplied, RestObjects, CallFails
  <2> QED
    BY <1>v, <1>t, <1>n, <1>g, <2>1, WorkerToldKept DEF ToldInv
<1>2. CASE ListMirrors
  <2>1. UNCHANGED <<decoys, cache>> /\ w.pc # "idle"
    BY <1>2 DEF ListMirrors
  <2>2. WorkerGoesOn
    BY <1>k, <1>2, <2>1 DEF ListMirrors, WorkerGoesOn, WorkerType
  <2> QED
    BY <1>v, <1>t, <1>n, <2>1, <2>2, WorkerToldKept DEF ToldInv
<1>3. CASE (\E m \in MirrorKeys : DeleteMirror(m)) \/ (\E ns \in Namespaces : ApplyMirror(ns))
  <2>1. decoys' = decoys /\ w.pc # "idle" /\ cache'.decoys = cache.decoys
    BY <1>0, <1>3 DEF DeleteMirror, ApplyMirror, WriteMirror, CacheType
  <2>2. StoreTold'
    BY <1>v, <1>t, <2>1, ToldKept
  <2>3. WorkerGoesOn
    BY <1>k, <1>3, <2>1 DEF DeleteMirror, ApplyMirror, WorkerGoesOn, WorkerType
  <2> QED
    BY <1>v, <1>t, <2>2, <2>3, WorkerToldKept DEF ToldInv
<1>4. CASE AddFinalizer
  <2>1. WorkerGoesOn
    BY <1>4, <1>f, Zenon DEF AddFinalizer, PCs
  <2>2. CASE UNCHANGED <<decoys, cache>>
    BY <1>v, <1>t, <1>n, <2>1, <2>2, WorkerToldKept DEF ToldInv
  <2>3. CASE WriteDecoy(w.key, [decoys[w.key] EXCEPT !.fin = TRUE], {})
    <3> DEFINE o == [decoys[w.key] EXCEPT !.fin = TRUE]
    <3>1. w.key \in Decoys /\ o \in Decoy
      BY <1>0, <1>4, DecoyType, Zenon DEF AddFinalizer
    <3>2. o.joined = decoys[w.key].joined
      BY <1>0, <3>1, Zenon DEF Decoy
    <3>3. o.joined \subseteq told[w.key]
      BY <1>v, <3>1, <3>2 DEF StoreTold
    <3> HIDE DEF o
    <3>4. StoreTold'
      BY <1>v, <1>t, <2>3, <3>1, <3>3, ToldWrite, Zenon DEF o
    <3> QED
      BY <1>v, <1>t, <2>1, <3>4, WorkerToldKept DEF ToldInv
  <2> QED
    BY <1>4, <2>2, <2>3 DEF AddFinalizer
<1>5. CASE RemoveFinalizer
  <2>1. CASE Needed(w.key, w.joined) = {} /\ w.kt.fin
    <3> DEFINE o == [decoys[w.key] EXCEPT !.fin = FALSE]
    <3>1. w.key \in Decoys /\ o \in Decoy /\ WriteDecoy(w.key, o, {})
      BY <1>0, <1>5, <2>1, DecoyType, Zenon DEF RemoveFinalizer
    <3>2. o.joined = decoys[w.key].joined
      BY <1>0, <3>1, Zenon DEF Decoy
    <3>3. o.joined \subseteq told[w.key]
      BY <1>v, <3>1, <3>2 DEF StoreTold
    <3>4. WorkerGoesOn
      BY <1>5, <2>1, <1>f, Zenon DEF RemoveFinalizer, PCs
    <3> HIDE DEF o
    <3> QED
      BY <1>v, <1>t, <3>1, <3>3, <3>4, ToldWrite, WorkerToldKept DEF ToldInv
  <2>2. CASE ~(Needed(w.key, w.joined) = {} /\ w.kt.fin)
    <3>1. UNCHANGED <<decoys, cache>> /\ w.pc # "idle" /\ Goto("rest")
      BY <1>5, <2>2 DEF RemoveFinalizer
    <3> QED
      BY <1>v, <1>t, <1>n, <1>g, <3>1, WorkerToldKept DEF ToldInv
  <2> QED
    BY <2>1, <2>2
<1>6. CASE ReleaseDecoy
  <2>1. w.key \in Decoys /\ Absent \in Decoy /\ WriteDecoy(w.key, Absent, {}) /\ w' = WorkerIdle
    BY <1>0, <1>6, DecoyType, Zenon DEF ReleaseDecoy
  <2>2. Absent.joined \subseteq told[w.key]
    BY DEF Absent
  <2> QED
    BY <1>v, <1>t, <1>i, <2>1, <2>2, ToldWrite, WorkerToldKept DEF ToldInv
<1>7. CASE UpdateStatus
  <2> DEFINE o == [decoys[w.key] EXCEPT !.joined = w.joined, !.phase = "Reconciled"]
  <2>1. w.key \in Decoys /\ w.joined \in SUBSET Pods /\ w.pc # "idle"
    BY <1>0, <1>7 DEF UpdateStatus, WorkerType
  <2>2. o \in Decoy /\ WriteDecoy(w.key, o, {}) /\ w' = WorkerIdle
    BY <1>0, <1>7, <2>1, DecoyType, Zenon DEF UpdateStatus
  <2>3. o.joined = w.joined
    BY <1>0, <2>1, Zenon DEF Decoy
  <2>4. o.joined \subseteq told[w.key]
    BY <1>v, <2>1, <2>3 DEF WorkerTold
  <2> HIDE DEF o
  <2> QED
    BY <1>v, <1>t, <1>i, <2>1, <2>2, <2>4, ToldWrite, WorkerToldKept DEF ToldInv
<1>8. CASE MarkFailed
  <2>1. w' = WorkerIdle /\ w.key \in Decoys
    BY <1>0, <1>8 DEF MarkFailed
  <2>2. CASE UNCHANGED <<decoys, cache>>
    BY <1>v, <1>t, <1>i, <1>n, <2>1, <2>2, WorkerToldKept DEF ToldInv
  <2>3. CASE WriteDecoy(w.key, [decoys[w.key] EXCEPT !.phase = "Failed"], {w.key})
    <3> DEFINE o == [decoys[w.key] EXCEPT !.phase = "Failed"]
    <3>1. o \in Decoy
      BY <1>0, <2>1, DecoyType, Zenon
    <3>2. o.joined = decoys[w.key].joined
      BY <1>0, <2>1, Zenon DEF Decoy
    <3>3. o.joined \subseteq told[w.key]
      BY <1>v, <2>1, <3>2 DEF StoreTold
    <3>4. WriteDecoy(w.key, o, {w.key})
      BY <2>3
    <3> HIDE DEF o
    <3> QED
      BY <1>v, <1>t, <1>i, <2>1, <3>1, <3>3, <3>4, ToldWrite, WorkerToldKept DEF ToldInv
  <2> QED
    BY <1>8, <2>2, <2>3 DEF MarkFailed
<1> QED
  BY <1>1, <1>2, <1>3, <1>4, <1>5, <1>6, <1>7, <1>8 DEF Step

\* Users, watches and restarts spread only what was announced.
LEMMA ToldBeside ==
    ASSUME TypeOK, ToldInv, Sync \/ Resync \/ Environment
    PROVE  ToldInv'
<1>0. /\ decoys \in [Decoys -> Decoy] /\ cache \in CacheType /\ w \in WorkerType
  BY DEF TypeOK
<1>k. w \in WorkerType
  BY <1>0
<1>v. StoreTold /\ WorkerTold
  BY DEF ToldInv
<1>s. ASSUME w' = w, told' = told PROVE WorkerTold'
  BY <1>v, <1>s DEF WorkerTold
<1>o. ASSUME NEW d, Outdate(d), told' = told PROVE WorkerTold'
  <2>1. w'.pc = w.pc /\ w'.key = w.key /\ w'.kt = w.kt /\ w'.joined = w.joined
    BY <1>k, <1>o DEF Outdate, WorkerType
  <2> QED
    BY <1>v, <1>o, <2>1 DEF WorkerTold
<1>1. CASE Sync \/ Resync
  <2>1. w' = w /\ told' = told /\ decoys' = decoys
    BY <1>1 DEF Sync, SyncDecoys, SyncPods, SyncSecrets, Resync
  <2>2. \A d \in Decoys : cache'.decoys[d] \in {cache.decoys[d], decoys[d]}
    BY <1>0, <1>1, Zenon DEF Sync, SyncDecoys, SyncPods, SyncSecrets, Resync, CacheType
  <2> QED
    BY <1>v, <1>s, <2>1, <2>2, ToldKept DEF ToldInv
<1>2. ASSUME NEW d \in Decoys, CreateDecoy(d) \/ DeleteDecoy(d) PROVE ToldInv'
  <2>1. Outdate(d) /\ told' = told
    BY <1>2 DEF CreateDecoy, DeleteDecoy
  <2> DEFINE new == [Absent EXCEPT !.st = "live"]
             going == [decoys[d] EXCEPT !.st = "deleting"]
  <2>2. new \in Decoy /\ going \in Decoy /\ Absent \in Decoy
    BY <1>0, DecoyType, Zenon
  <2>3. new.joined = {} /\ Absent.joined = {}
    BY DEF Absent
  <2>4. going.joined = decoys[d].joined
    BY <1>0, Zenon DEF Decoy
  <2>5. WriteDecoy(d, new, {}) \/ WriteDecoy(d, going, {}) \/ WriteDecoy(d, Absent, {})
    BY <1>2 DEF CreateDecoy, DeleteDecoy
  <2> HIDE DEF new, going
  <2>6. going.joined \subseteq told[d]
    BY <1>v, <2>4 DEF StoreTold
  <2>7. StoreTold'
    BY <1>v, <2>1, <2>2, <2>3, <2>5, <2>6, ToldWrite
  <2> QED
    BY <1>o, <2>1, <2>7 DEF ToldInv
<1>3. ASSUME NEW d \in Decoys, TouchDecoy(d) PROVE ToldInv'
  <2>1. Outdate(d) /\ told' = told /\ decoys' = decoys
    BY <1>3 DEF TouchDecoy
  <2>2. cache'.decoys = cache.decoys
    BY <1>0, <1>3 DEF TouchDecoy, CacheType
  <2> QED
    BY <1>v, <1>o, <2>1, <2>2, ToldKept DEF ToldInv
<1>4. CASE \E p \in Pods, v \in Annotations : AnnotatePod(p, v)
  <2>1. w' = w /\ told' = told /\ decoys' = decoys
    BY <1>4 DEF AnnotatePod
  <2>2. cache'.decoys = cache.decoys
    BY <1>0, <1>4 DEF AnnotatePod, WritePod, CacheType
  <2> QED
    BY <1>v, <1>s, <2>1, <2>2, ToldKept DEF ToldInv
<1>5. CASE \E ns \in Namespaces : TerminateNamespace(ns) \/ NamespaceGone(ns)
  <2>1. w' = w /\ told' = told /\ decoys' = decoys
    BY <1>5 DEF TerminateNamespace, NamespaceGone
  <2>2. cache'.decoys = cache.decoys
    BY <1>0, <1>5 DEF TerminateNamespace, NamespaceGone, CacheType
  <2> QED
    BY <1>v, <1>s, <2>1, <2>2, ToldKept DEF ToldInv
<1>6. CASE Restart
  <2>1. w'.pc = "idle" /\ told' = told /\ decoys' = decoys /\ cache'.decoys = decoys
    BY <1>6 DEF Restart, WorkerIdle
  <2> QED
    BY <1>v, <2>1, ToldKept DEF ToldInv, WorkerTold
<1> QED
  BY <1>1, <1>2, <1>3, <1>4, <1>5, <1>6 DEF Environment

\* Every step of the system.
LEMMA ToldNext == TypeOK /\ ToldInv /\ [Next]_vars => ToldInv'
<1> SUFFICES ASSUME TypeOK, ToldInv, [Next]_vars PROVE ToldInv'
  OBVIOUS
<1>v. StoreTold /\ WorkerTold
  BY DEF ToldInv
<1>1. ASSUME NEW d \in Decoys, Start(d) PROVE ToldInv'
  <2>1. UNCHANGED <<decoys, cache, told>>
    BY <1>1 DEF Start
  <2>2. WorkerTold'
    <3>1. CASE w' = WorkerIdle
      BY <3>1 DEF WorkerTold, WorkerIdle
    <3>2. CASE w' = Begin(d, cache.decoys[d])
      <4>1. w'.key = d /\ w'.kt = cache.decoys[d] /\ w'.joined = {}
        BY <3>2 DEF Begin, WorkerIdle
      <4> QED
        BY <1>v, <2>1, <4>1 DEF StoreTold, WorkerTold
    <3> QED
      BY <1>1, <3>1, <3>2 DEF Start
  <2> QED
    BY <1>v, <2>1, <2>2, ToldKept DEF ToldInv
<1>2. CASE ListJoined
  <2> DEFINE joined == JoinedPods(w.key)
             need == Needed(w.key, joined)
             pc == IF need # {} THEN "addfin" ELSE "prune"
  <2>1. w.key \in Decoys /\ w \in WorkerType /\ told \in [Decoys -> SUBSET Pods] /\ w.pc = "list"
    BY <1>2 DEF TypeOK, ListJoined
  <2>2. /\ told' = [told EXCEPT ![w.key] = @ \cup (joined \ w.kt.joined)]
        /\ w' = [w EXCEPT !.pc = pc, !.joined = joined, !.todo = need]
        /\ UNCHANGED <<decoys, cache>>
    BY <1>2 DEF ListJoined
  <2> HIDE DEF joined, need, pc
  <2>3. w'.key = w.key /\ w'.kt = w.kt /\ w'.joined = joined
    BY <2>1, <2>2 DEF WorkerType
  <2>4. /\ \A d \in Decoys : told[d] \subseteq told'[d]
        /\ told'[w.key] = told[w.key] \cup (joined \ w.kt.joined)
    BY <2>1, <2>2
  <2>5. StoreTold'
    BY <1>v, <2>2, <2>4 DEF StoreTold
  <2>6. WorkerTold'
    BY <1>v, <2>1, <2>3, <2>4 DEF WorkerTold
  <2> QED
    BY <2>5, <2>6 DEF ToldInv
<1>3. CASE Step /\ ~ListJoined
  BY <1>3, ToldStep
<1>4. CASE Sync \/ Resync \/ Environment
  BY <1>4, ToldBeside
<1>5. CASE UNCHANGED vars
  BY <1>v, <1>5 DEF vars, ToldInv, StoreTold, WorkerTold
<1> QED
  BY <1>1, <1>2, <1>3, <1>4, <1>5 DEF Next

\* Whichever caches lag and wherever passes fail, no Pod is shown as joined
\* whose joining was not announced (decoy_controller.go 259, 425-460, 983).
THEOREM JoinsAlwaysAnnounced == Spec => []JoinsAnnounced
<1>1. TypeOK /\ ToldInv /\ [Next]_vars => TypeOK' /\ ToldInv'
  BY CtlTypeStep, ToldNext
<1>2. ToldInv => JoinsAnnounced
  BY DEF ToldInv, StoreTold, JoinsAnnounced
<1> QED
  BY <1>1, <1>2, CtlTypeInit, ToldInit, PTL DEF Spec

=============================================================================
