--------------------------- MODULE ShimSeedProofs ---------------------------
(***************************************************************************)
(* Proofs about ShimSeed, for any objects, namespaces, seeds and bounds:   *)
(* nothing the shim has created goes missing except as AccountedFor says,  *)
(* it deletes nothing of others except as ForeignSpared says, and it never *)
(* serves before the ServiceAccount directory is laid out.                 *)
(***************************************************************************)
EXTENDS ShimSeed, TLAPS

Cell == [by : {"shim", "other", "none"}, entry : Entries \cup {NoEntry},
         full : BOOLEAN, ending : BOOLEAN]

\* The part of the types that the argument needs.
Shape == objs \in [Keys -> Cell] /\ file \in Seeds /\ seed \in Seeds

\* While a pass works on the seed, each listed key is still to do or marked.
Covered ==
    /\ pc \in {"namespaces", "apply"} => todo \subseteq DOMAIN seed /\ DOMAIN seed \subseteq todo \cup cur
    /\ pc = "prune" => /\ DOMAIN seed \subseteq cur /\ todo \subseteq prev
                       /\ todo \cap cur = {} /\ at = NoKey
    /\ at # NoKey => pc = "apply" /\ at \in Keys

\* What a pass has made it has marked, or it is in the middle of it; between
\* passes there is nothing of the kind.
MadeMarked ==
    /\ made \subseteq Keys /\ made \subseteq cur \cup {at}
    /\ pc \notin {"namespaces", "apply", "prune"} => made = {}

\* What pruning leaves out of the next set is gone.
PruneKeeps ==
    pc = "prune" => \A k \in Keys : objs[k].by = "shim" /\ k \in prev => k \in cur \cup todo

\* The inductive invariant of both theorems.
ShimInv == Shape /\ Covered /\ MadeMarked /\ PruneKeeps /\ AccountedFor

-----------------------------------------------------------------------------
(* What a step can do to the objects *)

\* Nobody's object becomes another's or goes.
SameOwners == objs' \in [Keys -> Cell] /\ \A k \in Keys : objs'[k].by = objs[k].by

\* One object is the shim's from now on; there was none.
NewOwner(k) ==
    /\ objs' \in [Keys -> Cell]
    /\ objs[k].by = "none" /\ objs'[k].by = "shim"
    /\ \A j \in Keys \ {k} : objs'[j].by = objs[j].by

\* The objects of K may be gone, the others are as they were.
Removal(K) == objs' \in [Keys -> Cell] /\ \A j \in Keys : objs'[j] = objs[j] \/ (j \in K /\ objs'[j] = NoObject)

\* Writing the entry of an object changes no owner.
LEMMA EntryWrite ==
    ASSUME Shape, NEW k \in Keys, NEW e \in Entries, objs' = [objs EXCEPT ![k].entry = e]
    PROVE  SameOwners
<1> DEFINE r == [objs[k] EXCEPT !.entry = e]
<1>1. objs[k] \in Cell
  BY DEF Shape
<1>2. r \in Cell /\ r.by = objs[k].by
  BY <1>1 DEF Cell
<1>3. objs' = [objs EXCEPT ![k] = r]
  OBVIOUS
<1> HIDE DEF r
<1> QED
  BY <1>2, <1>3 DEF Shape, SameOwners

\* Nor does completing one.
LEMMA FullWrite ==
    ASSUME Shape, NEW k \in Keys, objs' = [objs EXCEPT ![k].full = TRUE]
    PROVE  SameOwners
<1> DEFINE r == [objs[k] EXCEPT !.full = TRUE]
<1>1. objs[k] \in Cell
  BY DEF Shape
<1>2. r \in Cell /\ r.by = objs[k].by
  BY <1>1, Zenon DEF Cell
<1>3. objs' = [objs EXCEPT ![k] = r]
  OBVIOUS
<1> HIDE DEF r
<1> QED
  BY <1>2, <1>3, Zenon DEF Shape, SameOwners

\* Nor does completing a set of them, as adoption does.
LEMMA Adoption ==
    ASSUME Shape, NEW K,
           objs' = [k \in Keys |-> IF k \in K THEN [objs[k] EXCEPT !.full = TRUE] ELSE objs[k]]
    PROVE  SameOwners
<1> DEFINE r(k) == [objs[k] EXCEPT !.full = TRUE]
<1>1. \A k \in Keys : objs[k] \in Cell
  BY DEF Shape
<1>2. \A k \in Keys : r(k) \in Cell /\ r(k).by = objs[k].by
  BY <1>1, Zenon DEF Cell
<1>3. \A k \in Keys : objs'[k] = IF k \in K THEN r(k) ELSE objs[k]
  OBVIOUS
<1>4. objs' = [k \in Keys |-> objs'[k]]
  OBVIOUS
<1> HIDE DEF r
<1>5. \A k \in Keys : objs'[k] \in Cell /\ objs'[k].by = objs[k].by
  BY <1>1, <1>2, <1>3
<1> QED
  BY <1>4, <1>5 DEF SameOwners

\* Creation of a listed key makes the object the shim's.
LEMMA Creation ==
    ASSUME Shape, NEW k \in Keys, k \in DOMAIN seed, Create(k)
    PROVE  NewOwner(k) /\ made' = made \cup {k}
<1>1. Created(k) \in Cell /\ Created(k).by = "shim"
  <2>1. seed[k] \in Entries
    BY ShimAssumption DEF Shape
  <2> QED
    BY <2>1 DEF Cell, Created
<1>2. objs[k].by = "none"
  BY DEF Create, Exists, NoObject
<1>3. objs' = [objs EXCEPT ![k] = Created(k)] /\ made' = made \cup {k}
  BY DEF Create
<1> QED
  BY <1>1, <1>2, <1>3 DEF Shape, NewOwner

\* There is room for no object.
LEMMA NoObjectCell == NoObject \in Cell /\ NoObject.by = "none"
BY DEF NoObject, Cell

\* Removing one object.
LEMMA RemoveOne ==
    ASSUME Shape, NEW k \in Keys, objs' = [objs EXCEPT ![k] = NoObject]
    PROVE  Removal({k})
BY NoObjectCell DEF Shape, Removal

\* Removing the objects of a namespace.
LEMMA RemoveMany ==
    ASSUME Shape, NEW K, objs' = [k \in Keys |-> IF k \in K THEN NoObject ELSE objs[k]]
    PROVE  Removal(K)
BY NoObjectCell DEF Shape, Removal

\* Leaving the objects alone.
LEMMA Untouched ==
    ASSUME Shape, objs' = objs
    PROVE  SameOwners
BY DEF Shape, SameOwners

-----------------------------------------------------------------------------
(* What a step does to the invariant *)

\* A step is good if it keeps the invariant and what is foreign.
Good == ShimInv' /\ ForeignKept

\* A pass goes on: what it does not touch.
Proceeds ==
    /\ pc = "apply" /\ pc' = "apply" /\ file' = file /\ seed' = seed
    /\ prev' = prev /\ lost' = lost

\* The write of a key that is next, whether it is the only one or the first.
LEMMA WriteStep ==
    ASSUME ShimInv, NEW k \in Keys, Proceeds, at = NoKey, k \in todo,
           \/ SameOwners /\ made' = made
           \/ NewOwner(k) /\ made' = made \cup {k},
           \/ todo' = todo \ {k} /\ cur' = cur \cup {k} /\ at' = at
           \/ todo' = todo /\ cur' = cur /\ at' = k
    PROVE  Good
<1>1. Shape' /\ \A j \in Keys : objs'[j].by = objs[j].by \/ (j = k /\ objs'[j].by = "shim" /\ k \in made')
  BY DEF ShimInv, Shape, SameOwners, NewOwner, Proceeds
<1>2. Covered'
  BY DEF ShimInv, Covered, Proceeds
<1>3. MadeMarked'
  BY ShimAssumption, <1>1 DEF ShimInv, MadeMarked, Proceeds
<1>4. PruneKeeps'
  BY DEF PruneKeeps, Proceeds
<1>5. made \subseteq made'
  OBVIOUS
<1>6. AccountedFor'
  BY <1>1, <1>5 DEF ShimInv, AccountedFor, Proceeds
<1>7. ForeignKept
  BY <1>1, NoObjectCell DEF ForeignKept
<1> QED
  BY <1>1, <1>2, <1>3, <1>4, <1>6, <1>7 DEF Good, ShimInv

\* The second write of a key.
LEMMA SecondStep ==
    ASSUME ShimInv, Proceeds, at # NoKey, SameOwners, made' = made,
           at' = NoKey, todo' = todo \ {at}, cur' = cur \cup {at}
    PROVE  Good
<1>1. Shape' /\ \A j \in Keys : objs'[j].by = objs[j].by
  BY DEF ShimInv, Shape, SameOwners, Proceeds
<1>2. Covered'
  BY DEF ShimInv, Covered, Proceeds
<1>3. MadeMarked'
  BY DEF ShimInv, MadeMarked, Proceeds
<1>4. PruneKeeps'
  BY DEF PruneKeeps, Proceeds
<1>5. AccountedFor'
  BY <1>1 DEF ShimInv, AccountedFor, Proceeds
<1>6. ForeignKept
  BY <1>1, NoObjectCell DEF ForeignKept
<1> QED
  BY <1>1, <1>2, <1>3, <1>4, <1>5, <1>6 DEF Good, ShimInv

\* The objects stay and so do the sets that account for them.
LEMMA QuietStep ==
    ASSUME ShimInv, SameOwners, file' \in Seeds, seed' \in Seeds, Covered', MadeMarked', PruneKeeps',
           prev \cup made \cup lost \subseteq prev' \cup made' \cup lost'
    PROVE  Good
<1>1. Shape' /\ \A j \in Keys : objs'[j].by = objs[j].by
  BY DEF ShimInv, Shape, SameOwners
<1>2. AccountedFor'
  BY <1>1 DEF ShimInv, AccountedFor
<1>3. ForeignKept
  BY <1>1, NoObjectCell DEF ForeignKept
<1> QED
  BY <1>1, <1>2, <1>3 DEF Good, ShimInv

\* Objects go and the sets stay.
LEMMA RemovalStep ==
    ASSUME ShimInv, NEW K, Removal(K), file' \in Seeds, seed' \in Seeds, Covered', MadeMarked',
           pc' = pc, prev' = prev, made' = made, lost' = lost,
           pc = "prune" => \A k \in Keys : objs'[k].by = "shim" /\ k \in prev => k \in cur' \cup todo',
           ForeignKept
    PROVE  Good
<1>1. Shape' /\ \A j \in Keys : objs'[j].by = "shim" => objs[j].by = "shim"
  BY NoObjectCell DEF ShimInv, Shape, Removal
<1>2. AccountedFor'
  BY <1>1 DEF ShimInv, AccountedFor
<1>3. PruneKeeps'
  BY DEF PruneKeeps
<1> QED
  BY <1>1, <1>2, <1>3 DEF Good, ShimInv

-----------------------------------------------------------------------------
(* The actions of a pass *)

\* A listed object that is updated keeps its owner.
LEMMA Updating ==
    ASSUME Shape, NEW k \in Keys, k \in DOMAIN seed, Update(k)
    PROVE  SameOwners /\ made' = made
<1>1. seed[k] \in Entries
  BY ShimAssumption DEF Shape
<1> QED
  BY <1>1, EntryWrite, Zenon DEF Update

\* Each way to upsert a key is a good step.
LEMMA UpsertStep ==
    ASSUME ShimInv, NEW k \in Keys, Upsert(k)
    PROVE  Good
<1> USE DEF memory
<1>1. k \in DOMAIN seed /\ at = NoKey /\ k \in todo /\ pc = "apply"
  <2>1. Turn(k)
    BY DEF Upsert, ensureNamespace, upsertNode, ensureNodeLease, createCRD, createController,
           upsertPod, upsertSecret, createConfigMap, createService
  <2> QED
    BY <2>1 DEF Turn, ShimInv, Covered
<1>2. Shape
  BY DEF ShimInv
<1>3. Create(k) => NewOwner(k) /\ made' = made \cup {k}
  BY <1>1, <1>2, Creation
<1>4. Update(k) => SameOwners /\ made' = made
  BY <1>1, <1>2, Updating
<1>5. objs' = objs => SameOwners
  BY <1>2, Untouched
<1>a. CASE ensureNamespace(k)
  <2>1. SameOwners /\ file' \in Seeds /\ seed' \in Seeds
    BY <1>a, <1>2, <1>5 DEF ensureNamespace, Shape
  <2>2. Covered' /\ MadeMarked' /\ PruneKeeps'
    BY <1>a, <1>1 DEF ensureNamespace, ShimInv, Covered, MadeMarked, PruneKeeps
  <2> QED
    BY <1>a, <2>1, <2>2, QuietStep DEF ensureNamespace
<1>b. CASE upsertNode(k)
  <2>1. Proceeds
    BY <1>b, <1>1 DEF upsertNode, Proceeds
  <2>2. (SameOwners /\ made' = made) \/ (NewOwner(k) /\ made' = made \cup {k})
    BY <1>b, <1>3, <1>4, <1>5 DEF upsertNode
  <2>3. \/ todo' = todo \ {k} /\ cur' = cur \cup {k} /\ at' = at
        \/ todo' = todo /\ cur' = cur /\ at' = k
    BY <1>b DEF upsertNode, ThenSecond
  <2> QED
    BY <1>1, <2>1, <2>2, <2>3, WriteStep
<1>c. CASE ensureNodeLease(k)
  <2>1. Proceeds
    BY <1>c, <1>1 DEF ensureNodeLease, Proceeds
  <2>2. (SameOwners /\ made' = made) \/ (NewOwner(k) /\ made' = made \cup {k})
    BY <1>c, <1>3, <1>4, <1>5 DEF ensureNodeLease
  <2>3. \/ todo' = todo \ {k} /\ cur' = cur \cup {k} /\ at' = at
        \/ todo' = todo /\ cur' = cur /\ at' = k
    BY <1>c DEF ensureNodeLease, markSeeded
  <2> QED
    BY <1>1, <2>1, <2>2, <2>3, WriteStep
<1>d. CASE createCRD(k)
  <2>1. Proceeds
    BY <1>d, <1>1 DEF createCRD, Proceeds
  <2>2. (SameOwners /\ made' = made) \/ (NewOwner(k) /\ made' = made \cup {k})
    BY <1>d, <1>3, <1>4, <1>5 DEF createCRD
  <2>3. \/ todo' = todo \ {k} /\ cur' = cur \cup {k} /\ at' = at
        \/ todo' = todo /\ cur' = cur /\ at' = k
    BY <1>d DEF createCRD, markSeeded
  <2> QED
    BY <1>1, <2>1, <2>2, <2>3, WriteStep
<1>e. CASE createController(k)
  <2>1. Proceeds
    BY <1>e, <1>1 DEF createController, Proceeds
  <2>2. (SameOwners /\ made' = made) \/ (NewOwner(k) /\ made' = made \cup {k})
    BY <1>e, <1>3, <1>4, <1>5 DEF createController
  <2>3. \/ todo' = todo \ {k} /\ cur' = cur \cup {k} /\ at' = at
        \/ todo' = todo /\ cur' = cur /\ at' = k
    BY <1>e DEF createController, ThenSecond
  <2> QED
    BY <1>1, <2>1, <2>2, <2>3, WriteStep
<1>f. CASE upsertSecret(k)
  <2>1. Proceeds
    BY <1>f, <1>1 DEF upsertSecret, Proceeds
  <2>2. (SameOwners /\ made' = made) \/ (NewOwner(k) /\ made' = made \cup {k})
    BY <1>f, <1>3, <1>4, <1>5 DEF upsertSecret
  <2>3. \/ todo' = todo \ {k} /\ cur' = cur \cup {k} /\ at' = at
        \/ todo' = todo /\ cur' = cur /\ at' = k
    BY <1>f DEF upsertSecret, markSeeded
  <2> QED
    BY <1>1, <2>1, <2>2, <2>3, WriteStep
<1>g. CASE createConfigMap(k)
  <2>1. Proceeds
    BY <1>g, <1>1 DEF createConfigMap, Proceeds
  <2>2. (SameOwners /\ made' = made) \/ (NewOwner(k) /\ made' = made \cup {k})
    BY <1>g, <1>3, <1>4, <1>5 DEF createConfigMap
  <2>3. \/ todo' = todo \ {k} /\ cur' = cur \cup {k} /\ at' = at
        \/ todo' = todo /\ cur' = cur /\ at' = k
    BY <1>g DEF createConfigMap, markSeeded
  <2> QED
    BY <1>1, <2>1, <2>2, <2>3, WriteStep
<1>h. CASE createService(k)
  <2>1. Proceeds
    BY <1>h, <1>1 DEF createService, Proceeds
  <2>2. (SameOwners /\ made' = made) \/ (NewOwner(k) /\ made' = made \cup {k})
    BY <1>h, <1>3, <1>4, <1>5 DEF createService
  <2>3. \/ todo' = todo \ {k} /\ cur' = cur \cup {k} /\ at' = at
        \/ todo' = todo /\ cur' = cur /\ at' = k
    BY <1>h DEF createService, ThenSecond
  <2> QED
    BY <1>1, <2>1, <2>2, <2>3, WriteStep
<1>i. CASE upsertPod(k)
  <2>1. Proceeds
    BY <1>i, <1>1 DEF upsertPod, Proceeds
  <2>2. CASE objs[k].ending /\ objs' = [objs EXCEPT ![k] = NoObject] /\ markSeeded(k) /\ made' = made
    <3>1. Removal({k})
      BY <1>2, <2>2, RemoveOne, Zenon
    <3>2. Covered' /\ MadeMarked'
      BY <1>1, <2>1, <2>2 DEF ShimInv, Covered, MadeMarked, Proceeds, markSeeded
    <3>3. ForeignKept
      BY <1>1, <2>2, <3>1, NoObjectCell DEF ForeignKept, Removal
    <3>4. file' \in Seeds /\ seed' \in Seeds /\ pc' = pc /\ prev' = prev /\ lost' = lost /\ pc # "prune"
      BY <1>2, <2>1 DEF Shape, Proceeds
    <3> QED
      BY <2>2, <3>1, <3>2, <3>3, <3>4, RemovalStep
  <2>3. CASE (Create(k) \/ Update(k)) /\ ThenSecond(k)
    <3>1. (SameOwners /\ made' = made) \/ (NewOwner(k) /\ made' = made \cup {k})
      BY <1>3, <1>4, <2>3
    <3>2. todo' = todo /\ cur' = cur /\ at' = k
      BY <2>3 DEF ThenSecond
    <3> QED
      BY <1>1, <2>1, <3>1, <3>2, WriteStep
  <2> QED
    BY <1>i, <2>2, <2>3 DEF upsertPod
<1> QED
  BY <1>a, <1>b, <1>c, <1>d, <1>e, <1>f, <1>g, <1>h, <1>i DEF Upsert

\* So is the second write of a key.
LEMMA SecondWrites ==
    ASSUME ShimInv, ControllerStatus \/ UpdateStatus \/ ensureEndpointSlice
    PROVE  Good
<1> USE DEF memory
<1>1. at # NoKey /\ at \in Keys
  BY DEF ControllerStatus, UpdateStatus, ensureEndpointSlice, ShimInv, Covered
<1>2. Shape
  BY DEF ShimInv
<1>3. SameOwners
  <2>1. objs' = objs => SameOwners
    BY <1>2, Untouched
  <2>2. objs' = [objs EXCEPT ![at].full = TRUE] => SameOwners
    BY <1>1, <1>2, FullWrite, Zenon
  <2> QED
    BY <2>1, <2>2 DEF ControllerStatus, UpdateStatus, ensureEndpointSlice
<1>4. Proceeds
  BY DEF ControllerStatus, UpdateStatus, ensureEndpointSlice, Proceeds
<1> QED
  BY <1>1, <1>3, <1>4, SecondStep DEF ControllerStatus, UpdateStatus, ensureEndpointSlice

-----------------------------------------------------------------------------
(* The rest of the shim, and the environment *)

\* The start of the process and of a pass.
LEMMA StartSteps ==
    ASSUME ShimInv, SaSetup \/ Boot \/ WriteFiles \/ Reachable \/ StartPass \/ NamespacesDone
    PROVE  Good
<1> USE DEF memory, cluster
<1>1. Shape /\ SameOwners
  <2>1. objs' = objs
    BY Zenon DEF SaSetup, Boot, WriteFiles, Reachable, StartPass, NamespacesDone
  <2> QED
    BY <2>1, Untouched DEF ShimInv
<1>2. file' \in Seeds /\ seed' \in Seeds
  BY <1>1, Zenon
    DEF Shape, SaSetup, Boot, WriteFiles, Reachable, StartPass, NamespacesDone, reloadSeed
<1>3. CASE SaSetup \/ Boot \/ WriteFiles \/ Reachable
  <2>1. Covered' /\ MadeMarked' /\ PruneKeeps'
    BY <1>3, Zenon
      DEF SaSetup, Boot, WriteFiles, Reachable, ShimInv, Covered, MadeMarked, PruneKeeps
  <2>2. prev' = prev /\ made' = made /\ lost' = lost
    BY <1>3, Zenon DEF SaSetup, Boot, WriteFiles, Reachable
  <2> QED
    BY <1>1, <1>2, <2>1, <2>2, QuietStep
<1>4. CASE StartPass
  <2>1. Covered' /\ MadeMarked' /\ PruneKeeps'
    BY <1>4 DEF StartPass, ShimInv, Covered, MadeMarked, PruneKeeps
  <2>2. prev' = prev /\ made = {} /\ lost' = lost
    BY <1>4 DEF StartPass, ShimInv, MadeMarked
  <2> QED
    BY <1>1, <1>2, <2>1, <2>2, QuietStep
<1>5. CASE NamespacesDone
  <2>1. Covered' /\ MadeMarked' /\ PruneKeeps'
    BY <1>5 DEF NamespacesDone, ShimInv, Covered, MadeMarked, PruneKeeps
  <2>2. prev' = prev /\ made' = made /\ lost' = lost
    BY <1>5 DEF NamespacesDone
  <2> QED
    BY <1>1, <1>2, <2>1, <2>2, QuietStep
<1> QED
  BY <1>3, <1>4, <1>5

\* The purge of a terminating namespace takes only what is in it.
LEMMA FinalizeStep ==
    ASSUME ShimInv, NEW n \in Namespaces, FinalizeNamespace(n)
    PROVE  Good
<1> USE DEF memory
<1> DEFINE inside == {k \in Keys : Ns[k] = n /\ Kind[k] \in Purged}
<1>1. Removal(inside)
  <2>1. CASE objs' = [k \in Keys |-> IF k \in inside THEN NoObject ELSE objs[k]]
    BY <2>1, RemoveMany DEF ShimInv
  <2>2. CASE objs' = objs
    BY <2>2 DEF Removal, ShimInv, Shape
  <2> QED
    BY <2>1, <2>2 DEF FinalizeNamespace
<1>2. Covered' /\ MadeMarked'
  BY DEF FinalizeNamespace, ShimInv, Covered, MadeMarked
<1>3. ForeignKept
  <2>1. n \in dying
    BY DEF FinalizeNamespace
  <2> QED
    BY <1>1, <2>1, NoObjectCell DEF ForeignKept, Removal
<1>4. file' \in Seeds /\ seed' \in Seeds
  BY DEF FinalizeNamespace, ShimInv, Shape
<1>5. pc' = pc /\ prev' = prev /\ made' = made /\ lost' = lost /\ pc # "prune"
  BY DEF FinalizeNamespace
<1> QED
  BY <1>1, <1>2, <1>3, <1>4, <1>5, RemovalStep

\* Pruning starts from what the last pass tracked and this one has not marked.
LEMMA AdoptStep ==
    ASSUME ShimInv, adoptScheduledPods
    PROVE  Good
<1> USE DEF memory
<1>1. SameOwners
  <2>1. objs' = objs => SameOwners
    BY Untouched DEF ShimInv
  <2> DEFINE bound == {k \in Keys : /\ Kind[k] = "Pod" /\ Exists(k)
                                    /\ NodeOf[objs[k].entry] \in DOMAIN seed}
  <2>2. ASSUME objs' = [k \in Keys |-> IF k \in bound THEN [objs[k] EXCEPT !.full = TRUE]
                                                      ELSE objs[k]]
        PROVE  SameOwners
    <3> HIDE DEF bound
    <3> QED
      BY <2>2, Adoption DEF ShimInv
  <2> QED
    BY <2>1, <2>2 DEF adoptScheduledPods
<1>2. Covered'
  BY DEF adoptScheduledPods, ShimInv, Covered
<1>3. MadeMarked'
  BY DEF adoptScheduledPods, ShimInv, MadeMarked
<1>4. PruneKeeps'
  BY DEF adoptScheduledPods, PruneKeeps
<1>5. file' \in Seeds /\ seed' \in Seeds /\ prev' = prev /\ made' = made /\ lost' = lost
  BY DEF adoptScheduledPods, ShimInv, Shape
<1> QED
  BY <1>1, <1>2, <1>3, <1>4, <1>5, QuietStep

\* A key is deleted, or kept for the next pass.
LEMMA PruneStep ==
    ASSUME ShimInv, NEW k \in Keys, pruneSeeded(k)
    PROVE  Good
<1> USE DEF memory
<1>1. /\ pc = "prune" /\ pc' = "prune" /\ k \in todo /\ todo' = todo \ {k} /\ at' = at
      /\ file' \in Seeds /\ seed' = seed /\ seed' \in Seeds
      /\ prev' = prev /\ made' = made /\ lost' = lost
  BY DEF pruneSeeded, ShimInv, Shape
<1>2. CASE objs' = [objs EXCEPT ![k] = NoObject] /\ cur' = cur
  <2>1. Removal({k}) /\ objs'[k] = NoObject
    BY <1>2, RemoveOne, Zenon DEF ShimInv, Shape
  <2>2. Covered' /\ MadeMarked'
    BY <1>1, <1>2 DEF ShimInv, Covered, MadeMarked
  <2>3. \A j \in Keys : objs'[j].by = "shim" /\ j \in prev => j \in cur' \cup todo'
    BY <1>1, <1>2, <2>1, NoObjectCell DEF Removal, ShimInv, PruneKeeps
  <2>4. k \in prev /\ k \notin DOMAIN seed
    BY <1>1 DEF ShimInv, Covered
  <2>5. ForeignKept
    BY <2>1, <2>4, NoObjectCell DEF Removal, ForeignKept
  <2> QED
    BY <1>1, <2>1, <2>2, <2>3, <2>5, RemovalStep
<1>3. CASE objs' = objs /\ cur' = cur \cup {k}
  <2>1. SameOwners
    BY <1>3, Untouched DEF ShimInv
  <2>2. Covered' /\ MadeMarked' /\ PruneKeeps'
    BY <1>1, <1>3 DEF ShimInv, Covered, MadeMarked, PruneKeeps
  <2> QED
    BY <1>1, <2>1, <2>2, QuietStep
<1> QED
  BY <1>2, <1>3 DEF pruneSeeded

\* A pass that finishes hands over everything; one that fails loses only what
\* it was the first to make.
LEMMA EndSteps ==
    ASSUME ShimInv, FinishPass \/ CallFails \/ Refused
    PROVE  Good
<1> USE DEF cluster
<1>1. EndPass
  BY DEF FinishPass, CallFails, Refused, ReturnError
<1>2. SameOwners /\ Shape
  BY <1>1, Untouched DEF EndPass, ShimInv
<1>3. file' \in Seeds /\ seed' \in Seeds
  BY <1>1, <1>2 DEF EndPass, Shape
<1>4. Covered' /\ MadeMarked' /\ PruneKeeps'
  BY <1>1 DEF EndPass, Covered, MadeMarked, PruneKeeps
<1>5. CASE CallFails \/ Refused
  <2>1. lost' = lost \cup (made \ prev) /\ prev' = prev
    BY <1>5 DEF CallFails, Refused, ReturnError
  <2>2. prev \cup made \cup lost \subseteq prev' \cup made' \cup lost'
    BY <2>1
  <2> QED
    BY <1>2, <1>3, <1>4, <2>2, QuietStep
<1>6. CASE FinishPass
  <2>1. objs' = objs /\ prev' = cur /\ lost' = lost \ cur /\ pc = "prune" /\ todo = {}
    BY <1>1, <1>6 DEF FinishPass, EndPass
  <2>2. ASSUME NEW k \in Keys, objs'[k].by = "shim" PROVE k \in prev' \cup lost'
    <3>1. k \in prev => k \in cur
      BY <2>1, <2>2 DEF ShimInv, PruneKeeps
    <3>2. k \in made => k \in cur
      BY <2>1, ShimAssumption DEF ShimInv, MadeMarked, Covered
    <3>3. k \in prev \cup made \cup lost
      BY <2>1, <2>2, Zenon DEF ShimInv, AccountedFor
    <3> QED
      BY <2>1, <3>1, <3>2, <3>3
  <2>3. AccountedFor'
    BY <2>2 DEF AccountedFor
  <2>4. ForeignKept
    BY <2>1, NoObjectCell DEF ForeignKept
  <2>5. Shape'
    BY <1>2, <1>3, <2>1 DEF Shape
  <2> QED
    BY <1>4, <2>3, <2>4, <2>5 DEF Good, ShimInv
<1> QED
  BY <1>5, <1>6

\* Users and controllers of the inner cluster make nothing the shim's.
LEMMA UserSteps ==
    ASSUME ShimInv, env \in Nat,
           \/ EditSeed
           \/ \E k \in Keys : DeleteObject(k) \/ CreateObject(k)
           \/ \E n \in Namespaces : DeleteNamespace(n) \/ NamespaceController(n)
    PROVE  Good
<1> USE DEF memory, pass
<1>1. /\ pc' = pc /\ todo' = todo /\ at' = at /\ cur' = cur /\ made' = made /\ prev' = prev
      /\ lost' = lost /\ seed' = seed
  BY DEF EditSeed, DeleteObject, CreateObject, DeleteNamespace, NamespaceController
<1>2. file' \in Seeds /\ seed' \in Seeds
  BY <1>1 DEF EditSeed, DeleteObject, CreateObject, DeleteNamespace, NamespaceController, ShimInv, Shape
<1>3. env' = env + 1
  BY DEF EditSeed, DeleteObject, CreateObject, DeleteNamespace, NamespaceController, Disturb
<1>4. objs' \in [Keys -> Cell] /\ \A j \in Keys : objs'[j].by = "shim" => objs[j].by = "shim"
  <2>1. objs \in [Keys -> Cell]
    BY DEF ShimInv, Shape
  <2>2. CASE EditSeed \/ \E n \in Namespaces : DeleteNamespace(n)
    BY <2>1, <2>2 DEF EditSeed, DeleteNamespace
  <2>3. ASSUME NEW k \in Keys, DeleteObject(k) PROVE <1>4!1 /\ <1>4!2
    <3> DEFINE r == IF Kind[k] = "Pod" /\ NodeOf[objs[k].entry] # NoKey
                    THEN [objs[k] EXCEPT !.ending = TRUE] ELSE NoObject
    <3>1. objs[k] \in Cell
      BY <2>1
    <3>2. r \in Cell /\ (r.by = "shim" => objs[k].by = "shim")
      BY <3>1, NoObjectCell, Zenon DEF Cell
    <3>3. objs' = [objs EXCEPT ![k] = r]
      BY <2>3 DEF DeleteObject
    <3> HIDE DEF r
    <3> QED
      BY <2>1, <3>2, <3>3
  <2>4. ASSUME NEW k \in Keys, CreateObject(k) PROVE <1>4!1 /\ <1>4!2
    <3>1. PICK e \in Entries : objs' = [objs EXCEPT ![k] =
             [by |-> "other", entry |-> e, full |-> Kind[k] \notin TwoWrites, ending |-> FALSE]]
      BY <2>4, Zenon DEF CreateObject
    <3> DEFINE r == [by |-> "other", entry |-> e, full |-> Kind[k] \notin TwoWrites, ending |-> FALSE]
    <3>2. r \in Cell /\ r.by = "other"
      BY DEF Cell
    <3>3. objs' = [objs EXCEPT ![k] = r]
      BY <3>1
    <3> HIDE DEF r
    <3> QED
      BY <2>1, <3>2, <3>3
  <2>5. ASSUME NEW n \in Namespaces, NamespaceController(n) PROVE <1>4!1 /\ <1>4!2
    BY <2>1, <2>5, NoObjectCell DEF NamespaceController
  <2> QED
    BY <2>2, <2>3, <2>4, <2>5
<1>5. Shape' /\ AccountedFor' /\ Covered' /\ MadeMarked' /\ PruneKeeps'
  BY <1>1, <1>2, <1>4 DEF ShimInv, Shape, AccountedFor, Covered, MadeMarked, PruneKeeps
<1>6. ForeignKept
  BY <1>3 DEF ForeignKept
<1> QED
  BY <1>5, <1>6 DEF Good, ShimInv

\* A restart loses what it forgets, or there is nothing left to lose.
LEMMA RestartSteps ==
    ASSUME ShimInv, env \in Nat, Restart \/ RestartPod
    PROVE  Good
<1>1. env' = env + 1 /\ Forget
  BY DEF Restart, RestartPod, Disturb
<1>2. Covered' /\ MadeMarked' /\ PruneKeeps'
  BY <1>1 DEF Restart, RestartPod, Forget, Covered, MadeMarked, PruneKeeps
<1>3. Shape'
  BY <1>1, NoObjectCell DEF Restart, RestartPod, Forget, ShimInv, Shape
<1>4. AccountedFor'
  <2>1. CASE objs' = objs /\ lost' = lost \cup prev \cup made
    BY <2>1 DEF ShimInv, AccountedFor
  <2>2. CASE objs' = [k \in Keys |-> NoObject]
    BY <2>2, NoObjectCell DEF AccountedFor
  <2> QED
    BY <2>1, <2>2 DEF Restart, RestartPod
<1>5. ForeignKept
  BY <1>1 DEF ForeignKept
<1> QED
  BY <1>2, <1>3, <1>4, <1>5 DEF Good, ShimInv

-----------------------------------------------------------------------------
(* The theorems *)

\* The counter of the environment's actions is a number.
LEMMA EnvNat == Spec => [](env \in Nat)
<1>1. Init => env \in Nat
  BY DEF Init
<1>2. env \in Nat /\ [Next]_vars => (env \in Nat)'
  <2> SUFFICES ASSUME env \in Nat, [Next]_vars PROVE env' \in Nat
    OBVIOUS
  <2>1. env' = env \/ Disturb
    <3> USE DEF memory, cluster, pass
    <3>1. ASSUME Environment PROVE Disturb
      BY <3>1 DEF Environment, EditSeed, Restart, RestartPod, DeleteObject, CreateObject,
                  DeleteNamespace, NamespaceController
    <3>2. ASSUME NEW k \in Keys, Upsert(k) \/ pruneSeeded(k) PROVE env' = env \/ Disturb
      BY <3>2, Zenon
        DEF Upsert, pruneSeeded, ensureNamespace, upsertNode, ensureNodeLease, createCRD,
                  createController, upsertPod, upsertSecret, createConfigMap, createService
    <3>3. ASSUME NEW n \in Namespaces, FinalizeNamespace(n) PROVE env' = env \/ Disturb
      BY <3>3 DEF FinalizeNamespace
    <3>4. ASSUME SaSetup \/ Boot \/ WriteFiles \/ Reachable \/ StartPass \/ NamespacesDone
          PROVE  env' = env \/ Disturb
      BY <3>4, Zenon DEF SaSetup, Boot, WriteFiles, Reachable, StartPass, reloadSeed, NamespacesDone
    <3>5. ASSUME \/ ControllerStatus \/ UpdateStatus \/ ensureEndpointSlice
                 \/ adoptScheduledPods \/ FinishPass \/ CallFails \/ Refused
          PROVE  env' = env \/ Disturb
      BY <3>5 DEF ControllerStatus, UpdateStatus, ensureEndpointSlice, adoptScheduledPods,
                  FinishPass, CallFails, Refused
    <3>6. CASE UNCHANGED vars
      BY <3>6 DEF vars
    <3> QED
      BY <3>1, <3>2, <3>3, <3>4, <3>5, <3>6 DEF Next, Shim
  <2> QED
    BY <2>1 DEF Disturb
<1> QED
  BY <1>1, <1>2, PTL DEF Spec

\* The shim starts with the invariant.
LEMMA ShimInit == Init => ShimInv
<1> SUFFICES ASSUME Init PROVE ShimInv
  OBVIOUS
<1>1. Shape /\ AccountedFor
  BY NoObjectCell DEF Init, Shape, AccountedFor
<1>2. Covered /\ MadeMarked /\ PruneKeeps
  BY DEF Init, Covered, MadeMarked, PruneKeeps
<1> QED
  BY <1>1, <1>2 DEF ShimInv

\* Every step, whosever it is, keeps the invariant and spares what is foreign.
LEMMA ShimStep ==
    ASSUME ShimInv, env \in Nat, [Next]_vars
    PROVE  Good \/ UNCHANGED vars
<1>1. ASSUME NEW k \in Keys, Upsert(k) \/ pruneSeeded(k) PROVE Good
  BY <1>1, UpsertStep, PruneStep
<1>2. ASSUME NEW n \in Namespaces, FinalizeNamespace(n) PROVE Good
  BY <1>2, FinalizeStep
<1>3. ASSUME Shim PROVE Good
  BY <1>1, <1>2, <1>3, StartSteps, SecondWrites, AdoptStep, EndSteps DEF Shim
<1>4. ASSUME Environment PROVE Good
  BY <1>4, UserSteps, RestartSteps DEF Environment
<1> QED
  BY <1>3, <1>4 DEF Next

\* The invariant holds throughout.
LEMMA ShimInvariant == Spec => []ShimInv
<1>1. ShimInv /\ env \in Nat /\ [Next]_vars => ShimInv'
  <2> SUFFICES ASSUME ShimInv, env \in Nat, [Next]_vars PROVE ShimInv'
    OBVIOUS
  <2>1. CASE Good
    BY <2>1 DEF Good
  <2>2. CASE UNCHANGED vars
    BY <2>2 DEF vars, ShimInv, Shape, Covered, MadeMarked, PruneKeeps, AccountedFor
  <2> QED
    BY <2>1, <2>2, ShimStep
<1> QED
  BY <1>1, ShimInit, EnvNat, PTL DEF Spec

\* In every run of every inner cluster, an object of the shim's that still
\* exists is tracked, just made, or lost in one of the two ways the code loses
\* objects: a pass that returned early, a restart.
THEOREM ShimAccounts == Spec => []AccountedFor
<1>1. ShimInv => AccountedFor
  BY DEF ShimInv
<1> QED
  BY <1>1, ShimInvariant, PTL

\* In every run, a step of the shim removes an object it did not create only
\* under a name the seed has listed or in a namespace found terminating.
THEOREM ShimSparesForeign == Spec => ForeignSpared
<1>1. ShimInv /\ env \in Nat /\ [Next]_vars => [ForeignKept]_vars
  <2> SUFFICES ASSUME ShimInv, env \in Nat, [Next]_vars PROVE ForeignKept \/ UNCHANGED vars
    OBVIOUS
  <2> QED
    BY ShimStep DEF Good
<1> QED
  BY <1>1, ShimInvariant, EnvNat, PTL DEF Spec, ForeignSpared

-----------------------------------------------------------------------------
(* The ServiceAccount directory *)

Running == {"wait", "first", "idle", "namespaces", "apply", "prune"}

\* How far the directory has come, by where the process is.  The init container
\* and the shim write it under different names, so a boot never finds the init
\* container's half; what it finds it has begun itself.
LayoutInv ==
    /\ pc \in {"init", "boot", "files"} \cup Running
    /\ pc = "init" => sa \in {"none", "data", "linked", "done"}
    /\ pc = "boot" => sa \in {"none", "own data", "own link", "done"}
    /\ pc = "files" => sa \in {"own data", "own link", "done"}
    /\ pc \in Running => sa \in {"own link", "done"}

\* A step of the running shim that does not touch the directory.
Onward == pc \in Running /\ pc' \in Running /\ sa' = sa

\* A step of somebody else that touches neither.
Aside == pc' = pc /\ sa' = sa

\* The steps of the init container and of the boot.
LEMMA BootLayout ==
    ASSUME LayoutInv, SaSetup \/ Boot \/ WriteFiles \/ Reachable
    PROVE  LayoutInv'
<1>1. CASE SaSetup
  BY <1>1, Zenon DEF LayoutInv, SaSetup, Running, WriteServiceAccountLayout
<1>2. CASE Boot
  BY <1>2, Zenon DEF LayoutInv, Boot, Running, WriteServiceAccountLayout
<1>3. CASE WriteFiles
  BY <1>3, Zenon DEF LayoutInv, WriteFiles, Running, WriteServiceAccountLayout
<1>4. CASE Reachable
  BY <1>4, Zenon DEF LayoutInv, Reachable, Running, cluster
<1> QED
  BY <1>1, <1>2, <1>3, <1>4

\* A pass, from its start to its end, keeps the shim running.
LEMMA PassLayout ==
    ASSUME ShimInv,
           \/ StartPass \/ (\E n \in Namespaces : FinalizeNamespace(n)) \/ NamespacesDone
           \/ \E k \in Keys : Upsert(k) \/ pruneSeeded(k)
           \/ ControllerStatus \/ UpdateStatus \/ ensureEndpointSlice \/ adoptScheduledPods
           \/ FinishPass \/ CallFails \/ Refused
    PROVE  Onward
<1>1. CASE StartPass \/ (\E n \in Namespaces : FinalizeNamespace(n)) \/ NamespacesDone
  BY <1>1 DEF StartPass, FinalizeNamespace, NamespacesDone, Onward, Running, cluster
<1>2. ASSUME NEW k \in Keys, Upsert(k) PROVE Onward
  BY <1>2, Zenon
    DEF Upsert, ensureNamespace, upsertNode, ensureNodeLease, createCRD, createController,
              upsertPod, upsertSecret, createConfigMap, createService, Turn, Onward, Running
<1>3. CASE (\E k \in Keys : pruneSeeded(k)) \/ ControllerStatus \/ UpdateStatus \/ ensureEndpointSlice \/ adoptScheduledPods
  BY <1>3 DEF pruneSeeded, ControllerStatus, UpdateStatus, ensureEndpointSlice, adoptScheduledPods,
              Onward, Running
<1>4. CASE FinishPass \/ CallFails
  BY <1>4 DEF FinishPass, CallFails, ReturnError, EndPass, Onward, Running, cluster
<1>5. CASE Refused
  <2>1. pc = "apply"
    BY <1>5, Zenon DEF Refused, Turn, ShimInv, Covered
  <2> QED
    BY <1>5, <2>1 DEF Refused, ReturnError, EndPass, Onward, Running, cluster
<1> QED
  BY <1>1, <1>2, <1>3, <1>4, <1>5

\* Users leave it alone; a restart keeps the directory, a new Pod starts over.
LEMMA EnvironmentLayout ==
    ASSUME LayoutInv, Environment
    PROVE  LayoutInv'
<1>1. CASE Restart
  BY <1>1, Zenon DEF Restart, LayoutInv, Running
<1>2. CASE RestartPod
  BY <1>2, Zenon DEF RestartPod, LayoutInv, Running
<1>3. CASE EditSeed
  BY <1>3, Zenon DEF EditSeed, pass, LayoutInv
<1>4. ASSUME NEW k \in Keys, DeleteObject(k) \/ CreateObject(k) PROVE Aside
  BY <1>4 DEF DeleteObject, CreateObject, pass, Aside
<1>5. ASSUME NEW n \in Namespaces, DeleteNamespace(n) \/ NamespaceController(n) PROVE Aside
  BY <1>5 DEF DeleteNamespace, NamespaceController, pass, Aside
<1>6. CASE Aside
  BY <1>6, Zenon DEF Aside, LayoutInv
<1> QED
  BY <1>1, <1>2, <1>3, <1>4, <1>5, <1>6 DEF Environment

\* Every step keeps the directory as far along as the process relies on.
LEMMA LayoutStep ==
    ASSUME ShimInv, LayoutInv, [Next]_vars
    PROVE  LayoutInv'
<1>1. CASE Onward
  BY <1>1, Zenon DEF Onward, LayoutInv, Running
<1>2. CASE SaSetup \/ Boot \/ WriteFiles \/ Reachable
  BY <1>2, BootLayout
<1>3. CASE Shim
  BY <1>1, <1>2, <1>3, PassLayout DEF Shim
<1>4. CASE Environment
  BY <1>4, EnvironmentLayout
<1>5. CASE UNCHANGED vars
  BY <1>5, Zenon DEF vars, LayoutInv
<1> QED
  BY <1>3, <1>4, <1>5 DEF Next

\* Wherever the init container and the shim are killed, and however often the
\* Pod is replaced, the shim seeds and serves only with a directory whose ..data
\* link is in place.
THEOREM LayoutBeforeServing == Spec => []ServingHasLayout
<1>1. Init => LayoutInv
  BY DEF Init, LayoutInv, Running
<1>2. LayoutInv => ServingHasLayout
  BY Zenon DEF LayoutInv, ServingHasLayout, Running
<1> QED
  BY <1>1, <1>2, LayoutStep, ShimInvariant, PTL DEF Spec

=============================================================================
