---------------------------- MODULE ActivityProofs ---------------------------
(***************************************************************************)
(* Proofs about Activity, for any sets of Decoys, handlers and addresses,  *)
(* any faults and any bounds: the inductive invariant, that every step     *)
(* keeps it, and what follows.                                             *)
(***************************************************************************)
EXTENDS Activity, TLAPS

-----------------------------------------------------------------------------
(* Types, and the flush loop's control and copies *)

\* The flush holds a snapshot of d that it has not finished with.
InFlight(d) == \/ d \in fl.todo
               \/ fl.key = d /\ fl.pc \in {"get", "put", "committed"}

\* A counter never claims more flushed than counted, and an absent or clean
\* one has no more to say than that.
CounterInv(d) ==
    /\ counters[d].flushed <= counters[d].count
    /\ ~counters[d].live => counters[d] = NoCounter

\* The snapshot agrees with the counter on what was flushed, and whatever the
\* counter has gained since has made it dirty again.
SnapshotInv(d) ==
    InFlight(d) =>
        /\ counters[d].live
        /\ fl.snap[d].flushed = counters[d].flushed
        /\ fl.snap[d].flushed <= fl.snap[d].count
        /\ fl.snap[d].count <= counters[d].count
        /\ fl.snap[d].count < counters[d].count => counters[d].dirty

\* A fresh copy is the object as it is stored.
CopyInv ==
    /\ fl.pc = "put" /\ fl.fresh => fl.base = store[fl.key].activity
    /\ rec.key # NoDecoy /\ rec.fresh => rec.activity = store[rec.key].activity
    /\ \A d \in Decoys : ~store[d].exists => store[d].activity = NoActivity

\* The loop's control: one entry at a time, none between flushes.
ControlInv ==
    /\ fl.pc \in {"get", "put", "committed"} => fl.key \notin fl.todo
    /\ fl.pc \in {"idle", "done"} => fl.todo = {}

\* RequestsConserved and UnflushedIsPending, for one Decoy.
Conserved(d) ==
    store[d].activity.requestCount + ledger[d].buried + Unflushed(d) - Applied(d)
        = ledger[d].recorded - ledger[d].lost + ledger[d].repeated

Pending(d) == Unflushed(d) > 0 => counters[d].dirty \/ InFlight(d)

KeyInv(d) == CounterInv(d) /\ SnapshotInv(d) /\ Conserved(d) /\ Pending(d)

\* The inductive invariant.
IInv == TypeOK /\ CopyInv /\ ControlInv /\ \A d \in Decoys : KeyInv(d)

-----------------------------------------------------------------------------
(* Type correctness *)

\* What the tracker's helpers return is well formed.
LEMMA CountersType ==
    ASSUME TypeOK, NEW d \in Decoys
    PROVE  /\ Prune(d) \in [Decoys -> Counter]
           /\ Redirty(d) \in [Decoys -> Counter]
           /\ MarkFlushed(d) \in [Decoys -> Counter]
<1>1. Prune(d) \in [Decoys -> Counter]
  BY DEF TypeOK, Prune, NoCounter, Counter, AnyIP
<1>2. Redirty(d) \in [Decoys -> Counter]
  <2>1. counters \in [Decoys -> Counter] /\ counters[d] \in Counter
    BY DEF TypeOK
  <2>2. [counters[d] EXCEPT !.dirty = TRUE] \in Counter
    BY <2>1, Zenon DEF Counter
  <2> QED
    BY <2>1, <2>2, Zenon DEF Redirty
<1>3. MarkFlushed(d) \in [Decoys -> Counter]
  <2>1. fl.snap[d] \in Counter /\ counters \in [Decoys -> Counter]
    BY DEF TypeOK, FlushState
  <2> QED
    BY <2>1 DEF MarkFlushed, Counter
<1> QED
  BY <1>1, <1>2, <1>3

\* Putting an entry aside leaves a well-formed loop with no entry in hand.
LEMMA EntryDoneType ==
    ASSUME TypeOK, fl.key \in Decoys
    PROVE  /\ EntryDone \in FlushState
           /\ EntryDone.pc = "loop"
           /\ EntryDone.key = NoDecoy
           /\ EntryDone.todo = fl.todo
           /\ EntryDone.final = fl.final
           /\ EntryDone.fresh = FALSE
           /\ \A d \in Decoys : d # fl.key => EntryDone.snap[d] = fl.snap[d]
<1>1. NoCounter \in Counter /\ NoActivity \in IntrusionActivity
  BY DEF NoCounter, Counter, NoActivity, IntrusionActivity, AnyIP
<1>2. [fl.snap EXCEPT ![fl.key] = NoCounter] \in [Decoys -> Counter]
  BY <1>1 DEF TypeOK, FlushState
<1> QED
  BY <1>1, <1>2, Zenon DEF TypeOK, FlushState, EntryDone

\* Writing an activity into a stored Decoy, or removing the Decoy, keeps the
\* store well formed.
LEMMA StoreType ==
    ASSUME NEW S \in [Decoys -> Decoy], NEW d \in Decoys, NEW a \in IntrusionActivity
    PROVE  /\ [S EXCEPT ![d].activity = a] \in [Decoys -> Decoy]
           /\ [S EXCEPT ![d].exists = FALSE, ![d].activity = a] \in [Decoys -> Decoy]
<1>1. S[d] \in Decoy
  OBVIOUS
<1>2. [S[d] EXCEPT !.activity = a] \in Decoy
  BY <1>1 DEF Decoy
<1>3. [S[d] EXCEPT !.exists = FALSE] \in Decoy
  BY <1>1, Zenon DEF Decoy
<1>4. [[S[d] EXCEPT !.exists = FALSE] EXCEPT !.activity = a] \in Decoy
  BY <1>3, Zenon DEF Decoy
<1>5. [S EXCEPT ![d].exists = FALSE, ![d].activity = a]
        = [S EXCEPT ![d] = [[S[d] EXCEPT !.exists = FALSE] EXCEPT !.activity = a]]
  BY <1>1, Zenon
<1> QED
  BY <1>2, <1>4, <1>5

\* Init is well formed.
LEMMA TypeInit == Init => TypeOK
<1> USE ActivityAssumption
<1> QED
  BY DEF Init, TypeOK, NoObject, Decoy, IntrusionActivity, NoActivity, AnyIP, Idle,
         Counter, NoCounter, FlushIdle, FlushState, RecIdle, NoLedger

\* Every step of an inductive state leads to a well-formed one.
LEMMA TypeStep == IInv /\ [Next]_vars => TypeOK'
<1> SUFFICES ASSUME IInv, [Next]_vars PROVE TypeOK'
  OBVIOUS
<1> USE ActivityAssumption
<1>0. TypeOK
  BY DEF IInv
<1>a. /\ NoCounter \in Counter /\ NoActivity \in IntrusionActivity
      /\ [d \in Decoys |-> NoCounter] \in [Decoys -> Counter]
      /\ FlushIdle \in FlushState
  BY DEF NoCounter, Counter, NoActivity, IntrusionActivity, AnyIP, FlushIdle, FlushState
<1>b. \A d \in Decoys : Unflushed(d) \in Nat /\ Unflushed(d) - Applied(d) \in Nat
                        /\ Applied(d) \in Nat
  <2> TAKE d \in Decoys
  <2>1. counters[d] \in Counter /\ fl.snap[d] \in Counter
    BY <1>0 DEF TypeOK, FlushState
  <2>2. counters[d].flushed <= counters[d].count
    BY DEF IInv, KeyInv, CounterInv
  <2>3. CASE fl.pc = "committed" /\ fl.key = d
    <3>1. InFlight(d)
      BY <2>3 DEF InFlight
    <3> QED
      BY <2>1, <2>2, <2>3, <3>1 DEF IInv, KeyInv, SnapshotInv, Counter, Unflushed, Applied
  <2>4. CASE ~(fl.pc = "committed" /\ fl.key = d)
    BY <2>1, <2>2, <2>4 DEF Counter, Unflushed, Applied
  <2> QED
    BY <2>3, <2>4
<1>1. ASSUME NEW h \in Handlers, NEW d \in Decoys, NEW ip \in AnyIP, Arrive(h, d, ip)
      PROVE  TypeOK'
  BY <1>0, <1>1 DEF TypeOK, Arrive
<1>2. ASSUME NEW h \in Handlers, Record(h)
      PROVE  TypeOK'
  <2>1. handlers[h].key \in Decoys /\ handlers[h].ip \in AnyIP /\ handlers[h].when \in Nat
    BY <1>0, <1>2 DEF TypeOK, Record
  <2>2. \A c \in Counter : Bump(c, handlers[h].ip, handlers[h].when) \in Counter
    BY <2>1 DEF Bump, Counter
  <2>3. Idle \in [busy : BOOLEAN, key : Decoys \cup {NoDecoy}, ip : AnyIP, when : Nat] /\ ~Idle.busy
    BY DEF Idle, AnyIP
  <2>4. counters' \in [Decoys -> Counter]
    BY <1>0, <1>2, <2>1, <2>2 DEF TypeOK, Record
  <2> QED
    BY <1>0, <1>2, <2>1, <2>3, <2>4, SMTT(30) DEF TypeOK, Record
<1>3. CASE StartFlush
  <2>0. \A d \in Decoys : [counters[d] EXCEPT !.dirty = FALSE] \in Counter
    <3>1. \A c \in Counter : [c EXCEPT !.dirty = FALSE] \in Counter
      BY Zenon DEF Counter
    <3> QED
      BY <1>0, <3>1 DEF TypeOK
  <2>1. counters' \in [Decoys -> Counter]
    BY <1>3, <2>0 DEF StartFlush
  <2>2. [d \in Decoys |-> IF counters[d].dirty THEN counters[d] ELSE NoCounter]
            \in [Decoys -> Counter]
    BY <1>0, <1>a DEF TypeOK
  <2>3. fl' \in FlushState /\ fl'.pc = "loop"
    <3> DEFINE todo0 == {d \in Decoys : counters[d].dirty}
               snap0 == [d \in Decoys |-> IF counters[d].dirty THEN counters[d] ELSE NoCounter]
    <3>1. PICK final \in BOOLEAN :
            fl' = [FlushIdle EXCEPT !.pc = "loop", !.final = final, !.todo = todo0, !.snap = snap0]
      BY <1>3, Zenon DEF StartFlush
    <3>2. todo0 \in SUBSET Decoys /\ snap0 \in [Decoys -> Counter]
      BY <2>2
    <3> HIDE DEF todo0, snap0
    <3>3. fl' = [pc |-> "loop", final |-> final, todo |-> todo0, snap |-> snap0,
                 key |-> NoDecoy, base |-> NoActivity, fresh |-> FALSE, tries |-> 0]
      BY <3>1, Zenon DEF FlushIdle
    <3>4. NoActivity \in IntrusionActivity
      BY <1>a
    <3> QED
      BY <3>2, <3>3, <3>4 DEF FlushState
  <2> QED
    BY <1>0, <1>3, <2>1, <2>3 DEF TypeOK, StartFlush
<1>4. ASSUME NEW d \in Decoys, NextEntry(d)
      PROVE  TypeOK'
  BY <1>0, <1>4, Zenon DEF TypeOK, NextEntry, FlushState
<1>5. CASE GetOK
  BY <1>0, <1>5, Zenon DEF TypeOK, GetOK, FlushState, Decoy
<1>c. ASSUME fl.key \in Decoys
      PROVE  /\ Prune(fl.key) \in [Decoys -> Counter]
             /\ Redirty(fl.key) \in [Decoys -> Counter]
             /\ MarkFlushed(fl.key) \in [Decoys -> Counter]
             /\ EntryDone \in FlushState /\ EntryDone.pc = "loop"
  BY <1>0, <1>c, CountersType, EntryDoneType, Zenon
<1>6. CASE WriteNotFound
  <2>1. fl.key \in Decoys
    BY <1>0, <1>6 DEF TypeOK, WriteNotFound
  <2>2. ledger' \in [Decoys -> [recorded : Nat, lost : Nat, repeated : Nat, buried : Nat]]
    <3>1. ledger[fl.key].lost + Unflushed(fl.key) \in Nat
      BY <1>0, <1>b, <2>1 DEF TypeOK
    <3>2. [ledger[fl.key] EXCEPT !.lost = @ + Unflushed(fl.key)]
            \in [recorded : Nat, lost : Nat, repeated : Nat, buried : Nat]
      BY <1>0, <2>1, <3>1, Zenon DEF TypeOK
    <3> QED
      BY <1>0, <1>6, <2>1, <3>2, Zenon DEF TypeOK, WriteNotFound
  <2>3. fl' \in FlushState /\ fl'.pc = "loop" /\ counters' \in [Decoys -> Counter]
    BY <1>6, <1>c, <2>1 DEF WriteNotFound
  <2> QED
    BY <1>0, <1>6, <2>2, <2>3 DEF TypeOK, WriteNotFound
<1>7. CASE WriteError
  <2>1. fl.key \in Decoys
    BY <1>0, <1>7 DEF TypeOK, WriteError
  <2> QED
    BY <1>0, <1>7, <1>c, <2>1 DEF TypeOK, WriteError, Fault
<1>8. CASE PutConflict
  <2>1. fl.key \in Decoys
    BY <1>0, <1>8 DEF TypeOK, PutConflict
  <2>2. CASE fl.tries + 1 < RetrySteps
    <3>1. fl' \in FlushState
      <4>1. fl \in FlushState
        BY <1>0 DEF TypeOK
      <4>2. fl' = [fl EXCEPT !.pc = "get", !.tries = @ + 1, !.base = NoActivity]
        BY <1>8, <2>2 DEF PutConflict
      <4>3. \A f \in FlushState : [f EXCEPT !.pc = "get"] \in FlushState
        BY DEF FlushState
      <4>4. \A f \in FlushState : [f EXCEPT !.tries = @ + 1] \in FlushState
        BY DEF FlushState
      <4>5. \A f \in FlushState : [f EXCEPT !.base = NoActivity] \in FlushState
        BY <1>a DEF FlushState
      <4>6. fl' = [[[fl EXCEPT !.pc = "get"] EXCEPT !.tries = @ + 1] EXCEPT !.base = NoActivity]
        BY <4>1, <4>2 DEF FlushState
      <4> QED
        BY <4>1, <4>3, <4>4, <4>5, <4>6, Zenon
    <3>2. fl'.key = fl.key
      BY <1>0, <1>8, <2>2, Zenon DEF TypeOK, FlushState, PutConflict
    <3> QED
      BY <1>0, <1>8, <2>1, <2>2, <3>1, <3>2 DEF TypeOK, PutConflict
  <2>3. CASE ~(fl.tries + 1 < RetrySteps)
    BY <1>0, <1>8, <1>c, <2>1, <2>3 DEF TypeOK, PutConflict
  <2> QED
    BY <2>2, <2>3
<1>9. CASE PutCommit
  <2>1. fl.key \in Decoys /\ fl.base \in IntrusionActivity /\ fl.snap[fl.key] \in Counter
    BY <1>0, <1>9 DEF TypeOK, PutCommit, FlushState
  <2>2. fl.snap[fl.key].flushed <= fl.snap[fl.key].count
    <3>1. InFlight(fl.key)
      BY <1>9 DEF PutCommit, InFlight
    <3> QED
      BY <2>1, <3>1 DEF IInv, KeyInv, SnapshotInv
  <2>3. NextActivity(fl.base, fl.snap[fl.key]) \in IntrusionActivity
    BY <2>1, <2>2 DEF NextActivity, Counter, IntrusionActivity
  <2>4. store' \in [Decoys -> Decoy]
    BY <1>0, <1>9, <2>1, <2>3, StoreType, Zenon DEF TypeOK, PutCommit
  <2>5. fl' \in FlushState /\ fl'.key = fl.key
    BY <1>0, <1>9 DEF TypeOK, PutCommit, FlushState
  <2>6. rec' \in [key : Decoys \cup {NoDecoy}, activity : IntrusionActivity, fresh : BOOLEAN]
    BY <1>0, <1>9, Zenon DEF TypeOK, PutCommit
  <2> QED
    BY <1>0, <1>9, <2>1, <2>4, <2>5, <2>6 DEF TypeOK, PutCommit
<1>10. CASE PutAck
  <2>1. fl.key \in Decoys
    BY <1>0, <1>10 DEF TypeOK, PutAck
  <2> QED
    BY <1>0, <1>10, <1>c, <2>1 DEF TypeOK, PutAck
<1>11. CASE PutLostAck
  <2>1. fl.key \in Decoys
    BY <1>0, <1>11 DEF TypeOK, PutLostAck
  <2> QED
    BY <1>0, <1>11, <1>b, <1>c, <2>1 DEF TypeOK, PutLostAck, Fault
<1>12. CASE FinishFlush
  <2>1. fl' \in FlushState /\ fl'.pc \in {"idle", "done"}
    BY <1>12, <1>a DEF FinishFlush, FlushState
  <2> QED
    BY <1>0, <1>12, <2>1 DEF TypeOK, FinishFlush
<1>13. ASSUME NEW d \in Decoys, ReconcileGet(d)
       PROVE  TypeOK'
  BY <1>0, <1>13 DEF TypeOK, ReconcileGet, Fault, Decoy
<1>14. CASE ReconcileUpdate
  <2>1. rec.key \in Decoys /\ rec.activity \in IntrusionActivity
    BY <1>0, <1>14 DEF TypeOK, ReconcileUpdate
  <2>2. RecIdle \in [key : Decoys \cup {NoDecoy}, activity : IntrusionActivity, fresh : BOOLEAN]
    BY <1>a DEF RecIdle
  <2>3. store' \in [Decoys -> Decoy]
    <3>1. store \in [Decoys -> Decoy]
      BY <1>0 DEF TypeOK
    <3>2. store' = store \/ store' = [store EXCEPT ![rec.key].activity = rec.activity]
      BY <1>14 DEF ReconcileUpdate
    <3>3. [store EXCEPT ![rec.key].activity = rec.activity] \in [Decoys -> Decoy]
      BY <2>1, <3>1, StoreType, Zenon, Zenon
    <3> QED
      BY <3>1, <3>2, <3>3
  <2>4. fl' \in FlushState /\ fl'.pc = fl.pc /\ fl'.key = fl.key
    <3>1. fl \in FlushState
      BY <1>0 DEF TypeOK
    <3>2. fl' = fl \/ fl' = [fl EXCEPT !.fresh = @ /\ fl.key # rec.key]
      BY <1>14 DEF ReconcileUpdate
    <3>3. (fl.fresh /\ fl.key # rec.key) \in BOOLEAN
      OBVIOUS
    <3> QED
      BY <3>1, <3>2, <3>3, Zenon DEF FlushState
  <2> QED
    BY <1>0, <1>14, <2>2, <2>3, <2>4 DEF TypeOK, ReconcileUpdate
<1>15. ASSUME NEW d \in Decoys, CreateDecoy(d)
       PROVE  TypeOK'
  <2>1. store' \in [Decoys -> Decoy]
    BY <1>0, <1>15, <1>a DEF TypeOK, CreateDecoy, Decoy
  <2> QED
    BY <1>0, <1>15, <2>1 DEF TypeOK, CreateDecoy
<1>16. ASSUME NEW d \in Decoys, DeleteDecoy(d)
       PROVE  TypeOK'
  <2>0. store[d].activity.requestCount \in Nat
    BY <1>0 DEF TypeOK, Decoy, IntrusionActivity
  <2>1. store' \in [Decoys -> Decoy]
    BY <1>0, <1>16, <1>a, StoreType, Zenon DEF TypeOK, DeleteDecoy
  <2>2. fl' \in FlushState /\ fl'.pc = fl.pc /\ fl'.key = fl.key
    BY <1>0, <1>16, Zenon DEF TypeOK, DeleteDecoy, FlushState
  <2>3. rec' \in [key : Decoys \cup {NoDecoy}, activity : IntrusionActivity, fresh : BOOLEAN]
    BY <1>0, <1>16, Zenon DEF TypeOK, DeleteDecoy
  <2>4. ledger' \in [Decoys -> [recorded : Nat, lost : Nat, repeated : Nat, buried : Nat]]
    BY <1>0, <1>16, <2>0 DEF TypeOK, DeleteDecoy
  <2> QED
    BY <1>0, <1>16, <2>1, <2>2, <2>3, <2>4 DEF TypeOK, DeleteDecoy, Fault
<1>17. CASE Signal
  BY <1>0, <1>17 DEF TypeOK, Signal, Fault
<1>18. ASSUME Restart, UNCHANGED <<now, store>>, faults' \in Nat
       PROVE  TypeOK'
  <2>1. handlers' \in [Handlers -> [busy : BOOLEAN, key : Decoys \cup {NoDecoy},
                                    ip : AnyIP, when : Nat]]
        /\ \A h \in Handlers : ~handlers'[h].busy
    BY <1>18 DEF Restart, Idle, AnyIP
  <2>2. rec' \in [key : Decoys \cup {NoDecoy}, activity : IntrusionActivity, fresh : BOOLEAN]
    BY <1>18, <1>a DEF Restart, RecIdle
  <2>3. ledger' \in [Decoys -> [recorded : Nat, lost : Nat, repeated : Nat, buried : Nat]]
    <3>1. \A d \in Decoys : [ledger[d] EXCEPT !.lost = @ + Unflushed(d) - Applied(d)]
                 \in [recorded : Nat, lost : Nat, repeated : Nat, buried : Nat]
      BY <1>0, <1>b DEF TypeOK
    <3> QED
      BY <1>18, <3>1, Zenon DEF Restart
  <2>4. fl' \in FlushState /\ fl'.pc = "idle" /\ counters' \in [Decoys -> Counter]
    BY <1>18, <1>a DEF Restart, FlushIdle
  <2> QED
    BY <1>0, <1>18, <2>1, <2>2, <2>3, <2>4 DEF TypeOK, Restart
<1>19. CASE Crash
  BY <1>0, <1>18, <1>19 DEF TypeOK, Crash, Fault
<1>20. CASE Exit
  BY <1>0, <1>18, <1>20 DEF TypeOK, Exit
<1>21. CASE UNCHANGED vars
  BY <1>0, <1>21 DEF TypeOK, vars
<1> QED
  BY <1>1, <1>2, <1>3, <1>4, <1>5, <1>6, <1>7, <1>8, <1>9, <1>10, <1>11, <1>12, <1>13,
     <1>14, <1>15, <1>16, <1>17, <1>19, <1>20, <1>21 DEF Next, Flush

-----------------------------------------------------------------------------
(* The loop's control and its copies *)

\* The copy the reconciler writes back is the object as it was: no Decoy's
\* record changes, and the loop only loses its claim to freshness.
LEMMA WriteBack ==
    ASSUME IInv, ReconcileUpdate
    PROVE  /\ \A d \in Decoys : store'[d] = store[d]
           /\ fl'.pc = fl.pc /\ fl'.key = fl.key /\ fl'.todo = fl.todo
           /\ fl'.base = fl.base /\ fl'.snap = fl.snap /\ (fl'.fresh => fl.fresh)
<1> USE ActivityAssumption
<1>0. TypeOK /\ CopyInv
  BY DEF IInv
<1>1. rec.key \in Decoys
  BY <1>0 DEF TypeOK, ReconcileUpdate
<1>2. CASE store[rec.key].exists /\ rec.fresh
  <2>1. rec.activity = store[rec.key].activity
    BY <1>0, <1>2 DEF CopyInv, ReconcileUpdate
  <2>2. store' = [store EXCEPT ![rec.key].activity = store[rec.key].activity]
    BY <1>2, <2>1 DEF ReconcileUpdate
  <2>3. \A d \in Decoys : store'[d] = store[d]
    BY <1>0, <1>1, <2>2 DEF TypeOK, Decoy
  <2>4. fl' = [fl EXCEPT !.fresh = @ /\ fl.key # rec.key]
    BY <1>2 DEF ReconcileUpdate
  <2> QED
    BY <1>0, <2>3, <2>4 DEF TypeOK, FlushState
<1>3. CASE ~(store[rec.key].exists /\ rec.fresh)
  BY <1>3 DEF ReconcileUpdate
<1> QED
  BY <1>2, <1>3

\* Every step keeps a fresh copy equal to what is stored, and the loop's
\* control in order.
LEMMA CopyStep == IInv /\ [Next]_vars => CopyInv' /\ ControlInv'
<1> SUFFICES ASSUME IInv, [Next]_vars PROVE CopyInv' /\ ControlInv'
  OBVIOUS
<1> USE ActivityAssumption
<1>0. TypeOK /\ CopyInv /\ ControlInv
  BY DEF IInv
<1>a. /\ FlushIdle.pc = "idle" /\ FlushIdle.todo = {}
      /\ RecIdle.key = NoDecoy
  BY DEF FlushIdle, RecIdle
<1>b. ASSUME fl.key \in Decoys
      PROVE  EntryDone.pc = "loop" /\ EntryDone.key = NoDecoy
  BY <1>0, <1>b, EntryDoneType, Zenon
<1>1. ASSUME NEW h \in Handlers, NEW d \in Decoys, NEW ip \in AnyIP, Arrive(h, d, ip)
      PROVE  CopyInv' /\ ControlInv'
  BY <1>0, <1>1 DEF CopyInv, ControlInv, Arrive
<1>2. ASSUME NEW h \in Handlers, Record(h)
      PROVE  CopyInv' /\ ControlInv'
  BY <1>0, <1>2 DEF CopyInv, ControlInv, Record
<1>3. CASE StartFlush
  <2>1. fl'.pc = "loop"
    BY <1>3 DEF StartFlush, FlushIdle
  <2> QED
    BY <1>0, <1>3, <2>1 DEF CopyInv, ControlInv, StartFlush
<1>4. ASSUME NEW d \in Decoys, NextEntry(d)
      PROVE  CopyInv' /\ ControlInv'
  <2>1. fl'.pc = "get" /\ fl'.key \notin fl'.todo
    BY <1>0, <1>4 DEF NextEntry, TypeOK, FlushState
  <2> QED
    BY <1>0, <1>4, <2>1 DEF CopyInv, ControlInv, NextEntry
<1>5. CASE GetOK
  <2>1. fl'.pc = "put" /\ fl'.key = fl.key /\ fl'.todo = fl.todo
        /\ fl'.base = store[fl.key].activity
    BY <1>0, <1>5 DEF GetOK, TypeOK, FlushState
  <2> QED
    BY <1>0, <1>5, <2>1 DEF CopyInv, ControlInv, GetOK
<1>6. CASE WriteNotFound \/ WriteError \/ PutAck \/ PutLostAck
  <2>1. fl.key \in Decoys
    BY <1>0, <1>6 DEF TypeOK, WriteNotFound, WriteError, PutAck, PutLostAck
  <2>2. fl' = EntryDone /\ UNCHANGED <<store, rec>>
    BY <1>6 DEF WriteNotFound, WriteError, PutAck, PutLostAck
  <2> QED
    BY <1>0, <1>b, <2>1, <2>2 DEF CopyInv, ControlInv
<1>7. CASE PutConflict
  <2>1. fl.key \in Decoys
    BY <1>0, <1>7 DEF TypeOK, PutConflict
  <2>2. CASE fl' = EntryDone
    BY <1>0, <1>7, <1>b, <2>1, <2>2 DEF CopyInv, ControlInv, PutConflict
  <2>3. CASE fl' = [fl EXCEPT !.pc = "get", !.tries = @ + 1, !.base = NoActivity]
    <3>1. fl'.pc = "get" /\ fl'.key = fl.key /\ fl'.todo = fl.todo
      BY <1>0, <2>3 DEF TypeOK, FlushState
    <3> QED
      BY <1>0, <1>7, <3>1 DEF CopyInv, ControlInv, PutConflict
  <2> QED
    BY <1>7, <2>2, <2>3 DEF PutConflict
<1>8. CASE PutCommit
  <2>1. fl.key \in Decoys
    BY <1>0, <1>8 DEF TypeOK, PutCommit
  <2>2. fl'.pc = "committed" /\ fl'.key = fl.key /\ fl'.todo = fl.todo
    BY <1>0, <1>8 DEF PutCommit, TypeOK, FlushState
  <2>3. \A d \in Decoys : /\ store'[d].exists = store[d].exists
                          /\ d # fl.key => store'[d] = store[d]
    BY <1>0, <1>8, <2>1 DEF PutCommit, TypeOK, Decoy
  <2>4. rec'.key = rec.key /\ rec'.activity = rec.activity
        /\ (rec'.fresh => rec.fresh /\ rec.key # fl.key)
    BY <1>0, <1>8, Zenon DEF PutCommit, TypeOK
  <2>5. store[fl.key].exists
    BY <1>8 DEF PutCommit
  <2>6. rec.key \in Decoys \cup {NoDecoy}
    BY <1>0 DEF TypeOK
  <2> QED
    BY <1>0, <1>8, <2>1, <2>2, <2>3, <2>4, <2>5, <2>6 DEF CopyInv, ControlInv, PutCommit
<1>9. CASE FinishFlush
  <2>1. fl'.pc \in {"idle", "done"} /\ fl'.todo = {}
    BY <1>9 DEF FinishFlush, FlushIdle
  <2> QED
    BY <1>0, <1>9, <2>1 DEF CopyInv, ControlInv, FinishFlush
<1>10. ASSUME NEW d \in Decoys, ReconcileGet(d)
       PROVE  CopyInv' /\ ControlInv'
  BY <1>0, <1>10 DEF CopyInv, ControlInv, ReconcileGet
<1>11. CASE ReconcileUpdate
  <2>1. rec'.key = NoDecoy
    BY <1>11, <1>a DEF ReconcileUpdate
  <2> QED
    BY <1>0, <1>11, <2>1, WriteBack DEF CopyInv, ControlInv, TypeOK
<1>12. ASSUME NEW d \in Decoys, CreateDecoy(d)
       PROVE  CopyInv' /\ ControlInv'
  <2>1. /\ store'[d].exists /\ store'[d].activity = store[d].activity
        /\ \A e \in Decoys : e # d => store'[e] = store[e]
    BY <1>0, <1>12 DEF CreateDecoy, TypeOK, CopyInv
  <2> QED
    BY <1>0, <1>12, <2>1 DEF CopyInv, ControlInv, CreateDecoy, TypeOK
<1>13. ASSUME NEW d \in Decoys, DeleteDecoy(d)
       PROVE  CopyInv' /\ ControlInv'
  <2>1. /\ ~store'[d].exists /\ store'[d].activity = NoActivity
        /\ \A e \in Decoys : e # d => store'[e] = store[e]
    BY <1>0, <1>13 DEF DeleteDecoy, TypeOK, Decoy
  <2>2. fl'.pc = fl.pc /\ fl'.key = fl.key /\ fl'.todo = fl.todo /\ fl'.base = fl.base
        /\ (fl'.fresh => fl.fresh /\ fl.key # d)
    BY <1>0, <1>13, Zenon DEF DeleteDecoy, TypeOK, FlushState
  <2>3. rec'.key = rec.key /\ rec'.activity = rec.activity
        /\ (rec'.fresh => rec.fresh /\ rec.key # d)
    BY <1>0, <1>13, Zenon DEF DeleteDecoy, TypeOK
  <2> QED
    BY <1>0, <2>1, <2>2, <2>3 DEF CopyInv, ControlInv, TypeOK
<1>14. CASE Signal
  BY <1>0, <1>14 DEF CopyInv, ControlInv, Signal
<1>15. CASE Crash \/ Exit
  BY <1>0, <1>15, <1>a DEF CopyInv, ControlInv, Crash, Exit, Restart
<1>16. CASE UNCHANGED vars
  BY <1>0, <1>16 DEF CopyInv, ControlInv, vars
<1> QED
  BY <1>1, <1>2, <1>3, <1>4, <1>5, <1>6, <1>7, <1>8, <1>9, <1>10, <1>11, <1>12, <1>13,
     <1>14, <1>15, <1>16 DEF Next, Flush

-----------------------------------------------------------------------------
(* Each Decoy's counter and balance *)

\* Every step keeps the balance of one Decoy, and its counter and snapshot in
\* agreement.
LEMMA KeyStep ==
    ASSUME IInv, [Next]_vars, TypeOK', NEW d \in Decoys
    PROVE  KeyInv(d)'
<1>0. TypeOK /\ CopyInv /\ ControlInv /\ KeyInv(d)
  BY DEF IInv
<1>t. /\ counters[d] \in Counter /\ fl.snap[d] \in Counter
      /\ store[d].activity.requestCount \in Nat
      /\ ledger[d] \in [recorded : Nat, lost : Nat, repeated : Nat, buried : Nat]
  BY <1>0 DEF TypeOK, FlushState, Decoy, IntrusionActivity
<1>u. /\ counters[d].count \in Nat /\ counters[d].flushed \in Nat
      /\ fl.snap[d].count \in Nat /\ fl.snap[d].flushed \in Nat
      /\ ledger[d].recorded \in Nat /\ ledger[d].lost \in Nat
      /\ ledger[d].repeated \in Nat /\ ledger[d].buried \in Nat
  BY <1>t DEF Counter
<1>n. NoCounter.count = 0 /\ NoCounter.flushed = 0 /\ ~NoCounter.live /\ ~NoCounter.dirty
  BY DEF NoCounter
\* A step that leaves d's counter, snapshot, status and ledger alone.
<1>s. ASSUME counters'[d] = counters[d], store'[d].activity = store[d].activity,
             ledger'[d] = ledger[d], InFlight(d)' <=> InFlight(d), Applied(d)' = Applied(d),
             InFlight(d) => fl'.snap[d] = fl.snap[d]
      PROVE  KeyInv(d)'
  BY <1>0, <1>s DEF KeyInv, CounterInv, SnapshotInv, Conserved, Pending, Unflushed
\* Putting the entry in hand aside leaves the others alone.
<1>d. ASSUME fl.key \in Decoys, fl' = EntryDone, fl.pc \in {"get", "put", "committed"}
      PROVE  /\ Applied(d)' = 0
             /\ d # fl.key => InFlight(d)' <=> InFlight(d)
             /\ d # fl.key => Applied(d) = 0 /\ fl'.snap[d] = fl.snap[d]
             /\ d = fl.key => ~InFlight(d)' /\ InFlight(d)
             /\ fl.pc # "committed" => Applied(d) = 0
  <2>1. /\ EntryDone.pc = "loop" /\ EntryDone.key = NoDecoy /\ EntryDone.todo = fl.todo
        /\ d # fl.key => EntryDone.snap[d] = fl.snap[d]
    BY <1>0, <1>d, EntryDoneType, Zenon
  <2>2. fl.key \notin fl.todo
    BY <1>0, <1>d DEF ControlInv
  <2> QED
    BY ActivityAssumption, <1>d, <2>1, <2>2 DEF InFlight, Applied
<1>1. ASSUME NEW h \in Handlers, NEW e \in Decoys, NEW ip \in AnyIP, Arrive(h, e, ip)
      PROVE  KeyInv(d)'
  BY <1>1, <1>s DEF Arrive, InFlight, Applied
<1>2. ASSUME NEW h \in Handlers, Record(h)
      PROVE  KeyInv(d)'
  <2>0. handlers[h].key \in Decoys
    BY <1>0, <1>2 DEF TypeOK, Record
  <2>1. CASE handlers[h].key = d
    <3>1. /\ counters'[d].live /\ counters'[d].dirty
          /\ counters'[d].count = counters[d].count + 1
          /\ counters'[d].flushed = counters[d].flushed
      BY <1>0, <1>2, <2>1 DEF TypeOK, Record, Bump
    <3>2. ledger'[d] = [ledger[d] EXCEPT !.recorded = @ + 1]
      BY <1>0, <1>2, <2>1 DEF TypeOK, Record
    <3>3. /\ ledger'[d].recorded = ledger[d].recorded + 1 /\ ledger'[d].lost = ledger[d].lost
          /\ ledger'[d].repeated = ledger[d].repeated /\ ledger'[d].buried = ledger[d].buried
      BY <1>t, <3>2
    <3>4. UNCHANGED <<fl, store>>
      BY <1>2 DEF Record
    <3>5. (InFlight(d)' <=> InFlight(d)) /\ Applied(d)' = Applied(d) /\ Applied(d) \in Int
      BY <1>u, <3>4 DEF InFlight, Applied
    <3>6. Unflushed(d)' = Unflushed(d) + 1 /\ Unflushed(d) \in Int
      BY <1>u, <3>1 DEF Unflushed
    <3>7. Conserved(d)'
      BY <1>0, <1>t, <1>u, <3>3, <3>4, <3>5, <3>6, SMTT(30) DEF KeyInv, Conserved
    <3>8. CounterInv(d)' /\ Pending(d)'
      BY <1>0, <1>u, <3>1, SMTT(30) DEF KeyInv, CounterInv, Pending
    <3>9. SnapshotInv(d)'
      BY <1>0, <1>u, <3>1, <3>4, <3>5, SMTT(30) DEF KeyInv, SnapshotInv
    <3> QED
      BY <3>7, <3>8, <3>9 DEF KeyInv
  <2>2. CASE handlers[h].key # d
    BY <1>0, <1>2, <1>s, <2>0, <2>2 DEF Record, TypeOK, InFlight, Applied
  <2> QED
    BY <2>1, <2>2
<1>3. CASE StartFlush
  <2>1. ~InFlight(d) /\ Applied(d) = 0
    BY <1>0, <1>3 DEF StartFlush, ControlInv, InFlight, Applied
  <2>2. /\ fl'.pc = "loop" /\ (d \in fl'.todo <=> counters[d].dirty)
        /\ counters[d].dirty => fl'.snap[d] = counters[d]
    BY <1>3 DEF StartFlush, FlushIdle
  <2>3. /\ counters'[d].live = counters[d].live /\ counters'[d].count = counters[d].count
        /\ counters'[d].flushed = counters[d].flushed /\ counters'[d].dirty = FALSE
        /\ ~counters[d].dirty => counters'[d] = counters[d]
    <3>1. counters'[d] = [counters[d] EXCEPT !.dirty = FALSE]
      BY <1>3 DEF StartFlush
    <3>2. ~counters[d].dirty => counters'[d] = counters[d]
      BY <1>t, <3>1, Zenon DEF Counter
    <3> QED
      BY <1>t, <3>1, <3>2 DEF Counter
  <2>4. (InFlight(d)' <=> counters[d].dirty) /\ Applied(d)' = 0
    BY <2>2 DEF InFlight, Applied
  <2>5. UNCHANGED <<store, ledger>>
    BY <1>3 DEF StartFlush
  <2>6. counters[d].dirty => counters[d].live
    BY <1>0, <1>n DEF KeyInv, CounterInv
  <2> QED
    BY <1>0, <1>u, <1>n, <2>1, <2>2, <2>3, <2>4, <2>5, <2>6, SMTT(30)
    DEF KeyInv, CounterInv, SnapshotInv, Conserved, Pending, Unflushed
<1>4. ASSUME NEW e \in Decoys, NextEntry(e)
      PROVE  KeyInv(d)'
  <2>1. /\ fl'.pc = "get" /\ fl'.key = e /\ fl'.todo = fl.todo \ {e} /\ fl'.snap = fl.snap
        /\ fl.pc = "loop" /\ e \in fl.todo
    BY <1>0, <1>4 DEF NextEntry, TypeOK, FlushState
  <2> QED
    BY <1>4, <1>s, <2>1 DEF NextEntry, InFlight, Applied
<1>5. CASE GetOK
  <2>1. /\ fl'.pc = "put" /\ fl'.key = fl.key /\ fl'.todo = fl.todo /\ fl'.snap = fl.snap
        /\ fl.pc = "get"
    BY <1>0, <1>5 DEF GetOK, TypeOK, FlushState
  <2> QED
    BY <1>5, <1>s, <2>1 DEF GetOK, InFlight, Applied
<1>6. CASE WriteNotFound
  <2>0. fl.key \in Decoys /\ fl' = EntryDone /\ fl.pc \in {"get", "put"}
    BY <1>0, <1>6 DEF TypeOK, WriteNotFound
  <2>1. CASE fl.key = d
    <3>1. counters'[d] = NoCounter
      BY <1>0, <1>6, <2>0, <2>1 DEF TypeOK, WriteNotFound, Prune
    <3>2. ledger'[d] = [ledger[d] EXCEPT !.lost = @ + Unflushed(d)]
      BY <1>0, <1>6, <2>1 DEF TypeOK, WriteNotFound
    <3>3. /\ ledger'[d].recorded = ledger[d].recorded
          /\ ledger'[d].lost = ledger[d].lost + Unflushed(d)
          /\ ledger'[d].repeated = ledger[d].repeated /\ ledger'[d].buried = ledger[d].buried
      BY <1>t, <3>2
    <3>4. store' = store
      BY <1>6 DEF WriteNotFound
    <3>5. ~InFlight(d)' /\ Applied(d)' = 0 /\ Applied(d) = 0
      BY <1>d, <2>0, <2>1
    <3>6. Unflushed(d)' = 0 /\ Unflushed(d) \in Int
      BY <1>u, <1>n, <3>1 DEF Unflushed
    <3>7. Conserved(d)'
      BY <1>0, <1>t, <1>u, <3>3, <3>4, <3>5, <3>6, SMTT(30) DEF KeyInv, Conserved
    <3>8. CounterInv(d)' /\ SnapshotInv(d)' /\ Pending(d)'
      BY <1>n, <3>1, <3>5, <3>6 DEF CounterInv, SnapshotInv, Pending
    <3> QED
      BY <3>7, <3>8 DEF KeyInv
  <2>2. CASE fl.key # d
    BY <1>0, <1>6, <1>d, <1>s, <2>0, <2>2 DEF WriteNotFound, Prune, TypeOK
  <2> QED
    BY <2>1, <2>2
\* A failed write: the entry goes back to the dirty ones.
<1>f. ASSUME fl.key \in Decoys, fl' = EntryDone, fl.pc \in {"get", "put", "committed"},
             counters' = Redirty(fl.key), store' = store,
             fl.key # d => ledger'[d] = ledger[d],
             fl.key = d => ledger'[d] = [ledger[d] EXCEPT !.repeated = @ + Applied(d)]
      PROVE  KeyInv(d)'
  <2>1. CASE fl.key = d
    <3>0. InFlight(d) /\ counters[d].live
      BY <1>0, <1>d, <1>f, <2>1 DEF KeyInv, SnapshotInv
    <3>1. counters'[d] = [counters[d] EXCEPT !.dirty = TRUE]
      BY <1>0, <1>f, <2>1, <3>0 DEF TypeOK, Redirty
    <3>2. /\ counters'[d].live = counters[d].live /\ counters'[d].count = counters[d].count
          /\ counters'[d].flushed = counters[d].flushed /\ counters'[d].dirty = TRUE
      BY <1>t, <3>1 DEF Counter
    <3>3. Applied(d) \in Nat
      BY <1>0, <1>u, <3>0 DEF Applied, KeyInv, SnapshotInv
    <3>4. /\ ledger'[d].recorded = ledger[d].recorded /\ ledger'[d].lost = ledger[d].lost
          /\ ledger'[d].repeated = ledger[d].repeated + Applied(d)
          /\ ledger'[d].buried = ledger[d].buried
      BY <1>t, <1>f, <2>1
    <3> QED
      <4>1. Applied(d)' = 0 /\ ~InFlight(d)' /\ store'[d] = store[d]
        BY <1>d, <1>f, <2>1
      <4>2. CounterInv(d)' /\ SnapshotInv(d)' /\ Pending(d)'
        BY <1>0, <3>0, <3>2, <4>1 DEF KeyInv, CounterInv, SnapshotInv, Pending
      <4>3. Conserved(d)'
        <5>1. Unflushed(d)' = Unflushed(d) /\ Unflushed(d) \in Int
          BY <1>u, <3>2 DEF Unflushed
        <5> QED
          BY <1>0, <1>t, <1>u, <3>3, <3>4, <4>1, <5>1 DEF KeyInv, Conserved
      <4> QED
        BY <4>2, <4>3 DEF KeyInv
  <2>2. CASE fl.key # d
    BY <1>0, <1>d, <1>f, <1>s, <2>2 DEF Redirty, TypeOK
  <2> QED
    BY <2>1, <2>2
<1>7. CASE WriteError
  <2>1. fl.key \in Decoys /\ fl' = EntryDone /\ fl.pc \in {"get", "put"}
    BY <1>0, <1>7 DEF TypeOK, WriteError
  <2>2. fl.key = d => ledger'[d] = [ledger[d] EXCEPT !.repeated = @ + Applied(d)]
    <3>1. Applied(d) = 0
      BY <2>1 DEF Applied
    <3>2. ledger' = ledger
      BY <1>7 DEF WriteError
    <3> QED
      BY <1>t, <3>1, <3>2
  <2> QED
    BY <1>7, <1>f, <2>1, <2>2 DEF WriteError
<1>8. CASE PutConflict
  <2>0. fl.key \in Decoys /\ fl.pc = "put" /\ UNCHANGED <<store, ledger>>
    BY <1>0, <1>8 DEF TypeOK, PutConflict
  <2>1. CASE fl' = EntryDone /\ counters' = Redirty(fl.key)
    <3>1. fl.key = d => ledger'[d] = [ledger[d] EXCEPT !.repeated = @ + Applied(d)]
      <4>1. Applied(d) = 0
        BY <2>0 DEF Applied
      <4> QED
        BY <1>t, <2>0, <4>1
    <3> QED
      BY <1>f, <2>0, <2>1, <3>1
  <2>2. CASE fl' = [fl EXCEPT !.pc = "get", !.tries = @ + 1, !.base = NoActivity]
             /\ counters' = counters
    <3>1. fl'.pc = "get" /\ fl'.key = fl.key /\ fl'.todo = fl.todo /\ fl'.snap = fl.snap
      BY <1>0, <2>2 DEF TypeOK, FlushState
    <3> QED
      BY <1>s, <2>0, <2>2, <3>1 DEF InFlight, Applied
  <2> QED
    BY <1>8, <2>1, <2>2 DEF PutConflict
<1>9. CASE PutCommit
  <2>0. /\ fl.key \in Decoys /\ fl.pc = "put" /\ UNCHANGED <<counters, ledger>>
        /\ fl'.pc = "committed" /\ fl'.key = fl.key /\ fl'.todo = fl.todo /\ fl'.snap = fl.snap
    BY <1>0, <1>9 DEF TypeOK, PutCommit, FlushState
  <2>1. CASE fl.key = d
    <3>1. fl.base = store[d].activity
      BY <1>0, <1>9, <2>1 DEF PutCommit, CopyInv
    <3>2. store'[d] = [store[d] EXCEPT !.activity = NextActivity(fl.base, fl.snap[d])]
      BY <1>0, <1>9, <2>1 DEF TypeOK, PutCommit
    <3>3. store'[d].activity = NextActivity(store[d].activity, fl.snap[d])
      BY <1>0, <3>1, <3>2 DEF TypeOK, Decoy
    <3>4. store'[d].activity.requestCount
            = store[d].activity.requestCount + (fl.snap[d].count - fl.snap[d].flushed)
      BY <3>3 DEF NextActivity
    <3>5. /\ Applied(d) = 0 /\ Applied(d)' = fl.snap[d].count - fl.snap[d].flushed
          /\ InFlight(d) /\ InFlight(d)'
      BY <2>0, <2>1 DEF Applied, InFlight
    <3>6. Unflushed(d)' = Unflushed(d) /\ Unflushed(d) \in Int
      BY <1>u, <2>0 DEF Unflushed
    <3>7. Conserved(d)'
      BY <1>0, <1>t, <1>u, <2>0, <3>4, <3>5, <3>6 DEF KeyInv, Conserved
    <3>8. CounterInv(d)' /\ SnapshotInv(d)' /\ Pending(d)'
      BY <1>0, <2>0, <3>5, <3>6 DEF KeyInv, CounterInv, SnapshotInv, Pending
    <3> QED
      BY <3>7, <3>8 DEF KeyInv
  <2>2. CASE fl.key # d
    <3>1. store'[d] = store[d]
      BY <1>0, <1>9, <2>2 DEF TypeOK, PutCommit
    <3> QED
      BY <1>s, <2>0, <2>2, <3>1 DEF InFlight, Applied
  <2> QED
    BY <2>1, <2>2
<1>10. CASE PutAck
  <2>0. fl.key \in Decoys /\ fl' = EntryDone /\ fl.pc = "committed" /\ UNCHANGED <<store, ledger>>
    BY <1>0, <1>10 DEF TypeOK, PutAck
  <2>1. CASE fl.key = d
    <3>0. InFlight(d) /\ counters[d].live /\ Applied(d) = fl.snap[d].count - fl.snap[d].flushed
      BY <1>0, <1>d, <2>0, <2>1 DEF KeyInv, SnapshotInv, Applied
    <3>1. counters'[d] = [counters[d] EXCEPT !.flushed = fl.snap[d].count]
      BY <1>0, <1>10, <2>1, <3>0 DEF TypeOK, PutAck, MarkFlushed
    <3>2. /\ counters'[d].live = counters[d].live /\ counters'[d].count = counters[d].count
          /\ counters'[d].flushed = fl.snap[d].count /\ counters'[d].dirty = counters[d].dirty
      BY <1>t, <3>1 DEF Counter
    <3>3. ~InFlight(d)' /\ Applied(d)' = 0
      BY <1>d, <2>0, <2>1
    <3>4. /\ fl.snap[d].flushed = counters[d].flushed
          /\ fl.snap[d].count <= counters[d].count
          /\ fl.snap[d].count < counters[d].count => counters[d].dirty
      BY <1>0, <3>0 DEF KeyInv, SnapshotInv
    <3>5. CounterInv(d)'
      BY <3>0, <3>2, <3>4 DEF CounterInv
    <3>6. SnapshotInv(d)'
      BY <3>3 DEF SnapshotInv
    <3>7. Unflushed(d)' = Unflushed(d) - Applied(d)
      BY <1>u, <3>0, <3>2, <3>4 DEF Unflushed
    <3>8. Unflushed(d) \in Int /\ Applied(d) \in Int
      BY <1>u, <3>0 DEF Unflushed
    <3>9. Conserved(d)'
      BY <1>0, <1>t, <1>u, <2>0, <3>3, <3>7, <3>8 DEF KeyInv, Conserved
    <3>10. Pending(d)'
      BY <1>u, <3>2, <3>4 DEF Pending, Unflushed
    <3> QED
      BY <3>5, <3>6, <3>9, <3>10 DEF KeyInv
  <2>2. CASE fl.key # d
    BY <1>0, <1>10, <1>d, <1>s, <2>0, <2>2 DEF PutAck, MarkFlushed, TypeOK
  <2> QED
    BY <2>1, <2>2
<1>11. CASE PutLostAck
  <2>1. fl.key \in Decoys /\ fl.pc = "committed"
    BY <1>0, <1>11 DEF TypeOK, PutLostAck
  <2>2. /\ fl.key # d => ledger'[d] = ledger[d]
        /\ fl.key = d => ledger'[d] = [ledger[d] EXCEPT !.repeated = @ + Applied(d)]
    BY <1>0, <1>11, <2>1, Zenon DEF TypeOK, PutLostAck
  <2> QED
    BY <1>11, <1>f, <2>1, <2>2 DEF PutLostAck
<1>12. CASE FinishFlush
  <2>1. ~InFlight(d) /\ ~InFlight(d)' /\ Applied(d) = 0 /\ Applied(d)' = 0
    BY <1>12 DEF FinishFlush, FlushIdle, InFlight, Applied
  <2> QED
    BY <1>12, <1>s, <2>1 DEF FinishFlush
<1>13. ASSUME NEW e \in Decoys, ReconcileGet(e)
       PROVE  KeyInv(d)'
  BY <1>13, <1>s DEF ReconcileGet, InFlight, Applied
<1>14. CASE ReconcileUpdate
  <2>1. UNCHANGED <<counters, ledger>>
    BY <1>14 DEF ReconcileUpdate
  <2> QED
    BY <1>14, <1>s, <2>1, WriteBack DEF InFlight, Applied
<1>15. ASSUME NEW e \in Decoys, CreateDecoy(e)
       PROVE  KeyInv(d)'
  <2>1. store'[d].activity = store[d].activity
    BY <1>0, <1>15 DEF CreateDecoy, TypeOK, CopyInv
  <2> QED
    BY <1>15, <1>s, <2>1 DEF CreateDecoy, InFlight, Applied
<1>16. ASSUME NEW e \in Decoys, DeleteDecoy(e)
       PROVE  KeyInv(d)'
  <2>0. /\ fl'.pc = fl.pc /\ fl'.key = fl.key /\ fl'.todo = fl.todo /\ fl'.snap = fl.snap
        /\ counters' = counters
    BY <1>0, <1>16 DEF DeleteDecoy, TypeOK, FlushState
  <2>1. CASE e = d
    <3>1. store'[d].activity.requestCount = 0
      BY <1>0, <1>16, <2>1 DEF DeleteDecoy, TypeOK, Decoy, NoActivity
    <3>2. ledger'[d] = [ledger[d] EXCEPT !.buried = @ + store[d].activity.requestCount]
      BY <1>0, <1>16, <2>1 DEF TypeOK, DeleteDecoy
    <3>3. /\ ledger'[d].recorded = ledger[d].recorded /\ ledger'[d].lost = ledger[d].lost
          /\ ledger'[d].repeated = ledger[d].repeated
          /\ ledger'[d].buried = ledger[d].buried + store[d].activity.requestCount
      BY <1>t, <3>2
    <3>4. (InFlight(d)' <=> InFlight(d)) /\ Applied(d)' = Applied(d)
      BY <2>0 DEF InFlight, Applied
    <3>5. Applied(d) \in Int
      BY <1>u DEF Applied
    <3>6. Conserved(d)'
      <4>1. Unflushed(d)' = Unflushed(d) /\ Unflushed(d) \in Int
        BY <1>u, <2>0 DEF Unflushed
      <4> QED
        BY <1>0, <1>t, <1>u, <3>1, <3>3, <3>4, <3>5, <4>1, SMTT(30) DEF KeyInv, Conserved
    <3>7. CounterInv(d)' /\ SnapshotInv(d)' /\ Pending(d)'
      BY <1>0, <2>0, <3>4 DEF KeyInv, CounterInv, SnapshotInv, Pending, Unflushed
    <3> QED
      BY <3>6, <3>7 DEF KeyInv
  <2>2. CASE e # d
    <3>1. store'[d] = store[d] /\ ledger'[d] = ledger[d]
      BY <1>0, <1>16, <2>2 DEF TypeOK, DeleteDecoy
    <3> QED
      BY <1>s, <2>0, <3>1 DEF InFlight, Applied
  <2> QED
    BY <2>1, <2>2
<1>17. CASE Signal
  BY <1>17, <1>s DEF Signal, InFlight, Applied
<1>18. CASE Crash \/ Exit
  <2>1. Restart /\ store' = store
    BY <1>18 DEF Crash, Exit
  <2>2. counters'[d] = NoCounter /\ ~InFlight(d)' /\ Applied(d)' = 0
    BY <2>1 DEF Restart, FlushIdle, InFlight, Applied
  <2>3. ledger'[d] = [ledger[d] EXCEPT !.lost = @ + Unflushed(d) - Applied(d)]
    BY <2>1 DEF Restart
  <2>4. /\ ledger'[d].recorded = ledger[d].recorded
        /\ ledger'[d].lost = ledger[d].lost + Unflushed(d) - Applied(d)
        /\ ledger'[d].repeated = ledger[d].repeated /\ ledger'[d].buried = ledger[d].buried
    BY <1>t, <2>3
  <2>5. Applied(d) \in Int
    BY <1>u DEF Applied
  <2>6. Unflushed(d)' = 0 /\ Unflushed(d) \in Int
    BY <1>u, <1>n, <2>2 DEF Unflushed
  <2>7. Conserved(d)'
    <3>1. store[d].activity.requestCount + ledger[d].buried + Unflushed(d) - Applied(d)
            = ledger[d].recorded - ledger[d].lost + ledger[d].repeated
      BY <1>0 DEF KeyInv, Conserved
    <3>2. /\ store'[d].activity.requestCount = store[d].activity.requestCount
          /\ store[d].activity.requestCount \in Nat
      BY <1>t, <2>1
    <3> QED
      BY <1>u, <2>2, <2>4, <2>5, <2>6, <3>1, <3>2, SMTT(30) DEF Conserved
  <2>8. CounterInv(d)' /\ Pending(d)'
    BY <1>n, <2>2, <2>6 DEF CounterInv, Pending
  <2>9. SnapshotInv(d)'
    BY <2>2 DEF SnapshotInv
  <2> QED
    BY <2>7, <2>8, <2>9 DEF KeyInv
<1>19. CASE UNCHANGED vars
  BY <1>19, <1>s DEF vars, InFlight, Applied
<1> QED
  BY <1>1, <1>2, <1>3, <1>4, <1>5, <1>6, <1>7, <1>8, <1>9, <1>10, <1>11, <1>12, <1>13,
     <1>14, <1>15, <1>16, <1>17, <1>18, <1>19 DEF Next, Flush

-----------------------------------------------------------------------------
(* The theorems *)

\* The initial state satisfies the inductive invariant.
LEMMA IInvInit == Init => IInv
<1> SUFFICES ASSUME Init PROVE IInv
  OBVIOUS
<1>1. CopyInv /\ ControlInv
  BY DEF Init, CopyInv, ControlInv, FlushIdle, RecIdle, NoObject
<1>2. ASSUME NEW d \in Decoys PROVE KeyInv(d)
  BY SMTT(30) DEF Init, KeyInv, CounterInv, SnapshotInv, Conserved, Pending, Unflushed, InFlight,
         Applied, FlushIdle, NoCounter, NoObject, NoActivity, NoLedger
<1> QED
  BY <1>1, <1>2, TypeInit DEF IInv

\* Every step preserves it.
LEMMA IInvStep == IInv /\ [Next]_vars => IInv'
  BY TypeStep, CopyStep, KeyStep DEF IInv

\* The inductive invariant always holds of the tracker and its environment.
THEOREM IInvAlways == Spec => []IInv
<1> QED
  BY IInvInit, IInvStep, PTL DEF Spec

\* The state of the tracker, its loop and the store keeps its shape.
THEOREM TypeCorrect == Spec => []TypeOK
<1>1. IInv => TypeOK
  BY DEF IInv
<1> QED
  BY <1>1, IInvAlways, PTL

\* Every request recorded is counted in a status, held in memory, dropped with
\* its Decoy or process, or repeated by an unacknowledged update; nothing else
\* the tracker or the reconciler does (tracker.go 49-171) changes the balance.
THEOREM Conservation == Spec => []RequestsConserved
<1>1. IInv => RequestsConserved
  BY Zenon DEF IInv, KeyInv, Conserved, RequestsConserved
<1> QED
  BY <1>1, IInvAlways, PTL

\* A request that no status shows yet always belongs to a dirty counter or to
\* the flush under way (tracker.go 92-137).
THEOREM NothingForgotten == Spec => []UnflushedIsPending
<1>1. IInv => UnflushedIsPending
  BY DEF IInv, KeyInv, Pending, InFlight, UnflushedIsPending
<1> QED
  BY <1>1, IInvAlways, PTL

-----------------------------------------------------------------------------
(* A Decoy's summary only grows, by the order of times *)

\* Times are ordered the way requests travel: from the clock to a handler, to
\* the counter, to a snapshot, to the status.
TimeInv(d) ==
    /\ store[d].activity.lastSeen <= now
    /\ counters[d].lastSeen <= now
    /\ counters[d].live => store[d].activity.lastSeen <= counters[d].lastSeen
    /\ \A h \in Handlers : handlers[h].busy /\ handlers[h].key = d =>
          /\ handlers[h].when <= now
          /\ ~counters[d].live => store[d].activity.lastSeen <= handlers[h].when
    /\ InFlight(d) => /\ fl.snap[d].lastSeen <= counters[d].lastSeen
                      /\ store[d].activity.lastSeen <= fl.snap[d].lastSeen

TInv == IInv /\ \A d \in Decoys : TimeInv(d)

\* Every step keeps the times of one Decoy in order.
LEMMA TimeStep ==
    ASSUME TInv, [Next]_vars, TypeOK', NEW d \in Decoys
    PROVE  TimeInv(d)'
<1>0. TypeOK /\ CopyInv /\ ControlInv /\ KeyInv(d) /\ TimeInv(d)
  BY DEF TInv, IInv
<1>t. /\ counters[d] \in Counter /\ counters'[d] \in Counter
      /\ fl.snap[d] \in Counter /\ now \in Nat
      /\ store[d].activity.lastSeen \in Nat /\ store'[d].activity.lastSeen \in Nat
      /\ \A h \in Handlers : handlers[h].when \in Nat
  BY <1>0 DEF TypeOK, FlushState, Decoy, IntrusionActivity
<1>u. counters[d].lastSeen \in Nat /\ counters'[d].lastSeen \in Nat /\ fl.snap[d].lastSeen \in Nat
  BY <1>t DEF Counter
\* A step that leaves all of it alone.
<1>k. ASSUME UNCHANGED <<now, store, handlers, counters, fl>>
      PROVE  TimeInv(d)'
  BY <1>0, <1>k DEF TimeInv, InFlight
\* A step that starts nothing new for d.
<1>s. ASSUME now' = now \/ now' = now + 1,
             counters'[d].live = counters[d].live,
             counters'[d].lastSeen = counters[d].lastSeen,
             store'[d].activity.lastSeen <= store[d].activity.lastSeen,
             \A h \in Handlers : \/ handlers'[h] = handlers[h]
                                 \/ ~handlers'[h].busy
                                 \/ handlers'[h].key # d,
             InFlight(d)' => InFlight(d) /\ fl'.snap[d] = fl.snap[d]
      PROVE  TimeInv(d)'
  BY <1>0, <1>s, <1>t, <1>u, SMTT(30) DEF TimeInv
\* Putting the entry in hand aside, the counter's times as they were.
<1>d. ASSUME fl.key \in Decoys, fl' = EntryDone, fl.pc \in {"get", "put", "committed"}
      PROVE  InFlight(d)' => d # fl.key /\ InFlight(d) /\ fl'.snap[d] = fl.snap[d]
  <2>1. /\ EntryDone.pc = "loop" /\ EntryDone.key = NoDecoy /\ EntryDone.todo = fl.todo
        /\ d # fl.key => EntryDone.snap[d] = fl.snap[d]
    BY <1>0, <1>d, EntryDoneType, Zenon
  <2>2. fl.key \notin fl.todo
    BY <1>0, <1>d DEF ControlInv
  <2> QED
    BY ActivityAssumption, <1>d, <2>1, <2>2 DEF InFlight
<1>e. ASSUME fl.key \in Decoys, fl' = EntryDone, fl.pc \in {"get", "put", "committed"},
             counters' = Redirty(fl.key) \/ counters' = MarkFlushed(fl.key),
             UNCHANGED <<now, store, handlers>>
      PROVE  TimeInv(d)'
  <2>1. /\ counters'[d].live = counters[d].live
        /\ counters'[d].lastSeen = counters[d].lastSeen
    <3>1. \/ counters'[d] = counters[d]
          \/ counters'[d] = [counters[d] EXCEPT !.dirty = TRUE]
          \/ counters'[d] = [counters[d] EXCEPT !.flushed = fl.snap[d].count]
      BY <1>0, <1>e DEF TypeOK, Redirty, MarkFlushed
    <3> QED
      BY <1>t, <3>1 DEF Counter
  <2>2. InFlight(d)' => InFlight(d) /\ fl'.snap[d] = fl.snap[d]
    BY <1>d, <1>e
  <2>3. now' = now /\ handlers' = handlers /\ store'[d].activity.lastSeen <= store[d].activity.lastSeen
    BY <1>e, <1>t
  <2> QED
    BY <1>s, <2>1, <2>2, <2>3
<1>1. ASSUME NEW h \in Handlers, NEW e \in Decoys, NEW ip \in AnyIP, Arrive(h, e, ip)
      PROVE  TimeInv(d)'
  <2>1. /\ now' = now + 1 /\ UNCHANGED <<store, counters, fl>>
        /\ handlers'[h].when = now + 1
        /\ \A g \in Handlers \ {h} : handlers'[g] = handlers[g]
    BY <1>0, <1>1 DEF Arrive, TypeOK
  <2> QED
    BY <1>0, <1>t, <1>u, <2>1, SMTT(30) DEF TimeInv, InFlight
<1>2. ASSUME NEW h \in Handlers, Record(h)
      PROVE  TimeInv(d)'
  <2>0. /\ handlers[h].key \in Decoys /\ handlers[h].busy /\ UNCHANGED <<now, store, fl>>
        /\ ~handlers'[h].busy /\ \A g \in Handlers \ {h} : handlers'[g] = handlers[g]
    BY <1>0, <1>2 DEF TypeOK, Record, Idle
  <2>1. CASE handlers[h].key = d
    <3>1. counters'[d] = Bump(counters[d], handlers[h].ip, handlers[h].when)
      BY <1>0, <1>2, <2>1 DEF TypeOK, Record
    <3>2. /\ counters'[d].live
          /\ counters'[d].lastSeen = IF handlers[h].when > counters[d].lastSeen
                                      THEN handlers[h].when ELSE counters[d].lastSeen
      BY <3>1, SMTT(30) DEF Bump
    <3>3. handlers[h].when <= now /\ handlers[h].when \in Nat
      BY <1>0, <1>t, <2>0, <2>1 DEF TimeInv
    <3>4. /\ counters[d].lastSeen <= counters'[d].lastSeen /\ counters'[d].lastSeen <= now
          /\ handlers[h].when <= counters'[d].lastSeen
      <4>1. counters[d].lastSeen <= now
        BY <1>0 DEF TimeInv
      <4> QED
        BY <1>t, <1>u, <3>2, <3>3, <4>1
    <3>5. store[d].activity.lastSeen <= counters'[d].lastSeen
      <4>1. \/ store[d].activity.lastSeen <= counters[d].lastSeen
            \/ store[d].activity.lastSeen <= handlers[h].when
        BY <1>0, <2>0, <2>1 DEF TimeInv
      <4> QED
        BY <1>t, <1>u, <3>3, <3>4, <4>1
    <3>6. \A g \in Handlers : handlers'[g].busy /\ handlers'[g].key = d => handlers'[g].when <= now
      BY <1>0, <2>0 DEF TimeInv
    <3>7. InFlight(d)' => /\ fl.snap[d].lastSeen <= counters'[d].lastSeen
                          /\ store[d].activity.lastSeen <= fl.snap[d].lastSeen
      <4>1. InFlight(d)' => InFlight(d)
        BY <2>0 DEF InFlight
      <4>2. InFlight(d) => /\ fl.snap[d].lastSeen <= counters[d].lastSeen
                           /\ store[d].activity.lastSeen <= fl.snap[d].lastSeen
        BY <1>0 DEF TimeInv
      <4> QED
        BY <1>u, <3>4, <4>1, <4>2, SMTT(30)
    <3>8. store[d].activity.lastSeen <= now
      BY <1>0 DEF TimeInv
    <3> QED
      BY <2>0, <3>2, <3>4, <3>5, <3>6, <3>7, <3>8, Zenon DEF TimeInv
  <2>2. CASE handlers[h].key # d
    <3>1. counters'[d] = counters[d]
      BY <1>0, <1>2, <2>0, <2>2 DEF Record, TypeOK
    <3> QED
      BY <1>s, <1>t, <2>0, <3>1, SMTT(30) DEF InFlight
  <2> QED
    BY <2>1, <2>2
<1>3. CASE StartFlush
  <2>1. /\ fl'.pc = "loop" /\ (d \in fl'.todo <=> counters[d].dirty)
        /\ counters[d].dirty => fl'.snap[d] = counters[d]
    BY <1>3 DEF StartFlush, FlushIdle
  <2>2. counters'[d] = [counters[d] EXCEPT !.dirty = FALSE] /\ UNCHANGED <<now, store, handlers>>
    BY <1>3 DEF StartFlush
  <2>3. counters'[d].live = counters[d].live /\ counters'[d].lastSeen = counters[d].lastSeen
    BY <1>t, <2>2 DEF Counter
  <2>4. counters[d].dirty => counters[d].live
    BY <1>0 DEF KeyInv, CounterInv, NoCounter
  <2>5. InFlight(d)' => counters[d].dirty
    BY <2>1 DEF InFlight
  <2> QED
    BY <1>0, <1>t, <1>u, <2>1, <2>2, <2>3, <2>4, <2>5 DEF TimeInv
<1>4. ASSUME NEW e \in Decoys, NextEntry(e)
      PROVE  TimeInv(d)'
  <2>1. /\ fl.pc = "loop" /\ e \in fl.todo /\ fl'.key = e /\ fl'.todo = fl.todo \ {e}
        /\ fl'.snap = fl.snap
    BY <1>0, <1>4 DEF NextEntry, TypeOK, FlushState
  <2> QED
    BY <1>4, <1>s, <1>t, <2>1 DEF NextEntry, InFlight
<1>5. CASE GetOK
  <2>1. /\ fl.pc = "get" /\ fl'.pc = "put" /\ fl'.key = fl.key /\ fl'.todo = fl.todo
        /\ fl'.snap = fl.snap
    BY <1>0, <1>5 DEF GetOK, TypeOK, FlushState
  <2> QED
    BY <1>5, <1>s, <1>t, <2>1 DEF GetOK, InFlight
<1>6. CASE WriteNotFound
  <2>0. /\ fl.key \in Decoys /\ fl' = EntryDone /\ fl.pc \in {"get", "put"}
        /\ UNCHANGED <<now, store, handlers>> /\ ~store[fl.key].exists
    BY <1>0, <1>6 DEF TypeOK, WriteNotFound
  <2>1. CASE fl.key = d
    <3>1. counters'[d].lastSeen = 0 /\ ~counters'[d].live
      BY <1>0, <1>6, <2>0, <2>1 DEF TypeOK, WriteNotFound, Prune, NoCounter
    <3>2. store[d].activity.lastSeen = 0
      <4>1. store[d].activity = NoActivity
        BY <1>0, <2>0, <2>1 DEF CopyInv
      <4> QED
        BY <4>1 DEF NoActivity
    <3>3. ~InFlight(d)'
      BY <1>d, <2>0, <2>1
    <3>4. \A h \in Handlers : handlers[h].busy /\ handlers[h].key = d =>
                                 handlers[h].when <= now /\ 0 <= handlers[h].when
      BY <1>0, <1>t DEF TimeInv
    <3>5. 0 <= now
      BY <1>t
    <3> QED
      BY <2>0, <3>1, <3>2, <3>3, <3>4, <3>5 DEF TimeInv
  <2>2. CASE fl.key # d
    <3>1. counters'[d] = counters[d]
      BY <1>0, <1>6, <2>2 DEF WriteNotFound, Prune, TypeOK
    <3>2. InFlight(d)' => InFlight(d) /\ fl'.snap[d] = fl.snap[d]
      BY <1>d, <2>0
    <3>3. store'[d].activity.lastSeen <= store[d].activity.lastSeen
      BY <1>t, <2>0
    <3> QED
      BY <1>s, <2>0, <3>1, <3>2, <3>3
  <2> QED
    BY <2>1, <2>2
<1>7. CASE WriteError \/ PutAck \/ PutLostAck
  BY <1>0, <1>7, <1>e DEF TypeOK, WriteError, PutAck, PutLostAck
<1>8. CASE PutConflict
  <2>0. fl.key \in Decoys /\ fl.pc = "put" /\ UNCHANGED <<now, store, handlers>>
    BY <1>0, <1>8 DEF TypeOK, PutConflict
  <2>1. CASE fl' = EntryDone /\ counters' = Redirty(fl.key)
    BY <1>e, <2>0, <2>1
  <2>2. CASE fl' = [fl EXCEPT !.pc = "get", !.tries = @ + 1, !.base = NoActivity]
             /\ counters' = counters
    <3>1. fl'.pc = "get" /\ fl'.key = fl.key /\ fl'.todo = fl.todo /\ fl'.snap = fl.snap
      BY <1>0, <2>2 DEF TypeOK, FlushState
    <3> QED
      BY <1>s, <1>t, <2>0, <2>2, <3>1 DEF InFlight
  <2> QED
    BY <1>8, <2>1, <2>2 DEF PutConflict
<1>9. CASE PutCommit
  <2>0. /\ fl.key \in Decoys /\ fl.pc = "put" /\ UNCHANGED <<now, counters, handlers>>
        /\ fl'.pc = "committed" /\ fl'.key = fl.key /\ fl'.todo = fl.todo /\ fl'.snap = fl.snap
    BY <1>0, <1>9 DEF TypeOK, PutCommit, FlushState
  <2>1. CASE fl.key = d
    <3>1. store'[d].activity.lastSeen = fl.snap[d].lastSeen
      BY <1>0, <1>9, <2>1 DEF TypeOK, PutCommit, Decoy, NextActivity
    <3>2. InFlight(d) /\ counters[d].live
      BY <1>0, <2>0, <2>1 DEF InFlight, KeyInv, SnapshotInv
    <3> QED
      BY <1>0, <1>t, <1>u, <2>0, <3>1, <3>2, SMTT(30) DEF TimeInv
  <2>2. CASE fl.key # d
    <3>1. store'[d] = store[d]
      BY <1>0, <1>9, <2>2 DEF TypeOK, PutCommit
    <3>2. InFlight(d)' => InFlight(d) /\ fl'.snap[d] = fl.snap[d]
      BY <2>0 DEF InFlight
    <3>3. store'[d].activity.lastSeen <= store[d].activity.lastSeen
      BY <1>t, <3>1
    <3> QED
      BY <1>s, <2>0, <3>2, <3>3
  <2> QED
    BY <2>1, <2>2
<1>10. CASE FinishFlush
  <2>1. ~InFlight(d)'
    BY <1>10 DEF FinishFlush, FlushIdle, InFlight
  <2> QED
    BY <1>10, <1>s, <1>t, <2>1 DEF FinishFlush
<1>11. ASSUME NEW e \in Decoys, ReconcileGet(e)
       PROVE  TimeInv(d)'
  BY <1>11, <1>k DEF ReconcileGet
<1>12. CASE ReconcileUpdate
  <2>1. UNCHANGED <<now, counters, handlers>>
    BY <1>12 DEF ReconcileUpdate
  <2> QED
    BY <1>12, <1>s, <1>t, <2>1, WriteBack DEF InFlight, TInv
<1>13. ASSUME NEW e \in Decoys, CreateDecoy(e)
       PROVE  TimeInv(d)'
  <2>1. store'[d].activity = store[d].activity
    BY <1>0, <1>13 DEF CreateDecoy, TypeOK, CopyInv
  <2> QED
    BY <1>13, <1>s, <1>t, <2>1, SMTT(30) DEF CreateDecoy, InFlight
<1>14. ASSUME NEW e \in Decoys, DeleteDecoy(e)
       PROVE  TimeInv(d)'
  <2>0. /\ fl'.pc = fl.pc /\ fl'.key = fl.key /\ fl'.todo = fl.todo /\ fl'.snap = fl.snap
        /\ UNCHANGED <<now, counters, handlers>>
    BY <1>0, <1>14 DEF DeleteDecoy, TypeOK, FlushState
  <2>1. store'[d].activity.lastSeen \in {0, store[d].activity.lastSeen}
    BY <1>0, <1>14 DEF DeleteDecoy, TypeOK, Decoy, NoActivity
  <2>2. store'[d].activity.lastSeen <= store[d].activity.lastSeen
    BY <1>t, <2>1
  <2> QED
    BY <1>s, <1>t, <2>0, <2>2 DEF InFlight
<1>15. CASE Signal
  BY <1>15, <1>k DEF Signal
<1>16. CASE Crash \/ Exit
  <2>1. Restart /\ UNCHANGED <<now, store>>
    BY <1>16 DEF Crash, Exit
  <2>2. /\ ~counters'[d].live /\ counters'[d].lastSeen = 0 /\ ~InFlight(d)'
        /\ \A h \in Handlers : ~handlers'[h].busy
    BY <2>1 DEF Restart, NoCounter, FlushIdle, Idle, InFlight
  <2>3. store[d].activity.lastSeen <= now /\ 0 <= now
    BY <1>0, <1>t, SMTT(30) DEF TimeInv
  <2> QED
    BY <2>1, <2>2, <2>3 DEF TimeInv
<1>17. CASE UNCHANGED vars
  BY <1>17, <1>k DEF vars
<1> QED
  BY <1>1, <1>2, <1>3, <1>4, <1>5, <1>6, <1>7, <1>8, <1>9, <1>10, <1>11, <1>12, <1>13,
     <1>14, <1>15, <1>16, <1>17 DEF Next, Flush

\* What one step may do to the summary of a Decoy that stays the same object.
LEMMA GrowStep ==
    ASSUME TInv, [Next]_vars, TypeOK', NEW d \in Decoys,
           store[d].exists, store'[d].exists, store'[d].created = store[d].created
    PROVE  /\ store[d].activity.firstSeen # 0 =>
                 store'[d].activity.firstSeen = store[d].activity.firstSeen
           /\ store'[d].activity.lastSeen >= store[d].activity.lastSeen
           /\ store'[d].activity.requestCount >= store[d].activity.requestCount
<1>0. IInv /\ TypeOK /\ CopyInv /\ KeyInv(d) /\ TimeInv(d)
  BY DEF TInv, IInv
<1>t. store[d].activity \in IntrusionActivity /\ fl.snap[d] \in Counter
  BY <1>0 DEF TypeOK, Decoy, FlushState
<1>s. ASSUME store'[d].activity = store[d].activity
      PROVE  /\ store'[d].activity.firstSeen = store[d].activity.firstSeen
             /\ store'[d].activity.lastSeen >= store[d].activity.lastSeen
             /\ store'[d].activity.requestCount >= store[d].activity.requestCount
  BY <1>s, <1>t DEF IntrusionActivity
<1>1. CASE PutCommit
  <2>1. CASE fl.key = d
    <3>1. fl.base = store[d].activity /\ InFlight(d)
      BY <1>0, <1>1, <2>1 DEF PutCommit, CopyInv, InFlight
    <3>2. store'[d].activity = NextActivity(store[d].activity, fl.snap[d])
      BY <1>0, <1>1, <2>1, <3>1 DEF TypeOK, PutCommit, Decoy
    <3>3. /\ store[d].activity.lastSeen <= fl.snap[d].lastSeen
          /\ fl.snap[d].flushed <= fl.snap[d].count
      BY <1>0, <3>1 DEF TimeInv, KeyInv, SnapshotInv
    <3> QED
      BY <1>t, <3>2, <3>3, SMTT(30) DEF NextActivity, IntrusionActivity, Counter
  <2>2. CASE fl.key # d
    <3>1. store'[d] = store[d]
      BY <1>0, <1>1, <2>2 DEF TypeOK, PutCommit
    <3> QED
      BY <1>s, <3>1
  <2> QED
    BY <2>1, <2>2
<1>2. CASE ReconcileUpdate
  BY <1>0, <1>2, <1>s, WriteBack
<1>3. ASSUME NEW e \in Decoys, CreateDecoy(e) \/ DeleteDecoy(e)
      PROVE  store'[d].activity = store[d].activity
  <2>1. e # d
    BY <1>0, <1>3 DEF CreateDecoy, DeleteDecoy, TypeOK, Decoy
  <2> QED
    BY <1>0, <1>3, <2>1 DEF CreateDecoy, DeleteDecoy, TypeOK
<1>4. CASE store' = store
  BY <1>4, <1>s
<1>5. \/ PutCommit \/ ReconcileUpdate \/ store' = store
      \/ \E e \in Decoys : CreateDecoy(e) \/ DeleteDecoy(e)
  BY Zenon DEF Next, Flush, vars, Arrive, Record, StartFlush, NextEntry, GetOK, WriteNotFound,
         WriteError, PutConflict, PutAck, PutLostAck, FinishFlush, ReconcileGet, Signal,
         Crash, Exit
<1> QED
  BY <1>1, <1>2, <1>3, <1>4, <1>5, <1>s

\* Within the life of one Decoy object firstSeen never moves once set and
\* lastSeen and requestCount never go back, whatever the interleaving of the
\* flush (tracker.go 92-171) with the reconciler's writes, deletions and
\* restarts.
THEOREM SummaryGrows == Spec => ActivityOnlyGrows
<1>1. Init => TInv
  <2> SUFFICES ASSUME Init PROVE TInv
    OBVIOUS
  <2>1. ASSUME NEW d \in Decoys PROVE TimeInv(d)
    <3>1. /\ now = 0 /\ store[d].activity.lastSeen = 0
          /\ counters[d].lastSeen = 0 /\ ~counters[d].live
      BY DEF Init, NoObject, NoActivity, NoCounter
    <3>2. (\A h \in Handlers : ~handlers[h].busy) /\ ~InFlight(d)
      BY DEF Init, Idle, FlushIdle, InFlight
    <3> QED
      BY <3>1, <3>2, SMTT(30) DEF TimeInv
  <2> QED
    BY <2>1, IInvInit DEF TInv
<1>2. TInv /\ [Next]_vars => TInv'
  <2> SUFFICES ASSUME TInv, [Next]_vars PROVE TInv'
    OBVIOUS
  <2>1. IInv' /\ TypeOK'
    BY IInvStep DEF TInv, IInv
  <2> QED
    BY <2>1, TimeStep DEF TInv
<1>3. TInv /\ TInv' /\ [Next]_vars =>
        [\A d \in Decoys :
           store[d].exists /\ store'[d].exists /\ store'[d].created = store[d].created =>
             LET a == store[d].activity
                 b == store'[d].activity
             IN /\ a.firstSeen # 0 => b.firstSeen = a.firstSeen
                /\ b.lastSeen >= a.lastSeen
                /\ b.requestCount >= a.requestCount]_vars
  <2> SUFFICES ASSUME TInv, TInv', [Next]_vars, NEW d \in Decoys,
                      store[d].exists, store'[d].exists,
                      store'[d].created = store[d].created
               PROVE  /\ store[d].activity.firstSeen # 0 =>
                            store'[d].activity.firstSeen = store[d].activity.firstSeen
                      /\ store'[d].activity.lastSeen >= store[d].activity.lastSeen
                      /\ store'[d].activity.requestCount >= store[d].activity.requestCount
    OBVIOUS
  <2>1. TypeOK'
    BY DEF TInv, IInv
  <2> QED
    BY <2>1, GrowStep
<1> QED
  BY <1>1, <1>2, <1>3, PTL DEF Spec, ActivityOnlyGrows

=============================================================================
