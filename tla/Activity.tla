------------------------------ MODULE Activity ------------------------------
(***************************************************************************)
(* The intrusion-activity counters: internal/activity/tracker.go, as the   *)
(* manager process (cmd/manager/main.go) drives it.  Audit handlers Record *)
(* requests in memory, one loop flushes dirty counters to the status of    *)
(* the Decoys, the Decoy reconciler writes the same status objects, and    *)
(* the process may be killed or told to stop at any point.                 *)
(*                                                                         *)
(* A resourceVersion is only ever compared with the current one, so a copy *)
(* of an object carries one bit, "fresh": nobody wrote the object since it *)
(* was read.  Times are ticks of one clock; 0 is Go's zero time.           *)
(***************************************************************************)
EXTENDS Integers

CONSTANTS
    Decoys,       \* namespaced names of Decoys
    NoDecoy,      \* "no key"
    Handlers,     \* concurrent audit-webhook handler goroutines
    IPs, NoIP,    \* source addresses; NoIP is the empty string
    Faults,       \* which of AllFaults the environment may use
    MaxTime,      \* bound on the clock: requests received + Decoys created
    MaxFaults,    \* bound on the faults and foreign status writes of a run
    RetrySteps    \* retry.DefaultRetry.Steps

AllFaults == {"crash", "signal", "error", "lostack", "delete", "reconcile"}

ASSUME ActivityAssumption ==
    /\ NoDecoy \notin Decoys
    /\ Faults \subseteq AllFaults
    /\ MaxTime \in Nat /\ MaxFaults \in Nat
    /\ RetrySteps \in Nat \ {0}

VARIABLES
    now,       \* the clock
    store,     \* the Decoys in the API server, with status.intrusionActivity
    handlers,  \* audit handlers between time.Now() and Tracker.Record
    counters,  \* Tracker.counters
    fl,        \* the flush loop: Run, flush and writeStatus
    rec,       \* the reconciler's copy of a Decoy between its Get and Update
    proc,      \* "up", or "stopping" once the signal context is cancelled
    faults,    \* faults used so far
    ledger     \* auxiliary: what became of the requests recorded

vars == <<now, store, handlers, counters, fl, rec, proc, faults, ledger>>

-----------------------------------------------------------------------------
(* Data *)

AnyIP == IPs \cup {NoIP}

Counter == [live : BOOLEAN, firstSeen : Nat, lastSeen : Nat, count : Nat,
            flushed : Nat, lastSourceIP : AnyIP, dirty : BOOLEAN]

\* No entry in the map.
NoCounter == [live |-> FALSE, firstSeen |-> 0, lastSeen |-> 0, count |-> 0,
              flushed |-> 0, lastSourceIP |-> NoIP, dirty |-> FALSE]

IntrusionActivity == [firstSeen : Nat, lastSeen : Nat, requestCount : Nat,
                      lastSourceIP : AnyIP]

\* A nil status.intrusionActivity.
NoActivity == [firstSeen |-> 0, lastSeen |-> 0, requestCount |-> 0,
               lastSourceIP |-> NoIP]

\* created is the creation time of the last object of this name, 0 if none.
Decoy == [exists : BOOLEAN, created : Nat, activity : IntrusionActivity]

NoObject == [exists |-> FALSE, created |-> 0, activity |-> NoActivity]

Idle == [busy |-> FALSE, key |-> NoDecoy, ip |-> NoIP, when |-> 0]

FlushIdle == [pc |-> "idle", final |-> FALSE, todo |-> {},
              snap |-> [d \in Decoys |-> NoCounter],
              key |-> NoDecoy, base |-> NoActivity, fresh |-> FALSE, tries |-> 0]

RecIdle == [key |-> NoDecoy, activity |-> NoActivity, fresh |-> FALSE]

NoLedger == [recorded |-> 0, lost |-> 0, repeated |-> 0, buried |-> 0]

\* Requests the process holds that no successful flush has accounted for.
Unflushed(d) == counters[d].count - counters[d].flushed

\* The part of Unflushed(d) that is in the status already: the API server
\* has applied the update, the loop has not yet seen the answer.
Applied(d) == IF fl.pc = "committed" /\ fl.key = d
              THEN fl.snap[d].count - fl.snap[d].flushed ELSE 0

Init ==
    /\ now = 0
    /\ store = [d \in Decoys |-> NoObject]
    /\ handlers = [h \in Handlers |-> Idle]
    /\ counters = [d \in Decoys |-> NoCounter]
    /\ fl = FlushIdle
    /\ rec = RecIdle
    /\ proc = "up"
    /\ faults = 0
    /\ ledger = [d \in Decoys |-> NoLedger]

\* The environment spends one unit of the fault budget on f.
Fault(f) == f \in Faults /\ faults < MaxFaults /\ faults' = faults + 1

-----------------------------------------------------------------------------
(* The audit path: one request attributed to Decoy d *)

\* An audit event from the inner apiserver of d, which may outlive the Decoy
\* but not precede it.  The handler evaluates time.Now() before Record takes
\* the lock, so two handlers may record in either order.
Arrive(h, d, ip) ==
    /\ ~handlers[h].busy
    /\ store[d].created # 0
    /\ now < MaxTime
    /\ now' = now + 1
    /\ handlers' = [handlers EXCEPT ![h] =
                        [busy |-> TRUE, key |-> d, ip |-> ip, when |-> now + 1]]
    /\ UNCHANGED <<store, counters, fl, rec, proc, faults, ledger>>

\* Record under the lock.
Bump(c, ip, when) ==
    [live         |-> TRUE,
     firstSeen    |-> IF c.firstSeen = 0 THEN when ELSE c.firstSeen,
     lastSeen     |-> IF when > c.lastSeen THEN when ELSE c.lastSeen,
     count        |-> c.count + 1,
     flushed      |-> c.flushed,
     lastSourceIP |-> IF ip # NoIP THEN ip ELSE c.lastSourceIP,
     dirty        |-> TRUE]

Record(h) ==
    LET r == handlers[h] IN
    /\ r.busy
    /\ counters' = [counters EXCEPT ![r.key] = Bump(@, r.ip, r.when)]
    /\ handlers' = [handlers EXCEPT ![h] = Idle]
    /\ ledger' = [ledger EXCEPT ![r.key].recorded = @ + 1]
    /\ UNCHANGED <<now, store, fl, rec, proc, faults>>

-----------------------------------------------------------------------------
(* The flush loop *)

\* The context of this flush is alive: the signal context of a tick dies with
\* the signal, the final flush has a context of its own.
CtxLive == proc = "up" \/ fl.final

\* A tick, or ctx.Done; when both are ready select takes either.
StartFlush ==
    /\ fl.pc = "idle"
    /\ \E final \in {f \in BOOLEAN : f => proc = "stopping"} :
         fl' = [FlushIdle EXCEPT
                  !.pc = "loop", !.final = final,
                  !.todo = {d \in Decoys : counters[d].dirty},
                  !.snap = [d \in Decoys |->
                              IF counters[d].dirty THEN counters[d] ELSE NoCounter]]
    /\ counters' = [d \in Decoys |-> [counters[d] EXCEPT !.dirty = FALSE]]
    /\ UNCHANGED <<now, store, handlers, rec, proc, faults, ledger>>

\* The next entry of todo; Go's map order is arbitrary.
NextEntry(d) ==
    /\ fl.pc = "loop" /\ d \in fl.todo
    /\ fl' = [fl EXCEPT !.pc = "get", !.key = d, !.todo = @ \ {d}, !.tries = 0]
    /\ UNCHANGED <<now, store, handlers, counters, rec, proc, faults, ledger>>

\* The entry is done with; its snapshot and the copy read are dropped.
EntryDone == [fl EXCEPT !.pc = "loop", !.key = NoDecoy, !.base = NoActivity,
                        !.fresh = FALSE, !.tries = 0, !.snap[fl.key] = NoCounter]

\* Mutant: marks what is counted now, not what was written.
MarkFlushedAsCounted(d) == [counters EXCEPT ![d].flushed = counters[d].count]

\* writeStatus returned nil.
MarkFlushed(d) == IF counters[d].live
                  THEN [counters EXCEPT ![d].flushed = fl.snap[d].count]
                  ELSE counters

\* writeStatus returned NotFound.
Prune(d) == [counters EXCEPT ![d] = NoCounter]

\* Mutant: a failed flush is not marked for the next tick.
RedirtyForgotten(d) == counters

\* writeStatus returned any other error.
Redirty(d) == IF counters[d].live
              THEN [counters EXCEPT ![d].dirty = TRUE] ELSE counters

GetOK ==
    /\ fl.pc = "get" /\ CtxLive
    /\ store[fl.key].exists
    /\ fl' = [fl EXCEPT !.pc = "put", !.base = store[fl.key].activity, !.fresh = TRUE]
    /\ UNCHANGED <<now, store, handlers, counters, rec, proc, faults, ledger>>

\* Get, or the Update after it, finds the Decoy gone.
WriteNotFound ==
    /\ fl.pc \in {"get", "put"} /\ CtxLive
    /\ ~store[fl.key].exists
    /\ counters' = Prune(fl.key)
    /\ ledger' = [ledger EXCEPT ![fl.key].lost = @ + Unflushed(fl.key)]
    /\ fl' = EntryDone
    /\ UNCHANGED <<now, store, handlers, rec, proc, faults>>

\* Get or Update fails before it takes effect: a cancelled context always
\* does this, a server or network error may.
WriteError ==
    /\ fl.pc \in {"get", "put"}
    /\ \/ ~CtxLive /\ UNCHANGED faults
       \/ CtxLive /\ Fault("error")
    /\ counters' = Redirty(fl.key)
    /\ fl' = EntryDone
    /\ UNCHANGED <<now, store, handlers, rec, proc, ledger>>

\* RetryOnConflict: read again, up to RetrySteps attempts in all.
PutConflict ==
    /\ fl.pc = "put" /\ CtxLive
    /\ store[fl.key].exists /\ ~fl.fresh
    /\ IF fl.tries + 1 < RetrySteps
       THEN /\ fl' = [fl EXCEPT !.pc = "get", !.tries = @ + 1, !.base = NoActivity]
            /\ UNCHANGED counters
       ELSE /\ fl' = EntryDone
            /\ counters' = Redirty(fl.key)
    /\ UNCHANGED <<now, store, handlers, rec, proc, faults, ledger>>

\* Mutant: the delta is subtracted the wrong way round.
NextActivitySwapped(prev, c) ==
    [firstSeen    |-> IF prev.firstSeen # 0 THEN prev.firstSeen ELSE c.firstSeen,
     lastSeen     |-> c.lastSeen,
     requestCount |-> prev.requestCount + (c.flushed - c.count),
     lastSourceIP |-> c.lastSourceIP]

\* Mutant: the process's own first sighting replaces an earlier one.
NextActivityForgets(prev, c) ==
    [firstSeen    |-> c.firstSeen,
     lastSeen     |-> c.lastSeen,
     requestCount |-> prev.requestCount + (c.count - c.flushed),
     lastSourceIP |-> c.lastSourceIP]

\* The status writeStatus computes from the copy it read and the snapshot.
NextActivity(prev, c) ==
    [firstSeen    |-> IF prev.firstSeen # 0 THEN prev.firstSeen ELSE c.firstSeen,
     lastSeen     |-> c.lastSeen,
     requestCount |-> prev.requestCount + (c.count - c.flushed),
     lastSourceIP |-> c.lastSourceIP]

\* The API server applies the Update; every other copy is now stale.
PutCommit ==
    /\ fl.pc = "put" /\ CtxLive
    /\ store[fl.key].exists /\ fl.fresh
    /\ store' = [store EXCEPT ![fl.key].activity = NextActivity(fl.base, fl.snap[fl.key])]
    /\ rec' = [rec EXCEPT !.fresh = @ /\ rec.key # fl.key]
    /\ fl' = [fl EXCEPT !.pc = "committed"]
    /\ UNCHANGED <<now, handlers, counters, proc, faults, ledger>>

PutAck ==
    /\ fl.pc = "committed"
    /\ counters' = MarkFlushed(fl.key)
    /\ fl' = EntryDone
    /\ UNCHANGED <<now, store, handlers, rec, proc, faults, ledger>>

\* The update took effect but its answer is lost (a timeout, a reset
\* connection, the context cancelled meanwhile): to the tracker, an error.
PutLostAck ==
    /\ fl.pc = "committed"
    /\ Fault("lostack")
    /\ counters' = Redirty(fl.key)
    /\ ledger' = [ledger EXCEPT ![fl.key].repeated = @ + Applied(fl.key)]
    /\ fl' = EntryDone
    /\ UNCHANGED <<now, store, handlers, rec, proc>>

\* After the final flush Run returns; handlers go on recording.
FinishFlush ==
    /\ fl.pc = "loop" /\ fl.todo = {}
    /\ fl' = [FlushIdle EXCEPT !.pc = IF fl.final THEN "done" ELSE "idle"]
    /\ UNCHANGED <<now, store, handlers, counters, rec, proc, faults, ledger>>

-----------------------------------------------------------------------------
(* The other writer of the status: the Decoy reconciler *)

\* Its Get, from the informer cache; a cache that lags is a copy that is no
\* longer fresh when it is written.
ReconcileGet(d) ==
    /\ rec.key = NoDecoy
    /\ store[d].exists
    /\ Fault("reconcile")
    /\ rec' = [key |-> d, activity |-> store[d].activity, fresh |-> TRUE]
    /\ UNCHANGED <<now, store, handlers, counters, fl, proc, ledger>>

\* updateStatus or markFailed: the whole status goes back, the activity as
\* read, if the copy is current; NotFound or Conflict otherwise.
ReconcileUpdate ==
    /\ rec.key # NoDecoy
    /\ rec' = RecIdle
    /\ IF store[rec.key].exists /\ rec.fresh
       THEN /\ store' = [store EXCEPT ![rec.key].activity = rec.activity]
            /\ fl' = [fl EXCEPT !.fresh = @ /\ fl.key # rec.key]
       ELSE UNCHANGED <<store, fl>>
    /\ UNCHANGED <<now, handlers, counters, proc, faults, ledger>>

-----------------------------------------------------------------------------
(* Decoys come and go; the manager process stops *)

CreateDecoy(d) ==
    /\ ~store[d].exists
    /\ now < MaxTime
    /\ now' = now + 1
    /\ store' = [store EXCEPT ![d] = [exists |-> TRUE, created |-> now + 1,
                                      activity |-> NoActivity]]
    /\ UNCHANGED <<handlers, counters, fl, rec, proc, faults, ledger>>

\* The requests counted in the status are buried with the object.
DeleteDecoy(d) ==
    /\ store[d].exists
    /\ Fault("delete")
    /\ store' = [store EXCEPT ![d].exists = FALSE, ![d].activity = NoActivity]
    /\ fl' = [fl EXCEPT !.fresh = @ /\ fl.key # d]
    /\ rec' = [rec EXCEPT !.fresh = @ /\ rec.key # d]
    /\ ledger' = [ledger EXCEPT ![d].buried = @ + store[d].activity.requestCount]
    /\ UNCHANGED <<now, handlers, counters, proc>>

\* SIGTERM cancels the context Run and the manager share.
Signal ==
    /\ proc = "up" /\ Fault("signal")
    /\ proc' = "stopping"
    /\ UNCHANGED <<now, store, handlers, counters, fl, rec, ledger>>

\* All memory goes; a new process starts in its place.
Restart ==
    /\ counters' = [d \in Decoys |-> NoCounter]
    /\ handlers' = [h \in Handlers |-> Idle]
    /\ fl' = FlushIdle
    /\ rec' = RecIdle
    /\ proc' = "up"
    /\ ledger' = [d \in Decoys |->
                    [ledger[d] EXCEPT !.lost = @ + Unflushed(d) - Applied(d)]]

Crash ==
    /\ Fault("crash")
    /\ Restart
    /\ UNCHANGED <<now, store>>

\* main returns when mgr.Start does, whatever Run is doing then.
Exit ==
    /\ proc = "stopping"
    /\ Restart
    /\ UNCHANGED <<now, store, faults>>

-----------------------------------------------------------------------------

Flush == \/ StartFlush \/ (\E d \in Decoys : NextEntry(d))
         \/ GetOK \/ WriteNotFound \/ WriteError \/ PutConflict
         \/ PutCommit \/ PutAck \/ PutLostAck \/ FinishFlush

Next ==
    \/ \E h \in Handlers, d \in Decoys, ip \in AnyIP : Arrive(h, d, ip)
    \/ \E h \in Handlers : Record(h)
    \/ Flush
    \/ \E d \in Decoys : ReconcileGet(d) \/ CreateDecoy(d) \/ DeleteDecoy(d)
    \/ ReconcileUpdate
    \/ Signal \/ Crash \/ Exit

Spec == Init /\ [][Next]_vars

\* The loop is one goroutine woken by a ticker, a handler goroutine runs to
\* its end, and mgr.Start returns once it has been told to stop.
Fairness == /\ WF_vars(Flush)
            /\ \A h \in Handlers : WF_vars(Record(h))
            /\ WF_vars(Exit)
            /\ WF_vars(ReconcileUpdate)

FairSpec == Spec /\ Fairness

-----------------------------------------------------------------------------
(* Properties *)

FlushState == [pc : {"idle", "loop", "get", "put", "committed", "done"},
               final : BOOLEAN, todo : SUBSET Decoys,
               snap : [Decoys -> Counter], key : Decoys \cup {NoDecoy},
               base : IntrusionActivity, fresh : BOOLEAN, tries : Nat]

\* The shape of the tracker's, the store's and the auxiliary state.
TypeOK ==
    /\ now \in Nat
    /\ store \in [Decoys -> Decoy]
    /\ handlers \in [Handlers -> [busy : BOOLEAN, key : Decoys \cup {NoDecoy},
                                  ip : AnyIP, when : Nat]]
    /\ \A h \in Handlers : handlers[h].busy => handlers[h].key \in Decoys
    /\ counters \in [Decoys -> Counter]
    /\ fl \in FlushState
    /\ fl.pc \in {"get", "put", "committed"} => fl.key \in Decoys
    /\ rec \in [key : Decoys \cup {NoDecoy}, activity : IntrusionActivity,
                fresh : BOOLEAN]
    /\ proc \in {"up", "stopping"}
    /\ faults \in Nat
    /\ ledger \in [Decoys -> [recorded : Nat, lost : Nat, repeated : Nat, buried : Nat]]

\* Every request recorded is in a Decoy's status exactly once, or still in
\* memory, or was dropped with the process or the Decoy; only an update whose
\* answer was lost makes a delta count again.  Conflicts, retries, transient
\* errors, the reconciler's writes and requests recorded while a write is in
\* flight (tracker.go 109-136, 139-171) lose nothing and repeat nothing.
RequestsConserved ==
    \A d \in Decoys :
        store[d].activity.requestCount + ledger[d].buried + Unflushed(d) - Applied(d)
            = ledger[d].recorded - ledger[d].lost + ledger[d].repeated

\* A counter with requests not yet in the status is dirty or in the hands of
\* the running flush, so some later flush will write it: clearing dirty at the
\* snapshot and setting it again on failure leave no gap (tracker.go 100-107,
\* 127-134).
UnflushedIsPending ==
    \A d \in Decoys : Unflushed(d) > 0 =>
        \/ counters[d].dirty
        \/ d \in fl.todo
        \/ fl.key = d /\ fl.pc \in {"get", "put", "committed"}

\* Within the life of one Decoy object its summary never forgets: firstSeen,
\* once set, does not move; lastSeen and requestCount never go back.  Two
\* writers, stale copies and manager restarts are in the way (tracker.go
\* 145-170, decoy_controller.go updateStatus).
ActivityOnlyGrows ==
    [][\A d \in Decoys :
         store[d].exists /\ store'[d].exists /\ store'[d].created = store[d].created =>
           LET a == store[d].activity
               b == store'[d].activity
           IN /\ a.firstSeen # 0 => b.firstSeen = a.firstSeen
              /\ b.lastSeen >= a.lastSeen
              /\ b.requestCount >= a.requestCount]_vars

\* Once requests, faults and foreign writes cease, every request a Decoy's
\* counter holds reaches its status (the retry of failed flushes,
\* tracker.go 127-134, and the restart after a stop).
EventuallyPersisted ==
    <>[](\A d \in Decoys : store[d].exists => Unflushed(d) = 0)

\* What tracker.go 79-81 wants of the final flush: a graceful stop does not
\* drop the not-yet-persisted tail of a Decoy that exists.
GracefulExitKeepsTail ==
    [][Exit => \A d \in Decoys : store[d].exists => Unflushed(d) = Applied(d)]_vars

=============================================================================
