---------------------------- MODULE AuditPipeline ----------------------------
(***************************************************************************)
(* The way of an audit event through the manager: the receiver             *)
(* (internal/auditwebhook), the callback of cmd/manager/main.go, the       *)
(* Dispatcher (internal/notifier) and the per-Decoy series                 *)
(* (internal/metrics).  Each inner API server posts batches and waits for  *)
(* the answer; every post has a handler of its own, and one handler works  *)
(* through its Alerts and AuditSinks one after the other before it         *)
(* answers.  Providers fail, objects are edited between two reads, senders *)
(* give up and send again, the manager crashes, Decoys come and go.        *)
(***************************************************************************)
EXTENDS Notifier, Subsequences

CONSTANTS
    Decoys,       \* [ns, name] of every Decoy there may be
    Batches,
    From,         \* the Decoy whose API server sends the batch
    Events,       \* audit events
    Bodies,       \* what it may hold: its events, in order
    Garbled,      \* a body that does not decode
    JoinEvent,    \* the message of a Pod that joins or leaves
    Names,        \* names of Alerts and AuditSinks
    NoName,
    Configs,      \* what users may declare: [alerts, sinks, providers, secrets]
    Handlers,     \* goroutines at a time
    NoHandler,
    EmbedsPerMessage, \* discordEmbedsPerMessage
    MaxAttempts,  \* posts of one batch
    MaxEnv        \* bound on failures, edits and crashes

ASSUME PipelineAssumption ==
    /\ From \in [Batches -> Decoys]
    /\ NoName \notin Names \cup Batches /\ NoHandler \notin Handlers
    /\ EmbedsPerMessage \in Nat \ {0} /\ MaxAttempts \in Nat \ {0} /\ MaxEnv \in Nat
    /\ Bodies \subseteq Seq(Events) \cup {Garbled}

\* An Alert and an AuditSink are objects of two kinds: no name stands for both.
ASSUME NameAssumption ==
    /\ \A c \in Configs : DOMAIN c.alerts \subseteq Names /\ DOMAIN c.sinks \subseteq Names
    /\ \A c, d \in Configs : DOMAIN c.alerts \cap DOMAIN d.sinks = {}

VARIABLES
    conf,      \* Alerts, AuditSinks, Providers and Secrets now
    sender,    \* per batch: its body, its state and the handler it waits for
    attempts,  \* posts of the batch so far
    h,         \* the handlers
    series,    \* the metric families that have a row for each Decoy
    decoys,    \* Decoys that exist
    queue,     \* Decoys to be reconciled
    late,      \* auxiliary: Decoys with events counted since DeleteDecoy
    settled,   \* auxiliary: batches a handler has carried to its end
    env

vars == <<conf, sender, attempts, h, series, decoys, queue, late, settled, env>>

-----------------------------------------------------------------------------
(* Data *)

Idle == [pc |-> "idle"]

\* list: the Alerts or AuditSinks read; todo: those of it still to visit; at:
\* the one being sent to, left: what it has yet to get, size: events per post.
\* sent, err: auxiliary, what each got and for which an error was logged.
Handler(kind, kt, batch, events) ==
    [pc |-> kind, kt |-> kt, batch |-> batch, events |-> events,
     list |-> <<>>, todo |-> {}, at |-> NoName, left |-> <<>>, size |-> 0,
     sent |-> [n \in Names |-> <<>>], err |-> {}, want |-> [n \in Names |-> <<>>]]

\* A family has a row for a Decoy, or not; what the row counts is left out.
Families == {"ReconcileErrors", "Phase", "JoinedPods", "AuditEvents", "AttackerRequests"}

\* Which goroutine serves is of no account: the first that is free.
Free(i) == h[i] = Idle /\ i = CHOOSE j \in Handlers : h[j] = Idle

\* The stages that count: only a finished request has a status.
kept(events) == Only(events, {ev \in Events : ev.stage \in {"", "ResponseComplete"}})

notable(events, filter) == Only(events, {ev \in Events : IsNotableAuditEvent(ev, filter)})

Least(m, n) == IF m < n THEN m ELSE n

Init ==
    /\ conf \in Configs
    /\ sender \in [Batches -> [body : Bodies, state : {"new"}, by : {NoHandler}]]
    /\ attempts = [b \in Batches |-> 0]
    /\ h = [i \in Handlers |-> Idle]
    /\ series = [kt \in Decoys |-> {}]
    /\ decoys = Decoys
    /\ queue = Decoys
    /\ late = {} /\ settled = {}
    /\ env = 0

Disturb == env < MaxEnv /\ env' = env + 1

-----------------------------------------------------------------------------
(* The receiver *)

\* An inner API server posts a batch; the handler decodes it and drops the
\* events of other stages.  400 is no reason to send again.
Post(b, i) ==
    /\ sender[b].state = "new" /\ Free(i)
    /\ attempts' = [attempts EXCEPT ![b] = @ + 1]
    /\ LET events == kept(sender[b].body) IN
       \/ /\ sender[b].body = Garbled
          /\ sender' = [sender EXCEPT ![b].state = "failed"]
          /\ UNCHANGED h
       \/ /\ sender[b].body # Garbled /\ events = <<>>
          /\ sender' = [sender EXCEPT ![b].state = "acked"]
          /\ UNCHANGED h
       \/ /\ sender[b].body # Garbled /\ events # <<>>
          /\ sender' = [sender EXCEPT ![b].state = "waiting", ![b].by = i]
          /\ h' = [h EXCEPT ![i] = Handler("count", From[b], b, events)]
    /\ UNCHANGED <<conf, series, decoys, queue, late, settled, env>>

\* metrics.AuditEvents, whether or not there still is such a Decoy.
CountEvents(i) ==
    /\ h[i].pc = "count"
    /\ series' = [series EXCEPT ![h[i].kt] = @ \cup {"AuditEvents"}]
    /\ late' = late \cup {h[i].kt}
    /\ h' = [h EXCEPT ![i].pc = "record"]
    /\ UNCHANGED <<conf, sender, attempts, decoys, queue, settled, env>>

\* activityTracker.Record for what is notable by the default filter.
RecordActivity(i) ==
    /\ h[i].pc = "record"
    /\ series' = [series EXCEPT ![h[i].kt] =
                     IF notable(h[i].events, DefaultFilter) = <<>> THEN @ ELSE @ \cup {"AttackerRequests"}]
    /\ late' = late \cup {h[i].kt}
    /\ h' = [h EXCEPT ![i].pc = "alerts"]
    /\ UNCHANGED <<conf, sender, attempts, decoys, queue, settled, env>>

-----------------------------------------------------------------------------
(* The Dispatcher *)

\* Entering a loop over what was listed, with what each entry is to get.
Loop(i, pc, list, todo, want) ==
    h' = [h EXCEPT ![i] = [h[i] EXCEPT !.pc = pc, !.list = list, !.todo = todo,
            !.want = [n \in Names |-> IF n \in todo THEN want[n] ELSE h[i].want[n]]]]

Covers(list, n, kt) == anyDecoyMatches(list[n].targets, list[n].ns, kt)

\* NotifyAuditActivity: a list that fails ends it, and the sinks are next.
NotifyAuditActivity(i) ==
    /\ h[i].pc = "alerts"
    /\ LET list == conf.alerts
           todo == {n \in DOMAIN list : /\ wantsEventType(list[n].types, "AuditActivity")
                                        /\ Covers(list, n, h[i].kt)}
       IN \/ /\ Loop(i, "alert", list, todo, [n \in todo |-> notable(h[i].events, list[n])])
             /\ UNCHANGED env
          \/ h' = [h EXCEPT ![i].pc = "sinks"] /\ Disturb
    /\ UNCHANGED <<conf, sender, attempts, series, decoys, queue, late, settled>>

\* NotifyPodJoin, called by a reconcile.
NotifyPodJoin(i) ==
    /\ h[i].pc = "join"
    /\ LET list == conf.alerts
           todo == {n \in DOMAIN list : /\ wantsEventType(list[n].types, "PodJoin")
                                        /\ Covers(list, n, h[i].kt)}
       IN \/ /\ Loop(i, "alert", list, todo, [n \in todo |-> h[i].events])
             /\ UNCHANGED env
          \/ h' = [h EXCEPT ![i] = Idle] /\ Disturb
    /\ UNCHANGED <<conf, sender, attempts, series, decoys, queue, late, settled>>

\* ShipAuditLog: every event to every sink.
ShipAuditLog(i) ==
    /\ h[i].pc = "sinks"
    /\ LET list == conf.sinks
           todo == {n \in DOMAIN list : Covers(list, n, h[i].kt)}
       IN \/ /\ Loop(i, "sink", list, todo, [n \in todo |-> h[i].events])
             /\ UNCHANGED env
          \/ h' = [h EXCEPT ![i].pc = "respond"] /\ Disturb
    /\ UNCHANGED <<conf, sender, attempts, series, decoys, queue, late, settled>>

\* Mutant: an entry whose Provider does not resolve is tried until it does.
VisitUntilResolved(i, n, one) ==
    /\ n \in h[i].todo /\ h[i].at = NoName
    /\ LET r == h[i]
           events == r.want[n]
           p == resolveProvider(conf.providers, conf.secrets, r.list[n])
       IN h' = [h EXCEPT ![i] =
            IF events = <<>> THEN [r EXCEPT !.todo = r.todo \ {n}]
            ELSE IF p = Unresolved \/ p.type \notin DOMAIN one THEN r
            ELSE [r EXCEPT !.todo = r.todo \ {n}, !.at = n, !.left = events, !.size = one[p.type]]]
    /\ UNCHANGED <<conf, sender, attempts, series, decoys, queue, late, settled, env>>

\* One round of a loop, up to the first post: nothing notable is skipped
\* without a word, a Provider that does not resolve or has the wrong type is
\* logged.  one: the events a post of each supported type holds.
Visit(i, n, one) ==
    /\ n \in h[i].todo /\ h[i].at = NoName
    /\ LET r == h[i]
           events == r.want[n]
           p == resolveProvider(conf.providers, conf.secrets, r.list[n])
       IN h' = [h EXCEPT ![i] =
            IF events = <<>> THEN [r EXCEPT !.todo = r.todo \ {n}]
            ELSE IF p = Unresolved \/ p.type \notin DOMAIN one
            THEN [r EXCEPT !.todo = r.todo \ {n}, !.err = r.err \cup {n}]
            ELSE [r EXCEPT !.todo = r.todo \ {n}, !.at = n, !.left = events, !.size = one[p.type]]]
    /\ UNCHANGED <<conf, sender, attempts, series, decoys, queue, late, settled, env>>

\* sendAlertAudit and sendPodJoinAlert: Discord in chunks, a generic webhook
\* everything at once.
sendAlert(i, n) ==
    /\ h[i].pc = "alert"
    /\ Visit(i, n, [x \in {"discord", "generic-webhook"} |->
                        IF x = "discord" THEN EmbedsPerMessage ELSE Len(h[i].want[n])])

shipToSink(i, n) ==
    /\ h[i].pc = "sink"
    /\ Visit(i, n, [x \in {"loki", "generic-webhook"} |-> Len(h[i].want[n])])

\* What each has got once the events have arrived at the one being sent to.
Arrives(r, events) == [r.sent EXCEPT ![r.at] = r.sent[r.at] \o events]

\* Mutant: the last index of a chunk is taken for the first of the next.
OverlappingChunks(i) ==
    /\ h[i] # Idle /\ h[i].at # NoName
    /\ LET r == h[i]
           n == Least(r.size, Len(r.left))
           chunk == SubSeq(r.left, 1, n)
           rest == SubSeq(r.left, IF n = Len(r.left) THEN n + 1 ELSE n, Len(r.left))
       IN h' = [h EXCEPT ![i] = [r EXCEPT !.sent = Arrives(r, chunk), !.left = rest,
                                         !.at = IF rest = <<>> THEN NoName ELSE r.at]]
    /\ UNCHANGED <<conf, sender, attempts, series, decoys, queue, late, settled, env>>

\* postJSON, once per chunk for sendDiscord: the first error ends the sending
\* to this Provider.  A post that fails may have arrived all the same.
postJSON(i) ==
    /\ h[i] # Idle /\ h[i].at # NoName
    /\ LET r == h[i]
           n == Least(r.size, Len(r.left))
           chunk == SubSeq(r.left, 1, n)
           rest == SubSeq(r.left, n + 1, Len(r.left))
       IN \/ /\ h' = [h EXCEPT ![i] = [r EXCEPT !.sent = Arrives(r, chunk), !.left = rest,
                                               !.at = IF rest = <<>> THEN NoName ELSE r.at]]
             /\ UNCHANGED env
          \/ /\ \E arrived \in {<<>>, chunk} :
                   h' = [h EXCEPT ![i] = [r EXCEPT !.sent = Arrives(r, arrived), !.left = <<>>,
                                                   !.at = NoName, !.err = r.err \cup {r.at}]]
             /\ Disturb
    /\ UNCHANGED <<conf, sender, attempts, series, decoys, queue, late, settled>>

LoopDone(i) ==
    /\ h[i].pc \in {"alert", "sink"} /\ h[i].todo = {} /\ h[i].at = NoName
    /\ h' = [h EXCEPT ![i] = CASE h[i].batch \notin Batches -> Idle
                               [] h[i].batch \in Batches /\ h[i].pc = "alert" -> [h[i] EXCEPT !.pc = "sinks"]
                               [] OTHER -> [h[i] EXCEPT !.pc = "respond"]]
    /\ UNCHANGED <<conf, sender, attempts, series, decoys, queue, late, settled, env>>

\* Mutant: the answer is given before the Dispatcher is called.
EarlyAnswer(i) ==
    /\ h[i].pc \in {"alerts", "respond"}
    /\ LET b == h[i].batch IN
       /\ sender' = IF sender[b].by = i
                    THEN [sender EXCEPT ![b].state = "acked", ![b].by = NoHandler] ELSE sender
       /\ settled' = IF h[i].pc = "respond" THEN settled \cup {b} ELSE settled
    /\ h' = [h EXCEPT ![i] = Idle]
    /\ UNCHANGED <<conf, attempts, series, decoys, queue, late, env>>

\* 200, if the sender is still there to read it.
Respond(i) ==
    /\ h[i].pc = "respond"
    /\ LET b == h[i].batch IN
       /\ sender' = IF sender[b].by = i
                    THEN [sender EXCEPT ![b].state = "acked", ![b].by = NoHandler] ELSE sender
       /\ settled' = settled \cup {b}
    /\ h' = [h EXCEPT ![i] = Idle]
    /\ UNCHANGED <<conf, attempts, series, decoys, queue, late, env>>

-----------------------------------------------------------------------------
(* The series, and the Decoys they are about *)

\* One row per phase, whichever of them reads 1.
SetPhase(rows) == rows \cup {"Phase"}

DeleteDecoy(rows) ==
    rows \ {"ReconcileErrors", "Phase", "JoinedPods", "AuditEvents", "AttackerRequests"}

\* Mutant: a Decoy that is gone is none of the reconciler's business.
ReconcileKeepsSeries(kt) ==
    /\ kt \in queue /\ queue' = queue \ {kt}
    /\ series' = [series EXCEPT ![kt] = IF kt \in decoys THEN SetPhase(@) ELSE @]
    /\ UNCHANGED <<conf, sender, attempts, h, decoys, late, settled, env>>

\* A reconcile, as far as the series are concerned: of a Decoy that is gone, one
\* that succeeds (updateStatus), one that fails and is queued again (markFailed).
Reconcile(kt) ==
    /\ kt \in queue
    /\ \/ /\ kt \notin decoys /\ series' = [series EXCEPT ![kt] = DeleteDecoy(@)]
          /\ queue' = queue \ {kt} /\ late' = late \ {kt} /\ UNCHANGED env
       \/ /\ kt \in decoys
          /\ series' = [series EXCEPT ![kt] = SetPhase(@) \cup {"JoinedPods"}]
          /\ queue' = queue \ {kt} /\ UNCHANGED <<late, env>>
       \/ /\ kt \in decoys /\ Disturb
          /\ series' = [series EXCEPT ![kt] = SetPhase(@) \cup {"ReconcileErrors"}]
          /\ UNCHANGED <<queue, late>>
    /\ UNCHANGED <<conf, sender, attempts, h, decoys, settled>>

\* Pods join and leave: the reconcile that sees it sends to the Alerts itself.
Announce(kt, i) ==
    /\ Disturb /\ kt \in decoys /\ Free(i)
    /\ h' = [h EXCEPT ![i] = Handler("join", kt, NoName, <<JoinEvent>>)]
    /\ UNCHANGED <<conf, sender, attempts, series, decoys, queue, late, settled>>

-----------------------------------------------------------------------------
(* The environment *)

EditConfig ==
    /\ Disturb /\ conf' \in Configs \ {conf}
    /\ UNCHANGED <<sender, attempts, h, series, decoys, queue, late, settled>>

DeleteObject(kt) ==
    /\ Disturb /\ kt \in decoys
    /\ decoys' = decoys \ {kt} /\ queue' = queue \cup {kt}
    /\ UNCHANGED <<conf, sender, attempts, h, series, late, settled>>

CreateObject(kt) ==
    /\ Disturb /\ kt \notin decoys
    /\ decoys' = decoys \cup {kt} /\ queue' = queue \cup {kt}
    /\ UNCHANGED <<conf, sender, attempts, h, series, late, settled>>

\* The post has failed for the sender of b: it is sent again, up to a limit.
Again(b) == [sender[b] EXCEPT !.state = IF attempts[b] < MaxAttempts THEN "new" ELSE "failed",
                             !.by = NoHandler]

\* The client's timeout; the handler works on, its context is not the request's.
GiveUp(b) ==
    /\ Disturb /\ sender[b].state = "waiting"
    /\ sender' = [sender EXCEPT ![b] = Again(b)]
    /\ UNCHANGED <<conf, attempts, h, series, decoys, queue, late, settled>>

\* The manager is killed and starts again with empty series and a full queue.
Crash ==
    /\ Disturb
    /\ h' = [i \in Handlers |-> Idle]
    /\ sender' = [b \in Batches |-> IF sender[b].state = "waiting" THEN Again(b) ELSE sender[b]]
    /\ series' = [kt \in Decoys |-> {}]
    /\ queue' = decoys /\ late' = {}
    /\ UNCHANGED <<conf, attempts, decoys, settled>>

-----------------------------------------------------------------------------
Step(i) ==
    \/ CountEvents(i) \/ RecordActivity(i)
    \/ NotifyAuditActivity(i) \/ NotifyPodJoin(i) \/ ShipAuditLog(i)
    \/ \E n \in Names : sendAlert(i, n) \/ shipToSink(i, n)
    \/ postJSON(i) \/ LoopDone(i) \/ Respond(i)

Next ==
    \/ \E i \in Handlers : Step(i)
    \/ \E b \in Batches, i \in Handlers : Post(b, i)
    \/ \E kt \in Decoys : Reconcile(kt) \/ DeleteObject(kt) \/ CreateObject(kt)
    \/ \E kt \in Decoys, i \in Handlers : Announce(kt, i)
    \/ \E b \in Batches : GiveUp(b)
    \/ EditConfig \/ Crash

Spec == Init /\ [][Next]_vars

\* A handler goes on: every call it makes returns, the HTTP client after ten
\* seconds at the latest.  An API server posts what it has, and the work queue
\* hands out what is in it.
FairSpec ==
    /\ Spec
    /\ \A i \in Handlers : WF_vars(Step(i))
    /\ \A b \in Batches : WF_vars(\E i \in Handlers : Post(b, i))
    /\ \A kt \in Decoys : WF_vars(Reconcile(kt))

-----------------------------------------------------------------------------
(* Properties *)

IsPrefixOf(s, t) == Len(s) <= Len(t) /\ s = SubSeq(t, 1, Len(s))

\* What an Alert or AuditSink gets from one batch is, in order and once, the
\* events it is to get, or a prefix of them if an error of it was logged; and no
\* Provider's failure, bad reference or wrong type keeps anything from the
\* others.  (NotifyAuditActivity, ShipAuditLog, sendDiscord's chunks.)
DeliveredInFull ==
    \A i \in Handlers : h[i] # Idle =>
        \A n \in Names :
            /\ IsPrefixOf(h[i].sent[n], h[i].want[n])
            /\ \/ h[i].sent[n] = h[i].want[n] \/ n \in h[i].err
               \/ n \in h[i].todo \/ h[i].at = n

\* A sender that has its 200 can forget the batch: all of it has been through
\* the Dispatcher, or it had nothing to keep.  (NewHandler answers after fn.)
AckedIsSettled ==
    \A b \in Batches : sender[b].state = "acked" => b \in settled \/ kept(sender[b].body) = <<>>

\* A batch is sent again only as often as allowed and is acknowledged in the
\* end, whatever Providers do: only what does not decode and what has used up
\* its attempts is not.
EveryBatchSettles ==
    \A b \in Batches :
        <>(\/ sender[b].state = "acked"
           \/ sender[b].state = "failed" /\ (sender[b].body = Garbled \/ attempts[b] = MaxAttempts))

\* The series of a Decoy that is deleted go in the end, unless an audit batch
\* of it is counted after the reconcile that found it gone: nothing removes
\* the series which that brings back.
SeriesFollowDecoys ==
    \A kt \in Decoys : <>[](kt \in decoys \cup late \/ series[kt] = {})

=============================================================================
