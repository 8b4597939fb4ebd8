---------------------------- MODULE ExecSession ----------------------------
(***************************************************************************)
(* One request to the kubelet endpoint of the shim (kubeletserver.go,      *)
(* exec.go): logs, port-forward, attach and exec, the last with its        *)
(* process, the goroutines that copy its output, the recorder they share   *)
(* (SessionLog) and a client that opens its streams in any order, or not   *)
(* all of them, and may be cut off at any moment.                          *)
(*                                                                         *)
(* A request is [mode, container, want, tty], want the streams asked for;  *)
(* a process is [found, writes, waits, code]: whether there is such a      *)
(* command, what it writes where, whether it ends only with its input, and *)
(* its exit code.                                                          *)
(***************************************************************************)
EXTENDS SessionLog

CONSTANTS
    Requests,
    Containers,     \* the containers of the Pod, in order
    Shellless,      \* those with an image of shellLessImages
    NoContainer,    \* an empty path segment
    Processes,
    Settings,       \* [profile, record, isolate] the shim may run with
    LogLines,       \* what podLogLines returns
    NotFoundText,   \* "<command>: command not found"
    MaxFail         \* bound on calls that fail

ASSUME SessionAssumption ==
    /\ NoContainer \notin {Containers[i] : i \in 1 .. Len(Containers)}
    /\ MaxFail \in Nat
    /\ \A c \in Settings : c.record \in BOOLEAN /\ c.isolate \in BOOLEAN
    /\ \A q \in Requests : q.tty \in BOOLEAN
    /\ LogLines \in Seq(Char)
    /\ \A p \in Processes :
          p.found \in BOOLEAN /\ p.writes \in Seq([to : {"stdout", "stderr"}, text : Seq(Char)])

\* Letters tell the outputs apart: "o" is not written to stderr, nor "e" to stdout.
ASSUME LetterAssumption ==
    /\ NotFoundText \in Seq(Char \ {"o"})
    /\ \A p \in Processes : \A i \in 1 .. Len(p.writes) :
          \/ p.writes[i].to = "stdout" /\ p.writes[i].text \in Seq(Char \ {"e"})
          \/ p.writes[i].to = "stderr" /\ p.writes[i].text \in Seq(Char \ {"o"})

VARIABLES
    req,       \* the request
    cfg,       \* ExecProfile, RecordExecSessions, ExecIsolation
    process,   \* what the command would do
    exists,    \* the Pod is there
    pc,
    resp,      \* the HTTP status, 101 once the connection is taken over
    conn,      \* "open" or "gone"
    offered,   \* streams the client has opened
    streams,   \* streams collected
    eof,       \* the client has closed its stdin
    typedExit, \* the client has ended the shell
    dir,       \* the sandbox directory is on disk
    proc,      \* "none", "running", "exited"
    at,        \* writes the process has made
    out,       \* text in the pipes, or in the pty
    copying,   \* output streams with a live copier
    hand,      \* text a copier has given the client and not yet recorded
    copyErr,   \* a copier has ended with an error
    code,      \* the exit code
    got,       \* text the client has received
    slog,      \* the recorder
    recorded,  \* auxiliary: all text passed to the recorder, in order
    status,    \* what was written to the error stream
    closed,    \* streams closed by the handler
    fails

vars == <<req, cfg, process, exists, pc, resp, conn, offered, streams, eof, typedExit, dir,
          proc, at, out, copying, hand, copyErr, code, got, slog, recorded, status, closed, fails>>

world == <<req, cfg, process, exists>>
client == <<conn, offered, eof, typedExit>>
session == <<dir, proc, at, out, copying, hand, copyErr, code, got, slog, recorded>>
ending == <<status, closed>>

Outputs == {"stdout", "stderr"}
NoLog == [open |-> FALSE, lines |-> <<>>, pending |-> <<>>, bytes |-> 0]

Init ==
    /\ req \in Requests /\ process \in Processes /\ exists \in BOOLEAN
    /\ cfg \in Settings
    /\ pc = "mux" /\ resp = 0
    /\ conn = "open" /\ offered = {} /\ streams = {}
    /\ eof = FALSE /\ typedExit = FALSE
    /\ dir = FALSE /\ proc = "none" /\ at = 0
    /\ out = [s \in Outputs |-> <<>>] /\ copying = {}
    /\ hand = [s \in Outputs |-> <<>>] /\ copyErr = FALSE /\ code = 0
    /\ got = [s \in Outputs |-> <<>>]
    /\ slog = NoLog /\ recorded = <<>>
    /\ status = <<>> /\ closed = {}
    /\ fails = 0

Fail == fails < MaxFail /\ fails' = fails + 1

-----------------------------------------------------------------------------
(* The handlers up to the session *)

Answer(http) ==
    /\ resp' = http /\ pc' = "done"
    /\ UNCHANGED <<world, client, streams, session, ending>>

\* The mux of NewServer; handlePortForward refuses.
NewServer ==
    /\ pc = "mux"
    /\ \/ req.mode = "portForward" /\ Answer(501)
       \/ /\ req.mode # "portForward" /\ pc' = "lookup"
          /\ UNCHANGED <<world, client, resp, streams, session, ending>>
    /\ UNCHANGED fails

hasContainer(name) == \E i \in 1 .. Len(Containers) : Containers[i] = name

\* The container an exec is about: an unnamed one is the Pod's first.
Target == IF req.container = NoContainer THEN Containers[1] ELSE req.container

containerLacksShell(name) == name \in Shellless

\* handleLogs, after the same lookup as the others.
handleLogs ==
    /\ pc = "lookup" /\ req.mode = "logs"
    /\ \/ ~exists /\ Answer(404) /\ UNCHANGED fails
       \/ Fail /\ Answer(500)
       \/ /\ exists /\ resp' = 200 /\ pc' = "done"
          /\ got' = [got EXCEPT !["stdout"] = LogLines]
          /\ UNCHANGED <<world, client, streams, dir, proc, at, out, copying, hand, copyErr,
                         code, slog, recorded, ending, fails>>

\* handleStream up to UpgradeResponse: the lookup and every early return.
handleStream ==
    /\ pc = "lookup" /\ req.mode \in {"exec", "attach"}
    /\ \/ ~exists /\ Answer(404) /\ UNCHANGED fails
       \/ Fail /\ Answer(500)
       \/ /\ exists /\ req.container # NoContainer /\ ~hasContainer(req.container)
          /\ Answer(400) /\ UNCHANGED fails
       \/ /\ exists
          /\ req.container = NoContainer \/ hasContainer(req.container)
          /\ \/ Fail /\ Answer(400)     \* Handshake or UpgradeResponse
             \/ /\ resp' = 101 /\ pc' = "collect"
                /\ UNCHANGED <<world, client, streams, session, ending, fails>>

\* The streams handleStream waits for: stderr is not one of a tty's.
Expected ==
    {"error"} \cup (req.want \ IF req.tty THEN {"stderr"} ELSE {})
              \cup (IF req.tty THEN {"resize"} ELSE {})

\* Mutant: nothing ends the collecting but the last stream.
CollectAll ==
    /\ pc = "collect"
    /\ \E s \in offered \ streams :
         /\ streams' = streams \cup {s}
         /\ pc' = IF streams' = Expected THEN "route" ELSE "collect"
    /\ UNCHANGED <<world, client, resp, session, ending, fails>>

\* The collect loop: by kind of stream, until all are there or the deadline.
collect ==
    /\ pc = "collect"
    /\ \/ \E s \in offered \ streams :
            /\ streams' = streams \cup {s}
            /\ pc' = IF Cardinality(streams') < Cardinality(Expected) THEN "collect" ELSE "route"
       \/ pc' = "route" /\ UNCHANGED streams
    /\ UNCHANGED <<world, client, resp, session, ending, fails>>

-----------------------------------------------------------------------------
(* The end: status on the error stream, then the streams are closed *)

Finish(what) ==
    /\ status' = IF "error" \in streams /\ conn = "open" THEN Append(status, what) ELSE status
    /\ closed' = streams \cap {"stdout", "stderr", "error"}
    /\ pc' = "done"
    /\ UNCHANGED <<world, resp, client, streams>>

\* writeExecNotFound: no process is started for an image without a shell.
writeExecNotFound ==
    /\ pc = "route" /\ req.mode = "exec"
    /\ cfg.profile = "distroless" \/ containerLacksShell(Target)
    /\ Finish("not found")
    /\ UNCHANGED <<session, fails>>

\* runSession for an attach: what the Pod's log shows.
attach ==
    /\ pc = "route" /\ req.mode = "attach"
    /\ got' = IF "stdout" \in streams /\ conn = "open"
              THEN [got EXCEPT !["stdout"] = LogLines] ELSE got
    /\ Finish(0)
    /\ UNCHANGED <<dir, proc, at, out, copying, hand, copyErr, code, slog, recorded, fails>>

\* newExecSandbox, then newSessionLog: a sandbox that fails leaves no
\* directory and the session goes on without.
newExecSandbox ==
    /\ pc = "route" /\ req.mode = "exec"
    /\ ~(cfg.profile = "distroless" \/ containerLacksShell(Target))
    /\ \/ dir' = TRUE /\ UNCHANGED fails
       \/ dir' = FALSE /\ Fail
    /\ slog' = IF cfg.record THEN newSessionLog ELSE slog
    /\ pc' = "start"
    /\ UNCHANGED <<world, client, resp, streams, proc, at, out, copying, hand, copyErr, code,
                   got, recorded, ending>>

Record(text) ==
    /\ slog' = IF cfg.record THEN WriteLog(slog, text) ELSE slog
    /\ recorded' = IF cfg.record THEN recorded \o text ELSE recorded

\* The command does not exist: said on stderr, or on the terminal.
StartFails ==
    /\ LET s == IF req.tty THEN "stdout" ELSE "stderr" IN
       IF s \in streams /\ conn = "open"
       THEN got' = [got EXCEPT ![s] = @ \o NotFoundText] /\ Record(NotFoundText)
       ELSE UNCHANGED <<got, slog, recorded>>
    /\ code' = 127 /\ proc' = "exited" /\ pc' = "ended"
    /\ UNCHANGED <<out, copying>>

\* pty.Start or cmd.Start.  Isolated, the process is the shim itself and
\* starts; RunExecInit then exits with 127 if there is no such command.
startSession ==
    /\ pc = "start"
    /\ \/ ~process.found /\ ~cfg.isolate /\ StartFails
       \/ /\ process.found \/ cfg.isolate
          /\ proc' = "running" /\ pc' = "run"
          /\ copying' = streams \cap (IF req.tty THEN {"stdout"} ELSE Outputs)
          /\ UNCHANGED <<code, got, slog, recorded, out>>
    /\ UNCHANGED <<world, client, resp, streams, dir, at, hand, copyErr, ending, fails>>

-----------------------------------------------------------------------------
(* The process, and the goroutines that copy its output *)

Writes == IF process.found THEN process.writes ELSE <<>>

\* A write: to a copier, or to nobody; a pipe without a reader kills.
ProcessWrites ==
    /\ proc = "running" /\ at < Len(Writes) /\ at' = at + 1
    /\ LET w == Writes[at + 1]
           s == IF req.tty THEN "stdout" ELSE w.to
       IN \/ /\ s \in copying \/ s \notin streams \/ req.tty
             /\ out' = IF s \in copying THEN [out EXCEPT ![s] = @ \o w.text] ELSE out
             /\ UNCHANGED <<proc, code>>
          \/ /\ s \in streams \ copying /\ ~req.tty
             /\ proc' = "exited" /\ code' = -1 /\ UNCHANGED out
    /\ UNCHANGED <<world, client, pc, resp, streams, dir, copying, hand, copyErr, got, slog,
                   recorded, ending, fails>>

\* The end of the input: that of the stream reaches a pipe, never a pty.
InputEnded == IF req.tty THEN typedExit ELSE eof \/ conn = "gone" \/ "stdin" \notin streams

ProcessExits ==
    /\ proc = "running" /\ at = Len(Writes)
    /\ process.found /\ process.waits => InputEnded
    /\ proc' = "exited" /\ code' = IF process.found THEN process.code ELSE 127
    /\ UNCHANGED <<world, client, pc, resp, streams, dir, at, out, copying, hand, copyErr, got,
                   slog, recorded, ending, fails>>

\* Mutant: what was read is recorded whether or not it could be sent.
CopyAndRecord(s) ==
    /\ s \in copying /\ hand[s] = <<>> /\ out[s] # <<>>
    /\ out' = [out EXCEPT ![s] = <<>>]
    /\ IF cfg.record THEN hand' = [hand EXCEPT ![s] = out[s]] ELSE UNCHANGED hand
    /\ got' = IF conn = "open" THEN [got EXCEPT ![s] = @ \o out[s]] ELSE got
    /\ UNCHANGED <<world, client, pc, resp, streams, dir, proc, at, copying, copyErr, code, slog,
                   recorded, ending, fails>>

\* The first writer of tee: the client.  An error ends the copier, and what
\* was read is not recorded although some of it may have arrived.
copyToClient(s) ==
    /\ s \in copying /\ hand[s] = <<>> /\ out[s] # <<>>
    /\ out' = [out EXCEPT ![s] = <<>>]
    /\ \/ /\ conn = "open"
          /\ got' = [got EXCEPT ![s] = @ \o out[s]]
          /\ IF cfg.record THEN hand' = [hand EXCEPT ![s] = out[s]] ELSE UNCHANGED hand
          /\ UNCHANGED <<copying, copyErr>>
       \/ /\ conn = "gone"
          /\ copying' = copying \ {s} /\ copyErr' = TRUE
          /\ UNCHANGED <<got, hand>>
    /\ UNCHANGED <<world, client, pc, resp, streams, dir, proc, at, code, slog, recorded,
                   ending, fails>>

\* The second writer of tee.
tee(s) ==
    /\ hand[s] # <<>>
    /\ Record(hand[s])
    /\ hand' = [hand EXCEPT ![s] = <<>>]
    /\ UNCHANGED <<world, client, pc, resp, streams, dir, proc, at, out, copying, copyErr, code,
                   got, ending, fails>>

\* End of file: the process is gone and all it wrote has been read.
copyEnds(s) ==
    /\ s \in copying /\ proc = "exited" /\ out[s] = <<>> /\ hand[s] = <<>>
    /\ copying' = copying \ {s}
    /\ UNCHANGED <<world, client, pc, resp, streams, dir, proc, at, out, hand, copyErr, code,
                   got, slog, recorded, ending, fails>>

exitCodeFor == IF code = 0 /\ copyErr /\ ~req.tty THEN 1 ELSE code

\* Mutant: the exit of the process ends the session.
WaitForProcess ==
    /\ pc = "run" /\ req.tty /\ proc = "exited"
    /\ pc' = "ended" /\ code' = exitCodeFor
    /\ UNCHANGED <<world, client, resp, streams, dir, proc, at, out, copying, hand, copyErr, got,
                   slog, recorded, ending, fails>>

\* runPTYSession: Wait, then the copier's done.
runPTYSession ==
    /\ pc = "run" /\ req.tty /\ proc = "exited" /\ copying = {}
    /\ pc' = "ended" /\ code' = exitCodeFor
    /\ UNCHANGED <<world, client, resp, streams, dir, proc, at, out, copying, hand, copyErr, got,
                   slog, recorded, ending, fails>>

\* runPipeSession: Run waits for the process and every copier, that of stdin
\* included.
runPipeSession ==
    /\ pc = "run" /\ ~req.tty /\ proc = "exited" /\ copying = {} /\ InputEnded
    /\ pc' = "ended" /\ code' = exitCodeFor
    /\ UNCHANGED <<world, client, resp, streams, dir, proc, at, out, copying, hand, copyErr, got,
                   slog, recorded, ending, fails>>

\* Mutant: a command that was not found leaves runSession early.
ReturnEarly ==
    /\ pc = "ended"
    /\ slog' = IF cfg.record /\ code # 127 THEN DoneLog(slog) ELSE slog
    /\ dir' = FALSE
    /\ Finish(code)
    /\ UNCHANGED <<proc, at, out, copying, hand, copyErr, code, got, recorded, fails>>

\* The rest of runSession and handleStream: rec.done, cleanup, the status, and
\* the streams.
writeExecStatus ==
    /\ pc = "ended"
    /\ slog' = IF cfg.record THEN DoneLog(slog) ELSE slog
    /\ dir' = FALSE
    /\ Finish(code)
    /\ UNCHANGED <<proc, at, out, copying, hand, copyErr, code, got, recorded, fails>>

-----------------------------------------------------------------------------
(* The client, through the API server *)

OpenStream(s) ==
    /\ resp = 101 /\ conn = "open" /\ s \in Expected \ offered
    /\ offered' = offered \cup {s}
    /\ UNCHANGED <<world, conn, eof, typedExit, pc, resp, streams, session, ending, fails>>

CloseStdin ==
    /\ "stdin" \in streams /\ conn = "open" /\ ~eof /\ eof' = TRUE
    /\ UNCHANGED <<world, conn, offered, typedExit, pc, resp, streams, session, ending, fails>>

TypeExit ==
    /\ req.tty /\ "stdin" \in streams /\ conn = "open" /\ ~typedExit /\ typedExit' = TRUE
    /\ UNCHANGED <<world, conn, offered, eof, pc, resp, streams, session, ending, fails>>

\* The client leaves, or the idle timeout closes the connection.
Disconnect ==
    /\ resp = 101 /\ pc # "done" /\ conn = "open" /\ conn' = "gone"
    /\ UNCHANGED <<world, offered, eof, typedExit, pc, resp, streams, session, ending, fails>>

-----------------------------------------------------------------------------
Handle ==
    \/ NewServer \/ handleLogs \/ handleStream \/ collect
    \/ writeExecNotFound \/ attach \/ newExecSandbox \/ startSession
    \/ runPTYSession \/ runPipeSession \/ writeExecStatus

Process == ProcessWrites \/ ProcessExits
Copier(s) == copyToClient(s) \/ tee(s) \/ copyEnds(s)

Next ==
    \/ Handle \/ Process
    \/ \E s \in Outputs : Copier(s)
    \/ \E s \in Expected : OpenStream(s)
    \/ CloseStdin \/ TypeExit \/ Disconnect

Spec == Init /\ [][Next]_vars

\* The handler and the goroutines run, the process does what it does, and no
\* connection lasts for ever: the client ends it or the idle timeout.
FairSpec ==
    /\ Spec /\ WF_vars(Handle) /\ WF_vars(Process) /\ WF_vars(Disconnect)
    /\ \A s \in Outputs : WF_vars(Copier(s))

-----------------------------------------------------------------------------
(* Properties *)

\* The recorder never holds more of an unfinished line than its cap, and never
\* a line that is finished: no output makes the shim's memory grow.
PendingBounded ==
    /\ Len(slog.pending) <= maxPendingLine
    /\ \A i \in 1 .. Len(slog.pending) : slog.pending[i] # "n"

\* "the transcript stays faithful, just line-wrapped": the lines logged, with
\* what is pending, are what was written, but for newlines and carriage
\* returns, at the end of the session nothing is pending, and the number of
\* bytes it reports is what was written.  (Write, done.)
TranscriptFaithful ==
    /\ slog.bytes = Len(recorded)
    /\ Visible(Joined(slog.lines) \o slog.pending) = Visible(recorded)
    /\ ~slog.open => slog.pending = <<>>

\* The letters that are written to an output; a terminal has one.
Letters(s) ==
    CASE s = "stdout" -> IF req.tty THEN {"o", "e"} ELSE {"o"}
      [] s = "stderr" -> IF req.tty THEN {} ELSE {"e"}

\* Of each output, what is recorded is what the client has got, in its order,
\* but for what a copier is still to record; and once the session is over it
\* is all of it.  Two copiers share the recorder.
RecordedIsDelivered ==
    cfg.record /\ req.mode = "exec" =>
        \A s \in Outputs :
            Only(recorded, Letters(s)) \o Only(hand[s], Letters(s)) = Only(got[s], Letters(s))

\* There is one status and it is the last thing on the wire: when it is written
\* the process has ended, no copier is left, and all that was read from it was sent,
\* unless the connection was gone.
StatusComesLast ==
    status # <<>> /\ proc # "none" =>
        /\ Len(status) = 1
        /\ proc = "exited" /\ copying = {} /\ pc = "done"
        /\ \A s \in Outputs : out[s] = <<>> /\ hand[s] = <<>>

\* A request that is over leaves nothing behind: no sandbox directory, no
\* recording without its end, no output stream open.
NothingLeftBehind ==
    pc = "done" => /\ ~dir /\ ~slog.open /\ proc # "running"
                   /\ streams \cap (Outputs \cup {"error"}) \subseteq closed

\* Every request comes to its end, whatever streams the client opens and
\* however it goes, but one: a shell on a terminal whose client is cut off
\* waits for an input that nothing ends.
EventuallyReturns ==
    <>(pc = "done" \/ (req.tty /\ process.waits /\ conn = "gone" /\ ~typedExit))
=============================================================================
