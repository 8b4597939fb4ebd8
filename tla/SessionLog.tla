----------------------------- MODULE SessionLog -----------------------------
(***************************************************************************)
(* The recorder of an exec session (internal/kubeletshim/sessionlog.go):   *)
(* what goes to the client is cut into log lines.  Text is a sequence of   *)
(* characters, of which "n" is the newline and "r" the carriage return.    *)
(***************************************************************************)
EXTENDS Subsequences, FiniteSetsExt

CONSTANTS
    maxPendingLine,
    Char            \* the characters of a text

ASSUME PendingAssumption == maxPendingLine \in Nat
ASSUME CharAssumption == {"n", "r"} \subseteq Char

\* newSessionLog
newSessionLog == [open |-> TRUE, lines |-> <<>>, pending |-> <<>>, bytes |-> 0]

TrimRight(text, cutset) ==
    SubSeq(text, 1, Max({0} \cup {i \in 1 .. Len(text) : text[i] \notin cutset}))

\* A line is logged unless nothing is left of it.
Emit(lines, text, cutset) ==
    LET line == TrimRight(text, cutset) IN IF line = <<>> THEN lines ELSE Append(lines, line)

\* The loop over complete lines: [lines, pending] after i characters of text.
CutTo(lines, text) ==
    LET cut[i \in 0 .. Len(text)] ==
            IF i = 0 THEN [lines |-> lines, pending |-> <<>>]
            ELSE IF text[i] = "n"
            THEN [lines |-> Emit(cut[i - 1].lines, cut[i - 1].pending, {"r"}), pending |-> <<>>]
            ELSE [cut[i - 1] EXCEPT !.pending = Append(@, text[i])]
    IN cut

CutLines(lines, text) == CutTo(lines, text)[Len(text)]

\* Mutant: the cap is tested before the text is added.
WriteCapFirst(s, p) ==
    LET cut == CutLines(s.lines, s.pending \o p) IN
    [s EXCEPT !.bytes = @ + Len(p),
              !.lines = IF Len(s.pending) > maxPendingLine
                        THEN Append(cut.lines, TrimRight(cut.pending, {"r"})) ELSE cut.lines,
              !.pending = IF Len(s.pending) > maxPendingLine THEN <<>> ELSE cut.pending]

\* Mutant: a line that is too long is dropped.
WriteDropsLong(s, p) ==
    LET cut == CutLines(s.lines, s.pending \o p) IN
    [s EXCEPT !.bytes = @ + Len(p), !.lines = cut.lines,
              !.pending = IF Len(cut.pending) > maxPendingLine THEN <<>> ELSE cut.pending]

\* Write of the recorder, under its mutex.
WriteLog(s, p) ==
    LET cut == CutLines(s.lines, s.pending \o p) IN
    [s EXCEPT !.bytes = @ + Len(p),
              !.lines = IF Len(cut.pending) > maxPendingLine
                        THEN Append(cut.lines, TrimRight(cut.pending, {"r"})) ELSE cut.lines,
              !.pending = IF Len(cut.pending) > maxPendingLine THEN <<>> ELSE cut.pending]

\* done: the tail, and the line with the exit code and the number of bytes.
DoneLog(s) ==
    [s EXCEPT !.lines = Emit(@, s.pending, {"r", "n"}), !.pending = <<>>, !.open = FALSE]

\* The text of the first i lines.
JoinedTo(lines) ==
    LET upTo[i \in 0 .. Len(lines)] == IF i = 0 THEN <<>> ELSE upTo[i - 1] \o lines[i]
    IN upTo

Joined(lines) == JoinedTo(lines)[Len(lines)]

\* What a transcript is to preserve of a text.
Visible(text) == Only(text, Char \ {"n", "r"})
=============================================================================
