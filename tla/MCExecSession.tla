--------------------------- MODULE MCExecSession ---------------------------
(***************************************************************************)
(* Lines of one to three letters, "o" on stdout and "e" on stderr, against *)
(* a cap of two; a command that is missing, one that is done at once, a    *)
(* shell.                                                                  *)
(***************************************************************************)
EXTENDS ExecSession

CONSTANTS app, etcd

Request(mode, container, want, tty) ==
    [mode |-> mode, container |-> container, want |-> want, tty |-> tty]
MCRequests ==
    { Request("portForward", NoContainer, {}, FALSE),
      Request("logs", app, {}, FALSE),
      Request("attach", NoContainer, {"stdout"}, FALSE),
      Request("exec", "nowhere", {"stdout"}, FALSE),
      Request("exec", etcd, {"stdout"}, FALSE),
      Request("exec", app, {"stdout", "stderr"}, FALSE),
      Request("exec", NoContainer, {"stdin", "stdout", "stderr"}, FALSE),
      Request("exec", app, {"stdin", "stdout", "stderr"}, TRUE) }

Write(to, text) == [to |-> to, text |-> text]
Proc(found, writes, waits, exit) ==
    [found |-> found, writes |-> writes, waits |-> waits, code |-> exit]
MCProcesses ==
    { Proc(FALSE, <<>>, FALSE, 0),
      Proc(TRUE, <<Write("stdout", <<"o", "n", "o">>), Write("stderr", <<"e", "r", "n">>),
                   Write("stdout", <<"o", "o">>)>>, FALSE, 0),
      Proc(TRUE, <<Write("stdout", <<"n", "o">>), Write("stderr", <<"e", "e", "e">>)>>, TRUE, 3) }

Setting(profile, record, isolate) ==
    [profile |-> profile, record |-> record, isolate |-> isolate]
MCSettings == {Setting("shell", TRUE, FALSE), Setting("shell", TRUE, TRUE),
               Setting("minimal", FALSE, FALSE), Setting("distroless", TRUE, FALSE)}

MCContainers == <<app, etcd>>
MCLogLines == <<"o", "n">>
MCNotFoundText == <<"n">>
=============================================================================
