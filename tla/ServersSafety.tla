---------------------------- MODULE ServersSafety ----------------------------
(***************************************************************************)
(* What the serve command promises, stated over Servers.                   *)
(***************************************************************************)
EXTENDS Servers

(* "serve blocks until SIGINT or SIGTERM" (serve.go:25): a command that no *)
(* signal has ended returns the error that brought the servers down, never *)
(* nil and never one that shutting down the others caused (serve.go:80).   *)
CauseIsReported ==
    (process = "returned" /\ ~signalled) => firstErr \in {"listen", "accept"}

(* When the command ends without an error no client is cut off.            *)
NothingCutOff ==
    (process = "returned" /\ firstErr = "nil") => \A s \in Server : open[s] = 0

(* When the command returns every server has reported, and no accept loop  *)
(* is left behind with its port (serve.go:79, file.go:307).                *)
NothingLeftRunning ==
    process = "returned" =>
        /\ reports = <<>>
        /\ \A s \in Server : at[s] = "sent" /\ loop[s] \in {"none", "ended"}

(* After a signal, or the first error of any server, the command ends,     *)
(* although clients may keep their requests open for ever.                 *)
StopsWhenToldTo == (signalled \/ firstErr # "nil") ~> process # "running"
=============================================================================
