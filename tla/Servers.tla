------------------------------- MODULE Servers -------------------------------
(***************************************************************************)
(* The serve command (cmd/framedrag runServe) and the HTTP server of each  *)
(* file target (internal/target Serve, serveListener): the command starts  *)
(* one goroutine per server and waits for a report of each; each server    *)
(* runs an accept loop in a goroutine of its own and shuts it down when    *)
(* the shared context is cancelled, by a signal or by the first error.     *)
(*                                                                         *)
(* net/http is external.  Its Shutdown marks the server as closing, closes *)
(* the listener, waits for an accept loop that has begun, and then for the *)
(* open requests, up to a deadline.  Its Serve returns ErrServerClosed     *)
(* once the server is closing, also when it begins only then.              *)
(***************************************************************************)
EXTENDS Naturals, Sequences, FiniteSets

CONSTANTS
    Server,    \* the file targets with a serve address
    MaxOpen    \* bound on the requests a server answers at a time

ASSUME ServersAssumption ==
    /\ IsFiniteSet(Server) /\ Server # {}
    /\ MaxOpen \in Nat

VARIABLES
    signalled,  \* SIGINT or SIGTERM has arrived
    cancelled,  \* the context of all servers is cancelled
    at,         \* at[s]: where Serve of server s is
    loop,       \* loop[s]: its accept loop
    closing,    \* closing[s]: Shutdown has begun
    errc,       \* errc[s]: what its accept loop has sent and nobody received
    open,       \* open[s]: how many requests it is answering
    reports,    \* what servers have sent to the command, oldest first
    received,   \* how many reports the command has received
    firstErr,   \* the first of them that was an error
    process     \* "running", "returned" or "killed"

vars == <<signalled, cancelled, at, loop, closing, errc, open,
          reports, received, firstErr, process>>

server == <<at, loop, closing, errc, open>>
command == <<received, firstErr, process>>

-----------------------------------------------------------------------------

(* What Serve of a target can return: nil, net.Listen's error, the error   *)
(* that ended Accept, or the deadline of Shutdown.                         *)
Failure == {"listen", "accept", "timeout"}
Result == {"nil"} \union Failure

TypeOK ==
    /\ signalled \in BOOLEAN /\ cancelled \in BOOLEAN
    /\ at \in [Server -> {"listen", "select", "shutdown", "drop", "sent"}]
    /\ loop \in [Server -> {"none", "starting", "accepting", "ended"}]
    /\ closing \in [Server -> BOOLEAN]
    /\ errc \in [Server -> {"empty", "closed", "accept"}]
    /\ open \in [Server -> 0..MaxOpen]
    /\ reports \in Seq(Result)
    /\ received \in Nat
    /\ firstErr \in Result
    /\ process \in {"running", "returned", "killed"}

Init ==
    /\ signalled = FALSE /\ cancelled = FALSE
    /\ at = [s \in Server |-> "listen"]
    /\ loop = [s \in Server |-> "none"]
    /\ closing = [s \in Server |-> FALSE]
    /\ errc = [s \in Server |-> "empty"]
    /\ open = [s \in Server |-> 0]
    /\ reports = <<>> /\ received = 0
    /\ firstErr = "nil" /\ process = "running"

-----------------------------------------------------------------------------
(* One server. *)

(* Serve returns: its goroutine sends the result, for which the channel of *)
(* the command always has room.                                            *)
Report(s, r) ==
    /\ at' = [at EXCEPT ![s] = "sent"]
    /\ reports' = Append(reports, r)

Listen(s) ==
    /\ at[s] = "listen"
    /\ at' = [at EXCEPT ![s] = "select"]
    /\ loop' = [loop EXCEPT ![s] = "starting"]
    /\ UNCHANGED <<signalled, cancelled, closing, errc, open, reports, command>>

ListenFails(s) ==
    /\ at[s] = "listen"
    /\ Report(s, "listen")
    /\ UNCHANGED <<signalled, cancelled, loop, closing, errc, open, command>>

(* The accept loop. *)
EndLoop(s, r) ==
    /\ loop' = [loop EXCEPT ![s] = "ended"]
    /\ errc' = [errc EXCEPT ![s] = r]

BeginLoop(s) ==
    /\ loop[s] = "starting" /\ ~closing[s]
    /\ loop' = [loop EXCEPT ![s] = "accepting"]
    /\ UNCHANGED <<signalled, cancelled, at, closing, errc, open, reports, command>>

LoopClosed(s) ==
    /\ loop[s] \in {"starting", "accepting"} /\ closing[s]
    /\ EndLoop(s, "closed")
    /\ UNCHANGED <<signalled, cancelled, at, closing, open, reports, command>>

LoopFails(s) ==
    /\ loop[s] = "accepting" /\ ~closing[s]
    /\ EndLoop(s, "accept")
    /\ UNCHANGED <<signalled, cancelled, at, closing, open, reports, command>>

Accept(s) ==
    /\ loop[s] = "accepting" /\ open[s] < MaxOpen
    /\ open' = [open EXCEPT ![s] = @ + 1]
    /\ UNCHANGED <<signalled, cancelled, at, loop, closing, errc, reports, command>>

Answer(s) ==
    /\ open[s] > 0
    /\ open' = [open EXCEPT ![s] = @ - 1]
    /\ UNCHANGED <<signalled, cancelled, at, loop, closing, errc, reports, command>>

(* The select of serveListener: either channel when both are ready. *)
BeginShutdown(s) ==
    /\ at[s] = "select" /\ cancelled
    /\ at' = [at EXCEPT ![s] = "shutdown"]
    /\ closing' = [closing EXCEPT ![s] = TRUE]
    /\ UNCHANGED <<signalled, cancelled, loop, errc, open, reports, command>>

TakeLoopError(s) ==
    /\ at[s] = "select" /\ errc[s] # "empty"
    /\ errc' = [errc EXCEPT ![s] = "empty"]
    /\ Report(s, IF errc[s] = "closed" THEN "nil" ELSE errc[s])
    /\ UNCHANGED <<signalled, cancelled, loop, closing, open, command>>

(* Mutant: Close in the place of Shutdown. *)
ShutdownAtOnce(s) ==
    /\ at[s] = "shutdown" /\ loop[s] # "accepting"
    /\ at' = [at EXCEPT ![s] = "drop"]
    /\ UNCHANGED <<signalled, cancelled, loop, closing, errc, open, reports, command>>

(* Shutdown returns nil, or its deadline has passed with a request open. *)
ShutdownDone(s) ==
    /\ at[s] = "shutdown" /\ loop[s] # "accepting" /\ open[s] = 0
    /\ at' = [at EXCEPT ![s] = "drop"]
    /\ UNCHANGED <<signalled, cancelled, loop, closing, errc, open, reports, command>>

ShutdownTimesOut(s) ==
    /\ at[s] = "shutdown" /\ loop[s] # "accepting" /\ open[s] > 0
    /\ Report(s, "timeout")
    /\ UNCHANGED <<signalled, cancelled, loop, closing, errc, open, command>>

(* Mutants: Serve returns as soon as Shutdown has; it returns what the loop *)
(* sent.                                                                    *)
ReturnAfterShutdown(s) ==
    /\ at[s] = "drop"
    /\ Report(s, "nil")
    /\ UNCHANGED <<signalled, cancelled, loop, closing, errc, open, command>>

ReturnLoopError(s) ==
    /\ at[s] = "drop" /\ errc[s] # "empty"
    /\ errc' = [errc EXCEPT ![s] = "empty"]
    /\ Report(s, errc[s])
    /\ UNCHANGED <<signalled, cancelled, loop, closing, open, command>>

(* What the loop sent is received and dropped. *)
DropLoopError(s) ==
    /\ at[s] = "drop" /\ errc[s] # "empty"
    /\ errc' = [errc EXCEPT ![s] = "empty"]
    /\ Report(s, "nil")
    /\ UNCHANGED <<signalled, cancelled, loop, closing, open, command>>

-----------------------------------------------------------------------------
(* The command. *)

Signal ==
    /\ ~signalled /\ firstErr = "nil"
    /\ signalled' = TRUE
    /\ cancelled' = TRUE
    /\ UNCHANGED <<server, reports, command>>

(* The first error has called stop: signals have their default effect      *)
(* again.                                                                  *)
Kill ==
    /\ firstErr # "nil"
    /\ process' = "killed"
    /\ UNCHANGED <<signalled, cancelled, server, reports, received, firstErr>>

(* Mutants: the last error is returned; the first does not stop the other  *)
(* servers.                                                                *)
ReceiveLastError ==
    /\ reports # <<>>
    /\ reports' = Tail(reports)
    /\ received' = received + 1
    /\ firstErr' = IF Head(reports) = "nil" THEN firstErr ELSE Head(reports)
    /\ cancelled' = (cancelled \/ Head(reports) # "nil")
    /\ UNCHANGED <<signalled, server, process>>

ReceiveNoStop ==
    /\ reports # <<>>
    /\ reports' = Tail(reports)
    /\ received' = received + 1
    /\ firstErr' = IF firstErr = "nil" THEN Head(reports) ELSE firstErr
    /\ UNCHANGED <<signalled, cancelled, server, process>>

Receive ==
    /\ reports # <<>>
    /\ reports' = Tail(reports)
    /\ received' = received + 1
    /\ IF firstErr = "nil" /\ Head(reports) # "nil"
       THEN firstErr' = Head(reports) /\ cancelled' = TRUE
       ELSE UNCHANGED <<firstErr, cancelled>>
    /\ UNCHANGED <<signalled, server, process>>

Return ==
    /\ received = Cardinality(Server)
    /\ process' = "returned"
    /\ UNCHANGED <<signalled, cancelled, server, reports, received, firstErr>>

-----------------------------------------------------------------------------

(* What the code does by itself, and what happens to it. *)
Proceed(s) ==
    \/ Listen(s) \/ ListenFails(s)
    \/ BeginLoop(s) \/ LoopClosed(s)
    \/ BeginShutdown(s) \/ TakeLoopError(s)
    \/ ShutdownDone(s) \/ ShutdownTimesOut(s) \/ DropLoopError(s)

Befall(s) == LoopFails(s) \/ Accept(s) \/ Answer(s)

Running(A) == process = "running" /\ A

(* The process is gone: nothing happens any more. *)
Over == process # "running" /\ UNCHANGED vars

Next ==
    \/ Running(Signal) \/ Running(Kill) \/ Running(Receive) \/ Running(Return)
    \/ \E s \in Server : Running(Proceed(s) \/ Befall(s))
    \/ Over

Spec == Init /\ [][Next]_vars

(* Every goroutine that can go on does, and so does the deadline.  Clients *)
(* need never finish, and no signal need ever come.                        *)
Fairness ==
    /\ WF_vars(Running(Receive))
    /\ WF_vars(Running(Return))
    /\ \A s \in Server : WF_vars(Running(BeginLoop(s) \/ LoopClosed(s)))
    /\ \A s \in Server :
          WF_vars(Running(\/ Listen(s) \/ ListenFails(s)
                          \/ BeginShutdown(s) \/ TakeLoopError(s)
                          \/ ShutdownDone(s) \/ ShutdownTimesOut(s)
                          \/ DropLoopError(s)))

FairSpec == Spec /\ Fairness
=============================================================================
