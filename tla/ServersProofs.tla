---------------------------- MODULE ServersProofs ----------------------------
(***************************************************************************)
(* The safety of the serve command, for any finite number of servers.      *)
(*                                                                         *)
(* The invariant has five parts: the types; what each server's own place   *)
(* says of its accept loop and its requests; a count of the reports; what  *)
(* has been reported while nothing was cancelled; and what no error at all *)
(* says of the servers that have reported.                                 *)
(***************************************************************************)
EXTENDS ServersSafety, FiniteSetTheorems, TLAPS

Sent == {s \in Server : at[s] = "sent"}

InPlace(s) ==
    /\ at[s] = "listen" => loop[s] = "none"
    /\ at[s] \in {"listen", "select"} => ~closing[s]
    /\ at[s] \in {"shutdown", "drop"} => closing[s]
    /\ at[s] = "drop" => open[s] = 0 /\ loop[s] # "accepting"
    /\ at[s] = "sent" => loop[s] \in {"none", "ended"}
    /\ loop[s] \in {"none", "starting"} => open[s] = 0
    /\ errc[s] # "empty" => loop[s] = "ended"
    /\ errc[s] = "closed" => closing[s]
    /\ closing[s] => cancelled

AllInPlace == \A s \in Server : InPlace(s)

Counted ==
    /\ received + Len(reports) = Cardinality(Sent)
    /\ process = "returned" => received = Cardinality(Server)

Caused ==
    /\ cancelled <=> signalled \/ firstErr # "nil"
    /\ ~signalled => firstErr \in {"nil", "listen", "accept"}
    /\ ~cancelled => /\ received = 0
                     /\ \A i \in DOMAIN reports : reports[i] \in {"listen", "accept"}

NoErrors == firstErr = "nil" /\ \A i \in DOMAIN reports : reports[i] = "nil"

Quiet == NoErrors => \A s \in Server : at[s] = "sent" => open[s] = 0

IInv == TypeOK /\ AllInPlace /\ Counted /\ Caused /\ Quiet

-----------------------------------------------------------------------------
(* The initial states. *)

(* Before anything has happened no server has reported and nothing is      *)
(* open.                                                                   *)
LEMMA InitInvariant == Init => IInv
<1> SUFFICES ASSUME Init PROVE IInv
  OBVIOUS
<1>1. TypeOK
  <2>1. 0 \in 0 .. MaxOpen
    BY ServersAssumption
  <2>2. reports \in Seq(Result)
    BY DEF Init
  <2> QED
    BY <2>1, <2>2 DEF Init, TypeOK, Result
<1>2. AllInPlace
  BY DEF Init, AllInPlace, InPlace
<1>3. Counted
  <2>1. Sent = {}
    BY DEF Init, Sent
  <2>2. Cardinality(Sent) = 0
    BY <2>1, FS_EmptySet
  <2> QED
    BY <2>2 DEF Init, Counted
<1>4. Caused /\ Quiet
  BY DEF Init, Caused, Quiet
<1> QED
  BY <1>1, <1>2, <1>3, <1>4 DEF IInv

-----------------------------------------------------------------------------
(* The steps. *)

(* Every step keeps the types.                                             *)
LEMMA TypeStep == TypeOK /\ [Next]_vars => TypeOK'
<1> SUFFICES ASSUME TypeOK, [Next]_vars PROVE TypeOK'
  OBVIOUS
<1> USE DEF TypeOK, Result, Failure, Running
<1>1. CASE Running(Signal)
  BY <1>1 DEF Signal, server, command
<1>2. CASE Running(Kill)
  BY <1>2 DEF Kill, server
<1>3. CASE Running(Receive)
  <2>1. reports \in Seq(Result) /\ reports # << >>
    BY <1>3 DEF Receive
  <2>2. Head(reports) \in Result /\ Tail(reports) \in Seq(Result)
    BY <2>1
  <2>3. firstErr' \in Result /\ cancelled' \in BOOLEAN
    BY <1>3, <2>2 DEF Receive
  <2> QED
    BY <1>3, <2>2, <2>3 DEF Receive, server
<1>4. CASE Running(Return)
  BY <1>4 DEF Return, server
<1>5. ASSUME NEW s \in Server, Running(Proceed(s)) PROVE TypeOK'
  <2>1. CASE Listen(s)
    BY <2>1 DEF Listen, command
  <2>2. CASE ListenFails(s)
    BY <2>2 DEF ListenFails, Report, command
  <2>3. CASE BeginLoop(s)
    BY <2>3 DEF BeginLoop, command
  <2>4. CASE LoopClosed(s)
    BY <2>4 DEF LoopClosed, EndLoop, command
  <2>5. CASE BeginShutdown(s)
    BY <2>5 DEF BeginShutdown, command
  <2>6. CASE TakeLoopError(s)
    BY <2>6 DEF TakeLoopError, Report, command
  <2>7. CASE ShutdownDone(s)
    BY <2>7 DEF ShutdownDone, command
  <2>8. CASE ShutdownTimesOut(s)
    BY <2>8 DEF ShutdownTimesOut, Report, command
  <2>9. CASE DropLoopError(s)
    BY <2>9 DEF DropLoopError, Report, command
  <2> QED
    BY <1>5, <2>1, <2>2, <2>3, <2>4, <2>5, <2>6, <2>7, <2>8, <2>9 DEF Proceed
<1>6. ASSUME NEW s \in Server, Running(Befall(s)) PROVE TypeOK'
  <2>1. CASE LoopFails(s)
    BY <2>1 DEF LoopFails, EndLoop, command
  <2>2. CASE Accept(s)
    BY <2>2, ServersAssumption DEF Accept, command
  <2>3. CASE Answer(s)
    BY <2>3, ServersAssumption DEF Answer, command
  <2> QED
    BY <1>6, <2>1, <2>2, <2>3 DEF Befall
<1>7. CASE UNCHANGED vars
  BY <1>7 DEF vars
<1> QED
  BY <1>1, <1>2, <1>3, <1>4, <1>5, <1>6, <1>7 DEF Next, Over

(* What a server's place says of it: another server, and the command, do   *)
(* not disturb it.                                                         *)
LEMMA PlaceStep ==
    TypeOK /\ AllInPlace /\ Caused /\ [Next]_vars => AllInPlace'
<1> SUFFICES ASSUME TypeOK, AllInPlace, Caused, [Next]_vars,
                    NEW t \in Server
             PROVE  InPlace(t)'
  BY DEF AllInPlace
<1>0. InPlace(t)
  BY DEF AllInPlace
<1> USE <1>0 DEF TypeOK, InPlace, Running
<1>1. CASE Running(Signal)
  BY <1>1 DEF Signal, server, command
<1>2. CASE Running(Kill)
  BY <1>2 DEF Kill, server
<1>3. CASE Running(Receive)
  BY <1>3 DEF Receive, server
<1>4. CASE Running(Return)
  BY <1>4 DEF Return, server
<1>5. ASSUME NEW s \in Server, Running(Proceed(s)) PROVE InPlace(t)'
  <2>1. CASE Listen(s)
    BY <2>1 DEF Listen, command
  <2>2. CASE ListenFails(s)
    BY <2>2 DEF ListenFails, Report, command
  <2>3. CASE BeginLoop(s)
    BY <2>3 DEF BeginLoop, command
  <2>4. CASE LoopClosed(s)
    BY <2>4 DEF LoopClosed, EndLoop, command
  <2>5. CASE BeginShutdown(s)
    BY <2>5 DEF BeginShutdown, command
  <2>6. CASE TakeLoopError(s)
    BY <2>6 DEF TakeLoopError, Report, command
  <2>7. CASE ShutdownDone(s)
    BY <2>7 DEF ShutdownDone, command
  <2>8. CASE ShutdownTimesOut(s)
    BY <2>8 DEF ShutdownTimesOut, Report, command
  <2>9. CASE DropLoopError(s)
    BY <2>9 DEF DropLoopError, Report, command
  <2> QED
    BY <1>5, <2>1, <2>2, <2>3, <2>4, <2>5, <2>6, <2>7, <2>8, <2>9 DEF Proceed
<1>6. ASSUME NEW s \in Server, Running(Befall(s)) PROVE InPlace(t)'
  <2>1. CASE LoopFails(s)
    BY <2>1 DEF LoopFails, EndLoop, command
  <2>2. CASE Accept(s)
    BY <2>2, ServersAssumption DEF Accept, command
  <2>3. CASE Answer(s)
    BY <2>3, ServersAssumption DEF Answer, command
  <2> QED
    BY <1>6, <2>1, <2>2, <2>3 DEF Befall
<1>7. CASE UNCHANGED vars
  BY <1>7 DEF vars
<1> QED
  BY <1>1, <1>2, <1>3, <1>4, <1>5, <1>6, <1>7 DEF Next, Over

(* A server that returns adds one to the servers that have reported.       *)
LEMMA ReportCounts ==
    ASSUME TypeOK, Counted, process = "running",
           NEW s \in Server, at[s] # "sent",
           NEW r \in Result, Report(s, r),
           UNCHANGED command
    PROVE  Counted'
<1>1. Sent' = Sent \union {s} /\ s \notin Sent
  BY DEF Sent, Report, TypeOK
<1>2. IsFiniteSet(Sent)
  BY ServersAssumption, FS_Subset DEF Sent
<1>3. Cardinality(Sent') = Cardinality(Sent) + 1
  BY <1>1, <1>2, FS_AddElement
<1>4. Cardinality(Sent) \in Nat
  BY <1>2, FS_CardinalityType
<1>5. Len(reports') = Len(reports) + 1 /\ Len(reports) \in Nat
  BY DEF Report, TypeOK
<1> QED
  BY <1>3, <1>4, <1>5 DEF Counted, TypeOK, command

(* Any other step that moves no server out of Serve leaves the count.      *)
LEMMA OthersDoNotCount ==
    ASSUME Counted, Sent' = Sent, UNCHANGED <<reports, received, process>>
    PROVE  Counted'
BY DEF Counted

(* Every report is sent once and received once.                            *)
LEMMA CountStep == TypeOK /\ AllInPlace /\ Counted /\ [Next]_vars => Counted'
<1> SUFFICES ASSUME TypeOK, AllInPlace, Counted, [Next]_vars PROVE Counted'
  OBVIOUS
<1>1. CASE Running(Signal)
  BY <1>1, OthersDoNotCount DEF Running, Signal, server, command, Sent
<1>2. CASE Running(Kill)
  BY <1>2 DEF Running, Kill, server, Sent, Counted
<1>3. CASE Running(Receive)
  <2>1. Sent' = Sent
    BY <1>3 DEF Running, Receive, server, Sent
  <2>2. Len(reports') = Len(reports) - 1 /\ Len(reports) \in Nat
    BY <1>3 DEF Running, Receive, TypeOK
  <2>3. received' = received + 1 /\ process' = process /\ process = "running"
    BY <1>3 DEF Running, Receive
  <2>4. received \in Nat
    BY DEF TypeOK
  <2> QED
    BY <2>1, <2>2, <2>3, <2>4 DEF Counted
<1>4. CASE Running(Return)
  BY <1>4 DEF Running, Return, server, Sent, Counted
<1>5. ASSUME NEW s \in Server, Running(Proceed(s)) PROVE Counted'
  <2> USE <1>5 DEF Running
  <2>1. CASE Listen(s)
    <3>1. Sent' = Sent
      BY <2>1 DEF Listen, Sent, TypeOK
    <3> QED
      BY <2>1, <3>1, OthersDoNotCount DEF Listen, command
  <2>2. CASE ListenFails(s)
    BY <2>2, ReportCounts DEF ListenFails, Result, Failure
  <2>3. CASE BeginLoop(s)
    BY <2>3, OthersDoNotCount DEF BeginLoop, command, Sent
  <2>4. CASE LoopClosed(s)
    BY <2>4, OthersDoNotCount DEF LoopClosed, command, Sent
  <2>5. CASE BeginShutdown(s)
    <3>1. Sent' = Sent
      BY <2>5 DEF BeginShutdown, Sent, TypeOK
    <3> QED
      BY <2>5, <3>1, OthersDoNotCount DEF BeginShutdown, command
  <2>6. CASE TakeLoopError(s)
    <3>1. (IF errc[s] = "closed" THEN "nil" ELSE errc[s]) \in Result
      BY <2>6 DEF TakeLoopError, TypeOK, Result, Failure
    <3> QED
      BY <2>6, <3>1, ReportCounts DEF TakeLoopError
  <2>7. CASE ShutdownDone(s)
    <3>1. Sent' = Sent
      BY <2>7 DEF ShutdownDone, Sent, TypeOK
    <3> QED
      BY <2>7, <3>1, OthersDoNotCount DEF ShutdownDone, command
  <2>8. CASE ShutdownTimesOut(s)
    BY <2>8, ReportCounts DEF ShutdownTimesOut, Result, Failure
  <2>9. CASE DropLoopError(s)
    BY <2>9, ReportCounts DEF DropLoopError, Result, Failure
  <2> QED
    BY <2>1, <2>2, <2>3, <2>4, <2>5, <2>6, <2>7, <2>8, <2>9 DEF Proceed
<1>6. ASSUME NEW s \in Server, Running(Befall(s)) PROVE Counted'
  BY <1>6, OthersDoNotCount
     DEF Running, Befall, LoopFails, Accept, Answer, command, Sent
<1>7. CASE UNCHANGED vars
  BY <1>7, OthersDoNotCount DEF vars, Sent
<1> QED
  BY <1>1, <1>2, <1>3, <1>4, <1>5, <1>6, <1>7 DEF Next, Over, Running

(* Whatever is reported before anything is cancelled is the failure of a   *)
(* listener, and it is the first thing received.                           *)
LEMMA CauseStep ==
    TypeOK /\ AllInPlace /\ Caused /\ [Next]_vars => Caused'
<1> SUFFICES ASSUME TypeOK, AllInPlace, Caused, [Next]_vars PROVE Caused'
  OBVIOUS
<1> USE DEF Caused, Running
<1>1. CASE Running(Signal)
  BY <1>1 DEF Signal, command
<1>2. CASE Running(Kill)
  BY <1>2 DEF Kill
<1>3. CASE Running(Receive)
  <2>1. reports \in Seq(Result) /\ reports # << >>
    BY <1>3 DEF Receive, TypeOK
  <2>2. 1 \in DOMAIN reports /\ Head(reports) = reports[1]
    BY <2>1
  <2>3. CASE ~cancelled
    <3>1. Head(reports) \in {"listen", "accept"} /\ firstErr = "nil"
      BY <2>2, <2>3
    <3> QED
      BY <1>3, <3>1 DEF Receive
  <2>4. CASE cancelled
    BY <1>3, <2>4 DEF Receive, TypeOK
  <2> QED
    BY <2>3, <2>4
<1>4. CASE Running(Return)
  BY <1>4 DEF Return
<1>5. ASSUME NEW s \in Server, Running(Proceed(s)) PROVE Caused'
  <2>0. InPlace(s)
    BY DEF AllInPlace
  <2>1. CASE Listen(s)
    BY <2>1 DEF Listen, command
  <2>2. CASE ListenFails(s)
    BY <2>2 DEF ListenFails, Report, command, TypeOK
  <2>3. CASE BeginLoop(s)
    BY <2>3 DEF BeginLoop, command
  <2>4. CASE LoopClosed(s)
    BY <2>4 DEF LoopClosed, command
  <2>5. CASE BeginShutdown(s)
    BY <2>5 DEF BeginShutdown, command
  <2>6. CASE TakeLoopError(s)
    <3>1. errc[s] = "accept"
      BY <2>0, <2>6 DEF TakeLoopError, InPlace, TypeOK
    <3> QED
      BY <2>6, <3>1 DEF TakeLoopError, Report, command, TypeOK
  <2>7. CASE ShutdownDone(s)
    BY <2>7 DEF ShutdownDone, command
  <2>8. CASE ShutdownTimesOut(s)
    BY <2>0, <2>8 DEF ShutdownTimesOut, InPlace, command
  <2>9. CASE DropLoopError(s)
    BY <2>0, <2>9 DEF DropLoopError, InPlace, command
  <2> QED
    BY <1>5, <2>1, <2>2, <2>3, <2>4, <2>5, <2>6, <2>7, <2>8, <2>9 DEF Proceed
<1>6. ASSUME NEW s \in Server, Running(Befall(s)) PROVE Caused'
  BY <1>6 DEF Befall, LoopFails, Accept, Answer, command
<1>7. CASE UNCHANGED vars
  BY <1>7 DEF vars
<1> QED
  BY <1>1, <1>2, <1>3, <1>4, <1>5, <1>6, <1>7 DEF Next, Over

(* A report that is an error ends the time without errors.                 *)
LEMMA ErrorIsNoticed ==
    ASSUME TypeOK, NEW s \in Server, NEW r \in Failure, Report(s, r)
    PROVE  ~NoErrors'
<1>1. reports \in Seq(Result) /\ r \in Result
  BY DEF TypeOK, Result
<1>2. /\ Len(reports) + 1 \in DOMAIN Append(reports, r)
      /\ Append(reports, r)[Len(reports) + 1] = r
  BY <1>1
<1>3. r # "nil"
  BY DEF Failure
<1> QED
  BY <1>2, <1>3 DEF NoErrors, Report

(* Nothing makes an error that was reported undone.                        *)
LEMMA NoErrorsBackwards ==
    ASSUME TypeOK, NoErrors', Running(Receive) PROVE NoErrors
<1>1. reports \in Seq(Result) /\ reports # << >>
  BY DEF Running, Receive, TypeOK
<1>2. firstErr = "nil" /\ Head(reports) = "nil"
  BY DEF Running, Receive, NoErrors
<1>3. \A i \in DOMAIN Tail(reports) : Tail(reports)[i] = "nil"
  BY DEF Running, Receive, NoErrors
<1>4. ASSUME NEW i \in DOMAIN reports PROVE reports[i] = "nil"
  <2>1. CASE i = 1
    BY <1>1, <1>2, <2>1
  <2>2. CASE i # 1
    <3>1. i \in 1 .. Len(reports)
      BY <1>1
    <3>2. i - 1 \in 1 .. Len(reports) - 1
      BY <1>1, <2>2, <3>1
    <3>3. i - 1 \in DOMAIN Tail(reports) /\ Tail(reports)[i - 1] = reports[(i - 1) + 1]
      BY <1>1, <3>2
    <3> QED
      BY <1>3, <3>1, <3>3
  <2> QED
    BY <2>1, <2>2
<1> QED
  BY <1>2, <1>4 DEF NoErrors

(* While no error has been reported, no server has left with a request     *)
(* open.                                                                   *)
LEMMA QuietStep == TypeOK /\ AllInPlace /\ Quiet /\ [Next]_vars => Quiet'
<1> SUFFICES ASSUME TypeOK, AllInPlace, Quiet, [Next]_vars, NoErrors',
                    NEW t \in Server, (at[t] = "sent")'
             PROVE  (open[t] = 0)'
  BY DEF Quiet
<1>0. InPlace(t) /\ (NoErrors /\ at[t] = "sent" => open[t] = 0)
  BY DEF AllInPlace, Quiet
<1>1. CASE Running(Signal)
  BY <1>0, <1>1 DEF Running, Signal, server, command, NoErrors
<1>2. CASE Running(Kill)
  BY <1>0, <1>2 DEF Running, Kill, server, NoErrors
<1>3. CASE Running(Receive)
  BY <1>0, <1>3, NoErrorsBackwards DEF Running, Receive, server
<1>4. CASE Running(Return)
  BY <1>0, <1>4 DEF Running, Return, server, NoErrors
<1>5. ASSUME NEW s \in Server, Running(Proceed(s)) PROVE (open[t] = 0)'
  <2>0. InPlace(s)
    BY DEF AllInPlace
  <2>1. CASE Listen(s)
    BY <1>0, <2>1 DEF Listen, command, NoErrors, TypeOK
  <2>2. CASE ListenFails(s)
    BY <2>2, ErrorIsNoticed DEF ListenFails, Failure
  <2>3. CASE BeginLoop(s)
    BY <1>0, <2>3 DEF BeginLoop, command, NoErrors
  <2>4. CASE LoopClosed(s)
    BY <1>0, <2>4 DEF LoopClosed, command, NoErrors
  <2>5. CASE BeginShutdown(s)
    BY <1>0, <2>5 DEF BeginShutdown, command, NoErrors, TypeOK
  <2>6. CASE TakeLoopError(s)
    <3>1. errc[s] = "accept"
      BY <2>0, <2>6 DEF TakeLoopError, InPlace, TypeOK
    <3> QED
      BY <2>6, <3>1, ErrorIsNoticed DEF TakeLoopError, Failure
  <2>7. CASE ShutdownDone(s)
    BY <1>0, <2>7 DEF ShutdownDone, command, NoErrors, TypeOK
  <2>8. CASE ShutdownTimesOut(s)
    BY <2>8, ErrorIsNoticed DEF ShutdownTimesOut, Failure
  <2>9. CASE DropLoopError(s)
    <3>1. NoErrors
      <4>1. reports \in Seq(Result) /\ reports' = Append(reports, "nil")
        BY <2>9 DEF DropLoopError, Report, TypeOK
      <4>2. \A i \in DOMAIN reports :
               i \in DOMAIN reports' /\ reports'[i] = reports[i]
        BY <4>1 DEF Result
      <4> QED
        BY <2>9, <4>2 DEF DropLoopError, command, NoErrors
    <3>2. open[s] = 0
      BY <2>0, <2>9 DEF DropLoopError, InPlace
    <3> QED
      BY <1>0, <2>9, <3>1, <3>2 DEF DropLoopError, Report, TypeOK
  <2> QED
    BY <1>5, <2>1, <2>2, <2>3, <2>4, <2>5, <2>6, <2>7, <2>8, <2>9 DEF Running, Proceed
<1>6. ASSUME NEW s \in Server, Running(Befall(s)) PROVE (open[t] = 0)'
  <2>1. CASE LoopFails(s)
    BY <1>0, <2>1 DEF LoopFails, EndLoop, command, NoErrors
  <2>2. CASE Accept(s)
    <3>1. s # t
      BY <1>0, <2>2 DEF Accept, InPlace
    <3> QED
      BY <1>0, <2>2, <3>1 DEF Accept, command, NoErrors, TypeOK
  <2>3. CASE Answer(s)
    <3>1. open[t] = 0
      BY <1>0, <2>3 DEF Answer, command, NoErrors
    <3> QED
      BY <2>3, <3>1 DEF Answer, TypeOK
  <2> QED
    BY <1>6, <2>1, <2>2, <2>3 DEF Running, Befall
<1>7. CASE UNCHANGED vars
  BY <1>0, <1>7 DEF vars, NoErrors
<1> QED
  BY <1>1, <1>2, <1>3, <1>4, <1>5, <1>6, <1>7 DEF Next, Over, Running

-----------------------------------------------------------------------------
(* The theorems. *)

(* The five parts together are inductive.                                  *)
THEOREM Invariance == Spec => []IInv
<1>1. IInv /\ [Next]_vars => IInv'
  BY TypeStep, PlaceStep, CountStep, CauseStep, QuietStep DEF IInv
<1> QED
  BY <1>1, InitInvariant, PTL DEF Spec

(* Every variable of Servers keeps its type.                               *)
THEOREM TypeCorrect == Spec => []TypeOK
<1>1. IInv => TypeOK
  BY DEF IInv
<1> QED
  BY <1>1, Invariance, PTL

(* A command that no signal has ended returns the failure that brought the *)
(* servers down (serve.go:80).                                             *)
THEOREM CauseReported == Spec => []CauseIsReported
<1>1. IInv => CauseIsReported
  <2> SUFFICES ASSUME IInv, process = "returned", ~signalled
               PROVE  firstErr \in {"listen", "accept"}
    BY DEF CauseIsReported
  <2>1. received = Cardinality(Server)
    BY DEF IInv, Counted
  <2>2. received # 0
    BY <2>1, ServersAssumption, FS_EmptySet
  <2> QED
    BY <2>2 DEF IInv, Caused
<1> QED
  BY <1>1, Invariance, PTL

(* Once as many reports are received as there are servers, all have sent   *)
(* theirs and none is waiting.                                             *)
LEMMA AllHaveReported ==
    ASSUME IInv, process = "returned"
    PROVE  reports = << >> /\ \A s \in Server : at[s] = "sent"
<1>1. Sent \subseteq Server /\ IsFiniteSet(Server)
  BY ServersAssumption DEF Sent
<1>2. received + Len(reports) = Cardinality(Sent) /\ received = Cardinality(Server)
  BY DEF IInv, Counted
<1>3. /\ Cardinality(Sent) <= Cardinality(Server)
      /\ Cardinality(Sent) = Cardinality(Server) => Sent = Server
  BY <1>1, FS_Subset
<1>4. reports \in Seq(Result) /\ received \in Nat
  BY DEF IInv, TypeOK
<1>5. Len(reports) \in Nat
  BY <1>4
<1>6. Len(reports) = 0 /\ Sent = Server
  BY <1>2, <1>3, <1>4, <1>5
<1>7. reports = << >>
  BY <1>4, <1>6
<1> QED
  BY <1>6, <1>7 DEF Sent

(* When the command returns, every goroutine it started has ended          *)
(* (serve.go:79, file.go:307).                                             *)
THEOREM NoneLeftRunning == Spec => []NothingLeftRunning
<1>1. IInv => NothingLeftRunning
  BY AllHaveReported DEF NothingLeftRunning, IInv, AllInPlace, InPlace
<1> QED
  BY <1>1, Invariance, PTL

(* A command that returns without an error has cut off no client.          *)
THEOREM NoneCutOff == Spec => []NothingCutOff
<1>1. IInv => NothingCutOff
  <2> SUFFICES ASSUME IInv, process = "returned", firstErr = "nil"
               PROVE  \A s \in Server : open[s] = 0
    BY DEF NothingCutOff
  <2>1. reports = << >> /\ \A s \in Server : at[s] = "sent"
    BY AllHaveReported
  <2>2. NoErrors
    BY <2>1 DEF NoErrors
  <2> QED
    BY <2>1, <2>2 DEF IInv, Quiet
<1> QED
  BY <1>1, Invariance, PTL
=============================================================================
