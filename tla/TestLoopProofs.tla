--------------------------- MODULE TestLoopProofs ---------------------------
(***************************************************************************)
(* What TestLoop says of its memory holds for every timeout, time of day   *)
(* and number of lines.  That its threads end is shown by TLC alone.       *)
(***************************************************************************)
EXTENDS TestLoop, TLAPS

\* The console thread is not started before the flag is raised.
NotStarted == main \in {"signal", "arm", "spawn"} => console = "off"

\* Under Windows it is terminated before it is waited for;
Terminated == system = "windows" /\ main \in {"wait", "waiting", "shutdown", "exit?", "exit"}
                => console \in {"off", "done"}

\* under Linux the main thread goes on when it has ended or time is up.
GivenUp == system = "linux" /\ main \in {"shutdown", "exit?", "exit"}
             => console = "done" \/ Expired

\* The backend is freed by log_shutdown.
FreedAtEnd == ~backend => main \in {"exit?", "exit"}

\* The handler runs on a thread of the program that has not ended, or on its
\* own; the thread it interrupts does not free the backend under it.
HandlerPlaced ==
  handler # "off" => /\ on \in IF system = "linux" THEN {"main", "console"} ELSE {"own"}
                     /\ on = "console" => console \notin {"off", "done"}
                     /\ on = "main" /\ handler \in {"callback", "next"} => backend

\* The inductive invariant.
IInv == TypeOK /\ NotStarted /\ Terminated /\ GivenUp /\ FreedAtEnd /\ HandlerPlaced
        /\ FaultExplained

\* Its parts other than what is said of faults.
Shape == TypeOK /\ NotStarted /\ Terminated /\ GivenUp /\ FreedAtEnd /\ HandlerPlaced

\* Nothing has begun when the program starts.
LEMMA InitIInv == Init => IInv
<1> SUFFICES ASSUME Init PROVE IInv
  OBVIOUS
<1>1. TypeOK
  <2>1. elapsed \in 0 .. MaxElapsed /\ waitFrom \in 0 .. elapsed /\ lines \in 0 .. MaxLines
    BY LoopAssumption DEF Init
  <2> QED
    BY <2>1 DEF Init, TypeOK
<1>2. NotStarted /\ Terminated /\ GivenUp /\ FreedAtEnd
  BY DEF Init, NotStarted, Terminated, GivenUp, FreedAtEnd
<1>3. HandlerPlaced /\ FaultExplained
  BY DEF Init, HandlerPlaced, FaultExplained
<1> QED
  BY <1>1, <1>2, <1>3 DEF IInv

(***************************************************************************)
(* Types                                                                   *)
(***************************************************************************)
\* The steps of the console thread, and those of the handler.
ConsoleStep == SendFormat \/ SendStart \/ SendUse \/ Cancelled \/ ReadQuit \/ ReadLine \/ ReadEof
OnHandler == CtrlC \/ HandlerStep

\* Every step is one of the main thread, the console thread or the handler.
LEMMA Steps == [Next]_vars => MainStep \/ ConsoleStep \/ OnHandler \/ UNCHANGED vars
BY DEF Next, ConsoleStep, OnHandler

\* Later keeps time within its bound.
LEMMA LaterBounded ==
  ASSUME elapsed \in 0 .. MaxElapsed PROVE Later \in elapsed .. MaxElapsed
BY LoopAssumption DEF Later

\* The main thread's steps keep the types.
LEMMA MainTypes == ASSUME TypeOK, NotStarted, MainStep PROVE TypeOK'
<1>1. /\ main' \in {"arm", "spawn", "test", "format", "tick", "stop", "wait",
                    "waiting", "shutdown", "exit?", "exit"}
      /\ UNCHANGED <<system, timeout, start, handler, on, lines, quit>>
  BY DEF MainStep, Install, Arm, Spawn, Test, Format, Tick, ThreadCancel, ThreadTerminate,
         BeginWait, EndWait, Waiting, Shutdown, Exit, MainAt, Others, Given
<1>2. elapsed' \in 0 .. MaxElapsed /\ waitFrom' \in 0 .. elapsed'
  <2>1. Later \in elapsed .. MaxElapsed
    BY LaterBounded DEF TypeOK
  <2>2. UNCHANGED <<elapsed, waitFrom>> \/ (UNCHANGED waitFrom /\ elapsed' \in {elapsed, Later})
           \/ (UNCHANGED elapsed /\ waitFrom' = elapsed)
    BY DEF MainStep, Install, Arm, Spawn, Test, Format, Tick, ThreadCancel, ThreadTerminate,
           BeginWait, EndWait, Waiting, Shutdown, Exit, Others, Given
  <2> QED
    BY <2>1, <2>2, LoopAssumption DEF TypeOK
<1>3. running' \in BOOLEAN /\ cancel' \in BOOLEAN /\ orphan' \in BOOLEAN
  <2>1. CASE Tick
    <3>1. running' \in BOOLEAN
      BY <2>1 DEF Tick
    <3> QED
      BY <2>1, <3>1 DEF Tick, TypeOK, Others, Given
  <2>2. CASE ThreadTerminate
    <3>1. orphan' \in BOOLEAN
      BY <2>2 DEF ThreadTerminate
    <3> QED
      BY <2>2, <3>1 DEF ThreadTerminate, TypeOK
  <2>3. CASE Arm \/ ThreadCancel
    BY <2>3 DEF Arm, ThreadCancel, TypeOK, Others, Given
  <2>4. CASE UNCHANGED <<running, cancel, orphan>>
    BY <2>4 DEF TypeOK
  <2> QED
    BY <2>1, <2>2, <2>3, <2>4 DEF MainStep, Install, Spawn, Test, Format, BeginWait, EndWait,
                                  Waiting, Shutdown, Exit, Others, Given
<1>4. backend' \in BOOLEAN /\ fault' \in BOOLEAN
  BY DEF TypeOK, MainStep, Install, Arm, Spawn, Test, Format, Tick, ThreadCancel, ThreadTerminate,
         BeginWait, EndWait, Waiting, Shutdown, Exit, Others, Given
<1>5. /\ console' \in {"off", "startup", "read", "line", "bye", "done"}
      /\ sending' \in {"no", "format", "callback", "next"}
      /\ sending' # "no" => Logging'
  <2>1. CASE Spawn
    <3>1. sending = "no"
      BY <2>1 DEF Spawn, MainAt, NotStarted, TypeOK, Logging
    <3> QED
      BY <2>1, <3>1 DEF Spawn, Given
  <2>2. CASE ThreadTerminate
    BY <2>2 DEF ThreadTerminate
  <2>3. CASE UNCHANGED <<console, sending>>
    BY <2>3 DEF TypeOK, Logging
  <2> QED
    BY <2>1, <2>2, <2>3
       DEF MainStep, Install, Arm, Test, Format, Tick, ThreadCancel,
           BeginWait, EndWait, Waiting, Shutdown, Exit, Others
<1>6. interrupt' = interrupt
  BY DEF MainStep, Install, Arm, Spawn, Test, Format, Tick, ThreadCancel, ThreadTerminate,
         BeginWait, EndWait, Waiting, Shutdown, Exit
<1> QED
  BY <1>1, <1>2, <1>3, <1>4, <1>5, <1>6 DEF TypeOK

\* The console thread's steps keep the types.
LEMMA ConsoleTypes == ASSUME TypeOK, ConsoleStep PROVE TypeOK'
<1>1. UNCHANGED <<system, timeout, start, main, elapsed, waitFrom, backend, cancel, interrupt,
                  on, orphan>>
  BY DEF ConsoleStep, SendFormat, SendStart, SendUse, Cancelled, ReadQuit, ReadLine, ReadEof,
         MainsOwn, Given
<1>2. handler' \in {"off", handler}
  BY DEF ConsoleStep, SendFormat, SendStart, SendUse, Cancelled, ReadQuit, ReadLine, ReadEof,
         MainsOwn, Given
<1>3. running' \in BOOLEAN /\ fault' \in BOOLEAN /\ quit' \in BOOLEAN
  BY DEF TypeOK, ConsoleStep, SendFormat, SendStart, SendUse, Cancelled, ReadQuit, ReadLine, ReadEof
<1>4. lines' \in 0 .. MaxLines
  BY LoopAssumption DEF TypeOK, ConsoleStep, SendFormat, SendStart, SendUse, Cancelled,
                        ReadQuit, ReadLine, ReadEof
<1>5. /\ console' \in {"off", "startup", "read", "line", "bye", "done"}
      /\ sending' \in {"no", "format", "callback", "next"}
      /\ sending' # "no" => Logging'
  <2>1. CASE SendFormat \/ SendStart \/ SendUse
    BY <2>1 DEF SendFormat, SendStart, SendUse, AfterLog, TypeOK, Logging
  <2>2. CASE Cancelled \/ ReadQuit \/ ReadLine \/ ReadEof
    BY <2>2 DEF Cancelled, ReadQuit, ReadLine, ReadEof, TypeOK, Logging
  <2> QED
    BY <2>1, <2>2 DEF ConsoleStep
<1> QED
  BY <1>1, <1>2, <1>3, <1>4, <1>5 DEF TypeOK

\* The handler's steps keep the types.
LEMMA HandlerTypes == ASSUME TypeOK, OnHandler PROVE TypeOK'
<1>1. UNCHANGED <<system, orphan, timeout, start, main, console, sending, cancel, elapsed,
                  waitFrom, backend, lines, quit>>
  BY DEF OnHandler, CtrlC, HandlerStep, HandlerLog, HandlerSend, HandlerSet, Unmoved
<1>2. /\ handler' \in {"off", "log", "callback", "next", "set", "stuck"}
      /\ interrupt' \in {"no", "early", "in"}
  BY DEF TypeOK, OnHandler, CtrlC, HandlerStep, HandlerLog, HandlerSend, HandlerSet, Unmoved
<1>3. on' \in {"main", "console", "own"}
  BY DEF TypeOK, OnHandler, CtrlC, HandlerStep, HandlerLog, HandlerSend, HandlerSet, Unmoved
<1>4. running' \in BOOLEAN /\ fault' \in BOOLEAN
  BY DEF TypeOK, OnHandler, CtrlC, HandlerStep, HandlerLog, HandlerSend, HandlerSet
<1> QED
  BY <1>1, <1>2, <1>3, <1>4 DEF TypeOK, Logging

\* Every step keeps the types.
LEMMA TypeStep == TypeOK /\ NotStarted /\ [Next]_vars => TypeOK'
<1> SUFFICES ASSUME TypeOK, NotStarted, [Next]_vars PROVE TypeOK'
  OBVIOUS
<1>1. CASE UNCHANGED vars
  BY <1>1 DEF vars, TypeOK, Logging
<1> QED
  BY <1>1, Steps, MainTypes, ConsoleTypes, HandlerTypes

(***************************************************************************)
(* The console thread's life                                               *)
(***************************************************************************)
\* A thread other than the main thread leaves what the main thread has.
LEMMA OthersLeave ==
  ConsoleStep \/ OnHandler => UNCHANGED <<system, start, main, elapsed, waitFrom, backend>>
BY DEF ConsoleStep, SendFormat, SendStart, SendUse, Cancelled, ReadQuit, ReadLine, ReadEof,
       MainsOwn, Given, OnHandler, CtrlC, HandlerStep, HandlerLog, HandlerSend, HandlerSet, Unmoved

\* It takes a step only while it is there.
LEMMA ConsoleThere ==
  ASSUME TypeOK, HandlerPlaced, ConsoleStep
  PROVE  console \notin {"off", "done"}
<1>1. CASE SendFormat \/ SendStart \/ SendUse
  BY <1>1 DEF SendFormat, SendStart, SendUse, TypeOK, Logging
<1>2. CASE Cancelled
  BY <1>2 DEF Cancelled, TypeOK, Logging, HandlerPlaced
<1>3. CASE ReadQuit \/ ReadLine \/ ReadEof
  BY <1>3 DEF ReadQuit, ReadLine, ReadEof
<1> QED
  BY <1>1, <1>2, <1>3 DEF ConsoleStep

\* Every step keeps the console thread's life in its bounds.
LEMMA LifeStep ==
  TypeOK /\ NotStarted /\ Terminated /\ GivenUp /\ HandlerPlaced /\ [Next]_vars
    => NotStarted' /\ Terminated' /\ GivenUp'
<1> SUFFICES ASSUME TypeOK, NotStarted, Terminated, GivenUp, HandlerPlaced, [Next]_vars
             PROVE  NotStarted' /\ Terminated' /\ GivenUp'
  OBVIOUS
<1>1. CASE ConsoleStep
  <2>1. console \notin {"off", "done"}
    BY <1>1, ConsoleThere
  <2>2. main \notin {"signal", "arm", "spawn"}
    BY <2>1 DEF NotStarted
  <2>3. ~(system = "windows" /\ main \in {"wait", "waiting", "shutdown", "exit?", "exit"})
    BY <2>1 DEF Terminated
  <2>4. system = "linux" /\ main \in {"shutdown", "exit?", "exit"} => Expired
    BY <2>1 DEF GivenUp
  <2>5. UNCHANGED <<system, start, main, elapsed, waitFrom>>
    BY <1>1, OthersLeave
  <2> QED
    BY <2>2, <2>3, <2>4, <2>5 DEF NotStarted, Terminated, GivenUp, Expired, Deadline
<1>2. CASE OnHandler \/ UNCHANGED vars
  <2>1. UNCHANGED <<system, start, main, elapsed, waitFrom, console>>
    BY <1>2 DEF OnHandler, CtrlC, HandlerStep, HandlerLog, HandlerSend, HandlerSet, Unmoved, vars
  <2> QED
    BY <2>1 DEF NotStarted, Terminated, GivenUp, Expired, Deadline
<1>3. CASE MainStep
  <2>1. CASE EndWait
    <3>1. UNCHANGED <<system, start, elapsed, waitFrom, console>> /\ main = "waiting"
          /\ main' = "shutdown" /\ (console = "done" \/ Expired)
      BY <2>1 DEF EndWait, MainAt, Others, Given
    <3> QED
      BY <3>1 DEF NotStarted, Terminated, GivenUp, Expired, Deadline
  <2>2. CASE ThreadTerminate
    BY <2>2 DEF ThreadTerminate, MainAt, NotStarted, Terminated, GivenUp
  <2>3. CASE ThreadCancel
    BY <2>3 DEF ThreadCancel, MainAt, Given, NotStarted, Terminated, GivenUp
  <2>4. CASE Shutdown \/ Exit
    <3>1. UNCHANGED <<system, start, elapsed, waitFrom, console>>
          /\ main \in {"shutdown", "exit?"} /\ main' \in {"exit?", "exit"}
      BY <2>4 DEF Shutdown, Exit, MainAt, Others, Given
    <3> QED
      BY <3>1 DEF NotStarted, Terminated, GivenUp, Expired, Deadline
  <2>5. CASE BeginWait \/ Waiting
    BY <2>5 DEF BeginWait, Waiting, MainAt, Others, Given, NotStarted, Terminated, GivenUp
  <2>6. CASE Install \/ Arm \/ Spawn \/ Test \/ Format \/ Tick
    BY <2>6 DEF Install, Arm, Spawn, Test, Format, Tick, MainAt, Others, Given,
                NotStarted, Terminated, GivenUp
  <2> QED
    BY <1>3, <2>1, <2>2, <2>3, <2>4, <2>5, <2>6 DEF MainStep
<1> QED
  BY <1>1, <1>2, <1>3, Steps

(***************************************************************************)
(* The backend, the handler and faults                                     *)
(***************************************************************************)
\* The backend is freed at the end only.
LEMMA FreedStep == FreedAtEnd /\ [Next]_vars => FreedAtEnd'
<1> SUFFICES ASSUME FreedAtEnd, [Next]_vars PROVE FreedAtEnd'
  OBVIOUS
<1>1. CASE MainStep
  BY <1>1 DEF FreedAtEnd, MainStep, Install, Arm, Spawn, Test, Format, Tick, ThreadCancel,
       ThreadTerminate, BeginWait, EndWait, Waiting, Shutdown, Exit, MainAt, Others, Given, Runs, Alive
<1>2. CASE ConsoleStep \/ OnHandler
  BY <1>2, OthersLeave DEF FreedAtEnd
<1>3. CASE UNCHANGED vars
  BY <1>3 DEF vars, FreedAtEnd
<1> QED
  BY <1>1, <1>2, <1>3, Steps

\* The handler stays where it is placed.
LEMMA PlacedStep ==
  TypeOK /\ NotStarted /\ HandlerPlaced /\ [Next]_vars => HandlerPlaced'
<1> SUFFICES ASSUME TypeOK, NotStarted, HandlerPlaced, [Next]_vars, handler' # "off"
             PROVE  HandlerPlaced'
  BY DEF HandlerPlaced
<1>1. CASE MainStep
  <2>1. UNCHANGED <<system, handler, on>> /\ Runs("main")
    BY <1>1 DEF MainStep, Install, Arm, Spawn, Test, Format, Tick, ThreadCancel, ThreadTerminate,
         BeginWait, EndWait, Waiting, Shutdown, Exit, MainAt, Others, Given
  <2>2. handler # "off" /\ on # "main"
    BY <2>1 DEF Runs
  <2>3. on = "console" => console \notin {"off", "done"} /\ system = "linux"
    BY <2>2 DEF HandlerPlaced
  <2>4. on = "console" => console' = console
    <3> SUFFICES ASSUME on = "console" PROVE console' = console
      OBVIOUS
    <3>1. main # "spawn" /\ system # "windows"
      BY <2>3 DEF NotStarted
    <3> QED
      BY <1>1, <3>1 DEF MainStep, Install, Arm, Spawn, Test, Format, Tick, ThreadCancel,
           ThreadTerminate, BeginWait, EndWait, Waiting, Shutdown, Exit, MainAt, Others
  <2> QED
    BY <2>1, <2>2, <2>3, <2>4 DEF HandlerPlaced
<1>2. CASE ConsoleStep
  <2>1. UNCHANGED <<system, backend, on>> /\ handler' = handler
    BY <1>2 DEF ConsoleStep, SendFormat, SendStart, SendUse, Cancelled, ReadQuit, ReadLine,
         ReadEof, MainsOwn, Given
  <2>2. on # "console"
    BY <1>2, <2>1 DEF ConsoleStep, SendFormat, SendStart, SendUse, Cancelled, ReadQuit,
         ReadLine, ReadEof, Runs
  <2> QED
    BY <2>1, <2>2 DEF HandlerPlaced
<1>3. CASE CtrlC
  BY <1>3 DEF CtrlC, HandlerPlaced
<1>4. CASE HandlerLog
  BY <1>4 DEF HandlerLog, Unmoved, HandlerPlaced
<1>5. CASE HandlerSend
  BY <1>5 DEF HandlerSend, Unmoved, HandlerPlaced
<1>6. CASE HandlerSet
  BY <1>6 DEF HandlerSet
<1>7. CASE UNCHANGED vars
  BY <1>7 DEF vars, HandlerPlaced
<1> QED
  BY <1>1, <1>2, <1>3, <1>4, <1>5, <1>6, <1>7, Steps DEF OnHandler, HandlerStep

\* Memory is used after it was freed for one of the stated reasons.
LEMMA FaultStep == Shape /\ FaultExplained /\ [Next]_vars => FaultExplained'
<1> SUFFICES ASSUME Shape, FaultExplained, [Next]_vars, fault' PROVE FaultExplained'
  BY DEF FaultExplained
<1> USE DEF Shape
<1>1. CASE UNCHANGED vars
  BY <1>1 DEF vars, FaultExplained, Expired, Deadline
<1>2. ASSUME ~UNCHANGED vars PROVE ~fault
  BY <1>2 DEF Next, MainStep, Install, Arm, Spawn, Test, Format, Tick, ThreadCancel,
       ThreadTerminate, BeginWait, EndWait, Waiting, Shutdown, Exit, MainAt, SendFormat, SendStart,
       SendUse, Cancelled, ReadQuit, ReadLine, ReadEof, CtrlC, HandlerStep, HandlerLog,
       HandlerSend, HandlerSet, Runs, Alive
<1>3. CASE ~fault /\ MainStep
  <2>1. Spawn \/ ThreadCancel
    BY <1>3 DEF MainStep, Install, Arm, Test, Format, Tick, ThreadTerminate, BeginWait, EndWait,
         Waiting, Shutdown, Exit, Others
  <2>2. system' = "linux" /\ console' = "off"
    BY <1>3, <2>1 DEF Spawn, ThreadCancel, Given
  <2> QED
    BY <2>2 DEF FaultExplained
<1>4. CASE ~fault /\ (ConsoleStep \/ OnHandler)
  <2>1. (SendUse \/ HandlerSend) /\ ~backend
    BY <1>4 DEF ConsoleStep, SendFormat, SendStart, SendUse, Cancelled, ReadQuit, ReadLine, ReadEof,
         OnHandler, CtrlC, HandlerStep, HandlerLog, HandlerSend, HandlerSet
  <2>2. main = "exit?"
    BY <2>1 DEF SendUse, HandlerSend, Runs, Alive, FreedAtEnd
  <2>3. UNCHANGED <<system, start, main, elapsed, waitFrom, backend>> /\ on' = on
    BY <1>4, <2>1, OthersLeave DEF SendUse, HandlerSend, MainsOwn, Given, Unmoved
  <2>4. IF system = "linux" THEN Expired ELSE on = "own"
    <3>1. CASE SendUse
      <4>1. console \notin {"off", "done"}
        BY <3>1, ConsoleThere DEF ConsoleStep
      <4>2. system \in {"linux", "windows"}
        BY LoopAssumption DEF TypeOK
      <4> QED
        BY <2>2, <4>1, <4>2 DEF GivenUp, Terminated
    <3>2. CASE HandlerSend
      <4>1. handler \in {"callback", "next"}
        BY <3>2 DEF HandlerSend
      <4>2. CASE system = "linux"
        <5>1. on = "console" /\ console # "done"
          BY <2>1, <4>1, <4>2 DEF HandlerPlaced
        <5> QED
          BY <2>2, <4>2, <5>1 DEF GivenUp
      <4>3. CASE system # "linux"
        BY <4>1, <4>3 DEF HandlerPlaced
      <4> QED
        BY <4>2, <4>3
    <3> QED
      BY <2>1, <3>1, <3>2
  <2> QED
    BY <2>1, <2>2, <2>3, <2>4 DEF FaultExplained, Expired, Deadline
<1> QED
  BY <1>1, <1>2, <1>3, <1>4, Steps

\* The invariant is inductive.
LEMMA StepIInv == IInv /\ [Next]_vars => IInv'
BY TypeStep, LifeStep, FreedStep, PlacedStep, FaultStep DEF IInv, Shape

\* It holds in every run.
LEMMA Invariance == Spec => []IInv
BY InitIInv, StepIInv, PTL DEF Spec

\* The variables keep their types.
THEOREM TypeCorrect == Spec => []TypeOK
<1>1. IInv => TypeOK
  BY DEF IInv
<1> QED
  BY <1>1, Invariance, PTL

\* Nothing uses the backend after log_shutdown freed it but a console thread, or
\* the handler, that the main thread has given up on or never waits for.
THEOREM FaultsExplained == Spec => []FaultExplained
<1>1. IInv => FaultExplained
  BY DEF IInv
<1> QED
  BY <1>1, Invariance, PTL
=============================================================================
