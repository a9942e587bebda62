------------------------------ MODULE TestLoop ------------------------------
(***************************************************************************)
(* The program tests/sandbox.c from test_loop() on: the main thread's      *)
(* timed loop, the console thread it starts, stops and waits for           *)
(* (core/threads.c, both systems), the SIGINT handler, and log_shutdown at *)
(* the end.  The log system has the program's one backend; what            *)
(* the console thread and the handler do in it while they log is modelled  *)
(* step by step, since nothing keeps the main thread from freeing the      *)
(* backend meanwhile.                                                      *)
(*                                                                         *)
(* Every message is formatted in memory from realloc (strutils.c) before   *)
(* anything else.  The allocator is not reentrant: a handler that runs on  *)
(* a thread inside it, and allocates too, never returns.  Under Windows    *)
(* the handler has a thread of its own, and the console thread is stopped  *)
(* wherever it is: with a lock of the allocator or of stdout, perhaps,     *)
(* which nobody can take from then on.                                     *)
(*                                                                         *)
(* Time is counted in ticks of TICKS_MS.  The process begins some ticks    *)
(* after the Epoch: many, except on a machine whose clock has no battery   *)
(* and starts at the Epoch itself.                                         *)
(***************************************************************************)
EXTENDS Integers

CONSTANTS
  Systems,     \* subset of {"linux", "windows"}
  Timeouts,    \* arguments of test_loop; there is none when not positive
  WaitTicks,   \* what thread_wait is called with
  StartTimes,  \* when the process may begin
  MaxElapsed,  \* bound: later times are not told apart
  MaxLines     \* bound: lines typed other than "quit"

ASSUME LoopAssumption ==
  /\ Systems \subseteq {"linux", "windows"}
  /\ Timeouts \subseteq Int /\ WaitTicks \in Nat \ {0} /\ StartTimes \subseteq Nat
  /\ MaxElapsed \in Nat /\ \A t \in Timeouts : MaxElapsed >= t + WaitTicks
  /\ MaxLines \in Nat

VARIABLES
  system,
  timeout,    \* the argument of test_loop
  start,      \* the ticks from the Epoch to the start of the process
  main,       \* where the main thread is
  console,    \* where the console thread is; "off" before it is started
  sending,    \* and, in info(): "no", in the allocator ("format"), or at the
              \* backend ("callback", "next")
  handler,    \* where ctrlc_handler is: "off", "log", "callback", "next", "set",
              \* or "stuck" in the allocator
  on,         \* the thread it runs on: "main", "console" or its "own"
  running,
  cancel,     \* a cancellation request is pending for the console thread
  orphan,     \* a lock is held by a thread that was terminated
  elapsed,    \* get_elapsed_ms, in ticks
  waitFrom,   \* the time thread_wait was called at
  backend,    \* the backend's entry is in the list (and not freed)
  fault,      \* undefined behaviour has occurred
  lines,      \* history: lines typed
  quit,       \* history: "quit" was read
  interrupt   \* history: SIGINT came "no" time, "early" (before the loop) or "in"

vars == <<system, timeout, start, main, console, sending, handler, on, running,
          cancel, orphan, elapsed, waitFrom, backend, fault, lines, quit, interrupt>>

Init == /\ system \in Systems /\ orphan = FALSE
        /\ timeout \in Timeouts /\ start \in StartTimes
        /\ main = "signal" /\ console = "off" /\ sending = "no"
        /\ handler = "off" /\ on = "main"
        /\ running = FALSE /\ cancel = FALSE /\ elapsed = 0 /\ waitFrom = 0
        /\ backend = TRUE /\ fault = FALSE
        /\ lines = 0 /\ quit = FALSE /\ interrupt = "no"

\* The process runs.
Alive == main # "exit" /\ ~fault
\* A thread stands still while the handler runs on it.
Runs(thread) == Alive /\ (handler = "off" \/ on # thread)
MainAt(here, there) == Runs("main") /\ main = here /\ main' = there
Later == IF elapsed < MaxElapsed THEN elapsed + 1 ELSE elapsed

\* What no step changes, and what few do.
Given == <<system, timeout, start, handler, on, orphan>>
Others == <<Given, console, sending, cancel, waitFrom, backend, lines, quit>>

(***************************************************************************)
(* The main thread                                                         *)
(***************************************************************************)
\* signal(SIGINT, ctrlc_handler)
Install == MainAt("signal", "arm") /\ UNCHANGED <<Others, running, elapsed, fault, interrupt>>

\* running = true
Arm == /\ MainAt("arm", "spawn")
       /\ running' = TRUE
       /\ UNCHANGED <<Others, elapsed, fault, interrupt>>

\* thread_start: when pthread_create fails, its error() has four conversions
\* for one argument; if that does no harm the loop goes on with thread 0.
\* A failing _beginthread is not noticed.
Spawn == /\ MainAt("spawn", "test")
         /\ \/ console' = "startup" /\ UNCHANGED fault
            \/ console' = "off" /\ fault' \in IF system = "linux" THEN BOOLEAN ELSE {FALSE}
         /\ UNCHANGED <<Given, sending, cancel, waitFrom, backend, lines, quit,
                        running, elapsed, interrupt>>

\* while (running)
Test == /\ Runs("main") /\ main = "test"
        /\ main' = IF running THEN "format" ELSE "stop"
        /\ UNCHANGED <<Others, running, elapsed, fault, interrupt>>

\* Mutant of TimedOut: a positive timeout is taken for none.
TimedOutNegative == timeout < 0 /\ elapsed >= timeout
TimedOut == timeout > 0 /\ elapsed >= timeout

\* extra("elapsed ...") formats its message even if the level is filtered.
Format == MainAt("format", "tick") /\ UNCHANGED <<Others, running, elapsed, fault, interrupt>>

\* The rest of the loop's body: end the loop or sleep a tick.
Tick == /\ MainAt("tick", "test")
        /\ running' = (running /\ ~TimedOut)
        /\ elapsed' = IF TimedOut THEN elapsed ELSE Later
        /\ UNCHANGED <<Others, fault, interrupt>>

\* thread_stop: pthread_cancel, which must not be called with thread 0.
ThreadCancel ==
  /\ system = "linux" /\ MainAt("stop", "wait")
  /\ IF console = "off" THEN fault' = TRUE /\ UNCHANGED cancel
     ELSE cancel' = TRUE /\ UNCHANGED fault
  /\ UNCHANGED <<Given, console, sending, waitFrom, backend, lines, quit,
                 running, elapsed, interrupt>>

\* TerminateThread; with no thread it does nothing.
ThreadTerminate ==
  /\ system = "windows" /\ MainAt("stop", "wait")
  /\ console' = (IF console = "off" THEN "off" ELSE "done") /\ sending' = "no"
  /\ orphan' = (sending \in {"format", "callback"})
  /\ UNCHANGED <<system, timeout, start, handler, on, cancel, waitFrom, backend,
                 lines, quit, running, elapsed, fault, interrupt>>

BeginWait ==
  /\ MainAt("wait", "waiting")
  /\ waitFrom' = elapsed
  /\ UNCHANGED <<Given, console, sending, cancel, backend, lines, quit,
                 running, elapsed, fault, interrupt>>

\* thread_wait: WaitForSingleObject takes a duration.
\* pthread_timedjoin_np takes the time of day to wait until, and
\* is given the time since the program began plus the timeout, with the
\* fraction of a second multiplied by 1e6 instead of 1e9: whole seconds.
TicksPerSecond == 2
Deadline == TicksPerSecond * ((waitFrom + WaitTicks) \div TicksPerSecond)
Expired == IF system = "linux" THEN start + elapsed >= Deadline
           ELSE elapsed >= waitFrom + WaitTicks
\* Mutant of EndWait: the program does not wait.
EndWaitAlways == /\ MainAt("waiting", "shutdown")
                 /\ UNCHANGED <<Others, running, elapsed, fault, interrupt>>
EndWait == /\ MainAt("waiting", "shutdown")
           /\ console = "done" \/ Expired
           /\ UNCHANGED <<Others, running, elapsed, fault, interrupt>>
Waiting == /\ MainAt("waiting", "waiting")
           /\ console # "done" /\ ~Expired
           /\ elapsed' = Later
           /\ UNCHANGED <<Others, running, fault, interrupt>>

\* Sleep(100), lib_unload (a log system of its own), then log_shutdown, which
\* frees the backend, if the allocator's lock can be taken.
Shutdown == /\ MainAt("shutdown", "exit?") /\ ~orphan
            /\ backend' = FALSE
            /\ UNCHANGED <<Given, console, sending, cancel, waitFrom, lines, quit,
                           running, elapsed, fault, interrupt>>

\* return from main ends the process, and with it the console thread.
Exit == MainAt("exit?", "exit") /\ UNCHANGED <<Others, running, elapsed, fault, interrupt>>

MainStep == \/ Install \/ Arm \/ Spawn \/ Test \/ Format \/ Tick \/ ThreadCancel
            \/ ThreadTerminate \/ BeginWait \/ EndWait \/ Waiting \/ Shutdown \/ Exit

(***************************************************************************)
(* The console thread                                                      *)
(***************************************************************************)
MainsOwn == <<Given, main, elapsed, waitFrom, backend, cancel, interrupt>>

\* After its message the thread reads on, or ends.
AfterLog == IF console = "bye" THEN "done" ELSE "read"
Logging == console \in {"startup", "line", "bye"}

\* attach_log_level_ap: the message is formatted.
SendFormat == /\ Runs("console") /\ Logging /\ sending = "no"
              /\ sending' = "format"
              /\ UNCHANGED <<MainsOwn, console, running, fault, lines, quit>>

\* sbuffer_log_send: the list's head is read; with no backend nothing is done.
SendStart == /\ Runs("console") /\ sending = "format"
             /\ IF backend THEN sending' = "callback" /\ UNCHANGED console
                ELSE console' = AfterLog /\ sending' = "no"
             /\ UNCHANGED <<MainsOwn, running, fault, lines, quit>>

\* The backend is called, and afterwards its next pointer read: both use the
\* entry, which log_shutdown may have freed.
SendUse == /\ Runs("console") /\ sending \in {"callback", "next"}
           /\ fault' = ~backend
           /\ IF sending = "callback" THEN sending' = "next" /\ UNCHANGED console
              ELSE sending' = "no" /\ console' = AfterLog
           /\ UNCHANGED <<MainsOwn, running, lines, quit>>

\* A pending cancellation takes effect in a blocking fgets, or in the output
\* functions a backend calls, the handler's on that thread included.
Cancelled == /\ Alive /\ cancel
             /\ IF handler # "off" /\ on = "console" THEN handler = "callback"
                ELSE console = "read" \/ sending = "callback"
             /\ console' = "done" /\ sending' = "no"
             /\ handler' = IF on = "console" THEN "off" ELSE handler
             /\ UNCHANGED <<system, orphan, timeout, start, on, main, elapsed,
                            waitFrom, backend, cancel, interrupt, running, fault, lines, quit>>

\* Mutant of ReadQuit: the thread ends without stopping the loop.
ReadQuitOnly == /\ Runs("console") /\ console = "read" /\ console' = "bye" /\ quit' = TRUE
                /\ UNCHANGED <<MainsOwn, sending, running, fault, lines>>

ReadQuit == /\ Runs("console") /\ console = "read"
            /\ console' = "bye" /\ running' = FALSE /\ quit' = TRUE
            /\ UNCHANGED <<MainsOwn, sending, fault, lines>>

ReadLine == /\ Runs("console") /\ console = "read" /\ lines < MaxLines
            /\ console' = "line" /\ lines' = lines + 1
            /\ UNCHANGED <<MainsOwn, sending, running, fault, quit>>

ReadEof == /\ Runs("console") /\ console = "read"
           /\ console' = "bye"
           /\ UNCHANGED <<MainsOwn, sending, running, fault, lines, quit>>

(***************************************************************************)
(* The signal handler: under Linux it interrupts either thread between two *)
(* of its steps.  Before it is installed SIGINT ends the process.          *)
(***************************************************************************)
Unmoved == <<system, orphan, timeout, start, on, main, console, sending, cancel, elapsed,
             waitFrom, backend, lines, quit, interrupt>>

CtrlC == /\ Alive /\ main # "signal" /\ interrupt = "no"
         /\ on' \in IF system = "linux" THEN {"main", "console"} ELSE {"own"}
         /\ on' = "console" => console \notin {"off", "done"}
         /\ handler' = "log"
         /\ interrupt' = (IF main = "arm" THEN "early" ELSE "in")
         /\ UNCHANGED <<system, orphan, timeout, start, main, console, sending, cancel, elapsed,
                        waitFrom, backend, running, fault, lines, quit>>

\* info("Caught SIGINT") comes first: it allocates, and then sends.
Allocating == \/ on = "main" /\ main = "format"
              \/ on = "console" /\ sending = "format"
HandlerLog == /\ Alive /\ handler = "log"
              /\ handler' = IF Allocating \/ orphan THEN "stuck" ELSE IF backend THEN "callback" ELSE "set"
              /\ UNCHANGED <<Unmoved, running, fault>>

HandlerSend == /\ Alive /\ handler \in {"callback", "next"}
               /\ handler' = IF handler = "callback" THEN "next" ELSE "set"
               /\ fault' = ~backend
               /\ UNCHANGED <<Unmoved, running>>

\* Mutant of HandlerSet: only a message is logged.
HandlerSetNot == /\ Alive /\ handler = "set"
                 /\ handler' = "off"
                 /\ UNCHANGED <<Unmoved, running, fault>>
HandlerSet == /\ Alive /\ handler = "set"
              /\ handler' = "off" /\ running' = FALSE
              /\ UNCHANGED <<Unmoved, fault>>

HandlerStep == HandlerLog \/ HandlerSend \/ HandlerSet

Next == \/ MainStep
        \/ SendFormat \/ SendStart \/ SendUse \/ Cancelled
        \/ ReadQuit \/ ReadLine \/ ReadEof
        \/ CtrlC \/ HandlerStep

Spec == Init /\ [][Next]_vars

\* The scheduler runs both threads, and the handler on its thread; nobody has
\* to type or to press Ctrl+C, and a thread blocked in fgets ends only if it is
\* cancelled.
FairSpec == Spec /\ WF_vars(MainStep)
                 /\ WF_vars(SendFormat \/ SendStart \/ SendUse) /\ WF_vars(Cancelled)
                 /\ WF_vars(HandlerStep)

(***************************************************************************)
(* Properties                                                              *)
(***************************************************************************)
\* Types, and that the console logs only between its start and its end.
TypeOK ==
  /\ system \in Systems /\ timeout \in Timeouts /\ start \in StartTimes
  /\ main \in {"signal", "arm", "spawn", "test", "format", "tick", "stop", "wait",
               "waiting", "shutdown", "exit?", "exit"}
  /\ console \in {"off", "startup", "read", "line", "bye", "done"}
  /\ sending \in {"no", "format", "callback", "next"} /\ (sending # "no" => Logging)
  /\ handler \in {"off", "log", "callback", "next", "set", "stuck"}
  /\ on \in {"main", "console", "own"}
  /\ running \in BOOLEAN /\ cancel \in BOOLEAN /\ orphan \in BOOLEAN
  /\ backend \in BOOLEAN /\ fault \in BOOLEAN /\ quit \in BOOLEAN
  /\ elapsed \in 0 .. MaxElapsed /\ waitFrom \in 0 .. elapsed
  /\ lines \in 0 .. MaxLines /\ interrupt \in {"no", "early", "in"}

Stopped == main \notin {"signal", "arm", "spawn", "test", "format", "tick"}
\* The run has ended in undefined behaviour, or a thread waits for a lock for
\* ever: one it has itself, or one of a terminated thread.
Broken == fault \/ handler = "stuck" \/ orphan

\* Memory is used after it was freed only by a console thread (or the handler
\* on it) that was given up on after its deadline, and not because the main
\* thread went on too early, or under Windows by the handler's own thread, which
\* nobody waits for; every other fault is a thread that was never started.
FaultExplained ==
  fault => \/ system = "linux" /\ console = "off"
           \/ main = "exit?" /\ ~backend /\ IF system = "linux" THEN Expired ELSE on = "own"

\* Typing "quit" ends the loop, however early the console thread reads it: the
\* flag is raised before the thread is started.
QuitStops == quit ~> (Stopped \/ Broken)

\* test_loop.c: the handler is "to gracefully end the timed loop".  Ctrl+C ends
\* a loop that has begun, unless it comes while its thread allocates memory:
\* the handler logs before it clears the flag.
InterruptStops == (interrupt = "in") ~> (Stopped \/ Broken)

\* With a timeout the program ends, whatever the console thread waits for.
TimeoutEnds == timeout > 0 => <>(main = "exit" \/ Broken)
=============================================================================
