------------------------------ MODULE RemoteLoad ------------------------------
(***************************************************************************)
(* core/win/processes.c: making another process load a library.            *)
(* inject_crt suspends the process, has a thread of it run LoadLibraryA on *)
(* a name written into its memory, waits a while for its exit code, frees  *)
(* the name and resumes the process.                                       *)
(*                                                                         *)
(* Several callers do this to one process, and process_suspend_C and       *)
(* process_resume_C are called on it too.  Each Windows call is a step and *)
(* may fail; it does fail on a process that has ended.  The remote thread  *)
(* takes its steps whenever it is scheduled, which covers its own          *)
(* suspension and the loader lock a suspended thread may hold.             *)
(***************************************************************************)
EXTENDS Integers, FiniteSets

CONSTANTS
  Caller,      \* the calls of inject_crt under way
  Bases,       \* module handles LoadLibraryA may return
  DWORD,       \* an exit code is a value modulo this (2^32)
  STILL_ACTIVE,\* the exit code of a running thread (259)
  MaxOutside   \* bound: suspensions by process_suspend_C

ASSUME RemoteAssumption ==
  /\ DWORD \in Nat \ {0} /\ STILL_ACTIVE \in 1 .. DWORD - 1
  /\ Bases \subseteq Nat \ {0} /\ \A b \in Bases : b % DWORD # STILL_ACTIVE
  /\ IsFiniteSet(Caller) /\ MaxOutside \in Nat

VARIABLES
  alive,     \* the process runs (suspended or not)
  exitCode,  \* that of the process, when it has ended
  suspends,  \* its suspend count
  outside,   \* history: process_suspend_C calls not undone
  stuck,     \* history: calls of inject_crt whose resume_process failed
  pc,        \* per caller, the next call of inject_crt; "done" when it returned
  suspended, \* per caller, the local variable
  handles,   \* per caller, the handles it has open
  name,      \* per caller, the remote buffer: "none", "blank", "written", "freed"
  thread,    \* per caller: "none", "ready", "loading", "ended", "lost"
  returned,  \* per caller: what LoadLibraryA returned in it
  base,      \* per caller: remote_base
  failed     \* history: per caller, why there was no exit code: "", "late" or "error"

vars == <<alive, exitCode, suspends, outside, stuck, pc, suspended, handles,
          name, thread, returned, base, failed>>
Process == <<alive, exitCode, suspends, outside, stuck>>
Remote  == <<name, thread, returned>>

Init == /\ alive = TRUE /\ exitCode = 0 /\ suspends = 0 /\ outside = 0 /\ stuck = 0
        /\ pc = [c \in Caller |-> "open"] /\ suspended = [c \in Caller |-> FALSE]
        /\ handles = [c \in Caller |-> {}] /\ name = [c \in Caller |-> "none"]
        /\ thread = [c \in Caller |-> "none"] /\ returned = [c \in Caller |-> 0]
        /\ base = [c \in Caller |-> 0] /\ failed = [c \in Caller |-> ""]

Step(c, here, there) == pc[c] = here /\ pc' = [pc EXCEPT ![c] = there]
Set(f, c, v) == [f EXCEPT ![c] = v]

(***************************************************************************)
(* inject_crt                                                              *)
(***************************************************************************)
OpenProcess(c) ==
  /\ \/ /\ alive /\ Step(c, "open", "suspend")
        /\ handles' = Set(handles, c, {"process"})
     \/ Step(c, "open", "done") /\ UNCHANGED handles
  /\ UNCHANGED <<Process, Remote, suspended, base, failed>>

\* suspend_process
Suspend(c) ==
  /\ Step(c, "suspend", "alloc")
  /\ \/ alive /\ suspends' = suspends + 1 /\ suspended' = Set(suspended, c, TRUE)
     \/ UNCHANGED <<suspends, suspended>>
  /\ UNCHANGED <<alive, exitCode, outside, stuck, Remote, handles, base, failed>>

VirtualAlloc(c) ==
  /\ \/ alive /\ Step(c, "alloc", "write") /\ name' = Set(name, c, "blank")
     \/ Step(c, "alloc", "close") /\ UNCHANGED name
  /\ UNCHANGED <<Process, thread, returned, suspended, handles, base, failed>>

\* WriteProcessMemory, and GetProcAddress.  When the write fails,
\* bytes_written need not have been set, and may hold the expected length.
Write(c) ==
  /\ \/ alive /\ Step(c, "write", "create") /\ name' = Set(name, c, "written")
     \/ Step(c, "write", "create") /\ UNCHANGED name
     \/ Step(c, "write", "free") /\ UNCHANGED name
  /\ UNCHANGED <<Process, thread, returned, suspended, handles, base, failed>>

\* Mutant of CreateThread: the buffer is freed once the thread is started.
CreateThreadFree(c) ==
  /\ \/ /\ alive /\ Step(c, "create", "wait")
        /\ thread' = Set(thread, c, "ready") /\ name' = Set(name, c, "freed")
        /\ handles' = Set(handles, c, handles[c] \cup {"thread"})
     \/ Step(c, "create", "free") /\ UNCHANGED <<thread, handles, name>>
  /\ UNCHANGED <<Process, returned, suspended, base, failed>>
\* execute_remote_thread: CreateRemoteThread and ResumeThread ...
CreateThread(c) ==
  /\ \/ /\ alive /\ Step(c, "create", "wait")
        /\ thread' = Set(thread, c, "ready")
        /\ handles' = Set(handles, c, handles[c] \cup {"thread"})
     \/ Step(c, "create", "free") /\ UNCHANGED <<thread, handles>>
  /\ UNCHANGED <<Process, name, returned, suspended, base, failed>>

\* Mutant of Wait: there is no timeout.
WaitForever(c) == /\ Step(c, "wait", "code") /\ (thread[c] = "ended" \/ ~alive)
                  /\ UNCHANGED <<Process, Remote, suspended, handles, base, failed>>
\* ... WaitForSingleObject: until the thread has ended, or 3 seconds have
\* passed, which may be any time ...
Wait(c) == /\ Step(c, "wait", "code")
           /\ UNCHANGED <<Process, Remote, suspended, handles, base, failed>>

\* GetExitCodeThread: the end of a process ends its threads with its exit code.
ExitCode(c) == CASE thread[c] = "ended" -> returned[c] % DWORD
                 [] thread[c] = "lost"  -> exitCode
                 [] OTHER               -> STILL_ACTIVE

\* Mutant of RemoteBase: the exit code is kept in a narrower type.
RemoteBaseNarrow(c) == ExitCode(c) % 4
RemoteBase(c) == ExitCode(c)

\* Mutant of CloseThread: the thread's handle stays open.
CloseThreadNever(c) == handles[c]
CloseThread(c) == handles[c] \ {"thread"}

Finished(c) == ExitCode(c) # STILL_ACTIVE

\* ... GetExitCodeThread and CloseHandle(thread).
GetExitCode(c) ==
  /\ Step(c, "code", "free")
  /\ \/ Finished(c) /\ base' = Set(base, c, RemoteBase(c)) /\ UNCHANGED failed
     \/ ~Finished(c) /\ failed' = Set(failed, c, "late") /\ UNCHANGED base
     \/ failed' = Set(failed, c, "error") /\ UNCHANGED base
  /\ handles' = Set(handles, c, CloseThread(c))
  /\ UNCHANGED <<Process, Remote, suspended>>

\* VirtualFreeEx, whether or not the thread has ended.
VirtualFree(c) ==
  /\ Step(c, "free", "close")
  /\ \/ alive /\ name' = Set(name, c, "freed")
     \/ UNCHANGED name
  /\ UNCHANGED <<Process, thread, returned, suspended, handles, base, failed>>

Close(c) ==
  /\ Step(c, "close", "resume")
  /\ handles' = Set(handles, c, handles[c] \ {"process"})
  /\ UNCHANGED <<Process, Remote, suspended, base, failed>>

\* Mutant of MustResume: the process is resumed in any case.
MustResumeAlways(c) == TRUE
MustResume(c) == suspended[c]

\* resume_process, which opens the process anew and may fail.
Resume(c) ==
  /\ Step(c, "resume", "done")
  /\ IF MustResume(c)
     THEN \/ alive /\ suspends' = (IF suspends > 0 THEN suspends - 1 ELSE 0) /\ UNCHANGED stuck
          \/ stuck' = stuck + 1 /\ UNCHANGED suspends
     ELSE UNCHANGED <<suspends, stuck>>
  /\ suspended' = Set(suspended, c, FALSE)
  /\ UNCHANGED <<alive, exitCode, outside, Remote, handles, base, failed>>

(***************************************************************************)
(* The process                                                             *)
(***************************************************************************)
Own == <<pc, suspended, handles, base, failed>>

\* LoadLibraryA reads the name; it returns 0 for an empty one, and one that is
\* not there any more ends the process.
ReadName(c) ==
  /\ alive /\ thread[c] = "ready"
  /\ \/ /\ name[c] # "freed" /\ UNCHANGED <<alive, exitCode>>
        /\ thread' = Set(thread, c, IF name[c] = "blank" THEN "ended" ELSE "loading")
     \/ /\ name[c] = "freed" /\ alive' = FALSE /\ exitCode' = DWORD - 1
        /\ thread' = [d \in Caller |-> IF thread[d] \in {"ready", "loading"} THEN "lost"
                                       ELSE thread[d]]
  /\ UNCHANGED <<Own, suspends, outside, stuck, name, returned>>

\* It returns a handle or 0, which is the exit code of the thread.
Load(c) ==
  /\ alive /\ thread[c] = "loading" /\ thread' = Set(thread, c, "ended")
  /\ \E b \in Bases \cup {0} : returned' = Set(returned, c, b)
  /\ UNCHANGED <<Own, Process, name>>

\* The process ends, or is ended.
End(code) ==
  /\ alive /\ alive' = FALSE /\ exitCode' = code
  /\ thread' = [d \in Caller |-> IF thread[d] \in {"ready", "loading"} THEN "lost"
                                 ELSE thread[d]]
  /\ UNCHANGED <<Own, suspends, outside, stuck, name, returned>>

\* process_suspend_C, and process_resume_C by who called it.
SuspendC == /\ alive /\ outside < MaxOutside
            /\ suspends' = suspends + 1 /\ outside' = outside + 1
            /\ UNCHANGED <<Own, Remote, alive, exitCode, stuck>>
ResumeC  == /\ alive /\ outside > 0
            /\ suspends' = suspends - 1 /\ outside' = outside - 1
            /\ UNCHANGED <<Own, Remote, alive, exitCode, stuck>>

Inject(c) == OpenProcess(c) \/ Suspend(c) \/ VirtualAlloc(c) \/ Write(c) \/ CreateThread(c)
             \/ Wait(c) \/ GetExitCode(c) \/ VirtualFree(c) \/ Close(c) \/ Resume(c)

Next == \/ \E c \in Caller : Inject(c) \/ ReadName(c) \/ Load(c)
        \/ \E code \in {0, 1, STILL_ACTIVE} : End(code)
        \/ SuspendC \/ ResumeC

Spec == Init /\ [][Next]_vars

\* The calling threads run; the process need not.
FairSpec == Spec /\ \A c \in Caller : WF_vars(Inject(c))

(***************************************************************************)
(* Properties                                                              *)
(***************************************************************************)
\* Types; in particular remote_base fits into an exit code.
TypeOK ==
  /\ alive \in BOOLEAN /\ exitCode \in 0 .. DWORD - 1
  /\ suspends \in Nat /\ outside \in Nat /\ stuck \in Nat
  /\ pc \in [Caller -> {"open", "suspend", "alloc", "write", "create", "wait", "code",
                        "free", "close", "resume", "done"}]
  /\ suspended \in [Caller -> BOOLEAN]
  /\ handles \in [Caller -> SUBSET {"process", "thread"}]
  /\ name \in [Caller -> {"none", "blank", "written", "freed"}]
  /\ thread \in [Caller -> {"none", "ready", "loading", "ended", "lost"}]
  /\ returned \in [Caller -> Bases \cup {0}] /\ base \in [Caller -> 0 .. DWORD - 1]
  /\ failed \in [Caller -> {"", "late", "error"}]

\* The process is suspended once for each call that has suspended it and not
\* resumed it: concurrent calls, and others that suspend it, do not resume each
\* other's, and it is left suspended only when resume_process failed.
SuspensionsBalanced ==
  suspends = outside + stuck + Cardinality({c \in Caller : suspended[c]})

\* When inject_crt returns it has closed the handles it opened, on every path.
HandlesClosed == \A c \in Caller : pc[c] = "done" => handles[c] = {}

\* inject_crt reports a library that is not loaded only if the process ended,
\* and denies one that is only if the thread was late, its exit code could not
\* be read, or the handle has no bit in common with a DWORD.
ReportExplained ==
  \A c \in Caller :
    /\ base[c] # 0 => ~alive \/ returned[c] # 0
    /\ pc[c] = "done" /\ returned[c] # 0 /\ base[c] = 0 =>
         failed[c] # "" \/ returned[c] % DWORD = 0

\* 'the newly created thread gets passed the buffer containing the DLL name':
\* the buffer is freed under a thread that has not read it only by a call that
\* reports a failure, the wait having ended early or the exit code unknown.
NameGoneReported ==
  \A c \in Caller : thread[c] = "ready" /\ name[c] = "freed" => failed[c] # ""

\* inject_crt returns, whatever becomes of the remote thread.
InjectReturns == \A c \in Caller : <>(pc[c] = "done")
=============================================================================
