-------------------------- MODULE RemoteLoadProofs --------------------------
(***************************************************************************)
(* What RemoteLoad promises holds for every number of concurrent calls,    *)
(* every set of module handles and every width of an exit code.  That each *)
(* call returns is shown by TLC alone.                                     *)
(***************************************************************************)
EXTENDS RemoteLoad, FiniteSetTheorems, TLAPS

\* Where a call is before its wait for the remote thread is over, and after.
Early == {"open", "suspend", "alloc", "write", "create"}
Late == {"free", "close", "resume", "done"}

\* The handles a call has open at each point.
HandlesAt(c) ==
  handles[c] \subseteq (CASE pc[c] \in {"wait", "code"} -> {"process", "thread"}
                          [] pc[c] \in {"open", "resume", "done"} -> {}
                          [] OTHER -> {"process"})

\* What one call knows: until its wait is over there is no result, the name is
\* not freed and, before, there is no thread; only a thread that has ended has
\* returned anything; and one that has not is given up on with a reason.
Call(c) ==
  /\ pc[c] \in {"open", "suspend"} => ~suspended[c]
  /\ pc[c] \in Early => thread[c] = "none"
  /\ pc[c] \notin Late => base[c] = 0 /\ failed[c] = "" /\ name[c] # "freed"
  /\ thread[c] = "none" => base[c] = 0
  /\ thread[c] # "ended" => returned[c] = 0
  /\ thread[c] = "lost" => ~alive
  /\ thread[c] \in {"ready", "loading"} => /\ base[c] = 0
                                           /\ pc[c] \in Late => failed[c] # ""
  /\ thread[c] = "ended" /\ base[c] # 0 => returned[c] # 0
  /\ pc[c] \in Late /\ returned[c] # 0 /\ base[c] = 0 =>
       failed[c] # "" \/ returned[c] % DWORD = 0

\* The inductive invariant.
IInv == /\ TypeOK /\ SuspensionsBalanced
        /\ \A c \in Caller : HandlesAt(c) /\ Call(c)

(***************************************************************************)
(* Types                                                                   *)
(***************************************************************************)
Points == {"open", "suspend", "alloc", "write", "create", "wait", "code",
           "free", "close", "resume", "done"}
Names == {"none", "blank", "written", "freed"}
Threads == {"none", "ready", "loading", "ended", "lost"}

\* Exit codes are those of ended threads and processes.
LEMMA Widths ==
  /\ Bases \subseteq Nat /\ DWORD \in Nat \ {0} /\ STILL_ACTIVE \in 1 .. DWORD - 1
  /\ {0, 1, STILL_ACTIVE, DWORD - 1} \subseteq 0 .. DWORD - 1 /\ IsFiniteSet(Caller)
<1>1. Bases \subseteq Nat /\ DWORD \in Nat \ {0} /\ STILL_ACTIVE \in 1 .. DWORD - 1
      /\ IsFiniteSet(Caller)
  BY RemoteAssumption
<1> QED
  BY <1>1

\* What is counted, and what a process is.
LEMMA Counts ==
  TypeOK => /\ suspends \in Nat /\ outside \in Nat /\ stuck \in Nat
            /\ alive \in BOOLEAN /\ exitCode \in 0 .. DWORD - 1
BY DEF TypeOK

\* What each call has.
LEMMA Locals ==
  TypeOK => /\ pc \in [Caller -> Points] /\ suspended \in [Caller -> BOOLEAN]
            /\ handles \in [Caller -> SUBSET {"process", "thread"}]
            /\ name \in [Caller -> Names] /\ thread \in [Caller -> Threads]
            /\ returned \in [Caller -> Bases \cup {0}] /\ base \in [Caller -> 0 .. DWORD - 1]
            /\ failed \in [Caller -> {"", "late", "error"}]
BY DEF TypeOK, Points, Names, Threads

\* What is cut to the width of an exit code stays below it; zero stays zero.
LEMMA CutToWidth ==
  ASSUME NEW n \in Nat
  PROVE  n % DWORD \in 0 .. DWORD - 1 /\ (n = 0 => n % DWORD = 0)
<1>1. DWORD \in Nat \ {0}
  BY Widths
<1> QED
  BY <1>1

\* What LoadLibraryA returns is a number.
LEMMA HandleNumber == ASSUME NEW b \in Bases \cup {0} PROVE b \in Nat
BY RemoteAssumption

\* The exit code of a call's thread is an exit code.
LEMMA ExitCodeType ==
  ASSUME TypeOK, NEW c \in Caller
  PROVE  ExitCode(c) \in 0 .. DWORD - 1
<1>1. returned[c] \in Bases \cup {0}
  BY Locals
<1>2. returned[c] \in Nat
  BY <1>1, HandleNumber
<1>3. returned[c] % DWORD \in 0 .. DWORD - 1
  BY <1>2, CutToWidth
<1>4. exitCode \in 0 .. DWORD - 1 /\ STILL_ACTIVE \in 0 .. DWORD - 1
  BY Counts, Widths
<1> QED
  BY <1>3, <1>4 DEF ExitCode

\* A finished thread has ended or was lost with its process.
LEMMA FinishedThread ==
  ASSUME NEW c \in Caller, Finished(c)
  PROVE  thread[c] \in {"ended", "lost"}
BY DEF Finished, ExitCode

\* No call has begun when the program starts.
LEMMA InitIInv == Init => IInv
<1> SUFFICES ASSUME Init PROVE IInv
  OBVIOUS
<1>1. TypeOK
  <2>1. 0 \in 0 .. DWORD - 1
    BY Widths
  <2>2. /\ suspends \in Nat /\ outside \in Nat /\ stuck \in Nat
        /\ alive \in BOOLEAN /\ exitCode \in 0 .. DWORD - 1
    BY <2>1 DEF Init
  <2>3. /\ pc \in [Caller -> Points] /\ suspended \in [Caller -> BOOLEAN]
        /\ handles \in [Caller -> SUBSET {"process", "thread"}]
    BY DEF Init, Points
  <2>4. /\ name \in [Caller -> Names] /\ thread \in [Caller -> Threads]
        /\ failed \in [Caller -> {"", "late", "error"}]
    BY DEF Init, Names, Threads
  <2>5. returned \in [Caller -> Bases \cup {0}] /\ base \in [Caller -> 0 .. DWORD - 1]
    BY <2>1 DEF Init
  <2> QED
    BY <2>2, <2>3, <2>4, <2>5 DEF TypeOK, Points, Names, Threads
<1>2. SuspensionsBalanced
  <2>1. {c \in Caller : suspended[c]} = {}
    BY DEF Init
  <2>2. Cardinality({c \in Caller : suspended[c]}) = 0
    BY <2>1, FS_EmptySet
  <2>3. suspends = 0 /\ outside = 0 /\ stuck = 0
    BY DEF Init
  <2> QED
    BY <2>2, <2>3 DEF SuspensionsBalanced
<1>3. ASSUME NEW c \in Caller PROVE HandlesAt(c) /\ Call(c)
  BY DEF Init, HandlesAt, Call, Early, Late
<1> QED
  BY <1>1, <1>2, <1>3 DEF IInv

\* The steps of inject_crt keep the types.
LEMMA InjectTypes ==
  ASSUME TypeOK, NEW c \in Caller, Inject(c)
  PROVE  TypeOK'
<1>1. pc' \in [Caller -> Points]
  <2>1. \E here \in Points, there \in Points : Step(c, here, there)
    BY DEF Points, Inject, OpenProcess, Suspend, VirtualAlloc, Write, CreateThread, Wait,
           GetExitCode, VirtualFree, Close, Resume
  <2> QED
    BY <2>1, Locals DEF Step
<1>2. suspends' \in Nat /\ outside' \in Nat /\ stuck' \in Nat
  <2>1. /\ suspends' \in {suspends, suspends + 1, IF suspends > 0 THEN suspends - 1 ELSE 0}
        /\ outside' = outside /\ stuck' \in {stuck, stuck + 1}
    BY DEF Inject, OpenProcess, Suspend, VirtualAlloc, Write, CreateThread, Wait,
           GetExitCode, VirtualFree, Close, Resume, Process
  <2> QED
    BY <2>1, Counts
<1>3. suspended' \in [Caller -> BOOLEAN]
  BY Locals DEF Inject, OpenProcess, Suspend, VirtualAlloc, Write, CreateThread, Wait,
         GetExitCode, VirtualFree, Close, Resume, Set
<1>4. handles' \in [Caller -> SUBSET {"process", "thread"}]
  <2>1. \/ handles' = handles
        \/ \E h \in SUBSET {"process", "thread"} : handles' = Set(handles, c, h)
    BY Locals DEF Inject, OpenProcess, Suspend, VirtualAlloc, Write, CreateThread, Wait,
           GetExitCode, VirtualFree, Close, Resume, CloseThread
  <2> QED
    BY <2>1, Locals DEF Set
<1>5. name' \in [Caller -> Names]
  BY Locals DEF Names, Inject, OpenProcess, Suspend, VirtualAlloc, Write, CreateThread, Wait,
         GetExitCode, VirtualFree, Close, Resume, Set, Remote
<1>6. thread' \in [Caller -> Threads]
  BY Locals DEF Threads, Inject, OpenProcess, Suspend, VirtualAlloc, Write, CreateThread, Wait,
         GetExitCode, VirtualFree, Close, Resume, Set, Remote
<1>7. base' \in [Caller -> 0 .. DWORD - 1]
  <2>1. base' = base \/ base' = Set(base, c, ExitCode(c))
    BY DEF Inject, OpenProcess, Suspend, VirtualAlloc, Write, CreateThread, Wait,
           GetExitCode, VirtualFree, Close, Resume, RemoteBase
  <2> QED
    BY <2>1, Locals, ExitCodeType DEF Set
<1>8. failed' \in [Caller -> {"", "late", "error"}]
  BY Locals DEF Inject, OpenProcess, Suspend, VirtualAlloc, Write, CreateThread, Wait,
         GetExitCode, VirtualFree, Close, Resume, Set
<1>9. UNCHANGED <<alive, exitCode, returned>>
  BY DEF Inject, OpenProcess, Suspend, VirtualAlloc, Write, CreateThread, Wait,
         GetExitCode, VirtualFree, Close, Resume, Process, Remote
<1> QED
  <2>1. returned' \in [Caller -> Bases \cup {0}] /\ alive' \in BOOLEAN /\ exitCode' \in 0 .. DWORD - 1
    BY <1>9, Counts, Locals
  <2> QED
    BY <1>1, <1>2, <1>3, <1>4, <1>5, <1>6, <1>7, <1>8, <2>1 DEF TypeOK, Points, Names, Threads

\* The steps of the process, and of who suspends it.
ProcessStep == \/ \E c \in Caller : ReadName(c) \/ Load(c)
               \/ \E code \in {0, 1, STILL_ACTIVE} : End(code)
               \/ SuspendC \/ ResumeC

\* They keep the types.
LEMMA ProcessTypes ==
  ASSUME TypeOK, SuspensionsBalanced, ProcessStep
  PROVE  TypeOK'
<1>1. UNCHANGED <<Own, name, stuck>>
  BY DEF ProcessStep, ReadName, Load, End, SuspendC, ResumeC, Process, Remote
<1>2. alive' \in BOOLEAN /\ exitCode' \in 0 .. DWORD - 1
  BY Widths, Counts DEF ProcessStep, ReadName, Load, End, SuspendC, ResumeC, Process
<1>3. suspends' \in Nat /\ outside' \in Nat
  <2>1. Cardinality({c \in Caller : suspended[c]}) \in Nat
    <3>1. {c \in Caller : suspended[c]} \in SUBSET Caller
      OBVIOUS
    <3> QED
      BY <3>1, Widths, FS_Subset, FS_CardinalityType
  <2>2. CASE ResumeC
    BY <2>1, <2>2, Counts DEF ResumeC, SuspensionsBalanced
  <2>3. CASE SuspendC
    BY <2>3, Counts DEF SuspendC
  <2>4. CASE UNCHANGED <<suspends, outside>>
    BY <2>4, Counts
  <2> QED
    BY <2>2, <2>3, <2>4 DEF ProcessStep, ReadName, Load, End, Process
<1>4. thread' \in [Caller -> Threads]
  BY Locals DEF Threads, ProcessStep, ReadName, Load, End, SuspendC, ResumeC, Remote, Set
<1>5. returned' \in [Caller -> Bases \cup {0}]
  BY Locals DEF ProcessStep, ReadName, Load, End, SuspendC, ResumeC, Remote, Set
<1> QED
  <2>1. /\ pc' \in [Caller -> Points] /\ suspended' \in [Caller -> BOOLEAN]
        /\ handles' \in [Caller -> SUBSET {"process", "thread"}] /\ name' \in [Caller -> Names]
        /\ base' \in [Caller -> 0 .. DWORD - 1] /\ failed' \in [Caller -> {"", "late", "error"}]
        /\ stuck' \in Nat
    BY <1>1, Counts, Locals DEF Own
  <2> QED
    BY <1>2, <1>3, <1>4, <1>5, <2>1 DEF TypeOK, Points, Names, Threads

(***************************************************************************)
(* The balance                                                             *)
(***************************************************************************)
Suspenders == {c \in Caller : suspended[c]}

\* The calls that hold a suspension are finitely many.
LEMMA SuspendersFinite == IsFiniteSet(Suspenders) /\ Cardinality(Suspenders) \in Nat
<1>1. Suspenders \in SUBSET Caller
  BY DEF Suspenders
<1> QED
  BY <1>1, Widths, FS_Subset, FS_CardinalityType

\* A call that suspends the process joins them; one that resumes it leaves them.
LEMMA SuspendersMove ==
  ASSUME TypeOK, NEW c \in Caller
  PROVE  /\ suspended' = Set(suspended, c, TRUE) => Suspenders' = Suspenders \cup {c}
         /\ suspended' = Set(suspended, c, FALSE) => Suspenders' = Suspenders \ {c}
<1>1. suspended \in [Caller -> BOOLEAN]
  BY Locals
<1> QED
  BY <1>1 DEF Suspenders, Set

\* Every step keeps the balance.
LEMMA BalanceStep ==
  ASSUME TypeOK, SuspensionsBalanced, \A c \in Caller : Call(c), [Next]_vars
  PROVE  SuspensionsBalanced'
<1> DEFINE n == Cardinality(Suspenders)
<1>1. /\ suspends \in Nat /\ outside \in Nat /\ stuck \in Nat
      /\ n \in Nat /\ suspends = outside + stuck + n
  BY Counts, SuspendersFinite DEF SuspensionsBalanced, Suspenders
<1> SUFFICES suspends' = outside' + stuck' + Cardinality(Suspenders')
  BY DEF SuspensionsBalanced, Suspenders
<1>2. ASSUME NEW c \in Caller, Suspend(c) PROVE suspends' = outside' + stuck' + Cardinality(Suspenders')
  <2>1. CASE UNCHANGED <<suspends, suspended>>
    BY <1>1, <1>2, <2>1 DEF Suspend, Suspenders
  <2>2. CASE suspends' = suspends + 1 /\ suspended' = Set(suspended, c, TRUE)
    <3>1. c \notin Suspenders
      BY <1>2 DEF Suspend, Step, Call, Suspenders
    <3>2. Suspenders' = Suspenders \cup {c}
      BY <2>2, SuspendersMove
    <3>3. Cardinality(Suspenders') = n + 1
      BY <3>1, <3>2, SuspendersFinite, FS_AddElement
    <3>4. outside' = outside /\ stuck' = stuck
      BY <1>2 DEF Suspend
    <3> QED
      BY <1>1, <2>2, <3>3, <3>4
  <2> QED
    BY <1>2, <2>1, <2>2 DEF Suspend
<1>3. ASSUME NEW c \in Caller, Resume(c) PROVE suspends' = outside' + stuck' + Cardinality(Suspenders')
  <2>1. suspended' = Set(suspended, c, FALSE) /\ outside' = outside
    BY <1>3 DEF Resume
  <2>2. Suspenders' = Suspenders \ {c}
    BY <2>1, SuspendersMove
  <2>3. CASE ~suspended[c]
    <3>1. Suspenders' = Suspenders
      BY <2>2, <2>3 DEF Suspenders
    <3>2. suspends' = suspends /\ stuck' = stuck
      BY <1>3, <2>3 DEF Resume, MustResume
    <3> QED
      BY <1>1, <2>1, <3>1, <3>2
  <2>4. CASE suspended[c]
    <3>1. c \in Suspenders
      BY <2>4 DEF Suspenders
    <3>2. Cardinality(Suspenders') = n - 1
      BY <2>2, <3>1, SuspendersFinite, FS_RemoveElement
    <3>3. n > 0
      BY <3>1, <1>1, SuspendersFinite, FS_EmptySet
    <3>4. \/ suspends' = (IF suspends > 0 THEN suspends - 1 ELSE 0) /\ stuck' = stuck
          \/ stuck' = stuck + 1 /\ suspends' = suspends
      BY <1>3, <2>4 DEF Resume, MustResume
    <3> QED
      BY <1>1, <2>1, <3>2, <3>3, <3>4
  <2> QED
    BY <2>3, <2>4
<1>4. CASE SuspendC \/ ResumeC
  <2>1. Suspenders' = Suspenders /\ stuck' = stuck
    BY <1>4 DEF SuspendC, ResumeC, Own, Suspenders
  <2>2. suspends' - outside' = suspends - outside
    BY <1>1, <1>4 DEF SuspendC, ResumeC
  <2>3. suspends' \in Int /\ outside' \in Int
    BY <1>1, <1>4 DEF SuspendC, ResumeC
  <2> QED
    BY <1>1, <2>1, <2>2, <2>3
<1>5. CASE UNCHANGED <<suspends, outside, stuck, suspended>>
  BY <1>1, <1>5 DEF Suspenders
<1>6. ASSUME NEW c \in Caller,
             \/ OpenProcess(c) \/ VirtualAlloc(c) \/ Write(c) \/ CreateThread(c)
             \/ Wait(c) \/ GetExitCode(c) \/ VirtualFree(c) \/ Close(c) \/ ReadName(c) \/ Load(c)
      PROVE  UNCHANGED <<suspends, outside, stuck, suspended>>
  BY <1>6 DEF OpenProcess, VirtualAlloc, Write, CreateThread, Wait, GetExitCode, VirtualFree,
              Close, ReadName, Load, Process, Own
<1>7. ASSUME NEW code, End(code) PROVE UNCHANGED <<suspends, outside, stuck, suspended>>
  BY <1>7 DEF End, Own
<1> QED
  BY <1>2, <1>3, <1>4, <1>5, <1>6, <1>7 DEF Next, Inject, vars

(***************************************************************************)
(* One call                                                                *)
(***************************************************************************)
\* A call's own step keeps what it knows.
LEMMA OwnStep ==
  ASSUME TypeOK, NEW c \in Caller, HandlesAt(c), Call(c), Inject(c)
  PROVE  HandlesAt(c)' /\ Call(c)'
<1>1. /\ pc \in [Caller -> Points] /\ suspended \in [Caller -> BOOLEAN]
      /\ handles \in [Caller -> SUBSET {"process", "thread"}]
      /\ name \in [Caller -> Names] /\ thread \in [Caller -> Threads]
      /\ returned \in [Caller -> Bases \cup {0}] /\ base \in [Caller -> 0 .. DWORD - 1]
      /\ failed \in [Caller -> {"", "late", "error"}]
  BY Locals
<1>2. CASE OpenProcess(c)
  <2>1. HandlesAt(c)'
    BY <1>1, <1>2 DEF OpenProcess, HandlesAt, Step, Set
  <2>2. Call(c)'
    BY <1>1, <1>2 DEF OpenProcess, Call, Step, Remote, Process, Early, Late
  <2> QED
    BY <2>1, <2>2
<1>3. CASE Suspend(c)
  <2>1. HandlesAt(c)'
    BY <1>1, <1>3 DEF Suspend, HandlesAt, Step
  <2>2. Call(c)'
    BY <1>1, <1>3 DEF Suspend, Call, Step, Remote, Early, Late
  <2> QED
    BY <2>1, <2>2
<1>4. CASE VirtualAlloc(c)
  <2>1. HandlesAt(c)'
    BY <1>1, <1>4 DEF VirtualAlloc, HandlesAt, Step
  <2>2. Call(c)'
    BY <1>1, <1>4 DEF VirtualAlloc, Call, Step, Process, Early, Late, Set
  <2> QED
    BY <2>1, <2>2
<1>5. CASE Write(c)
  <2>1. HandlesAt(c)'
    BY <1>1, <1>5 DEF Write, HandlesAt, Step
  <2>2. Call(c)'
    BY <1>1, <1>5 DEF Write, Call, Step, Process, Early, Late, Set
  <2> QED
    BY <2>1, <2>2
<1>6. CASE CreateThread(c)
  <2>1. HandlesAt(c)'
    <3>1. handles[c] \subseteq {"process"}
      BY <1>6 DEF CreateThread, HandlesAt, Step
    <3>2. CASE pc'[c] = "wait" /\ handles'[c] = handles[c] \cup {"thread"}
      BY <3>1, <3>2 DEF HandlesAt
    <3>3. CASE pc'[c] = "free" /\ handles'[c] = handles[c]
      BY <3>1, <3>3 DEF HandlesAt
    <3> QED
      BY <1>1, <1>6, <3>2, <3>3 DEF CreateThread, Step, Set
  <2>2. Call(c)'
    BY <1>1, <1>6 DEF CreateThread, Call, Step, Process, Early, Late, Set
  <2> QED
    BY <2>1, <2>2
<1>7. CASE Wait(c)
  <2>1. HandlesAt(c)'
    BY <1>1, <1>7 DEF Wait, HandlesAt, Step
  <2>2. Call(c)'
    BY <1>1, <1>7 DEF Wait, Call, Step, Process, Remote, Early, Late
  <2> QED
    BY <2>1, <2>2
<1>8. CASE GetExitCode(c)
  <2>1. HandlesAt(c)'
    BY <1>1, <1>8 DEF GetExitCode, HandlesAt, Step, Set, CloseThread
  <2>2. /\ pc[c] = "code" /\ pc'[c] = "free" /\ UNCHANGED <<Process, Remote, suspended>>
        /\ base[c] = 0 /\ failed[c] = "" /\ name[c] # "freed"
    BY <1>1, <1>8 DEF GetExitCode, Step, Call, Late
  <2>3. CASE Finished(c) /\ base' = Set(base, c, RemoteBase(c)) /\ UNCHANGED failed
    <3>1. thread[c] \in {"ended", "lost"} /\ base'[c] = ExitCode(c)
      BY <1>1, <2>3, FinishedThread DEF Set, RemoteBase
    <3>2. thread[c] = "ended" => base'[c] = returned[c] % DWORD
      BY <3>1 DEF ExitCode
    <3>3. returned[c] % DWORD # 0 => returned[c] # 0
      <4>1. returned[c] \in Bases \cup {0}
        BY <1>1
      <4> QED
        BY <4>1, HandleNumber, CutToWidth
    <3> QED
      BY <2>1, <2>2, <2>3, <3>1, <3>2, <3>3 DEF Call, Process, Remote, Early, Late
  <2>4. CASE failed' \in {Set(failed, c, "late"), Set(failed, c, "error")} /\ UNCHANGED base
    <3>1. failed'[c] # "" /\ base'[c] = 0
      BY <1>1, <2>2, <2>4 DEF Set
    <3> QED
      BY <2>1, <2>2, <3>1 DEF Call, Process, Remote, Early, Late
  <2> QED
    BY <1>8, <2>3, <2>4 DEF GetExitCode
<1>9. CASE VirtualFree(c)
  <2>1. HandlesAt(c)'
    BY <1>1, <1>9 DEF VirtualFree, HandlesAt, Step
  <2>2. Call(c)'
    BY <1>1, <1>9 DEF VirtualFree, Call, Step, Process, Early, Late, Set
  <2> QED
    BY <2>1, <2>2
<1>10. CASE Close(c)
  <2>1. HandlesAt(c)'
    BY <1>1, <1>10 DEF Close, HandlesAt, Step, Set
  <2>2. Call(c)'
    BY <1>1, <1>10 DEF Close, Call, Step, Process, Remote, Early, Late
  <2> QED
    BY <2>1, <2>2
<1>11. CASE Resume(c)
  <2>1. HandlesAt(c)'
    BY <1>1, <1>11 DEF Resume, HandlesAt, Step
  <2>2. Call(c)'
    BY <1>1, <1>11 DEF Resume, Call, Step, Remote, Early, Late, Set
  <2> QED
    BY <2>1, <2>2
<1> QED
  BY <1>2, <1>3, <1>4, <1>5, <1>6, <1>7, <1>8, <1>9, <1>10, <1>11 DEF Inject

\* It leaves the other calls alone.
LEMMA OtherStep ==
  ASSUME TypeOK, NEW c \in Caller, NEW d \in Caller \ {c}, HandlesAt(d), Call(d), Inject(c)
  PROVE  HandlesAt(d)' /\ Call(d)'
<1>1. /\ pc \in [Caller -> Points] /\ suspended \in [Caller -> BOOLEAN]
      /\ handles \in [Caller -> SUBSET {"process", "thread"}]
      /\ name \in [Caller -> Names] /\ thread \in [Caller -> Threads]
      /\ base \in [Caller -> 0 .. DWORD - 1] /\ failed \in [Caller -> {"", "late", "error"}]
  BY Locals
<1>2. pc'[d] = pc[d]
  BY <1>1 DEF Inject, Step, OpenProcess, Suspend, VirtualAlloc, Write, CreateThread, Wait,
         GetExitCode, VirtualFree, Close, Resume
<1>3. suspended'[d] = suspended[d] /\ handles'[d] = handles[d]
  BY <1>1 DEF Inject, OpenProcess, Suspend, VirtualAlloc, Write, CreateThread, Wait,
         GetExitCode, VirtualFree, Close, Resume, Set
<1>4. name'[d] = name[d] /\ thread'[d] = thread[d]
  BY <1>1 DEF Inject, OpenProcess, Suspend, VirtualAlloc, Write, CreateThread, Wait,
         GetExitCode, VirtualFree, Close, Resume, Set, Remote
<1>5. base'[d] = base[d] /\ failed'[d] = failed[d]
  BY <1>1 DEF Inject, OpenProcess, Suspend, VirtualAlloc, Write, CreateThread, Wait,
         GetExitCode, VirtualFree, Close, Resume, Set
<1>6. UNCHANGED <<alive, returned>>
  BY DEF Inject, OpenProcess, Suspend, VirtualAlloc, Write, CreateThread, Wait,
         GetExitCode, VirtualFree, Close, Resume, Process, Remote
<1> QED
  BY <1>2, <1>3, <1>4, <1>5, <1>6 DEF HandlesAt, Call

\* What the process does leaves what every call knows true.
LEMMA ProcessCalls ==
  ASSUME TypeOK, ProcessStep, NEW d \in Caller, HandlesAt(d), Call(d)
  PROVE  HandlesAt(d)' /\ Call(d)'
<1>1. /\ thread \in [Caller -> Threads] /\ returned \in [Caller -> Bases \cup {0}]
  BY Locals
<1>2. UNCHANGED <<pc, suspended, handles, base, failed, name>>
  BY DEF ProcessStep, ReadName, Load, End, SuspendC, ResumeC, Process, Remote, Own
<1>3. HandlesAt(d)'
  BY <1>2 DEF HandlesAt
<1> SUFFICES Call(d)'
  BY <1>3
<1>4. CASE UNCHANGED <<alive, returned>> /\ thread'[d] = thread[d]
  BY <1>2, <1>4 DEF Call
<1>5. CASE /\ UNCHANGED <<alive, returned>>
           /\ thread[d] = "ready" /\ thread'[d] \in {"loading", "ended"}
  BY <1>2, <1>5 DEF Call
<1>6. CASE /\ alive' = FALSE /\ UNCHANGED returned
           /\ thread'[d] = IF thread[d] \in {"ready", "loading"} THEN "lost" ELSE thread[d]
  BY <1>2, <1>6 DEF Call
<1>7. CASE UNCHANGED alive /\ thread[d] = "loading" /\ thread'[d] = "ended"
  BY <1>2, <1>7 DEF Call
<1>8. ASSUME NEW c \in Caller, ReadName(c) PROVE Call(d)'
  <2>1. CASE name[c] # "freed" /\ UNCHANGED alive
    BY <1>1, <1>4, <1>5, <1>8, <2>1 DEF ReadName, Set
  <2>2. CASE name[c] = "freed"
    BY <1>1, <1>6, <1>8, <2>2 DEF ReadName
  <2> QED
    BY <1>8, <2>1, <2>2 DEF ReadName
<1>9. ASSUME NEW c \in Caller, Load(c) PROVE Call(d)'
  <2>1. thread[c] = "loading" /\ UNCHANGED alive
    BY <1>9 DEF Load, Process
  <2>2. CASE c = d
    BY <1>1, <1>7, <1>9, <2>1, <2>2 DEF Load, Set
  <2>3. CASE c # d
    <3>1. thread'[d] = thread[d] /\ returned'[d] = returned[d]
      BY <1>1, <1>9, <2>3 DEF Load, Set
    <3> QED
      BY <1>2, <2>1, <3>1 DEF Call
  <2> QED
    BY <2>2, <2>3
<1>10. ASSUME NEW code, End(code) PROVE Call(d)'
  BY <1>1, <1>6, <1>10 DEF End
<1>11. CASE SuspendC \/ ResumeC
  BY <1>4, <1>11 DEF SuspendC, ResumeC, Remote
<1> QED
  BY <1>8, <1>9, <1>10, <1>11 DEF ProcessStep

(***************************************************************************)
(* Theorems                                                                *)
(***************************************************************************)
\* The invariant is inductive.
LEMMA StepIInv == IInv /\ [Next]_vars => IInv'
<1> SUFFICES ASSUME IInv, [Next]_vars PROVE IInv'
  OBVIOUS
<1> USE DEF IInv
<1>1. SuspensionsBalanced'
  BY BalanceStep
<1>2. ASSUME NEW c \in Caller, Inject(c) PROVE IInv'
  <2>1. TypeOK'
    BY <1>2, InjectTypes
  <2>2. \A d \in Caller : HandlesAt(d)' /\ Call(d)'
    BY <1>2, OwnStep, OtherStep
  <2> QED
    BY <1>1, <2>1, <2>2
<1>3. CASE ProcessStep
  <2>1. TypeOK'
    BY <1>3, ProcessTypes
  <2>2. \A d \in Caller : HandlesAt(d)' /\ Call(d)'
    BY <1>3, ProcessCalls
  <2> QED
    BY <1>1, <2>1, <2>2
<1>4. CASE UNCHANGED vars
  <2>1. TypeOK'
    BY <1>4 DEF vars, TypeOK
  <2>2. \A d \in Caller : HandlesAt(d)' /\ Call(d)'
    BY <1>4 DEF vars, HandlesAt, Call
  <2> QED
    BY <1>1, <2>1, <2>2
<1> QED
  BY <1>2, <1>3, <1>4 DEF Next, ProcessStep

\* It holds in every run.
LEMMA Invariance == Spec => []IInv
BY InitIInv, StepIInv, PTL DEF Spec

\* The variables keep their types; remote_base fits into an exit code.
THEOREM TypeCorrect == Spec => []TypeOK
<1>1. IInv => TypeOK
  BY DEF IInv
<1> QED
  BY <1>1, Invariance, PTL

\* Any number of concurrent calls of inject_crt undo their own suspension and
\* no other.
THEOREM SuspensionsUndone == Spec => []SuspensionsBalanced
<1>1. IInv => SuspensionsBalanced
  BY DEF IInv
<1> QED
  BY <1>1, Invariance, PTL

\* No call of inject_crt leaves a handle open, whichever of its steps fails.
THEOREM NoHandleLeft == Spec => []HandlesClosed
<1>1. IInv => HandlesClosed
  BY DEF IInv, HandlesAt, HandlesClosed
<1> QED
  BY <1>1, Invariance, PTL

\* A wrong report of inject_crt has one of the stated causes.
THEOREM ReportsExplained == Spec => []ReportExplained
<1>1. IInv => ReportExplained
  <2> SUFFICES ASSUME IInv, NEW c \in Caller
               PROVE  /\ base[c] # 0 => ~alive \/ returned[c] # 0
                      /\ pc[c] = "done" /\ returned[c] # 0 /\ base[c] = 0 =>
                           failed[c] # "" \/ returned[c] % DWORD = 0
    BY DEF ReportExplained
  <2>1. thread[c] \in Threads /\ Call(c)
    BY Locals DEF IInv
  <2> QED
    BY <2>1 DEF Call, Threads, Late
<1> QED
  BY <1>1, Invariance, PTL

\* A name freed under a thread that has not read it is never reported a success.
THEOREM NameFreedReported == Spec => []NameGoneReported
<1>1. IInv => NameGoneReported
  BY Locals DEF IInv, Call, NameGoneReported
<1> QED
  BY <1>1, Invariance, PTL
=============================================================================
