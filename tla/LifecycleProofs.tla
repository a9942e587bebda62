--------------------------- MODULE LifecycleProofs ---------------------------
(***************************************************************************)
(* What Lifecycle promises of a program that loads the library holds       *)
(* however often it loads it and however much it logs.                     *)
(***************************************************************************)
EXTENDS Lifecycle, TLAPS

\* Variables are shared under Linux only.
SharedOnLinux == shared => system = "linux"

\* A program with its own variables has its one backend until it ends.
OneBackend == ~shared => /\ at = "start" => core["program"].backends = 0
                         /\ at \notin {"start", "done"} => core["program"].backends = 1
                         /\ printed = logged

\* The cached directory is the program's, and so is the path when scripts run.
ProgramPath ==
  IF system = "linux"
  THEN /\ core["program"].dir \in {"", "program"}
       /\ at = "scripts" => core["program"].path = "program"
  ELSE core["program"].dir = "" /\ core["program"].path = ""

\* Entries are freed only where they were made, and by a library only if shared.
Cleared ==
  /\ core["program"].checkpoints # "none" => checked
  /\ core["program"].checkpoints = "freed" /\ at # "done" => shared /\ loads > 0
  /\ ~shared => core["library"].checkpoints = "none"

\* From dlopen to dlclose the library is there, and soon its handle is saved.
HandleSaved == /\ at \in {"startup", "loaded", "scripts", "unload"} => open /\ loads > 0
               /\ at = "scripts" => core["program"].handle = loads

\* The inductive invariant.
IInv == /\ TypeOK /\ SharedOnLinux /\ OneBackend /\ ProgramPath /\ Cleared /\ HandleSaved
        /\ ScriptsBesideProgram /\ FaultExplained

\* New variables are well-typed.
LEMMA FreshType == Fresh \in Cores
BY LifecycleAssumption DEF Fresh, Cores, Directories

\* and hold nothing.
LEMMA FreshFields == /\ Fresh.backends = 0 /\ Fresh.checkpoints = "none"
                     /\ Fresh.path = "" /\ Fresh.dir = ""
BY DEF Fresh

\* The program starts with nothing registered, cached or used.
LEMMA InitIInv == Init => IInv
<1> SUFFICES ASSUME Init PROVE IInv
  OBVIOUS
<1>1. core["program"] = Fresh /\ core["library"] = Fresh
  BY DEF Init, Images
<1>2. loads \in 0 .. MaxLoads /\ logged \in 0 .. MaxLogs /\ printed \in Nat
  BY LifecycleAssumption DEF Init
<1>3. core \in [Images -> Cores] /\ prefixes \subseteq Directories
  BY FreshType DEF Init
<1>4. TypeOK
  BY <1>2, <1>3 DEF Init, TypeOK
<1>5. /\ core["program"].backends = 0 /\ core["program"].checkpoints = "none"
      /\ core["library"].checkpoints = "none"
      /\ core["program"].dir = "" /\ core["program"].path = ""
  BY <1>1, FreshFields
<1>6. /\ at = "start" /\ printed = logged /\ (shared => system = "linux")
  BY DEF Init
<1>8. SharedOnLinux
  BY <1>6 DEF SharedOnLinux
<1>11. OneBackend
  BY <1>5, <1>6, Zenon DEF OneBackend
<1>9. Cleared
  BY <1>5, <1>6 DEF Cleared
<1>10. ProgramPath /\ HandleSaved
  BY <1>5, <1>6 DEF ProgramPath, HandleSaved
<1>7. ScriptsBesideProgram /\ FaultExplained
  BY DEF Init, ScriptsBesideProgram, FaultExplained
<1> QED
  BY <1>4, <1>7, <1>8, <1>9, <1>10, <1>11 DEF IInv

\* What changes the variables of one image keeps their types.
LEMMA CoreTypes ==
  ASSUME NEW c \in Cores
  PROVE  LogStdio(c) \in Cores /\ LogShutdown(c) \in Cores /\ DllDir(c) \in Directories
<1>1. LogStdio(c) \in Cores
  BY DEF Cores, LogStdio
<1>2. LogShutdown(c) \in Cores
  BY DEF Cores, LogShutdown
<1>3. DllDir(c) \in Directories
  BY DEF Cores, DllDir
<1> QED
  BY <1>1, <1>2, <1>3

\* Where a program runs, and whether it shares its variables, stays.
LEMMA GivenSame == [Next]_vars => system' = system /\ shared' = shared
BY DEF Next, vars, Start, Log, Check, Open, Startup, Loaded, Scripts, Shutdown, Close, End,
   Change, Given

\* Every step keeps the types.
LEMMA TypeStep == TypeOK /\ [Next]_vars => TypeOK'
<1> SUFFICES ASSUME TypeOK, [Next]_vars PROVE TypeOK'
  OBVIOUS
<1> DEFINE program == core["program"]
<1>1. program \in Cores /\ core["library"] \in Cores /\ Image("library") \in Images
  BY DEF TypeOK, Images, Image
<1>2. loads' \in 0 .. MaxLoads /\ logged' \in 0 .. MaxLogs /\ printed' \in Nat
  <2>1. program.backends \in Nat
    BY <1>1 DEF Cores
  <2> QED
    <3>1. CASE Log
      BY <2>1, <3>1, LifecycleAssumption DEF TypeOK, Log, History, Given
    <3>2. CASE Open
      BY <3>2, LifecycleAssumption DEF TypeOK, Open, History, Given
    <3>3. CASE UNCHANGED <<loads, logged, printed>>
      BY <3>3 DEF TypeOK
    <3> QED
      BY <3>1, <3>2, <3>3 DEF Next, vars, Start, Check, Startup, Loaded, Scripts, Shutdown,
           Close, End, Change, History, Given
<1>3. core' \in [Images -> Cores]
  <2>1. CASE Start
    BY <1>1, <2>1, CoreTypes DEF Start, TypeOK, Images
  <2>2. CASE Check
    <3>1. [program EXCEPT !.checkpoints = "live"] \in Cores
      BY <1>1 DEF Cores
    <3> QED
      BY <2>2, <3>1 DEF Check, TypeOK, Images
  <2>3. CASE Open
    BY <2>3, FreshType DEF Open, TypeOK
  <2>4. CASE Startup
    <3>1. [LogStdio(core[Image("library")]) EXCEPT !.handle = loads, !.path = "library"] \in Cores
      <4>1. LogStdio(core[Image("library")]) \in Cores /\ loads \in 0 .. MaxLoads
        BY <1>1, CoreTypes DEF TypeOK
      <4>2. "library" \in Directories
        BY DEF Directories
      <4> QED
        BY <4>1, <4>2 DEF Cores
    <3> QED
      BY <1>1, <2>4, <3>1 DEF Startup, TypeOK
  <2>5. CASE Loaded
    <3> DEFINE p == IF system = "linux" THEN "program" ELSE program.path
    <3>1. [program EXCEPT !.handle = loads, !.path = p] \in Cores
      BY <1>1 DEF Cores, TypeOK, Directories
    <3>2. core' = [core EXCEPT !["program"] = [program EXCEPT !.handle = loads, !.path = p]]
      BY <2>5 DEF Loaded, TypeOK, Images
    <3> QED
      BY <3>1, <3>2 DEF TypeOK
  <2>6. CASE Scripts
    <3>1. [program EXCEPT !.dir = DllDir(program)] \in Cores
      BY <1>1, CoreTypes DEF Cores
    <3> QED
      BY <2>6, <3>1 DEF Scripts, TypeOK, Images
  <2>7. CASE Shutdown
    BY <1>1, <2>7, CoreTypes DEF Shutdown, TypeOK
  <2>8. CASE End
    BY <1>1, <2>8, CoreTypes DEF End, TypeOK
  <2>9. CASE UNCHANGED core
    BY <2>9 DEF TypeOK
  <2> QED
    BY <2>1, <2>2, <2>3, <2>4, <2>5, <2>6, <2>7, <2>8, <2>9
       DEF Next, Log, Close, Change, History, Given, vars
<1>4. prefixes' \subseteq Directories
  <2>1. CASE Scripts
    BY <1>1, <2>1, CoreTypes DEF TypeOK, Scripts
  <2>2. CASE UNCHANGED prefixes
    BY <2>2 DEF TypeOK
  <2> QED
    BY <2>1, <2>2 DEF Next, vars, Start, Log, Check, Open, Startup, Loaded,
         Shutdown, Close, End, Change, History
<1>5. fault' \in BOOLEAN /\ open' \in BOOLEAN /\ file' \in BOOLEAN /\ checked' \in BOOLEAN
  BY DEF TypeOK, Next, vars, Start, Log, Check, Open, Startup, Loaded, Scripts,
       Shutdown, Close, End, Change, History
<1>6. system' = system /\ shared' = shared
  BY GivenSame
<1>7. at' \in {"start", "ready", "startup", "loaded", "scripts", "unload", "done", "failed"}
  BY DEF TypeOK, Next, vars, Start, Log, Check, Open, Startup, Loaded, Scripts,
       Shutdown, Close, End, Change, Go
<1> QED
  BY <1>2, <1>3, <1>4, <1>5, <1>6, <1>7 DEF TypeOK

\* Whose variables the library's code uses.
LEMMA ImageOf ==
  /\ shared => Image("library") = "program"
  /\ ~shared => Image("library") = "library"
BY DEF Image

\* The program keeps its one backend: the library's is elsewhere.
LEMMA BackendStep == TypeOK /\ OneBackend /\ [Next]_vars => OneBackend'
<1> SUFFICES ASSUME TypeOK, OneBackend, [Next]_vars PROVE OneBackend'
  OBVIOUS
<1>1. CASE shared
  <2>1. shared'
    BY <1>1, GivenSame
  <2> QED
    BY <2>1 DEF OneBackend
<1>2. CASE ~shared
  <2> DEFINE n == core["program"].backends
  <2>0. shared' = shared
    BY GivenSame
  <2>1. ~shared' /\ Image("library") = "library"
    BY <1>2, <2>0, ImageOf, Zenon
  <2>2. core \in [Images -> Cores] /\ "program" \in Images /\ "library" \in Images
    BY DEF TypeOK, Images
  <2>3. core["program"] \in Cores
    BY <2>2
  <2>4. /\ at = "start" => n = 0
        /\ at \notin {"start", "done"} => n = 1
        /\ printed = logged
    BY <1>2 DEF OneBackend
  <2>5. CASE Start
    <3>1. core'["program"].backends = n + 1
      BY <2>2, <2>3, <2>5 DEF Start, LogStdio, Cores
    <3> QED
      BY <2>4, <2>5, <3>1 DEF Start, Go, History, OneBackend
  <2>6. CASE Log
    BY <2>4, <2>6 DEF Log, OneBackend, TypeOK
  <2>7. CASE End
    BY <2>4, <2>7 DEF End, Go, History, OneBackend
  <2>8. CASE Check \/ Open \/ Startup \/ Loaded \/ Scripts \/ Shutdown \/ Close \/ Change
               \/ UNCHANGED vars
    <3>1. core'["program"].backends = n
      BY <2>1, <2>2, <2>3, <2>8
         DEF Check, Open, Startup, Loaded, Scripts, Shutdown, Close, Change, vars, Cores
    <3>2. at' = "start" <=> at = "start"
      BY <2>8 DEF Check, Open, Startup, Loaded, Scripts, Shutdown, Close, Change, vars, Go
    <3>3. at' = "done" <=> at = "done"
      BY <2>8 DEF Check, Open, Startup, Loaded, Scripts, Shutdown, Close, Change, vars, Go
    <3>4. printed' = logged'
      BY <2>4, <2>8 DEF Check, Open, Startup, Loaded, Scripts, Shutdown, Close, Change, vars, History
    <3> QED
      BY <2>4, <3>1, <3>2, <3>3, <3>4 DEF OneBackend
  <2> QED
    BY <2>5, <2>6, <2>7, <2>8 DEF Next
<1> QED
  BY <1>1, <1>2

\* The program's path and directory, and the directories scripts are looked
\* for in: a path is set before the first of them runs.
LEMMA PathStep ==
  TypeOK /\ SharedOnLinux /\ ProgramPath /\ ScriptsBesideProgram /\ [Next]_vars
    => ProgramPath' /\ ScriptsBesideProgram'
<1> SUFFICES ASSUME TypeOK, SharedOnLinux, ProgramPath, ScriptsBesideProgram, [Next]_vars
             PROVE  ProgramPath' /\ ScriptsBesideProgram'
  OBVIOUS
<1> DEFINE program == core["program"]
<1>1. core \in [Images -> Cores] /\ "program" \in Images /\ "library" \in Images
  BY DEF TypeOK, Images
<1>2. program \in Cores
  BY <1>1
<1>3. system' = system
  BY GivenSame
<1>4. CASE Startup
  <2>1. at' = "loaded" /\ UNCHANGED prefixes
    BY <1>4 DEF Startup, Go, History
  <2>2. core'["program"].dir = program.dir
    BY <1>1, <1>2, <1>4 DEF Startup, Image, LogStdio, Cores
  <2>3. system # "linux" => core'["program"].path = program.path
    <3> SUFFICES ASSUME system # "linux" PROVE core'["program"] = program
      OBVIOUS
    <3>1. ~shared
      BY DEF SharedOnLinux
    <3>2. Image("library") = "library"
      BY <3>1, ImageOf, Zenon
    <3> QED
      BY <1>1, <1>4, <3>2 DEF Startup
  <2> QED
    BY <1>3, <2>1, <2>2, <2>3 DEF ProgramPath, ScriptsBesideProgram
<1>5. CASE Loaded
  <2>1. UNCHANGED prefixes
    BY <1>5 DEF Loaded, History
  <2>2. /\ core'["program"].dir = program.dir
        /\ core'["program"].path = IF system = "linux" THEN "program" ELSE program.path
    BY <1>1, <1>2, <1>5 DEF Loaded, Cores
  <2> QED
    BY <1>3, <2>1, <2>2 DEF ProgramPath, ScriptsBesideProgram
<1>6. CASE Scripts
  <2>1. at = "scripts" /\ prefixes' = prefixes \cup {DllDir(program)}
    BY <1>6 DEF Scripts, Go
  <2>2. core'["program"].dir = DllDir(program) /\ core'["program"].path = program.path
    BY <1>1, <1>2, <1>6 DEF Scripts, Cores
  <2>3. DllDir(program) = IF system = "linux" THEN "program" ELSE ""
    BY <2>1 DEF ProgramPath, DllDir
  <2> QED
    BY <1>3, <2>1, <2>2, <2>3 DEF ProgramPath, ScriptsBesideProgram
<1>7. CASE Start \/ Log \/ Check \/ Open \/ Shutdown \/ Close \/ End \/ Change \/ UNCHANGED vars
  <2>1. UNCHANGED prefixes
    BY <1>7 DEF Start, Log, Check, Open, Shutdown, Close, End, Change, History, vars
  <2>2. at' = "scripts" => at = "scripts"
    BY <1>7 DEF Start, Log, Check, Open, Shutdown, Close, End, Change, Go, vars
  <2>3. core'["program"].dir = program.dir /\ core'["program"].path = program.path
    <3>1. CASE Log \/ Close \/ Change \/ UNCHANGED vars
      BY <3>1 DEF Log, Close, Change, vars
    <3>2. CASE Start \/ End
      BY <1>1, <1>2, <3>2 DEF Start, End, LogStdio, LogShutdown, Cores
    <3>3. CASE Check
      BY <1>1, <1>2, <3>3 DEF Check, Cores
    <3>4. CASE Open
      BY <1>1, <3>4 DEF Open
    <3>5. CASE Shutdown
      <4>1. Image("library") \in Images
        BY <1>1 DEF Image, Images
      <4> QED
        BY <1>1, <1>2, <3>5, <4>1 DEF Shutdown, LogShutdown, Cores
    <3> QED
      BY <1>7, <3>1, <3>2, <3>3, <3>4, <3>5
  <2> QED
    BY <1>3, <2>1, <2>2, <2>3 DEF ProgramPath, ScriptsBesideProgram
<1> QED
  BY <1>4, <1>5, <1>6, <1>7 DEF Next

\* The library stays from its start to its release, and its handle is saved.
LEMMA HandleStep == TypeOK /\ HandleSaved /\ [Next]_vars => HandleSaved'
<1> SUFFICES ASSUME TypeOK, HandleSaved, [Next]_vars PROVE HandleSaved'
  OBVIOUS
<1>1. core \in [Images -> Cores] /\ "program" \in Images /\ loads \in Nat
  BY LifecycleAssumption DEF TypeOK, Images
<1>2. core["program"] \in Cores
  BY <1>1
<1> DEFINE there == at \in {"startup", "loaded", "scripts", "unload"}
<1>3. there' => open' /\ loads' > 0
  <2>1. CASE Open
    BY <1>1, <2>1 DEF Open
  <2>2. CASE Startup \/ Loaded \/ Scripts \/ Shutdown \/ Log \/ Change \/ UNCHANGED vars
    <3>1. there' => there
      BY <2>2 DEF Startup, Loaded, Scripts, Shutdown, Log, Change, vars, Go
    <3>2. open' = open /\ loads' = loads
      BY <2>2 DEF Startup, Loaded, Scripts, Shutdown, Log, Change, vars
    <3> QED
      BY <3>1, <3>2 DEF HandleSaved
  <2>3. CASE Start \/ Check \/ Close \/ End
    BY <2>3 DEF Start, Check, Close, End, Go
  <2> QED
    BY <2>1, <2>2, <2>3 DEF Next
<1>4. at' = "scripts" => core'["program"].handle = loads'
  <2>1. CASE Loaded
    BY <1>1, <1>2, <2>1 DEF Loaded, Cores
  <2>2. CASE Scripts
    BY <1>1, <1>2, <2>2 DEF Scripts, Go, HandleSaved, Cores
  <2>3. CASE Log \/ Change \/ UNCHANGED vars
    BY <2>3 DEF Log, Change, vars, HandleSaved
  <2> QED
    BY <2>1, <2>2, <2>3 DEF Next, Start, Check, Open, Startup, Shutdown, Close, End, Go
<1> QED
  BY <1>3, <1>4 DEF HandleSaved

\* Checkpoints are freed by the program's end, or by a library that shares them.
LEMMA ClearedStep == TypeOK /\ HandleSaved /\ Cleared /\ [Next]_vars => Cleared'
<1> SUFFICES ASSUME TypeOK, HandleSaved, Cleared, [Next]_vars PROVE Cleared'
  OBVIOUS
<1> DEFINE cp(c) == c["program"].checkpoints
           cl(c) == c["library"].checkpoints
<1>1. core \in [Images -> Cores] /\ "program" \in Images /\ "library" \in Images
  BY DEF TypeOK, Images
<1>2. core["program"] \in Cores /\ core["library"] \in Cores
  BY <1>1
<1>3. shared' = shared
  BY GivenSame
<1>4. CASE Check
  <2>1. cp(core') = "live" /\ cl(core') = cl(core) /\ checked' = TRUE
    BY <1>1, <1>2, <1>4 DEF Check, Cores
  <2> QED
    BY <1>3, <2>1 DEF Cleared
<1>5. CASE Shutdown
  <2>1. at = "scripts" /\ checked' = checked /\ loads' = loads
    BY <1>5 DEF Shutdown, Go, History
  <2>2. loads > 0
    BY <2>1 DEF HandleSaved
  <2>3. CASE shared
    <3>1. Image("library") = "program"
      BY <2>3, ImageOf
    <3>2. /\ cp(core') = IF cp(core) = "live" THEN "freed" ELSE cp(core)
      BY <1>1, <1>2, <1>5, <3>1 DEF Shutdown, LogShutdown, Cores
    <3> QED
      BY <1>3, <2>1, <2>2, <2>3, <3>2 DEF Cleared
  <2>4. CASE ~shared
    <3>1. Image("library") = "library"
      BY <2>4, ImageOf, Zenon
    <3>2. /\ cp(core') = cp(core)
          /\ cl(core) = "none" => cl(core') = "none"
      BY <1>1, <1>2, <1>5, <3>1 DEF Shutdown, LogShutdown, Cores
    <3>3. cl(core) = "none" /\ (cp(core) # "none" => checked) /\ cp(core) # "freed"
      BY <2>1, <2>4 DEF Cleared
    <3> QED
      BY <1>3, <2>1, <3>2, <3>3 DEF Cleared
  <2> QED
    BY <2>3, <2>4
<1>6. CASE End
  <2>1. /\ cp(core') = IF cp(core) = "live" THEN "freed" ELSE cp(core)
        /\ cl(core') = cl(core)
    BY <1>1, <1>2, <1>6 DEF End, LogShutdown, Cores
  <2>2. at' = "done" /\ checked' = checked
    BY <1>6 DEF End, Go, History
  <2> QED
    BY <1>3, <2>1, <2>2 DEF Cleared
<1>7. CASE Start \/ Log \/ Open \/ Startup \/ Loaded \/ Scripts \/ Close \/ Change
           \/ UNCHANGED vars
  <2>1. cp(core') = cp(core) /\ cl(core') \in {"none", cl(core)}
    <3>1. CASE Start
      BY <1>1, <1>2, <3>1 DEF Start, LogStdio, Cores
    <3>2. CASE Open
      <4>1. core' = core \/ core' = [core EXCEPT !["library"] = Fresh]
        BY <3>2 DEF Open
      <4> QED
        BY <1>1, <4>1, FreshFields
    <3>3. CASE Startup
      <4> DEFINE i == Image("library")
      <4>1. i \in Images /\ core[i] \in Cores
        BY <1>1 DEF Image
      <4>2. core'[i].checkpoints = core[i].checkpoints
        BY <1>1, <3>3, <4>1 DEF Startup, LogStdio, Cores
      <4>3. \A other \in Images \ {i} : core'[other] = core[other]
        BY <1>1, <3>3 DEF Startup
      <4> QED
        BY <1>1, <4>2, <4>3
    <3>4. CASE Loaded
      BY <1>1, <1>2, <3>4 DEF Loaded, Cores
    <3>5. CASE Scripts
      BY <1>1, <1>2, <3>5 DEF Scripts, Cores
    <3>6. CASE UNCHANGED core
      BY <3>6
    <3> QED
      BY <1>7, <3>1, <3>2, <3>3, <3>4, <3>5, <3>6 DEF Log, Close, Change, vars
  <2>3. checked' = checked /\ (at' = "done" <=> at = "done")
    BY <1>7 DEF Start, Log, Open, Startup, Loaded, Scripts, Close, Change, vars, Go, History
  <2>4. loads > 0 => loads' > 0
    BY <1>7 DEF Start, Log, Open, Startup, Loaded, Scripts, Close, Change, vars, TypeOK
  <2> QED
    BY <1>3, <2>1, <2>3, <2>4 DEF Cleared
<1> QED
  BY <1>4, <1>5, <1>6, <1>7 DEF Next

\* A fault has one of the stated causes.
LEMMA FaultStep ==
  TypeOK /\ HandleSaved /\ Cleared /\ FaultExplained /\ [Next]_vars => FaultExplained'
<1> SUFFICES ASSUME TypeOK, HandleSaved, Cleared, FaultExplained, [Next]_vars, fault'
             PROVE  FaultExplained'
  BY DEF FaultExplained
<1> DEFINE cp == core["program"].checkpoints
<1>1. shared' = shared
  BY GivenSame
<1>2. CASE Check \/ End
  <2>1. cp = "freed" /\ at = "ready" /\ at' \in {"ready", "done"} /\ loads' = loads
    BY <1>2 DEF Check, End, Go
  <2>2. checked /\ shared /\ loads > 0
    BY <2>1 DEF Cleared
  <2>3. checked'
    BY <1>2, <2>2 DEF Check, End, History
  <2> QED
    BY <1>1, <2>1, <2>2, <2>3 DEF FaultExplained
<1>3. CASE Startup
  BY <1>3 DEF Startup, Go, FaultExplained
<1>4. CASE Scripts \/ Shutdown
  <2>1. at = "scripts"
    BY <1>4 DEF Scripts, Shutdown, Go
  <2>2. Live(core["program"].handle)
    BY <2>1 DEF HandleSaved, Live
  <2>3. Shutdown /\ core[Image("library")].checkpoints = "freed"
    BY <1>4, <2>2 DEF Scripts, Shutdown
  <2>4. shared
    <3> SUFFICES ASSUME ~shared PROVE FALSE
      OBVIOUS
    <3>1. Image("library") = "library"
      BY ImageOf, Zenon
    <3> QED
      BY <2>3, <3>1 DEF Cleared
  <2>5. cp = "freed"
    BY <2>3, <2>4, ImageOf
  <2>6. checked /\ loads > 0
    BY <2>1, <2>5 DEF Cleared
  <2>7. at' = "unload" /\ checked' = checked /\ loads' = loads
    BY <2>3 DEF Shutdown, Go, History
  <2> QED
    BY <1>1, <2>4, <2>6, <2>7 DEF FaultExplained
<1>5. CASE Start \/ Log \/ Open \/ Loaded \/ Close \/ Change
  BY <1>5 DEF Start, Log, Open, Loaded, Close, Change, Go
<1>6. CASE UNCHANGED vars
  BY <1>6 DEF vars, FaultExplained
<1> QED
  BY <1>2, <1>3, <1>4, <1>5, <1>6 DEF Next

\* The invariant is inductive.
LEMMA StepIInv == IInv /\ [Next]_vars => IInv'
<1>1. ASSUME SharedOnLinux, [Next]_vars PROVE SharedOnLinux'
  BY <1>1, GivenSame DEF SharedOnLinux
<1> QED
  BY <1>1, TypeStep, BackendStep, PathStep, HandleStep, ClearedStep, FaultStep DEF IInv

\* What follows holds in every run.
LEMMA Invariance == Spec => []IInv
BY InitIInv, StepIInv, PTL DEF Spec

\* The variables keep their types.
THEOREM TypeCorrect == Spec => []TypeOK
<1>1. IInv => TypeOK
  BY DEF IInv
<1> QED
  BY <1>1, Invariance, PTL

\* However often the library is loaded, and whether it shares the program's
\* variables or not, no script is looked for beside the library.
THEOREM NeverBesideLibrary == Spec => []ScriptsBesideProgram
<1>1. IInv => ScriptsBesideProgram
  BY DEF IInv
<1> QED
  BY <1>1, Invariance, PTL

\* A program with variables of its own prints each message once.
THEOREM EachHeardOnce == Spec => []HeardOnce
<1>1. IInv => HeardOnce
  BY DEF IInv, OneBackend, HeardOnce
<1> QED
  BY <1>1, Invariance, PTL

\* Undefined behaviour has one of the two stated causes.
THEOREM FaultsExplained == Spec => []FaultExplained
<1>1. IInv => FaultExplained
  BY DEF IInv
<1> QED
  BY <1>1, Invariance, PTL
=============================================================================
