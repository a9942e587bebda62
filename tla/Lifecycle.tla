------------------------------ MODULE Lifecycle ------------------------------
(***************************************************************************)
(* A program that loads the library, uses it and unloads it: main() of     *)
(* tests/sandbox.c with tests/test_lib.c, and library_startup and          *)
(* library_shutdown of main/dllmain-*.c.  The sandbox loads the library    *)
(* once; a program may do so again.                                        *)
(*                                                                         *)
(* Both are linked with the core, whose static variables (backends,        *)
(* checkpoints, globals, the cached directory) exist once in each image.   *)
(* Under Linux the library's references may be bound to the program's      *)
(* symbols instead, as sandbox.c says of Travis CI: then there is one set. *)
(***************************************************************************)
EXTENDS Naturals

CONSTANTS Systems,   \* where it runs: subset of {"linux", "windows"}
          MaxLoads,  \* bound: how often the library is loaded
          MaxLogs    \* bound: messages the program logs

ASSUME LifecycleAssumption ==
  Systems \subseteq {"linux", "windows"} /\ MaxLoads \in Nat /\ MaxLogs \in Nat

VARIABLES
  system,
  shared,    \* the library uses the program's set of variables
  at,        \* where the program is
  loads,     \* how often the library was loaded; also the last handle
  open,      \* the library is loaded
  file,      \* its file is there
  core,      \* the variables of each image
  fault,     \* undefined behaviour has occurred
  checked,   \* history: the program has passed a checkpoint
  logged,    \* history: messages the program logged,
  printed,   \*   and lines of them on stdout
  prefixes   \* history: the directories its scripts were looked for in

vars == <<system, shared, at, loads, open, file, core, fault,
          checked, logged, printed, prefixes>>

Images == {"program", "library"}
\* log_backends (all on stdout), the hash of checkpoints, dllpath, the cached
\* DLL_DIR, and libhandle (0: NULL).  Paths are told apart by their directory.
Fresh == [backends |-> 0, checkpoints |-> "none", path |-> "", dir |-> "", handle |-> 0]

Init == /\ system \in Systems /\ shared \in BOOLEAN /\ (shared => system = "linux")
        /\ at = "start" /\ loads = 0 /\ open = FALSE /\ file = TRUE
        /\ core = [i \in Images |-> Fresh]
        /\ fault = FALSE /\ checked = FALSE
        /\ logged = 0 /\ printed = 0 /\ prefixes = {}

\* Mutant of Image: the library's variables are always the program's.
ImageOne(caller) == "program"
\* Whose variables the code of an image uses.
Image(caller) == IF shared THEN "program" ELSE caller

Go(here, there) == ~fault /\ at = here /\ at' = there
Given == <<system, shared>>
History == <<checked, logged, printed, prefixes>>

\* log_stdio("stdout") does not look for an earlier registration.
LogStdio(c) == [c EXCEPT !.backends = @ + 1]

\* log_shutdown: clear_checkpoints leaves the hash pointing to freed entries.
LogShutdown(c) == [c EXCEPT !.backends = 0,
                            !.checkpoints = IF @ = "live" THEN "freed" ELSE @]

\* get_dll_dir computes the directory until it is not empty.
DllDir(c) == IF c.dir # "" THEN c.dir ELSE c.path

(***************************************************************************)
(* The program                                                             *)
(***************************************************************************)
Start == /\ Go("start", "ready")
         /\ core' = [core EXCEPT !["program"] = LogStdio(@)]
         /\ UNCHANGED <<Given, loads, open, file, fault, History>>

\* info() and its like, any time before the end: one line from each backend.
Log == /\ ~fault /\ at \notin {"start", "done", "failed"} /\ logged < MaxLogs
       /\ logged' = logged + 1 /\ printed' = printed + core["program"].backends
       /\ UNCHANGED <<Given, at, loads, open, file, core, fault, checked, prefixes>>

\* check("foobar") of test_core_log: freed entries are searched.
Check == /\ Go("ready", "ready")
         /\ checked' = TRUE
         /\ fault' = (core["program"].checkpoints = "freed")
         /\ core' = [core EXCEPT !["program"].checkpoints = "live"]
         /\ UNCHANGED <<Given, loads, open, file, logged, printed, prefixes>>

\* dlopen or LoadLibrary: when it fails the program exits.
Open == /\ ~fault /\ at = "ready" /\ loads < MaxLoads
        /\ \/ at' = "failed" /\ UNCHANGED <<loads, open, core>>
           \/ /\ at' = "startup" /\ file /\ open' = TRUE
              /\ loads' = loads + 1
              /\ core' = [core EXCEPT !["library"] = Fresh]
        /\ UNCHANGED <<Given, file, fault, History>>

\* Mutant of Startup: it reports the directory too, as a commented-out line of
\* the code would.
StartupDir ==
  /\ Go("startup", "loaded")
  /\ core' = [core EXCEPT ![Image("library")] =
                [LogStdio(@) EXCEPT !.handle = loads, !.path = "library",
                                    !.dir = IF @ # "" THEN @ ELSE "library"]]
  /\ fault' = (system = "linux" /\ ~file)
  /\ UNCHANGED <<Given, loads, open, file, History>>

\* library_startup.  Under Linux the path comes from realpath, which returns
\* NULL when the file has gone since; its result is not tested.
Startup ==
  /\ Go("startup", "loaded")
  /\ core' = [core EXCEPT ![Image("library")] =
                [LogStdio(@) EXCEPT !.handle = loads, !.path = "library"]]
  /\ fault' = (system = "linux" /\ ~file)
  /\ UNCHANGED <<Given, loads, open, file, History>>

\* Mutant of Loaded: the handle is left to the library to save.
LoadedNot == /\ Go("loaded", "scripts")
             /\ core' = [core EXCEPT !["program"].path = IF system = "linux" THEN "program" ELSE @]
             /\ UNCHANGED <<Given, loads, open, file, fault, History>>

\* lib_load saves the handle; under Linux main() then sets the path to that of
\* its own executable.
Loaded == /\ Go("loaded", "scripts")
          /\ core' = [core EXCEPT !["program"].handle = loads,
                                  !["program"].path = IF system = "linux" THEN "program" ELSE @]
          /\ UNCHANGED <<Given, loads, open, file, fault, History>>

\* A Lua state of the program loads scripts: from the directory, or from the
\* library's resources by its handle.
Live(handle) == open /\ handle = loads
Scripts == /\ Go("scripts", "scripts")
           /\ prefixes' = prefixes \cup {DllDir(core["program"])}
           /\ core' = [core EXCEPT !["program"].dir = DllDir(core["program"])]
           /\ fault' = (core["program"].handle # 0 /\ ~Live(core["program"].handle))
           /\ UNCHANGED <<Given, loads, open, file, checked, logged, printed>>

\* test_lib_unload: library_shutdown is found by the handle (under Windows by
\* the system) and called,
Shutdown ==
  /\ Go("scripts", "unload")
  /\ core' = [core EXCEPT ![Image("library")] = LogShutdown(@)]
  /\ fault' = \/ ~Live(core["program"].handle)
              \/ core[Image("library")].checkpoints = "freed"
  /\ UNCHANGED <<Given, loads, open, file, History>>

\* and the library released.  The saved handle stays.
Close == /\ Go("unload", "ready")
         /\ open' = FALSE
         /\ UNCHANGED <<Given, loads, file, core, fault, History>>

\* log_shutdown() and return.
End == /\ Go("ready", "done")
       /\ core' = [core EXCEPT !["program"] = LogShutdown(@)]
       /\ fault' = (core["program"].checkpoints = "freed")
       /\ UNCHANGED <<Given, loads, open, file, History>>

\* The file is removed or put back, as by a new build.
Change == /\ ~fault
          /\ file' = ~file
          /\ UNCHANGED <<Given, at, loads, open, core, fault, History>>

Next == \/ Start \/ Log \/ Check \/ Open \/ Startup \/ Loaded \/ Scripts
        \/ Shutdown \/ Close \/ End \/ Change

Spec == Init /\ [][Next]_vars

(***************************************************************************)
(* Properties                                                              *)
(***************************************************************************)
Directories == {"", "program", "library"}
Cores == [backends : Nat, checkpoints : {"none", "live", "freed"},
          path : Directories, dir : Directories, handle : 0 .. MaxLoads]
TypeOK == /\ system \in Systems /\ shared \in BOOLEAN
          /\ at \in {"start", "ready", "startup", "loaded", "scripts", "unload",
                     "done", "failed"}
          /\ loads \in 0 .. MaxLoads /\ logged \in 0 .. MaxLogs /\ printed \in Nat
          /\ open \in BOOLEAN /\ file \in BOOLEAN /\ fault \in BOOLEAN /\ checked \in BOOLEAN
          /\ core \in [Images -> Cores]
          /\ prefixes \subseteq Directories

\* sandbox.c: "Work around this by forcing lcfr_globals.dllpath to the
\* executable path".  Whether the variables are shared or not, and however
\* often the library is loaded, no script is ever looked for beside the library:
\* the directory is computed for the first time after the path was set.
ScriptsBesideProgram ==
  prefixes \subseteq (IF system = "linux" THEN {"program"} ELSE {""})

\* A program whose variables are its own prints each of its messages exactly
\* once, loads and unloads in between or not: the library's backend, and its
\* log_shutdown, are on another list.
HeardOnce == ~shared => printed = logged

\* The saved handle is the library's whenever it is used, and the checkpoints
\* are cleared twice only if the program used any and shares them with a
\* library that was unloaded; the only other fault is a file that has gone
\* while the library starts.
FaultExplained ==
  fault => \/ shared /\ checked /\ loads > 0 /\ at \in {"ready", "unload", "done"}
           \/ at = "loaded" /\ ~file
=============================================================================
