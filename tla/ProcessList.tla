----------------------------- MODULE ProcessList -----------------------------
(***************************************************************************)
(* Listing the processes of a Linux system while they come and go:         *)
(* process.getProcesses (core/process.lua) with process_get_pids_C and     *)
(* process_get_module_name_C (core/linux/processes.c).                     *)
(*                                                                         *)
(* /proc is the map from process IDs to what lives there.  Each system     *)
(* call that looks at it is a step.  Executable paths are shorter than     *)
(* PATH_MAX; GrowingBuffer has what happens when a buffer is too small.    *)
(***************************************************************************)
EXTENDS Naturals, FiniteSets

CONSTANTS
  Pid,
  Program,    \* executables; a process that has no exe link has none
  Name,       \* the names the kernel keeps for processes (/proc/<pid>/stat)
  Spaced,     \* those of them that contain white space
  Cut,        \* what is left of these: the first word without its last letter
  NULL,
  MaxChanges  \* bound: changes of the process table

ASSUME ProcessAssumption == /\ NULL \notin Program \cup Name
                            /\ Spaced \subseteq Name /\ Cut \in [Spaced -> Name \ Spaced]
                            /\ MaxChanges \in Nat

\* What lives at a process ID: nothing, or a process with a name, which has an
\* executable (readable or not) unless it is a kernel thread or a zombie.
Process == [exe : Program \cup {NULL}, readable : BOOLEAN, name : Name]

VARIABLES
  proc,     \* [Pid -> Process \cup {NULL}]
  changes,  \* history: how often it changed
  was,      \* history: per pid, the processes it has been since the listing began
  pc,       \* "idle", "list", "next", "exe", "open", "scan", "raised", "fault"
  todo,     \* the PIDs not looked at, by the loop or by readdir
  at,       \* the PID the loop is at
  held,     \* the process whose stat file is open has not ended since
  pids,     \* the PIDs listed
  result    \* the table getProcesses builds: [pids -> an answer], partial

vars == <<proc, changes, was, pc, todo, at, held, pids, result>>

\* An answer: the executable, the name of a process without one, an error.
NoEntry == [kind |-> "absent", value |-> NULL]
Answer == [kind : {"exe", "name"}, value : Program \cup Name \cup {NULL}]
            \cup {[kind |-> "error", value |-> NULL], NoEntry}

Init == /\ proc \in [Pid -> Process \cup {NULL}] /\ changes = 0
        /\ was = [p \in Pid |-> {proc[p]}]
        /\ pc = "idle" /\ todo = {} /\ at = NULL /\ held = FALSE /\ pids = {}
        /\ result = [p \in Pid |-> NoEntry]

\* The environment: a process starts, ends, or runs another program.
Change(p, x) ==
  /\ changes < MaxChanges /\ proc[p] # x
  /\ changes' = changes + 1
  /\ proc' = [proc EXCEPT ![p] = x]
  /\ was' = [was EXCEPT ![p] = @ \cup {x}]
  /\ held' = (held /\ (p = at => x # NULL))
  /\ UNCHANGED <<pc, todo, at, pids, result>>

(***************************************************************************)
(* process_get_pids_C                                                      *)
(***************************************************************************)
\* opendir: the listing begins, or nil comes back and ipairs(nil) raises an error.
Open == /\ pc \in {"idle", "raised"}
        /\ \/ pc' = "list" /\ todo' = Pid
           \/ pc' = "raised" /\ todo' = {}
        /\ pids' = {} /\ at' = NULL
        /\ was' = [p \in Pid |-> {proc[p]}]
        /\ result' = [p \in Pid |-> NoEntry]
        /\ UNCHANGED <<proc, changes, held>>

\* readdir, in any order, reports the directories that exist when it gets to them.
ReadDir(p) == /\ pc = "list" /\ p \in todo
              /\ todo' = todo \ {p}
              /\ pids' = IF proc[p] # NULL THEN pids \cup {p} ELSE pids
              /\ UNCHANGED <<proc, changes, was, pc, at, held, result>>

CloseDir == /\ pc = "list" /\ todo = {}
            /\ pc' = "next" /\ todo' = pids
            /\ UNCHANGED <<proc, changes, was, at, held, pids, result>>

(***************************************************************************)
(* The loop over the PIDs, process_get_module_name_C and get_pid_stat_name *)
(***************************************************************************)
Loop(p) == /\ pc = "next" /\ p \in todo
           /\ pc' = "exe" /\ at' = p /\ todo' = todo \ {p}
           /\ UNCHANGED <<proc, changes, was, held, pids, result>>

\* Mutant of Return: the last PID is not looked at.
ReturnEarly == /\ pc = "next" /\ Cardinality(todo) <= 1
               /\ pc' = "idle"
               /\ UNCHANGED <<proc, changes, was, todo, at, held, pids, result>>
Return == /\ pc = "next" /\ todo = {}
          /\ pc' = "idle"
          /\ UNCHANGED <<proc, changes, was, todo, at, held, pids, result>>

Enter(answer) == pc' = "next" /\ result' = [result EXCEPT ![at] = answer]

\* Mutant of Unlinked: what the path buffer still holds is returned.
UnlinkedStale ==
  LET old == {result[p] : p \in {q \in Pid : result[q].kind = "exe"}}
  IN IF old = {} THEN pc' = "open" /\ UNCHANGED result ELSE Enter(CHOOSE a \in old : TRUE)
\* readlink fails with ENOENT: the process is gone, or has no executable.
Unlinked == pc' = "open" /\ UNCHANGED result

\* readlink("/proc/<pid>/exe")
ReadLink ==
  /\ pc = "exe"
  /\ LET x == proc[at]
     IN \/ x = NULL /\ Unlinked
        \/ x # NULL /\ ~x.readable /\ Enter([kind |-> "error", value |-> NULL])
        \/ x # NULL /\ x.readable /\ x.exe = NULL /\ Unlinked
        \/ x # NULL /\ x.readable /\ x.exe # NULL /\ Enter([kind |-> "exe", value |-> x.exe])
  /\ UNCHANGED <<proc, changes, was, todo, at, held, pids>>

\* fopen("/proc/<pid>/stat").  With no such process the name stays NULL, which
\* lua_pushfstring prints.
OpenStat ==
  /\ pc = "open"
  /\ \/ proc[at] = NULL /\ Enter([kind |-> "name", value |-> NULL]) /\ UNCHANGED held
     \/ proc[at] # NULL /\ pc' = "scan" /\ held' = TRUE /\ UNCHANGED result
  /\ UNCHANGED <<proc, changes, was, todo, at, pids>>

\* What "%*u (%ms" and the removal of the last character make of "(name) ...":
\* the conversion stops at white space, and then the name loses a letter.
ScannedName(n) == IF n \in Spaced THEN Cut[n] ELSE n

\* fscanf: reading of a process that has ended fails, and strlen(NULL) follows.
Vanished == pc' = "fault" /\ UNCHANGED result

ScanStat ==
  /\ pc = "scan" /\ held' = FALSE
  /\ \/ held /\ Enter([kind |-> "name", value |-> ScannedName(proc[at].name)])
     \/ ~held /\ Vanished
  /\ UNCHANGED <<proc, changes, was, todo, at, pids>>

Next == \/ \E p \in Pid : \/ \E x \in Process \cup {NULL} : Change(p, x)
                          \/ ReadDir(p) \/ Loop(p)
        \/ Open \/ CloseDir \/ Return \/ ReadLink \/ OpenStat \/ ScanStat

Spec == Init /\ [][Next]_vars

(***************************************************************************)
(* Properties                                                              *)
(***************************************************************************)
\* Types, and that only PIDs in the list are looked at and get an answer.
TypeOK ==
  /\ proc \in [Pid -> Process \cup {NULL}] /\ changes \in 0 .. MaxChanges
  /\ was \in [Pid -> SUBSET (Process \cup {NULL})] /\ held \in BOOLEAN
  /\ pc \in {"idle", "list", "next", "exe", "open", "scan", "raised", "fault"}
  /\ pids \subseteq Pid /\ todo \subseteq Pid /\ at \in pids \cup {NULL}
  /\ result \in [Pid -> Answer] /\ \A p \in Pid \ pids : result[p] = NoEntry
  /\ pc # "list" => todo \subseteq pids

\* What an answer says was true of a process with that PID at some moment since
\* the listing began, though PIDs are used again and nothing is locked.  Only a
\* name may be said wrong: of one with white space a fragment comes back, which
\* no process need ever have had (linux/processes.c:90-92).
Explained(p, a) ==
  CASE a.kind = "absent"                   -> TRUE
    [] a.kind = "exe"                      -> \E x \in was[p] \ {NULL} : x.exe = a.value
    [] a.kind = "error"                    -> \E x \in was[p] \ {NULL} : ~x.readable
    [] a.kind = "name" /\ a.value = NULL   -> NULL \in was[p]
    [] OTHER                               -> \E x \in was[p] \ {NULL} :
                                                 \/ a.value = x.name
                                                 \/ x.name \in Spaced /\ a.value = Cut[x.name]
AnswersExplained == \A p \in Pid : Explained(p, result[p])

\* When getProcesses returns, every process that was there all the time has an
\* answer, and none is invented for a PID that was never in use.
EveryLongLivedListed ==
  pc = "idle" =>
    \A p \in Pid : /\ was[p] = {NULL} => result[p] = NoEntry
                   /\ NULL \notin was[p] /\ at # NULL => result[p] # NoEntry

\* tests/lua/test_process.lua, testProcesses: once it has opened /proc,
\* process.getProcesses() returns a table, whatever processes do meanwhile.
ReturnsTable == pc # "fault"
=============================================================================
