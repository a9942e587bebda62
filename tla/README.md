# A verification development for Lucciefr

Lucciefr is a library that is loaded into other processes, by injection on Windows, and offers them
a logging system, threads, process inspection and a LuaJIT state with embedded scripts. This
directory holds TLA+ models of its own code (`core/`, `main/` and the programs in `tests/` that
drive it), the TLC configurations that check them, and TLAPS proofs about ten of them.
`PROJECT.json` maps every definition to the lines it models.

## 1. The system

| Component | State it keeps | Operations |
|---|---|---|
| Ring buffer, `core/ringbuffer.c` | array, `position`, `count`, `capacity` | init, done, push, push_copy, pop, clear, resize, element |
| Log backends, `core/log.c`, `core/list.h`, `core/logstdio.c` | the doubly-linked list `log_backends`, open files | register, unregister, shutdown, send; log_stdio opens, its notification closes |
| Log messages, `core/log.c` | `global_threshold`, `indent_level`, `serial`, the hash `checkpoints` | attach_log_level (all logging macros), log_reset, log_set_threshold |
| Threads, `core/threads.c` | none of its own | thread_start, thread_stop, thread_wait, for each system |
| Timed loop, `tests/test_loop.c`, `tests/sandbox.c` | the flag `running`, two threads, a signal handler | test_loop, console_thread, ctrlc_handler, main |
| Timing, `core/timing.c` | `start_timestamp` | get_elapsed_ms, formatting of time stamps |
| Utilities, `core/utils.c` | a cached directory | gzip header and decompression, get_dll_dir |
| Symbols, `core/symbols.c` | Lua's `dofile`, its backup, `package.loaders` | dofile and require with a fallback to embedded scripts |
| Lua helpers, `core/luautils.c` | one jump buffer | protected and guarded calls, table helpers, conversions |
| Processes, `core/linux/processes.c`, `core/win/processes.c`, `core/process.lua` | none; all of it belongs to the operating system | list processes and their programs, suspend and resume, inject_crt |
| Windows support, `core/win/`, `core/util_win.c` | cached module handles | code pages, error texts |
| Life cycle, `main/dllmain*.c`, `core/globals.c`, `tests/test_lib.c` | handle, path and cached directory, once in each image or shared | library_startup, library_shutdown, lib_load, lib_unload |
| String helpers, `core/strutils.c` | none | vformatmsg_len with its growing buffer; pure conversions |
| Agent, `agent/`; MessagePack helpers | none | stubs and pure functions |

How they interact:

- A logging macro calls `attach_log_level`, which builds a MessagePack buffer and calls
  `sbuffer_log_send`, which calls each backend's callback in turn. A callback may call the log
  system again. No lock protects anything in `log.c`.
- `test_loop` starts a console thread that logs and writes `running` while the main thread reads
  it; the SIGINT handler writes it too. At the end the main thread cancels the console thread,
  "waits" for it and calls `log_shutdown`, which frees the backends the thread logs through. Every
  message is formatted in memory from realloc first, also in the handler.
- The program and the library are both linked with the core. Each image has its own log system and
  globals, unless the dynamic linker binds the library's references to the program's.
- The filter of `luautils_table_keys` and the scripts that `dofile` runs are Lua code, which calls
  back into what is under way.
- `get_pid_exe`, `process_get_pids_C` and `getProcesses` read what other processes change at any
  time. `inject_crt` makes another process run a thread that reads memory `inject_crt` frees.
- The ring buffer belongs to its caller and is not shared.

What is hard here: a linked list whose loops run while their bodies remove entries; process-wide
log state used from several threads; a wait that times out while the other side is late; system
calls of which any may fail halfway; a deadline given on the wrong clock; indices that are wrapped
by comparison after a resize left the capacity and the array apart. `PROJECT.json`, "hazards",
has them by line.

For each modelled component, what makes it correct: a ring buffer keeps every element in exactly
one place, in order; the list stays well-formed, every file is closed once, no entry is used after it was freed unless
a callback removed its own; serial numbers are continuous, scopes nest, checkpoints count; the loop stops when
told to, and the program ends; a growing buffer returns whole answers or fails for a reason; the
process table answers what was true; injection leaves the target resumed and closes its handles;
scripts come from where they should and leave their result or one message on the host's stack; the table helpers do
what their comments say while Lua code changes the table; loading and unloading the library leaves
the program's log, handle and directory as they were meant to be.

## 2. The modules

| Module | Models | Checked by |
|---|---|---|
| `BoundedQueue` | what a ring buffer promises (abstract) | refinement in run `ring`, proved in `BufferProofs` |
| `RingBuffer` | `core/ringbuffer.c` | `MCRingBuffer`, `BufferProofs` |
| `BackendRegistry` | what the backend list promises (abstract) | refinement in run `backends`, proved in `BackendListProofs` |
| `BackendList` | `core/list.h`, the list in `core/log.c`, `core/logstdio.c` | `MCBackendList`, `BackendListProofs` |
| `LogStream` | messages, numbering and administration in `core/log.c` | `MCLogStream`, `LogStreamProofs` |
| `TestLoop` | `tests/test_loop.c`, `core/threads.c`, the end of `tests/sandbox.c` | `MCTestLoop`, `TestLoopProofs` |
| `GrowingBuffer` | `get_pid_exe` (both systems), `process_get_pids_C` (Windows), `vformatmsg_len` | `MCGrowingBuffer`, `BufferProofs` |
| `ProcessList` | `core/process.lua` and what it calls in `core/linux/processes.c` | `MCProcessList`, `ProcessListProofs` |
| `RemoteLoad` | `inject_crt`, suspend and resume in `core/win/processes.c` | `MCRemoteLoad`, `RemoteLoadProofs` |
| `ScriptLoader` | `core/symbols.c`, the calls of `core/luautils.c` that run Lua, gzip in `core/utils.c` | `MCScriptLoader`, `LuaProofs` |
| `LuaTables` | the table helpers of `core/luautils.c`, xpack and xunpack | `MCLuaTables`, `LuaProofs` |
| `Lifecycle` | `main/dllmain-*.c`, `tests/test_lib.c`, `main()` of `tests/sandbox.c`, `get_dll_dir` | `MCLifecycle`, `LifecycleProofs` |

State and actions, module by module:

- **RingBuffer.** `entries`, `position`, `count`, `capacity` are the structure's fields; an array of
  size 0 is a NULL pointer. `phase` says whether the structure is initialised. Every call is one
  action: `RbInit` (with calloc failing or not), `PushRoom` and `PushFull` (the two branches of
  `ringbuffer_push`; `ringbuffer_push_copy` is the same with memory of its own), `Pop`, `Clear`,
  `Done`, `Resize`. The queue it is compared with, `BoundedQueue`, is the documented one: its limit
  is the length of the array and a resize assigns a new one. `Wrap`, `IncTail` and `RbElement` are the code's index arithmetic. `live` and
  `stray` are histories of what the caller handed over. An access outside the array, or through a
  NULL array, leads to `phase = "fault"`.
- **BackendList.** The heap is explicit: `Node` is the set of addresses, a freed entry keeps its
  stale contents and its address may be returned by the next malloc. `ListAppend` and `ListDelete`
  are the macros of `list.h` field by field. `log_shutdown` takes one step per entry and delivery
  one step per callback, so that a callback's own calls come in between. `CallbackCalls` says which
  those are: it may register backends, remove others and remove its own, which `orphan` records. A
  use of a freed entry or a closed stream leads to `pc = "fault"`.
- **LogStream.** `threshold`, `indent`, `serial`, `passes` are the static variables of `log.c`.
  `Log` is the filter at the head of `attach_log_level`, `Pack` what is done before the serial,
  `LoadSerial` and `StoreSerial` the two halves of `++serial`, `Send` the delivery to a stream. Each
  message in the stream keeps how many resets (`epoch`) and how many clearings of the checkpoints
  (`era`) there had been. One
  thread does everything, the others log plain text, as the test program's console thread does.
- **TestLoop.** One program counter for each thread and one for the handler; `console` also has
  the thread's position inside a message (`sending`: in the allocator, at the backend). `CtrlC` may
  come between any two steps once the handler is installed: under Linux it interrupts either thread,
  which stands still meanwhile (`Runs`), under Windows it has a thread of its own. `HandlerLog`,
  `HandlerSend` and `HandlerSet` are the handler's statements; one that interrupts the allocator is
  `"stuck"` there. `ThreadCancel` and `ThreadTerminate` are the two versions of `thread_stop`, the
  latter possibly leaving a lock behind (`orphan`). `Deadline` is what `thread_wait` computes under
  Linux. The backend list is reduced to one entry, since that is what the program registers.
- **GrowingBuffer.** The length of the answer changes at any moment (`Change`). `api` is the system
  function, chosen once: `Answer` has how each treats a buffer that is too small. `Format` is one
  turn of `vformatmsg_len`, whose text does not change, with the `vsnprintf` of C99 or an older one
  (`Used`); it does not test what realloc returns.
- **ProcessList.** `proc` is `/proc`. Each system call is a step; between two of them processes
  start, end, run another program, and PIDs are used again; opendir may fail (`"raised"`). `was` is
  the history answers are compared with. `ScannedName` is what `%ms` and the removal of the last
  letter make of a name: the name, or for one with white space a fragment (`Cut`) that may be any
  other name.
- **RemoteLoad.** One program counter per call of `inject_crt`; each Windows call is a step and may
  fail. `Write` goes on after a failed write too, because `bytes_written` is not initialised in the
  code. The remote thread's steps are `ReadName` and `Load`; the process may end at any time.
- **ScriptLoader.** `frames` is the stack of calls under way, each with its part of the Lua stack:
  the host's C code, `symbol_dofile_C`, the stock `require`, scripts, and C functions run by
  `libopen`. `Call` and `Return` are calls with their results, `Raise` and `Unwind` Lua's errors,
  caught where the code has a `lua_pcall` (`Protected`). `Choose`, `Backup` and `Fallback` are the
  test for the file, its opening and the embedded resource; `Change` lets files come and go between
  them. A file that is there may turn out not to compile, and a resource may be good, not compile or
  not unpack. Scripts call each other as they like. `loading` has the names whose entry in
  `package.loaded` is require's sentinel (`CheckLoaded`, from LuaJIT's `lib_package.c`), which a
  script that fails leaves there and a value replaces. No name has a C library or an entry in
  `package.preload`. `handler` and `safeguard` are the globals of `lua_guarded_pcall`; the exception handler that would use them is not in the repository.
- **LuaTables.** `table` maps keys to values, and `walk` is the state of `lua_next` in
  `luautils_table_keys` with the C function's local variables. Only there does Lua code run in the
  middle of a helper, so only that one is modelled visit by visit (`Visit`, `Filter`); after the
  filter has added a field, `lua_next` may do anything. Every other helper is one step whose result
  is `ret`. Keys are integers, other keys that `lua_isnumber` accepts (`Numerals`, with what
  `lua_tointeger` makes of each), and names. `Assign` and `ChangePack` are Lua code between calls.
- **Lifecycle.** `core` has the static variables of each image: how many backends, the state of the
  hash of checkpoints, path, cached directory, handle. `Image` says whose variables a call uses:
  `shared` is chosen once. The program starts its log, may pass a checkpoint, loads the library,
  whose `library_startup` registers a backend and sets handle and path (`Startup`), saves the handle
  and overrides the path (`Loaded`), runs scripts, calls `library_shutdown` and unloads. It may do
  that again. `Change` removes or replaces the library's file at any time.

## 3. The runs

All runs are small enough to be complete: no state constraint is used, and every bound is a
constant of the module.

| Run | Question | Bounds |
|---|---|---|
| `ring` | Does any sequence of calls keep each element in one slot, and the order of a drop-oldest queue? | capacities 0 to 3, new ones 1 to 4, 4 elements: the tail goes round, a resize may shrink below, match or exceed the capacity |
| `backends` | Do registration, removal and shutdown, in callbacks too, keep the list sound and deliver in order, except after a callback has removed its own backend; does shutdown end? | 3 addresses (a middle entry, and reuse), 2 files, one stream, one custom callback with two user pointers (exact match and fallback); callbacks register, remove others and remove their own |
| `log` | Are serials continuous, scopes nested, pass counts successive, and at 1 again after a clearing? | 2 threads, 4 messages (a scope with something inside and something after), serials modulo 3 (they wrap), 2 checkpoints, one log_reset |
| `log_reset` | Can checkpoints be used after they were cleared? No. | 1 thread, 1 checkpoint |
| `loop` | Do "quit", Ctrl+C and the timeout end the loop and the program? Is freed memory used only where it is known to be? | both systems, timeouts none and 3, a wait of 2, at most 2 other lines, one Ctrl+C, clocks that start at the Epoch and long after |
| `buffer` | Are answers whole, is memory kept, do calls fail for a cause and return? | sizes 2 to 16, lengths just below, at and above each power of two, 4 system functions and 2 versions of vsnprintf |
| `processes` | Is every answer true of its PID, or a fragment of a name with white space; is no process that was there all the time missing? | 2 PIDs, 3 names (one with a space, one that is its fragment), 2 changes: end and reuse of one PID, or one change of each |
| `processes_crash` | Does `getProcesses` return a table? Not when a process ends between fopen and fscanf. | as `processes` |
| `remote` | Do suspensions balance, handles close, wrong reports have a known cause; does every call return? | 2 callers and one outside suspension; exit codes modulo 16, a handle that fits and one that is 0 modulo 16 |
| `scripts` | What runs, and what fails, when scripts load each other while files come and go? Does each call leave the host's stack as documented, but for nil in the place of a message with a stack trace? | 4 names: with a good resource (its file may be locked), without, with a broken one, with one that does not compile; 5 frames: scripts that require each other, a script that loads a script, or three nested `libopen` |
| `tables` | Do the table helpers do what their comments say? | every table with the keys 1, 2, 3, the string "2" and a name, whose values are a cdata, a boolean or nil; the filter makes one change; up to 3 packed values, one change |
| `lifecycle` | Do handle, directory, log and checkpoints survive repeated loading, with shared variables or not? | both systems, 3 loads, 3 messages, 1 checkpoint |

What the properties say beyond their names:

- `RefinesQueue` and `RefinesRegistry` are refinements: the state of the detailed module is mapped
  to a sequence by reading the ring from its tail, or the list from its head, and every step is a
  step of the abstract module or leaves it alone. Both abstract modules say what the comments
  promise; where the code falls short of it, the property names the step: `DropsEarly` (a push into
  an array that has grown), `orphan` (the rest of a message during which a callback removed its own
  backend).
- `ReportExplained`, `NameGoneReported`, `FailsForCause`, `FaultCause`, `FaultExplained`,
  `UseExplained`, `AnswersExplained`, `LoadFailureExplained` and `BlocksSound` list the *only*
  causes of a wrong result. They are how defects that are known and have no run of their own are
  kept in view: anything beyond those causes would be reported.
- `SourceExplained` and `LoadFailureExplained` are what is left of "dofile prefers the file" when the
  test and the opening are separate steps: each outcome is right for some moment of the call, or for
  the pair of moments named. An error about a loop is right if the name's script is under way further
  down, or failed when require last ran it.
- `PassCountsSuccessive` lets the count begin again where log_reset(true) came between two messages.
  The code never gets to such a second message, see `CheckpointsUsable`; a `clear_checkpoints` that
  empties the hash would, and would satisfy the property.
- `SerialsContinuous` holds until two threads were in `attach_log_level` at once (`overlapped`).
- `InterruptStops` speaks of a Ctrl+C that comes once `running` has been raised, and the three
  liveness properties of `TestLoop` except runs that are `Broken`: undefined behaviour, a handler
  stuck in the allocator it interrupted, or a lock that a terminated thread took with it.
  `FaultExplained` bounds the first of these.
- `KeysExact` allows for a filter that adds a field, which `lua_next` excludes; `PackRoundTrip` for a
  table whose t[0] was removed.

The violation runs are disagreements between the code and its own comments or tests; each is quoted
in "findings". Met while modelling, with a cause named in a property but no run:

- `ringbuffer_resize` never assigns `capacity`, which `ringbuffer.h:18` says "should correspond to
  *entries array size": wrap and fullness go by the old one (`FaultCause`, and `DropsEarly` in
  `RefinesQueue`);
- an element pushed to a buffer of capacity 0 that a resize gave an array is stored, never counted
  and survives `ringbuffer_done` (`stray` in `Ownership`);
- a callback that removes its *own* backend leaves `sbuffer_log_send` to read the next pointer of a
  freed entry (`log.c:220`), although `log.c:16` allows removal "at any time" (`orphan` in
  `UseExplained` and `RefinesRegistry`);
- two threads may give two messages one serial, and a Ctrl+C between the installation of the handler
  and `running = true` is lost;
- `thread_wait` does not wait on Linux: its deadline is a time since the program's start, taken for
  one since the Epoch (`Deadline` in `TestLoop`), and the backend may be freed under the thread;
- a Ctrl+C that interrupts the allocator hangs the handler, which formats a message before it clears
  the flag; under Windows `TerminateThread` may leave a lock that `log_shutdown` waits for;
- a failed `pthread_create` leads to an `error()` with fewer arguments than conversions
  (`threads.c:35`) and to `pthread_cancel(0)`;
- `vformatmsg_len` does not test the result of realloc (`FailsForCause`);
- `QueryFullProcessImageName` refuses a short buffer, and `get_handle_exe` takes that for an error
  instead of doubling; the Windows `process_get_module_name_C` frees the buffer on its own stack
  (`DisposeBinding`);
- a process name with white space is cut by `%ms` and then loses its last letter, so that the answer
  may be the name of no process (`Cut` in `AnswersExplained`);
- `luautils_dofile` with a stack trace leaves nil instead of the error message, since
  `luaStackTrace_C` returns no value, against the comment at `luautils.c:497` (`Handled` in
  `ScriptLoader`, `trace` in `HostStackExact`); after a nested `libopen` the
  outer guarded call has no exception handler any more;
- after the timeout `inject_crt` frees the name under a thread that may still read it; an exit code
  of the process is taken for a module handle;
- `luautils_table_count` counts numeric strings and fractions towards "maxn", unlike the
  `table.maxn` its comment compares it with, so that appending may leave a hole; `keyof(nil)` leaves
  the value below its result (`left` in `Keyof`);
- when the library shares the program's variables, both `log_shutdown`s clear the same checkpoints
  (`FaultExplained` in `Lifecycle`); `realpath` returns NULL for a library whose file has gone.

### Fairness

- `BackendList`: a shutdown that has begun goes on, since its caller keeps running. Callbacks need
  not return.
- `TestLoop`: both threads are scheduled, the handler runs on once it was called, and a pending
  cancellation takes effect when its thread is at a cancellation point. Nobody has to type anything
  or to press Ctrl+C, and fgets may block for ever.
- `GrowingBuffer`: a call that has begun goes on. The environment may change the length for ever.
- `RemoteLoad`: the calling threads run, and WaitForSingleObject returns at the latest after its
  timeout. The remote process and its thread need never run.
- `RingBuffer`, `LogStream`, `ProcessList`, `ScriptLoader`, `LuaTables`, `Lifecycle`: none; only
  safety is checked.

CHECK_DEADLOCK is off where the system may stop: a faulted ring buffer, list or log, a program that has
ended, a process table whose changes are used up, calls that have all returned.

## 4. What is proved

Eight modules of proofs establish, for every value of the constants, the safety properties the runs
check on an instance. Each proof has the form Init => IInv, IInv /\ [Next]_vars => IInv', IInv =>
property, with one lemma per action or group of actions. The assumptions are the `...Assumption` of
each module, which say what kind of sets the constants are; TLC evaluates them in every run.

| Module | Proved of `Spec` | The invariant, and why it is needed |
|---|---|---|
| `BufferProofs`, ring buffer | `CountedInArray`, `Ownership`, `FaultCause`, `RefinesQueue` | `RawEmpty` (before init and after done the capacity is 0) is added: without it nothing is known of the fields `ringbuffer_init` finds. `Ownership` needs `CountedInArray`, since counted elements share no slot only if there are no more of them than slots; `FaultCause` needs that a buffer without capacity keeps its tail at 0. `SlotInjective`, `SlotRange` and `SlotAdvanced` carry the arithmetic of the single wrap. The same arithmetic shows the refinement: `QueueIsNewest` says when the slots of the next state spell the newest elements of the queue before. |
| `BufferProofs`, growing buffers | `HeapResultWhole`, `BlocksSound`, `FailsForCause` | During an attempt the block has the size asked for, unless `vformatmsg_len` goes on without memory; `IdleEmpty` (nothing is held between calls) makes a new call start without a block. |
| `BackendListProofs` | `WellFormed`, `FilesOwned`, `UseExplained`, `RefinesRegistry` | `Listed`: there is a sequence of the entries in use, each once, along which the pointers lead forth and back. The code has no such sequence; it turns what the macros find by walking (`Hop`, `ListLast`, `ListMatch`) into arithmetic on indices, append and delete into `Extended` and `Without`, and it is what `Chain`, the refinement mapping, shows of the list. That `Hop` follows the sequence is `WalkUnique`, a least counterexample on the function that defines the walk. Unless `orphan`, the entry of the callback under way is in use, so that its next pointer is read from live memory; nothing is assumed of what callbacks do. |
| `LogStreamProofs` | `SerialsContinuous`, `PassCountsSuccessive`, `ScopesNested` | Until two threads overlap at most one is busy, and the counter is the serial of the last message, or of the one about to be sent; an id's pass count is that of its last message in the stream, or one more while a message about it is on its way, and the messages about checkpoints are all of one era, for the code does not survive the first pass after a clearing that freed something. For the scopes a second invariant, `Scopes`, on top of that one: since the last reset the level is, for every open scope, the scope's own plus the ENTERs less the LEAVEs from there (`Level`), where the level is what the message Main has under way was indented by (`Held`); so a message is deeper than every scope open around it (`Inside`) and the LEAVE that ends a scope is not (`Closed`). A LEAVE too many finds the level 0, when no scope is open. |
| `LuaProofs`, the loader | `TypeOK`, `SourceExplained`, `LoadFailureExplained`, `HostStackExact`, `GuardTargetLive` | `Calls` says of each frame what its operation records at each point (`Sound`), of each two neighbours that one waits for the other (`Waits`), and that C functions run under `libopen` alone: scripts and C functions do not call each other, so neither sees the other's errors (`Thrown`). `Sound` turns "at some moment of the call" into what a frame has seen; what is there now is always among it. `HostWaits` keeps the host's stack as what it was, the handler, and what the call has left so far, and `Outermost` connects the script's results with it. An induction over the depth is not needed: a step changes the last two frames only (`SwapCalls`, `DropCalls`, `AddCalls`). For the error about a loop a second invariant, `Kept`, on top of that one: a name that the sentinel is left for has its script under way or failed (`Looping`), since a step takes away at most the last script (`Lasts`), and if by an error, remembers it. |
| `LuaProofs`, the tables | `KeysExact`, `AppendFresh`, `SequentialIff`, `KeyofTrue`, `PackRoundTrip` | Every field that is there all the time is still to be visited or was asked for; the keys stored are the accepted ones and as many. `AppendFresh` needs that a finite set of integers has a greatest element (`Largest`, by a well-founded order of subsets); `SequentialIff` that a set of n keys that contains 1..n is 1..n. |
| `ProcessListProofs` | `AnswersExplained`, `EveryLongLivedListed` | The history has what is there now, so that whatever a system call reads is in it; a process that was there all the time is listed, or readdir has yet to come to it; a listed PID has its answer, is being looked at, or will be. |
| `RemoteLoadProofs` | `SuspensionsBalanced`, `HandlesClosed`, `ReportExplained`, `NameGoneReported` | `suspends` is a sum with the cardinality of the set of suspended callers, which each step changes by one element; which handles are open is a function of the program counter; a call past its wait whose thread has not ended reports a failure. |
| `LifecycleProofs` | `ScriptsBesideProgram`, `HeardOnce`, `FaultExplained` | Whether shared or not, the directory in use is empty or the program's, and its path is set when scripts run; a program with its own variables has its one backend until it ends; checkpoints are freed before the end only if shared; while scripts run the saved handle is the last one, and the library is loaded. |
| `TestLoopProofs` | `FaultExplained` | The backend is there until the main thread has passed `Shutdown`, and it passed the wait only at the deadline or when the console thread was done; the handler runs on a thread that has not ended, and the one it interrupts does not free the backend meanwhile. |

`TypeCorrect` of each (`LoaderTypes` and `TablesTypes` in `LuaProofs`) is the module's `TypeOK`, which belongs to every invariant above; in
`LogStream` it says that a LEAVE never wraps the level, in `RemoteLoad` that a result fits into an
exit code.

Only model-checked: everything temporal under fairness (`ShutdownEmpties`, `QuitStops`, `InterruptStops`,
`TimeoutEnds`, `CallsReturn`, `InjectReturns`), which the prover cannot do.

## 5. Not modelled

- Vendored code: `luajit/`, `msgpack-c/`, `core/lfs.c`, `core/tinfl.c`, `core/uthash.h` and
  `luaunit.lua` are all but about 6000 of the repository's 170000 lines of implementation. The
  models state what the program's own code relies on (lua_next, lua_pcall, realloc) and no more, so
  the share of *all* lines they cover stays near one per cent.
- The encoding of messages (MessagePack), their wording and colours; the formatting of time stamps,
  which rests on floating-point fractions and localtime; the byte layout of the gzip header.
- Argument checks, conversions and stack dumps of `luautils.c`, pure functions of `strutils.c` and
  `mpkutils.c`; thin wrappers around the Windows API; the agent, which is a stub; Lua scripts that
  print a banner or are used at build time.
- Failed allocations in `log.c`, which end in a NULL dereference at once.
- In `ScriptLoader`, the mapping from file names to symbols is a constant, and so is the library's
  directory, which `Lifecycle` has; of `package.loaded` only the sentinels are
  kept, and `require` of a name without one may return at once; a
  second `luaopen_symbols` on one state, which no caller in the repository makes and after which
  `dofile` would recurse without end.
- In `Lifecycle`, the log is as many lines as there are backends on stdout; what a backend does is
  in `BackendList`, what a message holds in `LogStream`.

## 6. The order of the work

Memory and order in the logging system came first, then threads, then other processes, then Lua, and
last the life cycle that puts them together; the proofs followed the runs. What would come next are
the fields of the gzip header and `strip_pwd` against reference definitions.
