----------------------------- MODULE ScriptLoader -----------------------------
(***************************************************************************)
(* core/symbols.c and the calls of core/luautils.c that run Lua: dofile    *)
(* and require prefer a script's file and fall back to the resource        *)
(* embedded for its name; luautils_dofile, luautils_require and libopen    *)
(* call them for C code with an error handler on the Lua stack.            *)
(*                                                                         *)
(* One Lua state, its calls as a stack of frames with the host program's C *)
(* code at the bottom.  Scripts call dofile and require, with or without   *)
(* pcall, raise errors and return values as they like; files come and go   *)
(* between any two steps.  lua_pcall and the stock dofile are modelled     *)
(* from how this code uses them, require from LuaJIT's lib_package.c; no   *)
(* name has a C library or an entry in package.preload.                    *)
(***************************************************************************)
EXTENDS Naturals, Sequences, SequencesExt

CONSTANTS
  Name,       \* the names of scripts, up to strip_pwd
  Symbol,     \* per name, what its characters other than [a-zA-Z0-9] made '_' give
  Embedded,   \* per symbol, the data between _start and _end: "none", "good",
              \* "broken", a gzip stream with a bad header or bad data, or
              \* "garbled", a script that does not compile
  Files,      \* names that a file may come up under
  Lockable,   \* those that may also be a directory or a file without permission
  Results,    \* what a script may return
  MaxFrames,  \* bound: depth of calls (LUAI_MAXCCALLS)
  MaxStack    \* bound: values the host or a C function puts on the stack

ASSUME LoaderAssumption ==
  /\ \A n \in Name : Embedded[Symbol[n]] \in {"none", "good", "broken", "garbled"}
  /\ Files \subseteq Name /\ Lockable \subseteq Files
  /\ \A r \in Results : r \in Seq(STRING)
  /\ MaxFrames \in Nat \ {0} /\ MaxStack \in Nat

VARIABLES
  disk,       \* per name, what there is: "none", "file", "locked"
  globals,    \* of the Lua state: dofile, its backup, package.loaders
  frames,     \* the calls under way, the host first
  throw,      \* the error the last frame has raised, or "none"
  handler,    \* USER_EXCEPTION_HANDLER is set
  safeguard,  \* the frame lua_safeguard returns to
  loading,    \* the names whose entry in package.loaded is require's sentinel
  before,     \* history: the host's stack before its last call
  gave,       \* history: what the last script gave to the host's call
  failed      \* history: names whose script failed when require last ran it

vars == <<disk, globals, frames, throw, handler, safeguard, loading, before, gave, failed>>

\* stack: its part of the Lua stack; base: a stack index it keeps; call: whom
\* it waits for; from: where the script it runs came from; todo: loaders not
\* yet asked; seen: history, what there was under its name during the call.
Frame(op, at, n, args) ==
  [op |-> op, at |-> at, name |-> n, stack |-> args, base |-> Len(args), call |-> "none",
   from |-> "none", trace |-> FALSE, todo |-> IF op = "require" THEN globals.loaders ELSE <<>>,
   seen |-> IF op \in {"dofile", "require"} THEN {disk[n]} ELSE {}]

Kinds(n) == {"none"} \cup (IF n \in Files THEN {"file"} ELSE {})
                     \cup (IF n \in Lockable THEN {"locked"} ELSE {})
Init == /\ disk \in [Name -> {"none", "file"}] /\ \A n \in Name : disk[n] \in Kinds(n)
        /\ globals = [dofile |-> "stock", backup |-> "nil", loaders |-> <<"path">>]
        /\ frames = <<[op |-> "host", at |-> "idle", name |-> "none", stack |-> <<>>, base |-> 0,
                       call |-> "none", from |-> "none", trace |-> FALSE, todo |-> <<>>, seen |-> {}]>>
        /\ throw = "none" /\ handler = FALSE /\ safeguard = 0
        /\ loading = {} /\ before = <<>> /\ gave = <<>> /\ failed = {}

Top == Last(frames)
Replace(f) == Append(Front(frames), f)
Running(op, at) == throw = "none" /\ Top.op = op /\ Top.at = at
Resource(n) == Embedded[Symbol[n]]
History == <<before, gave>>
Guard   == <<handler, safeguard>>
Loaded  == <<loading, failed>>

\* The last frame waits (with the given stack) for a new one.
Call(kind, stack, callee) ==
  /\ Len(frames) < MaxFrames
  /\ frames' = Append(Replace([Top EXCEPT !.at = "running", !.call = kind, !.stack = stack]), callee)
  /\ UNCHANGED throw

\* The caller of the last frame gets what it returns, or its error; a script
\* uses the values in ways that are left out.
Receive(f, at, values) ==
  IF f.op = "chunk" THEN [f EXCEPT !.at = "body", !.call = "none"]
  ELSE [f EXCEPT !.at = at, !.stack = @ \o values]
Return(values) == /\ frames' = Append(Front(Front(frames)),
                                      Receive(Last(Front(frames)), "returned", values))
                  /\ UNCHANGED throw
Raise(m) == throw' = m /\ UNCHANGED frames

\* require runs the script that a loader has found.
Loads(f) == f.op = "require" /\ f.call = "loader"

\* lua_pcall: the callers that have one, and what their error handlers make of
\* the message: luaStackTrace_C returns no value, which counts as nil.
Protected(f) == f.call \in {"luautils_dofile", "luautils_require", "libopen", "pcall", "backup", "embedded"}
Handled(f, m) == IF f.call = "luautils_dofile" /\ f.trace THEN "nil" ELSE m
Unwind == /\ throw # "none" /\ Len(frames) > 1
          /\ LET f == Last(Front(frames))
             IN IF Protected(f)
                THEN /\ frames' = Append(Front(Front(frames)), Receive(f, "failed", <<Handled(f, throw)>>))
                     /\ throw' = "none"
                ELSE frames' = Front(frames) /\ UNCHANGED throw
          /\ failed' = IF Loads(Top) THEN failed \cup {Top.name} ELSE failed
          /\ UNCHANGED <<disk, globals, Guard, History, loading>>

\* Files come and go.
Change(n) ==
  /\ \E kind \in Kinds(n) \ {disk[n]} : disk' = [disk EXCEPT ![n] = kind]
  /\ frames' = [i \in DOMAIN frames |->
                  IF frames[i].seen # {} /\ frames[i].name = n
                  THEN [frames[i] EXCEPT !.seen = @ \cup {disk'[n]}] ELSE frames[i]]
  /\ UNCHANGED <<globals, throw, Guard, History, Loaded>>

(***************************************************************************)
(* symbol_dofile_C                                                         *)
(***************************************************************************)
\* Mutant of Prefer: a resource is never used.
PreferFile(f) == TRUE
\* if (!data || file_exists(filename))
Prefer(f) == Resource(f.name) = "none" \/ disk[f.name] # "none"
Choose ==
  /\ Running("dofile", "enter")
  /\ IF Top.stack = <<>> THEN Raise("argument")
     ELSE /\ frames' = Replace([Top EXCEPT !.at = IF Prefer(Top) THEN "open" ELSE "embedded"])
          /\ UNCHANGED throw
  /\ UNCHANGED <<disk, globals, Guard, History, Loaded>>

Chunk(n) == Frame("chunk", "body", n, <<>>)
Begin(kind, from) ==
  /\ Len(frames) < MaxFrames
  /\ frames' = Append(Replace([Top EXCEPT !.at = "running", !.call = kind, !.from = from]), Chunk(Top.name))
  /\ UNCHANGED throw

\* The stock dofile opens the file and compiles it, if it can ...
FailsWith(m) == /\ frames' = Replace([Top EXCEPT !.at = "failed", !.stack = Append(@, m)])
                /\ UNCHANGED throw
Backup ==
  /\ Running("dofile", "open") /\ globals.backup = "stock"
  /\ \/ disk[Top.name] = "file" /\ (Begin("backup", "file") \/ FailsWith("syntax"))
     \/ disk[Top.name] # "file" /\ FailsWith("open")
  /\ UNCHANGED <<disk, globals, Guard, History, Loaded>>

\* Mutant of Unpacks: the header and the result are not checked.
UnpacksAlways(f) == TRUE
\* gzip_decompress
Unpacks(f) == Resource(f.name) # "broken"
\* luaL_loadbuffer
Compiles(f) == Resource(f.name) # "garbled"
\* load_decompressed_buffer and the call of the chunk: an error of the first is
\* raised, by itself or by its caller ...
RunResource(kind) == \/ ~Unpacks(Top) /\ Raise("broken")
                     \/ Unpacks(Top) /\ ~Compiles(Top) /\ Raise("syntax")
                     \/ Unpacks(Top) /\ Compiles(Top) /\ Begin(kind, "embedded")
Fallback ==
  /\ Running("dofile", "embedded") /\ RunResource("embedded")
  /\ UNCHANGED <<disk, globals, Guard, History, Loaded>>

\* return lua_gettop(L) - basepointer: that many values from the top.
DofileResults(f) == SubSeq(f.stack, f.base + 1, Len(f.stack))
\* ... and the end of either call.
DofileEnd ==
  /\ \/ Running("dofile", "failed") /\ Raise(Last(Top.stack))
     \/ Running("dofile", "returned") /\ Return(DofileResults(Top))
  /\ UNCHANGED <<disk, globals, Guard, History, Loaded>>

(***************************************************************************)
(* require: the loaders are asked in order.                                *)
(***************************************************************************)
\* package.loaded has a sentinel while the script of a name runs; one that
\* failed leaves it there.  Anything else there is returned.
CheckLoaded ==
  /\ Running("require", "enter")
  /\ \/ Top.name \in loading /\ Raise("loop")
     \/ Top.name \notin loading /\ Return(<<"module">>)
     \/ /\ Top.name \notin loading
        /\ frames' = Replace([Top EXCEPT !.at = "search"]) /\ UNCHANGED throw
  /\ UNCHANGED <<disk, globals, Guard, History, Loaded>>

AskPath ==
  /\ Running("require", "search") /\ Top.todo # <<>> /\ Head(Top.todo) = "path"
  /\ \/ disk[Top.name] # "none" /\ frames' = Replace([Top EXCEPT !.at = "open"])
     \/ disk[Top.name] # "file" /\ frames' = Replace([Top EXCEPT !.todo = Tail(@)])
  /\ UNCHANGED <<disk, globals, throw, Guard, History, Loaded>>

\* require sets the sentinel before it runs what a loader returned.
Sets(n) == loading' = loading \cup {n} /\ UNCHANGED failed
OpenPath ==
  /\ Running("require", "open")
  /\ \/ disk[Top.name] = "file" /\ Begin("loader", "file") /\ Sets(Top.name)
     \/ disk[Top.name] = "file" /\ Raise("syntax") /\ UNCHANGED Loaded
     \/ disk[Top.name] # "file" /\ Raise("open") /\ UNCHANGED Loaded
  /\ UNCHANGED <<disk, globals, Guard, History>>

\* dll_symbolLoader_C
AskSymbols ==
  /\ Running("require", "search") /\ Top.todo # <<>> /\ Head(Top.todo) = "symbols"
  /\ \/ /\ Resource(Top.name) # "none" /\ RunResource("loader")
        /\ IF Unpacks(Top) /\ Compiles(Top) THEN Sets(Top.name) ELSE UNCHANGED Loaded
     \/ /\ Resource(Top.name) = "none" /\ UNCHANGED <<throw, Loaded>>
        /\ frames' = Replace([Top EXCEPT !.todo = Tail(@)])
  /\ UNCHANGED <<disk, globals, Guard, History>>

\* What the script returned, or true, takes the sentinel's place.
Clears(n) == loading' = loading \ {n} /\ failed' = failed \ {n}
RequireEnd ==
  /\ \/ /\ Running("require", "search") /\ Top.todo = <<>>
        /\ Raise("missing") /\ UNCHANGED Loaded
     \/ Running("require", "returned") /\ Return(<<"module">>) /\ Clears(Top.name)
  /\ UNCHANGED <<disk, globals, Guard, History>>

(***************************************************************************)
(* Scripts                                                                 *)
(***************************************************************************)
ScriptCalls ==
  /\ Running("chunk", "body")
  /\ \E kind \in {"call", "pcall"}, n \in Name :
       \/ \E args \in {<<>>, <<"name">>} :
            Call(kind, <<>>, Frame("dofile", "enter", n, args))
       \/ Call(kind, <<>>, Frame("require", "enter", n, <<>>))
  /\ UNCHANGED <<disk, globals, Guard, History, Loaded>>

\* module() and assignments to package.loaded
ScriptSetsLoaded(n) == /\ Running("chunk", "body") /\ n \in loading /\ Clears(n)
                       /\ UNCHANGED <<disk, globals, frames, throw, Guard, History>>

ScriptEnds ==
  /\ Running("chunk", "body")
  /\ \/ \E r \in Results : /\ Return(r)
                           /\ gave' = IF Len(frames) = 3 THEN r ELSE gave
     \/ Raise("script") /\ UNCHANGED gave
  /\ UNCHANGED <<disk, globals, Guard, before, Loaded>>

(***************************************************************************)
(* The host program, and C functions called through luautils_cpcall        *)
(***************************************************************************)
Host == frames[1]

\* Mutant of AppendLoader: the loader is inserted in front.
AppendLoaderFirst(loaders) == <<"symbols">> \o loaders
\* register_package_loader(L, 0)
AppendLoader(loaders) == loaders \o <<"symbols">>

\* luaopen_symbols, once for each Lua state.
OpenSymbols ==
  /\ Running("host", "idle") /\ globals.backup = "nil"
  /\ globals' = [dofile |-> "override", backup |-> globals.dofile,
                 loaders |-> AppendLoader(globals.loaders)]
  /\ UNCHANGED <<disk, frames, throw, Guard, History, Loaded>>

HostCalls(kind, pushed, trace, callee) ==
  /\ Running("host", "idle") /\ globals.dofile = "override" /\ Len(frames) < MaxFrames
  /\ frames' = <<[Host EXCEPT !.at = "running", !.call = kind, !.trace = trace,
                              !.base = Len(Host.stack), !.stack = @ \o pushed], callee>>
  /\ before' = Host.stack /\ gave' = <<>>
  /\ UNCHANGED <<disk, globals, throw, Loaded>>

\* luautils_dofile
HostDofile(n, trace) ==
  /\ HostCalls("luautils_dofile", IF trace THEN <<"handler">> ELSE <<>>, trace,
               Frame("dofile", "enter", n, <<"name">>))
  /\ UNCHANGED Guard

\* luautils_require
HostRequire(n) ==
  /\ HostCalls("luautils_require", <<>>, FALSE, Frame("require", "enter", n, <<>>))
  /\ UNCHANGED Guard
\* A script may have put something else in place of require:
\* luautils_getfunction pops it again.
RequireGone ==
  /\ Running("host", "idle") /\ globals.dofile = "override"
  /\ frames' = <<[Host EXCEPT !.at = "error", !.call = "getfunction", !.base = Len(Host.stack)]>>
  /\ before' = Host.stack /\ gave' = <<>>
  /\ UNCHANGED <<disk, globals, throw, Guard, Loaded>>

Ended(at) == IF at = "returned" THEN "done" ELSE "error"
\* Mutant of WithoutHandler: the handler stays when there was an error.
WithoutHandlerDone(f) == IF f.trace /\ f.at = "returned" THEN RemoveAt(f.stack, f.base + 1) ELSE f.stack
\* lua_remove(L, error_handler)
WithoutHandler(f) == IF f.trace THEN RemoveAt(f.stack, f.base + 1) ELSE f.stack
HostEnd ==
  /\ throw = "none" /\ Top.op = "host" /\ Top.at \in {"returned", "failed"}
  /\ Top.call \in {"luautils_dofile", "luautils_require"}
  /\ frames' = <<[Top EXCEPT !.at = Ended(Top.at), !.stack = WithoutHandler(Top)]>>
  /\ UNCHANGED <<disk, globals, throw, Guard, History, Loaded>>

\* Between calls the host uses what they left, and has values of its own.
Settle(k) == /\ Running("host", "done") \/ Running("host", "error")
             /\ frames' = <<[Host EXCEPT !.at = "idle", !.stack = [i \in 1 .. k |-> "value"]]>>
             /\ UNCHANGED <<disk, globals, throw, Guard, History, Loaded>>

\* libopen: luautils_cpcall puts its handler below the function, and
\* lua_guarded_pcall saves where to go on after an exception.
Arm == handler' = TRUE /\ safeguard' = Len(frames)
CFunction == Frame("cfunction", "body", "none", <<>>)
HostLibopen == HostCalls("libopen", <<"handler">>, TRUE, CFunction) /\ Arm
NestedLibopen ==
  /\ Running("cfunction", "body") /\ Arm /\ Len(frames) < MaxFrames
  /\ frames' = Append(Replace([Top EXCEPT !.at = "running", !.call = "libopen", !.trace = TRUE,
                                          !.base = Len(Top.stack), !.stack = Append(@, "handler")]), CFunction)
  /\ UNCHANGED <<disk, globals, throw, History, Loaded>>

\* What a C function does: push values, return some, raise an error.
CPush == /\ Running("cfunction", "body") /\ Len(Top.stack) < MaxStack
         /\ frames' = Replace([Top EXCEPT !.stack = Append(@, "value")])
         /\ UNCHANGED <<disk, globals, throw, Guard, History, Loaded>>
CEnds == /\ Running("cfunction", "body")
         /\ \/ \E k \in 0 .. Len(Top.stack) : Return(SubSeq(Top.stack, Len(Top.stack) - k + 1, Len(Top.stack)))
            \/ Raise("cfunction")
         /\ UNCHANGED <<disk, globals, Guard, History, Loaded>>

\* Mutant of Disarm: the handler is the one there was before.
DisarmOuter == handler' = (\E i \in 1 .. Len(frames) - 1 : frames[i].call = "libopen") /\ UNCHANGED safeguard
\* USER_EXCEPTION_HANDLER = NULL
Disarm == handler' = FALSE /\ UNCHANGED safeguard

\* luautils_stackclean(L, lua_gettop(L) - pop_args)
Popped(stack, k) == SubSeq(stack, 1, Len(stack) - k)
\* The rest of libopen, for a library that should leave k values: LIBOPEN(L, func, k).
LibopenEnd(k) ==
  /\ throw = "none" /\ Top.call = "libopen" /\ Top.at \in {"returned", "failed"} /\ Disarm
  /\ LET stack == WithoutHandler(Top)
     IN IF Top.at = "returned" /\ Len(stack) = Top.base + k
        THEN /\ frames' = Replace([Top EXCEPT !.at = IF Top.op = "host" THEN "done" ELSE "body",
                                              !.call = "opened", !.stack = Popped(stack, k)])
             /\ UNCHANGED throw
        ELSE /\ throw' = IF Top.at = "failed" THEN Last(Top.stack) ELSE "misaligned"
             /\ frames' = Replace([Top EXCEPT !.at = "panic", !.call = "panic"])
  /\ UNCHANGED <<disk, globals, History, Loaded>>

Next ==
  \/ \E n \in Name : Change(n) \/ HostRequire(n) \/ \E trace \in BOOLEAN : HostDofile(n, trace)
  \/ OpenSymbols \/ RequireGone \/ HostLibopen \/ HostEnd \/ Unwind \/ \E k \in 0 .. MaxStack : Settle(k)
  \/ Choose \/ Backup \/ Fallback \/ DofileEnd
  \/ CheckLoaded \/ AskPath \/ OpenPath \/ AskSymbols \/ RequireEnd
  \/ ScriptCalls \/ ScriptEnds \/ \E n \in Name : ScriptSetsLoaded(n)
  \/ NestedLibopen \/ CPush \/ CEnds \/ \E k \in 0 .. 1 : LibopenEnd(k)

Spec == Init /\ [][Next]_vars

(***************************************************************************)
(* Properties                                                              *)
(***************************************************************************)
\* What dofile and require may fail with; a script's own error is "script".
Errors == {"argument", "open", "broken", "syntax", "missing", "loop", "script"}

\* The values each variable takes.
TypeOK ==
  /\ (\A n \in Name : disk[n] \in Kinds(n))
  /\ handler \in BOOLEAN /\ safeguard \in 0 .. MaxFrames
  /\ throw \in {"none", "cfunction", "misaligned"} \cup Errors
  /\ loading \subseteq Name /\ failed \subseteq Name
  /\ Len(frames) \in 1 .. MaxFrames /\ Host.op = "host"
  /\ globals \in {[dofile |-> "stock", backup |-> "nil", loaders |-> <<"path">>],
                  [dofile |-> "override", backup |-> "stock", loaders |-> <<"path", "symbols">>]}
  /\ \A i \in 2 .. Len(frames) :
       /\ frames[i].op \in {"dofile", "require", "chunk", "cfunction"}
       /\ frames[i].op = "chunk" => frames[i - 1].from \in {"file", "embedded"}
       /\ i < Len(frames) => frames[i].at = "running"

\* Although the test for the file and its opening are steps apart: a file's
\* script runs only if the file was there at some moment of the call of dofile or
\* require, and the embedded one only if at some moment of it no file could be
\* read, and the resource can be unpacked (symbols.c:303-333, 341-368).
SourceExplained ==
  \A i \in DOMAIN frames : frames[i].op \in {"dofile", "require"} =>
    /\ frames[i].from = "file" => "file" \in frames[i].seen
    /\ frames[i].from = "embedded" =>
         /\ frames[i].seen # {"file"} /\ Resource(frames[i].name) = "good"
         /\ frames[i].op = "dofile" => "none" \in frames[i].seen

\* dofile and require fail before they have run the script only for a cause: at
\* some moment there was no file that can be read, and there is no resource, or a
\* broken one, or one that does not compile; there was a file when it was looked
\* for and it could not be opened, because it was locked or gone by then, or it
\* did not compile; or require is called for a name whose script is still under
\* way further down, or failed the last time (symbols.c:302-331, 341-367).
Looping(n) == n \in failed \/ \E i \in DOMAIN frames : Loads(frames[i]) /\ frames[i].name = n
Cause(m) ==
  LET Unreadable == Top.seen # {"file"}
      res == Resource(Top.name)
  IN CASE m = "argument" -> Top.op = "dofile" /\ Top.stack = <<>>
       [] m = "open"     -> /\ Unreadable
                            /\ Top.seen # {"none"} \/ (Top.op = "dofile" /\ res = "none")
       [] m = "syntax"   -> "file" \in Top.seen \/ (Unreadable /\ res = "garbled")
       [] m = "broken"   -> Unreadable /\ res = "broken"
       [] m = "missing"  -> Top.op = "require" /\ Unreadable /\ res = "none"
       [] m = "loop"     -> Top.op = "require" /\ Looping(Top.name)
       [] OTHER          -> FALSE
Failure == IF Top.op = "dofile" /\ Top.at = "failed" THEN Last(Top.stack) ELSE throw
LoadFailureExplained ==
  Top.op \in {"dofile", "require"} /\ Top.from = "none" /\ Failure # "none" => Cause(Failure)

\* However scripts nest, and wherever one fails, a call leaves the host exactly
\* what it documents on top of what was there before: luautils_dofile the
\* script's results or one message, luautils_require one value, also when it
\* failed in require, and libopen nothing.  The code has one exception, against
\* the comment at luautils.c:497-498: with a stack trace nil may be in the place
\* of the message, since luaStackTrace_C (luautils.c:917-947) returns nothing.
HostStackExact ==
  /\ Host.at = "done" =>
       Host.stack = before \o CASE Host.call = "luautils_dofile"  -> gave
                                [] Host.call = "luautils_require" -> <<"module">>
                                [] Host.call = "opened"           -> <<>>
  /\ Host.at = "error" =>
       IF Host.call = "getfunction" THEN Host.stack = before
       ELSE /\ Front(Host.stack) = before
            /\ Last(Host.stack) \in Errors \cup (IF Host.trace THEN {"nil"} ELSE {})

\* An exception is never recovered into a C frame that has returned, however
\* guarded calls nest: while the handler is set, lua_safeguard belongs to the
\* innermost lua_guarded_pcall under way (luautils.c:116-136).
GuardTargetLive ==
  handler => /\ safeguard \in DOMAIN frames /\ frames[safeguard].call = "libopen"
             /\ \A i \in safeguard + 1 .. Len(frames) : frames[i].call # "libopen"
===============================================================================
