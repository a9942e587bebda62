------------------------------ MODULE LuaProofs ------------------------------
(***************************************************************************)
(* The code that works on a Lua state.  ScriptLoader keeps its promises    *)
(* for all names, symbols and resources, every depth of calls and whatever *)
(* scripts call, return and raise.  What LuaTables says of the results of  *)
(* the table helpers, in the last part, holds for every set of keys and    *)
(* values, every table and every number of changes.                        *)
(***************************************************************************)
EXTENDS ScriptLoader, LuaTables, FiniteSetTheorems, SequenceTheorems, WellFoundedInduction, TLAPS

(***************************************************************************)
(* One frame                                                               *)
(***************************************************************************)
\* What a call of C functions may fail with.
CErrors == {"cfunction", "misaligned"}

\* A word is a string, which the provers do not know of each by itself.
Words ==
  STRING \cup Errors \cup CErrors
    \cup {"idle", "enter", "search", "body", "embedded", "running", "returned", "failed", "done", "error",
          "panic", "none", "backup", "loader", "call", "pcall", "opened", "libopen", "getfunction",
          "luautils_dofile", "luautils_require", "path", "symbols", "name", "value", "handler", "module",
          "nil"}

Frames == [op : {"host", "dofile", "require", "chunk", "cfunction"}, at : Words,
           name : Name \cup {"none"}, stack : Seq(Words), base : Nat, call : Words,
           from : {"none", "file", "embedded"}, trace : BOOLEAN, todo : Seq(Words),
           seen : SUBSET {"none", "file", "locked"}]

\* There was a moment without a file that can be read, and one with something.
NoFile(f)   == f.seen # {"file"}
SomeFile(f) == f.seen # {"none"}

HostCallKinds == {"luautils_dofile", "luautils_require", "libopen"}

\* Who waits for a call says which; no call of libopen is under way otherwise.
HostFrame(f) ==
  /\ f.at \in {"idle", "running", "returned", "failed", "done", "error", "panic"}
  /\ f.at \in {"running", "returned", "failed"} => f.call \in HostCallKinds
  /\ f.call = "libopen" => f.at \in {"running", "returned", "failed"}
  /\ f.seen = {}

DofileFrame(f, d) ==
  /\ f.name \in Name /\ d[f.name] \in f.seen
  /\ f.at \in {"enter", "open", "embedded", "running", "failed", "returned"}
  /\ f.call \in {"none", "backup", "embedded"}
  /\ f.at \notin {"failed", "returned"} => Len(f.stack) = f.base
  /\ f.at = "enter" => f.from = "none"
  /\ f.at = "open" => f.from = "none" /\ (Resource(f.name) = "none" \/ SomeFile(f))
  /\ f.at = "embedded" => f.from = "none" /\ Resource(f.name) # "none" /\ "none" \in f.seen
  /\ f.at = "running" => f.from # "none" /\ f.call # "none"
  /\ f.at = "failed" =>
       /\ f.stack # <<>> /\ Last(f.stack) \in Errors
       /\ f.from = "none" =>
            \/ /\ Last(f.stack) = "open" /\ NoFile(f)
               /\ Resource(f.name) = "none" \/ SomeFile(f)
            \/ Last(f.stack) = "syntax" /\ "file" \in f.seen
  /\ f.from = "file" => "file" \in f.seen
  /\ f.from = "embedded" => "none" \in f.seen /\ Resource(f.name) = "good"

RequireFrame(f, d) ==
  /\ f.name \in Name /\ d[f.name] \in f.seen
  /\ f.at \in {"enter", "search", "open", "running", "returned"}
  /\ f.call \in {"none", "loader"}
  /\ f.todo \in {<<"path", "symbols">>, <<"symbols">>, <<>>}
  /\ f.todo # <<"path", "symbols">> => NoFile(f)
  /\ f.todo = <<>> => Resource(f.name) = "none"
  /\ f.at \in {"enter", "search"} => f.from = "none" /\ f.call = "none"
  /\ f.at = "open" => f.from = "none" /\ f.call = "none" /\ SomeFile(f)
  /\ f.at = "running" => f.from # "none" /\ f.call = "loader"
  /\ f.from = "file" => "file" \in f.seen
  /\ f.from = "embedded" => NoFile(f) /\ Resource(f.name) = "good"

ChunkFrame(f) ==
  /\ f.name \in Name /\ f.seen = {}
  /\ \/ f.at = "body" /\ f.call = "none"
     \/ f.at = "running" /\ f.call \in {"call", "pcall"}

CFrame(f) ==
  /\ f.seen = {}
  /\ \/ f.at = "body" /\ f.call \in {"none", "opened"}
     \/ f.at = "panic" /\ f.call = "panic"
     \/ /\ f.at \in {"running", "returned", "failed"} /\ f.call = "libopen"
        /\ f.base < Len(f.stack)
        /\ f.at = "failed" => Last(f.stack) \in CErrors

Sound(f, d) ==
  /\ f \in Frames
  /\ f.op = "host" => HostFrame(f)
  /\ f.op = "dofile" => DofileFrame(f, d)
  /\ f.op = "require" => RequireFrame(f, d)
  /\ f.op = "chunk" => ChunkFrame(f)
  /\ f.op = "cfunction" => CFrame(f)

(***************************************************************************)
(* The stack of calls                                                      *)
(***************************************************************************)
\* f waits for g: scripts are run by dofile and require, and by them alone; C
\* functions by libopen alone.
Waits(f, g) ==
  /\ f.at = "running" /\ g.op # "host"
  /\ g.op = "chunk" <=> f.op \in {"dofile", "require"}
  /\ g.op = "cfunction" <=> f.call = "libopen"

\* C functions and scripts do not call each other.
Calls(fs, d) ==
  /\ fs \in Seq(Frames) /\ Len(fs) \in 1 .. MaxFrames /\ fs[1].op = "host"
  /\ \A i \in 1 .. Len(fs) : Sound(fs[i], d)
  /\ \A i \in 2 .. Len(fs) : Waits(fs[i - 1], fs[i])
  /\ \A i \in 2 .. Len(fs) : fs[i].op = "cfunction" <=> fs[1].call = "libopen"

(***************************************************************************)
(* The invariant                                                           *)
(***************************************************************************)
States ==
  /\ disk \in [Name -> {"none", "file", "locked"}] /\ \A n \in Name : disk[n] \in Kinds(n)
  /\ handler \in BOOLEAN /\ safeguard \in 0 .. MaxFrames
  /\ throw \in {"none"} \cup Errors \cup CErrors
  /\ before \in Seq(Words) /\ gave \in Seq(Words)
  /\ globals \in {[dofile |-> "stock", backup |-> "nil", loaders |-> <<"path">>],
                  [dofile |-> "override", backup |-> "stock", loaders |-> <<"path", "symbols">>]}
  /\ Len(frames) > 1 => globals.dofile = "override"

\* What the host's call has left on its stack so far.
Messages(h) == IF h.call = "libopen" THEN CErrors ELSE IF h.trace THEN {"nil"} ELSE Errors
Left(h, v) ==
  /\ h.at = "running" => v = <<>>
  /\ h.at = "returned" /\ h.call = "luautils_dofile" => v = gave
  /\ h.at = "returned" /\ h.call = "luautils_require" => v = <<"module">>
  /\ h.at = "failed" => \E m \in Messages(h) : v = <<m>>

\* The host waits for the call it made; its stack is what it was, the handler,
\* and what the call has left.
HostWaits ==
  /\ Len(frames) > 1 <=> Host.at = "running"
  /\ Host.at \in {"running", "returned", "failed"} =>
       /\ Host.base = Len(before)
       /\ Host.call = "luautils_require" => ~Host.trace
       /\ Host.call = "libopen" => Host.trace
       /\ \E v \in Seq(Words) :
            /\ Host.stack = (before \o (IF Host.trace THEN <<"handler">> ELSE <<>>)) \o v
            /\ Left(Host, v)

\* The host's call itself, and what it is about to return.
Outermost ==
  Len(frames) > 1 =>
    /\ Host.call = "luautils_dofile" =>
         /\ frames[2].op = "dofile"
         /\ frames[2].at = "returned" => DofileResults(frames[2]) = gave
    /\ Host.call = "luautils_require" => frames[2].op = "require"

\* An error goes to whoever waits for it: scripts never see one of C functions.
Thrown ==
  throw # "none" =>
    /\ Top.call # "libopen"
    /\ IF Len(frames) = 1 THEN Host.call = "panic"
       ELSE throw \in (IF Host.call = "libopen" THEN CErrors ELSE Errors)

\* A failure to load is explained by what the call has seen of the file, but for
\* the error about a loop.
Reason ==
  Top.op \in {"dofile", "require"} /\ Top.from = "none" /\ Failure # "none" =>
    IF Failure = "loop" THEN Top.op = "require" ELSE Cause(Failure)

IInv == /\ States /\ Calls(frames, disk) /\ HostWaits /\ Outermost /\ Thrown
        /\ Reason /\ HostStackExact /\ GuardTargetLive

(***************************************************************************)
(* Sequences                                                               *)
(***************************************************************************)
LEMMA FrontIs ==
  ASSUME NEW S, NEW s \in Seq(S), Len(s) >= 1
  PROVE  /\ Front(s) \in Seq(S) /\ Len(Front(s)) = Len(s) - 1
         /\ \A i \in 1 .. Len(s) - 1 : Front(s)[i] = s[i]
<1>1. Len(s) \in Nat /\ \A i \in 1 .. Len(s) - 1 : s[i] \in S
  BY ElementOfSeq
<1> DEFINE n == Len(s) - 1
<1>2. n \in Int /\ n >= 0 /\ \A i \in 1 .. n : s[i] \in S
  BY <1>1
<1> HIDE DEF n
<1>3. /\ SubSeq(s, 1, n) \in Seq(S)
      /\ Len(SubSeq(s, 1, n)) = IF 1 <= n THEN n - 1 + 1 ELSE 0
      /\ \A i \in 1 .. n - 1 + 1 : SubSeq(s, 1, n)[i] = s[1 + i - 1]
  BY <1>2, SubSeqProperties
<1>4. Len(SubSeq(s, 1, n)) = n /\ \A i \in 1 .. n : SubSeq(s, 1, n)[i] = s[i]
  BY <1>2, <1>3
<1> QED
  BY <1>3, <1>4 DEF Front, n

\* The last element replaced by another.
LEMMA SwapIs ==
  ASSUME NEW S, NEW s \in Seq(S), Len(s) >= 1, NEW e \in S
  PROVE  /\ Append(Front(s), e) \in Seq(S) /\ Len(Append(Front(s), e)) = Len(s)
         /\ \A i \in 1 .. Len(s) - 1 : Append(Front(s), e)[i] = s[i]
         /\ Append(Front(s), e)[Len(s)] = e
<1>1. /\ Front(s) \in Seq(S) /\ Len(Front(s)) = Len(s) - 1
      /\ \A i \in 1 .. Len(s) - 1 : Front(s)[i] = s[i]
      /\ Len(s) \in Nat
  BY FrontIs
<1> QED
  BY <1>1, AppendProperties

\* A value more.
LEMMA OneMore ==
  ASSUME NEW S, NEW s \in Seq(S), NEW e \in S
  PROVE  /\ s \o <<e>> \in Seq(S) /\ Len(s \o <<e>>) = Len(s) + 1
         /\ s \o <<e>> # <<>> /\ Last(s \o <<e>>) = e
         /\ s \o <<e>> = Append(s, e)
<1>1. s \o <<e>> = Append(s, e)
  BY AppendIsConcat
<1>2. /\ Append(s, e) \in Seq(S) /\ Len(Append(s, e)) = Len(s) + 1
      /\ Append(s, e)[Len(s) + 1] = e /\ Append(s, e) # <<>>
  BY AppendProperties
<1> QED
  BY <1>1, <1>2 DEF Last

\* The same of Append.
LEMMA AppendIs ==
  ASSUME NEW S, NEW s \in Seq(S), NEW e \in S
  PROVE  Append(s, e) \in Seq(S) /\ Append(s, e) # <<>> /\ Last(Append(s, e)) = e
BY OneMore

\* The part of a concatenation behind the first sequence.
LEMMA BehindIs ==
  ASSUME NEW S, NEW s \in Seq(S), NEW t \in Seq(S)
  PROVE  SubSeq(s \o t, Len(s) + 1, Len(s \o t)) = t
BY SubSeqOfConcat2, ConcatProperties, SubSeqFull

(***************************************************************************)
(* Changing the stack of calls                                             *)
(***************************************************************************)
\* The last frame changes.
LEMMA SwapCalls ==
  ASSUME NEW d, NEW fs, Calls(fs, d), NEW f, Sound(f, d), f.op = Last(fs).op
  PROVE  /\ Calls(Append(Front(fs), f), d) /\ Len(Append(Front(fs), f)) = Len(fs)
         /\ \A i \in 1 .. Len(fs) - 1 : Append(Front(fs), f)[i] = fs[i]
         /\ Append(Front(fs), f)[Len(fs)] = f
<1> DEFINE gs == Append(Front(fs), f)
           n == Len(fs)
<1>1. /\ fs \in Seq(Frames) /\ n \in 1 .. MaxFrames /\ fs[1].op = "host" /\ f \in Frames
      /\ \A i \in 1 .. n : Sound(fs[i], d)
      /\ \A i \in 2 .. n : Waits(fs[i - 1], fs[i])
      /\ \A i \in 2 .. n : fs[i].op = "cfunction" <=> fs[1].call = "libopen"
      /\ f.op = fs[n].op
  BY DEF Calls, Sound, Last
<1>2. /\ gs \in Seq(Frames) /\ Len(gs) = n /\ gs[n] = f
      /\ \A i \in 1 .. n - 1 : gs[i] = fs[i]
  BY <1>1, SwapIs, LoaderAssumption
<1> HIDE DEF gs, n
<1>3. n \in Nat /\ \A i \in 1 .. n : i \in 1 .. n - 1 \/ i = n
  BY <1>1, LoaderAssumption
<1>4. \A i \in 1 .. n : gs[i].op = fs[i].op /\ Sound(gs[i], d)
  BY <1>1, <1>2, <1>3
<1>5. ASSUME NEW i \in 2 .. n PROVE Waits(gs[i - 1], gs[i])
  <2>1. i - 1 \in 1 .. n - 1 /\ i \in 1 .. n
    BY <1>3
  <2> QED
    BY <1>1, <1>2, <1>4, <2>1 DEF Waits
<1>6. gs[1].op = "host"
  BY <1>1, <1>3, <1>4
<1>7. ASSUME NEW i \in 2 .. n PROVE gs[i].op = "cfunction" <=> gs[1].call = "libopen"
  BY <1>1, <1>2, <1>3, <1>4
<1>8. Calls(gs, d)
  BY <1>1, <1>2, <1>4, <1>5, <1>6, <1>7 DEF Calls
<1> QED
  BY <1>2, <1>8 DEF gs, n

\* The last frame goes.
LEMMA DropCalls ==
  ASSUME NEW d, NEW fs, Calls(fs, d), Len(fs) > 1
  PROVE  /\ Calls(Front(fs), d) /\ Len(Front(fs)) = Len(fs) - 1
         /\ \A i \in 1 .. Len(fs) - 1 : Front(fs)[i] = fs[i]
         /\ Last(Front(fs)) = fs[Len(fs) - 1]
<1> DEFINE gs == Front(fs)
           n == Len(fs)
<1>1. /\ fs \in Seq(Frames) /\ n \in 1 .. MaxFrames /\ fs[1].op = "host" /\ n > 1
      /\ \A i \in 1 .. n : Sound(fs[i], d)
      /\ \A i \in 2 .. n : Waits(fs[i - 1], fs[i])
      /\ \A i \in 2 .. n : fs[i].op = "cfunction" <=> fs[1].call = "libopen"
  BY DEF Calls
<1>2. gs \in Seq(Frames) /\ Len(gs) = n - 1 /\ \A i \in 1 .. n - 1 : gs[i] = fs[i]
  BY <1>1, FrontIs, LoaderAssumption
<1> HIDE DEF gs, n
<1>3. n \in Nat /\ n - 1 \in 1 .. MaxFrames /\ 1 \in 1 .. n - 1
  BY <1>1, LoaderAssumption
<1>4. ASSUME NEW i \in 2 .. n - 1 PROVE Waits(gs[i - 1], gs[i])
  <2>1. i - 1 \in 1 .. n - 1 /\ i \in 1 .. n - 1 /\ i \in 2 .. n
    BY <1>3
  <2> QED
    BY <1>1, <1>2, <2>1
<1>5. Calls(gs, d)
  <2>1. \A i \in 1 .. n - 1 : i \in 1 .. n
    BY <1>3
  <2>2. \A i \in 1 .. n - 1 : Sound(gs[i], d)
    BY <1>1, <1>2, <2>1
  <2>3. \A i \in 2 .. n - 1 : i \in 1 .. n - 1 /\ i \in 2 .. n
    BY <1>3
  <2>4. \A i \in 2 .. n - 1 : gs[i].op = "cfunction" <=> gs[1].call = "libopen"
    BY <1>1, <1>2, <1>3, <2>3
  <2> QED
    BY <1>1, <1>2, <1>3, <1>4, <2>2, <2>4 DEF Calls
<1>6. Last(gs) = fs[n - 1]
  BY <1>2, <1>3 DEF Last
<1> QED
  BY <1>2, <1>5, <1>6 DEF gs, n

\* A frame comes on top, for which the last one waits.
LEMMA AddCalls ==
  ASSUME NEW d, NEW fs, Calls(fs, d), Len(fs) < MaxFrames,
         NEW g, Sound(g, d), Waits(fs[Len(fs)], g)
  PROVE  /\ Calls(Append(fs, g), d) /\ Len(Append(fs, g)) = Len(fs) + 1
         /\ \A i \in 1 .. Len(fs) : Append(fs, g)[i] = fs[i]
         /\ Append(fs, g)[Len(fs) + 1] = g
<1> DEFINE gs == Append(fs, g)
           n == Len(fs)
<1>1. /\ fs \in Seq(Frames) /\ n \in 1 .. MaxFrames /\ fs[1].op = "host" /\ n < MaxFrames
      /\ \A i \in 1 .. n : Sound(fs[i], d)
      /\ \A i \in 2 .. n : Waits(fs[i - 1], fs[i])
      /\ \A i \in 2 .. n : fs[i].op = "cfunction" <=> fs[1].call = "libopen"
      /\ Waits(fs[n], g) /\ g \in Frames
  BY DEF Calls, Sound
<1>2. /\ gs \in Seq(Frames) /\ Len(gs) = n + 1 /\ gs[n + 1] = g
      /\ \A i \in 1 .. n : gs[i] = fs[i]
  BY <1>1, AppendProperties
<1> HIDE DEF gs, n
<1>3. /\ n \in Nat /\ n + 1 \in 1 .. MaxFrames /\ 1 \in 1 .. n /\ n \in 1 .. n
      /\ \A i \in 1 .. n + 1 : i \in 1 .. n \/ i = n + 1
      /\ \A i \in 2 .. n + 1 : i \in 2 .. n \/ i = n + 1
  BY <1>1, LoaderAssumption
<1>4. ASSUME NEW i \in 2 .. n + 1 PROVE Waits(gs[i - 1], gs[i])
  <2>1. CASE i \in 2 .. n
    <3>1. i - 1 \in 1 .. n /\ i \in 1 .. n
      BY <1>3, <2>1
    <3> QED
      BY <1>1, <1>2, <2>1, <3>1
  <2>2. CASE i = n + 1
    <3>1. i - 1 = n
      BY <1>3, <2>2
    <3> QED
      BY <1>1, <1>2, <1>3, <2>2, <3>1
  <2> QED
    BY <1>3, <2>1, <2>2
<1>5. g.op = "cfunction" <=> fs[1].call = "libopen"
  <2>1. CASE n = 1
    BY <1>1, <2>1 DEF Waits
  <2>2. CASE n # 1
    <3>1. n \in 2 .. n
      BY <1>3, <2>2
    <3>2. Waits(fs[n - 1], fs[n]) /\ Sound(fs[n], d)
      BY <1>1, <1>3, <3>1
    <3>3. fs[n].at = "running" /\ fs[n].op # "host" /\ (g.op = "cfunction" <=> fs[n].call = "libopen")
      BY <1>1, <3>2 DEF Waits
    <3>4. fs[n].call = "libopen" <=> fs[n].op = "cfunction"
      BY <3>2, <3>3 DEF Sound, Frames, DofileFrame, RequireFrame, ChunkFrame, CFrame
    <3> QED
      BY <1>1, <3>1, <3>3, <3>4
  <2> QED
    BY <2>1, <2>2
<1>6. \A i \in 2 .. n + 1 : gs[i].op = "cfunction" <=> gs[1].call = "libopen"
  <2>1. \A i \in 2 .. n : i \in 1 .. n
    BY <1>3
  <2> QED
    BY <1>1, <1>2, <1>3, <1>5, <2>1
<1>7. Calls(gs, d)
  BY <1>1, <1>2, <1>3, <1>4, <1>6 DEF Calls
<1> QED
  BY <1>2, <1>7 DEF gs, n

\* The last frame changes, and a new one comes on top.
LEMMA PushCalls ==
  ASSUME NEW d, NEW fs, Calls(fs, d), Len(fs) < MaxFrames,
         NEW p, Sound(p, d), p.op = Last(fs).op, NEW g, Sound(g, d), Waits(p, g)
  PROVE  LET gs == Append(Append(Front(fs), p), g)
         IN /\ Calls(gs, d) /\ Len(gs) = Len(fs) + 1
            /\ \A i \in 1 .. Len(fs) - 1 : gs[i] = fs[i]
            /\ gs[Len(fs)] = p /\ gs[Len(fs) + 1] = g
<1> DEFINE hs == Append(Front(fs), p)
<1>1. Len(fs) \in Nat /\ Len(fs) >= 1
  BY LoaderAssumption DEF Calls
<1>2. /\ Calls(hs, d) /\ Len(hs) = Len(fs) /\ hs[Len(fs)] = p
      /\ \A i \in 1 .. Len(fs) - 1 : hs[i] = fs[i]
  BY SwapCalls
<1> HIDE DEF hs
<1>3. /\ Calls(Append(hs, g), d) /\ Len(Append(hs, g)) = Len(fs) + 1
      /\ \A i \in 1 .. Len(fs) : Append(hs, g)[i] = hs[i]
      /\ Append(hs, g)[Len(fs) + 1] = g
  BY <1>2, AddCalls
<1> QED
  BY <1>1, <1>2, <1>3 DEF hs

\* The last frame goes, and the one that waited for it changes.
LEMMA PopCalls ==
  ASSUME NEW d, NEW fs, Calls(fs, d), Len(fs) > 1,
         NEW p, Sound(p, d), p.op = Last(Front(fs)).op
  PROVE  LET gs == Append(Front(Front(fs)), p)
         IN /\ Calls(gs, d) /\ Len(gs) = Len(fs) - 1
            /\ \A i \in 1 .. Len(fs) - 2 : gs[i] = fs[i]
            /\ gs[Len(fs) - 1] = p
<1> DEFINE hs == Front(fs)
<1>1. Len(fs) \in Nat
  BY LoaderAssumption DEF Calls
<1>2. /\ Calls(hs, d) /\ Len(hs) = Len(fs) - 1
      /\ \A i \in 1 .. Len(fs) - 1 : hs[i] = fs[i]
  BY DropCalls
<1> HIDE DEF hs
<1>3. /\ Calls(Append(Front(hs), p), d) /\ Len(Append(Front(hs), p)) = Len(hs)
      /\ \A i \in 1 .. Len(hs) - 1 : Append(Front(hs), p)[i] = hs[i]
      /\ Append(Front(hs), p)[Len(hs)] = p
  BY <1>2, SwapCalls DEF hs
<1> QED
  BY <1>1, <1>2, <1>3 DEF hs

(***************************************************************************)
(* What a step that is not the host's leaves alone                         *)
(***************************************************************************)
\* A frame other than the host's is on top of one that waits for it.
LEMMA TopIs ==
  ASSUME Calls(frames, disk)
  PROVE  /\ Len(frames) \in Nat /\ Len(frames) >= 1 /\ Len(frames) <= MaxFrames
         /\ Top = frames[Len(frames)] /\ Sound(Top, disk) /\ Host.op = "host"
         /\ Sound(Host, disk) /\ (Top.op # "host" <=> Len(frames) > 1)
         /\ Len(frames) > 1 =>
              /\ Last(Front(frames)) = frames[Len(frames) - 1]
              /\ Sound(frames[Len(frames) - 1], disk)
              /\ Waits(frames[Len(frames) - 1], Top)
<1> DEFINE n == Len(frames)
<1>1. /\ n \in 1 .. MaxFrames /\ frames[1].op = "host"
      /\ \A i \in 1 .. n : Sound(frames[i], disk)
      /\ \A i \in 2 .. n : Waits(frames[i - 1], frames[i])
  BY DEF Calls
<1>2. n > 1 => Last(Front(frames)) = frames[n - 1]
  BY DropCalls
<1> HIDE DEF n
<1>3. n \in Nat /\ n >= 1 /\ n <= MaxFrames /\ 1 \in 1 .. n /\ n \in 1 .. n
  BY <1>1, LoaderAssumption
<1>4. Top = frames[n]
  BY DEF Top, Last, n
<1>5. n > 1 => n - 1 \in 1 .. n /\ n \in 2 .. n
  BY <1>3
<1>6. n > 1 => Waits(frames[n - 1], frames[n])
  BY <1>1, <1>5
<1>7. n > 1 <=> frames[n].op # "host"
  BY <1>1, <1>3, <1>6 DEF Waits
<1> QED
  BY <1>1, <1>2, <1>3, <1>4, <1>5, <1>6, <1>7 DEF n, Host

\* While a call is under way its caller waits.
LEMMA HostKept ==
  ASSUME HostWaits, Len(frames) > 1, Len(frames') > 1, frames'[1] = frames[1], before' = before
  PROVE  HostWaits' /\ HostStackExact'
<1>1. Host' = Host /\ Host.at = "running"
  BY DEF HostWaits, Host
<1>2. HostStackExact'
  BY <1>1 DEF HostStackExact
<1>3. PICK v \in Seq(Words) :
        /\ Host.stack = (before \o (IF Host.trace THEN <<"handler">> ELSE <<>>)) \o v
        /\ Left(Host, v)
  BY <1>1 DEF HostWaits
<1>4. Left(Host, v)'
  BY <1>1, <1>3 DEF Left
<1>5. HostWaits'
  BY <1>1, <1>3, <1>4 DEF HostWaits
<1> QED
  BY <1>2, <1>5

\* Without an error under way, only what the last frame records is to explain.
Quiet == Calls(frames, disk) /\ throw = "none"

\* What an undisturbed call records explains its failure.
LEMMA QuietReason == Quiet => Reason
<1> SUFFICES ASSUME Calls(frames, disk), throw = "none" PROVE Reason
  BY DEF Quiet
<1>1. Sound(Top, disk)
  BY TopIs
<1>2. Top.op = "dofile" /\ Top.from = "none" /\ Top.at = "failed" =>
        \/ /\ Last(Top.stack) = "open" /\ NoFile(Top)
           /\ Resource(Top.name) = "none" \/ SomeFile(Top)
        \/ Last(Top.stack) = "syntax" /\ "file" \in Top.seen
  BY <1>1 DEF Sound, DofileFrame
<1> QED
  BY <1>2 DEF Reason, Failure, Cause, NoFile, SomeFile

\* The same of the next state.
LEMMA QuietReasonNext == Quiet' => Reason'
BY QuietReason, PTL

\* The exception handler belongs to the same frame when nothing is done to it.
LEMMA GuardKept ==
  ASSUME GuardTargetLive, UNCHANGED Guard, safeguard \in Nat,
         Calls(frames, disk), Calls(frames, disk)', NEW m \in Nat, m <= Len(frames), m <= Len(frames'),
         \A i \in 1 .. m : frames'[i].call = "libopen" <=> frames[i].call = "libopen",
         \A i \in m + 1 .. Len(frames) : frames[i].call # "libopen",
         \A i \in m + 1 .. Len(frames') : frames'[i].call # "libopen"
  PROVE  GuardTargetLive'
<1> SUFFICES ASSUME handler'
             PROVE  /\ safeguard' \in DOMAIN frames' /\ frames'[safeguard'].call = "libopen"
                    /\ \A i \in safeguard' + 1 .. Len(frames') : frames'[i].call # "libopen"
  BY DEF GuardTargetLive
<1>1. /\ frames \in Seq(Frames) /\ frames' \in Seq(Frames)
      /\ Len(frames) \in Nat /\ Len(frames') \in Nat
  BY LoaderAssumption DEF Calls
<1>2. DOMAIN frames = 1 .. Len(frames) /\ DOMAIN frames' = 1 .. Len(frames')
  BY <1>1, LenProperties
<1>3. /\ handler /\ safeguard' = safeguard /\ safeguard \in 1 .. Len(frames)
      /\ frames[safeguard].call = "libopen"
      /\ \A i \in safeguard + 1 .. Len(frames) : frames[i].call # "libopen"
  BY <1>2 DEF Guard, GuardTargetLive
<1>4. safeguard \in 1 .. m
  BY <1>1, <1>3
<1>5. safeguard \in 1 .. Len(frames') /\ frames'[safeguard].call = "libopen"
  BY <1>1, <1>3, <1>4
<1>6. ASSUME NEW i \in safeguard + 1 .. Len(frames') PROVE frames'[i].call # "libopen"
  <2>1. CASE i <= m
    <3>1. i \in 1 .. m /\ i \in safeguard + 1 .. Len(frames)
      BY <1>1, <1>4, <2>1
    <3> QED
      BY <1>3, <3>1
  <2>2. CASE ~(i <= m)
    <3>1. i \in m + 1 .. Len(frames')
      BY <1>1, <1>4, <2>2
    <3> QED
      BY <3>1
  <2> QED
    BY <2>1, <2>2
<1> QED
  BY <1>2, <1>3, <1>5, <1>6

(***************************************************************************)
(* The frames after a step                                                 *)
(***************************************************************************)
LEMMA Changed ==
  ASSUME Calls(frames, disk), Len(frames) > 1, NEW f, Sound(f, disk), f.op = Top.op,
         frames' = Replace(f), disk' = disk
  PROVE  /\ Calls(frames, disk)' /\ Len(frames') = Len(frames)
         /\ \A i \in 1 .. Len(frames) - 1 : frames'[i] = frames[i]
         /\ frames'[Len(frames)] = f /\ frames'[1] = frames[1]
<1>1. /\ Calls(frames', disk) /\ Len(frames') = Len(frames)
      /\ \A i \in 1 .. Len(frames) - 1 : frames'[i] = frames[i]
      /\ frames'[Len(frames)] = f
  BY SwapCalls DEF Replace, Top
<1>2. Calls(frames, disk)'
  <2>1. Calls(frames', disk')
    BY <1>1, Zenon
  <2> QED
    BY <2>1, Zenon
<1>3. 1 \in 1 .. Len(frames) - 1
  <2>1. Len(frames) \in Nat
    BY TopIs
  <2> QED
    BY <2>1
<1> QED
  BY <1>1, <1>2, <1>3, Zenon

\* A frame comes on top.
LEMMA Stacked ==
  ASSUME Calls(frames, disk), Len(frames) > 1, Len(frames) < MaxFrames,
         NEW p, Sound(p, disk), p.op = Top.op,
         NEW g, Sound(g, disk), Waits(p, g), frames' = Append(Replace(p), g), disk' = disk
  PROVE  /\ Calls(frames, disk)' /\ Len(frames') = Len(frames) + 1
         /\ \A i \in 1 .. Len(frames) - 1 : frames'[i] = frames[i]
         /\ frames'[Len(frames)] = p /\ frames'[Len(frames) + 1] = g /\ frames'[1] = frames[1]
<1>1. /\ Calls(frames', disk) /\ Len(frames') = Len(frames) + 1
      /\ \A i \in 1 .. Len(frames) - 1 : frames'[i] = frames[i]
      /\ frames'[Len(frames)] = p /\ frames'[Len(frames) + 1] = g
  BY PushCalls DEF Replace, Top
<1>2. Calls(frames, disk)'
  <2>1. Calls(frames', disk')
    BY <1>1, Zenon
  <2> QED
    BY <2>1, Zenon
<1>3. 1 \in 1 .. Len(frames) - 1
  <2>1. Len(frames) \in Nat
    BY TopIs
  <2> QED
    BY <2>1
<1> QED
  BY <1>1, <1>2, <1>3, Zenon

\* The last frame goes.
LEMMA Unstacked ==
  ASSUME Calls(frames, disk), Len(frames) > 1, NEW p, Sound(p, disk),
         p.op = Last(Front(frames)).op, frames' = Append(Front(Front(frames)), p), disk' = disk
  PROVE  /\ Calls(frames, disk)' /\ Len(frames') = Len(frames) - 1
         /\ \A i \in 1 .. Len(frames) - 2 : frames'[i] = frames[i]
         /\ frames'[Len(frames) - 1] = p
         /\ Len(frames) > 2 => frames'[1] = frames[1]
<1>1. /\ Calls(frames', disk) /\ Len(frames') = Len(frames) - 1
      /\ \A i \in 1 .. Len(frames) - 2 : frames'[i] = frames[i]
      /\ frames'[Len(frames) - 1] = p
  BY PopCalls
<1>2. Calls(frames, disk)'
  <2>1. Calls(frames', disk')
    BY <1>1, Zenon
  <2> QED
    BY <2>1, Zenon
<1>3. Len(frames) > 2 => 1 \in 1 .. Len(frames) - 2
  <2>1. Len(frames) \in Nat
    BY TopIs
  <2> QED
    BY <2>1
<1> QED
  BY <1>1, <1>2, <1>3, Zenon

\* What holds after any step in which the host's call goes on, without an error.
LEMMA InsideKept ==
  ASSUME States, HostWaits, Len(frames) > 1, Len(frames') > 1, frames'[1] = frames[1],
         Calls(frames, disk)', UNCHANGED <<disk, globals, before>>, gave' \in Seq(Words),
         handler' \in BOOLEAN, safeguard' \in 0 .. MaxFrames, throw' = "none"
  PROVE  States' /\ HostWaits' /\ HostStackExact' /\ Thrown' /\ Reason'
<1>1. States'
  BY DEF States
<1>2. HostWaits' /\ HostStackExact'
  BY HostKept
<1>3. Thrown'
  BY DEF Thrown
<1>4. Reason'
  BY QuietReasonNext DEF Quiet
<1> QED
  BY <1>1, <1>2, <1>3, <1>4

\* The host's call stays what it is, and so does what it is about to return, unless it
\* is the one that changes.
LEMMA OutermostKept ==
  ASSUME Outermost, Len(frames) > 1, frames'[1] = frames[1],
         frames'[2].op = frames[2].op,
         Host.call = "luautils_dofile" /\ frames'[2].at = "returned" =>
           DofileResults(frames'[2]) = gave'
  PROVE  Outermost'
<1>1. Host' = Host
  BY DEF Host
<1>2. DofileResults(frames[2])' = DofileResults(frames'[2])
  BY DEF DofileResults
<1> QED
  BY <1>1, <1>2 DEF Outermost

\* The last frame changes what it records.
LEMMA SwapKeeps ==
  ASSUME IInv, throw = "none", Top.op # "host", Top.call # "libopen",
         NEW f, Sound(f, disk), f.op = Top.op, f.call # "libopen", f.at # "returned",
         frames' = Replace(f), UNCHANGED <<disk, globals, throw, Guard, History>>
  PROVE  IInv'
<1>1. /\ Calls(frames, disk) /\ States /\ HostWaits /\ Outermost /\ GuardTargetLive
      /\ gave \in Seq(Words) /\ safeguard \in 0 .. MaxFrames
      /\ handler \in BOOLEAN
  BY DEF IInv, States
<1>2. /\ disk' = disk /\ throw' = "none" /\ before' = before /\ gave' = gave /\ globals' = globals
      /\ UNCHANGED Guard /\ handler' = handler /\ safeguard' = safeguard
  BY DEF History, Guard
<1>3. /\ Len(frames) \in Nat /\ Len(frames) > 1 /\ Len(frames) <= MaxFrames
      /\ Top = frames[Len(frames)]
  BY <1>1, TopIs
<1>4. /\ Calls(frames, disk)' /\ Len(frames') = Len(frames)
      /\ \A i \in 1 .. Len(frames) - 1 : frames'[i] = frames[i]
      /\ frames'[Len(frames)] = f /\ frames'[1] = frames[1]
  BY <1>1, <1>2, <1>3, Changed
<1>5. States' /\ HostWaits' /\ HostStackExact' /\ Thrown' /\ Reason'
  BY <1>1, <1>2, <1>3, <1>4, InsideKept
<1>6. frames'[2].op = frames[2].op /\ (frames'[2].at = "returned" => frames'[2] = frames[2])
  BY <1>3, <1>4
<1>7. Host.call = "luautils_dofile" /\ frames'[2].at = "returned" => DofileResults(frames'[2]) = gave'
  BY <1>1, <1>2, <1>3, <1>6 DEF Outermost
<1>8. Outermost'
  BY <1>1, <1>3, <1>4, <1>6, <1>7, OutermostKept
<1>9. GuardTargetLive'
  <2>1. \A i \in 1 .. Len(frames) : frames'[i].call = "libopen" <=> frames[i].call = "libopen"
    BY <1>3, <1>4
  <2>2. \A i \in Len(frames) + 1 .. Len(frames) : FALSE
    BY <1>3
  <2>3. safeguard \in Nat
    BY <1>1, LoaderAssumption
  <2> QED
    BY <1>1, <1>2, <1>3, <1>4, <2>1, <2>2, <2>3, GuardKept
<1> QED
  BY <1>4, <1>5, <1>8, <1>9 DEF IInv

\* The last frame makes a call.
LEMMA PushKeeps ==
  ASSUME IInv, throw = "none", Top.op # "host", Top.call # "libopen", Len(frames) < MaxFrames,
         NEW p, Sound(p, disk), p.op = Top.op, p.call # "libopen",
         NEW g, Sound(g, disk), g.call # "libopen", Waits(p, g),
         frames' = Append(Replace(p), g), UNCHANGED <<disk, globals, throw, Guard, History>>
  PROVE  IInv'
<1>1. /\ Calls(frames, disk) /\ States /\ HostWaits /\ Outermost /\ GuardTargetLive
      /\ gave \in Seq(Words) /\ safeguard \in 0 .. MaxFrames
      /\ handler \in BOOLEAN
  BY DEF IInv, States
<1>2. /\ disk' = disk /\ throw' = "none" /\ before' = before /\ gave' = gave /\ globals' = globals
      /\ UNCHANGED Guard /\ handler' = handler /\ safeguard' = safeguard
  BY DEF History, Guard
<1>3. /\ Len(frames) \in Nat /\ Len(frames) > 1 /\ Len(frames) <= MaxFrames
      /\ Top = frames[Len(frames)]
  BY <1>1, TopIs
<1>4. /\ Calls(frames, disk)' /\ Len(frames') = Len(frames) + 1
      /\ \A i \in 1 .. Len(frames) - 1 : frames'[i] = frames[i]
      /\ frames'[Len(frames)] = p /\ frames'[Len(frames) + 1] = g /\ frames'[1] = frames[1]
  BY <1>1, <1>2, <1>3, Stacked
<1>5. States' /\ HostWaits' /\ HostStackExact' /\ Thrown' /\ Reason'
  <2>1. Len(frames') > 1
    BY <1>3, <1>4
  <2> QED
    BY <1>1, <1>2, <1>3, <1>4, <2>1, InsideKept
<1>6. frames'[2].op = frames[2].op /\ (frames'[2].at = "returned" => frames'[2] = frames[2])
  <2>1. p.at # "returned"
    BY DEF Waits
  <2> QED
    BY <1>3, <1>4, <2>1
<1>7. Host.call = "luautils_dofile" /\ frames'[2].at = "returned" => DofileResults(frames'[2]) = gave'
  BY <1>1, <1>2, <1>3, <1>6 DEF Outermost
<1>8. Outermost'
  BY <1>1, <1>3, <1>4, <1>6, <1>7, OutermostKept
<1>9. GuardTargetLive'
  <2>1. \A i \in 1 .. Len(frames) : frames'[i].call = "libopen" <=> frames[i].call = "libopen"
    BY <1>3, <1>4
  <2>2. \A i \in Len(frames) + 1 .. Len(frames) : FALSE
    BY <1>3
  <2>3. \A i \in Len(frames) + 1 .. Len(frames') : frames'[i].call # "libopen"
    BY <1>3, <1>4
  <2>4. safeguard \in Nat /\ Len(frames) <= Len(frames')
    BY <1>1, <1>3, <1>4, LoaderAssumption
  <2> QED
    BY <1>1, <1>2, <1>3, <1>4, <2>1, <2>2, <2>3, <2>4, GuardKept
<1> QED
  BY <1>4, <1>5, <1>8, <1>9 DEF IInv

\* With more than three frames the second is not among the last two.
LEMMA SecondKept ==
  ASSUME NEW n \in Nat, n > 2, n # 3
  PROVE  2 \in 1 .. n - 2
OBVIOUS

\* The last frame ends, one that another script or C function waited for.
LEMMA PopKeeps ==
  ASSUME IInv, throw' = "none", Len(frames) > 2, Top.call # "libopen",
         NEW p, Sound(p, disk), p.op = Last(Front(frames)).op,
         p.call = "libopen" <=> Last(Front(frames)).call = "libopen",
         frames' = Append(Front(Front(frames)), p),
         UNCHANGED <<disk, globals, Guard, before>>, gave' \in Seq(Words),
         Len(frames) # 3 => gave' = gave,
         Len(frames) = 3 /\ Host.call = "luautils_dofile" /\ p.at = "returned" =>
           DofileResults(p) = gave'
  PROVE  IInv'
<1>1. /\ Calls(frames, disk) /\ States /\ HostWaits /\ Outermost /\ GuardTargetLive
      /\ safeguard \in 0 .. MaxFrames
      /\ handler \in BOOLEAN
  BY DEF IInv, States
<1>2. /\ disk' = disk /\ before' = before /\ globals' = globals /\ UNCHANGED Guard
      /\ handler' = handler /\ safeguard' = safeguard
  BY DEF Guard
<1>3. /\ Len(frames) \in Nat /\ Len(frames) > 1 /\ Top = frames[Len(frames)]
      /\ Last(Front(frames)) = frames[Len(frames) - 1]
  <2>1. Len(frames) \in Nat /\ Top = frames[Len(frames)]
    BY <1>1, TopIs
  <2>2. Len(frames) > 1
    BY <2>1
  <2> QED
    BY <1>1, <2>1, <2>2, TopIs
<1>4. /\ Calls(frames, disk)' /\ Len(frames') = Len(frames) - 1
      /\ \A i \in 1 .. Len(frames) - 2 : frames'[i] = frames[i]
      /\ frames'[Len(frames) - 1] = p /\ frames'[1] = frames[1]
  BY <1>1, <1>2, <1>3, Unstacked
<1>5. States' /\ HostWaits' /\ HostStackExact' /\ Thrown' /\ Reason'
  <2>1. Len(frames') > 1
    BY <1>3, <1>4
  <2> QED
    BY <1>1, <1>2, <1>3, <1>4, <2>1, InsideKept
<1>6. frames'[2].op = frames[2].op
  BY <1>3, <1>4
<1>7. Host.call = "luautils_dofile" /\ frames'[2].at = "returned" => DofileResults(frames'[2]) = gave'
  <2>1. CASE Len(frames) = 3
    BY <1>4, <2>1
  <2>2. CASE Len(frames) # 3
    <3>1. gave' = gave
      BY <2>2
    <3>2. 2 \in 1 .. Len(frames) - 2
      BY <1>3, <2>2, SecondKept, Zenon
    <3>3. frames'[2] = frames[2]
      BY <1>4, <3>2, Zenon
    <3> QED
      BY <1>1, <1>3, <3>1, <3>3 DEF Outermost
  <2> QED
    BY <2>1, <2>2
<1>8. Outermost'
  BY <1>1, <1>3, <1>4, <1>6, <1>7, OutermostKept
<1>9. GuardTargetLive'
  <2> DEFINE m == Len(frames) - 1
  <2>1. /\ m \in Nat /\ m <= Len(frames) /\ m <= Len(frames')
        /\ \A i \in m + 1 .. Len(frames) : frames[i].call # "libopen"
        /\ \A i \in m + 1 .. Len(frames') : frames'[i].call # "libopen"
    BY <1>3, <1>4
  <2>2. \A i \in 1 .. m : frames'[i].call = "libopen" <=> frames[i].call = "libopen"
    BY <1>3, <1>4
  <2>3. safeguard \in Nat
    BY <1>1, LoaderAssumption
  <2> HIDE DEF m
  <2> QED
    BY <1>1, <1>2, <1>4, <2>1, <2>2, <2>3, GuardKept
<1> QED
  BY <1>4, <1>5, <1>8, <1>9 DEF IInv

\* A number of frames that is above one is not one.
LEMMA AboveOne ==
  ASSUME NEW n \in Nat, n > 1
  PROVE  n # 1
OBVIOUS

\* An error is raised.
LEMMA RaiseKeeps ==
  ASSUME IInv, Top.op # "host", Top.call # "libopen", NEW m,
         m \in (IF Host.call = "libopen" THEN CErrors ELSE Errors),
         Raise(m), Reason', UNCHANGED <<disk, globals, Guard, History>>
  PROVE  IInv'
<1>1. /\ frames' = frames /\ disk' = disk /\ throw' = m /\ globals' = globals /\ UNCHANGED Guard
      /\ before' = before /\ gave' = gave
  BY DEF Raise, History
<1>2. /\ Calls(frames, disk) /\ States /\ HostWaits /\ Outermost /\ GuardTargetLive
  BY DEF IInv
<1>3. Calls(frames, disk)'
  BY <1>1, <1>2, Zenon
<1>4. Len(frames) \in Nat /\ Len(frames) > 1
  BY <1>2, TopIs
<1>5. States'
  BY <1>1, <1>2 DEF States, Guard
<1>6. HostWaits' /\ HostStackExact'
  BY <1>1, <1>2, <1>4, HostKept
<1>7. Outermost'
  BY <1>1, <1>2 DEF Outermost, Host, DofileResults
<1>8. Thrown'
  <2>1. Top' = Top /\ Host' = Host /\ Len(frames') = Len(frames)
    <3>1. frames' = frames
      BY <1>1
    <3> QED
      BY <3>1 DEF Top, Host
  <2>2. Len(frames) # 1
    BY <1>4, AboveOne, Zenon
  <2> QED
    BY <1>1, <2>1, <2>2 DEF Thrown
<1>9. GuardTargetLive'
  BY <1>1, <1>2 DEF GuardTargetLive, Guard
<1> QED
  BY <1>3, <1>5, <1>6, <1>7, <1>8, <1>9 DEF IInv

\* The values below the host's call, and the handler.
LEMMA HandlerBelow ==
  ASSUME NEW s \in Seq(Words), NEW trace
  PROVE  s \o (IF trace THEN <<"handler">> ELSE <<>>) \in Seq(Words)
<1>1. s \o <<"handler">> \in Seq(Words)
  <2>1. "handler" \in Words
    BY DEF Words
  <2> QED
    BY <2>1, OneMore
<1>2. s \o <<>> \in Seq(Words)
  BY ConcatEmptySeq
<1> QED
  BY <1>1, <1>2

\* The last frame ends, the host's call, and the host gets values.
LEMMA HostGets ==
  ASSUME IInv, Len(frames) = 2, throw' = "none", Top.call # "libopen",
         NEW at \in {"returned", "failed"}, NEW v \in Seq(Words),
         NEW h, h = [Host EXCEPT !.at = at, !.stack = @ \o v],
         frames' = Append(Front(Front(frames)), h),
         UNCHANGED <<disk, globals, Guard, before, gave>>,
         at = "returned" /\ Host.call = "luautils_dofile" => v = gave,
         at = "returned" /\ Host.call = "luautils_require" => v = <<"module">>,
         at = "failed" => \E m \in Messages(Host) : v = <<m>>
  PROVE  IInv'
<1>1. /\ Calls(frames, disk) /\ States /\ HostWaits /\ GuardTargetLive
      /\ safeguard \in 0 .. MaxFrames
  BY DEF IInv, States
<1>2. /\ disk' = disk /\ before' = before /\ gave' = gave /\ globals' = globals /\ UNCHANGED Guard
  OBVIOUS
<1>3. /\ Len(frames) > 1 /\ Sound(Host, disk) /\ Host.op = "host" /\ Top = frames[2]
      /\ Last(Front(frames)) = Host
  BY <1>1, TopIs DEF Host
<1>4. /\ Host.at = "running" /\ Host.call \in HostCallKinds /\ Host.base = Len(before)
      /\ Host \in Frames
      /\ Host.call = "luautils_require" => ~Host.trace
      /\ Host.call = "libopen" => Host.trace
  BY <1>1, <1>3 DEF HostWaits, Sound, HostFrame
<1>5. PICK u \in Seq(Words) :
        /\ Host.stack = (before \o (IF Host.trace THEN <<"handler">> ELSE <<>>)) \o u
        /\ Left(Host, u)
  BY <1>1, <1>4 DEF HostWaits
<1>6. u = <<>> /\ Host.stack \in Seq(Words) /\ Host.stack \o v \in Seq(Words)
  <2>1. u = <<>>
    BY <1>4, <1>5 DEF Left
  <2>2. Host.stack \in Seq(Words)
    BY <1>4 DEF Frames
  <2> QED
    BY <2>1, <2>2, ConcatProperties
<1>7. /\ h \in Frames /\ h.op = "host" /\ h.at = at /\ h.call = Host.call /\ h.base = Host.base
      /\ h.trace = Host.trace /\ h.seen = Host.seen /\ h.stack = Host.stack \o v
  <2>1. at \in Words
    BY DEF Words
  <2>2. Host \in Frames
    BY <1>4
  <2>3. /\ h \in Frames /\ h.op = Host.op /\ h.at = at /\ h.name = Host.name /\ h.call = Host.call
        /\ h.base = Host.base /\ h.from = Host.from /\ h.trace = Host.trace /\ h.seen = Host.seen
        /\ h.stack = Host.stack \o v
    BY <1>6, <2>1, <2>2 DEF Frames
  <2> QED
    BY <1>3, <2>3
<1>8. Sound(h, disk)
  BY <1>3, <1>4, <1>7 DEF Sound, HostFrame
<1>9. Calls(frames, disk)' /\ Len(frames') = 1 /\ frames'[1] = h
  <2>1. h.op = Last(Front(frames)).op
    BY <1>3, <1>7
  <2>2. Calls(frames, disk)' /\ Len(frames') = Len(frames) - 1 /\ frames'[Len(frames) - 1] = h
    BY <1>1, <1>2, <1>3, <1>8, <2>1, Unstacked
  <2> QED
    BY <2>2
<1>10. Host' = h /\ Host'.at = at
  BY <1>7, <1>9 DEF Host
<1>11. States'
  BY <1>1, <1>2, <1>9 DEF States, Guard
<1>12. HostStackExact'
  BY <1>10 DEF HostStackExact
<1>13. Left(Host, v)'
  BY <1>2, <1>7, <1>10 DEF Left, Messages
<1>14. h.stack = (before \o (IF h.trace THEN <<"handler">> ELSE <<>>)) \o v
  <2>1. before \o (IF Host.trace THEN <<"handler">> ELSE <<>>) \in Seq(Words)
    BY <1>1, HandlerBelow DEF States
  <2>2. Host.stack = before \o (IF Host.trace THEN <<"handler">> ELSE <<>>)
    BY <1>5, <1>6, <2>1, ConcatEmptySeq
  <2> QED
    BY <1>7, <2>2
<1>15. HostWaits'
  <2>1. /\ Host' = h /\ h.at # "running" /\ h.base = Len(before) /\ ~(Len(frames') > 1)
        /\ h.call = "luautils_require" => ~h.trace
        /\ h.call = "libopen" => h.trace
    BY <1>4, <1>7, <1>9, <1>10
  <2> QED
    BY <1>2, <1>13, <1>14, <2>1 DEF HostWaits
<1>16. Outermost' /\ Thrown'
  BY <1>9 DEF Outermost, Thrown
<1>17. Reason'
  BY <1>9, QuietReasonNext DEF Quiet
<1>18. GuardTargetLive'
  <2>1. \A i \in 1 .. 1 : frames'[i].call = "libopen" <=> frames[i].call = "libopen"
    BY <1>7, <1>9 DEF Host
  <2>2. \A i \in 1 + 1 .. Len(frames) : frames[i].call # "libopen"
    BY <1>3
  <2>3. safeguard \in Nat /\ \A i \in 1 + 1 .. Len(frames') : FALSE
    BY <1>1, <1>9, LoaderAssumption
  <2>4. 1 \in Nat /\ 1 <= Len(frames) /\ 1 <= Len(frames')
    BY <1>9
  <2> QED
    BY <1>1, <1>2, <1>9, <2>1, <2>2, <2>3, <2>4, GuardKept
<1> QED
  BY <1>9, <1>11, <1>12, <1>15, <1>16, <1>17, <1>18 DEF IInv

\* The error goes on to the one below, who has no lua_pcall.
LEMMA DropKeeps ==
  ASSUME IInv, throw # "none", Len(frames) > 2, frames' = Front(frames), throw' = throw,
         Last(Front(frames)).call \in {"call", "loader"},
         UNCHANGED <<disk, globals, Guard, History>>
  PROVE  IInv'
<1>1. /\ Calls(frames, disk) /\ States /\ HostWaits /\ Outermost /\ GuardTargetLive /\ Thrown
      /\ gave \in Seq(Words) /\ safeguard \in 0 .. MaxFrames
  BY DEF IInv, States
<1>2. /\ disk' = disk /\ before' = before /\ gave' = gave /\ globals' = globals /\ UNCHANGED Guard
      /\ handler' = handler /\ safeguard' = safeguard
  BY DEF History, Guard
<1>3. /\ Len(frames) \in Nat /\ Len(frames) > 1 /\ Top = frames[Len(frames)]
      /\ Last(Front(frames)) = frames[Len(frames) - 1]
      /\ Sound(frames[Len(frames) - 1], disk) /\ Waits(frames[Len(frames) - 1], Top)
  <2>1. Len(frames) \in Nat /\ Top = frames[Len(frames)]
    BY <1>1, TopIs
  <2>2. Len(frames) > 1
    BY <2>1
  <2> QED
    BY <1>1, <2>1, <2>2, TopIs
<1>4. /\ Calls(frames', disk) /\ Len(frames') = Len(frames) - 1
      /\ \A i \in 1 .. Len(frames) - 1 : frames'[i] = frames[i]
      /\ Top' = frames[Len(frames) - 1]
  BY <1>1, <1>3, DropCalls DEF Top
<1>5. Calls(frames, disk)'
  <2>1. Calls(frames', disk')
    BY <1>2, <1>4, Zenon
  <2> QED
    BY <2>1, Zenon
<1>6. frames'[1] = frames[1] /\ frames'[2] = frames[2] /\ Len(frames') > 1
  BY <1>3, <1>4
<1>7. States'
  BY <1>1, <1>2, <1>3, <1>4 DEF States
<1>8. HostWaits' /\ HostStackExact'
  BY <1>1, <1>2, <1>3, <1>6, HostKept
<1>9. Outermost'
  BY <1>1, <1>2, <1>3, <1>6, OutermostKept DEF Outermost
<1>10. Thrown'
  <2>1. Host' = Host /\ Len(frames') # 1 /\ Top'.call # "libopen"
    BY <1>3, <1>4, <1>6 DEF Host
  <2> QED
    BY <1>1, <1>3, <2>1 DEF Thrown
<1>11. Reason'
  <2>1. Top'.at = "running" /\ (Top'.op = "require" => Top'.from # "none") /\ Top'.op # "dofile"
    BY <1>3, <1>4 DEF Waits, Sound, RequireFrame, DofileFrame
  <2> QED
    BY <2>1 DEF Reason, Failure, Cause
<1>12. GuardTargetLive'
  <2> DEFINE m == Len(frames) - 1
  <2>1. /\ m \in Nat /\ m <= Len(frames) /\ m <= Len(frames')
        /\ \A i \in m + 1 .. Len(frames) : i = Len(frames)
        /\ \A i \in m + 1 .. Len(frames') : FALSE
    BY <1>3, <1>4
  <2>2. Top.call # "libopen"
    BY <1>1 DEF Thrown
  <2>3. \A i \in 1 .. m : frames'[i].call = "libopen" <=> frames[i].call = "libopen"
    BY <1>4
  <2>4. safeguard \in Nat
    BY <1>1, LoaderAssumption
  <2> HIDE DEF m
  <2> QED
    BY <1>1, <1>2, <1>3, <1>5, <2>1, <2>2, <2>3, <2>4, GuardKept
<1> QED
  BY <1>5, <1>7, <1>8, <1>9, <1>10, <1>11, <1>12 DEF IInv

(***************************************************************************)
(* Who is on top, and who waits                                            *)
(***************************************************************************)
LEMMA Waiter ==
  ASSUME IInv, Len(frames) > 1
  PROVE  LET f == Last(Front(frames))
         IN /\ Sound(f, disk) /\ f.at = "running"
            /\ Len(frames) = 2 => f = Host
            /\ Len(frames) > 2 => f.op # "host" /\ (f.op = "cfunction" <=> Host.call = "libopen")
            /\ Top.op = "chunk" <=> f.op \in {"dofile", "require"}
            /\ Top.op = "cfunction" <=> f.call = "libopen"
            /\ Top.op = "cfunction" <=> Host.call = "libopen"
<1>1. Calls(frames, disk)
  BY DEF IInv
<1>2. /\ Len(frames) \in Nat /\ Top = frames[Len(frames)]
      /\ Last(Front(frames)) = frames[Len(frames) - 1]
      /\ Sound(frames[Len(frames) - 1], disk)
      /\ Waits(frames[Len(frames) - 1], Top)
  BY <1>1, TopIs
<1>3. /\ \A i \in 2 .. Len(frames) : Waits(frames[i - 1], frames[i])
      /\ \A i \in 2 .. Len(frames) : frames[i].op = "cfunction" <=> frames[1].call = "libopen"
  BY <1>1 DEF Calls
<1>4. Top.op = "cfunction" <=> Host.call = "libopen"
  BY <1>2, <1>3 DEF Host
<1>5. Len(frames) = 2 => frames[Len(frames) - 1] = Host
  BY DEF Host
<1>6. ASSUME Len(frames) > 2
      PROVE  /\ frames[Len(frames) - 1].op # "host"
             /\ frames[Len(frames) - 1].op = "cfunction" <=> Host.call = "libopen"
  <2>1. Len(frames) - 1 \in 2 .. Len(frames)
    BY <1>2, <1>6
  <2> QED
    BY <1>3, <2>1 DEF Waits, Host
<1> QED
  BY <1>2, <1>4, <1>5, <1>6 DEF Waits

\* A call of dofile or require, or a script, on top.
LEMMA ScriptTop ==
  ASSUME IInv, Top.op \in {"dofile", "require", "chunk"}
  PROVE  /\ Len(frames) > 1 /\ Sound(Top, disk) /\ Top \in Frames /\ Top.call # "libopen"
         /\ Host.call # "libopen" /\ globals.loaders = <<"path", "symbols">>
         /\ disk \in [Name -> {"none", "file", "locked"}]
<1>1. Len(frames) > 1 /\ Sound(Top, disk)
  BY TopIs DEF IInv
<1>2. Top \in Frames /\ Top.call # "libopen"
  BY <1>1 DEF Sound, DofileFrame, RequireFrame, ChunkFrame
<1>3. Host.call # "libopen"
  BY <1>1, Waiter
<1>4. globals.loaders = <<"path", "symbols">> /\ disk \in [Name -> {"none", "file", "locked"}]
  BY <1>1 DEF IInv, States
<1> QED
  BY <1>1, <1>2, <1>3, <1>4

\* A C function on top.
LEMMA CTop ==
  ASSUME IInv, Top.op = "cfunction"
  PROVE  /\ Len(frames) > 1 /\ Sound(Top, disk) /\ Top \in Frames /\ Host.call = "libopen"
<1>1. Len(frames) > 1 /\ Sound(Top, disk)
  BY TopIs DEF IInv
<1> QED
  BY <1>1, Waiter DEF Sound

(***************************************************************************)
(* New frames                                                              *)
(***************************************************************************)
LEMMA NewChunk ==
  ASSUME NEW n \in Name
  PROVE  /\ Sound(Chunk(n), disk) /\ Chunk(n).op = "chunk" /\ Chunk(n).call = "none"
<1>1. <<>> \in Seq(Words) /\ Len(<<>>) = 0
  BY EmptySeq
<1> QED
  BY <1>1 DEF Chunk, Frame, Sound, Frames, ChunkFrame, Words

\* A call of dofile, as it begins.
LEMMA NewDofile ==
  ASSUME NEW n \in Name, NEW args \in {<<>>, <<"name">>}, disk[n] \in {"none", "file", "locked"},
         globals.loaders = <<"path", "symbols">>
  PROVE  LET g == Frame("dofile", "enter", n, args)
         IN Sound(g, disk) /\ g.op = "dofile" /\ g.call = "none" /\ g.at = "enter"
<1>1. args \in Seq(Words) /\ Len(args) \in Nat
  <2>1. "name" \in Words
    BY DEF Words
  <2>2. <<"name">> \in Seq(Words) /\ <<>> \in Seq(Words)
    BY <2>1
  <2> QED
    BY <2>2, LenProperties
<1>2. <<>> \in Seq(Words)
  BY EmptySeq
<1> QED
  BY <1>1, <1>2 DEF Frame, Sound, Frames, DofileFrame, Words

\* A call of require, as it begins.
LEMMA NewRequire ==
  ASSUME NEW n \in Name, disk[n] \in {"none", "file", "locked"},
         globals.loaders = <<"path", "symbols">>
  PROVE  LET g == Frame("require", "enter", n, <<>>)
         IN Sound(g, disk) /\ g.op = "require" /\ g.call = "none" /\ g.at = "enter"
<1>1. <<>> \in Seq(Words) /\ Len(<<>>) = 0
  BY EmptySeq
<1>2. <<"path", "symbols">> \in Seq(Words)
  <2>1. "path" \in Words /\ "symbols" \in Words
    BY DEF Words
  <2> QED
    BY <2>1
<1> QED
  BY <1>1, <1>2 DEF Frame, Sound, Frames, RequireFrame, Words

(***************************************************************************)
(* symbol_dofile_C                                                         *)
(***************************************************************************)
\* Changes of one frame.
LEMMA Moved ==
  ASSUME NEW f \in Frames, NEW at \in Words, NEW g, g = [f EXCEPT !.at = at]
  PROVE  /\ g \in Frames /\ g.op = f.op /\ g.at = at /\ g.name = f.name /\ g.stack = f.stack
         /\ g.base = f.base /\ g.call = f.call /\ g.from = f.from /\ g.seen = f.seen
         /\ g.todo = f.todo
BY DEF Frames

\* dofile or require starts to run a script.
LEMMA BeginKeeps ==
  ASSUME IInv, throw = "none", Top.op \in {"dofile", "require"},
         NEW kind, NEW from \in {"none", "file", "embedded"}, Begin(kind, from),
         kind # "libopen", NEW p, p = [Top EXCEPT !.at = "running", !.call = kind, !.from = from],
         p.op = Top.op, p.at = "running", p.call = kind, Sound(p, disk),
         UNCHANGED <<disk, globals, Guard, History>>
  PROVE  IInv'
<1>1. Sound(Top, disk) /\ Top.call # "libopen" /\ Top.op # "host"
  BY ScriptTop
<1>2. Top.name \in Name
  BY <1>1 DEF Sound, DofileFrame, RequireFrame
<1>3. /\ Sound(Chunk(Top.name), disk) /\ Chunk(Top.name).op = "chunk"
      /\ Chunk(Top.name).call = "none"
  BY <1>2, NewChunk
<1>4. /\ Len(frames) < MaxFrames /\ throw' = throw
      /\ frames' = Append(Replace(p), Chunk(Top.name))
  BY DEF Begin
<1>5. Waits(p, Chunk(Top.name))
  BY <1>3 DEF Waits
<1> QED
  BY <1>1, <1>3, <1>4, <1>5, PushKeeps

LEMMA StepChoose ==
  ASSUME IInv, Choose
  PROVE  IInv'
<1>1. throw = "none" /\ Top.op = "dofile" /\ Top.at = "enter"
  BY DEF Choose, Running
<1>2. /\ Len(frames) > 1 /\ Sound(Top, disk) /\ Top \in Frames /\ Top.call # "libopen"
      /\ Host.call # "libopen"
  BY <1>1, ScriptTop
<1>3. DofileFrame(Top, disk) /\ UNCHANGED <<disk, globals, Guard, History>>
  BY <1>1, <1>2 DEF Sound, Choose
<1>4. CASE Top.stack = <<>> /\ Raise("argument")
  <2>1. Top' = Top /\ throw' = "argument"
    BY <1>4 DEF Raise, Top
  <2>2. Failure' = "argument" /\ Cause("argument")'
    BY <1>1, <1>4, <2>1 DEF Failure, Cause
  <2>3. Reason'
    BY <2>2 DEF Reason
  <2> QED
    BY <1>1, <1>2, <1>3, <1>4, <2>3, RaiseKeeps DEF Errors
<1>5. CASE Replace([Top EXCEPT !.at = IF Prefer(Top) THEN "open" ELSE "embedded"]) = frames'
           /\ UNCHANGED throw
  <2> DEFINE at == IF Prefer(Top) THEN "open" ELSE "embedded"
             f == [Top EXCEPT !.at = at]
  <2>1. at \in Words /\ at \in {"open", "embedded"}
    <3>1. at = "open" \/ at = "embedded"
      OBVIOUS
    <3>2. "open" \in Words /\ "embedded" \in Words
      BY DEF Words, Errors
    <3> QED
      BY <3>1, <3>2
  <2>2. at = "open" => Resource(Top.name) = "none" \/ SomeFile(Top)
    BY <1>3 DEF Prefer, DofileFrame, SomeFile
  <2>3. at = "embedded" => Resource(Top.name) # "none" /\ "none" \in Top.seen
    BY <1>3 DEF Prefer, DofileFrame
  <2>4. frames' = Replace(f)
    BY <1>5
  <2> HIDE DEF at
  <2>5. /\ f \in Frames /\ f.op = Top.op /\ f.at = at /\ f.name = Top.name /\ f.stack = Top.stack
        /\ f.base = Top.base /\ f.call = Top.call /\ f.from = Top.from /\ f.seen = Top.seen
    BY <1>2, <2>1, Moved
  <2> HIDE DEF f
  <2>6. Sound(f, disk)
    BY <1>1, <1>3, <2>1, <2>2, <2>3, <2>5 DEF Sound, DofileFrame, SomeFile
  <2>7. f.at # "returned"
    BY <2>1, <2>5
  <2> QED
    BY <1>1, <1>2, <1>3, <1>5, <2>4, <2>5, <2>6, <2>7, SwapKeeps
<1> QED
  BY <1>4, <1>5 DEF Choose

LEMMA StepBackup ==
  ASSUME IInv, Backup
  PROVE  IInv'
<1>1. throw = "none" /\ Top.op = "dofile" /\ Top.at = "open"
  BY DEF Backup, Running
<1>2. /\ Len(frames) > 1 /\ Sound(Top, disk) /\ Top \in Frames /\ Top.call # "libopen"
      /\ Host.call # "libopen"
  BY <1>1, ScriptTop
<1>3. DofileFrame(Top, disk) /\ UNCHANGED <<disk, globals, Guard, History>>
  BY <1>1, <1>2 DEF Sound, Backup
<1>4. CASE disk[Top.name] = "file" /\ Begin("backup", "file")
  <2> DEFINE p == [Top EXCEPT !.at = "running", !.call = "backup", !.from = "file"]
  <2>1. "backup" \in Words /\ "running" \in Words
    BY DEF Words
  <2>2. /\ p \in Frames /\ p.op = Top.op /\ p.at = "running" /\ p.name = Top.name
        /\ p.stack = Top.stack /\ p.base = Top.base /\ p.call = "backup" /\ p.from = "file"
        /\ p.seen = Top.seen
    BY <1>2, <2>1 DEF Frames
  <2> HIDE DEF p
  <2>3. Sound(p, disk)
    BY <1>1, <1>3, <1>4, <2>2 DEF Sound, DofileFrame
  <2> QED
    BY <1>1, <1>3, <1>4, <2>2, <2>3, BeginKeeps DEF p
<1>5. ASSUME NEW m \in {"open", "syntax"}, m = "open" <=> disk[Top.name] # "file", FailsWith(m)
      PROVE  IInv'
  <2> DEFINE f == [Top EXCEPT !.at = "failed", !.stack = Append(@, m)]
  <2>1. "failed" \in Words /\ m \in Words /\ m \in Errors
    BY DEF Words, Errors
  <2>2. Top.stack \in Seq(Words)
    BY <1>2 DEF Frames
  <2>3. /\ Append(Top.stack, m) \in Seq(Words) /\ Append(Top.stack, m) # <<>>
        /\ Last(Append(Top.stack, m)) = m
    BY <2>1, <2>2, AppendIs
  <2>4. /\ f \in Frames /\ f.op = Top.op /\ f.at = "failed" /\ f.name = Top.name
        /\ f.stack = Append(Top.stack, m) /\ f.base = Top.base /\ f.call = Top.call
        /\ f.from = Top.from /\ f.seen = Top.seen
    BY <1>2, <2>1, <2>3 DEF Frames
  <2>5. frames' = Replace(f) /\ UNCHANGED throw
    BY <1>5 DEF FailsWith
  <2> HIDE DEF f
  <2>6. Sound(f, disk)
    <3>1. CASE m = "open"
      <4>1. f.from = "none" /\ NoFile(f) /\ (Resource(f.name) = "none" \/ SomeFile(f))
        BY <1>1, <1>3, <1>5, <2>4, <3>1 DEF DofileFrame, NoFile, SomeFile
      <4> QED
        BY <1>1, <1>3, <2>1, <2>3, <2>4, <3>1, <4>1 DEF Sound, DofileFrame
    <3>2. CASE m = "syntax"
      <4>1. f.from = "none" /\ "file" \in f.seen
        BY <1>1, <1>3, <1>5, <2>4, <3>2 DEF DofileFrame
      <4> QED
        BY <1>1, <1>3, <2>1, <2>3, <2>4, <3>2, <4>1 DEF Sound, DofileFrame
    <3> QED
      BY <3>1, <3>2
  <2> QED
    BY <1>1, <1>2, <1>3, <2>4, <2>5, <2>6, SwapKeeps
<1>6. CASE FailsWith("syntax") /\ disk[Top.name] = "file"
  BY <1>5, <1>6
<1>7. CASE FailsWith("open") /\ disk[Top.name] # "file"
  BY <1>5, <1>7
<1> QED
  BY <1>4, <1>6, <1>7 DEF Backup

LEMMA StepFallback ==
  ASSUME IInv, Fallback
  PROVE  IInv'
<1>1. throw = "none" /\ Top.op = "dofile" /\ Top.at = "embedded"
  BY DEF Fallback, Running
<1>2. /\ Len(frames) > 1 /\ Sound(Top, disk) /\ Top \in Frames /\ Top.call # "libopen"
      /\ Host.call # "libopen"
  BY <1>1, ScriptTop
<1>3. DofileFrame(Top, disk) /\ UNCHANGED <<disk, globals, Guard, History>>
  BY <1>1, <1>2 DEF Sound, Fallback
<1>4. /\ Top.name \in Name /\ Resource(Top.name) \in {"good", "broken", "garbled"} /\ "none" \in Top.seen
  BY <1>1, <1>3, LoaderAssumption DEF DofileFrame, Resource
<1>5. CASE Unpacks(Top) /\ Compiles(Top) /\ Begin("embedded", "embedded")
  <2> DEFINE p == [Top EXCEPT !.at = "running", !.call = "embedded", !.from = "embedded"]
  <2>1. "embedded" \in Words /\ "running" \in Words
    BY DEF Words
  <2>2. /\ p \in Frames /\ p.op = Top.op /\ p.at = "running" /\ p.name = Top.name
        /\ p.stack = Top.stack /\ p.base = Top.base /\ p.call = "embedded" /\ p.from = "embedded"
        /\ p.seen = Top.seen
    BY <1>2, <2>1 DEF Frames
  <2> HIDE DEF p
  <2>3. Sound(p, disk)
    BY <1>1, <1>3, <1>4, <1>5, <2>2 DEF Sound, DofileFrame, Unpacks, Compiles
  <2> QED
    BY <1>1, <1>3, <1>5, <2>2, <2>3, BeginKeeps DEF p
<1>6. CASE ~Unpacks(Top) /\ Raise("broken")
  <2>1. Top' = Top /\ throw' = "broken"
    BY <1>6 DEF Raise, Top
  <2>2. Resource(Top.name) = "broken" /\ Top.seen # {"file"}
    BY <1>4, <1>6 DEF Unpacks
  <2>3. Reason'
    BY <1>1, <2>1, <2>2 DEF Reason, Failure, Cause, Resource
  <2> QED
    BY <1>1, <1>2, <1>3, <1>6, <2>3, RaiseKeeps DEF Errors
<1>7. CASE ~Compiles(Top) /\ Raise("syntax")
  <2>1. Top' = Top /\ throw' = "syntax"
    BY <1>7 DEF Raise, Top
  <2>2. Resource(Top.name) = "garbled" /\ Top.seen # {"file"}
    BY <1>4, <1>7 DEF Compiles
  <2>3. Reason'
    BY <1>1, <2>1, <2>2 DEF Reason, Failure, Cause, Resource
  <2> QED
    BY <1>1, <1>2, <1>3, <1>7, <2>3, RaiseKeeps DEF Errors
<1> QED
  BY <1>5, <1>6, <1>7 DEF Fallback, RunResource

\* The script that called is back in its body.
LEMMA ScriptResumes ==
  ASSUME IInv, throw' = "none", Len(frames) > 2, Top.call # "libopen",
         Last(Front(frames)).op = "chunk",
         frames' = Append(Front(Front(frames)),
                          [Last(Front(frames)) EXCEPT !.at = "body", !.call = "none"]),
         UNCHANGED <<disk, globals, Guard, before, gave>>
  PROVE  IInv'
<1>1. Len(frames) > 1
  BY LoaderAssumption DEF IInv, Calls
<1> DEFINE f == Last(Front(frames))
           p == [f EXCEPT !.at = "body", !.call = "none"]
<1>2. Sound(f, disk) /\ f.op = "chunk"
  BY <1>1, Waiter
<1> HIDE DEF f
<1>3. f \in Frames /\ ChunkFrame(f) /\ f.call # "libopen"
  BY <1>2 DEF Sound, ChunkFrame
<1>4. /\ p \in Frames /\ p.op = f.op /\ p.at = "body" /\ p.name = f.name /\ p.call = "none"
      /\ p.seen = f.seen
  <2>1. "body" \in Words /\ "none" \in Words
    BY DEF Words
  <2> QED
    BY <1>3, <2>1 DEF Frames
<1> HIDE DEF p
<1>5. Sound(p, disk)
  BY <1>2, <1>3, <1>4 DEF Sound, ChunkFrame
<1>6. gave' \in Seq(Words) /\ gave' = gave
  BY DEF IInv, States
<1>7. frames' = Append(Front(Front(frames)), p)
  BY DEF p, f
<1>8. p.op = Last(Front(frames)).op /\ (p.call = "libopen" <=> Last(Front(frames)).call = "libopen")
  BY <1>3, <1>4 DEF f
<1> QED
  BY <1>4, <1>5, <1>6, <1>7, <1>8, PopKeeps

\* Above one, and not two, is above two.
LEMMA AboveTwo ==
  ASSUME NEW n \in Nat, n > 1, n # 2
  PROVE  n > 2
OBVIOUS

\* dofile or require returns.
LEMMA ReturnKeeps ==
  ASSUME IInv, throw = "none", Top.op \in {"dofile", "require"}, NEW v \in Seq(Words), Return(v),
         Len(frames) = 2 /\ Host.call = "luautils_dofile" => v = gave,
         Len(frames) = 2 /\ Host.call = "luautils_require" => v = <<"module">>,
         UNCHANGED <<disk, globals, Guard, History>>
  PROVE  IInv'
<1>1. /\ Len(frames) > 1 /\ Top.call # "libopen" /\ Host.call # "libopen" /\ Host.op = "host"
  BY ScriptTop, TopIs DEF IInv
<1>2. /\ throw' = "none" /\ UNCHANGED <<disk, globals, Guard, before, gave>>
      /\ frames' = Append(Front(Front(frames)), Receive(Last(Front(frames)), "returned", v))
  BY DEF Return, History
<1>3. CASE Len(frames) = 2
  <2>1. Last(Front(frames)) = Host
    BY <1>1, <1>3, Waiter
  <2>2. frames' = Append(Front(Front(frames)), [Host EXCEPT !.at = "returned", !.stack = @ \o v])
    BY <1>1, <1>2, <2>1 DEF Receive
  <2> QED
    BY <1>1, <1>2, <1>3, <2>2, HostGets
<1>4. CASE Len(frames) # 2
  <2>1. Len(frames) > 2
    <3>1. Len(frames) \in Nat
      BY TopIs DEF IInv
    <3>2. Len(frames) > 1
      BY <1>1
    <3> QED
      BY <1>4, <3>1, <3>2, AboveTwo, Zenon
  <2>2. Last(Front(frames)).op = "chunk"
    BY <1>1, <2>1, Waiter DEF Sound, Frames
  <2>3. frames' = Append(Front(Front(frames)),
                         [Last(Front(frames)) EXCEPT !.at = "body", !.call = "none"])
    BY <1>2, <2>2 DEF Receive
  <2> QED
    BY <1>1, <1>2, <2>1, <2>2, <2>3, ScriptResumes
<1> QED
  BY <1>3, <1>4

LEMMA StepDofileEnd ==
  ASSUME IInv, DofileEnd
  PROVE  IInv'
<1>1. throw = "none" /\ Top.op = "dofile" /\ UNCHANGED <<disk, globals, Guard, History>>
  BY DEF DofileEnd, Running
<1>2. /\ Len(frames) > 1 /\ Sound(Top, disk) /\ Top \in Frames /\ Top.call # "libopen"
      /\ Host.call # "libopen" /\ Top.op # "host"
  BY <1>1, ScriptTop
<1>3. DofileFrame(Top, disk)
  BY <1>1, <1>2 DEF Sound
<1>4. CASE Top.at = "failed" /\ Raise(Last(Top.stack))
  <2>1. Last(Top.stack) \in Errors
    BY <1>3, <1>4 DEF DofileFrame
  <2>2. Top' = Top /\ throw' = Last(Top.stack)
    BY <1>4 DEF Raise, Top
  <2>3. Top.from = "none" =>
          \/ /\ Last(Top.stack) = "open" /\ NoFile(Top)
             /\ Resource(Top.name) = "none" \/ SomeFile(Top)
          \/ Last(Top.stack) = "syntax" /\ "file" \in Top.seen
    BY <1>3, <1>4 DEF DofileFrame
  <2>4. Reason'
    BY <1>1, <2>2, <2>3 DEF Reason, Failure, Cause, Resource, NoFile, SomeFile
  <2> QED
    BY <1>1, <1>2, <1>4, <2>1, <2>4, RaiseKeeps
<1>5. CASE Top.at = "returned" /\ Return(DofileResults(Top))
  <2>1. DofileResults(Top) \in Seq(Words)
    <3>1. Top.stack \in Seq(Words) /\ Top.base \in Nat
      BY <1>2 DEF Frames
    <3>2. Len(Top.stack) \in Nat /\ \A i \in 1 .. Len(Top.stack) : Top.stack[i] \in Words
      BY <3>1, ElementOfSeq
    <3>3. \A i \in Top.base + 1 .. Len(Top.stack) : Top.stack[i] \in Words
      BY <3>1, <3>2
    <3> QED
      BY <3>1, <3>2, <3>3, SubSeqProperties DEF DofileResults
  <2>2. ASSUME Len(frames) = 2
        PROVE  /\ Host.call = "luautils_dofile" => DofileResults(Top) = gave
               /\ Host.call # "luautils_require"
    <3>1. Top = frames[2]
      BY <2>2, TopIs DEF IInv
    <3> QED
      BY <1>1, <1>2, <1>5, <3>1 DEF IInv, Outermost
  <2> QED
    BY <1>1, <1>5, <2>1, <2>2, ReturnKeeps
<1> QED
  BY <1>4, <1>5 DEF DofileEnd, Running

(***************************************************************************)
(* require                                                                 *)
(***************************************************************************)
\* require returns one value.
LEMMA RequireReturns ==
  ASSUME IInv, throw = "none", Top.op = "require", Len(frames) > 1, Top.call # "libopen",
         Host.call # "libopen", Return(<<"module">>), UNCHANGED <<disk, globals, Guard, History>>
  PROVE  IInv'
<1>1. <<"module">> \in Seq(Words)
  <2>1. "module" \in Words
    BY DEF Words
  <2> QED
    BY <2>1
<1>2. Len(frames) = 2 => Host.call # "luautils_dofile"
  <2>1. Len(frames) = 2 => Top = frames[2]
    BY TopIs DEF IInv
  <2> QED
    BY <2>1 DEF IInv, Outermost
<1> QED
  BY <1>1, <1>2, ReturnKeeps

LEMMA StepCheckLoaded ==
  ASSUME IInv, CheckLoaded
  PROVE  IInv'
<1>1. throw = "none" /\ Top.op = "require" /\ Top.at = "enter"
  BY DEF CheckLoaded, Running
<1>2. /\ Len(frames) > 1 /\ Sound(Top, disk) /\ Top \in Frames /\ Top.call # "libopen"
      /\ Top.op # "host" /\ Host.call # "libopen"
  BY <1>1, ScriptTop
<1>3. RequireFrame(Top, disk) /\ UNCHANGED <<disk, globals, Guard, History>>
  BY <1>1, <1>2 DEF Sound, CheckLoaded
<1>4. CASE Raise("loop")
  <2>1. Top' = Top /\ throw' = "loop"
    BY <1>4 DEF Raise, Top
  <2>2. Reason'
    BY <1>1, <2>1 DEF Reason, Failure
  <2> QED
    BY <1>1, <1>2, <1>3, <1>4, <2>2, RaiseKeeps DEF Errors
<1>5. CASE Return(<<"module">>)
  BY <1>1, <1>2, <1>3, <1>5, RequireReturns
<1>6. CASE frames' = Replace([Top EXCEPT !.at = "search"]) /\ UNCHANGED throw
  <2> DEFINE f == [Top EXCEPT !.at = "search"]
  <2>1. "search" \in Words
    BY DEF Words
  <2>2. /\ f \in Frames /\ f.op = Top.op /\ f.at = "search" /\ f.name = Top.name
        /\ f.call = Top.call /\ f.from = Top.from /\ f.seen = Top.seen /\ f.todo = Top.todo
    BY <1>2, <2>1, Moved
  <2> HIDE DEF f
  <2>3. Sound(f, disk)
    BY <1>1, <1>3, <2>2 DEF Sound, RequireFrame, NoFile, SomeFile
  <2> QED
    BY <1>1, <1>2, <1>3, <1>6, <2>2, <2>3, SwapKeeps DEF f
<1> QED
  BY <1>4, <1>5, <1>6 DEF CheckLoaded

LEMMA StepAskPath ==
  ASSUME IInv, AskPath
  PROVE  IInv'
<1>1. /\ throw = "none" /\ Top.op = "require" /\ Top.at = "search"
      /\ Top.todo # <<>> /\ Head(Top.todo) = "path"
  BY DEF AskPath, Running
<1>2. /\ Len(frames) > 1 /\ Sound(Top, disk) /\ Top \in Frames /\ Top.call # "libopen"
      /\ Top.op # "host"
  BY <1>1, ScriptTop
<1>3. RequireFrame(Top, disk) /\ UNCHANGED <<disk, globals, throw, Guard, History>>
  BY <1>1, <1>2 DEF Sound, AskPath
<1>4. CASE disk[Top.name] # "none" /\ frames' = Replace([Top EXCEPT !.at = "open"])
  <2> DEFINE f == [Top EXCEPT !.at = "open"]
  <2>1. "open" \in Words
    BY DEF Words, Errors
  <2>2. /\ f \in Frames /\ f.op = Top.op /\ f.at = "open" /\ f.name = Top.name
        /\ f.call = Top.call /\ f.from = Top.from /\ f.seen = Top.seen /\ f.todo = Top.todo
    BY <1>2, <2>1, Moved
  <2> HIDE DEF f
  <2>3. Sound(f, disk)
    BY <1>1, <1>3, <1>4, <2>2 DEF Sound, RequireFrame, NoFile, SomeFile
  <2> QED
    BY <1>1, <1>2, <1>3, <1>4, <2>2, <2>3, SwapKeeps DEF f
<1>5. CASE disk[Top.name] # "file" /\ frames' = Replace([Top EXCEPT !.todo = Tail(@)])
  <2> DEFINE f == [Top EXCEPT !.todo = Tail(@)]
  <2>1. Top.todo = <<"path", "symbols">>
    BY <1>1, <1>3 DEF RequireFrame
  <2>2. Tail(Top.todo) = <<"symbols">>
    BY <2>1
  <2>3. <<"symbols">> \in Seq(Words) /\ <<"symbols">> # <<>>
    <3>1. "symbols" \in Words
      BY DEF Words
    <3> QED
      BY <3>1
  <2>4. /\ f \in Frames /\ f.op = Top.op /\ f.at = Top.at /\ f.name = Top.name
        /\ f.call = Top.call /\ f.from = Top.from /\ f.seen = Top.seen /\ f.todo = <<"symbols">>
    BY <1>2, <2>2, <2>3 DEF Frames
  <2> HIDE DEF f
  <2>5. Sound(f, disk)
    BY <1>1, <1>3, <1>5, <2>3, <2>4 DEF Sound, RequireFrame, NoFile, SomeFile
  <2> QED
    BY <1>1, <1>2, <1>3, <1>5, <2>4, <2>5, SwapKeeps DEF f
<1> QED
  BY <1>4, <1>5 DEF AskPath

LEMMA StepOpenPath ==
  ASSUME IInv, OpenPath
  PROVE  IInv'
<1>1. throw = "none" /\ Top.op = "require" /\ Top.at = "open"
  BY DEF OpenPath, Running
<1>2. /\ Len(frames) > 1 /\ Sound(Top, disk) /\ Top \in Frames /\ Top.call # "libopen"
      /\ Top.op # "host" /\ Host.call # "libopen"
  BY <1>1, ScriptTop
<1>3. RequireFrame(Top, disk) /\ UNCHANGED <<disk, globals, Guard, History>>
  BY <1>1, <1>2 DEF Sound, OpenPath
<1>4. CASE disk[Top.name] = "file" /\ Begin("loader", "file")
  <2> DEFINE p == [Top EXCEPT !.at = "running", !.call = "loader", !.from = "file"]
  <2>1. "loader" \in Words /\ "running" \in Words
    BY DEF Words
  <2>2. /\ p \in Frames /\ p.op = Top.op /\ p.at = "running" /\ p.name = Top.name
        /\ p.call = "loader" /\ p.from = "file" /\ p.seen = Top.seen /\ p.todo = Top.todo
    BY <1>2, <2>1 DEF Frames
  <2> HIDE DEF p
  <2>3. Sound(p, disk)
    BY <1>1, <1>3, <1>4, <2>2 DEF Sound, RequireFrame, NoFile
  <2> QED
    BY <1>1, <1>3, <1>4, <2>2, <2>3, BeginKeeps DEF p
<1>5. CASE disk[Top.name] # "file" /\ Raise("open")
  <2>1. Top' = Top /\ throw' = "open"
    BY <1>5 DEF Raise, Top
  <2>2. Top.seen # {"file"} /\ Top.seen # {"none"}
    BY <1>1, <1>3, <1>5 DEF RequireFrame, SomeFile
  <2>3. Reason'
    BY <1>1, <2>1, <2>2 DEF Reason, Failure, Cause
  <2> QED
    BY <1>1, <1>2, <1>3, <1>5, <2>3, RaiseKeeps DEF Errors
<1>6. CASE disk[Top.name] = "file" /\ Raise("syntax")
  <2>1. Top' = Top /\ throw' = "syntax"
    BY <1>6 DEF Raise, Top
  <2>2. "file" \in Top.seen
    BY <1>3, <1>6 DEF RequireFrame
  <2>3. Reason'
    BY <1>1, <2>1, <2>2 DEF Reason, Failure, Cause
  <2> QED
    BY <1>1, <1>2, <1>3, <1>6, <2>3, RaiseKeeps DEF Errors
<1> QED
  BY <1>4, <1>5, <1>6 DEF OpenPath

LEMMA StepAskSymbols ==
  ASSUME IInv, AskSymbols
  PROVE  IInv'
<1>1. /\ throw = "none" /\ Top.op = "require" /\ Top.at = "search"
      /\ Top.todo # <<>> /\ Head(Top.todo) = "symbols"
  BY DEF AskSymbols, Running
<1>2. /\ Len(frames) > 1 /\ Sound(Top, disk) /\ Top \in Frames /\ Top.call # "libopen"
      /\ Top.op # "host" /\ Host.call # "libopen"
  BY <1>1, ScriptTop
<1>3. RequireFrame(Top, disk) /\ UNCHANGED <<disk, globals, Guard, History>>
  BY <1>1, <1>2 DEF Sound, AskSymbols
<1>4. Top.todo = <<"symbols">>
  BY <1>1, <1>3 DEF RequireFrame
<1>5. Top.name \in Name /\ Top.seen # {"file"} /\ Resource(Top.name) \in {"none", "good", "broken", "garbled"}
  <2>1. Top.todo # <<"path", "symbols">>
    BY <1>4
  <2> QED
    BY <1>3, <2>1, LoaderAssumption DEF RequireFrame, NoFile, Resource
<1>6. CASE Resource(Top.name) # "none" /\ Unpacks(Top) /\ Compiles(Top) /\ Begin("loader", "embedded")
  <2> DEFINE p == [Top EXCEPT !.at = "running", !.call = "loader", !.from = "embedded"]
  <2>1. "loader" \in Words /\ "running" \in Words
    BY DEF Words
  <2>2. /\ p \in Frames /\ p.op = Top.op /\ p.at = "running" /\ p.name = Top.name
        /\ p.call = "loader" /\ p.from = "embedded" /\ p.seen = Top.seen /\ p.todo = Top.todo
    BY <1>2, <2>1 DEF Frames
  <2> HIDE DEF p
  <2>3. Sound(p, disk)
    BY <1>1, <1>3, <1>5, <1>6, <2>2 DEF Sound, RequireFrame, NoFile, Unpacks, Compiles
  <2> QED
    BY <1>1, <1>3, <1>6, <2>2, <2>3, BeginKeeps DEF p
<1>7. CASE ~Unpacks(Top) /\ Raise("broken")
  <2>1. Top' = Top /\ throw' = "broken"
    BY <1>7 DEF Raise, Top
  <2>2. Resource(Top.name) = "broken"
    BY <1>7 DEF Unpacks
  <2>3. Reason'
    BY <1>1, <1>5, <2>1, <2>2 DEF Reason, Failure, Cause, Resource
  <2> QED
    BY <1>1, <1>2, <1>3, <1>7, <2>3, RaiseKeeps DEF Errors
<1>8. CASE /\ Resource(Top.name) = "none" /\ UNCHANGED throw
           /\ frames' = Replace([Top EXCEPT !.todo = Tail(@)])
  <2> DEFINE f == [Top EXCEPT !.todo = Tail(@)]
  <2>1. Tail(Top.todo) = <<>> /\ <<>> \in Seq(Words)
    BY <1>4
  <2>2. /\ f \in Frames /\ f.op = Top.op /\ f.at = Top.at /\ f.name = Top.name
        /\ f.call = Top.call /\ f.from = Top.from /\ f.seen = Top.seen /\ f.todo = <<>>
    BY <1>2, <2>1 DEF Frames
  <2> HIDE DEF f
  <2>3. Sound(f, disk)
    BY <1>1, <1>3, <1>5, <1>8, <2>2 DEF Sound, RequireFrame, NoFile
  <2> QED
    BY <1>1, <1>2, <1>3, <1>8, <2>2, <2>3, SwapKeeps DEF f
<1>9. CASE ~Compiles(Top) /\ Raise("syntax")
  <2>1. Top' = Top /\ throw' = "syntax"
    BY <1>9 DEF Raise, Top
  <2>2. Resource(Top.name) = "garbled"
    BY <1>9 DEF Compiles
  <2>3. Reason'
    BY <1>1, <1>5, <2>1, <2>2 DEF Reason, Failure, Cause, Resource
  <2> QED
    BY <1>1, <1>2, <1>3, <1>9, <2>3, RaiseKeeps DEF Errors
<1> QED
  BY <1>6, <1>7, <1>8, <1>9 DEF AskSymbols, RunResource

LEMMA StepRequireEnd ==
  ASSUME IInv, RequireEnd
  PROVE  IInv'
<1>1. throw = "none" /\ Top.op = "require" /\ UNCHANGED <<disk, globals, Guard, History>>
  BY DEF RequireEnd, Running
<1>2. /\ Len(frames) > 1 /\ Sound(Top, disk) /\ Top.call # "libopen"
      /\ Top.op # "host" /\ Host.call # "libopen"
  BY <1>1, ScriptTop
<1>3. RequireFrame(Top, disk)
  BY <1>1, <1>2 DEF Sound
<1>4. CASE Return(<<"module">>)
  BY <1>1, <1>2, <1>4, RequireReturns
<1>5. CASE Top.todo = <<>> /\ Raise("missing")
  <2>1. Top' = Top /\ throw' = "missing"
    BY <1>5 DEF Raise, Top
  <2>2. Top.todo # <<"path", "symbols">>
    BY <1>5
  <2>3. Top.seen # {"file"} /\ Resource(Top.name) = "none"
    BY <1>3, <1>5, <2>2 DEF RequireFrame, NoFile
  <2>4. Reason'
    BY <1>1, <2>1, <2>3 DEF Reason, Failure, Cause, Resource
  <2> QED
    BY <1>1, <1>2, <1>5, <2>4, RaiseKeeps DEF Errors
<1> QED
  BY <1>4, <1>5 DEF RequireEnd

(***************************************************************************)
(* Scripts                                                                 *)
(***************************************************************************)
\* A script calls dofile or require.
LEMMA CallKeeps ==
  ASSUME IInv, throw = "none", Top.op = "chunk", NEW kind \in {"call", "pcall"},
         NEW g, Sound(g, disk), g.op \in {"dofile", "require"}, g.call = "none",
         Call(kind, <<>>, g), UNCHANGED <<disk, globals, Guard, History>>
  PROVE  IInv'
<1> DEFINE p == [Top EXCEPT !.at = "running", !.call = kind, !.stack = <<>>]
<1>1. /\ Sound(Top, disk) /\ Top \in Frames /\ Top.call # "libopen" /\ Top.op # "host"
  BY ScriptTop
<1>2. ChunkFrame(Top)
  BY <1>1 DEF Sound
<1>3. kind \in Words /\ "running" \in Words /\ <<>> \in Seq(Words)
  <2>1. "call" \in Words /\ "pcall" \in Words /\ "running" \in Words
    BY DEF Words
  <2> QED
    BY <2>1
<1>4. /\ p \in Frames /\ p.op = "chunk" /\ p.at = "running" /\ p.name = Top.name
      /\ p.call = kind /\ p.seen = Top.seen
  BY <1>1, <1>3 DEF Frames
<1>5. frames' = Append(Replace(p), g) /\ Len(frames) < MaxFrames /\ throw' = throw
  BY DEF Call
<1> HIDE DEF p
<1>6. Sound(p, disk)
  BY <1>2, <1>4 DEF Sound, ChunkFrame
<1>7. Waits(p, g)
  BY <1>4 DEF Waits
<1>8. p.call # "libopen" /\ g.call # "libopen"
  BY <1>4
<1> QED
  BY <1>1, <1>4, <1>5, <1>6, <1>7, <1>8, PushKeeps

LEMMA StepScriptCalls ==
  ASSUME IInv, ScriptCalls
  PROVE  IInv'
<1>1. throw = "none" /\ Top.op = "chunk" /\ UNCHANGED <<disk, globals, Guard, History>>
  BY DEF ScriptCalls, Running
<1>2. globals.loaders = <<"path", "symbols">> /\ disk \in [Name -> {"none", "file", "locked"}]
  BY <1>1, ScriptTop
<1>3. PICK kind \in {"call", "pcall"}, n \in Name :
        \/ \E args \in {<<>>, <<"name">>} : Call(kind, <<>>, Frame("dofile", "enter", n, args))
        \/ Call(kind, <<>>, Frame("require", "enter", n, <<>>))
  BY DEF ScriptCalls
<1>4. disk[n] \in {"none", "file", "locked"}
  BY <1>2
<1>5. CASE \E args \in {<<>>, <<"name">>} : Call(kind, <<>>, Frame("dofile", "enter", n, args))
  <2>1. PICK args \in {<<>>, <<"name">>} : Call(kind, <<>>, Frame("dofile", "enter", n, args))
    BY <1>5
  <2> DEFINE g == Frame("dofile", "enter", n, args)
  <2>2. Sound(g, disk) /\ g.op = "dofile" /\ g.call = "none"
    BY <1>2, <1>4, NewDofile
  <2>3. Call(kind, <<>>, g)
    BY <2>1
  <2> HIDE DEF g
  <2> QED
    BY <1>1, <2>2, <2>3, CallKeeps
<1>6. CASE Call(kind, <<>>, Frame("require", "enter", n, <<>>))
  <2> DEFINE g == Frame("require", "enter", n, <<>>)
  <2>1. Sound(g, disk) /\ g.op = "require" /\ g.call = "none"
    BY <1>2, <1>4, NewRequire
  <2>2. Call(kind, <<>>, g)
    BY <1>6
  <2> HIDE DEF g
  <2> QED
    BY <1>1, <2>1, <2>2, CallKeeps
<1> QED
  BY <1>3, <1>5, <1>6

\* What a script returns are words.
LEMMA ResultWords ==
  ASSUME NEW r \in Results
  PROVE  r \in Seq(Words)
<1>1. r \in Seq(STRING)
  BY LoaderAssumption
<1>2. Len(r) \in Nat /\ r = [i \in 1 .. Len(r) |-> r[i]] /\ \A i \in 1 .. Len(r) : r[i] \in STRING
  BY <1>1, ElementOfSeq, LenProperties
<1>3. \A i \in 1 .. Len(r) : r[i] \in Words
  BY <1>2 DEF Words
<1> QED
  BY <1>2, <1>3

LEMMA StepScriptEnds ==
  ASSUME IInv, ScriptEnds
  PROVE  IInv'
<1>1. throw = "none" /\ Top.op = "chunk" /\ UNCHANGED <<disk, globals, Guard, before>>
  BY DEF ScriptEnds, Running
<1>2. /\ Len(frames) > 1 /\ Sound(Top, disk) /\ Top.call # "libopen"
      /\ Top.op # "host" /\ Host.call # "libopen"
  BY <1>1, ScriptTop
<1>3. CASE \E r \in Results : Return(r) /\ gave' = IF Len(frames) = 3 THEN r ELSE gave
  <2>1. PICK r \in Results : Return(r) /\ gave' = IF Len(frames) = 3 THEN r ELSE gave
    BY <1>3
  <2> DEFINE f == Last(Front(frames))
             p == [f EXCEPT !.at = "returned", !.stack = @ \o r]
  <2>2. /\ Sound(f, disk) /\ f.op \in {"dofile", "require"} /\ f.at = "running"
        /\ Len(frames) = 2 => f = Host
        /\ f.call # "libopen"
    BY <1>1, <1>2, Waiter
  <2>3. Len(frames) > 2
    <3>1. Host.op = "host" /\ Len(frames) \in Nat
      BY TopIs DEF IInv
    <3>2. Len(frames) # 2
      BY <2>2, <3>1
    <3> QED
      BY <1>2, <3>1, <3>2, AboveTwo, Zenon
  <2> HIDE DEF f
  <2>4. r \in Seq(Words) /\ f \in Frames /\ "returned" \in Words
    BY <2>2, ResultWords DEF Sound, Words
  <2>5. f.stack \in Seq(Words) /\ f.base \in Nat /\ f.stack \o r \in Seq(Words)
    <3>1. f.stack \in Seq(Words) /\ f.base \in Nat
      BY <2>4 DEF Frames
    <3> QED
      BY <2>4, <3>1, ConcatProperties
  <2>6. /\ p \in Frames /\ p.op = f.op /\ p.at = "returned" /\ p.name = f.name
        /\ p.call = f.call /\ p.base = f.base /\ p.from = f.from /\ p.seen = f.seen
        /\ p.todo = f.todo /\ p.stack = f.stack \o r
    BY <2>4, <2>5 DEF Frames
  <2>7. frames' = Append(Front(Front(frames)), p) /\ throw' = "none"
    BY <1>1, <2>1, <2>2 DEF Return, Receive, f
  <2> HIDE DEF p
  <2>8. Sound(p, disk)
    <3>1. CASE f.op = "dofile"
      BY <2>2, <2>6, <3>1 DEF Sound, DofileFrame
    <3>2. CASE f.op = "require"
      BY <2>2, <2>6, <3>2 DEF Sound, RequireFrame, NoFile
    <3> QED
      BY <2>2, <3>1, <3>2
  <2>9. p.op = Last(Front(frames)).op /\ (p.call = "libopen" <=> Last(Front(frames)).call = "libopen")
    BY <2>6 DEF f
  <2>10. gave' \in Seq(Words) /\ (Len(frames) # 3 => gave' = gave)
    BY <2>1, <2>4 DEF IInv, States
  <2>11. ASSUME Len(frames) = 3, Host.call = "luautils_dofile"
         PROVE  DofileResults(p) = gave'
    <3>1. f = frames[2]
      <4>1. f = frames[Len(frames) - 1]
        BY <1>2, TopIs DEF IInv, f
      <4> QED
        BY <2>11, <4>1
    <3>2. f.op = "dofile"
      BY <1>2, <2>11, <3>1 DEF IInv, Outermost
    <3>3. Len(f.stack) = f.base
      BY <2>2, <3>2 DEF Sound, DofileFrame
    <3>4. SubSeq(f.stack \o r, Len(f.stack) + 1, Len(f.stack \o r)) = r
      BY <2>4, <2>5, BehindIs
    <3>5. gave' = r
      BY <2>1, <2>11
    <3> QED
      BY <2>6, <3>3, <3>4, <3>5 DEF DofileResults
  <2> QED
    BY <1>1, <1>2, <2>3, <2>7, <2>8, <2>9, <2>10, <2>11, PopKeeps
<1>4. CASE Raise("script") /\ UNCHANGED gave
  <2>1. Top' = Top /\ throw' = "script"
    BY <1>4 DEF Raise, Top
  <2>2. Reason'
    BY <1>1, <2>1 DEF Reason, Failure, Cause
  <2>3. UNCHANGED <<disk, globals, Guard, History>>
    BY <1>1, <1>4 DEF History
  <2> QED
    BY <1>1, <1>2, <1>4, <2>2, <2>3, RaiseKeeps DEF Errors
<1> QED
  BY <1>3, <1>4 DEF ScriptEnds

(***************************************************************************)
(* Errors                                                                  *)
(***************************************************************************)
LEMMA StepUnwind ==
  ASSUME IInv, Unwind
  PROVE  IInv'
<1> DEFINE f == Last(Front(frames))
<1>1. /\ throw # "none" /\ Len(frames) > 1 /\ UNCHANGED <<disk, globals, Guard, History>>
      /\ Len(frames) \in Nat
  BY TopIs DEF Unwind, IInv
<1>2. /\ Sound(f, disk) /\ f.at = "running"
      /\ Len(frames) = 2 => f = Host
      /\ Len(frames) > 2 => f.op # "host" /\ (f.op = "cfunction" <=> Host.call = "libopen")
      /\ Top.op = "cfunction" <=> f.call = "libopen"
      /\ Top.op = "cfunction" <=> Host.call = "libopen"
  BY <1>1, Waiter
<1>3. Top.call # "libopen" /\ throw \in (IF Host.call = "libopen" THEN CErrors ELSE Errors)
  <2>1. Len(frames) # 1
    BY <1>1, AboveOne, Zenon
  <2> QED
    BY <1>1, <2>1 DEF IInv, Thrown
<1>4. UNCHANGED <<disk, globals, Guard, before, gave>>
  BY <1>1 DEF History
<1>5. ASSUME Protected(f)
      PROVE  /\ frames' = Append(Front(Front(frames)), Receive(f, "failed", <<Handled(f, throw)>>))
             /\ throw' = "none"
  BY <1>5 DEF Unwind
<1>6. ASSUME ~Protected(f)
      PROVE  frames' = Front(frames) /\ throw' = throw
  BY <1>6 DEF Unwind
<1>7. throw \in Words /\ "nil" \in Words /\ "failed" \in Words
  BY <1>3 DEF Words
<1> HIDE DEF f
<1>8. CASE Len(frames) = 2
  <2>1. f = Host /\ Host.op = "host" /\ Host.at = "running"
    BY <1>2, <1>8, TopIs DEF IInv
  <2>2. Host.call \in HostCallKinds /\ (Host.call = "luautils_require" => ~Host.trace)
    BY <1>2, <2>1 DEF IInv, HostWaits, Sound, HostFrame
  <2>3. Host.call = "libopen" => Host.trace
    BY <2>1 DEF IInv, HostWaits
  <2>4. Protected(f)
    BY <2>1, <2>2 DEF Protected, HostCallKinds
  <2> DEFINE m == Handled(f, throw)
             v == <<m>>
  <2>5. m = IF Host.call = "luautils_dofile" /\ Host.trace THEN "nil" ELSE throw
    BY <2>1 DEF Handled
  <2>6. frames' = Append(Front(Front(frames)), [Host EXCEPT !.at = "failed", !.stack = @ \o v])
        /\ throw' = "none"
    BY <1>5, <2>1, <2>4 DEF Receive
  <2> HIDE DEF m
  <2>7. m \in Messages(Host) /\ m \in Words
    BY <1>3, <1>7, <2>2, <2>5 DEF Messages, HostCallKinds
  <2>8. v \in Seq(Words) /\ \E x \in Messages(Host) : v = <<x>>
    BY <2>7
  <2> HIDE DEF v
  <2> QED
    BY <1>3, <1>4, <1>8, <2>6, <2>8, HostGets
<1>9. CASE Len(frames) # 2
  <2>1. Len(frames) > 2 /\ f.op # "host" /\ (f.op = "cfunction" <=> Host.call = "libopen")
    <3>1. Len(frames) > 2
      BY <1>1, <1>9, AboveTwo, Zenon
    <3> QED
      BY <1>2, <3>1
  <2>2. f \in Frames /\ f.call \notin {"luautils_dofile"}
    BY <1>2, <2>1 DEF Sound, Frames, DofileFrame, RequireFrame, ChunkFrame, CFrame
  <2>3. CASE f.op = "chunk" /\ Protected(f)
    <3>1. frames' = Append(Front(Front(frames)),
                           [Last(Front(frames)) EXCEPT !.at = "body", !.call = "none"])
          /\ throw' = "none" /\ Last(Front(frames)).op = "chunk"
      BY <1>5, <2>3 DEF Receive, f
    <3> QED
      BY <1>3, <1>4, <2>1, <3>1, ScriptResumes
  <2>4. CASE f.op # "chunk" /\ Protected(f)
    <3> DEFINE v == <<throw>>
               p == [f EXCEPT !.at = "failed", !.stack = @ \o v]
    <3>1. f.op \in {"dofile", "cfunction"}
      BY <1>2, <2>1, <2>2, <2>4 DEF Sound, Frames, RequireFrame, Protected
    <3>2. frames' = Append(Front(Front(frames)), p) /\ throw' = "none"
      BY <1>5, <2>2, <2>4 DEF Receive, Handled
    <3>3. f.stack \in Seq(Words) /\ f.base \in Nat
      BY <2>2 DEF Frames
    <3>4. /\ f.stack \o v \in Seq(Words) /\ Len(f.stack \o v) = Len(f.stack) + 1
          /\ f.stack \o v # <<>> /\ Last(f.stack \o v) = throw
      BY <1>7, <3>3, OneMore
    <3>5. /\ p \in Frames /\ p.op = f.op /\ p.at = "failed" /\ p.name = f.name
          /\ p.call = f.call /\ p.base = f.base /\ p.from = f.from /\ p.seen = f.seen
          /\ p.stack = f.stack \o v
      BY <1>7, <2>2, <3>4 DEF Frames
    <3> HIDE DEF v, p
    <3>6. Sound(p, disk)
      <4>1. CASE f.op = "dofile"
        <5>1. throw \in Errors
          BY <1>3, <2>1, <4>1
        <5> QED
          BY <1>2, <3>4, <3>5, <4>1, <5>1 DEF Sound, DofileFrame
      <4>2. CASE f.op = "cfunction"
        <5>1. throw \in CErrors
          BY <1>3, <2>1, <4>2
        <5>2. f.base < Len(f.stack) /\ f.call = "libopen" /\ f.seen = {}
          BY <1>2, <4>2 DEF Sound, CFrame
        <5>3. f.base < Len(f.stack \o v)
          <6>1. Len(f.stack) \in Nat
            BY <3>3, LenProperties
          <6> QED
            BY <3>3, <3>4, <5>2, <6>1
        <5> QED
          BY <3>4, <3>5, <4>2, <5>1, <5>2, <5>3 DEF Sound, CFrame
      <4> QED
        BY <3>1, <4>1, <4>2
    <3>7. /\ p.op = Last(Front(frames)).op
          /\ p.call = "libopen" <=> Last(Front(frames)).call = "libopen"
      BY <3>5 DEF f
    <3>8. gave' \in Seq(Words) /\ gave' = gave
      BY <1>4 DEF IInv, States
    <3> QED
      BY <1>3, <1>4, <2>1, <3>2, <3>5, <3>6, <3>7, <3>8, PopKeeps
  <2>5. CASE ~Protected(f)
    <3>1. f.call \in {"call", "loader"}
      <4>1. f.op \in {"dofile", "require", "chunk", "cfunction"}
        BY <2>1, <2>2 DEF Frames
      <4>2. f.op = "dofile" => f.call \in {"backup", "embedded"}
        BY <1>2 DEF Sound, DofileFrame
      <4>3. f.op = "require" => f.call = "loader"
        BY <1>2 DEF Sound, RequireFrame
      <4>4. f.op = "chunk" => f.call \in {"call", "pcall"}
        BY <1>2 DEF Sound, ChunkFrame
      <4>5. f.op = "cfunction" => f.call = "libopen"
        BY <1>2 DEF Sound, CFrame
      <4> QED
        BY <2>5, <4>1, <4>2, <4>3, <4>4, <4>5 DEF Protected
    <3>2. frames' = Front(frames) /\ throw' = throw
      BY <1>6, <2>5
    <3> QED
      BY <1>1, <2>1, <3>1, <3>2, DropKeeps DEF f
  <2> QED
    BY <2>3, <2>4, <2>5
<1> QED
  BY <1>8, <1>9

(***************************************************************************)
(* Files come and go                                                       *)
(***************************************************************************)
\* What a frame records of a file that changes.
Saw(f, n, kind) ==
  IF f.seen # {} /\ f.name = n THEN [f EXCEPT !.seen = @ \cup {kind}] ELSE f
\* The file that changes.
Becomes(d, n, kind) == [d EXCEPT ![n] = kind]

\* A frame that has seen the change is as sound as before.
LEMMA SawIs ==
  ASSUME NEW f, NEW d \in [Name -> {"none", "file", "locked"}], Sound(f, d), NEW n \in Name,
         NEW kind \in {"none", "file", "locked"},
         NEW g, g = Saw(f, n, kind), NEW e, e = Becomes(d, n, kind)
  PROVE  /\ g.op = f.op /\ g.at = f.at /\ g.name = f.name /\ g.stack = f.stack
         /\ g.base = f.base /\ g.call = f.call /\ g.from = f.from /\ g.trace = f.trace
         /\ f.seen \subseteq g.seen
         /\ f.op \notin {"dofile", "require"} => g = f
         /\ NoFile(f) /\ f.seen # {} => NoFile(g)
         /\ SomeFile(f) /\ f.seen # {} => SomeFile(g)
         /\ Sound(g, e)
<1>1. f \in Frames
  BY DEF Sound
<1>2. /\ g \in Frames /\ g.op = f.op /\ g.at = f.at /\ g.name = f.name /\ g.stack = f.stack
      /\ g.base = f.base /\ g.call = f.call /\ g.from = f.from /\ g.trace = f.trace
      /\ g.todo = f.todo
      /\ g.seen = IF f.seen # {} /\ f.name = n THEN f.seen \cup {kind} ELSE f.seen
  <2>1. CASE f.seen # {} /\ f.name = n
    <3>1. g = [f EXCEPT !.seen = @ \cup {kind}]
      BY <2>1 DEF Saw
    <3> QED
      BY <1>1, <2>1, <3>1 DEF Frames
  <2>2. CASE ~(f.seen # {} /\ f.name = n)
    BY <1>1, <2>2 DEF Saw
  <2> QED
    BY <2>1, <2>2
<1>3. f.op \notin {"dofile", "require"} => f.seen = {} /\ g = f
  BY <1>1 DEF Sound, Frames, HostFrame, ChunkFrame, CFrame, Saw
<1>4. f.seen \subseteq g.seen
  BY <1>2
<1>5. (NoFile(f) /\ f.seen # {} => NoFile(g)) /\ (SomeFile(f) /\ f.seen # {} => SomeFile(g))
  BY <1>4 DEF NoFile, SomeFile
<1>6. f.op \in {"dofile", "require"} => f.name \in Name /\ d[f.name] \in f.seen
  BY DEF Sound, DofileFrame, RequireFrame
<1>7. f.op \in {"dofile", "require"} => e[f.name] \in g.seen
  <2>1. CASE f.name = n
    BY <1>2, <1>6, <2>1 DEF Becomes
  <2>2. CASE f.name # n
    BY <1>2, <1>6, <2>2 DEF Becomes
  <2> QED
    BY <2>1, <2>2
<1>8. Sound(g, e)
  <2>1. CASE f.op = "dofile"
    <3>1. f.seen # {} /\ DofileFrame(f, d)
      BY <1>6, <2>1 DEF Sound
    <3>2. DofileFrame(g, e)
      BY <1>2, <1>4, <1>5, <1>6, <1>7, <2>1, <3>1 DEF DofileFrame
    <3> QED
      BY <1>2, <2>1, <3>2 DEF Sound
  <2>2. CASE f.op = "require"
    <3>1. f.seen # {} /\ RequireFrame(f, d)
      BY <1>6, <2>2 DEF Sound
    <3>2. RequireFrame(g, e)
      BY <1>2, <1>4, <1>5, <1>6, <1>7, <2>2, <3>1 DEF RequireFrame
    <3> QED
      BY <1>2, <2>2, <3>2 DEF Sound
  <2>3. CASE f.op \notin {"dofile", "require"}
    BY <1>2, <1>3, <2>3 DEF Sound
  <2> QED
    BY <2>1, <2>2, <2>3
<1> QED
  BY <1>2, <1>3, <1>4, <1>5, <1>8

LEMMA SawCalls ==
  ASSUME NEW d \in [Name -> {"none", "file", "locked"}], NEW fs, Calls(fs, d), NEW n \in Name,
         NEW kind \in {"none", "file", "locked"},
         NEW gs, gs = [i \in DOMAIN fs |-> Saw(fs[i], n, kind)],
         NEW e, e = Becomes(d, n, kind)
  PROVE  Calls(gs, e) /\ Len(gs) = Len(fs)
<1> DEFINE m == Len(fs)
<1>1. /\ fs \in Seq(Frames) /\ m \in 1 .. MaxFrames /\ fs[1].op = "host"
      /\ \A i \in 1 .. m : Sound(fs[i], d)
      /\ \A i \in 2 .. m : Waits(fs[i - 1], fs[i])
      /\ \A i \in 2 .. m : fs[i].op = "cfunction" <=> fs[1].call = "libopen"
  BY DEF Calls
<1>2. m \in Nat /\ DOMAIN fs = 1 .. m /\ 1 \in 1 .. m
  BY <1>1, LenProperties, LoaderAssumption
<1>3. gs = [i \in 1 .. m |-> Saw(fs[i], n, kind)]
  BY <1>2
<1> HIDE DEF m
<1>4. ASSUME NEW i \in 1 .. m
      PROVE  /\ gs[i].op = fs[i].op /\ gs[i].at = fs[i].at /\ gs[i].call = fs[i].call
             /\ Sound(gs[i], e) /\ gs[i] \in Frames
  <2>1. gs[i] = Saw(fs[i], n, kind) /\ Sound(fs[i], d)
    BY <1>1, <1>3
  <2>2. gs[i].op = fs[i].op /\ gs[i].at = fs[i].at /\ gs[i].call = fs[i].call /\ Sound(gs[i], e)
    BY <2>1, SawIs
  <2> QED
    BY <2>2 DEF Sound
<1>5. gs \in Seq(Frames) /\ Len(gs) = m
  <2>1. gs \in [1 .. m -> Frames]
    BY <1>3, <1>4
  <2> QED
    BY <1>2, <2>1, SeqDef, LenProperties
<1>6. ASSUME NEW i \in 2 .. m
      PROVE  Waits(gs[i - 1], gs[i]) /\ (gs[i].op = "cfunction" <=> gs[1].call = "libopen")
  <2>1. i \in 1 .. m /\ i - 1 \in 1 .. m
    BY <1>2
  <2>2. Waits(fs[i - 1], fs[i]) /\ (fs[i].op = "cfunction" <=> fs[1].call = "libopen")
    BY <1>1
  <2>3. /\ gs[i - 1].op = fs[i - 1].op /\ gs[i - 1].at = fs[i - 1].at
        /\ gs[i - 1].call = fs[i - 1].call /\ gs[i].op = fs[i].op /\ gs[1].call = fs[1].call
    BY <1>2, <1>4, <2>1
  <2> QED
    BY <2>2, <2>3 DEF Waits
<1>7. gs[1].op = "host"
  BY <1>1, <1>2, <1>4
<1>8. Calls(gs, e)
  BY <1>1, <1>4, <1>5, <1>6, <1>7 DEF Calls
<1> QED
  BY <1>5, <1>8 DEF m

LEMMA StepChange ==
  ASSUME IInv, NEW n \in Name, Change(n)
  PROVE  IInv'
<1>1. /\ Calls(frames, disk) /\ States /\ HostWaits /\ HostStackExact /\ Outermost /\ GuardTargetLive
      /\ Thrown /\ Reason
      /\ disk \in [Name -> {"none", "file", "locked"}] /\ safeguard \in 0 .. MaxFrames
  BY DEF IInv, States
<1>2. PICK kind \in Kinds(n) \ {disk[n]} : disk' = Becomes(disk, n, kind)
  BY DEF Change, Becomes
<1>3. kind \in {"none", "file", "locked"} /\ disk'[n] = kind
  BY <1>1, <1>2 DEF Kinds, Becomes
<1>4. /\ UNCHANGED <<globals, throw, Guard, History>> /\ before' = before /\ gave' = gave
      /\ handler' = handler /\ safeguard' = safeguard
  BY DEF Change, History, Guard
<1>5. frames' = [i \in DOMAIN frames |-> Saw(frames[i], n, kind)]
  BY <1>3 DEF Change, Saw
<1>6. Calls(frames', disk') /\ Len(frames') = Len(frames)
  BY <1>1, <1>2, <1>3, <1>5, SawCalls
<1>7. Calls(frames, disk)'
  BY <1>6, Zenon
<1>8. /\ Len(frames) \in Nat /\ Len(frames) >= 1 /\ Top = frames[Len(frames)]
      /\ Host.op = "host"
  BY <1>1, TopIs
<1>9. DOMAIN frames = 1 .. Len(frames)
  BY <1>1, LenProperties DEF Calls
<1>10. ASSUME NEW i \in 1 .. Len(frames)
       PROVE  /\ frames'[i] = Saw(frames[i], n, kind) /\ Sound(frames[i], disk)
  BY <1>1, <1>5, <1>9 DEF Calls
<1>11. ASSUME NEW i \in 1 .. Len(frames)
       PROVE  /\ frames'[i].op = frames[i].op /\ frames'[i].at = frames[i].at
              /\ frames'[i].stack = frames[i].stack /\ frames'[i].base = frames[i].base
              /\ frames'[i].call = frames[i].call /\ frames'[i].from = frames[i].from
              /\ frames'[i].name = frames[i].name /\ frames[i].seen \subseteq frames'[i].seen
              /\ frames[i].op \notin {"dofile", "require"} => frames'[i] = frames[i]
              /\ NoFile(frames[i]) /\ frames[i].seen # {} => NoFile(frames'[i])
              /\ SomeFile(frames[i]) /\ frames[i].seen # {} => SomeFile(frames'[i])
  BY <1>1, <1>2, <1>3, <1>10, SawIs
<1>12. Host' = Host
  <2>1. 1 \in 1 .. Len(frames)
    BY <1>8
  <2> QED
    BY <1>8, <1>11, <2>1 DEF Host
<1>13. States'
  <2>1. disk' \in [Name -> {"none", "file", "locked"}] /\ \A x \in Name : disk'[x] \in Kinds(x)
    BY <1>1, <1>2, <1>3 DEF States, Becomes
  <2> QED
    BY <1>1, <1>4, <1>6, <2>1 DEF States
<1>14. HostWaits' /\ HostStackExact'
  <2>1. HostStackExact'
    BY <1>1, <1>4, <1>12 DEF HostStackExact
  <2>2. ASSUME NEW v, Left(Host, v)
        PROVE  Left(Host, v)'
    BY <1>4, <1>12, <2>2 DEF Left
  <2>3. HostWaits'
    BY <1>1, <1>4, <1>6, <1>12, <2>2 DEF HostWaits
  <2> QED
    BY <2>1, <2>3
<1>15. Outermost'
  <2>1. CASE Len(frames) > 1
    <3>1. 2 \in 1 .. Len(frames)
      BY <1>8, <2>1
    <3>2. /\ frames'[2].op = frames[2].op /\ frames'[2].at = frames[2].at
          /\ DofileResults(frames'[2]) = DofileResults(frames[2])
      BY <1>11, <3>1 DEF DofileResults
    <3>3. DofileResults(frames[2])' = DofileResults(frames'[2])
      BY DEF DofileResults
    <3> QED
      BY <1>1, <1>4, <1>12, <2>1, <3>2, <3>3 DEF Outermost
  <2>2. CASE ~(Len(frames) > 1)
    BY <1>6, <2>2 DEF Outermost
  <2> QED
    BY <2>1, <2>2
<1>16. /\ Top' = frames'[Len(frames)] /\ Len(frames) \in 1 .. Len(frames)
       /\ Sound(Top, disk)
  BY <1>1, <1>6, <1>8, TopIs DEF Top, Last
<1>17. /\ Top'.op = Top.op /\ Top'.at = Top.at /\ Top'.call = Top.call /\ Top'.from = Top.from
       /\ Top'.name = Top.name /\ Top'.stack = Top.stack /\ Top.seen \subseteq Top'.seen
       /\ NoFile(Top) /\ Top.seen # {} => NoFile(Top')
       /\ SomeFile(Top) /\ Top.seen # {} => SomeFile(Top')
  BY <1>8, <1>11, <1>16
<1>18. Thrown'
  BY <1>1, <1>4, <1>6, <1>12, <1>17 DEF Thrown
<1>19. Reason'
  <2>1. Top.op \in {"dofile", "require"} => Top.seen # {}
    BY <1>16 DEF Sound, DofileFrame, RequireFrame
  <2>2. Failure' = Failure
    BY <1>4, <1>17 DEF Failure
  <2> SUFFICES ASSUME Top.op \in {"dofile", "require"}, Top.from = "none", Failure # "none"
               PROVE  IF Failure = "loop" THEN Top.op = "require" ELSE Cause(Failure)'
    BY <1>17, <2>2 DEF Reason
  <2>3. IF Failure = "loop" THEN Top.op = "require" ELSE Cause(Failure)
    BY <1>1 DEF Reason
  <2>4. /\ Top.seen # {"file"} => Top'.seen # {"file"}
        /\ Top.seen # {"none"} => Top'.seen # {"none"}
    BY <1>17, <2>1
  <2> QED
    BY <1>17, <2>2, <2>3, <2>4 DEF Cause, Resource
<1>20. GuardTargetLive'
  <2>1. \A i \in 1 .. Len(frames) : frames'[i].call = "libopen" <=> frames[i].call = "libopen"
    BY <1>11
  <2>2. \A i \in Len(frames) + 1 .. Len(frames) : FALSE
    BY <1>8
  <2>3. safeguard \in Nat
    BY <1>1, LoaderAssumption
  <2> QED
    BY <1>1, <1>4, <1>6, <1>7, <1>8, <2>1, <2>2, <2>3, GuardKept
<1> QED
  BY <1>7, <1>13, <1>14, <1>15, <1>18, <1>19, <1>20 DEF IInv

(***************************************************************************)
(* The host                                                                *)
(***************************************************************************)
LEMMA OneCall ==
  ASSUME NEW d, NEW h, Sound(h, d), h.op = "host"
  PROVE  Calls(<<h>>, d) /\ Len(<<h>>) = 1 /\ <<h>>[1] = h
<1>1. h \in Frames
  BY DEF Sound
<1>2. <<h>> \in Seq(Frames) /\ Len(<<h>>) = 1 /\ <<h>>[1] = h
  BY <1>1
<1>3. 1 \in 1 .. MaxFrames
  BY LoaderAssumption
<1>4. \A i \in 1 .. 1 : i = 1
  OBVIOUS
<1>5. \A i \in 2 .. 1 : FALSE
  OBVIOUS
<1> DEFINE s == <<h>>
<1>6. s \in Seq(Frames) /\ Len(s) = 1 /\ s[1] = h
  BY <1>2
<1> HIDE DEF s
<1>7. Calls(s, d)
  BY <1>3, <1>4, <1>5, <1>6 DEF Calls
<1> QED
  BY <1>2, <1>7 DEF s

\* The host and the call it has made.
LEMMA TwoCalls ==
  ASSUME NEW d, NEW h, Sound(h, d), h.op = "host", 1 < MaxFrames,
         NEW g, Sound(g, d), Waits(h, g)
  PROVE  /\ Calls(<<h, g>>, d) /\ Len(<<h, g>>) = 2 /\ <<h, g>>[1] = h /\ <<h, g>>[2] = g
<1>1. h \in Frames /\ g \in Frames
  BY DEF Sound
<1> DEFINE s == <<h, g>>
<1>2. s \in Seq(Frames) /\ Len(s) = 2 /\ s[1] = h /\ s[2] = g
  BY <1>1
<1> HIDE DEF s
<1>3. 2 \in 1 .. MaxFrames
  BY LoaderAssumption
<1>4. (\A i \in 1 .. 2 : i = 1 \/ i = 2) /\ \A i \in 2 .. 2 : i = 2 /\ i - 1 = 1
  OBVIOUS
<1>5. \A i \in 1 .. 2 : Sound(s[i], d)
  BY <1>2, <1>4
<1>6. \A i \in 2 .. 2 : Waits(s[i - 1], s[i]) /\ (s[i].op = "cfunction" <=> s[1].call = "libopen")
  BY <1>2, <1>4 DEF Waits
<1>7. Calls(s, d)
  BY <1>2, <1>3, <1>5, <1>6 DEF Calls
<1> QED
  BY <1>2, <1>7 DEF s

\* The only frame.
LEMMA JustOne ==
  ASSUME NEW n \in Nat, n >= 1, ~(n > 1)
  PROVE  n = 1
OBVIOUS

\* The host on top.
LEMMA HostTop ==
  ASSUME IInv, Top.op = "host"
  PROVE  /\ Len(frames) = 1 /\ Top = Host /\ Host.op = "host" /\ Sound(Host, disk) /\ Host \in Frames
         /\ Host.at # "running" /\ Host.call # "libopen" => ~handler
<1>1. /\ Len(frames) \in Nat /\ Len(frames) >= 1 /\ ~(Len(frames) > 1) /\ Top = frames[Len(frames)]
      /\ Host.op = "host" /\ Sound(Host, disk)
  BY TopIs DEF IInv
<1>2. Len(frames) = 1
  BY <1>1, JustOne, Zenon
<1>3. Top = Host
  BY <1>1, <1>2 DEF Host
<1>4. Host.at # "running"
  BY <1>1 DEF IInv, HostWaits
<1>5. ASSUME handler PROVE Host.call = "libopen"
  <2>1. DOMAIN frames = 1 .. Len(frames)
    BY LenProperties DEF IInv, Calls
  <2>2. safeguard \in 1 .. Len(frames) /\ frames[safeguard].call = "libopen"
    BY <1>5, <2>1 DEF IInv, GuardTargetLive
  <2>3. safeguard = 1
    BY <1>2, <2>2
  <2> QED
    BY <2>2, <2>3 DEF Host
<1> QED
  BY <1>1, <1>2, <1>3, <1>4, <1>5 DEF Sound

\* The host alone, its call over.
LEMMA HostKeeps ==
  ASSUME IInv, Top.op = "host", handler' \in BOOLEAN, ~handler', safeguard' = safeguard,
         NEW h, Sound(h, disk), h.op = "host", h.at \notin {"running", "returned", "failed"},
         throw' \in {"none"} \cup Errors \cup CErrors, throw' # "none" => h.call = "panic",
         frames' = <<h>>, globals' = globals, disk' = disk,
         before' \in Seq(Words), gave' \in Seq(Words), HostStackExact'
  PROVE  IInv'
<1>1. Calls(frames', disk) /\ Len(frames') = 1 /\ frames'[1] = h
  BY OneCall
<1>2. Calls(frames, disk)'
  <2>1. Calls(frames', disk')
    BY <1>1, Zenon
  <2> QED
    BY <2>1, Zenon
<1>3. Host' = h
  BY <1>1 DEF Host
<1>4. States'
  <2>1. ~(Len(frames') > 1)
    BY <1>1
  <2> QED
    BY <2>1 DEF IInv, States
<1>5. HostWaits'
  BY <1>1, <1>3 DEF HostWaits
<1>6. Top' = h
  BY <1>1 DEF Top, Last
<1>7. Outermost' /\ Thrown' /\ GuardTargetLive'
  BY <1>1, <1>3, <1>6 DEF Outermost, Thrown, GuardTargetLive
<1>8. Reason'
  BY <1>6 DEF Reason, Failure, Cause
<1> QED
  BY <1>2, <1>4, <1>5, <1>7, <1>8 DEF IInv

\* The host makes a call.
LEMMA HostStarts ==
  ASSUME IInv, NEW kind \in HostCallKinds, NEW trace \in BOOLEAN, NEW pushed, NEW g,
         HostCalls(kind, pushed, trace, g), pushed = IF trace THEN <<"handler">> ELSE <<>>,
         kind = "luautils_require" => ~trace, kind = "libopen" => trace,
         Sound(g, disk), g.at # "returned", g.call # "libopen", g.op \notin {"host", "chunk"},
         kind = "luautils_dofile" => g.op = "dofile", kind = "luautils_require" => g.op = "require",
         kind = "libopen" <=> g.op = "cfunction",
         handler' \in BOOLEAN, safeguard' \in 0 .. MaxFrames,
         handler' => safeguard' = 1 /\ kind = "libopen"
  PROVE  IInv'
<1>1. /\ throw = "none" /\ Top.op = "host" /\ globals.dofile = "override" /\ 1 < MaxFrames
      /\ before' = Host.stack /\ gave' = <<>> /\ UNCHANGED <<disk, globals, throw>>
      /\ frames' = <<[Host EXCEPT !.at = "running", !.call = kind, !.trace = trace,
                                  !.base = Len(Host.stack), !.stack = @ \o pushed], g>>
  <2>1. Top.op = "host" /\ throw = "none"
    BY DEF HostCalls, Running
  <2>2. Len(frames) = 1
    BY <2>1, HostTop
  <2> QED
    BY <2>1, <2>2 DEF HostCalls
<1>2. Host \in Frames /\ Host.op = "host" /\ Sound(Host, disk)
  BY <1>1, HostTop
<1> DEFINE h == [Host EXCEPT !.at = "running", !.call = kind, !.trace = trace,
                             !.base = Len(Host.stack), !.stack = @ \o pushed]
<1>3. Host.stack \in Seq(Words) /\ Len(Host.stack) \in Nat /\ Host.seen = {}
  <2>1. Host.stack \in Seq(Words) /\ Host.seen = {}
    BY <1>2 DEF Frames, Sound, HostFrame
  <2> QED
    BY <2>1, LenProperties
<1>4. Host.stack \o pushed \in Seq(Words)
  BY <1>3, HandlerBelow
<1>5. kind \in Words /\ "running" \in Words
  BY DEF Words, HostCallKinds
<1>6. /\ h \in Frames /\ h.op = "host" /\ h.at = "running" /\ h.call = kind /\ h.trace = trace
      /\ h.base = Len(Host.stack) /\ h.seen = {} /\ h.stack = Host.stack \o pushed
  BY <1>2, <1>3, <1>4, <1>5 DEF Frames
<1>7. frames' = <<h, g>>
  BY <1>1
<1> HIDE DEF h
<1>8. Sound(h, disk)
  BY <1>6 DEF Sound, HostFrame
<1>9. Waits(h, g)
  BY <1>6 DEF Waits
<1>10. Calls(frames', disk) /\ Len(frames') = 2 /\ frames'[1] = h /\ frames'[2] = g
  BY <1>1, <1>6, <1>7, <1>8, <1>9, TwoCalls
<1>11. Calls(frames, disk)'
  <2>1. Calls(frames', disk')
    BY <1>1, <1>10, Zenon
  <2> QED
    BY <2>1, Zenon
<1>12. Host' = h
  BY <1>10 DEF Host
<1>13. <<>> \in Seq(Words)
  BY EmptySeq
<1>14. States'
  BY <1>1, <1>3, <1>13 DEF IInv, States
<1>15. HostWaits' /\ HostStackExact'
  <2>1. HostStackExact'
    BY <1>6, <1>12 DEF HostStackExact
  <2>2. Left(Host, <<>>)'
    BY <1>6, <1>12 DEF Left
  <2>3. h.stack = (before' \o (IF h.trace THEN <<"handler">> ELSE <<>>)) \o <<>>
    <3>1. h.stack = before' \o (IF h.trace THEN <<"handler">> ELSE <<>>)
      BY <1>1, <1>6
    <3>2. h.stack \in Seq(Words)
      BY <1>4, <1>6
    <3> QED
      BY <3>1, <3>2, ConcatEmptySeq
  <2>4. /\ h.at = "running" /\ h.base = Len(before') /\ Len(frames') > 1
        /\ h.call = "luautils_require" => ~h.trace
        /\ h.call = "libopen" => h.trace
    BY <1>1, <1>6, <1>10
  <2>5. HostWaits'
    BY <1>12, <1>13, <2>2, <2>3, <2>4 DEF HostWaits
  <2> QED
    BY <2>1, <2>5
<1>16. Outermost' /\ Thrown'
  BY <1>1, <1>6, <1>10, <1>12 DEF Outermost, Thrown
<1>17. Reason'
  BY <1>1, <1>11, QuietReasonNext DEF Quiet
<1>18. GuardTargetLive'
  <2>1. DOMAIN frames' = 1 .. 2
    <3>1. frames' \in Seq(Frames)
      BY <1>11 DEF Calls
    <3> QED
      BY <1>10, <3>1, LenProperties
  <2>2. frames'[1].call = kind /\ frames'[2].call # "libopen"
    BY <1>6, <1>10
  <2>3. \A i \in 1 + 1 .. Len(frames') : i = 2
    BY <1>10
  <2> QED
    BY <2>1, <2>2, <2>3 DEF GuardTargetLive
<1> QED
  BY <1>11, <1>14, <1>15, <1>16, <1>17, <1>18 DEF IInv

(***************************************************************************)
(* What a call leaves on the host's stack                                  *)
(***************************************************************************)
LEMMA PartIs ==
  ASSUME NEW S, NEW s \in Seq(S), NEW m \in Int, m >= 1, NEW n \in Int, n <= Len(s)
  PROVE  SubSeq(s, m, n) \in Seq(S)
<1>1. Len(s) \in Nat /\ \A i \in 1 .. Len(s) : s[i] \in S
  BY ElementOfSeq
<1>2. \A i \in m .. n : s[i] \in S
  BY <1>1
<1> QED
  BY <1>2, SubSeqProperties

\* The part of a concatenation up to the second sequence.
LEMMA BeforeIs ==
  ASSUME NEW S, NEW s \in Seq(S), NEW t \in Seq(S)
  PROVE  SubSeq(s \o t, 1, Len(s)) = s
<1>1. Len(s) \in Nat
  BY LenProperties
<1>2. CASE s = <<>>
  <2>1. Len(s) = 0
    BY <1>2
  <2> QED
    BY <1>2, <2>1, SubSeqEmpty
<1>3. CASE s # <<>>
  <2>1. Len(s) \in Nat \ {0}
    BY <1>3, EmptySeq
  <2>2. 1 \in 1 .. Len(s) /\ Len(s) \in 1 .. Len(s)
    BY <2>1
  <2> QED
    BY <2>2, SubSeqOfConcat1, SubSeqFull
<1> QED
  BY <1>2, <1>3

\* A value more, taken off again.
LEMMA FrontLast ==
  ASSUME NEW S, NEW s \in Seq(S), NEW e \in S
  PROVE  Front(s \o <<e>>) = s /\ Last(s \o <<e>>) = e
<1>1. Len(s \o <<e>>) = Len(s) + 1 /\ Last(s \o <<e>>) = e /\ Len(s) \in Nat
  BY OneMore, LenProperties
<1>2. <<e>> \in Seq(S)
  OBVIOUS
<1>3. Len(s \o <<e>>) - 1 = Len(s)
  BY <1>1
<1> QED
  BY <1>1, <1>2, <1>3, BeforeIs DEF Front

\* A value in the middle of a sequence is removed.
LEMMA RemoveIs ==
  ASSUME NEW S, NEW s \in Seq(S), NEW e \in S, NEW t \in Seq(S)
  PROVE  RemoveAt((s \o <<e>>) \o t, Len(s) + 1) = s \o t
<1> DEFINE r == s \o <<e>>
           u == r \o t
           i == Len(s) + 1
<1>1. <<e>> \in Seq(S)
  OBVIOUS
<1>2. r \in Seq(S) /\ Len(r) = Len(s) + 1 /\ Len(s) \in Nat
  BY OneMore, LenProperties
<1>3. r \o t = s \o (<<e>> \o t) /\ <<e>> \o t \in Seq(S)
  BY <1>1, ConcatAssociative, ConcatProperties
<1>4. SubSeq(r \o t, 1, Len(s)) = s
  BY <1>3, BeforeIs
<1> HIDE DEF r
<1>5. SubSeq(r \o t, Len(r) + 1, Len(r \o t)) = t
  BY <1>2, BehindIs
<1>6. i \in Nat /\ i - 1 = Len(s) /\ i + 1 = Len(r) + 1
  BY <1>2
<1> HIDE DEF i
<1>7. SubSeq(u, 1, i - 1) = s
  BY <1>4, <1>6
<1>8. SubSeq(u, i + 1, Len(u)) = t
  BY <1>5, <1>6
<1> HIDE DEF u
<1>9. RemoveAt(u, i) = s \o t
  BY <1>7, <1>8 DEF RemoveAt
<1> QED
  BY <1>9 DEF r, u, i

\* What remains is a sequence of the same values.
LEMMA RemoveSeq ==
  ASSUME NEW S, NEW s \in Seq(S), NEW i \in Nat, i < Len(s)
  PROVE  RemoveAt(s, i + 1) \in Seq(S)
<1>1. Len(s) \in Nat
  BY LenProperties
<1>2. SubSeq(s, 1, i + 1 - 1) \in Seq(S)
  BY <1>1, PartIs
<1>3. SubSeq(s, i + 1 + 1, Len(s)) \in Seq(S)
  BY <1>1, PartIs
<1> QED
  BY <1>2, <1>3, ConcatProperties DEF RemoveAt

\* The handler is found where luautils_dofile and libopen have put it.
LEMMA HandlerGone ==
  ASSUME NEW s \in Seq(Words), NEW v \in Seq(Words), NEW h, h.base = Len(s),
         h.stack = (s \o (IF h.trace THEN <<"handler">> ELSE <<>>)) \o v
  PROVE  WithoutHandler(h) = s \o v
<1>1. CASE h.trace
  <2>1. "handler" \in Words
    BY DEF Words
  <2>2. h.stack = (s \o <<"handler">>) \o v
    BY <1>1
  <2> QED
    BY <1>1, <2>1, <2>2, RemoveIs DEF WithoutHandler
<1>2. CASE ~h.trace
  <2>1. h.stack = (s \o <<>>) \o v
    BY <1>2
  <2>2. s \o <<>> = s
    BY ConcatEmptySeq
  <2> QED
    BY <1>2, <2>1, <2>2 DEF WithoutHandler
<1> QED
  BY <1>1, <1>2

(***************************************************************************)
(* The steps of the host                                                   *)
(***************************************************************************)
LEMMA StepHostDofile ==
  ASSUME IInv, NEW n \in Name, NEW trace \in BOOLEAN, HostDofile(n, trace)
  PROVE  IInv'
<1> DEFINE g == Frame("dofile", "enter", n, <<"name">>)
           pushed == IF trace THEN <<"handler">> ELSE <<>>
<1>1. HostCalls("luautils_dofile", pushed, trace, g) /\ UNCHANGED Guard
  BY DEF HostDofile
<1>2. Top.op = "host" /\ Host.at # "running" /\ Host.call # "libopen" /\ globals.dofile = "override"
  <2>1. Top.op = "host" /\ Top.at = "idle" /\ globals.dofile = "override"
    BY <1>1 DEF HostCalls, Running
  <2> QED
    BY <2>1, HostTop DEF Sound, HostFrame
<1>3. ~handler /\ handler' = handler /\ safeguard' = safeguard
  BY <1>1, <1>2, HostTop DEF Guard
<1>4. handler' \in BOOLEAN /\ safeguard' \in 0 .. MaxFrames
  BY <1>3 DEF IInv, States
<1>5. globals.loaders = <<"path", "symbols">> /\ disk[n] \in {"none", "file", "locked"}
  BY <1>2 DEF IInv, States
<1>6. Sound(g, disk) /\ g.op = "dofile" /\ g.call = "none" /\ g.at = "enter"
  BY <1>5, NewDofile
<1> HIDE DEF g
<1>7. pushed = IF trace THEN <<"handler">> ELSE <<>>
  OBVIOUS
<1> HIDE DEF pushed
<1> QED
  BY <1>1, <1>3, <1>4, <1>6, <1>7, HostStarts DEF HostCallKinds

LEMMA StepHostRequire ==
  ASSUME IInv, NEW n \in Name, HostRequire(n)
  PROVE  IInv'
<1> DEFINE g == Frame("require", "enter", n, <<>>)
<1>1. HostCalls("luautils_require", <<>>, FALSE, g) /\ UNCHANGED Guard
  BY DEF HostRequire
<1>2. Top.op = "host" /\ Host.at # "running" /\ Host.call # "libopen" /\ globals.dofile = "override"
  <2>1. Top.op = "host" /\ Top.at = "idle" /\ globals.dofile = "override"
    BY <1>1 DEF HostCalls, Running
  <2> QED
    BY <2>1, HostTop DEF Sound, HostFrame
<1>3. ~handler /\ handler' = handler /\ safeguard' = safeguard
  BY <1>1, <1>2, HostTop DEF Guard
<1>4. handler' \in BOOLEAN /\ safeguard' \in 0 .. MaxFrames
  BY <1>3 DEF IInv, States
<1>5. globals.loaders = <<"path", "symbols">> /\ disk[n] \in {"none", "file", "locked"}
  BY <1>2 DEF IInv, States
<1>6. Sound(g, disk) /\ g.op = "require" /\ g.call = "none" /\ g.at = "enter"
  BY <1>5, NewRequire
<1> HIDE DEF g
<1> QED
  BY <1>1, <1>3, <1>4, <1>6, HostStarts DEF HostCallKinds

\* A C function, as it begins.
LEMMA NewCFunction ==
  Sound(CFunction, disk) /\ CFunction.op = "cfunction" /\ CFunction.call = "none" /\ CFunction.at = "body"
<1>1. <<>> \in Seq(Words) /\ Len(<<>>) = 0
  BY EmptySeq
<1> QED
  BY <1>1 DEF CFunction, Frame, Sound, Frames, CFrame, Words

LEMMA StepHostLibopen ==
  ASSUME IInv, HostLibopen
  PROVE  IInv'
<1>1. HostCalls("libopen", <<"handler">>, TRUE, CFunction) /\ Arm
  BY DEF HostLibopen
<1>2. Len(frames) = 1
  BY <1>1, HostTop DEF HostCalls, Running
<1>3. handler' = TRUE /\ safeguard' = 1 /\ safeguard' \in 0 .. MaxFrames
  BY <1>1, <1>2, LoaderAssumption DEF Arm
<1> QED
  BY <1>1, <1>3, NewCFunction, HostStarts DEF HostCallKinds

LEMMA StepOpenSymbols ==
  ASSUME IInv, OpenSymbols
  PROVE  IInv'
<1>1. /\ throw' = throw /\ disk' = disk /\ frames' = frames /\ before' = before /\ gave' = gave
      /\ handler' = handler /\ safeguard' = safeguard
      /\ globals.backup = "nil"
      /\ globals' = [dofile |-> "override", backup |-> globals.dofile,
                     loaders |-> AppendLoader(globals.loaders)]
  BY DEF OpenSymbols, Guard, History
<1>2. globals = [dofile |-> "stock", backup |-> "nil", loaders |-> <<"path">>]
  BY <1>1 DEF IInv, States
<1>3. globals' = [dofile |-> "override", backup |-> "stock", loaders |-> <<"path", "symbols">>]
  BY <1>1, <1>2 DEF AppendLoader
<1>4. Calls(frames, disk)'
  <2>1. Calls(frames', disk')
    BY <1>1, Zenon DEF IInv
  <2> QED
    BY <2>1, Zenon
<1>5. Top' = Top /\ Host' = Host
  BY <1>1 DEF Top, Host
<1>6. States'
  <2>1. globals' \in {[dofile |-> "stock", backup |-> "nil", loaders |-> <<"path">>],
                      [dofile |-> "override", backup |-> "stock", loaders |-> <<"path", "symbols">>]}
    BY <1>3
  <2>2. globals'.dofile = "override"
    BY <1>3
  <2>3. disk' = disk /\ throw' = throw /\ before' = before /\ gave' = gave
        /\ handler' = handler /\ safeguard' = safeguard
    BY <1>1
  <2> QED
    BY <2>1, <2>2, <2>3 DEF IInv, States
<1>7. HostWaits'
  <2>1. ASSUME NEW v, Left(Host, v)
        PROVE  Left(Host, v)'
    BY <1>1, <1>5, <2>1 DEF Left
  <2> QED
    BY <1>1, <1>5, <2>1 DEF IInv, HostWaits
<1>8. Outermost' /\ Thrown' /\ GuardTargetLive' /\ HostStackExact'
  BY <1>1, <1>5 DEF IInv, Outermost, Thrown, GuardTargetLive, HostStackExact, DofileResults
<1>9. Reason'
  BY <1>1, <1>5 DEF IInv, Reason, Failure, Cause
<1> QED
  BY <1>4, <1>6, <1>7, <1>8, <1>9 DEF IInv

\* Once the host's call is over, no exception is sent to it.
LEMMA NoHandler ==
  ASSUME IInv, Top.op = "host", Host.call # "libopen"
  PROVE  handler = FALSE /\ Host.at # "running"
<1>1. Host.at # "running"
  <2>1. Len(frames) = 1
    BY HostTop
  <2>2. ~(Len(frames) > 1)
    BY <2>1
  <2> QED
    BY <2>2 DEF IInv, HostWaits
<1>2. ~handler
  BY <1>1, HostTop
<1>3. handler \in BOOLEAN
  BY DEF IInv, States
<1> QED
  BY <1>1, <1>2, <1>3

LEMMA StepRequireGone ==
  ASSUME IInv, RequireGone
  PROVE  IInv'
<1> DEFINE h == [Host EXCEPT !.at = "error", !.call = "getfunction", !.base = Len(Host.stack)]
<1>1. /\ Top.op = "host" /\ Top.at = "idle" /\ throw' = "none"
      /\ frames' = <<h>> /\ before' = Host.stack /\ gave' = <<>>
      /\ disk' = disk /\ globals' = globals /\ handler' = handler /\ safeguard' = safeguard
  BY DEF RequireGone, Running, Guard
<1>2. Top = Host /\ Host.op = "host" /\ Sound(Host, disk) /\ Host \in Frames
  BY <1>1, HostTop
<1>3. Host.call # "libopen" /\ Host.seen = {}
  BY <1>1, <1>2 DEF Sound, HostFrame
<1>4. Host.stack \in Seq(Words) /\ Len(Host.stack) \in Nat /\ <<>> \in Seq(Words)
  <2>1. Host.stack \in Seq(Words)
    BY <1>2 DEF Frames
  <2> QED
    BY <2>1, LenProperties, EmptySeq
<1>5. /\ h \in Frames /\ h.op = "host" /\ h.at = "error" /\ h.call = "getfunction" /\ h.seen = {}
      /\ h.stack = Host.stack
  <2>1. "error" \in Words /\ "getfunction" \in Words
    BY DEF Words
  <2> QED
    BY <1>2, <1>3, <1>4, <2>1 DEF Frames
<1> HIDE DEF h
<1>6. Sound(h, disk)
  BY <1>5 DEF Sound, HostFrame
<1>7. handler' \in BOOLEAN /\ ~handler'
  BY <1>1, <1>3, NoHandler
<1>8. HostStackExact'
  <2>1. Host' = h
    BY <1>1, <1>5, <1>6, OneCall DEF Host
  <2> QED
    BY <1>1, <1>5, <2>1 DEF HostStackExact
<1> QED
  BY <1>1, <1>4, <1>5, <1>6, <1>7, <1>8, HostKeeps

LEMMA StepSettle ==
  ASSUME IInv, NEW k \in 0 .. MaxStack, Settle(k)
  PROVE  IInv'
<1> DEFINE s == [i \in 1 .. k |-> "value"]
           h == [Host EXCEPT !.at = "idle", !.stack = s]
<1>1. /\ Top.op = "host" /\ Top.at \in {"done", "error"} /\ throw' = "none"
      /\ frames' = <<h>> /\ before' = before /\ gave' = gave
      /\ disk' = disk /\ globals' = globals /\ handler' = handler /\ safeguard' = safeguard
  BY DEF Settle, Running, Guard, History
<1>2. Top = Host /\ Host.op = "host" /\ Sound(Host, disk) /\ Host \in Frames
  BY <1>1, HostTop
<1>3. Host.call # "libopen" /\ Host.seen = {}
  BY <1>1, <1>2 DEF Sound, HostFrame
<1>4. s \in Seq(Words)
  <2>1. "value" \in Words /\ k \in Nat
    BY LoaderAssumption DEF Words
  <2> QED
    BY <2>1
<1> HIDE DEF s
<1>5. /\ h \in Frames /\ h.op = "host" /\ h.at = "idle" /\ h.call = Host.call /\ h.seen = {}
  <2>1. "idle" \in Words
    BY DEF Words
  <2> QED
    BY <1>2, <1>3, <1>4, <2>1 DEF Frames
<1> HIDE DEF h
<1>6. Sound(h, disk)
  BY <1>3, <1>5 DEF Sound, HostFrame
<1>7. handler' \in BOOLEAN /\ ~handler'
  BY <1>1, <1>3, NoHandler
<1>8. HostStackExact'
  <2>1. Host' = h
    BY <1>1, <1>5, <1>6, OneCall DEF Host
  <2> QED
    BY <1>5, <2>1 DEF HostStackExact
<1>9. before' \in Seq(Words) /\ gave' \in Seq(Words)
  BY <1>1 DEF IInv, States
<1> QED
  BY <1>1, <1>5, <1>6, <1>7, <1>8, <1>9, HostKeeps

LEMMA StepHostEnd ==
  ASSUME IInv, HostEnd
  PROVE  IInv'
<1> DEFINE s == WithoutHandler(Host)
           h == [Host EXCEPT !.at = Ended(Host.at), !.stack = s]
<1>1. /\ Top.op = "host" /\ Top.at \in {"returned", "failed"} /\ throw' = "none"
      /\ Top.call \in {"luautils_dofile", "luautils_require"}
      /\ frames' = <<[Top EXCEPT !.at = Ended(Top.at), !.stack = WithoutHandler(Top)]>>
      /\ before' = before /\ gave' = gave
      /\ disk' = disk /\ globals' = globals /\ handler' = handler /\ safeguard' = safeguard
  BY DEF HostEnd, Guard, History
<1>2. /\ Top = Host /\ Host.op = "host" /\ Sound(Host, disk) /\ Host \in Frames /\ Host.seen = {}
      /\ Host.at \in {"returned", "failed"} /\ Host.call \in {"luautils_dofile", "luautils_require"}
  BY <1>1, HostTop DEF Sound, HostFrame
<1>3. frames' = <<h>>
  BY <1>1, <1>2
<1>4. before \in Seq(Words) /\ gave \in Seq(Words)
  BY DEF IInv, States
<1>5. /\ Host.base = Len(before)
      /\ \E v \in Seq(Words) :
           /\ Host.stack = (before \o (IF Host.trace THEN <<"handler">> ELSE <<>>)) \o v
           /\ Left(Host, v)
  BY <1>2 DEF IInv, HostWaits
<1>6. PICK v \in Seq(Words) :
        /\ Host.stack = (before \o (IF Host.trace THEN <<"handler">> ELSE <<>>)) \o v
        /\ Left(Host, v)
  BY <1>5
<1>7. s = before \o v /\ s \in Seq(Words)
  <2>1. WithoutHandler(Host) = before \o v
    BY <1>4, <1>5, <1>6, HandlerGone, Zenon
  <2>2. before \o v \in Seq(Words)
    BY <1>4, ConcatProperties
  <2> QED
    BY <2>1, <2>2
<1> HIDE DEF s
<1>8. /\ h \in Frames /\ h.op = "host" /\ h.at = Ended(Host.at) /\ h.call = Host.call
      /\ h.seen = {} /\ h.stack = s /\ h.trace = Host.trace
  <2>1. Ended(Host.at) \in Words
    BY DEF Words, Ended
  <2> QED
    BY <1>2, <1>7, <2>1 DEF Frames
<1> HIDE DEF h
<1>9. h.at = IF Host.at = "returned" THEN "done" ELSE "error"
  BY <1>8 DEF Ended
<1>10. Sound(h, disk)
  BY <1>2, <1>8, <1>9 DEF Sound, HostFrame
<1>11. handler' \in BOOLEAN /\ ~handler'
  BY <1>1, <1>2, NoHandler
<1>12. HostStackExact'
  <2>1. Host' = h
    BY <1>3, <1>8, <1>10, OneCall DEF Host
  <2>2. CASE Host.at = "returned"
    <3>1. h.at = "done" /\ v = IF Host.call = "luautils_dofile" THEN gave ELSE <<"module">>
      BY <1>2, <1>6, <1>9, <2>2 DEF Left
    <3> QED
      BY <1>1, <1>2, <1>7, <1>8, <2>1, <3>1 DEF HostStackExact
  <2>3. CASE Host.at = "failed"
    <3>1. PICK m \in Messages(Host) : v = <<m>>
      BY <1>6, <2>3 DEF Left
    <3>2. m \in IF Host.trace THEN {"nil"} ELSE Errors
      BY <1>2 DEF Messages
    <3>3. m \in Words
      BY <3>2 DEF Words
    <3>4. Front(s) = before /\ Last(s) = m
      BY <1>4, <1>7, <3>1, <3>3, FrontLast
    <3>5. h.at = "error" /\ h.call # "getfunction"
      BY <1>2, <1>8, <1>9, <2>3
    <3> QED
      BY <1>1, <1>8, <2>1, <3>2, <3>4, <3>5 DEF HostStackExact, Errors
  <2> QED
    BY <1>2, <2>2, <2>3
<1> QED
  BY <1>1, <1>3, <1>4, <1>8, <1>9, <1>10, <1>11, <1>12, HostKeeps

(***************************************************************************)
(* C functions                                                             *)
(***************************************************************************)
LEMMA StepCPush ==
  ASSUME IInv, CPush
  PROVE  IInv'
<1>1. /\ throw = "none" /\ Top.op = "cfunction" /\ Top.at = "body"
      /\ UNCHANGED <<disk, globals, throw, Guard, History>>
      /\ frames' = Replace([Top EXCEPT !.stack = Append(@, "value")])
  BY DEF CPush, Running
<1>2. Sound(Top, disk) /\ Top \in Frames /\ CFrame(Top)
  BY <1>1, CTop DEF Sound
<1>3. Top.call \in {"none", "opened"} /\ Top.seen = {}
  BY <1>1, <1>2 DEF CFrame
<1> DEFINE f == [Top EXCEPT !.stack = Append(@, "value")]
<1>4. Append(Top.stack, "value") \in Seq(Words)
  <2>1. "value" \in Words
    BY DEF Words
  <2>2. Top.stack \in Seq(Words)
    BY <1>2 DEF Frames
  <2> QED
    BY <2>1, <2>2, AppendIs
<1>5. /\ f \in Frames /\ f.op = Top.op /\ f.at = Top.at /\ f.call = Top.call /\ f.seen = Top.seen
  BY <1>2, <1>4 DEF Frames
<1>6. frames' = Replace(f)
  BY <1>1
<1> HIDE DEF f
<1>7. Sound(f, disk)
  BY <1>1, <1>3, <1>5 DEF Sound, CFrame
<1> QED
  BY <1>1, <1>3, <1>5, <1>6, <1>7, SwapKeeps

LEMMA StepCEnds ==
  ASSUME IInv, CEnds
  PROVE  IInv'
<1>1. /\ throw = "none" /\ Top.op = "cfunction" /\ Top.at = "body"
      /\ UNCHANGED <<disk, globals, Guard, History>>
  BY DEF CEnds, Running
<1>2. Len(frames) > 1 /\ Top \in Frames /\ CFrame(Top) /\ Host.call = "libopen"
  BY <1>1, CTop DEF Sound
<1>3. Top.call # "libopen"
  BY <1>1, <1>2 DEF CFrame
<1>4. CASE Raise("cfunction")
  <2>1. Top' = Top
    BY <1>4 DEF Raise, Top
  <2>2. Reason'
    BY <1>1, <2>1 DEF Reason, Failure, Cause
  <2> QED
    BY <1>1, <1>2, <1>3, <1>4, <2>2, RaiseKeeps DEF CErrors
<1>5. CASE \E k \in 0 .. Len(Top.stack) :
             Return(SubSeq(Top.stack, Len(Top.stack) - k + 1, Len(Top.stack)))
  <2>1. PICK k \in 0 .. Len(Top.stack) :
          Return(SubSeq(Top.stack, Len(Top.stack) - k + 1, Len(Top.stack)))
    BY <1>5
  <2> DEFINE v == SubSeq(Top.stack, Len(Top.stack) - k + 1, Len(Top.stack))
             f == Last(Front(frames))
             p == [f EXCEPT !.at = "returned", !.stack = @ \o v]
  <2>2. v \in Seq(Words)
    <3>1. Top.stack \in Seq(Words)
      BY <1>2 DEF Frames
    <3>2. Len(Top.stack) \in Nat
      BY <3>1, LenProperties
    <3>3. Len(Top.stack) - k + 1 \in Int /\ Len(Top.stack) - k + 1 >= 1
      BY <3>2
    <3> QED
      BY <3>1, <3>2, <3>3, PartIs
  <2>3. /\ Sound(f, disk) /\ f.at = "running" /\ f.call = "libopen"
        /\ Len(frames) = 2 => f = Host
        /\ Len(frames) > 2 => f.op = "cfunction"
    BY <1>1, <1>2, Waiter
  <2>4. f.op # "chunk"
    BY <2>3 DEF Sound, ChunkFrame
  <2>5. frames' = Append(Front(Front(frames)), Receive(f, "returned", v)) /\ throw' = "none"
    BY <1>1, <2>1 DEF Return
  <2> HIDE DEF v, f
  <2>6. frames' = Append(Front(Front(frames)), p)
    BY <2>4, <2>5 DEF Receive
  <2>7. UNCHANGED <<disk, globals, Guard, before, gave>>
    BY <1>1 DEF History
  <2>8. CASE Len(frames) = 2
    <3>1. frames' = Append(Front(Front(frames)), [Host EXCEPT !.at = "returned", !.stack = @ \o v])
      BY <2>3, <2>6, <2>8
    <3> QED
      BY <1>2, <1>3, <2>2, <2>5, <2>7, <2>8, <3>1, HostGets
  <2>9. CASE Len(frames) # 2
    <3>1. Len(frames) > 2
      <4>1. Len(frames) \in Nat
        BY TopIs DEF IInv
      <4> QED
        BY <1>2, <2>9, <4>1, AboveTwo, Zenon
    <3>2. /\ f \in Frames /\ f.op = "cfunction" /\ f.base < Len(f.stack) /\ f.seen = {}
      BY <2>3, <3>1 DEF Sound, CFrame
    <3>3. f.stack \in Seq(Words) /\ f.base \in Nat
      BY <3>2 DEF Frames
    <3>4. f.stack \o v \in Seq(Words) /\ f.base < Len(f.stack \o v)
      <4>1. f.stack \o v \in Seq(Words) /\ Len(f.stack \o v) = Len(f.stack) + Len(v)
        BY <2>2, <3>3, ConcatProperties
      <4>2. Len(v) \in Nat /\ Len(f.stack) \in Nat
        BY <2>2, <3>3, LenProperties
      <4> QED
        BY <3>2, <3>3, <4>1, <4>2
    <3>5. /\ p \in Frames /\ p.op = f.op /\ p.at = "returned" /\ p.call = f.call
          /\ p.base = f.base /\ p.seen = f.seen /\ p.stack = f.stack \o v
      <4>1. "returned" \in Words
        BY DEF Words
      <4> QED
        BY <3>2, <3>4, <4>1 DEF Frames
    <3> HIDE DEF p
    <3>6. Sound(p, disk)
      BY <2>3, <3>2, <3>4, <3>5 DEF Sound, CFrame
    <3>7. p.op = Last(Front(frames)).op /\ (p.call = "libopen" <=> Last(Front(frames)).call = "libopen")
      BY <3>5 DEF f
    <3>8. gave' \in Seq(Words) /\ gave' = gave
      BY <2>7 DEF IInv, States
    <3> QED
      BY <1>2, <1>3, <2>5, <2>6, <2>7, <3>1, <3>6, <3>7, <3>8, PopKeeps
  <2> QED
    BY <2>8, <2>9
<1> QED
  BY <1>4, <1>5 DEF CEnds

LEMMA StepNestedLibopen ==
  ASSUME IInv, NestedLibopen
  PROVE  IInv'
<1> DEFINE p == [Top EXCEPT !.at = "running", !.call = "libopen", !.trace = TRUE,
                            !.base = Len(Top.stack), !.stack = Append(@, "handler")]
<1>1. /\ throw' = "none" /\ Top.op = "cfunction" /\ Len(frames) < MaxFrames
      /\ handler' = TRUE /\ safeguard' = Len(frames)
      /\ frames' = Append(Replace(p), CFunction)
      /\ UNCHANGED <<disk, globals, before>> /\ gave' = gave
  BY DEF NestedLibopen, Running, Arm, History
<1>2. /\ Len(frames) > 1 /\ Top \in Frames /\ CFrame(Top) /\ Host.call = "libopen"
      /\ Calls(frames, disk) /\ States /\ HostWaits /\ Outermost
  BY <1>1, CTop DEF Sound, IInv
<1>3. Len(frames) \in Nat /\ Top = frames[Len(frames)]
  BY <1>2, TopIs
<1>4. Top.stack \in Seq(Words) /\ Len(Top.stack) \in Nat /\ Top.seen = {}
  <2>1. Top.stack \in Seq(Words)
    BY <1>2 DEF Frames
  <2> QED
    BY <1>2, <2>1, LenProperties DEF CFrame
<1>5. /\ Append(Top.stack, "handler") \in Seq(Words)
      /\ Len(Append(Top.stack, "handler")) = Len(Top.stack) + 1
  <2>1. "handler" \in Words
    BY DEF Words
  <2> QED
    BY <1>4, <2>1, AppendProperties
<1>6. /\ p \in Frames /\ p.op = Top.op /\ p.at = "running" /\ p.call = "libopen"
      /\ p.base = Len(Top.stack) /\ p.seen = Top.seen /\ p.stack = Append(Top.stack, "handler")
  <2>1. "running" \in Words /\ "libopen" \in Words
    BY DEF Words
  <2> QED
    BY <1>2, <1>4, <1>5, <2>1 DEF Frames
<1> HIDE DEF p
<1>7. Sound(p, disk)
  <2>1. p.base < Len(p.stack)
    BY <1>4, <1>5, <1>6
  <2> QED
    BY <1>1, <1>4, <1>6, <2>1 DEF Sound, CFrame
<1>8. /\ Sound(CFunction, disk) /\ Waits(p, CFunction) /\ CFunction.call # "libopen"
  BY <1>1, <1>6, NewCFunction DEF Waits
<1>9. /\ Calls(frames, disk)' /\ Len(frames') = Len(frames) + 1
      /\ \A i \in 1 .. Len(frames) - 1 : frames'[i] = frames[i]
      /\ frames'[Len(frames)] = p /\ frames'[Len(frames) + 1] = CFunction /\ frames'[1] = frames[1]
  BY <1>1, <1>2, <1>6, <1>7, <1>8, Stacked
<1>10. States' /\ HostWaits' /\ HostStackExact' /\ Thrown' /\ Reason'
  <2>1. Len(frames') > 1
    BY <1>3, <1>9, <1>2
  <2>2. handler' \in BOOLEAN /\ safeguard' \in 0 .. MaxFrames
    BY <1>1, <1>3, LoaderAssumption
  <2>3. gave' \in Seq(Words)
    BY <1>1, <1>2 DEF States
  <2> QED
    BY <1>1, <1>2, <1>9, <2>1, <2>2, <2>3, InsideKept
<1>11. Outermost'
  <2>1. frames'[2].op = frames[2].op
    BY <1>2, <1>3, <1>6, <1>9
  <2> QED
    BY <1>2, <1>9, <2>1, OutermostKept
<1>12. GuardTargetLive'
  <2>1. DOMAIN frames' = 1 .. Len(frames) + 1
    <3>1. frames' \in Seq(Frames)
      BY <1>9 DEF Calls
    <3> QED
      BY <1>9, <3>1, LenProperties
  <2>2. Len(frames) \in 1 .. Len(frames) + 1 /\ frames'[Len(frames)].call = "libopen"
    BY <1>2, <1>3, <1>6, <1>9
  <2>3. \A i \in Len(frames) + 1 .. Len(frames') : frames'[i].call # "libopen"
    BY <1>3, <1>8, <1>9
  <2> QED
    BY <1>1, <2>1, <2>2, <2>3 DEF GuardTargetLive
<1> QED
  BY <1>9, <1>10, <1>11, <1>12 DEF IInv

\* A nested libopen is over.
LEMMA LibopenKeeps ==
  ASSUME IInv, Top.op = "cfunction", handler' = FALSE, safeguard' = safeguard,
         NEW f, Sound(f, disk), f.op = Top.op, f.call # "libopen", f.at # "returned",
         frames' = Replace(f), throw' \in {"none"} \cup CErrors,
         UNCHANGED <<disk, globals, before, gave>>
  PROVE  IInv'
<1>1. /\ Calls(frames, disk) /\ States /\ HostWaits /\ Outermost
      /\ Host.call = "libopen" /\ Len(frames) > 1
  BY CTop DEF IInv
<1>2. disk' = disk /\ before' = before /\ gave' = gave /\ globals' = globals
  OBVIOUS
<1>3. Len(frames) \in Nat /\ Top = frames[Len(frames)]
  BY <1>1, TopIs
<1>4. /\ Calls(frames, disk)' /\ Len(frames') = Len(frames)
      /\ \A i \in 1 .. Len(frames) - 1 : frames'[i] = frames[i]
      /\ frames'[Len(frames)] = f /\ frames'[1] = frames[1]
  BY <1>1, <1>2, <1>3, Changed
<1>5. handler' \in BOOLEAN /\ safeguard' \in 0 .. MaxFrames
  BY <1>1 DEF States
<1>6. States'
  BY <1>1, <1>2, <1>4, <1>5 DEF States
<1>7. HostWaits' /\ HostStackExact'
  BY <1>1, <1>2, <1>4, HostKept
<1>8. Outermost'
  <2>1. frames'[2].op = frames[2].op
    BY <1>1, <1>3, <1>4
  <2> QED
    BY <1>1, <1>4, <2>1, OutermostKept
<1>9. Top' = f /\ Host' = Host /\ Len(frames') # 1
  BY <1>1, <1>3, <1>4 DEF Top, Last, Host
<1>10. Thrown'
  BY <1>1, <1>9 DEF Thrown
<1>11. Reason'
  BY <1>9 DEF Reason, Failure, Cause
<1>12. GuardTargetLive'
  BY DEF GuardTargetLive
<1> QED
  BY <1>4, <1>6, <1>7, <1>8, <1>10, <1>11, <1>12 DEF IInv

\* What is left on the stack of a library that left k values.
LEMMA PoppedIs ==
  ASSUME NEW S, NEW s \in Seq(S), NEW v \in Seq(S), NEW k \in Nat, Len(s \o v) = Len(s) + k
  PROVE  Popped(s \o v, k) = s
<1>1. Len(s) \in Nat
  BY LenProperties
<1>2. Len(s \o v) - k = Len(s)
  BY <1>1
<1> QED
  BY <1>2, BeforeIs DEF Popped

\* What is left on any stack is part of it.
LEMMA PoppedSeq ==
  ASSUME NEW S, NEW s \in Seq(S), NEW k \in Nat
  PROVE  Popped(s, k) \in Seq(S)
<1>1. Len(s) \in Nat
  BY LenProperties
<1>2. Len(s) - k \in Int /\ Len(s) - k <= Len(s)
  BY <1>1
<1> QED
  BY <1>2, PartIs DEF Popped

\* The rest of libopen: the host's own ...
LEMMA StepHostLibopenEnd ==
  ASSUME IInv, NEW k \in 0 .. 1, LibopenEnd(k), Top.op = "host"
  PROVE  IInv'
<1> DEFINE s == WithoutHandler(Host)
           good == Host.at = "returned" /\ Len(s) = Host.base + k
           x == Popped(s, k)
           h == IF good THEN [Host EXCEPT !.at = "done", !.call = "opened", !.stack = x]
                        ELSE [Host EXCEPT !.at = "panic", !.call = "panic"]
<1>1. /\ Top = Host /\ Len(frames) = 1 /\ Host.op = "host" /\ Host \in Frames
      /\ HostFrame(Host) /\ Host.seen = {}
  BY HostTop DEF Sound, HostFrame
<1>2. /\ throw = "none" /\ Host.call = "libopen" /\ Host.at \in {"returned", "failed"}
      /\ handler' = FALSE /\ safeguard' = safeguard /\ disk' = disk /\ globals' = globals
      /\ before' = before /\ gave' = gave
      /\ frames' = Replace(h)
      /\ throw' = IF good THEN throw ELSE IF Host.at = "failed" THEN Last(Host.stack) ELSE "misaligned"
  BY <1>1 DEF LibopenEnd, Disarm, History
<1>3. before \in Seq(Words) /\ gave \in Seq(Words) /\ k \in Nat
  BY DEF IInv, States
<1>4. /\ Host.base = Len(before) /\ Host.trace
      /\ \E v \in Seq(Words) :
           /\ Host.stack = (before \o (IF Host.trace THEN <<"handler">> ELSE <<>>)) \o v
           /\ Left(Host, v)
  BY <1>2 DEF IInv, HostWaits
<1>5. PICK v \in Seq(Words) :
        /\ Host.stack = (before \o (IF Host.trace THEN <<"handler">> ELSE <<>>)) \o v
        /\ Left(Host, v)
  BY <1>4
<1>6. s = before \o v
  BY <1>3, <1>4, <1>5, HandlerGone, Zenon
<1>7. s \in Seq(Words)
  BY <1>3, <1>6, ConcatProperties
<1> HIDE DEF s
<1>8. good => x = before
  BY <1>3, <1>4, <1>6, PoppedIs
<1>9. x \in Seq(Words)
  BY <1>3, <1>7, PoppedSeq
<1> HIDE DEF x
<1>10. /\ h \in Frames /\ h.op = "host" /\ h.seen = {}
       /\ good => h.at = "done" /\ h.call = "opened" /\ h.stack = x
       /\ ~good => h.at = "panic" /\ h.call = "panic"
  <2>1. {"done", "opened", "panic"} \subseteq Words
    BY DEF Words
  <2> QED
    BY <1>1, <1>9, <2>1 DEF Frames
<1>11. throw' \in {"none"} \cup CErrors /\ (good => throw' = "none")
  <2>1. CASE Host.at = "failed"
    <3>1. PICK m \in CErrors : v = <<m>>
      BY <1>2, <1>5, <2>1 DEF Left, Messages
    <3>2. m \in Words
      BY <3>1 DEF Words
    <3>3. before \o (IF Host.trace THEN <<"handler">> ELSE <<>>) \in Seq(Words)
      BY <1>3, HandlerBelow
    <3>4. Last(Host.stack) = m
      <4> DEFINE r == before \o (IF Host.trace THEN <<"handler">> ELSE <<>>)
      <4>1. Host.stack = r \o <<m>> /\ r \in Seq(Words)
        BY <1>5, <3>1, <3>3
      <4> HIDE DEF r
      <4> QED
        BY <3>2, <4>1, OneMore
    <3> QED
      BY <1>2, <2>1, <3>1, <3>4
  <2>2. CASE Host.at # "failed"
    BY <1>2, <2>2 DEF CErrors
  <2> QED
    BY <2>1, <2>2
<1> HIDE DEF h, good
<1>12. Sound(h, disk)
  BY <1>10 DEF Sound, HostFrame
<1>13. frames' = <<h>>
  <2>1. frames \in Seq(Frames)
    BY DEF IInv, Calls
  <2>2. /\ Append(Front(frames), h) \in Seq(Frames) /\ Len(Append(Front(frames), h)) = Len(frames)
        /\ Append(Front(frames), h)[Len(frames)] = h
    <3>1. Len(frames) >= 1
      BY <1>1
    <3>2. h \in Frames
      BY <1>10
    <3> QED
      BY <2>1, <3>1, <3>2, SwapIs, Zenon
  <2>3. /\ frames' \in Seq(Frames) /\ Len(frames') = 1 /\ frames'[1] = h
    BY <1>1, <1>2, <2>2 DEF Replace
  <2> QED
    BY <2>3
<1>14. HostStackExact'
  <2>1. Host' = h
    BY <1>10, <1>12, <1>13, OneCall DEF Host
  <2>2. before \o <<>> = before
    BY <1>3, ConcatEmptySeq
  <2> QED
    BY <1>2, <1>8, <1>10, <2>1, <2>2 DEF HostStackExact
<1>15. handler' \in BOOLEAN /\ ~handler' /\ before' \in Seq(Words) /\ gave' \in Seq(Words)
  BY <1>2, <1>3
<1>16. /\ h.at \notin {"running", "returned", "failed"}
       /\ throw' \in {"none"} \cup Errors \cup CErrors
       /\ throw' # "none" => h.call = "panic"
  BY <1>10, <1>11
<1> QED
  BY <1>2, <1>10, <1>12, <1>13, <1>14, <1>15, <1>16, HostKeeps

\* ... and that of a C function.
LEMMA StepNestedLibopenEnd ==
  ASSUME IInv, NEW k \in 0 .. 1, LibopenEnd(k), Top.op = "cfunction"
  PROVE  IInv'
<1> DEFINE s == WithoutHandler(Top)
           good == Top.at = "returned" /\ Len(s) = Top.base + k
           x == Popped(s, k)
           f == IF good THEN [Top EXCEPT !.at = "body", !.call = "opened", !.stack = x]
                        ELSE [Top EXCEPT !.at = "panic", !.call = "panic"]
<1>1. /\ throw = "none" /\ Top.call = "libopen" /\ Top.at \in {"returned", "failed"}
      /\ handler' = FALSE /\ safeguard' = safeguard /\ disk' = disk /\ globals' = globals
      /\ before' = before /\ gave' = gave
      /\ frames' = Replace(f)
      /\ throw' = IF good THEN throw ELSE IF Top.at = "failed" THEN Last(Top.stack) ELSE "misaligned"
  BY DEF LibopenEnd, Disarm, History
<1>2. Top \in Frames /\ CFrame(Top)
  BY CTop DEF Sound
<1>3. /\ Top.seen = {} /\ Top.base < Len(Top.stack) /\ Top.base \in Nat /\ Top.stack \in Seq(Words)
      /\ Top.at = "failed" => Last(Top.stack) \in CErrors
  BY <1>1, <1>2 DEF CFrame, Frames
<1>4. s \in Seq(Words)
  BY <1>3, RemoveSeq DEF WithoutHandler
<1> HIDE DEF s
<1>5. x \in Seq(Words)
  <2>1. k \in Nat
    OBVIOUS
  <2> QED
    BY <1>4, <2>1, PoppedSeq
<1> HIDE DEF x
<1>6. /\ f \in Frames /\ f.op = Top.op /\ f.seen = {}
      /\ (f.at = "body" /\ f.call = "opened") \/ (f.at = "panic" /\ f.call = "panic")
  <2>1. {"body", "opened", "panic"} \subseteq Words
    BY DEF Words
  <2> QED
    BY <1>2, <1>3, <1>5, <2>1 DEF Frames
<1>7. throw' \in {"none"} \cup CErrors
  BY <1>1, <1>3 DEF CErrors
<1> HIDE DEF f, good
<1>8. Sound(f, disk)
  BY <1>6 DEF Sound, CFrame
<1> QED
  BY <1>1, <1>6, <1>7, <1>8, LibopenKeeps

LEMMA StepLibopenEnd ==
  ASSUME IInv, NEW k \in 0 .. 1, LibopenEnd(k)
  PROVE  IInv'
<1>1. Top.call = "libopen"
  BY DEF LibopenEnd
<1>2. Sound(Top, disk)
  BY TopIs DEF IInv
<1>3. Top.op = "host" \/ Top.op = "cfunction"
  BY <1>1, <1>2 DEF Sound, Frames, DofileFrame, RequireFrame, ChunkFrame
<1> QED
  BY <1>3, StepHostLibopenEnd, StepNestedLibopenEnd

(***************************************************************************)
(* Every step                                                              *)
(***************************************************************************)
LEMMA InitIInv == Init => IInv
<1> SUFFICES ASSUME Init PROVE IInv
  OBVIOUS
<1> DEFINE h == [op |-> "host", at |-> "idle", name |-> "none", stack |-> <<>>, base |-> 0,
                 call |-> "none", from |-> "none", trace |-> FALSE, todo |-> <<>>, seen |-> {}]
<1>1. /\ frames = <<h>> /\ throw = "none" /\ handler = FALSE /\ safeguard = 0
      /\ before = <<>> /\ gave = <<>> /\ disk \in [Name -> {"none", "file"}] /\ \A n \in Name : disk[n] \in Kinds(n)
      /\ globals = [dofile |-> "stock", backup |-> "nil", loaders |-> <<"path">>]
  BY DEF Init
<1>2. <<>> \in Seq(Words) /\ "idle" \in Words /\ "none" \in Words
  BY EmptySeq DEF Words
<1>3. h \in Frames /\ h.op = "host" /\ h.at = "idle" /\ h.call = "none" /\ h.seen = {}
  BY <1>2 DEF Frames
<1> HIDE DEF h
<1>4. Sound(h, disk)
  BY <1>3 DEF Sound, HostFrame
<1>5. Calls(frames, disk) /\ Len(frames) = 1 /\ Host = h /\ Top = h
  <2>1. Calls(<<h>>, disk) /\ Len(<<h>>) = 1 /\ <<h>>[1] = h
    BY <1>3, <1>4, OneCall
  <2> QED
    BY <1>1, <2>1 DEF Host, Top, Last
<1>6. States
  <2>1. disk \in [Name -> {"none", "file", "locked"}] /\ \A n \in Name : disk[n] \in Kinds(n)
    BY <1>1 DEF Kinds
  <2>2. safeguard \in 0 .. MaxFrames
    BY <1>1, LoaderAssumption
  <2>3. ~(Len(frames) > 1)
    BY <1>5
  <2> QED
    BY <1>1, <1>2, <2>1, <2>2, <2>3 DEF States
<1>7. HostWaits /\ HostStackExact
  <2>1. ~(Len(frames) > 1)
    BY <1>5
  <2> QED
    BY <1>3, <1>5, <2>1 DEF HostWaits, HostStackExact
<1>8. Outermost /\ Thrown /\ GuardTargetLive
  <2>1. ~(Len(frames) > 1)
    BY <1>5
  <2> QED
    BY <1>1, <2>1 DEF Outermost, Thrown, GuardTargetLive
<1>9. Reason
  BY <1>3, <1>5 DEF Reason, Failure, Cause
<1> QED
  BY <1>5, <1>6, <1>7, <1>8, <1>9 DEF IInv

\* Nothing happens.
LEMMA StutterIInv ==
  ASSUME IInv, UNCHANGED <<disk, globals, frames, throw, handler, safeguard, before, gave>>
  PROVE  IInv'
<1>1. /\ throw' = throw /\ disk' = disk /\ frames' = frames /\ before' = before /\ gave' = gave
      /\ handler' = handler /\ safeguard' = safeguard /\ globals' = globals
  OBVIOUS
<1>2. Calls(frames, disk)'
  <2>1. Calls(frames', disk')
    BY <1>1, Zenon DEF IInv
  <2> QED
    BY <2>1, Zenon
<1>3. Top' = Top /\ Host' = Host
  BY <1>1 DEF Top, Host
<1>4. States'
  BY <1>1 DEF IInv, States
<1>5. HostWaits'
  <2>1. ASSUME NEW v, Left(Host, v)
        PROVE  Left(Host, v)'
    BY <1>1, <1>3, <2>1 DEF Left
  <2> QED
    BY <1>1, <1>3, <2>1 DEF IInv, HostWaits
<1>6. Outermost' /\ Thrown' /\ GuardTargetLive' /\ HostStackExact'
  <2>1. Outermost' /\ Thrown'
    BY <1>1, <1>3 DEF IInv, Outermost, Thrown, DofileResults
  <2>2. GuardTargetLive'
    BY <1>1 DEF IInv, GuardTargetLive
  <2>3. HostStackExact'
    BY <1>1, <1>3 DEF IInv, HostStackExact
  <2> QED
    BY <2>1, <2>2, <2>3
<1>7. Reason'
  BY <1>1, <1>3 DEF IInv, Reason, Failure, Cause
<1> QED
  BY <1>2, <1>4, <1>5, <1>6, <1>7 DEF IInv

\* Every step keeps the invariant.
LEMMA StepIInv == IInv /\ [Next]_vars => IInv'
<1> SUFFICES ASSUME IInv, [Next]_vars PROVE IInv'
  OBVIOUS
<1>1. ASSUME NEW n \in Name, Change(n) PROVE IInv'
  BY <1>1, StepChange
<1>2. ASSUME NEW n \in Name, HostRequire(n) PROVE IInv'
  BY <1>2, StepHostRequire
<1>3. ASSUME NEW n \in Name, NEW trace \in BOOLEAN, HostDofile(n, trace) PROVE IInv'
  BY <1>3, StepHostDofile
<1>4. CASE OpenSymbols
  BY <1>4, StepOpenSymbols
<1>5. CASE RequireGone
  BY <1>5, StepRequireGone
<1>6. CASE HostLibopen
  BY <1>6, StepHostLibopen
<1>7. CASE HostEnd
  BY <1>7, StepHostEnd
<1>8. CASE Unwind
  BY <1>8, StepUnwind
<1>9. ASSUME NEW k \in 0 .. MaxStack, Settle(k) PROVE IInv'
  BY <1>9, StepSettle
<1>10. CASE Choose
  BY <1>10, StepChoose
<1>11. CASE Backup
  BY <1>11, StepBackup
<1>12. CASE Fallback
  BY <1>12, StepFallback
<1>13. CASE DofileEnd
  BY <1>13, StepDofileEnd
<1>14. CASE AskPath
  BY <1>14, StepAskPath
<1>15. CASE OpenPath
  BY <1>15, StepOpenPath
<1>16. CASE AskSymbols
  BY <1>16, StepAskSymbols
<1>17. CASE RequireEnd
  BY <1>17, StepRequireEnd
<1>18. CASE ScriptCalls
  BY <1>18, StepScriptCalls
<1>19. CASE ScriptEnds
  BY <1>19, StepScriptEnds
<1>20. CASE NestedLibopen
  BY <1>20, StepNestedLibopen
<1>21. CASE CPush
  BY <1>21, StepCPush
<1>22. CASE CEnds
  BY <1>22, StepCEnds
<1>23. ASSUME NEW k \in 0 .. 1, LibopenEnd(k) PROVE IInv'
  BY <1>23, StepLibopenEnd
<1>24. CASE CheckLoaded
  BY <1>24, StepCheckLoaded
<1>25. CASE (\E n \in Name : ScriptSetsLoaded(n)) \/ UNCHANGED vars
  BY <1>25, StutterIInv DEF ScriptSetsLoaded, vars, Guard, History
<1> QED
  BY <1>1, <1>2, <1>3, <1>4, <1>5, <1>6, <1>7, <1>8, <1>9, <1>10, <1>11, <1>12, <1>13, <1>14, <1>15,
     <1>16, <1>17, <1>18, <1>19, <1>20, <1>21, <1>22, <1>23, <1>24, <1>25 DEF Next

(***************************************************************************)
(* The error about a loop                                                  *)
(***************************************************************************)
\* require raises it only for a name whose script is under way or has failed:
\* these are the ones that the sentinel is left for.
Kept ==
  /\ loading \subseteq Name /\ failed \subseteq Name
  /\ \A n \in loading : Looping(n)
  /\ throw = "loop" /\ Top.op = "require" /\ Top.from = "none" => Looping(Top.name)

\* f, if it runs the script of n, still does so as g.
Same(f, g, n) == Loads(f) /\ f.name = n => Loads(g) /\ g.name = n

\* Whatever a step does, the scripts of n are where they were.
Lasts(n) == \A i \in 1 .. Len(frames) :
              Loads(frames[i]) /\ frames[i].name = n =>
                i \in 1 .. Len(frames') /\ Loads(frames'[i]) /\ frames'[i].name = n

LEMMA LastsKeeps ==
  ASSUME IInv, NEW n, Looping(n), Lasts(n), n \in failed => n \in failed', IInv'
  PROVE  Looping(n)'
<1>1. DOMAIN frames = 1 .. Len(frames) /\ DOMAIN frames' = 1 .. Len(frames')
  BY LenProperties DEF IInv, Calls
<1> QED
  BY <1>1 DEF Looping, Lasts, Loads

\* The frames below the last one stay, and the last one, if it is of any account.
LEMMA SwapLasts ==
  ASSUME IInv, NEW n, NEW f, Same(Top, f, n), frames' = Append(Front(frames), f)
  PROVE  Lasts(n) /\ Top' = f /\ Len(frames') = Len(frames)
<1>1. frames \in Seq(Frames \cup {f}) /\ Len(frames) >= 1 /\ Len(frames) \in Nat
  BY SeqMonotonic, TopIs DEF IInv, Calls
<1>2. /\ Len(frames') = Len(frames) /\ frames'[Len(frames)] = f
      /\ \A i \in 1 .. Len(frames) - 1 : frames'[i] = frames[i]
  BY <1>1, SwapIs
<1>3. Top = frames[Len(frames)] /\ Top' = f
  BY <1>2 DEF Top, Last
<1> QED
  BY <1>1, <1>2, <1>3 DEF Lasts, Same

LEMMA PushLasts ==
  ASSUME IInv, NEW n, NEW f, NEW g, Same(Top, f, n), frames' = Append(Append(Front(frames), f), g)
  PROVE  Lasts(n) /\ Len(frames) \in 1 .. Len(frames') /\ frames'[Len(frames)] = f
<1> DEFINE S == Frames \cup {f, g}
           hs == Append(Front(frames), f)
<1>1. frames \in Seq(S) /\ Len(frames) >= 1 /\ Len(frames) \in Nat /\ f \in S /\ g \in S
  BY SeqMonotonic, TopIs DEF IInv, Calls
<1> HIDE DEF S
<1>2. /\ hs \in Seq(S) /\ Len(hs) = Len(frames) /\ hs[Len(frames)] = f
      /\ \A i \in 1 .. Len(frames) - 1 : hs[i] = frames[i]
  BY <1>1, SwapIs
<1> HIDE DEF hs
<1>3. frames' = Append(hs, g)
  BY DEF hs
<1>4. Len(frames') = Len(frames) + 1 /\ \A i \in 1 .. Len(frames) : frames'[i] = hs[i]
  BY <1>1, <1>2, <1>3, AppendProperties
<1>5. Top = frames[Len(frames)]
  BY DEF Top, Last
<1> QED
  BY <1>1, <1>2, <1>4, <1>5 DEF Lasts, Same

\* The last frame goes.
LEMMA DropLasts ==
  ASSUME IInv, Len(frames) > 1, NEW n, ~(Loads(Top) /\ Top.name = n), frames' = Front(frames)
  PROVE  Lasts(n)
<1>1. frames \in Seq(Frames) /\ Len(frames) >= 1 /\ Len(frames) \in Nat
  BY TopIs DEF IInv, Calls
<1>2. Len(frames') = Len(frames) - 1 /\ \A i \in 1 .. Len(frames) - 1 : frames'[i] = frames[i]
  BY <1>1, FrontIs
<1>3. Top = frames[Len(frames)]
  BY DEF Top, Last
<1> QED
  BY <1>1, <1>2, <1>3 DEF Lasts

\* The last frame goes, and what it returns or its error is received.
LEMMA PopLasts ==
  ASSUME IInv, Len(frames) > 1, NEW n, ~(Loads(Top) /\ Top.name = n), NEW at, NEW values,
         frames' = Append(Front(Front(frames)), Receive(Last(Front(frames)), at, values))
  PROVE  Lasts(n)
<1> DEFINE f == Last(Front(frames))
           g == Receive(f, at, values)
           hs == Front(frames)
           S == Frames \cup {g}
<1>1. /\ frames \in Seq(S) /\ Len(frames) >= 1 /\ Len(frames) \in Nat /\ g \in S
      /\ f = frames[Len(frames) - 1] /\ f \in Frames
  BY SeqMonotonic, TopIs DEF IInv, Calls, Sound
<1>2. g.op = f.op /\ g.name = f.name /\ (f.op # "chunk" => g.call = f.call)
  BY <1>1 DEF Receive, Frames
<1>3. frames' = Append(Front(hs), g)
  OBVIOUS
<1> HIDE DEF g, S, f
<1>4. hs \in Seq(S) /\ Len(hs) = Len(frames) - 1 /\ \A i \in 1 .. Len(frames) - 1 : hs[i] = frames[i]
  BY <1>1, FrontIs
<1> HIDE DEF hs
<1>5. /\ Len(frames') = Len(hs) /\ frames'[Len(hs)] = g
      /\ \A i \in 1 .. Len(hs) - 1 : frames'[i] = hs[i]
  BY <1>1, <1>3, <1>4, SwapIs
<1>6. Top = frames[Len(frames)]
  BY DEF Top, Last
<1>7. ASSUME NEW i \in 1 .. Len(frames), Loads(frames[i]), frames[i].name = n
      PROVE  i \in 1 .. Len(frames') /\ Loads(frames'[i]) /\ frames'[i].name = n
  <2>1. i \in 1 .. Len(frames) - 1
    BY <1>1, <1>6, <1>7
  <2>2. CASE i = Len(frames) - 1
    BY <1>1, <1>2, <1>4, <1>5, <1>7, <2>1, <2>2 DEF Loads
  <2>3. CASE i # Len(frames) - 1
    BY <1>1, <1>4, <1>5, <1>7, <2>1, <2>3
  <2> QED
    BY <2>2, <2>3
<1> QED
  BY <1>7 DEF Lasts

\* The host alone.
LEMMA HostLasts ==
  ASSUME IInv, Top.op = "host", NEW n
  PROVE  Lasts(n)
<1>1. Len(frames) = 1 /\ frames[1].op = "host"
  BY HostTop DEF IInv, Calls
<1> QED
  BY <1>1 DEF Lasts, Loads

\* While there is no error, a call of require that has run the script has returned
\* from it.
LEMMA LoadsWhen ==
  ASSUME IInv, throw = "none", Top.op = "require"
  PROVE  /\ Len(frames) > 1 /\ Top.name \in Name
         /\ Top.at \in {"enter", "search", "open"} => ~Loads(Top)
<1>1. Len(frames) > 1 /\ Sound(Top, disk)
  BY ScriptTop
<1> QED
  BY <1>1 DEF Loads, Sound, RequireFrame

\* A step that leaves package.loaded and the scripts under way alone.
LEMMA PlainKept ==
  ASSUME IInv, IInv', Kept, UNCHANGED Loaded, \A n \in Name : Looping(n) => Lasts(n),
         throw' = "loop" => Top'.op # "require" \/ Top'.from # "none"
  PROVE  Kept'
<1>1. loading' = loading /\ failed' = failed
  BY DEF Loaded
<1>2. ASSUME NEW n \in loading PROVE Looping(n)'
  BY <1>1, <1>2, LastsKeeps DEF Kept
<1> QED
  BY <1>1, <1>2 DEF Kept

\* What steps that run no script to its end do to the calls.
Moves ==
  \/ UNCHANGED frames
  \/ \E f : frames' = Append(Front(frames), f)
  \/ \E f, g : frames' = Append(Append(Front(frames), f), g)
  \/ Len(frames) > 1 /\ \E values : Return(values)

LEMMA ReturnIs ==
  ASSUME NEW values, Return(values)
  PROVE  frames' = Append(Front(Front(frames)), Receive(Last(Front(frames)), "returned", values))
BY DEF Return

LEMMA MovesKept ==
  ASSUME IInv, IInv', Kept, UNCHANGED Loaded, ~Loads(Top), throw' # "loop", Moves
  PROVE  Kept'
<1>1. ASSUME NEW n PROVE Lasts(n)
  <2>1. CASE UNCHANGED frames
    BY <2>1 DEF Lasts
  <2>2. ASSUME NEW f, frames' = Append(Front(frames), f) PROVE Lasts(n)
    BY <2>2, SwapLasts DEF Same
  <2>3. ASSUME NEW f, NEW g, frames' = Append(Append(Front(frames), f), g) PROVE Lasts(n)
    BY <2>3, PushLasts DEF Same
  <2>4. ASSUME Len(frames) > 1, NEW values, Return(values) PROVE Lasts(n)
    BY <2>4, ReturnIs, PopLasts
  <2> QED
    BY <2>1, <2>2, <2>3, <2>4 DEF Moves
<1> QED
  BY <1>1, PlainKept

\* The host's own steps.
LEMMA HostStepsKept ==
  ASSUME IInv, IInv', Kept, UNCHANGED Loaded, Top.op = "host", throw' # "loop"
  PROVE  Kept'
BY HostLasts, PlainKept

LEMMA HostCallsKept ==
  ASSUME IInv, IInv', Kept,
         \/ \E n \in Name : HostRequire(n) \/ \E trace \in BOOLEAN : HostDofile(n, trace)
         \/ OpenSymbols \/ RequireGone \/ HostLibopen \/ HostEnd \/ \E k \in 0 .. MaxStack : Settle(k)
  PROVE  Kept'
<1>1. ASSUME NEW kind, NEW pushed, NEW trace, NEW callee, HostCalls(kind, pushed, trace, callee)
      PROVE  Kept'
  BY <1>1, HostStepsKept DEF HostCalls, Running
<1>2. CASE OpenSymbols \/ RequireGone
  BY <1>2, HostStepsKept DEF OpenSymbols, RequireGone, Running
<1>3. CASE HostEnd \/ \E k \in 0 .. MaxStack : Settle(k)
  BY <1>3, HostStepsKept DEF HostEnd, Settle, Running
<1> QED
  BY <1>1, <1>2, <1>3 DEF HostRequire, HostDofile, HostLibopen

LEMMA DofileKept ==
  ASSUME IInv, IInv', Kept, Choose \/ Backup \/ Fallback \/ DofileEnd
  PROVE  Kept'
<1>1. Top.op = "dofile" /\ throw = "none" /\ UNCHANGED Loaded
  BY DEF Choose, Backup, Fallback, DofileEnd, Running
<1>2. ~Loads(Top) /\ Len(frames) > 1
  BY <1>1, ScriptTop DEF Loads
<1>3. CASE UNCHANGED frames
  <2>1. Top' = Top
    BY <1>3 DEF Top
  <2>2. \A n \in Name : Lasts(n)
    BY <1>3 DEF Lasts
  <2> QED
    BY <1>1, <2>1, <2>2, PlainKept
<1>4. CASE ~UNCHANGED frames
  <2>1. throw' = "none" /\ Moves
    BY <1>1, <1>2, <1>4
       DEF Choose, Backup, Fallback, DofileEnd, Raise, Begin, FailsWith, RunResource, Replace, Return, Moves
  <2> QED
    BY <1>1, <1>2, <2>1, MovesKept
<1> QED
  BY <1>3, <1>4

LEMMA ScriptKept ==
  ASSUME IInv, IInv', Kept, ScriptCalls \/ ScriptEnds
  PROVE  Kept'
<1>1. Top.op = "chunk" /\ throw = "none" /\ UNCHANGED Loaded
  BY DEF ScriptCalls, ScriptEnds, Running
<1>2. ~Loads(Top) /\ Len(frames) > 1
  BY <1>1, ScriptTop DEF Loads
<1>3. throw' \in {"none", "script"}
  BY <1>1 DEF ScriptCalls, ScriptEnds, Call, Return, Raise
<1>4. Moves
  BY <1>2 DEF ScriptCalls, ScriptEnds, Call, Replace, Return, Raise, Moves
<1> QED
  BY <1>1, <1>2, <1>3, <1>4, MovesKept

LEMMA CKept ==
  ASSUME IInv, IInv', Kept,
         NestedLibopen \/ CPush \/ CEnds \/ (Top.op = "cfunction" /\ \E k \in 0 .. 1 : LibopenEnd(k))
  PROVE  Kept'
<1>1. Top.op = "cfunction" /\ throw = "none" /\ UNCHANGED Loaded
  BY DEF NestedLibopen, CPush, CEnds, LibopenEnd, Running
<1>2. ~Loads(Top) /\ Len(frames) > 1 /\ CFrame(Top)
  BY <1>1, CTop DEF Loads, Sound
<1>3. throw' # "loop"
  BY <1>1, <1>2 DEF NestedLibopen, CPush, CEnds, LibopenEnd, Return, Raise, CFrame, CErrors
<1>4. Moves
  BY <1>2 DEF NestedLibopen, CPush, CEnds, LibopenEnd, Replace, Return, Raise, Moves
<1> QED
  BY <1>1, <1>2, <1>3, <1>4, MovesKept

LEMMA LibopenEndKept ==
  ASSUME IInv, IInv', Kept, NEW k \in 0 .. 1, LibopenEnd(k)
  PROVE  Kept'
<1>1. Top.call = "libopen" /\ throw = "none" /\ UNCHANGED Loaded
  BY DEF LibopenEnd
<1>2. Sound(Top, disk)
  BY TopIs DEF IInv
<1>3. Top.op = "host" \/ Top.op = "cfunction"
  BY <1>1, <1>2 DEF Sound, Frames, DofileFrame, RequireFrame, ChunkFrame
<1>4. CASE Top.op = "cfunction"
  BY <1>4, CKept
<1>5. CASE Top.op = "host"
  <2>1. Len(frames) = 1 /\ ~Loads(Top)
    BY <1>5, HostTop DEF Loads
  <2>2. PICK f : frames' = Append(Front(frames), f)
    BY DEF LibopenEnd, Replace
  <2>3. Len(frames') = 1
    BY <2>1, <2>2, SwapLasts DEF Same
  <2>4. Top'.op = "host"
    BY <2>3 DEF IInv, Calls, Top, Last
  <2> QED
    BY <1>1, <1>5, <2>4, HostLasts, PlainKept
<1> QED
  BY <1>3, <1>4, <1>5

\* Files that change.
LEMMA ChangeKept ==
  ASSUME IInv, IInv', Kept, NEW m \in Name, Change(m)
  PROVE  Kept'
<1> DEFINE F(i) == IF frames[i].seen # {} /\ frames[i].name = m
                   THEN [frames[i] EXCEPT !.seen = @ \cup {disk'[m]}] ELSE frames[i]
<1>1. /\ frames \in Seq(Frames) /\ DOMAIN frames = 1 .. Len(frames) /\ Len(frames) \in Nat
      /\ Len(frames) >= 1 /\ \A i \in 1 .. Len(frames) : frames[i] \in Frames
  BY TopIs, LenProperties, ElementOfSeq DEF IInv, Calls
<1>2. frames' = [i \in 1 .. Len(frames) |-> F(i)] /\ UNCHANGED <<throw, loading, failed>>
  BY <1>1 DEF Change, Loaded
<1>3. \A i \in 1 .. Len(frames) : /\ F(i).op = frames[i].op /\ F(i).name = frames[i].name
                                  /\ F(i).call = frames[i].call /\ F(i).from = frames[i].from
  BY <1>1 DEF Frames
<1>4. Len(frames') = Len(frames)
  <2>1. frames' \in Seq(Frames)
    BY DEF IInv, Calls
  <2>2. DOMAIN frames' = 1 .. Len(frames') /\ Len(frames') \in Nat
    BY <2>1, LenProperties
  <2> QED
    BY <1>1, <1>2, <2>2
<1>5. \A i \in 1 .. Len(frames) : frames'[i] = F(i)
  BY <1>2
<1> HIDE DEF F
<1>6. ASSUME NEW n PROVE Lasts(n)
  BY <1>3, <1>4, <1>5 DEF Lasts, Loads
<1>7. Top'.op = Top.op /\ Top'.from = Top.from /\ Top'.name = Top.name
  BY <1>1, <1>3, <1>4, <1>5 DEF Top, Last
<1>8. ASSUME NEW n, Looping(n) PROVE Looping(n)'
  BY <1>2, <1>6, <1>8, LastsKeeps
<1>9. throw' = "loop" /\ Top'.op = "require" /\ Top'.from = "none" => Looping(Top.name)'
  <2> PICK t : t = Top.name
    OBVIOUS
  <2>1. throw' = "loop" /\ Top'.op = "require" /\ Top'.from = "none" => Looping(t)
    BY <1>2, <1>7 DEF Kept
  <2>2. Top'.name = t
    BY <1>7
  <2>3. throw' = "loop" /\ Top'.op = "require" /\ Top'.from = "none" => Looping(t)'
    BY <1>8, <2>1
  <2> QED
    BY <2>2, <2>3 DEF Looping
<1>10. \A n \in loading' : Looping(n)'
  BY <1>2, <1>8 DEF Kept
<1> QED
  BY <1>2, <1>9, <1>10 DEF Kept

LEMMA CheckLoadedKept ==
  ASSUME IInv, IInv', Kept, CheckLoaded
  PROVE  Kept'
<1>1. Top.op = "require" /\ Top.at = "enter" /\ throw = "none" /\ UNCHANGED Loaded
  BY DEF CheckLoaded, Running
<1>2. ~Loads(Top) /\ Len(frames) > 1
  BY <1>1, LoadsWhen
<1>3. CASE Top.name \in loading /\ Raise("loop")
  <2>1. frames' = frames /\ loading' = loading /\ failed' = failed
    BY <1>1, <1>3 DEF Raise, Loaded
  <2>2. Looping(Top.name)
    BY <1>3 DEF Kept
  <2>3. \A n : Looping(n) => Looping(n)'
    BY <2>1 DEF Looping
  <2>4. Top' = Top
    BY <2>1 DEF Top
  <2>5. (Looping(Top.name))'
    BY <2>1, <2>2, <2>4 DEF Looping
  <2> QED
    BY <2>1, <2>3, <2>5 DEF Kept
<1>4. CASE ~Raise("loop")
  <2>1. throw' = "none" /\ Moves
    BY <1>1, <1>2, <1>4 DEF CheckLoaded, Return, Replace, Moves
  <2> QED
    BY <1>1, <1>2, <2>1, MovesKept
<1>5. Raise("loop") => Top.name \in loading
  BY <1>1 DEF CheckLoaded, Raise, Return
<1> QED
  BY <1>3, <1>4, <1>5

LEMMA AskPathKept ==
  ASSUME IInv, IInv', Kept, AskPath
  PROVE  Kept'
<1>1. Top.op = "require" /\ Top.at = "search" /\ throw = "none" /\ throw' = "none" /\ UNCHANGED Loaded
  BY DEF AskPath, Running
<1>2. Moves
  BY DEF AskPath, Replace, Moves
<1> QED
  BY <1>1, <1>2, LoadsWhen, MovesKept

\* A script starts: its name is one that the sentinel is for.
LEMMA BeginKept ==
  ASSUME IInv, IInv', Kept, throw = "none", Top.op = "require", Top.at \in {"search", "open"},
         NEW from, Begin("loader", from), Sets(Top.name)
  PROVE  Kept'
<1> DEFINE f == [Top EXCEPT !.at = "running", !.call = "loader", !.from = from]
<1> PICK m : m = Top.name
  OBVIOUS
<1> PICK g : g = f
  OBVIOUS
<1>1. ~Loads(Top) /\ Len(frames) > 1 /\ m \in Name /\ Top \in Frames
  BY LoadsWhen, ScriptTop
<1>2. /\ frames' = Append(Append(Front(frames), f), Chunk(Top.name)) /\ throw' = "none"
      /\ loading' = loading \cup {m} /\ failed' = failed
  BY DEF Begin, Replace, Sets
<1>3. f.op = "require" /\ f.call = "loader" /\ f.name = m
  BY <1>1 DEF Frames
<1> HIDE DEF f
<1>4. ASSUME NEW n PROVE /\ Lasts(n) /\ Len(frames) \in 1 .. Len(frames') /\ frames'[Len(frames)] = g
  BY <1>1, <1>2, PushLasts DEF Same
<1>5. DOMAIN frames' = 1 .. Len(frames')
  BY LenProperties DEF IInv, Calls
<1>6. Looping(m)'
  BY <1>3, <1>4, <1>5 DEF Looping, Loads
<1>7. ASSUME NEW n \in loading' PROVE Looping(n)'
  BY <1>2, <1>4, <1>6, <1>7, LastsKeeps DEF Kept
<1> QED
  BY <1>1, <1>2, <1>7 DEF Kept

LEMMA LoadKept ==
  ASSUME IInv, IInv', Kept, OpenPath \/ AskSymbols
  PROVE  Kept'
<1>1. Top.op = "require" /\ Top.at \in {"search", "open"} /\ throw = "none"
  BY DEF OpenPath, AskSymbols, Running
<1>2. ~Loads(Top)
  BY <1>1, LoadsWhen
<1>3. \/ (\E from : Begin("loader", from)) /\ Sets(Top.name)
      \/ UNCHANGED Loaded /\ throw' # "loop" /\ Moves
  BY <1>1 DEF OpenPath, AskSymbols, RunResource, Raise, Replace, Moves
<1> QED
  BY <1>1, <1>2, <1>3, BeginKept, MovesKept

\* A script, or require, has given the name a value.
LEMMA ClearsKept ==
  ASSUME IInv, IInv', Kept, NEW m, Clears(m), throw' # "loop",
         \A n \in Name : n # m => Lasts(n)
  PROVE  Kept'
<1>1. loading' = loading \ {m} /\ failed' = failed \ {m}
  BY DEF Clears
<1>2. ASSUME NEW n \in loading' PROVE Looping(n)'
  BY <1>1, <1>2, LastsKeeps DEF Kept
<1> QED
  BY <1>1, <1>2 DEF Kept

LEMMA SetsLoadedKept ==
  ASSUME IInv, IInv', Kept, NEW n \in Name, ScriptSetsLoaded(n)
  PROVE  Kept'
<1>1. frames' = frames /\ throw' = "none" /\ Clears(n)
  BY DEF ScriptSetsLoaded, Running
<1> QED
  BY <1>1, ClearsKept DEF Lasts

LEMMA RequireEndKept ==
  ASSUME IInv, IInv', Kept, RequireEnd
  PROVE  Kept'
<1>1. Top.op = "require" /\ throw = "none"
  BY DEF RequireEnd, Running
<1>2. CASE Top.at = "search" /\ Raise("missing") /\ UNCHANGED Loaded
  BY <1>1, <1>2, LoadsWhen, MovesKept DEF Raise, Moves
<1>3. CASE Return(<<"module">>) /\ Clears(Top.name)
  <2>1. throw' = "none"
    BY <1>1, <1>3 DEF Return
  <2>2. \A n \in Name : n # Top.name => Lasts(n)
    BY <1>1, <1>3, LoadsWhen, ReturnIs, PopLasts
  <2> QED
    BY <1>3, <2>1, <2>2, ClearsKept
<1> QED
  BY <1>2, <1>3 DEF RequireEnd, Running

\* An error goes to the next frame: a script that require ran has failed.
LEMMA UnwindKept ==
  ASSUME IInv, IInv', Kept, Unwind
  PROVE  Kept'
<1> DEFINE f == Last(Front(frames))
<1>1. Len(frames) > 1 /\ loading' = loading /\ Sound(Top, disk) /\ Sound(f, disk) /\ f.at = "running"
  BY Waiter, TopIs DEF Unwind, IInv
<1>2. failed' = IF Loads(Top) THEN failed \cup {Top.name} ELSE failed
  BY DEF Unwind
<1>3. Loads(Top) => Top.name \in Name
  BY <1>1 DEF Loads, Sound, RequireFrame
<1>4. \/ frames' = Front(frames) /\ throw' = throw
      \/ /\ throw' = "none"
         /\ \E values : frames' = Append(Front(Front(frames)), Receive(f, "failed", values))
  BY DEF Unwind
<1>5. ASSUME NEW n, ~(Loads(Top) /\ Top.name = n) PROVE Lasts(n)
  BY <1>1, <1>4, <1>5, DropLasts, PopLasts
<1>6. ASSUME NEW n \in loading PROVE Looping(n)'
  <2>1. CASE Loads(Top) /\ Top.name = n
    BY <1>2, <2>1 DEF Looping
  <2>2. CASE ~(Loads(Top) /\ Top.name = n)
    <3>1. Looping(n) /\ Lasts(n) /\ (n \in failed => n \in failed')
      BY <1>2, <1>5, <1>6, <2>2 DEF Kept
    <3> QED
      BY <3>1, LastsKeeps
  <2> QED
    BY <2>1, <2>2
<1>7. throw' = "loop" => Top'.op # "require" \/ Top'.from # "none"
  <2>1. CASE frames' = Front(frames)
    <3>1. Top' = f
      BY <2>1 DEF Top
    <3> QED
      BY <1>1, <3>1 DEF Sound, RequireFrame
  <2>2. CASE throw' = "none"
    BY <2>2
  <2> QED
    BY <1>4, <2>1, <2>2
<1> QED
  BY <1>1, <1>2, <1>3, <1>6, <1>7 DEF Kept

LEMMA InitKept == Init => Kept
BY DEF Init, Kept

\* Every step keeps it.
LEMMA StepKept == IInv /\ IInv' /\ Kept /\ [Next]_vars => Kept'
<1> SUFFICES ASSUME IInv, IInv', Kept, [Next]_vars PROVE Kept'
  OBVIOUS
<1>1. ASSUME NEW n \in Name, Change(n) PROVE Kept'
  BY <1>1, ChangeKept
<1>2. CASE Unwind
  BY <1>2, UnwindKept
<1>3. ASSUME NEW k \in 0 .. 1, LibopenEnd(k) PROVE Kept'
  BY <1>3, LibopenEndKept
<1>4. CASE CheckLoaded \/ AskPath \/ OpenPath \/ AskSymbols \/ RequireEnd
  BY <1>4, CheckLoadedKept, AskPathKept, LoadKept, RequireEndKept
<1>5. ASSUME NEW n \in Name, ScriptSetsLoaded(n) PROVE Kept'
  BY <1>5, SetsLoadedKept
<1>6. CASE UNCHANGED vars
  BY <1>6 DEF vars, Kept, Looping, Top
<1>7. CASE \/ \E n \in Name : HostRequire(n) \/ \E trace \in BOOLEAN : HostDofile(n, trace)
           \/ OpenSymbols \/ RequireGone \/ HostLibopen \/ HostEnd \/ \E k \in 0 .. MaxStack : Settle(k)
  BY <1>7, HostCallsKept
<1>8. CASE Choose \/ Backup \/ Fallback \/ DofileEnd
  BY <1>8, DofileKept
<1>9. CASE ScriptCalls \/ ScriptEnds
  BY <1>9, ScriptKept
<1>10. CASE NestedLibopen \/ CPush \/ CEnds
  BY <1>10, CKept
<1> QED
  BY <1>1, <1>2, <1>3, <1>4, <1>5, <1>6, <1>7, <1>8, <1>9, <1>10 DEF Next

(***************************************************************************)
(* The theorems                                                            *)
(***************************************************************************)
\* Every state the loader, its scripts and the host reach satisfies the invariant.
THEOREM LoaderInvariant == Spec => [](IInv /\ Kept)
<1>1. Init => IInv /\ Kept
  BY InitIInv, InitKept
<1>2. IInv /\ Kept /\ [Next]_vars => (IInv /\ Kept)'
  BY StepIInv, StepKept
<1> QED
  BY <1>1, <1>2, PTL DEF Spec

\* A script is run by dofile or require alone, from a file or from a resource.
LEMMA IInvTypes == IInv /\ Kept => TypeOK
<1> SUFFICES ASSUME IInv, Kept PROVE TypeOK
  OBVIOUS
<1> DEFINE n == Len(frames)
<1>1. /\ n \in 1 .. MaxFrames /\ Host.op = "host"
      /\ \A i \in 1 .. n : Sound(frames[i], disk)
      /\ \A i \in 2 .. n : Waits(frames[i - 1], frames[i])
  BY DEF IInv, Calls, Host
<1> HIDE DEF n
<1>2. n \in Nat
  BY <1>1, LoaderAssumption
<1>3. ASSUME NEW i \in 2 .. n
      PROVE  /\ frames[i].op \in {"dofile", "require", "chunk", "cfunction"}
             /\ frames[i].op = "chunk" => frames[i - 1].from \in {"file", "embedded"}
             /\ i < n => frames[i].at = "running"
  <2>1. i \in 1 .. n /\ i - 1 \in 1 .. n /\ Waits(frames[i - 1], frames[i])
    BY <1>1, <1>2
  <2>2. Sound(frames[i], disk) /\ Sound(frames[i - 1], disk)
    BY <1>1, <2>1
  <2>3. frames[i].op \in {"dofile", "require", "chunk", "cfunction"}
    BY <2>1, <2>2 DEF Sound, Frames, Waits
  <2>4. frames[i].op = "chunk" => frames[i - 1].from \in {"file", "embedded"}
    BY <2>1, <2>2 DEF Sound, Frames, Waits, DofileFrame, RequireFrame
  <2>5. ASSUME i < n PROVE frames[i].at = "running"
    <3>1. i + 1 \in 2 .. n /\ i + 1 - 1 = i
      BY <1>2, <2>5
    <3>2. Waits(frames[i + 1 - 1], frames[i + 1])
      BY <1>1, <3>1
    <3> QED
      BY <3>1, <3>2 DEF Waits
  <2> QED
    BY <2>3, <2>4, <2>5
<1>4. \A i \in 2 .. Len(frames) :
        /\ frames[i].op \in {"dofile", "require", "chunk", "cfunction"}
        /\ frames[i].op = "chunk" => frames[i - 1].from \in {"file", "embedded"}
        /\ i < Len(frames) => frames[i].at = "running"
  BY <1>3 DEF n
<1> QED
  BY <1>1, <1>4 DEF IInv, States, Kept, TypeOK, Errors, CErrors, n

\* Calls of dofile and require record why they run what they run.
LEMMA IInvSources == IInv => SourceExplained
<1> SUFFICES ASSUME IInv, NEW i \in DOMAIN frames, frames[i].op \in {"dofile", "require"}
             PROVE  /\ frames[i].from = "file" => "file" \in frames[i].seen
                    /\ frames[i].from = "embedded" =>
                         /\ frames[i].seen # {"file"} /\ Resource(frames[i].name) = "good"
                         /\ frames[i].op = "dofile" => "none" \in frames[i].seen
  BY DEF SourceExplained
<1>1. i \in 1 .. Len(frames)
  BY LenProperties DEF IInv, Calls
<1>2. Sound(frames[i], disk)
  BY <1>1 DEF IInv, Calls
<1> QED
  BY <1>2 DEF Sound, DofileFrame, RequireFrame, NoFile

\* The variables keep to their values; calls are stacked as dofile, require and
\* libopen make them, each script run by a loader that records where it came from.
THEOREM LoaderTypes == Spec => []TypeOK
BY LoaderInvariant, IInvTypes, PTL

\* A script's file runs only if it was there at some moment of the call, and an
\* embedded one only if at some moment no file could be read (symbol_dofile_C).
THEOREM SourcesExplained == Spec => []SourceExplained
BY LoaderInvariant, IInvSources, PTL

\* What dofile and require fail with has its cause: the file, the resource, or a
\* script of the same name that is under way or has failed.
LEMMA ReasonsGiven == IInv /\ Kept => LoadFailureExplained
<1> SUFFICES ASSUME IInv, Kept, Top.op \in {"dofile", "require"}, Top.from = "none", Failure # "none"
             PROVE  Cause(Failure)
  BY DEF LoadFailureExplained
<1>1. IF Failure = "loop" THEN Top.op = "require" ELSE Cause(Failure)
  BY DEF IInv, Reason
<1>2. ASSUME Failure = "loop" PROVE Looping(Top.name)
  BY <1>1, <1>2 DEF Failure, Kept
<1> QED
  BY <1>1, <1>2 DEF Cause

\* A failure to load has a cause that was there at some moment of the call, an
\* error about a loop one that is there still.
THEOREM FailuresExplained == Spec => []LoadFailureExplained
BY LoaderInvariant, ReasonsGiven, PTL

\* Whatever scripts call, return and raise, the host's stack is after each call
\* what the call documents and nothing else, but for nil in the place of a message
\* when luaStackTrace_C handled the error.
THEOREM StackExact == Spec => []HostStackExact
<1>1. IInv => HostStackExact
  BY DEF IInv
<1> QED
  BY <1>1, LoaderInvariant, PTL

\* While the exception handler is set, lua_safeguard is that of the innermost
\* lua_guarded_pcall under way, however deep calls of libopen nest.
THEOREM GuardLive == Spec => []GuardTargetLive
<1>1. IInv => GuardTargetLive
  BY DEF IInv
<1> QED
  BY <1>1, LoaderInvariant, PTL

(***************************************************************************)
(* LuaTables                                                               *)
(***************************************************************************)
\* Of a traversal: the keys stored are those accepted; without an addition each
\* was visited once, and a field that lasts has been or will be visited.
Traversed(w, live) ==
  /\ w.result = w.accepted
  /\ ~w.added => /\ w.count = Cardinality(w.result)
                 /\ w.result \subseteq w.asked
                 /\ w.fields \cap w.asked = {}
                 /\ w.key # Nil => w.key \in w.asked \ w.result
                 /\ w.lasting \subseteq live
                 /\ w.lasting \subseteq w.asked \cup w.fields

Traversal == walk # None => Traversed(walk, Live)

\* The count in t[0] is right until it is set to nil.
Counted == pack # None /\ pack.count # Nil => pack.count = Len(pack.items)

\* The inductive invariant.
LTIInv == /\ LTTypeOK /\ Traversal /\ Counted
          /\ KeysExact /\ AppendFresh /\ SequentialIff /\ KeyofTrue /\ PackRoundTrip

(***************************************************************************)
(* Finite sets of keys                                                     *)
(***************************************************************************)
\* What the assumptions say, one by one.
LEMMA Facts ==
  /\ Indices \subseteq Nat \ {0} /\ IsFiniteSet(Keys)
  /\ Numerals \cap Indices = {} /\ Truncated \in [Numerals -> Int]
  /\ Nil \notin Keys /\ Nil \in Items /\ Sources \subseteq Tables /\ Empty \in Tables
  /\ Indices \subseteq Keys /\ Numerals \subseteq Keys
BY LuaTablesAssumption DEF Keys, Items, Tables, Empty

\* A finite set of keys has a number of elements.
LEMMA FiniteKeys ==
  ASSUME NEW S \in SUBSET Keys PROVE IsFiniteSet(S) /\ Cardinality(S) \in Nat
<1>1. IsFiniteSet(S)
  BY Facts, FS_Subset
<1> QED
  BY <1>1, FS_CardinalityType

\* A finite set of integers that is not empty has a largest element: the one
\* with a minimal set of larger ones.
LEMMA Largest ==
  ASSUME NEW S \in SUBSET Int, IsFiniteSet(S), S # {}
  PROVE  Max(S) \in S /\ \A y \in S : y <= Max(S)
<1> DEFINE Above(x) == {y \in S : y > x}
           T == {Above(x) : x \in S}
<1>1. T \subseteq FiniteSubsetsOf(S) /\ T # {}
  <2>1. \A x \in S : Above(x) \in SUBSET S
    OBVIOUS
  <2>2. \A x \in S : IsFiniteSet(Above(x))
    BY <2>1, FS_Subset
  <2> QED
    BY <2>1, <2>2 DEF FiniteSubsetsOf
<1>2. IsWellFoundedOn(StrictSubsetOrdering(S), FiniteSubsetsOf(S))
  BY FS_StrictSubsetOrderingWellFounded
<1>3. PICK A \in T : \A B \in T : ~ (<<B, A>> \in StrictSubsetOrdering(S))
  <2> HIDE DEF T
  <2> QED
    BY <1>1, <1>2, WFMin
<1>4. PICK x \in S : A = Above(x)
  BY <1>3
<1>5. \A y \in S : x >= y
  <2> SUFFICES ASSUME NEW y \in S, y > x PROVE FALSE
    OBVIOUS
  <2>1. Above(y) \in T /\ Above(y) \subseteq Above(x) /\ y \in Above(x) /\ y \notin Above(y)
    <3>1. x \in Int /\ y \in Int /\ \A z \in S : z \in Int
      OBVIOUS
    <3>2. \A z \in Above(y) : z \in Above(x)
      BY <3>1
    <3>3. y \in Above(x) /\ y \notin Above(y)
      BY <3>1
    <3> QED
      BY <3>2, <3>3
  <2>2. <<Above(y), A>> \in StrictSubsetOrdering(S)
    BY <1>4, <2>1 DEF StrictSubsetOrdering
  <2> QED
    BY <1>3, <2>1, <2>2
<1> QED
  BY <1>5 DEF Max

\* The largest number among the keys is none below a key that is an index.
LEMMA MaxNLargest == ASSUME table \in Tables PROVE MaxN \in Int /\ \A k \in Live \cap Indices : k <= MaxN
<1> DEFINE N == {AsInteger(k) : k \in Numbers}
           f == [k \in Numbers |-> AsInteger(k)]
<1>1. Numbers \subseteq Keys /\ \A k \in Numbers : AsInteger(k) \in Int
  BY Facts DEF Numbers, Live, AsInteger
<1>2. f \in Surjection(Numbers, N)
  BY DEF Surjection
<1>3. IsFiniteSet(N)
  <2>1. IsFiniteSet(Numbers)
    BY <1>1, FiniteKeys
  <2> HIDE DEF N, f
  <2> QED
    BY <1>2, <2>1, FS_Surjection
<1>4. IsFiniteSet({0} \cup N) /\ ({0} \cup N) \in SUBSET Int
  <2>1. IsFiniteSet(N \cup {0})
    BY <1>3, FS_AddElement
  <2>2. {0} \cup N = N \cup {0}
    OBVIOUS
  <2> QED
    BY <1>1, <2>1, <2>2
<1>5. Max({0} \cup N) \in {0} \cup N /\ \A y \in {0} \cup N : y <= Max({0} \cup N)
  BY <1>4, Largest
<1>6. \A k \in Live \cap Indices : k \in N
  BY DEF Numbers, AsInteger
<1> QED
  BY <1>4, <1>5, <1>6 DEF MaxN

\* Counting decides whether the keys are 1 to n.
LEMMA SequentialExact ==
  Sequential <=> \E n \in 1 .. Cardinality(Keys) : Live = 1 .. n
<1>1. /\ IsFiniteSet(Live) /\ Cardinality(Live) \in Nat /\ Cardinality(Live) <= Cardinality(Keys)
      /\ Cardinality(Keys) \in Nat /\ Live \in SUBSET Keys
  <2>1. Live \in SUBSET Keys /\ Keys \in SUBSET Keys
    BY DEF Live
  <2> QED
    BY <2>1, FiniteKeys, FS_Subset, Facts
<1>2. ASSUME Sequential PROVE \E n \in 1 .. Cardinality(Keys) : Live = 1 .. n
  <2> DEFINE n == Cardinality(Live)
  <2>1. Live # {} /\ 1 .. n \in SUBSET Live
    BY <1>2 DEF Sequential
  <2>2. n # 0
    BY <1>1, <2>1, FS_EmptySet
  <2>3. Cardinality(1 .. n) = n
    BY <1>1, <2>2, FS_Interval
  <2>4. Live = 1 .. n
    BY <1>1, <2>1, <2>3, FS_Subset
  <2> QED
    BY <1>1, <2>2, <2>4
<1>3. ASSUME NEW n \in 1 .. Cardinality(Keys), Live = 1 .. n PROVE Sequential
  <2>1. Cardinality(Live) = n
    BY <1>1, <1>3, FS_Interval
  <2> QED
    BY <1>1, <1>3, <2>1 DEF Sequential
<1> QED
  BY <1>2, <1>3

(***************************************************************************)
(* Steps                                                                   *)
(***************************************************************************)
\* No helper has answered, or no answer is about a changed table.
Answers == KeysExact /\ AppendFresh /\ SequentialIff /\ KeyofTrue /\ PackRoundTrip

\* Without an answer there is nothing to be wrong.
LEMMA NoAnswer == ASSUME ret = None PROVE Answers
BY DEF None, Answers, KeysExact, AppendFresh, SequentialIff, KeyofTrue, PackRoundTrip

\* The same of the next state.
LEMMA NoAnswerNext == ASSUME ret' = None PROVE Answers'
BY DEF None, Answers, KeysExact, AppendFresh, SequentialIff, KeyofTrue, PackRoundTrip

\* An empty table, and no helper called.
LEMMA LTInitIInv == LTInit => LTIInv
<1> SUFFICES ASSUME LTInit PROVE LTIInv
  OBVIOUS
<1>1. Answers
  BY NoAnswer DEF LTInit
<1>2. LTTypeOK /\ Traversal /\ Counted
  BY Facts DEF LTInit, LTTypeOK, Traversal, Counted
<1> QED
  BY <1>1, <1>2 DEF LTIInv, Answers

\* What Lua code and table_merge do between the other helpers.
LEMMA AssignStep ==
  ASSUME LTIInv, Assign \/ \E first, second \in Sources \cup {Empty} : Merge(first, second)
  PROVE  LTIInv'
<1>1. walk = None /\ pack = None /\ UNCHANGED <<walk, pack>> /\ ret' = None
  BY DEF Assign, Merge, Idle, Returns
<1>2. table' \in Tables
  <2>1. table \in Tables
    BY DEF LTIInv, LTTypeOK
  <2>2. CASE Assign
    BY <2>1, <2>2 DEF Assign, Tables
  <2>3. ASSUME NEW first \in Tables, NEW second \in Tables, Merge(first, second)
        PROVE  table' \in Tables
    BY <2>1, <2>3 DEF Merge, Into, Tables
  <2> QED
    BY <2>2, <2>3, Facts
<1>3. LTTypeOK' /\ Traversal' /\ Counted'
  BY <1>1, <1>2 DEF LTTypeOK, Traversal, Counted
<1>4. Answers'
  BY <1>1, NoAnswerNext
<1> QED
  BY <1>3, <1>4 DEF LTIInv, Answers

\* table_keys begins with the fields there are.
LEMMA KeysBeginStep == ASSUME LTIInv, KeysBegin PROVE LTIInv'
<1> DEFINE w == [fields |-> Live, key |-> Nil, added |-> FALSE, changes |-> 0,
                 result |-> {}, count |-> 0, lasting |-> Live, asked |-> {}, accepted |-> {}]
<1>1. walk' = w /\ ret' = None /\ pack = None /\ UNCHANGED <<table, pack>>
  BY DEF KeysBegin, Idle
<1>2. w \in Walks
  BY DEF Walks, Live
<1>3. Traversed(w, Live)
  BY FS_EmptySet DEF Traversed
<1>4. Live' = Live
  BY <1>1 DEF Live
<1>5. LTTypeOK'
  BY <1>1, <1>2 DEF LTIInv, LTTypeOK
<1>6. Traversal' /\ Counted'
  BY <1>1, <1>3, <1>4 DEF Traversal, Counted
<1>7. Answers'
  BY <1>1, NoAnswerNext
<1> QED
  BY <1>5, <1>6, <1>7 DEF LTIInv, Answers

\* A field that is visited was not visited before, unless one was added.
LEMMA VisitStep == ASSUME LTIInv, Visit PROVE LTIInv'
<1>1. walk # None /\ walk.key = Nil /\ UNCHANGED <<table, pack, ret>>
  BY DEF Visit
<1>2. walk \in Walks /\ pack = None /\ ret = None /\ Traversed(walk, Live)
  BY <1>1 DEF LTIInv, LTTypeOK, Traversal
<1>3. PICK k \in (IF walk.added THEN Live ELSE walk.fields \cap Live) :
        walk' = [walk EXCEPT !.key = k, !.fields = @ \ {k}, !.asked = @ \cup {k}]
  BY DEF Visit
<1>4. k \in Keys /\ k # Nil
  BY <1>3, Facts DEF Live
<1>5. /\ walk' \in Walks
      /\ walk'.key = k /\ walk'.fields = walk.fields \ {k} /\ walk'.asked = walk.asked \cup {k}
      /\ walk'.added = walk.added /\ walk'.result = walk.result /\ walk'.accepted = walk.accepted
      /\ walk'.count = walk.count /\ walk'.lasting = walk.lasting
  BY <1>2, <1>3, <1>4 DEF Walks
<1>6. Traversed(walk', Live)
  BY <1>2, <1>3, <1>4, <1>5 DEF Traversed
<1>7. Live' = Live
  BY <1>1 DEF Live
<1>8. LTTypeOK' /\ Traversal' /\ Counted'
  BY <1>1, <1>2, <1>5, <1>6, <1>7 DEF LTIInv, LTTypeOK, Traversal, Counted
<1>9. Answers'
  BY <1>1, <1>2, NoAnswerNext
<1> QED
  BY <1>8, <1>9 DEF LTIInv, Answers

\* What the filter's call makes of a traversal.
Outcome(w, f, use, k, v) ==
  /\ f \in Walks
  /\ f.key = Nil /\ f.fields = w.fields /\ f.asked = w.asked
  /\ f.added = (w.added \/ (table[k] = Nil /\ v # Nil))
  /\ f.lasting = (IF v = Nil THEN w.lasting \ {k} ELSE w.lasting)
  /\ f.result = (IF use THEN w.result \cup {w.key} ELSE w.result)
  /\ f.count = (IF use THEN w.count + 1 ELSE w.count)
  /\ f.accepted = (IF use THEN w.accepted \cup {w.key} ELSE w.accepted)

\* Field by field, it is what the definition says.
LEMMA FilteredFields ==
  ASSUME NEW w \in Walks, NEW use \in BOOLEAN, NEW k \in Keys, NEW v \in Items, w.key \in Keys
  PROVE  Outcome(w, Filtered(w, use, k, v), use, k, v)
<1> DEFINE result == IF use THEN w.result \cup {w.key} ELSE w.result
           count == IF use THEN w.count + 1 ELSE w.count
           changes == IF table[k] # v THEN w.changes + 1 ELSE w.changes
           added == w.added \/ (table[k] = Nil /\ v # Nil)
           lasting == IF v = Nil THEN w.lasting \ {k} ELSE w.lasting
           accepted == IF use THEN w.accepted \cup {w.key} ELSE w.accepted
           r == [fields |-> w.fields, key |-> Nil, added |-> added, changes |-> changes,
                 result |-> result, count |-> count, lasting |-> lasting, asked |-> w.asked,
                 accepted |-> accepted]
<1>1. /\ result \in SUBSET Keys /\ count \in Nat /\ changes \in Nat /\ added \in BOOLEAN
      /\ lasting \in SUBSET Keys /\ accepted \in SUBSET Keys
      /\ w.fields \in SUBSET Keys /\ w.asked \in SUBSET Keys
  BY DEF Walks
<1> DEFINE s == [fields |-> w.fields, key |-> w.key, added |-> w.added, changes |-> w.changes,
                 result |-> result, count |-> count, lasting |-> w.lasting, asked |-> w.asked,
                 accepted |-> w.accepted]
<1>2. Stored(w, use) = s
  <2>1. w = [fields |-> w.fields, key |-> w.key, added |-> w.added, changes |-> w.changes,
             result |-> w.result, count |-> w.count, lasting |-> w.lasting, asked |-> w.asked,
             accepted |-> w.accepted]
    BY DEF Walks
  <2>2. CASE use
    BY <2>1, <2>2 DEF Stored
  <2>3. CASE ~use
    BY <2>1, <2>3 DEF Stored
  <2> QED
    BY <2>2, <2>3
<1>3. Filtered(w, use, k, v) = r
  <2>1. Filtered(w, use, k, v) =
          [s EXCEPT !.key = Nil, !.changes = changes, !.added = added, !.lasting = lasting,
                    !.accepted = accepted]
    <3>1. /\ s.changes = w.changes /\ s.added = w.added /\ s.lasting = w.lasting
          /\ s.accepted = w.accepted
      OBVIOUS
    <3> HIDE DEF s
    <3> QED
      BY <1>2, <3>1 DEF Filtered
  <2> HIDE DEF result, count, changes, added, lasting, accepted
  <2> QED
    BY <2>1
<1> HIDE DEF result, count, changes, added, lasting, accepted
<1>4. r \in Walks
  BY <1>1 DEF Walks
<1> QED
  BY <1>3, <1>4 DEF Outcome, result, count, added, lasting, accepted

\* The filter may clear and assign fields; the key is stored once.
LEMMA FilterStep == ASSUME LTIInv, Filter PROVE LTIInv'
<1>1. walk # None /\ walk.key # Nil /\ UNCHANGED <<pack, ret>>
  BY DEF Filter
<1>2. /\ walk \in Walks /\ pack = None /\ ret = None /\ Traversed(walk, Live)
      /\ table \in Tables /\ walk.key \in Keys
  BY <1>1 DEF LTIInv, LTTypeOK, Traversal, Walks
<1>3. PICK use \in BOOLEAN, k \in Keys, v \in Items :
        table' = [table EXCEPT ![k] = v] /\ walk' = Filtered(walk, use, k, v)
  BY DEF Filter
<1>4. Outcome(walk, walk', use, k, v)
  BY <1>2, <1>3, FilteredFields
<1>5. /\ walk' \in Walks
      /\ walk'.key = Nil /\ walk'.fields = walk.fields /\ walk'.asked = walk.asked
      /\ walk'.result = (IF use THEN walk.result \cup {walk.key} ELSE walk.result)
      /\ walk'.count = (IF use THEN walk.count + 1 ELSE walk.count)
      /\ walk'.accepted = (IF use THEN walk.accepted \cup {walk.key} ELSE walk.accepted)
  BY <1>4 DEF Outcome
<1>6. /\ walk'.added = (walk.added \/ (table[k] = Nil /\ v # Nil))
      /\ walk'.lasting = (IF v = Nil THEN walk.lasting \ {k} ELSE walk.lasting)
  BY <1>4 DEF Outcome
<1>7. table' \in Tables
  BY <1>2, <1>3 DEF Tables
<1>8. walk'.added \/ (/\ ~walk.added
                      /\ walk'.lasting \subseteq Live'
                      /\ walk'.lasting \subseteq walk.lasting)
  BY <1>2, <1>3, <1>6 DEF Traversed, Live, Tables
<1>9. walk'.result = walk'.accepted
  BY <1>2, <1>5 DEF Traversed
<1>10. ASSUME ~walk'.added
       PROVE  walk'.count = Cardinality(walk'.result) /\ walk'.result \subseteq walk'.asked
  <2>1. /\ ~walk.added /\ walk.key \in walk.asked \ walk.result
        /\ walk.count = Cardinality(walk.result) /\ walk.result \subseteq walk.asked
    BY <1>1, <1>2, <1>8, <1>10 DEF Traversed
  <2>2. walk.result \in SUBSET Keys
    BY <1>2 DEF Walks
  <2>3. Cardinality(walk.result \cup {walk.key}) = Cardinality(walk.result) + 1
    BY <2>1, <2>2, FiniteKeys, FS_AddElement
  <2> QED
    BY <1>5, <2>1, <2>3
<1>11. Traversed(walk', Live')
  BY <1>2, <1>5, <1>6, <1>8, <1>9, <1>10 DEF Traversed
<1>12. LTTypeOK' /\ Traversal' /\ Counted'
  BY <1>1, <1>2, <1>5, <1>7, <1>11 DEF LTTypeOK, Traversal, Counted
<1>13. Answers'
  BY <1>1, <1>2, NoAnswerNext
<1> QED
  BY <1>12, <1>13 DEF LTIInv, Answers

\* table_keys ends, or an error ends it.
LEMMA KeysEndStep == ASSUME LTIInv, KeysEnd \/ KeysRaise PROVE LTIInv'
<1>1. walk # None /\ walk' = None /\ UNCHANGED <<table, pack>>
  BY DEF KeysEnd, KeysRaise
<1>2. walk \in Walks /\ pack = None /\ ret = None /\ Traversed(walk, Live)
  BY <1>1 DEF LTIInv, LTTypeOK, Traversal
<1>3. LTTypeOK' /\ Traversal' /\ Counted'
  BY <1>1, <1>2 DEF LTIInv, LTTypeOK, Traversal, Counted
<1>4. CASE KeysRaise
  <2>1. Answers'
    BY <1>2, <1>4, NoAnswerNext DEF KeysRaise
  <2> QED
    BY <1>3, <2>1 DEF LTIInv, Answers
<1>5. CASE KeysEnd
  <2>1. ret' = [op |-> "keys", walk |-> walk] /\ (walk.added \/ walk.fields \cap Live = {})
    BY <1>5 DEF KeysEnd
  <2>2. KeysExact'
    BY <1>2, <2>1 DEF Traversed, KeysExact
  <2>3. AppendFresh' /\ SequentialIff' /\ KeyofTrue' /\ PackRoundTrip'
    BY <2>1 DEF AppendFresh, SequentialIff, KeyofTrue, PackRoundTrip
  <2> QED
    BY <1>3, <2>2, <2>3 DEF LTIInv
<1> QED
  BY <1>4, <1>5

\* The helpers that only look at the table.
LEMMA LookStep ==
  ASSUME LTIInv, (\E v \in Items : Keyof(v)) \/ Count \/ IsSequential
  PROVE  LTIInv'
<1>1. walk = None /\ pack = None /\ UNCHANGED <<table, walk, pack>>
  BY DEF Keyof, Count, IsSequential, Idle, Returns
<1>2. LTTypeOK' /\ Traversal' /\ Counted'
  BY <1>1 DEF LTIInv, LTTypeOK, Traversal, Counted
<1>3. ASSUME NEW v \in Items, Keyof(v) PROVE Answers'
  <2>1. PICK found, key, left :
          \/ /\ ret' = [op |-> "keyof", value |-> v, found |-> found, key |-> key, left |-> left]
             /\ IF found THEN key \in Live /\ table[key] = v ELSE \A k \in Live : table[k] # v
          \/ /\ ret' = [op |-> "raised", value |-> v]
             /\ \E k \in Live : Raises(table[k], v)
    <3>1. CASE v = Nil /\ ret' = [op |-> "keyof", value |-> v, found |-> FALSE, key |-> Nil, left |-> 1]
      BY <3>1 DEF Live
    <3>2. CASE v # Nil /\ Ends(v) = {}
               /\ ret' = [op |-> "keyof", value |-> v, found |-> FALSE, key |-> Nil, left |-> 0]
      BY <3>2 DEF Ends
    <3>3. CASE \E k \in Ends(v) :
                 IF Raises(table[k], v) THEN ret' = [op |-> "raised", value |-> v]
                 ELSE ret' = [op |-> "keyof", value |-> v, found |-> TRUE, key |-> k, left |-> 0]
      BY <3>3 DEF Ends
    <3> QED
      BY <1>3, <3>1, <3>2, <3>3 DEF Keyof, Returns
  <2>2. Live' = Live /\ table' = table
    BY <1>1 DEF Live
  <2>3. KeyofTrue'
    BY <2>1, <2>2 DEF KeyofTrue, Raises
  <2>4. KeysExact' /\ AppendFresh' /\ SequentialIff' /\ PackRoundTrip'
    BY <2>1 DEF KeysExact, AppendFresh, SequentialIff, PackRoundTrip
  <2> QED
    BY <2>3, <2>4 DEF Answers
<1>4. ASSUME Count PROVE Answers'
  BY <1>4 DEF Count, Returns, Answers, KeysExact, AppendFresh, SequentialIff, KeyofTrue, PackRoundTrip
<1>5. ASSUME IsSequential PROVE Answers'
  <2>1. ret' = [op |-> "issequential", result |-> Sequential]
    BY <1>5 DEF IsSequential, Returns
  <2>2. Live' = Live
    BY <1>1 DEF Live
  <2>3. SequentialIff'
    BY <2>1, <2>2, SequentialExact DEF SequentialIff
  <2>4. KeysExact' /\ AppendFresh' /\ KeyofTrue' /\ PackRoundTrip'
    BY <2>1 DEF KeysExact, AppendFresh, KeyofTrue, PackRoundTrip
  <2> QED
    BY <2>3, <2>4 DEF Answers
<1>6. Answers'
  BY <1>3, <1>4, <1>5
<1> QED
  BY <1>2, <1>6 DEF LTIInv, Answers

\* table_append: the position after the largest number is free.
LEMMA AppendStep ==
  ASSUME LTIInv, NEW pos \in {0} \cup Indices, NEW v \in Items, TableAppend(pos, v)
  PROVE  LTIInv'
<1>1. /\ walk = None /\ pack = None /\ UNCHANGED <<walk, pack>> /\ Position(pos) \in Indices
      /\ table' = [table EXCEPT ![Position(pos)] = v]
      /\ ret' = [op |-> "append", pos |-> pos, value |-> v, before |-> table]
  BY DEF TableAppend, Idle, Returns
<1>2. table \in Tables /\ Position(pos) \in Keys
  BY <1>1, Facts DEF LTIInv, LTTypeOK
<1>3. table' \in Tables
  BY <1>1, <1>2 DEF Tables
<1>4. LTTypeOK' /\ Traversal' /\ Counted'
  BY <1>1, <1>3 DEF LTTypeOK, Traversal, Counted
<1>5. AppendFresh'
  <2>1. ASSUME pos < 1, NEW k \in Keys, table[k] # Nil PROVE k # Position(pos)
    <3>1. Position(pos) = MaxN + 1 /\ MaxN \in Int
      BY <1>2, <2>1, MaxNLargest DEF Position
    <3>2. CASE k \in Indices
      BY <1>2, <2>1, <3>1, <3>2, MaxNLargest DEF Live
    <3>3. CASE k \notin Indices
      BY <1>1, <3>3
    <3> QED
      BY <3>2, <3>3
  <2> QED
    BY <1>1, <1>2, <2>1 DEF AppendFresh, Tables
<1>6. KeysExact' /\ SequentialIff' /\ KeyofTrue' /\ PackRoundTrip'
  BY <1>1 DEF KeysExact, SequentialIff, KeyofTrue, PackRoundTrip
<1> QED
  BY <1>4, <1>5, <1>6 DEF LTIInv

\* xpack, changes of its elements and of t[0], xunpack.
LEMMA PackStep ==
  ASSUME LTIInv, (\E items \in SeqOf(Items, MaxPack) : Xpack(items)) \/ ChangePack \/ Xunpack
  PROVE  LTIInv'
<1>1. ASSUME NEW items \in SeqOf(Items, MaxPack), Xpack(items) PROVE LTIInv'
  <2>1. items \in Seq(Items)
    BY DEF SeqOf
  <2>2. /\ pack' = [items |-> items, count |-> Len(items), changes |-> 0]
        /\ ret' = None /\ walk = None /\ UNCHANGED <<table, walk>>
    BY <1>1 DEF Xpack, Idle
  <2>3. pack' \in Packs /\ pack'.count = Len(pack'.items)
    BY <2>1, <2>2 DEF Packs
  <2>4. LTTypeOK' /\ Traversal' /\ Counted'
    BY <2>2, <2>3 DEF LTIInv, LTTypeOK, Traversal, Counted
  <2>5. Answers'
    BY <2>2, NoAnswerNext
  <2> QED
    BY <2>4, <2>5 DEF LTIInv, Answers
<1>2. CASE ChangePack
  <2>1. pack # None /\ UNCHANGED <<table, walk, ret>>
    BY <1>2 DEF ChangePack
  <2>2. pack \in Packs /\ walk = None /\ ret = None /\ (pack.count # Nil => pack.count = Len(pack.items))
    BY <2>1 DEF LTIInv, LTTypeOK, Counted
  <2>3. pack' \in Packs /\ (pack'.count # Nil => pack'.count = Len(pack'.items))
    <3>1. ASSUME NEW i \in DOMAIN pack.items, NEW v \in Items,
                 pack' = [pack EXCEPT !.items[i] = v, !.changes = @ + 1]
          PROVE  pack' \in Packs /\ (pack'.count # Nil => pack'.count = Len(pack'.items))
      <4> DEFINE new == [pack.items EXCEPT ![i] = v]
      <4>1. new \in Seq(Items) /\ Len(new) = Len(pack.items)
        BY <2>2 DEF Packs
      <4>2. pack' = [items |-> new, count |-> pack.count, changes |-> pack.changes + 1]
        BY <2>2, <3>1 DEF Packs
      <4>3. pack.count \in Nat \cup {Nil} /\ pack.changes + 1 \in Nat
        BY <2>2 DEF Packs
      <4> HIDE DEF new
      <4> QED
        BY <2>2, <4>1, <4>2, <4>3 DEF Packs
    <3>2. ASSUME pack' = [pack EXCEPT !.count = Nil, !.changes = @ + 1]
          PROVE  pack' \in Packs /\ (pack'.count # Nil => pack'.count = Len(pack'.items))
      <4>1. pack' = [items |-> pack.items, count |-> Nil, changes |-> pack.changes + 1]
        BY <2>2, <3>2 DEF Packs
      <4>2. pack.items \in Seq(Items) /\ pack.changes + 1 \in Nat
        BY <2>2 DEF Packs
      <4> QED
        BY <4>1, <4>2 DEF Packs
    <3> QED
      BY <1>2, <3>1, <3>2 DEF ChangePack
  <2>4. LTTypeOK' /\ Traversal' /\ Counted'
    BY <2>1, <2>2, <2>3 DEF LTIInv, LTTypeOK, Traversal, Counted
  <2>5. Answers'
    BY <2>1, <2>2, NoAnswerNext
  <2> QED
    BY <2>4, <2>5 DEF LTIInv, Answers
<1>3. CASE Xunpack
  <2>1. PICK to \in Extents :
          ret' = [op |-> "xunpack", values |-> [i \in 1 .. to |-> pack.items[i]], pack |-> pack]
    BY <1>3 DEF Xunpack
  <2>2. pack # None /\ pack' = None /\ UNCHANGED <<table, walk>>
    BY <1>3 DEF Xunpack
  <2>3. pack \in Packs /\ walk = None /\ (pack.count # Nil => pack.count = Len(pack.items))
    BY <2>2 DEF LTIInv, LTTypeOK, Counted
  <2>4. LTTypeOK' /\ Traversal' /\ Counted'
    BY <2>2, <2>3 DEF LTIInv, LTTypeOK, Traversal, Counted
  <2>5. PackRoundTrip'
    <3>1. ASSUME pack.count # Nil PROVE [i \in 1 .. to |-> pack.items[i]] = pack.items
      <4>1. to = Len(pack.items) /\ pack.items \in Seq(Items)
        BY <2>3, <3>1 DEF Extents, Packs
      <4> QED
        BY <4>1
    <3> QED
      BY <2>1, <3>1 DEF PackRoundTrip
  <2>6. KeysExact' /\ AppendFresh' /\ SequentialIff' /\ KeyofTrue'
    BY <2>1 DEF KeysExact, AppendFresh, SequentialIff, KeyofTrue
  <2> QED
    BY <2>4, <2>5, <2>6 DEF LTIInv
<1> QED
  BY <1>1, <1>2, <1>3

(***************************************************************************)
(* The theorems                                                            *)
(***************************************************************************)
\* Every step keeps the invariant.
LEMMA LTStepIInv == LTIInv /\ [LTNext]_ltvars => LTIInv'
<1> SUFFICES ASSUME LTIInv, [LTNext]_ltvars PROVE LTIInv'
  OBVIOUS
<1>1. CASE UNCHANGED ltvars
  BY <1>1 DEF ltvars, LTIInv, LTTypeOK, Traversal, Traversed, Live, Counted, KeysExact, AppendFresh,
              SequentialIff, KeyofTrue, PackRoundTrip
<1>2. CASE Helper
  BY <1>2, AssignStep, LookStep, AppendStep, PackStep DEF Helper
<1> QED
  BY <1>1, <1>2, AssignStep, KeysBeginStep, VisitStep, FilterStep, KeysEndStep, PackStep DEF LTNext

\* The inductive invariant holds always.
LEMMA TablesInvariant == LTSpec => []LTIInv
BY LTInitIInv, LTStepIInv, PTL DEF LTSpec

\* The variables keep their types.
THEOREM TablesTypes == LTSpec => []LTTypeOK
<1>1. LTIInv => LTTypeOK
  BY DEF LTIInv
<1> QED
  BY <1>1, TablesInvariant, PTL

\* table_keys stores exactly the accepted keys, each once, and leaves out no
\* lasting field, unless its filter adds one.
THEOREM KeysAreExact == LTSpec => []KeysExact
<1>1. LTIInv => KeysExact
  BY DEF LTIInv
<1> QED
  BY <1>1, TablesInvariant, PTL

\* table_append without a position never overwrites a field.
THEOREM AppendsAreFresh == LTSpec => []AppendFresh
<1>1. LTIInv => AppendFresh
  BY DEF LTIInv
<1> QED
  BY <1>1, TablesInvariant, PTL

\* table_issequential, which counts, finds exactly the tables with keys 1 to n.
THEOREM SequencesFound == LTSpec => []SequentialIff
<1>1. LTIInv => SequentialIff
  BY DEF LTIInv
<1> QED
  BY <1>1, TablesInvariant, PTL

\* table_keyof finds what is there and nothing else, unless cdata meet a value
\* that is no pointer.
THEOREM FoundKeysTrue == LTSpec => []KeyofTrue
<1>1. LTIInv => KeyofTrue
  BY DEF LTIInv
<1> QED
  BY <1>1, TablesInvariant, PTL

\* What xpack stored comes back from xunpack while t[0] is left alone.
THEOREM PacksReturn == LTSpec => []PackRoundTrip
<1>1. LTIInv => PackRoundTrip
  BY DEF LTIInv
<1> QED
  BY <1>1, TablesInvariant, PTL
==============================================================================
