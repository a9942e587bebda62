------------------------------ MODULE LogStream ------------------------------
(***************************************************************************)
(* How core/log.c numbers, indents and counts the messages that threads    *)
(* log: the process-wide variables behind attach_log_level, log_reset,     *)
(* log_set_threshold and log_shutdown, used without any lock.              *)
(*                                                                         *)
(* The backends are one stream that collects what was sent since it was    *)
(* registered (BackendList models the list).  Each access to the serial    *)
(* that another thread may come between is a step.  Only one thread enters *)
(* and leaves scopes, passes checkpoints and administers the log, as the   *)
(* test program's main thread does.                                        *)
(***************************************************************************)
EXTENDS Integers, Sequences, FiniteSets

CONSTANTS
  Thread, Main,   \* Main \in Thread is the one that does more than log text
  Id,             \* checkpoint IDs
  Threshold,      \* the levels log_set_threshold is called with
  SerialRange,    \* serials are reduced modulo this (2^32 in the code)
  MaxMessages,    \* bound: messages logged in a run
  MaxResets,      \* bound: resets of the indentation
  MaxIndent,      \* bound: scopes entered
  NULL

ASSUME LogAssumption == /\ Main \in Thread
                        /\ Threshold \subseteq 0 .. 14
                        /\ SerialRange \in Nat \ {0, 1}
                        /\ MaxMessages \in Nat /\ MaxResets \in Nat /\ MaxIndent \in Nat
                        /\ NULL \notin Id

VARIABLES
  threshold,   \* global_threshold
  indent,      \* indent_level
  serial,
  passes,      \* [Id -> Nat], the pass counts of the checkpoints hash; 0: no entry
  freed,       \* checkpoints points to entries that were freed
  pc,          \* per thread: "idle", "pack", "load", "store", "send"; or "fault"
  msg,         \* per thread: the message being built
  loaded,      \* per thread: the serial it has read
  connected,   \* a backend is registered
  stream,      \* history: the messages the backend got since then
  resets,      \* history: the number of log_reset calls
  clearings,   \* history: how many of them were log_reset(true)
  overlapped,  \* history: two threads were in attach_log_level at once
  logged       \* history: the number of messages logged

vars == <<threshold, indent, serial, passes, freed, pc, msg, loaded,
          connected, stream, resets, clearings, overlapped, logged>>

\* The LOG_LEVELs that differ in how they are handled.
INFO == 3
ENTER == 7
LEAVE == 8
CHECKPOINT == 13
Levels(t) == IF t = Main THEN {INFO, ENTER, LEAVE, CHECKPOINT} ELSE {INFO}

Message == [level : {INFO, ENTER, LEAVE, CHECKPOINT}, id : Id \cup {NULL},
            indent : Nat, count : Nat, serial : 0 .. SerialRange - 1,
            by : Thread, epoch : Nat, era : Nat]   \* history, not in the message
NoMessage == [level |-> INFO, id |-> NULL, indent |-> 0, count |-> 0,
              serial |-> 0, by |-> Main, epoch |-> 0, era |-> 0]

Init == /\ threshold \in Threshold /\ connected = TRUE
        /\ indent = 0 /\ serial = 0 /\ passes = [i \in Id |-> 0] /\ freed = FALSE
        /\ pc = [t \in Thread |-> "idle"] /\ msg = [t \in Thread |-> NoMessage]
        /\ loaded = [t \in Thread |-> 0]
        /\ stream = <<>> /\ resets = 0 /\ clearings = 0
        /\ overlapped = FALSE /\ logged = 0

Running == \A t \in Thread : pc[t] # "fault"
At(t, label) == Running /\ pc[t] = label
Goto(t, label) == pc' = [pc EXCEPT ![t] = label]

(***************************************************************************)
(* Messages                                                                *)
(***************************************************************************)
\* attach_log_level: a message below the threshold goes no further.
Log(t, level, id) ==
  /\ At(t, "idle") /\ level >= threshold
  /\ id = NULL <=> level # CHECKPOINT
  /\ level = ENTER => indent < MaxIndent
  /\ logged < MaxMessages /\ logged' = logged + 1
  /\ msg' = [msg EXCEPT ![t] = [NoMessage EXCEPT !.level = level, !.id = id, !.by = t]]
  /\ overlapped' = (overlapped \/ \E u \in Thread \ {t} : pc[u] # "idle")
  /\ Goto(t, "pack")
  /\ UNCHANGED <<threshold, indent, serial, passes, freed, loaded, connected, stream,
                 resets, clearings>>

\* Mutant of Left: the level is packed before it is decreased.
LeftLate(level) == indent
\* The indentation packed with a message, after a LEAVE has decreased it.
Left(level) == IF level = LEAVE /\ indent > 0 THEN indent - 1 ELSE indent

\* Mutant of PassCount: a new entry starts with its first pass uncounted.
PassCountLate(id) == passes[id]
\* checkpoint_pass_count
PassCount(id) == passes[id] + 1

\* sbuffer_log_level, up to the serial.  HASH_FIND_STR reads freed entries
\* after clear_checkpoints.
Pack(t) ==
  /\ At(t, "pack")
  /\ IF msg[t].level = CHECKPOINT /\ freed
     THEN Goto(t, "fault") /\ UNCHANGED <<msg, indent, passes>>
     ELSE LET m     == msg[t]
              count == IF m.level = CHECKPOINT THEN PassCount(m.id) ELSE 0
          IN /\ msg' = [msg EXCEPT ![t].indent = Left(m.level), ![t].count = count,
                                   ![t].epoch = resets, ![t].era = clearings]
             /\ indent' = Left(m.level) + (IF m.level = ENTER THEN 1 ELSE 0)
             /\ passes' = [i \in Id |-> IF i = m.id THEN count ELSE passes[i]]
             /\ Goto(t, "load")
  /\ UNCHANGED <<threshold, serial, freed, loaded, connected, stream, resets,
                 clearings, overlapped, logged>>

\* ++serial reads the variable ...
LoadSerial(t) ==
  /\ At(t, "load")
  /\ loaded' = [loaded EXCEPT ![t] = serial]
  /\ Goto(t, "store")
  /\ UNCHANGED <<threshold, indent, serial, passes, freed, msg, connected, stream, resets,
                 clearings, overlapped, logged>>

\* Mutant of NextSerial: a serial that wraps skips 0.
NextSerialWide(s) == IF s + 1 = SerialRange THEN 1 ELSE s + 1
NextSerial(s) == (s + 1) % SerialRange

\* ... and writes it, the new value is packed.
StoreSerial(t) ==
  /\ At(t, "store")
  /\ serial' = NextSerial(loaded[t])
  /\ msg' = [msg EXCEPT ![t].serial = NextSerial(loaded[t])]
  /\ Goto(t, "send")
  /\ UNCHANGED <<threshold, indent, passes, freed, loaded, connected, stream, resets,
                 clearings, overlapped, logged>>

\* sbuffer_log_send
Send(t) ==
  /\ At(t, "send")
  /\ stream' = IF connected THEN Append(stream, msg[t]) ELSE stream
  /\ msg' = [msg EXCEPT ![t] = NoMessage] /\ loaded' = [loaded EXCEPT ![t] = 0]
  /\ Goto(t, "idle")
  /\ UNCHANGED <<threshold, indent, serial, passes, freed, connected, resets,
                 clearings, overlapped, logged>>

(***************************************************************************)
(* Administration, by the main thread                                      *)
(***************************************************************************)
SetThreshold(l) ==
  /\ At(Main, "idle") /\ threshold' = l
  /\ UNCHANGED <<indent, serial, passes, freed, pc, msg, loaded, connected, stream, resets,
                 clearings, overlapped, logged>>

\* clear_checkpoints frees the entries; the hash head still points to them.
\* A second call frees them again.
ClearCheckpoints ==
  IF freed THEN Goto(Main, "fault") /\ UNCHANGED freed
  ELSE freed' = (\E i \in Id : passes[i] > 0) /\ UNCHANGED pc

\* log_reset
Reset(withCheckpoints) ==
  /\ At(Main, "idle") /\ resets < MaxResets
  /\ indent' = 0 /\ resets' = resets + 1
  /\ clearings' = clearings + (IF withCheckpoints THEN 1 ELSE 0)
  /\ IF withCheckpoints THEN ClearCheckpoints ELSE UNCHANGED <<freed, pc>>
  /\ UNCHANGED <<threshold, serial, passes, msg, loaded, connected, stream, overlapped, logged>>

\* log_shutdown
Shutdown ==
  /\ At(Main, "idle")
  /\ ClearCheckpoints
  /\ connected' = FALSE
  /\ UNCHANGED <<threshold, indent, serial, passes, msg, loaded, stream, resets,
                 clearings, overlapped, logged>>

\* log_register_backend: a new backend starts with an empty stream.
Connect ==
  /\ At(Main, "idle") /\ ~connected
  /\ connected' = TRUE /\ stream' = <<>>
  /\ UNCHANGED <<threshold, indent, serial, passes, freed, pc, msg, loaded, resets,
                 clearings, overlapped, logged>>

Next ==
  \/ \E t \in Thread :
       \/ \E l \in Levels(t), i \in Id \cup {NULL} : Log(t, l, i)
       \/ Pack(t) \/ LoadSerial(t) \/ StoreSerial(t) \/ Send(t)
  \/ \E l \in Threshold : SetThreshold(l)
  \/ \E b \in BOOLEAN : Reset(b)
  \/ Shutdown \/ Connect

Spec == Init /\ [][Next]_vars

(***************************************************************************)
(* Properties                                                              *)
(***************************************************************************)
\* Types; in particular the indentation, unsigned in the code, never underflows.
TypeOK ==
  /\ threshold \in 0 .. 14 /\ indent \in Nat /\ serial \in 0 .. SerialRange - 1
  /\ passes \in [Id -> Nat] /\ freed \in BOOLEAN /\ connected \in BOOLEAN
  /\ pc \in [Thread -> {"idle", "pack", "load", "store", "send", "fault"}]
  /\ msg \in [Thread -> Message] /\ loaded \in [Thread -> 0 .. SerialRange - 1]
  /\ stream \in Seq(Message) /\ resets \in Nat /\ clearings \in Nat
  /\ logged \in Nat /\ overlapped \in BOOLEAN

\* log.c: 'a "serial" (sequential numbering) that allows checking continuity':
\* successive messages of a stream have successive serials, whatever was
\* filtered, reset or lost before the stream was registered -- as long as no
\* two threads have been logging at the same time.
SerialsContinuous ==
  ~overlapped =>
    \A i \in 1 .. Len(stream) - 1 :
      stream[i + 1].serial = (stream[i].serial + 1) % SerialRange

\* The messages of a scope: from i, an ENTER, to j, the LEAVE that matches it.
Count(level, i, j) == Cardinality({k \in i .. j : stream[k].level = level})
Matches(i, j) ==
  /\ i < j /\ stream[i].level = ENTER /\ stream[j].level = LEAVE
  /\ Count(ENTER, i, j) = Count(LEAVE, i, j)
  /\ \A k \in i .. j - 1 : Count(ENTER, i, k) > Count(LEAVE, i, k)

\* The two ends of a scope are indented alike, and all that its thread logs
\* inside it deeper -- unless log_reset came between them.  Raising the threshold in a
\* scope, another thread's messages and scopes left once too often do not
\* disturb it.
ScopesNested ==
  \A i, j \in DOMAIN stream :
    Matches(i, j) /\ stream[i].epoch = stream[j].epoch =>
      /\ stream[i].indent = stream[j].indent
      /\ \A k \in i + 1 .. j - 1 :
           stream[k].by = Main => stream[k].indent > stream[i].indent

\* Successive messages about one checkpoint carry successive pass counts; where
\* log_reset(true) came between them the count begins again at 1 (log.c:167-173).
\* In the code as it is there is no such later message, for passing a checkpoint
\* then reads freed entries, see CheckpointsUsable; code that empties the hash
\* when it clears it satisfies the property with such messages in the stream.
PassCountsSuccessive ==
  \A i, j \in DOMAIN stream :
    (/\ i < j /\ stream[i].level = CHECKPOINT /\ stream[j].level = CHECKPOINT
     /\ stream[i].id = stream[j].id
     /\ \A k \in i + 1 .. j - 1 : stream[k].id # stream[i].id)
    => stream[j].count = (IF stream[j].era = stream[i].era THEN stream[i].count ELSE 0) + 1

\* log.c, log_reset: "remove checkpoints, = reset all pass counts to 0": it can
\* be called and checkpoints can be passed after it.
CheckpointsUsable == Running
=============================================================================
