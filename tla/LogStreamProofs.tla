--------------------------- MODULE LogStreamProofs ---------------------------
(***************************************************************************)
(* What LogStream says of serials, scopes and pass counts holds for every  *)
(* number of threads, checkpoints and messages and every serial width.     *)
(***************************************************************************)
EXTENDS LogStream, FiniteSetTheorems, TLAPS

\* A thread is in attach_log_level.
Busy(t) == pc[t] \in {"pack", "load", "store", "send"}

\* Until two threads overlap there is at most one.
Alone == ~overlapped => \A t, u \in Thread : Busy(t) /\ Busy(u) => t = u

\* Only checkpoints have an ID, and only Main passes them.
Marked == /\ \A t \in Thread : /\ msg[t].id # NULL <=> msg[t].level = CHECKPOINT
                               /\ msg[t].level = CHECKPOINT => t = Main /\ pc[t] # "idle"
          /\ \A i \in DOMAIN stream : stream[i].id # NULL <=> stream[i].level = CHECKPOINT

\* The last message of the stream has the current serial, until the next one has.
Serials ==
  ~overlapped =>
    /\ \A t \in Thread : pc[t] = "store" => loaded[t] = serial
    /\ \A t \in Thread : pc[t] = "send" =>
         /\ msg[t].serial = serial
         /\ connected /\ stream # <<>> => serial = (stream[Len(stream)].serial + 1) % SerialRange
    /\ connected /\ stream # <<>> /\ (\A t \in Thread : pc[t] # "send") =>
         serial = stream[Len(stream)].serial

\* Main has counted a pass of this checkpoint and not yet sent the message.
Counted(id) == /\ pc[Main] \in {"load", "store", "send"}
               /\ msg[Main].level = CHECKPOINT /\ msg[Main].id = id

\* The last message about a checkpoint carries its pass count, until it is
\* passed again.
Counts ==
  /\ \A id \in Id : Counted(id) => msg[Main].count = passes[id]
  /\ connected =>
       \A i \in DOMAIN stream :
         stream[i].level = CHECKPOINT /\ (\A k \in i + 1 .. Len(stream) : stream[k].id # stream[i].id) =>
           stream[i].count + (IF Counted(stream[i].id) THEN 1 ELSE 0) = passes[stream[i].id]

\* Successive messages about one checkpoint carry successive pass counts.
Successive ==
  \A i, j \in DOMAIN stream :
    (/\ i < j /\ stream[i].level = CHECKPOINT /\ stream[j].level = CHECKPOINT
     /\ stream[i].id = stream[j].id
     /\ \A k \in i + 1 .. j - 1 : stream[k].id # stream[i].id)
    => stream[j].count = stream[i].count + 1

\* The inductive invariant.
IInv == TypeOK /\ Alone /\ Marked /\ Serials /\ Counts /\ SerialsContinuous /\ Successive

(***************************************************************************)
(* Types                                                                   *)
(***************************************************************************)
Labels == {"idle", "pack", "load", "store", "send", "fault"}
Fields == {INFO, ENTER, LEAVE, CHECKPOINT}

\* What the assumptions say, one by one.
LEMMA Facts ==
  /\ Main \in Thread /\ Threshold \subseteq 0 .. 14 /\ NULL \notin Id
  /\ SerialRange \in Nat \ {0} /\ 0 \in 0 .. SerialRange - 1
BY LogAssumption

\* What is known of the variables one by one.
LEMMA Types ==
  TypeOK => /\ threshold \in 0 .. 14 /\ indent \in Nat /\ serial \in 0 .. SerialRange - 1
            /\ passes \in [Id -> Nat] /\ freed \in BOOLEAN /\ connected \in BOOLEAN
            /\ pc \in [Thread -> Labels] /\ msg \in [Thread -> Message]
            /\ loaded \in [Thread -> 0 .. SerialRange - 1]
            /\ stream \in Seq(Message) /\ resets \in Nat /\ clearings \in Nat
            /\ logged \in Nat /\ overlapped \in BOOLEAN
BY DEF TypeOK, Labels

\* The empty message is one, and so is what the code makes of a message.
LEMMA EmptyMessage ==
  /\ NoMessage \in Message
  /\ NoMessage.level = INFO /\ NoMessage.id = NULL
BY Facts DEF NoMessage, Message, INFO

\* The message a thread starts with.
Fresh(l, i, t) == [NoMessage EXCEPT !.level = l, !.id = i, !.by = t]

\* It is a message of that level and ID.
LEMMA NewMessage ==
  ASSUME NEW l \in Fields, NEW i \in Id \cup {NULL}, NEW t \in Thread
  PROVE  /\ Fresh(l, i, t) \in Message
         /\ Fresh(l, i, t).level = l /\ Fresh(l, i, t).id = i
BY Facts DEF Fresh, NoMessage, Message, Fields, INFO, ENTER, LEAVE, CHECKPOINT

\* A message once it is indented and counted.
Packed(m, n, c, e, a) == [m EXCEPT !.indent = n, !.count = c, !.epoch = e, !.era = a]

\* It keeps its level and ID.
LEMMA PackedMessage ==
  ASSUME NEW m \in Message, NEW n \in Nat, NEW c \in Nat, NEW e \in Nat, NEW a \in Nat
  PROVE  LET q == Packed(m, n, c, e, a)
         IN /\ q \in Message /\ q.level = m.level /\ q.id = m.id
            /\ q.count = c /\ q.era = a
BY DEF Message, Packed

\* A message that gets its serial keeps its level, ID and count.
LEMMA NumberedMessage ==
  ASSUME NEW m \in Message, NEW s \in 0 .. SerialRange - 1
  PROVE  LET p == [m EXCEPT !.serial = s]
         IN /\ p \in Message /\ p.level = m.level /\ p.id = m.id
            /\ p.count = m.count /\ p.serial = s /\ p.era = m.era
BY DEF Message

\* Serials wrap within their range.
LEMMA SerialType == ASSUME NEW s \in Nat PROVE NextSerial(s) \in 0 .. SerialRange - 1
BY Facts DEF NextSerial

\* Nothing is logged when the program starts.
LEMMA InitIInv == Init => IInv
<1> SUFFICES ASSUME Init PROVE IInv
  OBVIOUS
<1>1. TypeOK
  <2>1. /\ threshold \in 0 .. 14 /\ indent \in Nat /\ serial \in 0 .. SerialRange - 1
        /\ passes \in [Id -> Nat] /\ freed \in BOOLEAN /\ connected \in BOOLEAN
    BY Facts DEF Init
  <2>2. pc \in [Thread -> Labels] /\ loaded \in [Thread -> 0 .. SerialRange - 1]
    BY Facts DEF Init, Labels
  <2>3. msg \in [Thread -> Message] /\ stream \in Seq(Message)
    BY EmptyMessage DEF Init
  <2>4. resets \in Nat /\ clearings \in Nat /\ logged \in Nat /\ overlapped \in BOOLEAN
    BY DEF Init
  <2> QED
    BY <2>1, <2>2, <2>3, <2>4 DEF TypeOK, Labels
<1>2. /\ stream = <<>> /\ \A t \in Thread : pc[t] = "idle" /\ msg[t] = NoMessage
  BY DEF Init
<1>3. Marked
  BY <1>2, EmptyMessage DEF Marked, INFO, CHECKPOINT
<1>4. Alone /\ Serials /\ SerialsContinuous
  BY <1>2 DEF Alone, Busy, Serials, SerialsContinuous
<1>5. Counts /\ Successive
  BY <1>2, Facts DEF Counts, Counted, Successive
<1> QED
  BY <1>1, <1>3, <1>4, <1>5 DEF IInv

(***************************************************************************)
(* Steps that log nothing                                                  *)
(***************************************************************************)
\* Administration touches neither messages nor serials nor pass counts; the
\* main thread stays idle, or faults.
Quiet == /\ UNCHANGED <<serial, passes, msg, loaded, stream, overlapped, logged>>
         /\ connected' => connected
         /\ UNCHANGED pc \/ (pc[Main] = "idle" /\ pc' = [pc EXCEPT ![Main] = "fault"])

\* Setting the threshold, resetting and shutting down are such steps.
LEMMA AdministrationQuiet ==
  ASSUME TypeOK,
         (\E l \in Threshold : SetThreshold(l)) \/ (\E b \in BOOLEAN : Reset(b)) \/ Shutdown
           \/ UNCHANGED vars
  PROVE  Quiet /\ TypeOK'
<1>1. ASSUME NEW l \in Threshold, SetThreshold(l) PROVE Quiet /\ TypeOK'
  <2>1. Quiet
    BY <1>1 DEF SetThreshold, Quiet
  <2>2. threshold' \in 0 .. 14
    BY <1>1, Facts DEF SetThreshold
  <2> QED
    BY <1>1, <2>1, <2>2 DEF SetThreshold, TypeOK
<1>2. ASSUME NEW b \in BOOLEAN, Reset(b) PROVE Quiet /\ TypeOK'
  <2>1. Quiet
    BY <1>2 DEF Reset, ClearCheckpoints, Goto, At, Quiet
  <2>2. /\ indent' \in Nat /\ resets' \in Nat /\ clearings' \in Nat
        /\ UNCHANGED <<threshold, connected>>
    BY <1>2, Types DEF Reset
  <2>3. freed' \in BOOLEAN
    BY <1>2, Types DEF Reset, ClearCheckpoints
  <2>4. pc' \in [Thread -> Labels]
    BY <2>1, Types DEF Quiet, Labels
  <2> QED
    BY <2>1, <2>2, <2>3, <2>4 DEF Quiet, TypeOK, Labels
<1>3. CASE Shutdown
  <2>1. Quiet
    BY <1>3 DEF Shutdown, ClearCheckpoints, Goto, At, Quiet
  <2>2. UNCHANGED <<threshold, indent, resets, clearings>> /\ connected' \in BOOLEAN
    BY <1>3 DEF Shutdown
  <2>3. freed' \in BOOLEAN
    BY <1>3, Types DEF Shutdown, ClearCheckpoints
  <2>4. pc' \in [Thread -> Labels]
    BY <2>1, Types DEF Quiet, Labels
  <2> QED
    BY <2>1, <2>2, <2>3, <2>4 DEF Quiet, TypeOK, Labels
<1>4. CASE UNCHANGED vars
  BY <1>4 DEF vars, TypeOK, Quiet
<1> QED
  BY <1>1, <1>2, <1>3, <1>4

\* Such a step keeps the invariant.
LEMMA QuietStep ==
  ASSUME IInv, Quiet, TypeOK' PROVE IInv'
<1>1. /\ UNCHANGED <<serial, passes, msg, loaded, stream, overlapped>> /\ (connected' => connected)
  BY DEF Quiet
<1>2. \A t \in Thread : pc'[t] = pc[t] \/ (t = Main /\ pc[t] = "idle" /\ pc'[t] = "fault")
  BY Types DEF IInv, Quiet
<1>3. Main \in Thread
  BY Facts
<1>4. Alone'
  BY <1>1, <1>2 DEF IInv, Alone, Busy
<1>5. Marked'
  BY <1>1, <1>2 DEF IInv, Marked, Busy
<1>6. Serials'
  BY <1>1, <1>2 DEF IInv, Serials
<1>7. \A id : Counted(id)' <=> Counted(id)
  BY <1>1, <1>2, <1>3 DEF Counted
<1>8. Counts'
  BY <1>1, <1>7 DEF IInv, Counts
<1>9. SerialsContinuous' /\ Successive'
  BY <1>1 DEF IInv, SerialsContinuous, Successive
<1> QED
  BY <1>4, <1>5, <1>6, <1>8, <1>9 DEF IInv

\* A new backend starts with an empty stream.
LEMMA ConnectStep == ASSUME IInv, Connect PROVE IInv'
<1>1. /\ connected' = TRUE /\ stream' = <<>>
      /\ UNCHANGED <<threshold, indent, serial, passes, freed, pc, msg, loaded, resets, clearings, overlapped, logged>>
  BY DEF Connect
<1>2. stream' \in Seq(Message)
  BY <1>1
<1>3. TypeOK'
  BY <1>1, <1>2 DEF IInv, TypeOK
<1>4. Alone' /\ Marked'
  BY <1>1 DEF IInv, Alone, Marked, Busy
<1>5. Serials' /\ SerialsContinuous'
  BY <1>1 DEF IInv, Serials, SerialsContinuous
<1>6. Counts' /\ Successive'
  BY <1>1 DEF IInv, Counts, Counted, Successive
<1> QED
  BY <1>3, <1>4, <1>5, <1>6 DEF IInv

(***************************************************************************)
(* A message on its way                                                    *)
(***************************************************************************)
\* While nobody has overlapped, a thread that logs is alone.
LEMMA OthersIdle ==
  ASSUME Alone, ~overlapped, NEW t \in Thread, Busy(t)
  PROVE  \A u \in Thread \ {t} : pc[u] \notin {"pack", "load", "store", "send"}
BY DEF Alone, Busy

\* attach_log_level: a thread becomes busy.
LEMMA LogStep ==
  ASSUME IInv, NEW t \in Thread, NEW l \in Levels(t), NEW i \in Id \cup {NULL}, Log(t, l, i)
  PROVE  IInv'
<1> DEFINE m == Fresh(l, i, t)
<1>1. /\ pc[t] = "idle" /\ (i = NULL <=> l # CHECKPOINT) /\ Running
      /\ msg' = [msg EXCEPT ![t] = m] /\ pc' = [pc EXCEPT ![t] = "pack"]
      /\ UNCHANGED <<threshold, indent, serial, passes, freed, loaded, connected, stream,
                     resets, clearings>>
  BY DEF Log, At, Goto, Fresh
<1>2. l \in Fields /\ (l = CHECKPOINT => t = Main)
  BY DEF Levels, Fields, INFO, CHECKPOINT
<1>3. m \in Message /\ m.level = l /\ m.id = i
  BY <1>2, NewMessage
<1>4. /\ pc \in [Thread -> Labels] /\ msg \in [Thread -> Message]
  BY Types DEF IInv
<1>5. /\ pc' \in [Thread -> Labels] /\ msg' \in [Thread -> Message]
      /\ pc'[t] = "pack" /\ msg'[t] = m
      /\ \A u \in Thread \ {t} : pc'[u] = pc[u] /\ msg'[u] = msg[u]
  BY <1>1, <1>3, <1>4 DEF Labels
<1>6. TypeOK'
  <2>1. logged' \in Nat
    BY Types DEF Log, IInv
  <2>2. overlapped' \in BOOLEAN
    BY DEF Log
  <2> QED
    BY <1>1, <1>5, <2>1, <2>2 DEF IInv, TypeOK, Labels
<1>7. ~overlapped' => ~overlapped /\ \A u \in Thread \ {t} : pc[u] = "idle"
  BY DEF Log
<1>8. Alone'
  BY <1>5, <1>7 DEF Alone, Busy
<1>9. Marked'
  BY <1>1, <1>2, <1>3, <1>5 DEF IInv, Marked, Busy
<1>10. Serials'
  BY <1>1, <1>5, <1>7 DEF IInv, Serials
<1>11. \A id : Counted(id)' <=> Counted(id)
  BY <1>1, <1>5, Facts DEF Counted
<1>12. Counts'
  <2>1. \A id : Counted(id)' => msg'[Main] = msg[Main]
    BY <1>5, Facts DEF Counted
  <2> QED
    BY <1>1, <1>11, <2>1 DEF IInv, Counts
<1>13. SerialsContinuous' /\ Successive'
  BY <1>1, <1>7 DEF IInv, SerialsContinuous, Successive
<1> QED
  BY <1>6, <1>8, <1>9, <1>10, <1>12, <1>13 DEF IInv

\* A thread goes on from one place in attach_log_level to the next.
LEMMA Moved ==
  ASSUME TypeOK, NEW t \in Thread, NEW from \in Labels, NEW to \in Labels,
         At(t, from), Goto(t, to)
  PROVE  /\ pc' \in [Thread -> Labels] /\ pc[t] = from /\ pc'[t] = to
         /\ \A u \in Thread \ {t} : pc'[u] = pc[u]
BY Types DEF At, Goto

\* A message the checkpoints hash cannot take: the program faults.
LEMMA PackFault ==
  ASSUME IInv, NEW t \in Thread, Pack(t), msg[t].level = CHECKPOINT, freed
  PROVE  IInv'
<1>1. /\ At(t, "pack") /\ Goto(t, "fault")
      /\ UNCHANGED <<threshold, indent, serial, passes, freed, msg, loaded, connected,
                     stream, resets, clearings, overlapped, logged>>
  BY DEF Pack
<1>2. /\ pc' \in [Thread -> Labels] /\ pc[t] = "pack" /\ pc'[t] = "fault"
      /\ \A u \in Thread \ {t} : pc'[u] = pc[u]
  BY <1>1, Moved DEF IInv, Labels
<1>3. TypeOK'
  BY <1>1, <1>2 DEF IInv, TypeOK, Labels
<1>4. Alone' /\ Marked'
  BY <1>1, <1>2 DEF IInv, Alone, Marked, Busy
<1>5. Serials'
  BY <1>1, <1>2 DEF IInv, Serials
<1>6. \A id : Counted(id)' <=> Counted(id)
  BY <1>1, <1>2, Facts DEF Counted
<1>7. Counts'
  BY <1>1, <1>6 DEF IInv, Counts
<1>8. SerialsContinuous' /\ Successive'
  BY <1>1 DEF IInv, SerialsContinuous, Successive
<1> QED
  BY <1>3, <1>4, <1>5, <1>7, <1>8 DEF IInv

\* sbuffer_log_level: a checkpoint is counted, any other message is not.
LEMMA PackStep ==
  ASSUME IInv, NEW t \in Thread, Pack(t), ~(msg[t].level = CHECKPOINT /\ freed)
  PROVE  IInv'
<1> DEFINE m == msg[t]
           count == IF m.level = CHECKPOINT THEN PassCount(m.id) ELSE 0
           p == Packed(m, Left(m.level), count, resets, clearings)
<1>1. /\ At(t, "pack") /\ Goto(t, "load")
      /\ msg' = [msg EXCEPT ![t] = p]
      /\ indent' = Left(m.level) + (IF m.level = ENTER THEN 1 ELSE 0)
      /\ passes' = [i \in Id |-> IF i = m.id THEN count ELSE passes[i]]
      /\ UNCHANGED <<threshold, serial, freed, loaded, connected, stream, resets, clearings, overlapped, logged>>
  BY DEF Pack, Packed
<1>2. /\ pc' \in [Thread -> Labels] /\ pc[t] = "pack" /\ pc'[t] = "load"
      /\ \A u \in Thread \ {t} : pc'[u] = pc[u]
  BY <1>1, Moved DEF IInv, Labels
<1>3. /\ m \in Message /\ msg \in [Thread -> Message] /\ passes \in [Id -> Nat]
      /\ resets \in Nat /\ clearings \in Nat /\ indent \in Nat
  BY Types DEF IInv
<1>4. m.id \in Id \cup {NULL} /\ (m.id # NULL <=> m.level = CHECKPOINT)
      /\ (m.level = CHECKPOINT => t = Main)
  BY <1>3 DEF IInv, Marked, Message
<1>5. count \in Nat /\ Left(m.level) \in Nat
  BY <1>3, <1>4, Facts DEF PassCount, Left
<1>6. p \in Message /\ p.level = m.level /\ p.id = m.id /\ p.count = count
  <2>1. \A n, c \in Nat : LET q == Packed(m, n, c, resets, clearings)
                          IN q \in Message /\ q.level = m.level /\ q.id = m.id /\ q.count = c
    BY <1>3, PackedMessage
  <2> QED
    BY <1>5, <2>1
<1>7. /\ msg' \in [Thread -> Message] /\ msg'[t] = p
      /\ \A u \in Thread \ {t} : msg'[u] = msg[u]
  BY <1>1, <1>3, <1>6
<1>8. TypeOK'
  <2>1. passes' \in [Id -> Nat] /\ indent' \in Nat
    BY <1>1, <1>3, <1>5
  <2> QED
    BY <1>1, <1>2, <1>7, <2>1 DEF IInv, TypeOK, Labels
<1>9. Alone' /\ Marked'
  BY <1>1, <1>2, <1>4, <1>6, <1>7 DEF IInv, Alone, Marked, Busy
<1>10. Serials'
  BY <1>1, <1>2, <1>7 DEF IInv, Serials
<1>11. ASSUME m.level = CHECKPOINT PROVE Counts'
  <2>1. t = Main /\ m.id \in Id /\ count = passes[m.id] + 1
    BY <1>11, <1>4 DEF PassCount
  <2>2. \A id : Counted(id)' <=> id = m.id
    BY <1>2, <1>6, <1>7, <1>11, <2>1 DEF Counted
  <2>3. \A id : ~Counted(id)
    BY <1>2, <2>1 DEF Counted
  <2>4. \A id \in Id : passes'[id] = IF id = m.id THEN passes[id] + 1 ELSE passes[id]
    BY <1>1, <2>1
  <2>5. \A id \in Id : Counted(id)' => msg'[Main].count = passes'[id]
    BY <1>6, <1>7, <2>1, <2>2, <2>4
  <2>6. ASSUME connected, NEW i \in DOMAIN stream, stream[i].level = CHECKPOINT,
               \A k \in i + 1 .. Len(stream) : stream[k].id # stream[i].id
        PROVE  stream[i].count + (IF stream[i].id = m.id THEN 1 ELSE 0) = passes'[stream[i].id]
    <3>1. stream[i] \in Message /\ stream[i].id # NULL
      BY <2>6, Types DEF IInv, Marked
    <3>2. stream[i].id \in Id /\ stream[i].count \in Nat
      BY <3>1 DEF Message
    <3>3. stream[i].count = passes[stream[i].id]
      BY <2>3, <2>6, <3>2 DEF IInv, Counts
    <3> QED
      BY <2>4, <3>2, <3>3
  <2> QED
    BY <1>1, <2>2, <2>5, <2>6 DEF Counts
<1>12. ASSUME m.level # CHECKPOINT PROVE Counts'
  <2>1. passes' = passes
    BY <1>1, <1>3, <1>4, <1>12, Facts
  <2>2. \A id : Counted(id)' <=> Counted(id)
    BY <1>2, <1>6, <1>7, <1>12, Facts DEF Counted
  <2>3. \A id : Counted(id) => msg'[Main] = msg[Main]
    BY <1>7, <1>12, Facts DEF Counted
  <2> QED
    BY <1>1, <2>1, <2>2, <2>3 DEF IInv, Counts
<1>13. SerialsContinuous' /\ Successive'
  BY <1>1 DEF IInv, SerialsContinuous, Successive
<1> QED
  BY <1>8, <1>9, <1>10, <1>11, <1>12, <1>13 DEF IInv

\* The thread that reads the serial holds the current one.
LEMMA LoadStep == ASSUME IInv, NEW t \in Thread, LoadSerial(t) PROVE IInv'
<1>1. /\ At(t, "load") /\ Goto(t, "store") /\ loaded' = [loaded EXCEPT ![t] = serial]
      /\ UNCHANGED <<threshold, indent, serial, passes, freed, msg, connected, stream, resets,
                     clearings, overlapped, logged>>
  BY DEF LoadSerial
<1>2. /\ pc' \in [Thread -> Labels] /\ pc[t] = "load" /\ pc'[t] = "store"
      /\ \A u \in Thread \ {t} : pc'[u] = pc[u]
  BY <1>1, Moved DEF IInv, Labels
<1>3. /\ loaded' \in [Thread -> 0 .. SerialRange - 1] /\ loaded'[t] = serial
      /\ \A u \in Thread \ {t} : loaded'[u] = loaded[u]
  BY <1>1, Types DEF IInv
<1>4. TypeOK'
  BY <1>1, <1>2, <1>3 DEF IInv, TypeOK, Labels
<1>5. Alone' /\ Marked'
  BY <1>1, <1>2 DEF IInv, Alone, Marked, Busy
<1>6. Serials'
  BY <1>1, <1>2, <1>3 DEF IInv, Serials
<1>7. \A id : Counted(id)' <=> Counted(id)
  BY <1>1, <1>2, Facts DEF Counted
<1>8. Counts'
  BY <1>1, <1>7 DEF IInv, Counts
<1>9. SerialsContinuous' /\ Successive'
  BY <1>1 DEF IInv, SerialsContinuous, Successive
<1> QED
  BY <1>4, <1>5, <1>6, <1>8, <1>9 DEF IInv

\* A thread that is alone writes the successor of the last serial.
LEMMA StoreStep == ASSUME IInv, NEW t \in Thread, StoreSerial(t) PROVE IInv'
<1> DEFINE s == NextSerial(loaded[t])
           p == [msg[t] EXCEPT !.serial = s]
<1>1. /\ At(t, "store") /\ Goto(t, "send") /\ serial' = s /\ msg' = [msg EXCEPT ![t] = p]
      /\ UNCHANGED <<threshold, indent, passes, freed, loaded, connected, stream, resets,
                     clearings, overlapped, logged>>
  BY DEF StoreSerial
<1>2. /\ pc' \in [Thread -> Labels] /\ pc[t] = "store" /\ pc'[t] = "send"
      /\ \A u \in Thread \ {t} : pc'[u] = pc[u]
  BY <1>1, Moved DEF IInv, Labels
<1>3. msg \in [Thread -> Message] /\ loaded[t] \in Nat
  BY Types, Facts DEF IInv
<1>4. s \in 0 .. SerialRange - 1
  BY <1>3, SerialType
<1>5. /\ p \in Message /\ p.level = msg[t].level /\ p.id = msg[t].id
      /\ p.count = msg[t].count /\ p.serial = s
  BY <1>3, <1>4, NumberedMessage
<1>6. /\ msg' \in [Thread -> Message] /\ msg'[t] = p
      /\ \A u \in Thread \ {t} : msg'[u] = msg[u]
  BY <1>1, <1>3, <1>5
<1>7. TypeOK'
  BY <1>1, <1>2, <1>4, <1>6 DEF IInv, TypeOK, Labels
<1>8. Alone' /\ Marked'
  BY <1>1, <1>2, <1>5, <1>6 DEF IInv, Alone, Marked, Busy
<1>9. Serials'
  <2> SUFFICES ASSUME ~overlapped PROVE Serials'
    BY <1>1 DEF Serials
  <2>1. \A u \in Thread \ {t} : pc[u] \notin {"store", "send"}
    BY <1>2 DEF IInv, Alone, Busy
  <2>2. loaded[t] = serial
    BY <1>2 DEF IInv, Serials
  <2>3. connected /\ stream # <<>> => serial = stream[Len(stream)].serial
    BY <1>2, <2>1 DEF IInv, Serials
  <2>4. s = (serial + 1) % SerialRange
    BY <2>2 DEF NextSerial
  <2> QED
    BY <1>1, <1>2, <1>5, <1>6, <2>1, <2>3, <2>4 DEF Serials
<1>10. \A id : Counted(id)' <=> Counted(id)
  BY <1>2, <1>5, <1>6, Facts DEF Counted
<1>11. msg'[Main].count = msg[Main].count
  BY <1>5, <1>6, Facts
<1>12. Counts'
  BY <1>1, <1>10, <1>11 DEF IInv, Counts
<1>13. SerialsContinuous' /\ Successive'
  BY <1>1 DEF IInv, SerialsContinuous, Successive
<1> QED
  BY <1>7, <1>8, <1>9, <1>12, <1>13 DEF IInv

\* sbuffer_log_send: the stream grows by the message, if there is a backend.
LEMMA SendStep == ASSUME IInv, NEW t \in Thread, Send(t) PROVE IInv'
<1> DEFINE m == msg[t]
<1>1. /\ At(t, "send") /\ Goto(t, "idle")
      /\ stream' = (IF connected THEN Append(stream, m) ELSE stream)
      /\ msg' = [msg EXCEPT ![t] = NoMessage] /\ loaded' = [loaded EXCEPT ![t] = 0]
      /\ UNCHANGED <<threshold, indent, serial, passes, freed, connected, resets, clearings, overlapped, logged>>
  BY DEF Send
<1>2. /\ pc' \in [Thread -> Labels] /\ pc[t] = "send" /\ pc'[t] = "idle"
      /\ \A u \in Thread \ {t} : pc'[u] = pc[u]
  BY <1>1, Moved DEF IInv, Labels
<1>3. /\ msg \in [Thread -> Message] /\ stream \in Seq(Message) /\ m \in Message
      /\ loaded \in [Thread -> 0 .. SerialRange - 1] /\ passes \in [Id -> Nat]
  BY Types DEF IInv
<1>4. /\ msg' \in [Thread -> Message] /\ msg'[t] = NoMessage
      /\ \A u \in Thread \ {t} : msg'[u] = msg[u]
  BY <1>1, <1>3, EmptyMessage
<1>5. /\ loaded' \in [Thread -> 0 .. SerialRange - 1]
      /\ \A u \in Thread \ {t} : loaded'[u] = loaded[u]
  BY <1>1, <1>3, Facts
<1>6. stream' \in Seq(Message)
  BY <1>1, <1>3
<1>7. TypeOK'
  BY <1>1, <1>2, <1>4, <1>5, <1>6 DEF IInv, TypeOK, Labels
<1>8. ASSUME connected
      PROVE  /\ Len(stream') = Len(stream) + 1 /\ Len(stream) \in Nat
             /\ DOMAIN stream = 1 .. Len(stream) /\ DOMAIN stream' = 1 .. Len(stream) + 1
             /\ stream'[Len(stream) + 1] = m
             /\ \A i \in 1 .. Len(stream) : stream'[i] = stream[i]
  BY <1>1, <1>3, <1>8
<1>9. ~connected => stream' = stream
  BY <1>1
<1>10. Alone'
  BY <1>1, <1>2 DEF IInv, Alone, Busy
<1>11. (m.id # NULL <=> m.level = CHECKPOINT) /\ (m.level = CHECKPOINT => t = Main)
  BY DEF IInv, Marked
<1>12. Marked'
  <2>1. \A u \in Thread : /\ msg'[u].id # NULL <=> msg'[u].level = CHECKPOINT
                          /\ msg'[u].level = CHECKPOINT => u = Main /\ pc'[u] # "idle"
    BY <1>2, <1>4, EmptyMessage DEF IInv, Marked, INFO, CHECKPOINT
  <2>2. \A i \in DOMAIN stream' : stream'[i].id # NULL <=> stream'[i].level = CHECKPOINT
    <3>1. CASE connected
      BY <3>1, <1>8, <1>11 DEF IInv, Marked
    <3>2. CASE ~connected
      BY <3>2, <1>9 DEF IInv, Marked
    <3> QED
      BY <3>1, <3>2
  <2> QED
    BY <2>1, <2>2 DEF Marked
<1>13. Serials' /\ SerialsContinuous'
  <2> SUFFICES ASSUME ~overlapped PROVE Serials' /\ SerialsContinuous'
    BY <1>1 DEF Serials, SerialsContinuous
  <2>1. \A u \in Thread \ {t} : pc[u] \notin {"store", "send"}
    BY <1>2 DEF IInv, Alone, Busy
  <2>2. /\ m.serial = serial
        /\ connected /\ stream # <<>> => serial = (stream[Len(stream)].serial + 1) % SerialRange
    BY <1>2 DEF IInv, Serials
  <2>3. connected' => stream'[Len(stream')].serial = serial
    BY <1>1, <1>8, <2>2
  <2>4. Serials'
    BY <1>1, <1>2, <2>1, <2>3 DEF Serials
  <2>5. ASSUME connected, NEW i \in 1 .. Len(stream') - 1
        PROVE  stream'[i + 1].serial = (stream'[i].serial + 1) % SerialRange
    <3>1. CASE i = Len(stream)
      <4>1. stream # <<>> /\ stream'[i + 1] = m /\ stream'[i] = stream[i]
        BY <2>5, <3>1, <1>8
      <4> QED
        BY <2>2, <2>5, <3>1, <4>1
    <3>2. CASE i # Len(stream)
      <4>1. i \in 1 .. Len(stream) - 1 /\ stream'[i + 1] = stream[i + 1] /\ stream'[i] = stream[i]
        <5>1. i \in 1 .. Len(stream) - 1 /\ i + 1 \in 1 .. Len(stream) /\ i \in 1 .. Len(stream)
          <6>1. Len(stream') = Len(stream) + 1 /\ Len(stream) \in Nat
            BY <2>5, <1>8
          <6> QED
            BY <6>1, <3>2
        <5> QED
          BY <2>5, <5>1, <1>8
      <4> QED
        BY <4>1 DEF IInv, SerialsContinuous
    <3> QED
      BY <3>1, <3>2
  <2>6. SerialsContinuous'
    BY <1>9, <2>5 DEF IInv, SerialsContinuous
  <2> QED
    BY <2>4, <2>6
<1> DEFINE After(id) == /\ pc'[Main] \in {"load", "store", "send"}
                        /\ msg'[Main].level = CHECKPOINT /\ msg'[Main].id = id
<1>14. \A id : After(id) => Counted(id) /\ t # Main /\ msg'[Main] = msg[Main]
  BY <1>2, <1>4, Facts DEF Counted
<1>15. \A id : m.id # id => (After(id) <=> Counted(id))
  BY <1>2, <1>4, Facts DEF Counted
<1>16. m.level = CHECKPOINT => /\ Counted(m.id) /\ m.id \in Id
                               /\ m.count = passes[m.id] /\ ~After(m.id)
  BY <1>2, <1>3, <1>11, <1>14 DEF Counted, Message, IInv, Counts
<1>17. Counts'
  <2>1. ASSUME connected, NEW i \in DOMAIN stream', stream'[i].level = CHECKPOINT,
               \A k \in i + 1 .. Len(stream') : stream'[k].id # stream'[i].id
        PROVE  stream'[i].count + (IF After(stream'[i].id) THEN 1 ELSE 0) = passes[stream'[i].id]
    <3>1. CASE i = Len(stream) + 1
      BY <2>1, <3>1, <1>3, <1>8, <1>16 DEF Message
    <3>2. CASE i # Len(stream) + 1
      <4>1. /\ i \in DOMAIN stream /\ stream'[i] = stream[i] /\ stream[i].id # m.id
            /\ \A k \in i + 1 .. Len(stream) : stream[k].id # stream[i].id
        BY <2>1, <3>2, <1>8
      <4>2. After(stream[i].id) <=> Counted(stream[i].id)
        BY <4>1, <1>15
      <4> QED
        BY <2>1, <4>1, <4>2 DEF IInv, Counts
    <3> QED
      BY <3>1, <3>2
  <2>2. \A id \in Id : After(id) => msg'[Main].count = passes[id]
    BY <1>14 DEF IInv, Counts
  <2> QED
    BY <1>1, <2>1, <2>2 DEF Counts, Counted
<1>18. Successive'
  <2>1. ASSUME connected, NEW i \in DOMAIN stream', NEW j \in DOMAIN stream', i < j,
               stream'[i].level = CHECKPOINT, stream'[j].level = CHECKPOINT,
               stream'[i].id = stream'[j].id,
               \A k \in i + 1 .. j - 1 : stream'[k].id # stream'[i].id
        PROVE  stream'[j].count = stream'[i].count + 1
    <3>1. i \in DOMAIN stream /\ stream'[i] = stream[i]
      BY <2>1, <1>8
    <3>2. \A k \in i + 1 .. j - 1 : k \in DOMAIN stream /\ stream[k].id # stream[i].id
      BY <2>1, <3>1, <1>8
    <3>3. CASE j = Len(stream) + 1
      <4>1. stream'[j] = m
        BY <2>1, <3>3, <1>8
      <4>2. \A k \in i + 1 .. Len(stream) : stream[k].id # stream[i].id
        BY <2>1, <3>2, <3>3, <1>8
      <4>3. stream[i].count + 1 = passes[stream[i].id]
        BY <2>1, <3>1, <4>1, <4>2, <1>16 DEF IInv, Counts
      <4> QED
        BY <2>1, <3>1, <4>1, <4>3, <1>16
    <3>4. CASE j # Len(stream) + 1
      <4>1. j \in DOMAIN stream /\ stream'[j] = stream[j]
        BY <2>1, <3>4, <1>8
      <4> QED
        BY <2>1, <3>1, <3>2, <4>1 DEF IInv, Successive
    <3> QED
      BY <3>3, <3>4
  <2>2. CASE connected
    BY <2>1, <2>2 DEF Successive
  <2>3. CASE ~connected
    BY <1>9, <2>3 DEF IInv, Successive
  <2> QED
    BY <2>2, <2>3
<1> QED
  BY <1>7, <1>10, <1>12, <1>13, <1>17, <1>18 DEF IInv

(***************************************************************************)
(* The theorems                                                            *)
(***************************************************************************)
\* Every step keeps the invariant.
LEMMA StepIInv == IInv /\ [Next]_vars => IInv'
<1> SUFFICES ASSUME IInv, [Next]_vars PROVE IInv'
  OBVIOUS
<1>1. ASSUME NEW t \in Thread, NEW l \in Levels(t), NEW i \in Id \cup {NULL}, Log(t, l, i)
      PROVE  IInv'
  BY <1>1, LogStep
<1>2. ASSUME NEW t \in Thread, Pack(t) PROVE IInv'
  BY <1>2, PackFault, PackStep
<1>3. ASSUME NEW t \in Thread, LoadSerial(t) \/ StoreSerial(t) \/ Send(t) PROVE IInv'
  BY <1>3, LoadStep, StoreStep, SendStep
<1>4. CASE Connect
  BY <1>4, ConnectStep
<1>5. CASE \/ \E l \in Threshold : SetThreshold(l)
           \/ \E b \in BOOLEAN : Reset(b)
           \/ Shutdown \/ UNCHANGED vars
  <2>1. Quiet /\ TypeOK'
    BY <1>5, AdministrationQuiet DEF IInv
  <2> QED
    BY <2>1, QuietStep
<1> QED
  BY <1>1, <1>2, <1>3, <1>4, <1>5 DEF Next

\* The inductive invariant holds always.
LEMMA Invariance == Spec => []IInv
BY InitIInv, StepIInv, PTL DEF Spec

\* Levels, indentation, serials and the messages of the stream keep their
\* types: the unsigned indentation of log.c never goes below 0.
THEOREM TypeCorrect == Spec => []TypeOK
<1>1. IInv => TypeOK
  BY DEF IInv
<1> QED
  BY <1>1, Invariance, PTL

\* Until two threads log at once successive messages of a stream carry
\* successive serials, modulo the width of the serial.
THEOREM SerialsStayContinuous == Spec => []SerialsContinuous
<1>1. IInv => SerialsContinuous
  BY DEF IInv
<1> QED
  BY <1>1, Invariance, PTL

(***************************************************************************)
(* Pass counts and clearings.  Clearing leaves the counts as they are and  *)
(* the hash unusable, if there is an entry in it: then no checkpoint is    *)
(* passed any more, and all the messages about checkpoints that a stream   *)
(* has are of one era.                                                     *)
(***************************************************************************)
\* e is the era of all messages about checkpoints; whatever they are about has
\* been counted.
Era(e) == /\ e \in Nat /\ (~freed => e = clearings)
          /\ \A id \in Id : Counted(id) => msg[Main].era = e /\ passes[id] > 0
          /\ \A i \in DOMAIN stream : stream[i].level = CHECKPOINT =>
               stream[i].era = e /\ passes[stream[i].id] > 0

Eras == \E e : Era(e)

\* At first there is no message.
LEMMA InitEras == Init => Eras
<1> SUFFICES ASSUME Init PROVE Era(0)
  BY DEF Eras
<1> QED
  BY Facts DEF Init, Era, Counted

\* A message about a checkpoint has the ID of one.
LEMMA CheckpointIds ==
  ASSUME IInv
  PROVE  \A i \in DOMAIN stream :
           stream[i] \in Message /\ (stream[i].level = CHECKPOINT => stream[i].id \in Id)
<1>1. stream \in Seq(Message) /\ \A i \in DOMAIN stream : stream[i] \in Message
  BY Types DEF IInv
<1> QED
  BY <1>1 DEF IInv, Marked, Message

\* What neither counts a pass nor changes the stream keeps the era.
LEMMA EraStays ==
  ASSUME NEW e, Era(e), UNCHANGED <<freed, passes, clearings>>, stream' = stream \/ stream' = <<>>,
         \A id \in Id : Counted(id)' => Counted(id) /\ msg'[Main].era = msg[Main].era
  PROVE  Eras'
<1>1. Era(e)'
  BY DEF Era
<1> QED
  BY <1>1 DEF Eras

\* Clearing begins a new era if there is nothing to clear.
LEMMA AdministrationEras ==
  ASSUME IInv, NEW e, Era(e),
         (\E l \in Threshold : SetThreshold(l)) \/ (\E b \in BOOLEAN : Reset(b)) \/ Shutdown
           \/ UNCHANGED vars
  PROVE  Eras'
<1>1. Quiet /\ TypeOK'
  BY AdministrationQuiet DEF IInv
<1>2. UNCHANGED <<passes, msg, stream>>
  BY <1>1 DEF Quiet
<1>3. \A id : Counted(id)' => Counted(id)
  BY <1>1, Types, Facts DEF Quiet, Counted, IInv
<1>4. CASE UNCHANGED <<freed, clearings>>
  BY <1>2, <1>3, <1>4, EraStays
<1>5. CASE freed'
  <2>1. Era(e)'
    BY <1>2, <1>3, <1>5 DEF Era
  <2> QED
    BY <2>1 DEF Eras
<1>6. ASSUME ~freed', ~(UNCHANGED <<freed, clearings>>)
      PROVE  Eras'
  <2>1. ~freed /\ ~\E i \in Id : passes[i] > 0
    <3>1. clearings \in Nat
      BY Types DEF IInv
    <3>2. CASE \E l \in Threshold : SetThreshold(l)
      BY <1>6, <3>2 DEF SetThreshold
    <3>3. CASE Reset(FALSE)
      BY <1>6, <3>1, <3>3 DEF Reset
    <3>4. CASE Reset(TRUE) \/ Shutdown
      <4>1. ClearCheckpoints
        BY <3>4 DEF Reset, Shutdown
      <4>2. ~freed
        BY <1>6, <4>1 DEF ClearCheckpoints
      <4> QED
        BY <1>6, <4>1, <4>2 DEF ClearCheckpoints
    <3>5. CASE UNCHANGED vars
      BY <1>6, <3>5 DEF vars
    <3> QED
      BY <3>2, <3>3, <3>4, <3>5
  <2>2. clearings' \in Nat
    BY <1>1 DEF TypeOK
  <2>3. \A i \in DOMAIN stream : stream[i].level # CHECKPOINT
    BY <2>1, CheckpointIds DEF Era
  <2>4. Era(clearings)'
    BY <1>2, <1>3, <2>1, <2>2, <2>3 DEF Era
  <2> QED
    BY <2>4 DEF Eras
<1> QED
  BY <1>4, <1>5, <1>6

\* Before the pass is counted nothing of this changes.
LEMMA LogEras ==
  ASSUME IInv, NEW e, Era(e), NEW t \in Thread, NEW l \in Levels(t),
         NEW i \in Id \cup {NULL}, Log(t, l, i)
  PROVE  Eras'
<1>1. /\ At(t, "idle") /\ Goto(t, "pack") /\ msg' = [msg EXCEPT ![t] = Fresh(l, i, t)]
      /\ UNCHANGED <<passes, freed, stream, clearings>>
  BY DEF Log, Fresh
<1>2. /\ pc'[t] = "pack" /\ \A u \in Thread \ {t} : pc'[u] = pc[u] /\ msg'[u] = msg[u]
  BY <1>1, Moved, Types DEF IInv, Labels
<1>3. \A id : Counted(id)' => Counted(id) /\ msg'[Main].era = msg[Main].era
  BY <1>2, Facts DEF Counted
<1> QED
  BY <1>1, <1>3, EraStays

\* A pass is counted in the era that the hash is in.
LEMMA PackEras ==
  ASSUME IInv, NEW e, Era(e), NEW t \in Thread, Pack(t)
  PROVE  Eras'
<1> DEFINE m == msg[t]
           count == IF m.level = CHECKPOINT THEN PassCount(m.id) ELSE 0
           p == Packed(m, Left(m.level), count, resets, clearings)
<1>1. UNCHANGED <<freed, stream, clearings>> /\ At(t, "pack")
  BY DEF Pack
<1>2. CASE m.level = CHECKPOINT /\ freed
  <2>1. Goto(t, "fault") /\ UNCHANGED <<msg, passes>>
    BY <1>2 DEF Pack
  <2>2. pc'[t] = "fault" /\ \A u \in Thread \ {t} : pc'[u] = pc[u]
    BY <1>1, <2>1, Moved DEF IInv, Labels
  <2>3. \A id : Counted(id)' => Counted(id)
    BY <2>1, <2>2, Facts DEF Counted
  <2> QED
    BY <1>1, <2>1, <2>3, EraStays
<1>3. CASE ~(m.level = CHECKPOINT /\ freed)
  <2>1. /\ Goto(t, "load") /\ msg' = [msg EXCEPT ![t] = p]
        /\ passes' = [i \in Id |-> IF i = m.id THEN count ELSE passes[i]]
    BY <1>3 DEF Pack, Packed
  <2>2. pc'[t] = "load" /\ \A u \in Thread \ {t} : pc'[u] = pc[u]
    BY <1>1, <2>1, Moved DEF IInv, Labels
  <2>3. /\ m \in Message /\ msg \in [Thread -> Message] /\ passes \in [Id -> Nat]
        /\ resets \in Nat /\ clearings \in Nat /\ indent \in Nat
    BY Types DEF IInv
  <2>4. m.id \in Id \cup {NULL} /\ (m.id # NULL <=> m.level = CHECKPOINT)
        /\ (m.level = CHECKPOINT => t = Main)
    BY <2>3 DEF IInv, Marked, Message
  <2>5. count \in Nat /\ Left(m.level) \in Nat
    BY <2>3, <2>4, Facts DEF PassCount, Left
  <2>6. p.level = m.level /\ p.id = m.id /\ p.era = clearings
    <3>1. \A n, c \in Nat : LET q == Packed(m, n, c, resets, clearings)
                            IN q.level = m.level /\ q.id = m.id /\ q.era = clearings
      BY <2>3, PackedMessage
    <3> QED
      BY <2>5, <3>1
  <2>7. msg'[t] = p /\ \A u \in Thread \ {t} : msg'[u] = msg[u]
    BY <2>1, <2>3
  <2> HIDE DEF p
  <2>8. CASE m.level = CHECKPOINT
    <3>1. e = clearings /\ t = Main /\ m.id \in Id /\ count = passes[m.id] + 1
      BY <1>3, <2>4, <2>8 DEF Era, PassCount
    <3>2. \A id \in Id : passes'[id] = IF id = m.id THEN passes[id] + 1 ELSE passes[id]
      BY <2>1, <3>1
    <3>3. \A id \in Id : passes[id] > 0 => passes'[id] > 0
      BY <2>3, <3>2
    <3>4. \A id : Counted(id)' => id = m.id /\ msg'[Main].era = e
      BY <2>6, <2>7, <3>1 DEF Counted
    <3>5. passes'[m.id] > 0
      BY <2>3, <3>1, <3>2
    <3>6. \A i \in DOMAIN stream : stream[i].level = CHECKPOINT =>
            stream[i].era = e /\ passes'[stream[i].id] > 0
      BY <3>3, CheckpointIds DEF Era
    <3>7. Era(e)'
      BY <1>1, <3>4, <3>5, <3>6 DEF Era
    <3> QED
      BY <3>7 DEF Eras
  <2>9. CASE m.level # CHECKPOINT
    <3>1. passes' = passes
      BY <2>1, <2>3, <2>4, <2>9, Facts
    <3>2. \A id : Counted(id)' => Counted(id) /\ msg'[Main].era = msg[Main].era
      BY <2>2, <2>6, <2>7, <2>9, Facts DEF Counted
    <3> QED
      BY <1>1, <3>1, <3>2, EraStays
  <2> QED
    BY <2>8, <2>9
<1> QED
  BY <1>2, <1>3

\* Numbering the message does not touch its era.
LEMMA SerialEras ==
  ASSUME IInv, NEW e, Era(e), NEW t \in Thread, LoadSerial(t) \/ StoreSerial(t)
  PROVE  Eras'
<1>1. UNCHANGED <<freed, passes, stream, clearings>>
  BY DEF LoadSerial, StoreSerial
<1>2. PICK from \in {"load", "store"} :
        \E to \in {"store", "send"} : At(t, from) /\ Goto(t, to)
  BY DEF LoadSerial, StoreSerial
<1>3. /\ pc[t] \in {"load", "store"} /\ \A u \in Thread \ {t} : pc'[u] = pc[u]
  BY <1>2, Moved DEF IInv, Labels
<1>4. \A u \in Thread : /\ msg'[u].level = msg[u].level /\ msg'[u].id = msg[u].id
                        /\ msg'[u].era = msg[u].era
  <2>1. CASE LoadSerial(t)
    BY <2>1 DEF LoadSerial
  <2>2. CASE StoreSerial(t)
    <3>1. /\ msg \in [Thread -> Message] /\ loaded[t] \in Nat
          /\ NextSerial(loaded[t]) \in 0 .. SerialRange - 1
      BY Types, SerialType, Facts DEF IInv
    <3>2. LET q == [msg[t] EXCEPT !.serial = NextSerial(loaded[t])]
          IN q.level = msg[t].level /\ q.id = msg[t].id /\ q.era = msg[t].era
      BY <3>1, NumberedMessage
    <3>3. msg' = [msg EXCEPT ![t] = [msg[t] EXCEPT !.serial = NextSerial(loaded[t])]]
      BY <2>2 DEF StoreSerial
    <3> QED
      BY <3>1, <3>2, <3>3
  <2> QED
    BY <2>1, <2>2
<1>5. \A id : Counted(id)' => Counted(id) /\ msg'[Main].era = msg[Main].era
  BY <1>3, <1>4, Facts DEF Counted
<1> QED
  BY <1>1, <1>5, EraStays

\* A message about a checkpoint brings its era into the stream.
LEMMA SendEras ==
  ASSUME IInv, NEW e, Era(e), NEW t \in Thread, Send(t)
  PROVE  Eras'
<1> DEFINE m == msg[t]
<1>1. /\ At(t, "send") /\ Goto(t, "idle")
      /\ stream' = (IF connected THEN Append(stream, m) ELSE stream)
      /\ msg' = [msg EXCEPT ![t] = NoMessage]
      /\ UNCHANGED <<passes, freed, clearings>>
  BY DEF Send
<1>2. /\ pc[t] = "send" /\ pc'[t] = "idle" /\ \A u \in Thread \ {t} : pc'[u] = pc[u]
  BY <1>1, Moved DEF IInv, Labels
<1>3. msg \in [Thread -> Message] /\ stream \in Seq(Message) /\ m \in Message
  BY Types DEF IInv
<1>4. \A u \in Thread \ {t} : msg'[u] = msg[u]
  BY <1>1, <1>3
<1>5. \A id : Counted(id)' => Counted(id) /\ msg'[Main].era = msg[Main].era
  BY <1>2, <1>4, Facts DEF Counted
<1>6. m.level = CHECKPOINT => Counted(m.id) /\ m.id \in Id /\ m.era = e /\ passes[m.id] > 0
  <2>1. m.level = CHECKPOINT => t = Main /\ m.id \in Id
    BY <1>3 DEF IInv, Marked, Message
  <2> QED
    BY <1>2, <2>1 DEF Counted, Era
<1>7. CASE connected
  <2>1. /\ DOMAIN stream' = 1 .. Len(stream) + 1 /\ stream'[Len(stream) + 1] = m
        /\ DOMAIN stream = 1 .. Len(stream) /\ Len(stream) \in Nat
        /\ \A i \in 1 .. Len(stream) : stream'[i] = stream[i]
    BY <1>1, <1>3, <1>7
  <2>2. ASSUME NEW i \in DOMAIN stream', stream'[i].level = CHECKPOINT
        PROVE  stream'[i].era = e /\ passes[stream'[i].id] > 0
    <3>1. CASE i \in 1 .. Len(stream)
      BY <2>1, <2>2, <3>1 DEF Era
    <3>2. CASE i = Len(stream) + 1
      BY <1>6, <2>1, <2>2, <3>2
    <3> QED
      BY <2>1, <2>2, <3>1, <3>2
  <2>3. Era(e)'
    BY <1>1, <1>5, <2>2 DEF Era
  <2> QED
    BY <2>3 DEF Eras
<1>8. CASE ~connected
  BY <1>1, <1>5, <1>8, EraStays
<1> QED
  BY <1>7, <1>8

\* Every step keeps the messages about checkpoints in one era.
LEMMA StepEras == IInv /\ Eras /\ [Next]_vars => Eras'
<1> SUFFICES ASSUME IInv, NEW e, Era(e), [Next]_vars PROVE Eras'
  BY DEF Eras
<1>1. ASSUME NEW t \in Thread, NEW l \in Levels(t), NEW i \in Id \cup {NULL}, Log(t, l, i)
      PROVE  Eras'
  BY <1>1, LogEras
<1>2. ASSUME NEW t \in Thread, Pack(t) \/ LoadSerial(t) \/ StoreSerial(t) \/ Send(t)
      PROVE  Eras'
  BY <1>2, PackEras, SerialEras, SendEras
<1>3. CASE Connect
  <2>1. UNCHANGED <<freed, passes, clearings, msg, pc>> /\ stream' = <<>>
    BY <1>3 DEF Connect
  <2>2. \A id : Counted(id)' <=> Counted(id)
    BY <2>1 DEF Counted
  <2> QED
    BY <2>1, <2>2, EraStays
<1>4. CASE \/ \E l \in Threshold : SetThreshold(l)
           \/ \E b \in BOOLEAN : Reset(b)
           \/ Shutdown \/ UNCHANGED vars
  BY <1>4, AdministrationEras
<1> QED
  BY <1>1, <1>2, <1>3, <1>4 DEF Next

\* Successive messages about a checkpoint carry successive pass counts, with
\* any number of other threads logging, and a count that began again at 1 would
\* be right where log_reset(true) came between them.  (There is no such message:
\* after a clearing that had something to clear, no pass is counted.)
THEOREM PassesCounted == Spec => []PassCountsSuccessive
<1>1. Spec => []Eras
  BY InitEras, Invariance, StepEras, PTL DEF Spec
<1>2. Successive /\ Eras => PassCountsSuccessive
  <2> SUFFICES ASSUME Successive, NEW e, Era(e) PROVE PassCountsSuccessive
    BY DEF Eras
  <2>1. \A i, j \in DOMAIN stream :
          stream[i].level = CHECKPOINT /\ stream[j].level = CHECKPOINT =>
            stream[j].era = stream[i].era
    BY DEF Era
  <2> QED
    BY <2>1 DEF Successive, PassCountsSuccessive
<1>3. IInv => Successive
  BY DEF IInv
<1> QED
  BY <1>1, <1>2, <1>3, Invariance, PTL

(***************************************************************************)
(* Scopes                                                                  *)
(***************************************************************************)
\* The messages of a level from i to j, and how many there are.
Tallied(s, level, i, j) == {k \in i .. j : s[k].level = level}
Tally(s, level, i, j) == Cardinality(Tallied(s, level, i, j))

\* The scope entered at i has not been left at j.
Open(s, i, j) ==
  /\ s[i].level = ENTER
  /\ \A k \in i .. j : Tally(s, ENTER, i, k) > Tally(s, LEAVE, i, k)

\* Main's message has been indented but not sent; the level before it was.
Pending == pc[Main] \in {"load", "store", "send"}
Held == IF Pending THEN msg[Main].indent + (IF msg[Main].level = LEAVE THEN 1 ELSE 0) ELSE indent

\* Only Main enters and leaves scopes, and the level is what its message says.
Authors ==
  /\ \A t \in Thread : /\ msg[t].level \in {ENTER, LEAVE} => t = Main
                       /\ Busy(t) => msg[t].by = t
  /\ Pending => indent = msg[Main].indent + (IF msg[Main].level = ENTER THEN 1 ELSE 0)

\* Main's messages are sent in the order of the resets between them.
Epochs ==
  /\ \A t \in Thread : msg[t].epoch <= resets
  /\ Pending => msg[Main].epoch = resets
  /\ \A i \in DOMAIN stream : /\ stream[i].epoch <= resets
                              /\ stream[i].level \in {ENTER, LEAVE} => stream[i].by = Main
  /\ \A i, k \in DOMAIN stream : i < k /\ stream[i].by = Main /\ stream[k].by = Main =>
       stream[i].epoch <= stream[k].epoch

\* Since the last reset, the level counts the scopes that are open.
Level ==
  connected =>
    \A i \in DOMAIN stream :
      Open(stream, i, Len(stream)) /\ stream[i].epoch = resets =>
        Held + Tally(stream, LEAVE, i, Len(stream))
          = stream[i].indent + Tally(stream, ENTER, i, Len(stream))

\* Whatever Main logs in an open scope is indented deeper than the scope ...
Inside ==
  \A i, k \in DOMAIN stream :
    /\ i < k /\ Open(stream, i, k) /\ stream[k].by = Main
    /\ stream[i].epoch = stream[k].epoch
    => stream[k].indent > stream[i].indent

\* ... and what ends the scope is not.
Closed ==
  \A i, k \in DOMAIN stream :
    /\ i < k /\ Open(stream, i, k - 1) /\ stream[k].level = LEAVE
    /\ Tally(stream, ENTER, i, k) = Tally(stream, LEAVE, i, k)
    /\ stream[i].epoch = stream[k].epoch
    => stream[k].indent = stream[i].indent

Scopes == Authors /\ Epochs /\ Level /\ Inside /\ Closed

(***************************************************************************)
(* Counting messages                                                       *)
(***************************************************************************)
\* There are finitely many messages of a level.
LEMMA TallyType ==
  ASSUME NEW s, NEW level, NEW i \in Int, NEW j \in Int
  PROVE  IsFiniteSet(Tallied(s, level, i, j)) /\ Tally(s, level, i, j) \in Nat
<1>1. IsFiniteSet(i .. j) /\ Tallied(s, level, i, j) \subseteq i .. j
  BY FS_Interval DEF Tallied
<1>2. IsFiniteSet(Tallied(s, level, i, j))
  BY <1>1, FS_Subset
<1> QED
  BY <1>2, FS_CardinalityType DEF Tally

\* A message more changes none of the counts before it ...
LEMMA TallyKept ==
  ASSUME NEW s \in Seq(Message), NEW m \in Message, NEW level,
         NEW i \in Int, i >= 1, NEW j \in Int, j <= Len(s)
  PROVE  Tally(Append(s, m), level, i, j) = Tally(s, level, i, j)
<1>1. \A k \in i .. j : Append(s, m)[k] = s[k]
  OBVIOUS
<1>2. Tallied(Append(s, m), level, i, j) = Tallied(s, level, i, j)
  BY <1>1 DEF Tallied
<1> QED
  BY <1>2 DEF Tally

\* ... and adds one of its own level.
LEMMA TallyNext ==
  ASSUME NEW s \in Seq(Message), NEW m \in Message, NEW level,
         NEW i \in Int, i >= 1, i <= Len(s) + 1
  PROVE  Tally(Append(s, m), level, i, Len(s) + 1)
           = Tally(s, level, i, Len(s)) + (IF m.level = level THEN 1 ELSE 0)
<1> DEFINE n == Len(s)
           r == Append(s, m)
           T == Tallied(s, level, i, n)
<1>1. /\ n \in Nat /\ r[n + 1] = m /\ \A k \in i .. n : r[k] = s[k]
  OBVIOUS
<1>2. IsFiniteSet(T) /\ Cardinality(T) \in Nat /\ n + 1 \notin T
  <2>1. n \in Int /\ n + 1 \notin i .. n
    BY <1>1
  <2> QED
    BY <2>1, TallyType DEF Tallied, Tally
<1>3. \A k : k \in i .. n + 1 <=> k \in i .. n \/ k = n + 1
  BY <1>1
<1> HIDE DEF n, r
<1>4. Tallied(r, level, i, n + 1) = IF m.level = level THEN T \cup {n + 1} ELSE T
  BY <1>1, <1>3 DEF Tallied
<1>5. Cardinality(T \cup {n + 1}) = Cardinality(T) + 1
  <2> HIDE DEF T
  <2> QED
    BY <1>2, FS_AddElement
<1>6. Tally(r, level, i, n + 1) = Tally(s, level, i, n) + (IF m.level = level THEN 1 ELSE 0)
  BY <1>2, <1>4, <1>5 DEF Tally
<1> QED
  BY <1>6 DEF n, r

\* A scope is open at a message whatever comes after that.
LEMMA OpenKept ==
  ASSUME NEW s \in Seq(Message), NEW m \in Message,
         NEW i \in 1 .. Len(s), NEW j \in Int, j <= Len(s)
  PROVE  Open(Append(s, m), i, j) <=> Open(s, i, j)
<1>1. /\ i \in Int /\ i >= 1 /\ Append(s, m)[i] = s[i] /\ Len(s) \in Nat
  OBVIOUS
<1>2. ASSUME NEW k \in i .. j
      PROVE  /\ Tally(Append(s, m), ENTER, i, k) = Tally(s, ENTER, i, k)
             /\ Tally(Append(s, m), LEAVE, i, k) = Tally(s, LEAVE, i, k)
  <2>1. k \in Int /\ k <= Len(s)
    BY <1>1
  <2> QED
    BY <1>1, <2>1, TallyKept
<1> QED
  BY <1>1, <1>2 DEF Open

\* One that is open at the end was open before, and is so by the counts.
LEMMA OpenNext ==
  ASSUME NEW s \in Seq(Message), NEW m \in Message, NEW i \in 1 .. Len(s),
         Open(Append(s, m), i, Len(s) + 1)
  PROVE  /\ Open(s, i, Len(s))
         /\ Tally(Append(s, m), ENTER, i, Len(s) + 1) > Tally(Append(s, m), LEAVE, i, Len(s) + 1)
<1> DEFINE n == Len(s)
           r == Append(s, m)
<1>1. n \in Int /\ n <= Len(s) /\ i <= n /\ i \in Int /\ n \in Nat
  OBVIOUS
<1>2. Open(r, i, n) <=> Open(s, i, n)
  BY <1>1, OpenKept
<1>3. Open(r, i, n + 1)
  OBVIOUS
<1> HIDE DEF n, r
<1>4. (\A k \in i .. n : k \in i .. n + 1) /\ n + 1 \in i .. n + 1
  BY <1>1
<1>5. Open(r, i, n) /\ Tally(r, ENTER, i, n + 1) > Tally(r, LEAVE, i, n + 1)
  BY <1>3, <1>4 DEF Open
<1> QED
  BY <1>2, <1>5 DEF n, r

\* The counts of an open scope.
LEMMA OpenCounts ==
  ASSUME NEW s, NEW i \in Int, NEW j \in Int, i <= j, Open(s, i, j)
  PROVE  /\ Tally(s, ENTER, i, j) \in Nat /\ Tally(s, LEAVE, i, j) \in Nat
         /\ Tally(s, ENTER, i, j) > Tally(s, LEAVE, i, j)
<1>1. j \in i .. j
  OBVIOUS
<1> QED
  BY <1>1, TallyType DEF Open

(***************************************************************************)
(* Steps and scopes                                                        *)
(***************************************************************************)
\* The level a thread's message is held to is a number.
LEMMA HeldType == TypeOK => Held \in Nat /\ (Pending \in BOOLEAN)
<1> SUFFICES ASSUME TypeOK PROVE Held \in Nat /\ (Pending \in BOOLEAN)
  OBVIOUS
<1>1. msg[Main] \in Message /\ indent \in Nat
  BY Types, Facts
<1>2. msg[Main].indent \in Nat
  BY <1>1 DEF Message
<1> QED
  BY <1>1, <1>2 DEF Held, Pending

\* What a message of the stream is.
LEMMA Streamed ==
  ASSUME TypeOK, NEW i \in DOMAIN stream
  PROVE  /\ stream \in Seq(Message) /\ Len(stream) \in Nat /\ DOMAIN stream = 1 .. Len(stream)
         /\ i \in Int /\ 1 <= i /\ i <= Len(stream)
         /\ stream[i] \in Message /\ stream[i].indent \in Nat /\ stream[i].epoch \in Nat
<1>1. stream \in Seq(Message)
  BY Types
<1>2. /\ Len(stream) \in Nat /\ DOMAIN stream = 1 .. Len(stream)
      /\ i \in Int /\ 1 <= i /\ i <= Len(stream) /\ stream[i] \in Message
  BY <1>1
<1> QED
  BY <1>1, <1>2 DEF Message

\* A step that sends nothing keeps the scopes if the level stays, or was 0:
\* then no scope was open.
LEMMA StillScopes ==
  ASSUME TypeOK, TypeOK', Scopes, Authors', stream' = stream, resets' >= resets,
         \A t \in Thread : msg'[t].epoch <= resets',
         Pending' => msg'[Main].epoch = resets',
         connected' => connected /\ (resets' = resets => Held' = Held \/ Held = 0)
  PROVE  Scopes'
<1>1. resets \in Nat /\ resets' \in Nat
  BY Types DEF TypeOK
<1>2. Epochs'
  <2>1. \A i \in DOMAIN stream : stream[i].epoch \in Nat
    BY Streamed
  <2>2. \A i \in DOMAIN stream : stream[i].epoch <= resets'
    BY <1>1, <2>1 DEF Scopes, Epochs
  <2>3. /\ \A i \in DOMAIN stream : stream[i].level \in {ENTER, LEAVE} => stream[i].by = Main
        /\ \A i, k \in DOMAIN stream : i < k /\ stream[i].by = Main /\ stream[k].by = Main =>
             stream[i].epoch <= stream[k].epoch
    BY DEF Scopes, Epochs
  <2> QED
    BY <2>2, <2>3 DEF Epochs
<1>3. Level'
  <2> SUFFICES ASSUME connected', NEW i \in DOMAIN stream,
                      Open(stream, i, Len(stream)), stream[i].epoch = resets'
               PROVE  Held' + Tally(stream, LEAVE, i, Len(stream))
                        = stream[i].indent + Tally(stream, ENTER, i, Len(stream))
    BY DEF Level
  <2>1. stream[i].epoch \in Nat /\ stream[i].epoch <= resets
    BY Streamed DEF Scopes, Epochs
  <2>2. resets' = resets
    BY <1>1, <2>1
  <2>3. Held + Tally(stream, LEAVE, i, Len(stream))
          = stream[i].indent + Tally(stream, ENTER, i, Len(stream))
    BY <2>2 DEF Scopes, Level
  <2>4. /\ i \in Int /\ Len(stream) \in Int /\ i <= Len(stream) /\ stream[i].indent \in Nat
    BY Streamed
  <2>5. /\ Tally(stream, ENTER, i, Len(stream)) \in Nat /\ Tally(stream, LEAVE, i, Len(stream)) \in Nat
        /\ Tally(stream, ENTER, i, Len(stream)) > Tally(stream, LEAVE, i, Len(stream))
    BY <2>4, OpenCounts
  <2>6. Held # 0
    BY <2>3, <2>4, <2>5
  <2> QED
    BY <2>2, <2>3, <2>6
<1>4. Inside' /\ Closed'
  BY DEF Scopes, Inside, Closed
<1> QED
  BY <1>2, <1>3, <1>4 DEF Scopes

\* No scope is entered when the program starts.
LEMMA InitScopes == Init => Scopes
<1> SUFFICES ASSUME Init PROVE Scopes
  OBVIOUS
<1>1. /\ stream = <<>> /\ resets = 0 /\ ~Pending
      /\ \A t \in Thread : msg[t] = NoMessage /\ pc[t] = "idle"
  BY Facts DEF Init, Pending
<1>2. NoMessage.level = INFO /\ NoMessage.epoch = 0
  BY DEF NoMessage
<1>3. Authors
  BY <1>1, <1>2 DEF Authors, Busy, INFO, ENTER, LEAVE
<1>4. Epochs
  BY <1>1, <1>2 DEF Epochs
<1>5. Level /\ Inside /\ Closed
  BY <1>1 DEF Level, Inside, Closed
<1> QED
  BY <1>3, <1>4, <1>5 DEF Scopes

\* A message that is begun is not yet indented.
LEMMA LogScopes ==
  ASSUME TypeOK, TypeOK', Scopes,
         NEW t \in Thread, NEW l \in Levels(t), NEW i \in Id \cup {NULL}, Log(t, l, i)
  PROVE  Scopes'
<1> DEFINE m == Fresh(l, i, t)
<1>1. /\ pc[t] = "idle" /\ msg' = [msg EXCEPT ![t] = m] /\ pc' = [pc EXCEPT ![t] = "pack"]
      /\ UNCHANGED <<indent, connected, stream,
                     resets, clearings>>
  BY DEF Log, At, Goto, Fresh
<1>2. /\ m.level = l /\ m.by = t /\ m.epoch = 0
      /\ (l \in {ENTER, LEAVE} => t = Main)
  BY DEF Fresh, NoMessage, Levels, INFO, ENTER, LEAVE
<1>3. /\ pc'[t] = "pack" /\ msg'[t] = m
      /\ \A u \in Thread \ {t} : pc'[u] = pc[u] /\ msg'[u] = msg[u]
  BY <1>1, Types
<1>4. /\ Pending' <=> Pending
      /\ Pending => msg'[Main] = msg[Main]
  BY <1>1, <1>3, Facts DEF Pending
<1>5. Authors'
  BY <1>1, <1>2, <1>3, <1>4 DEF Scopes, Authors, Busy
<1>6. \A u \in Thread : msg'[u].epoch <= resets
  BY <1>2, <1>3, Types DEF Scopes, Epochs
<1>7. Held' = Held /\ (Pending' => msg'[Main].epoch = resets)
  BY <1>1, <1>4 DEF Held, Scopes, Epochs
<1>8. resets' >= resets
  BY <1>1, Types
<1> QED
  BY <1>1, <1>5, <1>6, <1>7, <1>8, StillScopes

\* A fault leaves the program where it is.
LEMMA FaultScopes ==
  ASSUME TypeOK, TypeOK', Scopes, NEW t \in Thread, At(t, "pack"), Goto(t, "fault"),
         UNCHANGED <<indent, msg, connected, stream, resets>>
  PROVE  Scopes'
<1>1. /\ pc[t] = "pack" /\ pc'[t] = "fault" /\ \A u \in Thread \ {t} : pc'[u] = pc[u]
  BY Moved DEF Labels
<1>2. Pending' <=> Pending
  BY <1>1, Facts DEF Pending
<1>3. Held' = Held
  BY <1>2 DEF Held
<1>4. Authors'
  BY <1>1, <1>2 DEF Scopes, Authors, Busy
<1>5. resets' >= resets
  BY Types
<1> QED
  BY <1>2, <1>3, <1>4, <1>5, StillScopes DEF Scopes, Epochs

\* sbuffer_log_level: a LEAVE decreases the level before it is packed, an
\* ENTER increases it after that.
LEMMA PackScopes ==
  ASSUME IInv, TypeOK', Scopes, NEW t \in Thread, Pack(t), ~(msg[t].level = CHECKPOINT /\ freed)
  PROVE  Scopes'
<1> DEFINE m == msg[t]
           count == IF m.level = CHECKPOINT THEN PassCount(m.id) ELSE 0
           p == Packed(m, Left(m.level), count, resets, clearings)
<1>1. /\ At(t, "pack") /\ Goto(t, "load") /\ msg' = [msg EXCEPT ![t] = p]
      /\ indent' = Left(m.level) + (IF m.level = ENTER THEN 1 ELSE 0)
      /\ UNCHANGED <<connected, stream, resets>>
  BY DEF Pack, Packed
<1>2. /\ pc[t] = "pack" /\ pc'[t] = "load" /\ \A u \in Thread \ {t} : pc'[u] = pc[u]
  BY <1>1, Moved DEF IInv, Labels
<1>3. /\ m \in Message /\ msg \in [Thread -> Message] /\ resets \in Nat /\ indent \in Nat
  BY Types DEF IInv
<1>4. p.level = m.level /\ p.by = m.by /\ p.epoch = resets /\ p.indent = Left(m.level)
  BY <1>3 DEF Packed, Message
<1>5. /\ msg'[t] = p /\ \A u \in Thread \ {t} : msg'[u] = msg[u]
  BY <1>1, <1>3
<1>6. m.by = t /\ (m.level \in {ENTER, LEAVE} => t = Main)
  BY <1>2 DEF Scopes, Authors, Busy
<1>7. ASSUME t # Main
      PROVE  /\ indent' = indent /\ (Pending' <=> Pending) /\ msg'[Main] = msg[Main]
  <2>1. pc'[Main] = pc[Main] /\ msg'[Main] = msg[Main]
    BY <1>2, <1>5, <1>7, Facts
  <2>2. indent' = indent
    BY <1>1, <1>3, <1>6, <1>7 DEF Left
  <2> QED
    BY <2>1, <2>2 DEF Pending
<1>8. t = Main => ~Pending /\ Pending' /\ msg'[Main] = p
  BY <1>2, <1>5 DEF Pending
<1>9. Authors'
  <2>1. \A u \in Thread : /\ msg'[u].level \in {ENTER, LEAVE} => u = Main
                          /\ Busy(u)' => msg'[u].by = u
    BY <1>2, <1>4, <1>5, <1>6 DEF Scopes, Authors, Busy
  <2>2. Pending' => indent' = msg'[Main].indent + (IF msg'[Main].level = ENTER THEN 1 ELSE 0)
    <3>1. CASE t = Main
      BY <3>1, <1>1, <1>4, <1>8
    <3>2. CASE t # Main
      BY <3>2, <1>7 DEF Scopes, Authors
    <3> QED
      BY <3>1, <3>2
  <2> QED
    BY <2>1, <2>2 DEF Authors
<1>10. \A u \in Thread : msg'[u].epoch <= resets'
  BY <1>1, <1>3, <1>4, <1>5 DEF Scopes, Epochs
<1>11. Pending' => msg'[Main].epoch = resets'
  <2>1. CASE t = Main
    BY <2>1, <1>1, <1>4, <1>8
  <2>2. CASE t # Main
    BY <2>2, <1>1, <1>7 DEF Scopes, Epochs
  <2> QED
    BY <2>1, <2>2
<1>12. Held' = Held \/ Held = 0
  <2>1. CASE t = Main
    <3>1. Held = indent /\ Held' = Left(m.level) + (IF m.level = LEAVE THEN 1 ELSE 0)
      BY <2>1, <1>4, <1>8 DEF Held
    <3>2. m.level = LEAVE /\ indent > 0 => Held' = indent
      BY <1>3, <3>1 DEF Left
    <3>3. m.level # LEAVE => Held' = indent
      BY <1>3, <3>1 DEF Left
    <3>4. indent > 0 \/ indent = 0
      BY <1>3
    <3> QED
      BY <3>1, <3>2, <3>3, <3>4
  <2>2. CASE t # Main
    BY <2>2, <1>7 DEF Held
  <2> QED
    BY <2>1, <2>2
<1>13. resets' >= resets
  BY <1>1, <1>3
<1> QED
  BY <1>1, <1>9, <1>10, <1>11, <1>12, <1>13, StillScopes DEF IInv

\* Reading and writing the serial concerns no scope.
LEMMA SerialScopes ==
  ASSUME TypeOK, TypeOK', Scopes, NEW t \in Thread, LoadSerial(t) \/ StoreSerial(t)
  PROVE  Scopes'
<1>1. UNCHANGED <<indent, connected, stream, resets>>
  BY DEF LoadSerial, StoreSerial
<1>2. /\ pc[t] \in {"load", "store"} /\ pc'[t] \in {"store", "send"}
      /\ \A u \in Thread \ {t} : pc'[u] = pc[u]
  <2>1. CASE LoadSerial(t)
    BY <2>1, Moved DEF LoadSerial, Labels
  <2>2. CASE StoreSerial(t)
    BY <2>2, Moved DEF StoreSerial, Labels
  <2> QED
    BY <2>1, <2>2
<1>3. \A u \in Thread : /\ msg'[u].level = msg[u].level /\ msg'[u].by = msg[u].by
                        /\ msg'[u].indent = msg[u].indent /\ msg'[u].epoch = msg[u].epoch
  <2>1. CASE LoadSerial(t)
    BY <2>1 DEF LoadSerial
  <2>2. CASE StoreSerial(t)
    <3>1. msg' = [msg EXCEPT ![t].serial = NextSerial(loaded[t])]
      BY <2>2 DEF StoreSerial
    <3>2. msg \in [Thread -> Message]
      BY Types
    <3>3. \A u \in Thread : msg[u] \in Message
      BY <3>2
    <3> QED
      BY <3>1, <3>2, <3>3 DEF Message
  <2> QED
    BY <2>1, <2>2
<1>4. Pending' <=> Pending
  BY <1>2, Facts DEF Pending
<1>5. Held' = Held
  BY <1>1, <1>3, <1>4, Facts DEF Held
<1>6. Authors'
  BY <1>1, <1>2, <1>3, <1>4, Facts DEF Scopes, Authors, Busy
<1>7. /\ \A u \in Thread : msg'[u].epoch <= resets'
      /\ Pending' => msg'[Main].epoch = resets'
  BY <1>1, <1>3, <1>4, Facts DEF Scopes, Epochs
<1>8. resets' >= resets
  BY <1>1, Types
<1> QED
  BY <1>1, <1>5, <1>6, <1>7, <1>8, StillScopes

\* Administration is done while Main has no message under way.
LEMMA AdministrationScopes ==
  ASSUME TypeOK, TypeOK', Scopes,
         (\E l \in Threshold : SetThreshold(l)) \/ (\E b \in BOOLEAN : Reset(b)) \/ Shutdown
           \/ UNCHANGED vars
  PROVE  Scopes'
<1>1. Quiet
  BY AdministrationQuiet
<1>2. /\ UNCHANGED <<msg, stream>> /\ (connected' => connected)
  BY <1>1 DEF Quiet
<1>3. \A t \in Thread : pc'[t] = pc[t] \/ (t = Main /\ pc[t] = "idle" /\ pc'[t] = "fault")
  BY <1>1, Types DEF Quiet
<1>4. Pending' <=> Pending
  BY <1>3, Facts DEF Pending
<1>5. \/ UNCHANGED <<indent, resets>>
      \/ ~Pending /\ indent' = 0 /\ resets' = resets + 1
  <2>1. ASSUME NEW b \in BOOLEAN, Reset(b) PROVE ~Pending /\ indent' = 0 /\ resets' = resets + 1
    BY <2>1 DEF Reset, At, Pending
  <2>2. CASE (\E l \in Threshold : SetThreshold(l)) \/ Shutdown \/ UNCHANGED vars
    BY <2>2 DEF SetThreshold, Shutdown, vars
  <2> QED
    BY <2>1, <2>2
<1>6. resets \in Nat /\ resets' >= resets
  BY <1>5, Types
<1>7. resets' = resets => Held' = Held
  BY <1>2, <1>4, <1>5, <1>6 DEF Held
<1>8. Authors'
  BY <1>2, <1>3, <1>4, <1>5 DEF Scopes, Authors, Busy
<1>9. \A t \in Thread : msg'[t].epoch <= resets'
  <2>1. \A t \in Thread : msg[t].epoch \in Nat /\ msg[t].epoch <= resets
    BY Types DEF Scopes, Epochs, Message
  <2>2. resets \in Nat /\ resets' \in Nat /\ resets' >= resets /\ msg' = msg
    BY <1>2, <1>6, Types DEF TypeOK
  <2> QED
    BY <2>1, <2>2
<1>10. Pending' => msg'[Main].epoch = resets'
  BY <1>2, <1>4, <1>5 DEF Scopes, Epochs
<1> QED
  BY <1>2, <1>6, <1>7, <1>8, <1>9, <1>10, StillScopes

\* A new backend knows no scopes.
LEMMA ConnectScopes == ASSUME TypeOK, Scopes, Connect PROVE Scopes'
<1>1. stream' = <<>> /\ UNCHANGED <<indent, pc, msg, resets>>
  BY DEF Connect
<1>2. Authors' /\ Epochs'
  BY <1>1 DEF Scopes, Authors, Busy, Pending, Epochs
<1>3. Level' /\ Inside' /\ Closed'
  BY <1>1 DEF Level, Inside, Closed
<1> QED
  BY <1>2, <1>3 DEF Scopes

\* No messages, no counts.
LEMMA TallyNone ==
  ASSUME NEW s, NEW level, NEW i \in Int
  PROVE  Tally(s, level, i, i - 1) = 0
<1>1. Tallied(s, level, i, i - 1) = {}
  BY DEF Tallied
<1> QED
  BY <1>1, FS_EmptySet DEF Tally

\* What a level adds to a count of it.
One(b) == IF b THEN 1 ELSE 0

\* A thread that sends leaves its message; if it is Main, the level goes on
\* from what the message says.
LEMMA SendLevel ==
  ASSUME TypeOK, Scopes, NEW t \in Thread, Send(t)
  PROVE  /\ msg[t] \in Message /\ msg[t].by = t /\ msg[t].epoch <= resets
         /\ msg[t].level \in {ENTER, LEAVE} => t = Main
         /\ t = Main => /\ msg[t].epoch = resets
                        /\ Held = msg[t].indent + One(msg[t].level = LEAVE)
         /\ Held' = Held + One(msg[t].level = ENTER) - One(msg[t].level = LEAVE)
         /\ Authors'
         /\ \A u \in Thread : msg'[u].epoch <= resets
         /\ Pending' => msg'[Main].epoch = resets
<1> DEFINE m == msg[t]
<1>1. /\ At(t, "send") /\ Goto(t, "idle") /\ msg' = [msg EXCEPT ![t] = NoMessage]
      /\ UNCHANGED <<indent, resets>>
  BY DEF Send
<1>2. /\ pc[t] = "send" /\ pc'[t] = "idle" /\ \A u \in Thread \ {t} : pc'[u] = pc[u]
  BY <1>1, Moved DEF Labels
<1>3. msg \in [Thread -> Message] /\ m \in Message /\ resets \in Nat /\ indent \in Nat
  BY Types
<1>4. m.indent \in Nat /\ NoMessage.level = INFO /\ NoMessage.epoch = 0
  BY <1>3 DEF Message, NoMessage
<1>5. /\ msg'[t] = NoMessage /\ \A u \in Thread \ {t} : msg'[u] = msg[u]
  BY <1>1, <1>3
<1>6. m.by = t /\ (m.level \in {ENTER, LEAVE} => t = Main) /\ m.epoch <= resets
  BY <1>2 DEF Scopes, Authors, Epochs, Busy
<1>7. ASSUME t = Main
      PROVE  /\ Pending /\ ~Pending' /\ m.epoch = resets
             /\ indent = m.indent + One(m.level = ENTER)
             /\ Held = m.indent + One(m.level = LEAVE) /\ Held' = indent
  <2>1. Pending /\ ~Pending'
    BY <1>2, <1>7 DEF Pending
  <2> QED
    BY <1>1, <1>7, <2>1 DEF Scopes, Authors, Epochs, Held, One
<1>8. ASSUME t # Main
      PROVE  /\ (Pending' <=> Pending) /\ msg'[Main] = msg[Main] /\ Held' = Held
             /\ m.level # ENTER /\ m.level # LEAVE
  <2>1. pc'[Main] = pc[Main] /\ msg'[Main] = msg[Main]
    BY <1>2, <1>5, <1>8, Facts
  <2>2. (Pending' <=> Pending)
    BY <2>1 DEF Pending
  <2> QED
    BY <1>1, <1>6, <1>8, <2>1, <2>2 DEF Held
<1>9. Held' = Held + One(m.level = ENTER) - One(m.level = LEAVE)
  <2>1. CASE t = Main
    BY <2>1, <1>4, <1>7 DEF One
  <2>2. CASE t # Main
    BY <2>2, <1>8, HeldType DEF One
  <2> QED
    BY <2>1, <2>2
<1>10. Authors'
  <2>1. \A u \in Thread : /\ msg'[u].level \in {ENTER, LEAVE} => u = Main
                          /\ Busy(u)' => msg'[u].by = u
    BY <1>2, <1>4, <1>5 DEF Scopes, Authors, Busy, INFO, ENTER, LEAVE
  <2>2. Pending' => indent' = msg'[Main].indent + (IF msg'[Main].level = ENTER THEN 1 ELSE 0)
    BY <1>1, <1>7, <1>8 DEF Scopes, Authors
  <2> QED
    BY <2>1, <2>2 DEF Authors
<1>11. \A u \in Thread : msg'[u].epoch <= resets
  BY <1>3, <1>4, <1>5 DEF Scopes, Epochs
<1>12. Pending' => msg'[Main].epoch = resets
  BY <1>7, <1>8 DEF Scopes, Epochs
<1> QED
  BY <1>3, <1>6, <1>7, <1>9, <1>10, <1>11, <1>12

\* What a message does to the scope open before it: the counts, and the level
\* that Main has if it was the one to send it.
LEMMA OpenSend ==
  ASSUME TypeOK, Scopes, connected, NEW t \in Thread, Send(t),
         NEW i \in DOMAIN stream, Open(stream, i, Len(stream))
  PROVE  /\ stream' = Append(stream, msg[t]) /\ stream'[i] = stream[i]
         /\ stream'[Len(stream) + 1] = msg[t] /\ Len(stream') = Len(stream) + 1
         /\ Tally(stream', ENTER, i, Len(stream) + 1)
              = Tally(stream, ENTER, i, Len(stream)) + One(msg[t].level = ENTER)
         /\ Tally(stream', LEAVE, i, Len(stream) + 1)
              = Tally(stream, LEAVE, i, Len(stream)) + One(msg[t].level = LEAVE)
         /\ Tally(stream, ENTER, i, Len(stream)) \in Nat
         /\ Tally(stream, LEAVE, i, Len(stream)) \in Nat
         /\ Tally(stream, ENTER, i, Len(stream)) > Tally(stream, LEAVE, i, Len(stream))
         /\ stream[i].indent \in Nat /\ msg[t].indent \in Nat
         /\ stream[i].epoch = resets =>
              Held + Tally(stream, LEAVE, i, Len(stream))
                = stream[i].indent + Tally(stream, ENTER, i, Len(stream))
<1>1. stream' = Append(stream, msg[t]) /\ msg[t] \in Message
  BY SendLevel DEF Send
<1>2. /\ stream \in Seq(Message) /\ Len(stream) \in Nat /\ i \in Int /\ 1 <= i /\ i <= Len(stream)
      /\ stream[i].indent \in Nat
  BY Streamed
<1>3. /\ stream'[i] = stream[i] /\ stream'[Len(stream) + 1] = msg[t]
      /\ Len(stream') = Len(stream) + 1
  BY <1>1, <1>2
<1>4. \A level : Tally(stream', level, i, Len(stream) + 1)
                   = Tally(stream, level, i, Len(stream)) + One(msg[t].level = level)
  <2>1. i >= 1 /\ i <= Len(stream) + 1
    BY <1>2
  <2> QED
    BY <1>1, <1>2, <2>1, TallyNext DEF One
<1>5. /\ Tally(stream, ENTER, i, Len(stream)) \in Nat /\ Tally(stream, LEAVE, i, Len(stream)) \in Nat
      /\ Tally(stream, ENTER, i, Len(stream)) > Tally(stream, LEAVE, i, Len(stream))
  BY <1>2, OpenCounts
<1>6. stream[i].epoch = resets => Held + Tally(stream, LEAVE, i, Len(stream))
                                    = stream[i].indent + Tally(stream, ENTER, i, Len(stream))
  BY DEF Scopes, Level
<1> QED
  BY <1>1, <1>2, <1>3, <1>4, <1>5, <1>6 DEF Message

\* sbuffer_log_send: a message joins the scopes that are open.
LEMMA SendScopes ==
  ASSUME TypeOK, TypeOK', Scopes, NEW t \in Thread, Send(t) PROVE Scopes'
<1> DEFINE m == msg[t]
           n == Len(stream)
<1>1. UNCHANGED <<indent, connected, resets>> /\ resets \in Nat
  BY Types DEF Send
<1>2. /\ m \in Message /\ m.by = t /\ m.epoch <= resets /\ m.epoch \in Nat
      /\ m.level \in {ENTER, LEAVE} => t = Main
      /\ t = Main => m.epoch = resets /\ Held = m.indent + One(m.level = LEAVE)
      /\ Held' = Held + One(m.level = ENTER) - One(m.level = LEAVE)
      /\ Authors'
      /\ \A u \in Thread : msg'[u].epoch <= resets
      /\ Pending' => msg'[Main].epoch = resets
  BY SendLevel DEF Message
<1>3. CASE ~connected
  <2>1. stream' = stream /\ resets' >= resets
    BY <1>1, <1>3 DEF Send
  <2> QED
    BY <1>1, <1>2, <1>3, <2>1, StillScopes
<1>4. CASE connected
  <2>1. /\ stream \in Seq(Message) /\ n \in Nat /\ DOMAIN stream = 1 .. n
        /\ stream' = Append(stream, m)
    BY <1>4, Types DEF Send
  <2>2. /\ Len(stream') = n + 1 /\ DOMAIN stream' = 1 .. n + 1 /\ stream'[n + 1] = m
        /\ \A i \in 1 .. n : stream'[i] = stream[i]
    BY <1>2, <2>1
  <2>3. Held \in Nat
    BY HeldType
  <2>4. Epochs'
    <3>1. ASSUME NEW i \in DOMAIN stream'
          PROVE  /\ stream'[i].epoch <= resets
                 /\ stream'[i].level \in {ENTER, LEAVE} => stream'[i].by = Main
      <4>1. CASE i = n + 1
        BY <4>1, <1>2, <2>2
      <4>2. CASE i # n + 1
        <5>1. i \in DOMAIN stream /\ stream'[i] = stream[i]
          BY <3>1, <4>2, <2>1, <2>2
        <5> QED
          BY <5>1 DEF Scopes, Epochs
      <4> QED
        BY <4>1, <4>2
    <3>2. ASSUME NEW i \in DOMAIN stream', NEW k \in DOMAIN stream',
                 i < k, stream'[i].by = Main, stream'[k].by = Main
          PROVE  stream'[i].epoch <= stream'[k].epoch
      <4>1. CASE k = n + 1
        BY <1>2, <2>2, <3>1, <3>2, <4>1
      <4>2. CASE k # n + 1
        <5>1. /\ i \in DOMAIN stream /\ k \in DOMAIN stream
              /\ stream'[i] = stream[i] /\ stream'[k] = stream[k]
          BY <3>2, <4>2, <2>1, <2>2
        <5> QED
          BY <3>2, <5>1 DEF Scopes, Epochs
      <4> QED
        BY <4>1, <4>2
    <3> QED
      BY <1>1, <1>2, <3>1, <3>2 DEF Epochs
  <2>5. Level'
    <3> SUFFICES ASSUME NEW i \in DOMAIN stream', Open(stream', i, n + 1), stream'[i].epoch = resets
                 PROVE  Held' + Tally(stream', LEAVE, i, n + 1)
                          = stream'[i].indent + Tally(stream', ENTER, i, n + 1)
      BY <1>1, <2>2 DEF Level
    <3>1. CASE i = n + 1
      <4>1. m.level = ENTER /\ Held = m.indent /\ m.indent \in Nat
        BY <1>2, <2>2, <3>1 DEF Open, Message, One, ENTER, LEAVE
      <4>2. \A level : Tally(stream', level, i, n + 1) = One(m.level = level)
        <5>1. i \in Int /\ n = i - 1 /\ i >= 1 /\ i <= n + 1
          BY <2>1, <3>1
        <5>2. \A level : Tally(stream, level, i, n) = 0
          BY <5>1, TallyNone
        <5>3. \A level : Tally(stream', level, i, n + 1)
                           = Tally(stream, level, i, n) + One(m.level = level)
          BY <1>2, <2>1, <5>1, TallyNext DEF One
        <5> QED
          BY <5>2, <5>3 DEF One
      <4> QED
        BY <1>2, <2>2, <3>1, <4>1, <4>2 DEF One, ENTER, LEAVE
    <3>2. CASE i # n + 1
      <4>1. i \in DOMAIN stream
        BY <2>1, <2>2, <3>2
      <4>2. Open(stream, i, n)
        BY <1>2, <2>1, <4>1, OpenNext
      <4>3. /\ stream'[i] = stream[i] /\ stream[i].indent \in Nat
            /\ Tally(stream', ENTER, i, n + 1) = Tally(stream, ENTER, i, n) + One(m.level = ENTER)
            /\ Tally(stream', LEAVE, i, n + 1) = Tally(stream, LEAVE, i, n) + One(m.level = LEAVE)
            /\ Tally(stream, ENTER, i, n) \in Nat /\ Tally(stream, LEAVE, i, n) \in Nat
        BY <1>4, <4>1, <4>2, OpenSend
      <4>4. Held + Tally(stream, LEAVE, i, n) = stream[i].indent + Tally(stream, ENTER, i, n)
        BY <1>4, <3>2, <4>1, <4>2, <4>3, OpenSend
      <4>5. One(m.level = ENTER) \in Nat /\ One(m.level = LEAVE) \in Nat
        BY DEF One
      <4>6. Held' = Held + One(m.level = ENTER) - One(m.level = LEAVE)
        BY <1>2
      <4>7. Held' + Tally(stream', LEAVE, i, n + 1) = Held + One(m.level = ENTER) + Tally(stream, LEAVE, i, n)
        BY <2>3, <4>3, <4>5, <4>6
      <4>8. stream'[i].indent + Tally(stream', ENTER, i, n + 1)
              = stream[i].indent + Tally(stream, ENTER, i, n) + One(m.level = ENTER)
        BY <4>3, <4>5
      <4> QED
        BY <2>3, <4>3, <4>4, <4>5, <4>7, <4>8
    <3> QED
      BY <3>1, <3>2
  <2>6. Inside'
    <3> SUFFICES ASSUME NEW i \in DOMAIN stream', NEW k \in DOMAIN stream',
                        i < k, Open(stream', i, k), stream'[k].by = Main,
                        stream'[i].epoch = stream'[k].epoch
                 PROVE  stream'[k].indent > stream'[i].indent
      BY DEF Inside
    <3>1. i \in DOMAIN stream /\ stream'[i] = stream[i]
      BY <2>1, <2>2
    <3>2. CASE k = n + 1
      <4>1. Open(stream, i, n) /\ Tally(stream', ENTER, i, n + 1) > Tally(stream', LEAVE, i, n + 1)
        BY <1>2, <2>1, <3>1, <3>2, OpenNext
      <4>2. stream[i].epoch = resets /\ t = Main
        BY <1>2, <2>2, <3>1, <3>2
      <4>3. /\ Tally(stream', ENTER, i, n + 1) = Tally(stream, ENTER, i, n) + One(m.level = ENTER)
            /\ Tally(stream', LEAVE, i, n + 1) = Tally(stream, LEAVE, i, n) + One(m.level = LEAVE)
            /\ Tally(stream, ENTER, i, n) \in Nat /\ Tally(stream, LEAVE, i, n) \in Nat
            /\ Tally(stream, ENTER, i, n) > Tally(stream, LEAVE, i, n)
            /\ stream[i].indent \in Nat /\ m.indent \in Nat
            /\ Held + Tally(stream, LEAVE, i, n) = stream[i].indent + Tally(stream, ENTER, i, n)
        BY <1>4, <3>1, <4>1, <4>2, OpenSend
      <4>4. Held = m.indent + One(m.level = LEAVE)
        BY <1>2, <4>2
      <4>5. m.indent > stream[i].indent
        <5>1. One(m.level = ENTER) = 0 \/ (One(m.level = ENTER) = 1 /\ One(m.level = LEAVE) = 0)
          BY DEF One, ENTER, LEAVE
        <5>2. One(m.level = LEAVE) \in Nat
          BY DEF One
        <5> QED
          BY <4>1, <4>3, <4>4, <5>1, <5>2
      <4> QED
        BY <2>2, <3>1, <3>2, <4>5
    <3>3. CASE k # n + 1
      <4>1. k \in DOMAIN stream /\ k \in Int /\ k <= n /\ stream'[k] = stream[k]
        BY <2>1, <2>2, <3>3
      <4>2. Open(stream, i, k)
        BY <1>2, <2>1, <3>1, <4>1, OpenKept
      <4> QED
        BY <3>1, <4>1, <4>2 DEF Scopes, Inside
    <3> QED
      BY <3>2, <3>3
  <2>7. Closed'
    <3> SUFFICES ASSUME NEW i \in DOMAIN stream', NEW k \in DOMAIN stream',
                        i < k, Open(stream', i, k - 1), stream'[k].level = LEAVE,
                        Tally(stream', ENTER, i, k) = Tally(stream', LEAVE, i, k),
                        stream'[i].epoch = stream'[k].epoch
                 PROVE  stream'[k].indent = stream'[i].indent
      BY DEF Closed
    <3>1. i \in DOMAIN stream /\ stream'[i] = stream[i]
      BY <2>1, <2>2
    <3>2. k - 1 \in Int /\ k - 1 <= n
      BY <2>1, <2>2
    <3>3. Open(stream, i, k - 1)
      BY <1>2, <2>1, <3>1, <3>2, OpenKept
    <3>4. CASE k = n + 1
      <4>1. Open(stream, i, n)
        BY <2>1, <3>3, <3>4
      <4>2. stream[i].epoch = resets /\ t = Main /\ m.level = LEAVE /\ m.level # ENTER
        BY <1>2, <2>2, <3>1, <3>4 DEF ENTER, LEAVE
      <4>3. One(m.level = ENTER) = 0 /\ One(m.level = LEAVE) = 1
        BY <4>2 DEF One
      <4>4. /\ Tally(stream', ENTER, i, n + 1) = Tally(stream, ENTER, i, n) + One(m.level = ENTER)
            /\ Tally(stream', LEAVE, i, n + 1) = Tally(stream, LEAVE, i, n) + One(m.level = LEAVE)
            /\ Tally(stream, ENTER, i, n) \in Nat /\ Tally(stream, LEAVE, i, n) \in Nat
            /\ stream[i].indent \in Nat /\ m.indent \in Nat
            /\ Held + Tally(stream, LEAVE, i, n) = stream[i].indent + Tally(stream, ENTER, i, n)
        BY <1>4, <3>1, <4>1, <4>2, OpenSend
      <4>5. Held = m.indent + One(m.level = LEAVE)
        BY <1>2, <4>2
      <4>6. m.indent = stream[i].indent
        BY <3>4, <4>3, <4>4, <4>5
      <4> QED
        BY <2>2, <3>1, <3>4, <4>6
    <3>5. CASE k # n + 1
      <4>1. k \in DOMAIN stream /\ k \in Int /\ k <= n /\ stream'[k] = stream[k]
        BY <2>1, <2>2, <3>5
      <4>2. \A level : Tally(stream', level, i, k) = Tally(stream, level, i, k)
        BY <1>2, <2>1, <3>1, <4>1, TallyKept
      <4> QED
        BY <3>1, <3>3, <4>1, <4>2 DEF Scopes, Closed
    <3> QED
      BY <3>4, <3>5
  <2> QED
    BY <1>2, <2>4, <2>5, <2>6, <2>7 DEF Scopes
<1> QED
  BY <1>3, <1>4

\* Every step keeps the scopes.
LEMMA StepScopes == IInv /\ Scopes /\ [Next]_vars => Scopes'
<1> SUFFICES ASSUME IInv, Scopes, [Next]_vars PROVE Scopes'
  OBVIOUS
<1>1. TypeOK /\ TypeOK'
  BY StepIInv DEF IInv
<1>2. ASSUME NEW t \in Thread, NEW l \in Levels(t), NEW i \in Id \cup {NULL}, Log(t, l, i)
      PROVE  Scopes'
  BY <1>1, <1>2, LogScopes
<1>3. ASSUME NEW t \in Thread, Pack(t) PROVE Scopes'
  <2>1. CASE msg[t].level = CHECKPOINT /\ freed
    <3>1. /\ At(t, "pack") /\ Goto(t, "fault")
          /\ UNCHANGED <<indent, msg, connected, stream, resets>>
      BY <1>3, <2>1 DEF Pack
    <3> QED
      BY <1>1, <3>1, FaultScopes
  <2> QED
    BY <1>1, <1>3, <2>1, PackScopes
<1>4. ASSUME NEW t \in Thread, LoadSerial(t) \/ StoreSerial(t) \/ Send(t) PROVE Scopes'
  BY <1>1, <1>4, SerialScopes, SendScopes
<1>5. CASE Connect
  BY <1>1, <1>5, ConnectScopes
<1>6. CASE \/ \E l \in Threshold : SetThreshold(l)
           \/ \E b \in BOOLEAN : Reset(b)
           \/ Shutdown \/ UNCHANGED vars
  BY <1>1, <1>6, AdministrationScopes
<1> QED
  BY <1>2, <1>3, <1>4, <1>5, <1>6 DEF Next

\* The ends of a scope and what is between them are as they are counted.
LEMMA ScopesNest == TypeOK /\ Scopes => ScopesNested
<1> SUFFICES ASSUME TypeOK, Scopes, NEW i \in DOMAIN stream, NEW j \in DOMAIN stream,
                    Matches(i, j), stream[i].epoch = stream[j].epoch
             PROVE  /\ stream[i].indent = stream[j].indent
                    /\ \A k \in i + 1 .. j - 1 :
                         stream[k].by = Main => stream[k].indent > stream[i].indent
  BY DEF ScopesNested
<1>1. /\ i \in Int /\ j \in Int /\ 1 <= i /\ j <= Len(stream) /\ Len(stream) \in Nat
      /\ DOMAIN stream = 1 .. Len(stream)
  BY Streamed
<1>2. \A level, k : Count(level, i, k) = Tally(stream, level, i, k)
  BY DEF Count, Tally, Tallied
<1>3. /\ i < j /\ stream[i].level = ENTER /\ stream[j].level = LEAVE
      /\ Tally(stream, ENTER, i, j) = Tally(stream, LEAVE, i, j)
      /\ \A k \in i .. j - 1 : Tally(stream, ENTER, i, k) > Tally(stream, LEAVE, i, k)
  BY <1>2 DEF Matches
<1>4. Open(stream, i, j - 1)
  BY <1>3 DEF Open
<1>5. stream[i].indent = stream[j].indent
  BY <1>3, <1>4 DEF Scopes, Closed
<1>6. ASSUME NEW k \in i + 1 .. j - 1, stream[k].by = Main
      PROVE  stream[k].indent > stream[i].indent
  <2>1. k \in DOMAIN stream /\ i < k /\ k < j /\ k \in Int
    BY <1>1
  <2>2. Open(stream, i, k)
    BY <1>1, <1>3, <2>1 DEF Open
  <2>3. stream[i].by = Main /\ stream[j].by = Main
    BY <1>3 DEF Scopes, Epochs
  <2>4. stream[i].epoch <= stream[k].epoch /\ stream[k].epoch <= stream[j].epoch
    BY <1>6, <2>1, <2>3 DEF Scopes, Epochs
  <2>5. stream[i].epoch \in Nat /\ stream[j].epoch \in Nat /\ stream[k].epoch \in Nat
    BY <2>1, Streamed
  <2>6. stream[i].epoch = stream[k].epoch
    BY <2>4, <2>5
  <2> QED
    BY <1>6, <2>1, <2>2, <2>6 DEF Scopes, Inside
<1> QED
  BY <1>5, <1>6

\* The two ends of a scope are indented alike and what its thread logs in it
\* deeper, with any number of other threads logging, unless log_reset came
\* between them.
THEOREM ScopesStayNested == Spec => []ScopesNested
<1>1. Init => Scopes
  BY InitScopes
<1>2. IInv /\ Scopes /\ [Next]_vars => Scopes'
  BY StepScopes
<1>3. IInv => TypeOK
  BY DEF IInv
<1> QED
  BY <1>1, <1>2, <1>3, Invariance, ScopesNest, PTL DEF Spec
=============================================================================
