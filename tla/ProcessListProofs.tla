-------------------------- MODULE ProcessListProofs --------------------------
(***************************************************************************)
(* What ProcessList says of a listing holds for every number of processes, *)
(* programs, names and changes.                                            *)
(***************************************************************************)
EXTENDS ProcessList, TLAPS

Things == Process \cup {NULL}
Looking == {"exe", "open", "scan"}

\* The history has what is there now.
Recorded == \A p \in Pid : proc[p] \in was[p]

\* The loop is at a process of its list, which it has taken out of todo, and an
\* open stat file that can still be read is that of the process there now.
AtListed ==
  /\ pc \in Looking => at \in pids /\ at \notin todo
  /\ pc = "scan" /\ held => proc[at] # NULL

\* A PID is listed because there was a process, and every process that was there
\* all the time is listed once readdir has been at it.
ListedTrue ==
  /\ \A p \in pids : was[p] # {NULL}
  /\ \A p \in Pid : NULL \notin was[p] =>
       CASE pc = "list" -> p \in todo \cup pids
         [] pc \in {"idle", "raised"} -> at = NULL \/ p \in pids
         [] OTHER       -> p \in pids

\* A listed PID has been looked at, is being looked at, or will be.
Covered ==
  /\ pc \in {"next", "exe", "open", "scan"} =>
       \A p \in pids : p \in todo \/ result[p] # NoEntry \/ (pc \in Looking /\ p = at)
  /\ pc = "idle" => \A p \in pids : result[p] # NoEntry

\* The inductive invariant.
IInv == TypeOK /\ Recorded /\ AtListed /\ ListedTrue /\ Covered /\ AnswersExplained

(***************************************************************************)
(* Types                                                                   *)
(***************************************************************************)
\* NULL is neither a process nor what one is called.
LEMMA NullApart ==
  /\ NULL \notin Program /\ NULL \notin Name /\ MaxChanges \in Nat
  /\ \A n \in Name : ScannedName(n) \in Name
<1>1. Spaced \subseteq Name /\ Cut \in [Spaced -> Name \ Spaced]
  BY ProcessAssumption
<1>2. \A n \in Name : ScannedName(n) \in Name
  BY <1>1 DEF ScannedName
<1> QED
  BY <1>2, ProcessAssumption

\* What is known of the variables one by one.
LEMMA Types ==
  TypeOK => /\ proc \in [Pid -> Things] /\ was \in [Pid -> SUBSET Things]
            /\ result \in [Pid -> Answer] /\ changes \in 0 .. MaxChanges /\ held \in BOOLEAN
            /\ pids \subseteq Pid /\ todo \subseteq Pid /\ at \in pids \cup {NULL}
            /\ \A p \in Pid \ pids : result[p] = NoEntry
            /\ pc # "list" => todo \subseteq pids
BY DEF TypeOK, Things

\* The answers the code gives are answers.
LEMMA Answers ==
  /\ NoEntry \in Answer /\ [kind |-> "error", value |-> NULL] \in Answer
  /\ [kind |-> "name", value |-> NULL] \in Answer
  /\ \A e \in Program : [kind |-> "exe", value |-> e] \in Answer
  /\ \A n \in Name : [kind |-> "name", value |-> n] \in Answer
BY DEF Answer, NoEntry

\* None of them is the absence of one.
LEMMA Present ==
  /\ NoEntry.kind = "absent" /\ [kind |-> "error", value |-> NULL] # NoEntry
  /\ [kind |-> "name", value |-> NULL] # NoEntry
  /\ \A e : [kind |-> "exe", value |-> e] # NoEntry
  /\ \A n : [kind |-> "name", value |-> n] # NoEntry
BY DEF NoEntry

\* A process has an executable, or none, and a name.
LEMMA Fields ==
  ASSUME NEW x \in Things, x # NULL
  PROVE  x.exe \in Program \cup {NULL} /\ x.name \in Name
BY DEF Things, Process

\* The system starts with nothing listed.
LEMMA InitIInv == Init => IInv
<1> SUFFICES ASSUME Init PROVE IInv
  OBVIOUS
<1>1. proc \in [Pid -> Things] /\ was = [p \in Pid |-> {proc[p]}]
  BY DEF Init, Things
<1>2. was \in [Pid -> SUBSET Things]
  BY <1>1
<1>3. result \in [Pid -> Answer] /\ result = [p \in Pid |-> NoEntry]
  BY Answers DEF Init
<1>4. /\ pc = "idle" /\ todo = {} /\ at = NULL /\ held = FALSE /\ pids = {}
      /\ changes \in 0 .. MaxChanges
  BY NullApart DEF Init
<1>5. TypeOK
  BY <1>1, <1>2, <1>3, <1>4 DEF TypeOK, Things
<1>6. Recorded /\ AtListed
  BY <1>1, <1>4 DEF Recorded, AtListed, Looking
<1>7. ListedTrue /\ Covered
  BY <1>4 DEF ListedTrue, Covered
<1>8. AnswersExplained
  BY <1>3, Present DEF AnswersExplained, Explained
<1> QED
  BY <1>5, <1>6, <1>7, <1>8 DEF IInv

\* Answering: the loop goes on, and the answer is there.
LEMMA Answering ==
  ASSUME TypeOK, NEW a \in Answer, a # NoEntry, at \in pids, Enter(a)
  PROVE  /\ pc' = "next" /\ result' \in [Pid -> Answer]
         /\ result'[at] = a /\ \A p \in Pid \ {at} : result'[p] = result[p]
<1>1. result \in [Pid -> Answer] /\ at \in Pid
  BY Types
<1> QED
  BY <1>1 DEF Enter

\* In each step of the loop only the PID it is at gets an answer.
LookStep == ReadLink \/ OpenStat \/ ScanStat

\* Such a step leaves the processes alone, and an answer is true.
LEMMA LookUp ==
  ASSUME TypeOK, AtListed, LookStep
  PROVE  /\ pc \in Looking /\ at \in pids /\ UNCHANGED <<proc, changes, was, todo, at, pids>>
         /\ \/ pc' \in {"open", "scan", "fault"} /\ UNCHANGED result
            \/ \E a \in Answer \ {NoEntry} : Enter(a) /\ (Recorded => Explained(at, a))
<1>1. pc \in Looking /\ UNCHANGED <<proc, changes, was, todo, at, pids>>
  BY DEF LookStep, ReadLink, OpenStat, ScanStat, Looking
<1>2. at \in pids /\ at \in Pid /\ proc[at] \in Things
  BY <1>1, Types DEF AtListed
<1>3. Recorded => proc[at] \in was[at]
  BY <1>2 DEF Recorded
<1>4. CASE ReadLink
  <2>1. CASE UNCHANGED result /\ pc' = "open"
    BY <1>1, <1>2, <2>1
  <2>2. CASE proc[at] # NULL /\ ~proc[at].readable /\ Enter([kind |-> "error", value |-> NULL])
    <3>1. Recorded => Explained(at, [kind |-> "error", value |-> NULL])
      BY <1>3, <2>2 DEF Explained
    <3> QED
      BY <1>1, <1>2, <2>2, <3>1, Answers, Present
  <2>3. CASE proc[at] # NULL /\ proc[at].exe # NULL /\ Enter([kind |-> "exe", value |-> proc[at].exe])
    <3>1. proc[at].exe \in Program
      BY <1>2, <2>3, Fields
    <3>2. Recorded => Explained(at, [kind |-> "exe", value |-> proc[at].exe])
      BY <1>3, <2>3 DEF Explained
    <3> QED
      BY <1>1, <1>2, <2>3, <3>1, <3>2, Answers, Present
  <2> QED
    BY <1>4, <2>1, <2>2, <2>3 DEF ReadLink, Unlinked
<1>5. CASE OpenStat
  <2>1. CASE UNCHANGED result /\ pc' = "scan"
    BY <1>1, <1>2, <2>1
  <2>2. CASE proc[at] = NULL /\ Enter([kind |-> "name", value |-> NULL])
    <3>1. Recorded => Explained(at, [kind |-> "name", value |-> NULL])
      BY <1>3, <2>2 DEF Explained
    <3> QED
      BY <1>1, <1>2, <2>2, <3>1, Answers, Present
  <2> QED
    BY <1>5, <2>1, <2>2 DEF OpenStat
<1>6. CASE ScanStat
  <2>1. CASE UNCHANGED result /\ pc' = "fault"
    BY <1>1, <1>2, <2>1
  <2>2. CASE held /\ Enter([kind |-> "name", value |-> ScannedName(proc[at].name)])
    <3> DEFINE n == ScannedName(proc[at].name)
               a == [kind |-> "name", value |-> n]
    <3>1. proc[at] # NULL /\ proc[at].name \in Name
      BY <1>2, <1>6, <2>2, Fields DEF ScanStat, AtListed
    <3>2. n \in Name /\ n # NULL
      BY <3>1, NullApart
    <3>3. n = proc[at].name \/ (proc[at].name \in Spaced /\ n = Cut[proc[at].name])
      BY DEF ScannedName
    <3>4. Recorded => Explained(at, a)
      BY <1>3, <3>1, <3>2, <3>3 DEF Explained
    <3>5. a \in Answer \ {NoEntry} /\ Enter(a)
      BY <2>2, <3>2, Answers, Present
    <3> QED
      BY <1>1, <1>2, <3>4, <3>5
  <2> QED
    BY <1>6, <2>1, <2>2 DEF ScanStat, Vanished
<1> QED
  BY <1>4, <1>5, <1>6 DEF LookStep

(***************************************************************************)
(* Each step keeps the invariant                                           *)
(***************************************************************************)
\* The environment adds to what was; nothing else changes but what is.
LEMMA ChangeStep ==
  ASSUME IInv, NEW p \in Pid, NEW x \in Things, Change(p, x)
  PROVE  IInv'
<1>1. /\ UNCHANGED <<pc, todo, at, pids, result>> /\ changes' \in 0 .. MaxChanges
      /\ held' \in BOOLEAN
  BY NullApart, Types DEF Change, IInv
<1>2. /\ proc \in [Pid -> Things] /\ was \in [Pid -> SUBSET Things]
  BY Types DEF IInv
<1>3. /\ proc' \in [Pid -> Things] /\ was' \in [Pid -> SUBSET Things]
      /\ proc'[p] = x /\ was'[p] = was[p] \cup {x}
      /\ \A q \in Pid \ {p} : proc'[q] = proc[q] /\ was'[q] = was[q]
  BY <1>2 DEF Change
<1>4. TypeOK'
  BY <1>1, <1>3 DEF IInv, TypeOK, Things
<1>5. Recorded'
  BY <1>3 DEF IInv, Recorded
<1>6. AtListed'
  <2>1. held' => held /\ (p = at => x # NULL)
    BY DEF Change
  <2>2. pc \in Looking => at \in Pid
    BY Types DEF IInv, AtListed
  <2> QED
    BY <1>1, <1>3, <2>1, <2>2 DEF IInv, AtListed, Looking
<1>7. \A q \in Pid : was[q] \subseteq was'[q]
  BY <1>3
<1>8. ListedTrue'
  <2>1. \A q \in pids : was'[q] # {NULL}
    BY <1>2, <1>3, Types DEF IInv, ListedTrue, Recorded
  <2> QED
    BY <1>1, <1>7, <2>1 DEF IInv, ListedTrue
<1>9. Covered'
  BY <1>1 DEF IInv, Covered, Looking
<1>10. AnswersExplained'
  <2> SUFFICES ASSUME NEW q \in Pid PROVE Explained(q, result[q])'
    BY DEF AnswersExplained
  <2> DEFINE a == result[q]
  <2>1. Explained(q, a) /\ was[q] \subseteq was'[q] /\ result'[q] = a
    BY <1>1, <1>7 DEF IInv, AnswersExplained
  <2>2. CASE a.kind = "absent"
    BY <2>1, <2>2 DEF Explained
  <2>3. CASE a.kind = "exe"
    BY <2>1, <2>3 DEF Explained
  <2>4. CASE a.kind = "error"
    BY <2>1, <2>4 DEF Explained
  <2>5. CASE a.kind = "name" /\ a.value = NULL
    BY <2>1, <2>5 DEF Explained
  <2>6. CASE a.kind \notin {"absent", "exe", "error"} /\ ~(a.kind = "name" /\ a.value = NULL)
    BY <2>1, <2>6 DEF Explained
  <2> QED
    BY <2>2, <2>3, <2>4, <2>5, <2>6
<1> QED
  BY <1>4, <1>5, <1>6, <1>8, <1>9, <1>10 DEF IInv

\* opendir, failing or not, begins with a new history.
LEMMA OpenStep == ASSUME IInv, Open PROVE IInv'
<1>1. /\ \/ pc' = "list" /\ todo' = Pid
         \/ pc' = "raised" /\ todo' = {}
      /\ pids' = {} /\ at' = NULL
      /\ was' = [p \in Pid |-> {proc[p]}] /\ result' = [p \in Pid |-> NoEntry]
      /\ UNCHANGED <<proc, changes, held>>
  BY DEF Open
<1>2. proc \in [Pid -> Things]
  BY Types DEF IInv
<1>3. was' \in [Pid -> SUBSET Things] /\ result' \in [Pid -> Answer]
  BY <1>1, <1>2, Answers
<1>4. TypeOK'
  BY <1>1, <1>3 DEF IInv, TypeOK, Things
<1>5. Recorded' /\ AtListed'
  BY <1>1 DEF Recorded, AtListed, Looking
<1>6. ListedTrue' /\ Covered'
  BY <1>1 DEF ListedTrue, Covered
<1>7. AnswersExplained'
  BY <1>1, Present DEF AnswersExplained, Explained
<1> QED
  BY <1>4, <1>5, <1>6, <1>7 DEF IInv

\* readdir lists a PID for a process that was there then.
LEMMA ReadDirStep == ASSUME IInv, NEW p \in Pid, ReadDir(p) PROVE IInv'
<1>1. /\ pc = "list" /\ p \in todo /\ todo' = todo \ {p}
      /\ pids' = (IF proc[p] # NULL THEN pids \cup {p} ELSE pids)
      /\ UNCHANGED <<proc, changes, was, pc, at, held, result>>
  BY DEF ReadDir
<1>2. /\ pids \subseteq Pid /\ todo \subseteq Pid /\ at \in pids \cup {NULL}
      /\ \A q \in Pid \ pids : result[q] = NoEntry
      /\ was \in [Pid -> SUBSET Things]
  BY Types DEF IInv
<1>3. TypeOK'
  BY <1>1, <1>2 DEF IInv, TypeOK
<1>4. Recorded' /\ AtListed' /\ AnswersExplained'
  BY <1>1 DEF IInv, Recorded, AtListed, Looking, AnswersExplained, Explained
<1>5. Covered'
  BY <1>1 DEF Covered
<1>6. ListedTrue'
  <2>1. \A q \in pids' : was[q] # {NULL}
    BY <1>1 DEF IInv, ListedTrue, Recorded
  <2>2. \A q \in Pid : NULL \notin was[q] => q \in todo' \cup pids'
    <3> SUFFICES ASSUME NEW q \in Pid, NULL \notin was[q] PROVE q \in todo' \cup pids'
      OBVIOUS
    <3>1. q \in todo \cup pids
      BY <1>1 DEF IInv, ListedTrue
    <3>2. proc[q] # NULL
      BY DEF IInv, Recorded
    <3> QED
      BY <1>1, <3>1, <3>2
  <2> QED
    BY <1>1, <2>1, <2>2 DEF ListedTrue
<1> QED
  BY <1>3, <1>4, <1>5, <1>6 DEF IInv

\* closedir: the loop begins with the list.
LEMMA CloseDirStep == ASSUME IInv, CloseDir PROVE IInv'
<1>1. /\ pc = "list" /\ todo = {} /\ pc' = "next" /\ todo' = pids
      /\ UNCHANGED <<proc, changes, was, at, held, pids, result>>
  BY DEF CloseDir
<1>2. TypeOK'
  BY <1>1 DEF IInv, TypeOK
<1>3. Recorded' /\ AtListed' /\ AnswersExplained'
  BY <1>1 DEF IInv, Recorded, AtListed, Looking, AnswersExplained, Explained
<1>4. ListedTrue' /\ Covered'
  BY <1>1 DEF IInv, ListedTrue, Covered
<1> QED
  BY <1>2, <1>3, <1>4 DEF IInv

\* The loop goes on to a PID, or returns.
LEMMA LoopStep ==
  ASSUME IInv, Return \/ \E p \in Pid : Loop(p)
  PROVE  IInv'
<1>1. CASE Return
  <2>1. /\ pc = "next" /\ todo = {} /\ pc' = "idle"
        /\ UNCHANGED <<proc, changes, was, todo, at, held, pids, result>>
    BY <1>1 DEF Return
  <2>2. TypeOK'
    BY <2>1 DEF IInv, TypeOK
  <2>3. Recorded' /\ AtListed' /\ AnswersExplained'
    BY <2>1 DEF IInv, Recorded, AtListed, Looking, AnswersExplained, Explained
  <2>4. ListedTrue' /\ Covered'
    BY <2>1 DEF IInv, ListedTrue, Covered, Looking
  <2> QED
    BY <2>2, <2>3, <2>4 DEF IInv
<1>2. ASSUME NEW p \in Pid, Loop(p) PROVE IInv'
  <2>1. /\ pc = "next" /\ p \in todo /\ pc' = "exe" /\ at' = p /\ todo' = todo \ {p}
        /\ UNCHANGED <<proc, changes, was, held, pids, result>>
    BY <1>2 DEF Loop
  <2>2. p \in pids
    BY <2>1, Types DEF IInv
  <2>3. TypeOK'
    BY <2>1, <2>2 DEF IInv, TypeOK
  <2>4. Recorded' /\ AtListed' /\ AnswersExplained'
    BY <2>1, <2>2 DEF IInv, Recorded, AtListed, Looking, AnswersExplained, Explained
  <2>5. ListedTrue' /\ Covered'
    BY <2>1 DEF IInv, ListedTrue, Covered, Looking
  <2> QED
    BY <2>3, <2>4, <2>5 DEF IInv
<1> QED
  BY <1>1, <1>2

\* Looking up the PID the loop is at.
LEMMA LookStepIInv == ASSUME IInv, LookStep PROVE IInv'
<1>1. /\ pc \in Looking /\ at \in pids /\ UNCHANGED <<proc, changes, was, todo, at, pids>>
      /\ \/ pc' \in {"open", "scan", "fault"} /\ UNCHANGED result
         \/ \E a \in Answer \ {NoEntry} : Enter(a) /\ (Recorded => Explained(at, a))
  BY LookUp DEF IInv
<1>2. held' \in BOOLEAN
  BY Types DEF IInv, LookStep, ReadLink, OpenStat, ScanStat
<1>3. Recorded'
  BY <1>1 DEF IInv, Recorded
<1>4. AtListed'
  <2>1. pc' = "scan" => proc[at] # NULL
    BY DEF LookStep, ReadLink, OpenStat, ScanStat, Unlinked, Vanished, Enter
  <2> QED
    BY <1>1, <2>1 DEF IInv, AtListed
<1>5. CASE pc' \in {"open", "scan", "fault"} /\ UNCHANGED result
  <2>1. TypeOK'
    BY <1>1, <1>2, <1>5 DEF IInv, TypeOK, Looking
  <2>2. AnswersExplained'
    BY <1>1, <1>5 DEF IInv, AnswersExplained, Explained
  <2>3. ListedTrue'
    BY <1>1, <1>5 DEF IInv, ListedTrue, Looking
  <2>4. Covered'
    BY <1>1, <1>5 DEF IInv, Covered, Looking
  <2> QED
    BY <1>3, <1>4, <2>1, <2>2, <2>3, <2>4 DEF IInv
<1>6. ASSUME NEW a \in Answer \ {NoEntry}, Enter(a), Recorded => Explained(at, a) PROVE IInv'
  <2>1. /\ pc' = "next" /\ result' \in [Pid -> Answer]
        /\ result'[at] = a /\ \A p \in Pid \ {at} : result'[p] = result[p]
    BY <1>1, <1>6, Answering DEF IInv
  <2>2. \A p \in Pid \ pids : result'[p] = NoEntry
    BY <1>1, <2>1, Types DEF IInv
  <2>3. TypeOK'
    BY <1>1, <1>2, <2>1, <2>2 DEF IInv, TypeOK, Looking
  <2>4. AnswersExplained'
    <3> SUFFICES ASSUME NEW p \in Pid PROVE Explained(p, result[p])'
      BY DEF AnswersExplained
    <3>1. CASE p = at
      BY <1>1, <1>6, <2>1, <3>1 DEF IInv, Explained
    <3>2. CASE p # at
      BY <1>1, <2>1, <3>2 DEF IInv, AnswersExplained, Explained
    <3> QED
      BY <3>1, <3>2
  <2>5. ListedTrue'
    BY <1>1, <2>1 DEF IInv, ListedTrue, Looking
  <2>6. Covered'
    BY <1>1, <1>6, <2>1, Types DEF IInv, Covered, Looking
  <2> QED
    BY <1>3, <1>4, <2>3, <2>4, <2>5, <2>6 DEF IInv
<1> QED
  BY <1>1, <1>5, <1>6

(***************************************************************************)
(* Theorems                                                                *)
(***************************************************************************)
\* The invariant is inductive.
LEMMA StepIInv == IInv /\ [Next]_vars => IInv'
<1> SUFFICES ASSUME IInv, [Next]_vars PROVE IInv'
  OBVIOUS
<1>1. ASSUME NEW p \in Pid, NEW x \in Process \cup {NULL}, Change(p, x) PROVE IInv'
  BY <1>1, ChangeStep DEF Things
<1>2. CASE UNCHANGED vars
  <2>1. TypeOK' /\ Recorded' /\ AtListed'
    BY <1>2 DEF IInv, vars, TypeOK, Recorded, AtListed
  <2>2. ListedTrue' /\ Covered' /\ AnswersExplained'
    BY <1>2 DEF IInv, vars, ListedTrue, Covered, AnswersExplained, Explained
  <2> QED
    BY <2>1, <2>2 DEF IInv
<1> QED
  BY <1>1, <1>2, OpenStep, ReadDirStep, CloseDirStep, LoopStep, LookStepIInv DEF Next, LookStep

\* It holds in every run.
LEMMA Invariance == Spec => []IInv
BY InitIInv, StepIInv, PTL DEF Spec

\* The variables keep their types, and only listed PIDs get an answer.
THEOREM TypeCorrect == Spec => []TypeOK
<1>1. IInv => TypeOK
  BY DEF IInv
<1> QED
  BY <1>1, Invariance, PTL

\* What getProcesses says of a PID was true of a process with that PID since the
\* listing began, however many processes come, go and take over PIDs.
THEOREM SaidWasTrue == Spec => []AnswersExplained
<1>1. IInv => AnswersExplained
  BY DEF IInv
<1> QED
  BY <1>1, Invariance, PTL

\* No process that was there all the time is missing, and none is invented.
THEOREM NoneMissing == Spec => []EveryLongLivedListed
<1>1. IInv => EveryLongLivedListed
  <2> SUFFICES ASSUME IInv, pc = "idle", NEW p \in Pid
               PROVE  /\ was[p] = {NULL} => result[p] = NoEntry
                      /\ NULL \notin was[p] /\ at # NULL => result[p] # NoEntry
    BY DEF EveryLongLivedListed
  <2>1. was[p] = {NULL} => p \notin pids
    BY DEF IInv, ListedTrue
  <2>2. NULL \notin was[p] /\ at # NULL => p \in pids
    BY DEF IInv, ListedTrue
  <2> QED
    BY <2>1, <2>2, Types DEF IInv, Covered
<1> QED
  BY <1>1, Invariance, PTL
=============================================================================
