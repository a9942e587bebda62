----------------------------- MODULE BackendList -----------------------------
(***************************************************************************)
(* The logging backends: the doubly-linked list of core/list.h as used by  *)
(* core/log.c, and the stdio backends of core/logstdio.c.                  *)
(*                                                                         *)
(* One thread of control.  A call is a step of its own except for the two  *)
(* loops over the list: log_shutdown, and the delivery of a message, which *)
(* stays "in" a backend's callback until it returns.  CallbackCalls says   *)
(* what callbacks themselves call.  A use of freed memory or of a closed   *)
(* stream ends the run in pc = "fault".                                    *)
(***************************************************************************)
EXTENDS Integers, FiniteSets, Sequences

CONSTANTS
  Node,          \* heap addresses of backend_list_t entries
  File,          \* FILE pointers fopen may return
  Std,           \* stdout and stderr, which are never closed
  User,          \* user data of the backends other than stdio
  Custom,        \* callbacks other than log_stdio_callback
  CallbackCalls, \* subset of {"register", "removeOther", "removeSelf"}
  NULL

ASSUME BackendAssumption ==
  /\ IsFiniteSet(Node)
  /\ NULL \notin Node \cup File \cup Std \cup User
  /\ File \cap (Std \cup User) = {} /\ "stdio" \notin Custom
  /\ CallbackCalls \subseteq {"register", "removeOther", "removeSelf"}

VARIABLES
  heap,   \* the entry at each address, stale where it was freed
  alloc,  \* the addresses in use
  head,   \* log_backends
  open,   \* the open files
  pc,     \* "idle", "callback" (in the callback of cur), "shutdown" or "fault"
  cur,    \* the entry a loop stands at: the callback's, or shutdown's next
  orphan  \* history: the callback under way has removed its own backend

vars == <<heap, alloc, head, open, pc, cur, orphan>>

Backend == [callback : {"stdio"}, user : File \cup Std \cup {NULL}]
             \cup [callback : Custom, user : User \cup {NULL}]
Pointer == Node \cup {NULL}
Blank   == [callback |-> NULL, user |-> NULL, prev |-> NULL, next |-> NULL]

(***************************************************************************)
(* list.h.  LIST_ITERATE from n visits n and what the next pointers lead   *)
(* to.                                                                     *)
(***************************************************************************)
Follow(p) == IF p = NULL THEN NULL ELSE heap[p].next
Hop(n, k) == LET at[i \in 0 .. k] == IF i = 0 THEN n ELSE Follow(at[i - 1]) IN at[k]
ReachFrom(n) == {Hop(n, k) : k \in 0 .. Cardinality(Node)} \ {NULL}

Linked == ReachFrom(head)
\* LIST_LAST
ListLast == IF head = NULL THEN NULL
            ELSE CHOOSE n \in Linked : heap[n].next = NULL
\* LIST_MATCH among the nodes of S: the first, from which the others are reached.
ListMatch(S) == CHOOSE n \in S : S \subseteq ReachFrom(n)

\* Mutant of ListAppend: the new entry is put first.
ListPrepend(n, b) ==
  /\ heap' = [m \in Node |->
       IF m = n THEN [callback |-> b.callback, user |-> b.user, prev |-> NULL, next |-> head]
       ELSE IF m = head THEN [heap[m] EXCEPT !.prev = n] ELSE heap[m]]
  /\ head' = n

\* LIST_APPEND of the fresh node n.
ListAppend(n, b) ==
  LET last  == ListLast
      entry == [callback |-> b.callback, user |-> b.user, prev |-> last, next |-> NULL]
  IN /\ heap' = [m \in Node |-> IF m = n THEN entry
                                ELSE IF m = last THEN [heap[m] EXCEPT !.next = n]
                                ELSE heap[m]]
     /\ head' = IF last = NULL THEN n ELSE head

\* Mutant of ListDelete: the next node's prev is not updated.
ListDeleteHalf(n) ==
  LET p == heap[n].prev
      q == heap[n].next
  IN /\ heap' = [m \in Node |-> IF m = p THEN [heap[m] EXCEPT !.next = q] ELSE heap[m]]
     /\ head' = IF p = NULL THEN q ELSE head

\* LIST_DELETE
ListDelete(n) ==
  LET p == heap[n].prev
      q == heap[n].next
  IN /\ heap' = [m \in Node |-> IF m = q THEN [heap[m] EXCEPT !.prev = p]
                                ELSE IF m = p THEN [heap[m] EXCEPT !.next = q]
                                ELSE heap[m]]
     /\ head' = IF p = NULL THEN q ELSE head

(***************************************************************************)
(* Registration                                                            *)
(***************************************************************************)
Init == /\ heap = [n \in Node |-> Blank] /\ alloc = {} /\ head = NULL
        /\ open = {} /\ pc = "idle" /\ cur = NULL /\ orphan = FALSE

\* The caller is the program, or a callback that makes such calls.
MayCall(what) == pc = "idle" \/ (pc = "callback" /\ what \in CallbackCalls)

\* log_register_backend: malloc returns any free address.
RegisterBackend(b) ==
  /\ MayCall("register")
  /\ \E n \in Node \ alloc : ListAppend(n, b) /\ alloc' = alloc \cup {n}
  /\ UNCHANGED <<pc, cur, orphan>>

\* log_stdio: a standard stream, a file that was opened, or the NULL that
\* fopen returned.  The stream is registered without a look at it.
LogStdio(stream) ==
  /\ stream \in File => stream \notin open
  /\ RegisterBackend([callback |-> "stdio", user |-> stream])
  /\ open' = open \cup ({stream} \cap File)

RegisterCustom(b) == RegisterBackend(b) /\ UNCHANGED open

\* The entry log_unregister_backend picks: the first exact match, else the
\* first with the callback.
Exact(b) == {n \in Linked : heap[n].callback = b.callback /\ heap[n].user = b.user}
Same(b)  == {n \in Linked : heap[n].callback = b.callback}
Victim(b) == IF Exact(b) # {} THEN ListMatch(Exact(b)) ELSE ListMatch(Same(b))

\* Mutant of RemoveEntry: the backend is not notified.
RemoveUnnotified(n) == ListDelete(n) /\ alloc' = alloc \ {n} /\ UNCHANGED open

\* Notify (log_stdio_notify closes a file, and only that), unlink, free.
RemoveEntry(n) == /\ open' = IF heap[n].callback = "stdio" THEN open \ {heap[n].user} ELSE open
             /\ ListDelete(n)
             /\ alloc' = alloc \ {n}

\* log_unregister_backend.  log_stdio_callback is private to logstdio.c.
Unregister(b) ==
  /\ b.callback \in Custom /\ Same(b) # {}
  /\ MayCall(IF Victim(b) = cur THEN "removeSelf" ELSE "removeOther")
  /\ RemoveEntry(Victim(b))
  /\ orphan' = (orphan \/ (pc = "callback" /\ Victim(b) = cur))
  /\ UNCHANGED <<pc, cur>>

\* log_shutdown: next is read before the entry at hand is unregistered.
BeginShutdown == /\ pc = "idle"
                 /\ pc' = "shutdown" /\ cur' = head
                 /\ UNCHANGED <<heap, alloc, head, open, orphan>>

Fault == pc' = "fault" /\ UNCHANGED <<heap, alloc, head, open, cur, orphan>>

\* Mutant of ShutdownEntry: the loop ends after the first entry.
ShutdownFirst == /\ pc = "shutdown" /\ cur # NULL
                 /\ RemoveEntry(cur)
                 /\ cur' = NULL /\ UNCHANGED <<pc, orphan>>

\* Mutant of ShutdownEntry: next is read after the entry is freed.
ShutdownEntryLate == /\ pc = "shutdown" /\ cur # NULL
                     /\ RemoveEntry(cur)
                     /\ pc' = "fault" /\ UNCHANGED <<cur, orphan>>

ShutdownEntry ==
  /\ pc = "shutdown" /\ cur # NULL
  /\ IF cur \in alloc
     THEN /\ cur' = heap[cur].next
          /\ RemoveEntry(Victim([callback |-> heap[cur].callback, user |-> heap[cur].user]))
          /\ UNCHANGED <<pc, orphan>>
     ELSE Fault

EndShutdown == /\ pc = "shutdown" /\ cur = NULL
               /\ pc' = "idle"
               /\ UNCHANGED <<heap, alloc, head, open, cur, orphan>>

(***************************************************************************)
(* Delivery: sbuffer_log_send.  log_stdio_callback writes to its stream    *)
(* unless that is NULL.                                                    *)
(***************************************************************************)
Enter(n) ==
  IF n \in alloc /\ (heap[n].user \in File => heap[n].user \in open)
  THEN /\ pc' = "callback" /\ cur' = n /\ orphan' = FALSE
       /\ UNCHANGED <<heap, alloc, head, open>>
  ELSE Fault

Send == pc = "idle" /\ head # NULL /\ Enter(head)

\* The callback returns, and LIST_ITERATE reads the entry's next pointer: freed
\* memory if the callback removed its own backend, or, if it then registered one
\* at the same address, the pointer of that entry.
Return ==
  /\ pc = "callback"
  /\ IF cur \notin alloc THEN Fault
     ELSE IF heap[cur].next # NULL THEN Enter(heap[cur].next)
     ELSE /\ pc' = "idle" /\ cur' = NULL /\ orphan' = FALSE
          /\ UNCHANGED <<heap, alloc, head, open>>

Next == \/ \E s \in File \cup Std \cup {NULL} : LogStdio(s)
        \/ \E b \in Backend : b.callback \in Custom /\ (RegisterCustom(b) \/ Unregister(b))
        \/ BeginShutdown \/ ShutdownEntry \/ EndShutdown
        \/ Send \/ Return

Spec == Init /\ [][Next]_vars

\* A call that has begun goes on: the thread that made it keeps running.
FairSpec == Spec /\ WF_vars(ShutdownEntry \/ EndShutdown)

(***************************************************************************)
(* Properties                                                              *)
(***************************************************************************)
\* Types.
TypeOK ==
  /\ heap \in [Node -> [callback : Custom \cup {"stdio", NULL},
                        user : File \cup Std \cup User \cup {NULL},
                        prev : Pointer, next : Pointer]]
  /\ alloc \subseteq Node /\ head \in Pointer /\ cur \in Pointer /\ open \subseteq File
  /\ pc \in {"idle", "callback", "shutdown", "fault"} /\ orphan \in BOOLEAN

\* The entries in the list are the ones in use, and prev undoes next.
DoublyLinked ==
  /\ Linked = alloc
  /\ head # NULL => heap[head].prev = NULL
  /\ \A n \in alloc :
       /\ heap[n].next # NULL => heap[heap[n].next].prev = n
       /\ heap[n].prev # NULL => heap[n].prev \in alloc /\ heap[heap[n].prev].next = n

WellFormed == TypeOK /\ DoublyLinked

\* Every open file belongs to exactly one stdio backend, every stdio backend's
\* file is open: none is leaked, closed twice or written to after its fclose.
FilesOwned ==
  /\ open = {heap[n].user : n \in {m \in alloc : heap[m].callback = "stdio"}} \cap File
  /\ \A m, n \in alloc : heap[m].user \in File /\ heap[m].user = heap[n].user => m = n

\* A freed entry or a closed stream is used for one cause only: a callback has
\* removed its own backend, after which log.c:220 reads the next pointer from the
\* entry it freed.  The head comment allows that removal: "Keeping the list of
\* backends 'dynamic' also allows to add / remove logging backends at any time"
\* (log.c:16-17).  Every other change at any time is safe, in callbacks too.
UseExplained == pc = "fault" => orphan

\* A shutdown comes to its end, and leaves no backend.
ShutdownEmpties == (pc = "shutdown") ~> (head = NULL)

\* The list implements the ordered collection of backends: the pointers of
\* list.h, address reuse and callbacks that change the list do not make a
\* message skip a backend, visit one twice or visit them out of order.  That
\* ends where a callback has removed its own backend, a removal the collection
\* itself allows: from there on to the end of its message nothing is promised.
Chain == [i \in 1 .. Cardinality(Linked) |-> Hop(head, i - 1)]
Registered == [i \in DOMAIN Chain |-> [callback |-> heap[Chain[i]].callback,
                                       user |-> heap[Chain[i]].user]]
IndexOf(p) == IF \E i \in DOMAIN Chain : Chain[i] = p
              THEN CHOOSE i \in DOMAIN Chain : Chain[i] = p ELSE 0
\* The backend the message is at, or the one before it if that is gone.
At == IF pc = "callback" THEN IndexOf(IF orphan THEN heap[cur].prev ELSE cur) ELSE 0
Registry == INSTANCE BackendRegistry WITH registered <- Registered, position <- At
RefinesRegistry == Registry!Init /\ [][Registry!Next \/ orphan]_(Registry!vars)
=============================================================================
