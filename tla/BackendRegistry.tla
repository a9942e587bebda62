--------------------------- MODULE BackendRegistry ---------------------------
(***************************************************************************)
(* What the log system promises about its backends (core/log.c): they form *)
(* an ordered collection; a new one is the last; removing one takes the    *)
(* first exact match, else the first with the same callback; a message     *)
(* visits them in order of registration.                                   *)
(***************************************************************************)
EXTENDS Naturals, Sequences, SequencesExt

CONSTANT Backend   \* records with fields callback and user

VARIABLES registered,  \* the backends, in order of registration
          position     \* how many of them a message under way has visited

vars == <<registered, position>>

Init == registered = <<>> /\ position = 0

Register(b) == /\ registered' = Append(registered, b)
               /\ UNCHANGED position

\* The indices of q that satisfy a test, and the least of them.
First(S) == CHOOSE i \in S : \A j \in S : i <= j
Exact(b) == {i \in DOMAIN registered : registered[i] = b}
Same(b)  == {i \in DOMAIN registered : registered[i].callback = b.callback}
Victim(b) == IF Exact(b) # {} THEN First(Exact(b)) ELSE First(Same(b))

\* "At any time", the backend a message is at included: the message goes on
\* behind those it has visited.
Unregister(b) ==
  /\ Same(b) # {}
  /\ registered' = RemoveAt(registered, Victim(b))
  /\ position' = IF Victim(b) <= position THEN position - 1 ELSE position

\* A message goes from the first backend to the last and is done.
Visit == /\ position < Len(registered)
         /\ position' = position + 1
         /\ UNCHANGED registered

Finish == /\ position > 0 /\ position = Len(registered)
          /\ position' = 0
          /\ UNCHANGED registered

Next == (\E b \in Backend : Register(b) \/ Unregister(b)) \/ Visit \/ Finish

Spec == Init /\ [][Next]_vars
=============================================================================
