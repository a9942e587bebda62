---------------------------- MODULE BoundedQueue ----------------------------
(***************************************************************************)
(* What a ring buffer promises its caller (the comments of                 *)
(* core/ringbuffer.c and core/ringbuffer.h): a first-in first-out queue of *)
(* pointers that never holds more than limit of them, and that makes room  *)
(* for a new one by dropping the oldest.  The limit is the length of the   *)
(* array; to resize the buffer is to assign a new one.  How the pointers   *)
(* are laid out in memory, and who frees them, is left to RingBuffer.      *)
(***************************************************************************)
EXTENDS Naturals, Sequences

CONSTANT Element

VARIABLES queue,   \* oldest element first
          limit    \* the number of elements the queue may hold

vars == <<queue, limit>>

\* The newest n elements of q (all of q when it has no more than n).
Newest(q, n) == IF Len(q) <= n THEN q ELSE SubSeq(q, Len(q) - n + 1, Len(q))

Init == queue = <<>> /\ limit = 0

\* A (new) buffer is set up, for whatever capacity could be allocated.
Setup == /\ queue = <<>>
         /\ queue' = <<>>
         /\ limit' \in Nat

Push(e) == /\ queue' = Newest(Append(queue, e), limit)
           /\ UNCHANGED limit

\* The oldest element goes.
Pop == /\ queue # <<>>
       /\ queue' = Tail(queue)
       /\ UNCHANGED limit

Clear == queue' = <<>> /\ UNCHANGED limit

\* A new limit is assigned, and the newest elements that it allows stay.
Resize == /\ limit' \in Nat
          /\ queue' = Newest(queue, limit')

\* The buffer is torn down: no element stays, none fits.
Close == queue' = <<>> /\ limit' = 0

Next == \/ Setup \/ Pop \/ Clear \/ Resize \/ Close
        \/ \E e \in Element : Push(e)

Spec == Init /\ [][Next]_vars
=============================================================================
