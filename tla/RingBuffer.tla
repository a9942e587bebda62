----------------------------- MODULE RingBuffer -----------------------------
(***************************************************************************)
(* core/ringbuffer.c: a ring of pointers over a heap-allocated array.      *)
(*                                                                         *)
(* The buffer owns the elements pushed to it: each of them is handed to    *)
(* the "free" function once (or, without one, simply dropped), when it is  *)
(* popped or overwritten.  live is the set of elements that were pushed    *)
(* and not yet released; a caller pushes only memory that is not in the    *)
(* buffer already.  An access outside the array is undefined behaviour:    *)
(* the run ends in phase "fault", with the state it had before the call.   *)
(***************************************************************************)
EXTENDS Integers, Sequences, FiniteSets

CONSTANTS
  Element,      \* pointers to heap memory
  NULL,         \* the null pointer
  Capacities,   \* the capacities ringbuffer_init is called with
  NewCapacities \* the capacities ringbuffer_resize is called with

ASSUME RingAssumption == /\ NULL \notin Element
                         /\ Capacities \subseteq Nat
                         /\ NewCapacities \subseteq Nat

VARIABLES
  phase,    \* "raw" before init and after done, "ready", or "fault"
  entries,  \* [0 .. size-1 -> Element \cup {NULL}]; size 0 is a NULL pointer
  position, \* index of the tail, the oldest element
  count,
  capacity,
  live,     \* history: elements pushed and not yet released
  stray     \* history: those of them pushed while capacity was 0

vars == <<phase, entries, position, count, capacity, live, stray>>

(***************************************************************************)
(* Indices                                                                 *)
(***************************************************************************)
Size == Cardinality(DOMAIN entries)
\* Every array calloc may return.
Arrays == UNION {[0 .. n - 1 -> Element \cup {NULL}] :
                   n \in Capacities \cup NewCapacities \cup {0}}

Cleared(n) == [i \in 0 .. n - 1 |-> NULL]

\* Mutant of Wrap: an index equal to the capacity is not wrapped.
WrapLate(i) == IF i > capacity THEN i - capacity ELSE i
\* The "wrap" every access applies to its index: once, and not a modulo.
Wrap(i) == IF i >= capacity THEN i - capacity ELSE i
\* Mutant of IncTail: the tail may stand just behind the array.
IncTailLate(p) == IF p + 1 > capacity THEN 0 ELSE p + 1
\* ringbuffer_inc_tail
IncTail(p) == IF p + 1 >= capacity THEN 0 ELSE p + 1
\* The tail after n increments, 0 <= n <= capacity.
Advance(n) == IF n = 0 THEN position
              ELSE IF position + n >= capacity THEN position + n - capacity
              ELSE position + n

Slot(i) == Wrap(position + i)
Occupied(n) == {Slot(i) : i \in 0 .. n - 1}
\* ringbuffer_element: NULL for any index that is not below the count.
RbElement(i) == IF i < count THEN entries[Slot(i)] ELSE NULL

(***************************************************************************)
(* Operations                                                              *)
(***************************************************************************)
Init == /\ phase = "raw" /\ entries = Cleared(0) /\ live = {} /\ stray = {}
        /\ position = 0 /\ count = 0 /\ capacity = 0

\* ok: calloc found the memory.  If it did not, the buffer has capacity 0.
RbInit(n, ok) ==
  LET got == IF ok THEN n ELSE 0
  IN /\ phase = "raw"
     /\ phase' = "ready"
     /\ entries' = Cleared(got) /\ capacity' = got
     /\ position' = 0 /\ count' = 0
     /\ UNCHANGED <<live, stray>>

Fault == /\ phase' = "fault"
         /\ UNCHANGED <<entries, position, count, capacity, live, stray>>

\* Mutant of Store: the overwritten element is not released.
StoreOver(i, e) == /\ entries' = [entries EXCEPT ![i] = e]
                   /\ live' = live \cup {e}
                   /\ UNCHANGED <<phase, capacity, stray>>
\* ringbuffer_set: release what the slot holds, then store the element.
Store(i, e) ==
  /\ entries' = [entries EXCEPT ![i] = e]
  /\ live' = (live \ {entries[i]}) \cup {e}
  /\ stray' = (stray \ {entries[i]}) \cup (IF capacity = 0 THEN {e} ELSE {})
  /\ UNCHANGED <<phase, capacity>>

\* ringbuffer_push, and ringbuffer_push_copy when malloc succeeds (a NULL
\* element, an empty copy and a failed malloc leave everything unchanged).
PushRoom(e) ==
  /\ phase = "ready" /\ e \notin live /\ count < capacity
  /\ IF Slot(count) \in DOMAIN entries
     THEN /\ Store(Slot(count), e)
          /\ count' = count + 1
          /\ UNCHANGED position
     ELSE Fault

\* Mutant of PushFull: the tail stays where it is.
PushFullStays(e) == /\ phase = "ready" /\ e \notin live /\ count >= capacity
                    /\ IF Slot(0) \in DOMAIN entries
                       THEN Store(Slot(0), e) /\ UNCHANGED <<position, count>>
                       ELSE Fault

PushFull(e) ==
  /\ phase = "ready" /\ e \notin live /\ count >= capacity
  /\ IF Slot(0) \in DOMAIN entries
     THEN /\ Store(Slot(0), e)
          /\ position' = IncTail(position)
          /\ UNCHANGED count
     ELSE Fault

\* n pops in a row: the oldest n elements are released, their slots cleared.
Release(n) ==
  /\ entries' = [i \in DOMAIN entries |-> IF i \in Occupied(n) THEN NULL ELSE entries[i]]
  /\ live' = live \ {entries[i] : i \in Occupied(n)}
  /\ position' = Advance(n)
  /\ count' = count - n

Pop == /\ phase = "ready" /\ count > 0
       /\ Release(1)
       /\ UNCHANGED <<phase, capacity, stray>>

Clear == /\ phase = "ready" /\ count > 0
         /\ Release(count)
         /\ UNCHANGED <<phase, capacity, stray>>

Done == /\ phase = "ready"
        /\ live' = live \ {entries[i] : i \in Occupied(count)}
        /\ position' = Advance(count)
        /\ count' = 0 /\ capacity' = 0 /\ entries' = Cleared(0)
        /\ phase' = "raw"
        /\ UNCHANGED stray

\* A new array with the newest elements at its start.  The capacity field is
\* not assigned.  (n = 0 and a failed calloc leave everything unchanged.)
Resize(n) ==
  LET kept    == IF count > n THEN n ELSE count
      dropped == count - kept
  IN /\ phase = "ready" /\ n > 0
     /\ entries' = [i \in 0 .. n - 1 |->
                      IF i < kept THEN RbElement(dropped + i) ELSE NULL]
     /\ live' = live \ {entries[i] : i \in Occupied(dropped)}
     /\ position' = 0 /\ count' = kept
     /\ UNCHANGED <<phase, capacity, stray>>

Next == \/ \E n \in Capacities, ok \in BOOLEAN : RbInit(n, ok)
        \/ \E e \in Element : PushRoom(e) \/ PushFull(e)
        \/ Pop \/ Clear \/ Done
        \/ \E n \in NewCapacities : Resize(n)

Spec == Init /\ [][Next]_vars

(***************************************************************************)
(* Properties                                                              *)
(***************************************************************************)
\* The fields of the structure keep their types, whatever is called.
TypeOK ==
  /\ phase \in {"raw", "ready", "fault"}
  /\ entries \in Arrays
  /\ position \in Nat /\ count \in Nat /\ capacity \in Nat
  /\ live \in SUBSET Element /\ stray \in SUBSET live

\* The tail is a valid index unless there is no capacity, no more elements are
\* counted than fit, and every counted element has a slot inside the array --
\* also after a resize that left capacity larger than the array.
CountedInArray ==
  /\ count <= capacity
  /\ capacity > 0 => position < capacity
  /\ Occupied(count) \subseteq DOMAIN entries

\* Nothing is leaked or freed twice: the live elements are in the occupied
\* slots, each one once, and every other slot is NULL, so that a later
\* ringbuffer_free of it releases nothing.  Excepted are elements pushed to a
\* buffer of capacity 0 that a resize gave an array: nobody counts them.
Ownership ==
  /\ live \ stray = {entries[i] : i \in Occupied(count)}
  /\ \A i, j \in Occupied(count) : entries[i] = entries[j] => i = j
  /\ capacity > 0 =>
       \A i \in DOMAIN entries \ Occupied(count) : entries[i] = NULL

\* An out-of-bounds access has one of two causes: there is no array (init got
\* no memory, or no capacity), or a resize left capacity larger than the array.
FaultCause == phase = "fault" => Size = 0 \/ capacity > Size

\* The queue a caller sees.  Its documented limit is the length of the array
\* (ringbuffer.h:17), and resizing assigns a new one (ringbuffer.c:134).
Queue == [i \in 1 .. count |-> RbElement(i - 1)]
Promise == INSTANCE BoundedQueue WITH queue <- Queue, limit <- Size

\* Where the code falls short of it: ringbuffer_resize leaves capacity as it
\* was, so that in an array that has grown a push drops elements for which
\* there is room.
DropsEarly(e) == /\ capacity < Size
                 /\ Queue' = Promise!Newest(Append(Queue, e), capacity)
                 /\ UNCHANGED Size

\* The buffer implements the documented queue, resizing included, but for the
\* pushes that drop too early after it grew; the accesses outside the array
\* after it shrank are in FaultCause.  Code that assigns capacity in
\* ringbuffer_resize satisfies this too, without either exception.
RefinesQueue ==
  Promise!Init /\ [][Promise!Next \/ \E e \in Element : DropsEarly(e)]_(Promise!vars)
=============================================================================
