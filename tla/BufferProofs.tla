---------------------------- MODULE BufferProofs ----------------------------
(***************************************************************************)
(* The ring buffer, and the growing buffers.  RingBuffer keeps its types,  *)
(* its bookkeeping and the ownership of its elements for every set of      *)
(* capacities and of elements, and implements BoundedQueue; GrowingBuffer, *)
(* in the last part, keeps its promises for names, buffers and memory of   *)
(* every size.                                                             *)
(***************************************************************************)
EXTENDS RingBuffer, GrowingBuffer, FiniteSetTheorems, SequenceTheorems, TLAPS

\* Before init and after done there is no capacity.
RawEmpty == phase = "raw" => capacity = 0

\* The inductive invariant.
IInv == TypeOK /\ CountedInArray /\ Ownership /\ RawEmpty

(***************************************************************************)
(* Slots                                                                   *)
(***************************************************************************)
\* Distinct offsets below the capacity have distinct slots.
LEMMA SlotInjective ==
  ASSUME TypeOK, position < capacity,
         NEW i \in 0 .. capacity - 1, NEW j \in 0 .. capacity - 1,
         Slot(i) = Slot(j)
  PROVE  i = j
BY DEF TypeOK, Slot, Wrap

\* Every slot of an index below the capacity is below the capacity.
LEMMA SlotRange ==
  ASSUME TypeOK, position < capacity, NEW i \in 0 .. capacity - 1
  PROVE  Slot(i) \in 0 .. capacity - 1
BY DEF TypeOK, Slot, Wrap

\* When n oldest elements are gone, offset i is where offset n + i was.
LEMMA SlotAdvanced ==
  ASSUME TypeOK, position < capacity, capacity' = capacity,
         NEW n \in 0 .. capacity, position' = Advance(n),
         NEW i \in Nat, i + n < capacity
  PROVE  Slot(i)' = Slot(n + i)
BY DEF TypeOK, Slot, Wrap, Advance

\* An array calloc returned is a function on an initial segment.
LEMMA ArrayShape ==
  ASSUME NEW f \in Arrays
  PROVE  \E n \in Nat : f \in [0 .. n - 1 -> Element \cup {NULL}]
BY RingAssumption DEF Arrays

\* A fresh array from calloc holds NULL in every slot and is well-typed.
LEMMA ClearedType ==
  ASSUME NEW n \in Capacities \cup NewCapacities \cup {0}
  PROVE  Cleared(n) \in Arrays /\ DOMAIN Cleared(n) = 0 .. n - 1
BY RingAssumption DEF Cleared, Arrays

\* Replacing values inside an array gives an array of the same size.
LEMMA ArrayUpdate ==
  ASSUME NEW f \in Arrays, NEW g, DOMAIN g = DOMAIN f,
         g = [i \in DOMAIN f |-> g[i]],
         \A i \in DOMAIN f : g[i] \in Element \cup {NULL}
  PROVE  g \in Arrays
BY RingAssumption DEF Arrays

\* A ringbuffer_t nobody has initialised yet satisfies the invariant.
LEMMA InitIInv == Init => IInv
<1> SUFFICES ASSUME Init PROVE IInv
  OBVIOUS
<1> USE DEF Init
<1>1. entries \in Arrays
  BY ClearedType
<1>2. TypeOK
  BY <1>1 DEF TypeOK
<1>3. Occupied(count) = {}
  BY DEF Occupied
<1>4. DOMAIN entries = {}
  BY DEF Cleared
<1> QED
  BY <1>2, <1>3, <1>4 DEF IInv, CountedInArray, Ownership, RawEmpty

\* ringbuffer_init establishes the invariant, also when calloc fails.
LEMMA RbInitStep ==
  ASSUME IInv, NEW n \in Capacities, NEW ok \in BOOLEAN, RbInit(n, ok)
  PROVE  IInv'
<1> DEFINE got == IF ok THEN n ELSE 0
<1> USE DEF RbInit
<1>1. capacity = 0 /\ count = 0
  BY DEF IInv, RawEmpty, CountedInArray, TypeOK
<1>2. got \in Capacities \cup NewCapacities \cup {0} /\ got \in Nat
  BY RingAssumption
<1>3. entries' \in Arrays /\ DOMAIN entries' = 0 .. got - 1
  BY <1>2, ClearedType
<1>4. TypeOK'
  BY <1>2, <1>3 DEF IInv, TypeOK
<1>5. Occupied(count)' = {} /\ Occupied(count) = {}
  BY <1>1 DEF Occupied
<1>6. CountedInArray'
  BY <1>2, <1>5 DEF CountedInArray
<1>7. Ownership'
  BY <1>2, <1>5 DEF IInv, Ownership, Cleared
<1> QED
  BY <1>4, <1>6, <1>7 DEF IInv, RawEmpty

\* An access outside the array is recorded and changes nothing else.
LEMMA FaultStep == ASSUME IInv, Fault PROVE IInv'
<1>1. Occupied(count)' = Occupied(count)
  BY DEF Fault, Occupied, Slot, Wrap
<1>2. TypeOK' /\ CountedInArray' /\ RawEmpty'
  BY <1>1 DEF Fault, IInv, TypeOK, CountedInArray, RawEmpty
<1>3. Ownership'
  BY <1>1 DEF Fault, IInv, Ownership
<1> QED
  BY <1>2, <1>3 DEF IInv

\* Storing a new element keeps the array and the histories well-typed.
LEMMA StoreType ==
  ASSUME TypeOK, NEW i \in DOMAIN entries, NEW e \in Element, e \notin live, Store(i, e)
  PROVE  /\ entries' \in Arrays /\ DOMAIN entries' = DOMAIN entries
         /\ live' \in SUBSET Element /\ stray' \in SUBSET live'
<1>1. PICK n \in Nat : entries \in [0 .. n - 1 -> Element \cup {NULL}]
  BY ArrayShape DEF TypeOK
<1>2. DOMAIN entries' = DOMAIN entries /\ entries' = [j \in DOMAIN entries |-> entries'[j]]
  BY <1>1 DEF Store
<1>3. \A j \in DOMAIN entries : entries'[j] \in Element \cup {NULL}
  BY <1>1 DEF Store
<1>4. entries' \in Arrays
  BY <1>2, <1>3, ArrayUpdate DEF TypeOK
<1> QED
  BY <1>2, <1>4 DEF TypeOK, Store

\* A push into free space adds one owned element at the head.
LEMMA PushRoomStep ==
  ASSUME IInv, NEW e \in Element, PushRoom(e)
  PROVE  IInv'
<1>1. CASE Slot(count) \notin DOMAIN entries
  BY <1>1, FaultStep DEF PushRoom
<1>2. CASE Slot(count) \in DOMAIN entries
  <2> DEFINE s == Slot(count)
  <2> USE DEF PushRoom
  <2>1. /\ Store(s, e) /\ count' = count + 1 /\ position' = position
        /\ capacity' = capacity /\ phase' = phase
        /\ count < capacity /\ position < capacity /\ phase = "ready"
    BY <1>2 DEF IInv, CountedInArray, Store, TypeOK
  <2>2. TypeOK'
    BY <1>2, <2>1, StoreType DEF IInv, TypeOK
  <2>3. \A i \in Nat : Slot(i)' = Slot(i)
    BY <2>1 DEF Slot, Wrap
  <2>4. Occupied(count)' = Occupied(count) \cup {s}
    BY <2>1, <2>3 DEF Occupied, IInv, TypeOK
  <2>5. s \notin Occupied(count)
    <3> SUFFICES ASSUME NEW i \in 0 .. count - 1, Slot(i) = s PROVE FALSE
      BY DEF Occupied
    <3> QED
      BY <2>1, SlotInjective DEF IInv, TypeOK
  <2>6. entries[s] = NULL
    BY <1>2, <2>1, <2>5 DEF IInv, Ownership, TypeOK
  <2>7. DOMAIN entries' = DOMAIN entries
    BY <1>2, <2>1, StoreType DEF IInv
  <2>8. /\ entries'[s] = e
        /\ \A i \in DOMAIN entries \ {s} : entries'[i] = entries[i]
    BY <1>2, <2>1 DEF Store, IInv, TypeOK, Arrays
  <2>9. live' = live \cup {e} /\ stray' = stray
    BY <2>1, <2>6, RingAssumption DEF Store, IInv, TypeOK
  <2>10. CountedInArray'
    BY <1>2, <2>1, <2>4, <2>7 DEF IInv, CountedInArray, TypeOK
  <2>11. Ownership'
    <3>1. Occupied(count) \subseteq DOMAIN entries
      BY DEF IInv, CountedInArray
    <3>2. \A i \in Occupied(count) : entries[i] \in live
      BY DEF IInv, Ownership
    <3>3. e \notin stray
      BY DEF IInv, TypeOK
    <3>4. {entries'[i] : i \in Occupied(count)'} = {entries[i] : i \in Occupied(count)} \cup {e}
      BY <2>4, <2>5, <2>8, <3>1
    <3>5. live' \ stray' = {entries'[i] : i \in Occupied(count)'}
      BY <2>9, <3>3, <3>4 DEF IInv, Ownership
    <3>6. \A i, j \in Occupied(count)' : entries'[i] = entries'[j] => i = j
      BY <2>4, <2>5, <2>8, <3>1, <3>2 DEF IInv, Ownership
    <3>7. \A i \in DOMAIN entries' \ Occupied(count)' : entries'[i] = NULL
      BY <2>1, <2>4, <2>7, <2>8 DEF IInv, Ownership, TypeOK
    <3> QED
      BY <3>5, <3>6, <3>7 DEF Ownership
  <2> QED
    BY <2>1, <2>2, <2>10, <2>11 DEF IInv, RawEmpty
<1> QED
  BY <1>1, <1>2

\* A push into a full buffer releases the oldest element and takes its slot.
LEMMA PushFullStep ==
  ASSUME IInv, NEW e \in Element, PushFull(e)
  PROVE  IInv'
<1>1. CASE Slot(0) \notin DOMAIN entries
  BY <1>1, FaultStep DEF PushFull
<1>2. CASE Slot(0) \in DOMAIN entries
  <2> DEFINE s == Slot(0)
  <2> USE DEF PushFull
  <2>1. /\ Store(s, e) /\ count' = count /\ position' = IncTail(position)
        /\ capacity' = capacity /\ phase' = phase
        /\ count = capacity /\ phase = "ready"
        /\ capacity > 0 => position < capacity
    BY <1>2 DEF IInv, CountedInArray, Store, TypeOK
  <2>2. position' \in Nat /\ (capacity > 0 => position' < capacity)
    BY <2>1 DEF IncTail, IInv, TypeOK
  <2>3. DOMAIN entries' = DOMAIN entries
    BY <1>2, <2>1, StoreType DEF IInv
  <2>4. TypeOK'
    BY <1>2, <2>1, <2>2, StoreType DEF IInv, TypeOK
  <2>5. Occupied(count)' = Occupied(count) /\ Occupied(count) = 0 .. capacity - 1
    <3>1. CASE capacity = 0
      BY <3>1, <2>1 DEF Occupied
    <3>2. CASE capacity > 0
      <4>1. ASSUME NEW k \in 0 .. capacity - 1
            PROVE  /\ \E i \in 0 .. count - 1 : k = Slot(i)
                   /\ \E i \in 0 .. count - 1 : k = Slot(i)'
        <5>1. \E i \in 0 .. count - 1 : k = Slot(i)
          <6>1. CASE k >= position
            BY <6>1, <2>1, <3>2, k - position \in 0 .. count - 1 DEF Slot, Wrap, IInv, TypeOK
          <6>2. CASE k < position
            BY <6>2, <2>1, <3>2, k - position + capacity \in 0 .. count - 1
            DEF Slot, Wrap, IInv, TypeOK
          <6> QED BY <6>1, <6>2 DEF IInv, TypeOK
        <5>2. \E i \in 0 .. count - 1 : k = Slot(i)'
          <6>1. CASE k >= position'
            BY <6>1, <2>1, <2>2, <3>2, k - position' \in 0 .. count - 1
            DEF Slot, Wrap, IInv, TypeOK
          <6>2. CASE k < position'
            BY <6>2, <2>1, <2>2, <3>2, k - position' + capacity \in 0 .. count - 1
            DEF Slot, Wrap, IInv, TypeOK
          <6> QED BY <6>1, <6>2, <2>2 DEF IInv, TypeOK
        <5> QED BY <5>1, <5>2
      <4>2. ASSUME NEW i \in 0 .. count - 1
            PROVE  Slot(i) \in 0 .. capacity - 1 /\ Slot(i)' \in 0 .. capacity - 1
        BY <2>1, <2>2, <3>2 DEF Slot, Wrap, IInv, TypeOK
      <4> QED
        BY <4>1, <4>2, <2>1 DEF Occupied
    <3> QED
      BY <3>1, <3>2 DEF IInv, TypeOK
  <2>6. /\ entries'[s] = e
        /\ \A i \in DOMAIN entries \ {s} : entries'[i] = entries[i]
    BY <1>2, <2>1 DEF Store, IInv, TypeOK, Arrays
  <2>7. CountedInArray'
    BY <2>1, <2>2, <2>3, <2>5 DEF IInv, CountedInArray
  <2>8. Ownership'
    <3>1. Occupied(count) \subseteq DOMAIN entries
      BY DEF IInv, CountedInArray
    <3>2. CASE capacity = 0
      <4>1. Occupied(count) = {} /\ Occupied(count)' = {}
        BY <2>5, <3>2
      <4>2. live \ stray = {} /\ live' \ stray' = {}
        BY <2>1, <3>2, <4>1 DEF IInv, Ownership, Store, TypeOK
      <4> QED
        BY <2>1, <3>2, <4>1, <4>2 DEF Ownership
    <3>3. CASE capacity > 0
      <4>1. s \in Occupied(count)
        BY <2>1, <2>5, <3>3 DEF Slot, Wrap, IInv, TypeOK
      <4>2. stray' = stray \ {entries[s]} /\ live' = (live \ {entries[s]}) \cup {e}
        BY <2>1, <3>3 DEF Store, IInv, TypeOK
      <4>3. e \notin stray /\ \A i \in Occupied(count) : entries[i] \in live
        BY DEF IInv, TypeOK, Ownership
      <4>4. \A i, j \in Occupied(count) : entries[i] = entries[j] => i = j
        BY DEF IInv, Ownership
      <4>5. {entries'[i] : i \in Occupied(count)'}
              = ({entries[i] : i \in Occupied(count)} \ {entries[s]}) \cup {e}
        BY <2>5, <2>6, <3>1, <4>1, <4>4
      <4>6. live' \ stray' = {entries'[i] : i \in Occupied(count)'}
        BY <4>2, <4>3, <4>5 DEF IInv, Ownership
      <4>7. \A i, j \in Occupied(count)' : entries'[i] = entries'[j] => i = j
        BY <2>5, <2>6, <3>1, <4>3, <4>4
      <4>8. \A i \in DOMAIN entries' \ Occupied(count)' : entries'[i] = NULL
        BY <2>3, <2>5, <2>6, <3>3, <4>1 DEF IInv, Ownership
      <4> QED
        BY <4>6, <4>7, <4>8 DEF Ownership
    <3> QED
      BY <3>2, <3>3 DEF IInv, TypeOK
  <2> QED
    BY <2>1, <2>4, <2>7, <2>8 DEF IInv, RawEmpty
<1> QED
  BY <1>1, <1>2

(***************************************************************************)
(* Releasing the oldest elements                                           *)
(***************************************************************************)
\* The slots of the oldest n elements are some of the occupied ones.
LEMMA OldestOccupied ==
  ASSUME IInv, NEW n \in 0 .. count
  PROVE  Occupied(n) \subseteq Occupied(count) /\ Occupied(n) \subseteq DOMAIN entries
BY DEF IInv, TypeOK, CountedInArray, Occupied

\* What stays alive when they go: the elements of the other occupied slots,
\* and the stray ones.
LEMMA Released ==
  ASSUME IInv, NEW n \in 0 .. count
  PROVE  LET left == live \ {entries[i] : i \in Occupied(n)}
         IN /\ left \ stray = {entries[i] : i \in Occupied(count) \ Occupied(n)}
            /\ stray \subseteq left /\ left \in SUBSET Element
<1> DEFINE left == live \ {entries[i] : i \in Occupied(n)}
<1>1. Occupied(n) \subseteq Occupied(count)
  BY OldestOccupied
<1>2. /\ live \ stray = {entries[i] : i \in Occupied(count)}
      /\ \A i, j \in Occupied(count) : entries[i] = entries[j] => i = j
  BY DEF IInv, Ownership
<1>3. left \ stray = {entries[i] : i \in Occupied(count) \ Occupied(n)}
  BY <1>1, <1>2
<1>4. stray \subseteq left
  BY <1>1, <1>2 DEF IInv, TypeOK
<1> QED
  BY <1>3, <1>4 DEF IInv, TypeOK

\* The tail stays a valid index.
LEMMA AdvanceRange ==
  ASSUME IInv, NEW n \in 0 .. count
  PROVE  Advance(n) \in Nat /\ (capacity > 0 => Advance(n) < capacity)
BY DEF IInv, TypeOK, CountedInArray, Advance

\* Pop and Clear.
LEMMA ReleaseStep ==
  ASSUME IInv, NEW n \in 1 .. count, Release(n),
         UNCHANGED <<phase, capacity, stray>>
  PROVE  IInv'
<1> USE DEF Release
<1>1. capacity > 0 /\ position < capacity /\ n \in 0 .. count /\ n \in 0 .. capacity
  BY DEF IInv, TypeOK, CountedInArray
<1>2. DOMAIN entries' = DOMAIN entries
  OBVIOUS
<1>3. entries' \in Arrays
  <2>1. PICK m \in Nat : entries \in [0 .. m - 1 -> Element \cup {NULL}]
    BY ArrayShape DEF IInv, TypeOK
  <2>2. \A i \in DOMAIN entries : entries'[i] \in Element \cup {NULL}
    BY <2>1
  <2> QED
    BY <1>2, <2>2, ArrayUpdate DEF IInv, TypeOK
<1>4. TypeOK'
  BY <1>1, <1>3, Released, AdvanceRange DEF IInv, TypeOK
<1>5. Occupied(count)' = Occupied(count) \ Occupied(n)
  <2>1. \A i \in 0 .. count' - 1 : Slot(i)' = Slot(n + i)
    BY <1>1, SlotAdvanced DEF IInv, TypeOK, CountedInArray
  <2>2. \A i \in 0 .. n - 1, j \in n .. count - 1 : Slot(i) # Slot(j)
    BY <1>1, SlotInjective DEF IInv, TypeOK, CountedInArray
  <2>3. Occupied(count)' = {Slot(j) : j \in n .. count - 1}
    <3>1. Occupied(count)' \subseteq {Slot(j) : j \in n .. count - 1}
      BY <1>1, <2>1 DEF Occupied, IInv, TypeOK
    <3>2. ASSUME NEW j \in n .. count - 1 PROVE Slot(j) \in Occupied(count)'
      <4>1. j - n \in 0 .. count' - 1 /\ n + (j - n) = j
        BY <1>1 DEF IInv, TypeOK
      <4> QED
        BY <4>1, <2>1 DEF Occupied
    <3> QED
      BY <3>1, <3>2
  <2>4. Occupied(count) = Occupied(n) \cup {Slot(j) : j \in n .. count - 1}
    <3>1. 0 .. count - 1 = (0 .. n - 1) \cup (n .. count - 1)
      BY <1>1 DEF IInv, TypeOK
    <3> QED
      BY <3>1 DEF Occupied
  <2>5. Occupied(n) \cap {Slot(j) : j \in n .. count - 1} = {}
    BY <2>2 DEF Occupied
  <2> QED
    BY <2>3, <2>4, <2>5
<1>6. CountedInArray'
  BY <1>1, <1>2, <1>5, AdvanceRange DEF IInv, TypeOK, CountedInArray
<1>7. Ownership'
  <2>1. Occupied(count) \subseteq DOMAIN entries
    BY DEF IInv, CountedInArray
  <2>2. \A i \in Occupied(count)' : entries'[i] = entries[i]
    BY <1>5, <2>1
  <2>3. \A i \in DOMAIN entries' \ Occupied(count)' : entries'[i] = NULL
    BY <1>1, <1>2, <1>5 DEF IInv, Ownership
  <2>4. live' \ stray' = {entries'[i] : i \in Occupied(count)'}
    BY <1>1, <1>5, <2>2, Released
  <2>5. \A i, j \in Occupied(count)' : entries'[i] = entries'[j] => i = j
    BY <1>5, <2>2 DEF IInv, Ownership
  <2> QED
    BY <2>3, <2>4, <2>5 DEF Ownership
<1> QED
  BY <1>1, <1>4, <1>6, <1>7 DEF IInv, RawEmpty

\* ringbuffer_done releases what is counted and leaves an empty structure.
LEMMA DoneStep == ASSUME IInv, Done PROVE IInv'
<1> USE DEF Done
<1>1. count \in 0 .. count
  BY DEF IInv, TypeOK
<1>2. entries' \in Arrays /\ DOMAIN entries' = {}
  BY ClearedType, 0 .. 0 - 1 = {}
<1>3. TypeOK'
  BY <1>1, <1>2, Released, AdvanceRange DEF IInv, TypeOK
<1>4. Occupied(count)' = {}
  BY DEF Occupied
<1>5. live' \ stray' = {}
  BY <1>1, Released
<1> QED
  BY <1>2, <1>3, <1>4, <1>5 DEF IInv, CountedInArray, Ownership, RawEmpty

\* ringbuffer_resize moves the newest elements that fit to the start of the
\* new array and releases the others, although it leaves capacity as it was.
LEMMA ResizeStep ==
  ASSUME IInv, NEW n \in NewCapacities, Resize(n)
  PROVE  IInv'
<1> DEFINE kept    == IF count > n THEN n ELSE count
           dropped == count - kept
<1>1. /\ kept \in 0 .. count /\ kept <= n /\ dropped \in 0 .. count
      /\ kept + dropped = count /\ n \in Nat /\ n > 0
  BY RingAssumption DEF Resize, IInv, TypeOK
<1>2. /\ phase = "ready" /\ phase' = phase /\ capacity' = capacity /\ stray' = stray
      /\ position' = 0 /\ count' = kept
      /\ live' = live \ {entries[i] : i \in Occupied(dropped)}
      /\ entries' = [i \in 0 .. n - 1 |->
                       IF i < kept THEN RbElement(dropped + i) ELSE NULL]
  BY DEF Resize
<1> HIDE DEF kept, dropped
<1>3. ASSUME NEW i \in 0 .. kept - 1
      PROVE  /\ RbElement(dropped + i) = entries[Slot(dropped + i)]
             /\ Slot(dropped + i) \in Occupied(count)
             /\ Slot(dropped + i) \in DOMAIN entries
             /\ entries[Slot(dropped + i)] \in live
  <2>1. dropped + i \in 0 .. count - 1
    BY <1>1 DEF IInv, TypeOK
  <2> QED
    BY <2>1 DEF RbElement, Occupied, IInv, TypeOK, CountedInArray, Ownership
<1>4. TypeOK'
  <2>1. \A i \in 0 .. n - 1 : entries'[i] \in Element \cup {NULL}
    BY <1>1, <1>2, <1>3 DEF IInv, TypeOK
  <2>2. entries' \in [0 .. n - 1 -> Element \cup {NULL}]
    BY <1>2, <2>1
  <2>3. entries' \in Arrays
    BY <2>2 DEF Arrays
  <2> QED
    BY <1>1, <1>2, <2>3, Released DEF IInv, TypeOK
<1>5. Occupied(count)' = 0 .. kept - 1
  <2>1. \A i \in 0 .. kept - 1 : Slot(i)' = i
    BY <1>1, <1>2 DEF Slot, Wrap, IInv, TypeOK, CountedInArray
  <2> QED
    BY <1>2, <2>1 DEF Occupied
<1>6. CountedInArray'
  BY <1>1, <1>2, <1>5 DEF IInv, TypeOK, CountedInArray
<1>7. Occupied(count) \ Occupied(dropped) = {Slot(dropped + i) : i \in 0 .. kept - 1}
  <2>1. \A i \in 0 .. dropped - 1, j \in 0 .. kept - 1 : Slot(i) # Slot(dropped + j)
    <3> SUFFICES ASSUME NEW i \in 0 .. dropped - 1, NEW j \in 0 .. kept - 1,
                        Slot(i) = Slot(dropped + j)
                 PROVE  FALSE
      OBVIOUS
    <3>1. i \in 0 .. capacity - 1 /\ dropped + j \in 0 .. capacity - 1
          /\ position < capacity /\ i # dropped + j
      BY <1>1 DEF IInv, TypeOK, CountedInArray
    <3> QED
      BY <3>1, SlotInjective DEF IInv
  <2>2. ASSUME NEW k \in 0 .. count - 1, k \notin 0 .. dropped - 1
        PROVE  \E j \in 0 .. kept - 1 : k = dropped + j
    <3>1. k - dropped \in 0 .. kept - 1 /\ k = dropped + (k - dropped)
      BY <1>1, <2>2 DEF IInv, TypeOK
    <3> QED
      BY <3>1
  <2>3. \A j \in 0 .. kept - 1 : dropped + j \in 0 .. count - 1
    BY <1>1 DEF IInv, TypeOK
  <2> QED
    BY <2>1, <2>2, <2>3 DEF Occupied
<1>8. Ownership'
  <2>1. \A i \in 0 .. kept - 1 : entries'[i] = entries[Slot(dropped + i)]
    BY <1>1, <1>2, <1>3
  <2>2. live' \ stray' = {entries[k] : k \in Occupied(count) \ Occupied(dropped)}
    BY <1>1, <1>2, Released
  <2>3. live' \ stray' = {entries'[i] : i \in Occupied(count)'}
    BY <1>5, <1>7, <2>1, <2>2
  <2>4. ASSUME NEW i \in 0 .. kept - 1, NEW j \in 0 .. kept - 1, entries'[i] = entries'[j]
        PROVE  i = j
    <3>1. entries[Slot(dropped + i)] = entries[Slot(dropped + j)]
      BY <2>1, <2>4
    <3>2. Slot(dropped + i) = Slot(dropped + j)
      BY <1>3, <3>1 DEF IInv, Ownership
    <3>3. dropped + i \in 0 .. capacity - 1 /\ dropped + j \in 0 .. capacity - 1
          /\ position < capacity
      BY <1>1 DEF IInv, TypeOK, CountedInArray
    <3>4. dropped + i = dropped + j
      BY <3>2, <3>3, SlotInjective DEF IInv
    <3> QED
      BY <1>1, <3>4
  <2>5. \A i \in DOMAIN entries' \ Occupied(count)' : entries'[i] = NULL
    BY <1>1, <1>2, <1>5
  <2> QED
    BY <1>5, <2>3, <2>4, <2>5 DEF Ownership
<1> QED
  BY <1>2, <1>4, <1>6, <1>8 DEF IInv, RawEmpty

(***************************************************************************)
(* The theorems                                                            *)
(***************************************************************************)
\* Every step of the ring buffer preserves the inductive invariant.
THEOREM Inductive == IInv /\ [Next]_vars => IInv'
<1> SUFFICES ASSUME IInv, [Next]_vars PROVE IInv'
  OBVIOUS
<1>1. ASSUME NEW n \in Capacities, NEW ok \in BOOLEAN, RbInit(n, ok) PROVE IInv'
  BY <1>1, RbInitStep
<1>2. ASSUME NEW e \in Element, PushRoom(e) \/ PushFull(e) PROVE IInv'
  BY <1>2, PushRoomStep, PushFullStep
<1>3. CASE Pop
  BY <1>3, ReleaseStep, 1 \in 1 .. count DEF Pop, IInv, TypeOK
<1>4. CASE Clear
  BY <1>4, ReleaseStep, count \in 1 .. count DEF Clear, IInv, TypeOK
<1>5. CASE Done
  BY <1>5, DoneStep
<1>6. ASSUME NEW n \in NewCapacities, Resize(n) PROVE IInv'
  BY <1>6, ResizeStep
<1>7. CASE UNCHANGED vars
  <2>1. Occupied(count)' = Occupied(count)
    BY <1>7 DEF vars, Occupied, Slot, Wrap
  <2>2. TypeOK' /\ CountedInArray' /\ RawEmpty'
    BY <1>7, <2>1 DEF vars, IInv, TypeOK, CountedInArray, RawEmpty
  <2>3. Ownership'
    BY <1>7, <2>1 DEF vars, IInv, Ownership
  <2> QED
    BY <2>2, <2>3 DEF IInv
<1> QED
  BY <1>1, <1>2, <1>3, <1>4, <1>5, <1>6, <1>7 DEF Next

\* The invariant holds of the ring buffer in every reachable state.
THEOREM Invariance == Spec => []IInv
BY InitIInv, Inductive, PTL DEF Spec

(***************************************************************************)
(* Causes of a fault.  Beside IInv, the argument needs that a buffer in    *)
(* use whose capacity is 0 has its tail at index 0.                        *)
(***************************************************************************)
ZeroTail == phase = "ready" /\ capacity = 0 => position = 0

\* A buffer without capacity keeps its tail at index 0.
LEMMA ZeroTailInductive == IInv /\ ZeroTail /\ [Next]_vars => ZeroTail'
<1> SUFFICES ASSUME IInv, ZeroTail, [Next]_vars PROVE ZeroTail'
  OBVIOUS
<1>1. ASSUME NEW n \in Capacities, NEW ok \in BOOLEAN, RbInit(n, ok) PROVE ZeroTail'
  BY <1>1 DEF RbInit, ZeroTail
<1>2. ASSUME NEW e \in Element, PushRoom(e) PROVE ZeroTail'
  BY <1>2 DEF PushRoom, Store, Fault, ZeroTail, IInv, TypeOK
<1>3. ASSUME NEW e \in Element, PushFull(e) PROVE ZeroTail'
  BY <1>3 DEF PushFull, Store, Fault, ZeroTail, IncTail, IInv, TypeOK
<1>4. CASE Pop
  BY <1>4 DEF Pop, ZeroTail, IInv, TypeOK, CountedInArray
<1>5. CASE Clear
  BY <1>5 DEF Clear, ZeroTail, IInv, TypeOK, CountedInArray
<1>6. CASE Done
  BY <1>6 DEF Done, ZeroTail
<1>7. ASSUME NEW n \in NewCapacities, Resize(n) PROVE ZeroTail'
  BY <1>7 DEF Resize, ZeroTail
<1>8. CASE UNCHANGED vars
  BY <1>8 DEF vars, ZeroTail
<1> QED
  BY <1>1, <1>2, <1>3, <1>4, <1>5, <1>6, <1>7, <1>8 DEF Next

\* With an array at least as large as the capacity, a push finds its slot.
LEMMA PushInArray ==
  ASSUME IInv, ZeroTail, phase = "ready", Size # 0, capacity <= Size
  PROVE  /\ count < capacity => Slot(count) \in DOMAIN entries
         /\ count >= capacity => Slot(0) \in DOMAIN entries
<1>1. PICK n \in Nat : entries \in [0 .. n - 1 -> Element \cup {NULL}]
  BY ArrayShape DEF IInv, TypeOK
<1>2. Size = n
  BY <1>1, FS_Interval, DOMAIN entries = 0 .. n - 1 DEF Size
<1>3. count < capacity => Slot(count) \in 0 .. n - 1
  BY <1>2 DEF Slot, Wrap, IInv, TypeOK, CountedInArray
<1>4. Slot(0) \in 0 .. n - 1
  BY <1>2 DEF Slot, Wrap, ZeroTail, IInv, TypeOK, CountedInArray
<1> QED
  BY <1>1, <1>3, <1>4

\* A step outside the array needs a missing array or one that is too small.
LEMMA FaultCauseInductive == IInv /\ ZeroTail /\ FaultCause /\ [Next]_vars => FaultCause'
<1> SUFFICES ASSUME IInv, ZeroTail, FaultCause, [Next]_vars PROVE FaultCause'
  OBVIOUS
<1>1. ASSUME NEW n \in Capacities, NEW ok \in BOOLEAN, RbInit(n, ok) PROVE FaultCause'
  BY <1>1 DEF RbInit, FaultCause
<1>2. CASE Fault /\ phase = "ready" /\ (Size = 0 \/ ~(capacity <= Size))
  <2>1. Size' = Size /\ capacity' = capacity
    BY <1>2 DEF Fault, Size
  <2>2. Size \in Nat
    <3>1. PICK n \in Nat : entries \in [0 .. n - 1 -> Element \cup {NULL}]
      BY ArrayShape DEF IInv, TypeOK
    <3>2. Size = n
      BY <3>1, FS_Interval, DOMAIN entries = 0 .. n - 1 DEF Size
    <3> QED
      BY <3>2
  <2> QED
    BY <1>2, <2>1, <2>2 DEF FaultCause, IInv, TypeOK
<1>3. ASSUME NEW e \in Element, PushRoom(e) \/ PushFull(e) PROVE FaultCause'
  <2>1. CASE Fault
    BY <1>2, <1>3, <2>1, PushInArray DEF PushRoom, PushFull, Store, Fault
  <2>2. CASE ~Fault
    BY <1>3, <2>2 DEF PushRoom, PushFull, Store, FaultCause
  <2> QED
    BY <2>1, <2>2
<1>4. CASE Pop \/ Clear \/ Done
  BY <1>4 DEF Pop, Clear, Done, FaultCause
<1>5. ASSUME NEW n \in NewCapacities, Resize(n) PROVE FaultCause'
  BY <1>5 DEF Resize, FaultCause
<1>6. CASE UNCHANGED vars
  BY <1>6 DEF vars, FaultCause, Size
<1> QED
  BY <1>1, <1>3, <1>4, <1>5, <1>6 DEF Next

\* ringbuffer.c accesses memory outside the array only when there is no array
\* or when a resize has left the capacity field larger than the array.
THEOREM FaultsExplained == Spec => []FaultCause
<1>1. Init => ZeroTail /\ FaultCause
  BY DEF Init, ZeroTail, FaultCause
<1> QED
  BY <1>1, InitIInv, Inductive, ZeroTailInductive, FaultCauseInductive, PTL DEF Spec

\* The fields of ringbuffer_t keep their types for all capacities.
THEOREM TypeCorrect == Spec => []TypeOK
<1>1. IInv => TypeOK
  BY DEF IInv
<1> QED
  BY <1>1, Invariance, PTL

\* ringbuffer.c never counts an element that has no slot in the array, not
\* even after a resize that left the capacity field too large.
THEOREM CountedStaysInArray == Spec => []CountedInArray
<1>1. IInv => CountedInArray
  BY DEF IInv
<1> QED
  BY <1>1, Invariance, PTL

\* ringbuffer.c releases each element it accounts for exactly once.
THEOREM ElementsOwned == Spec => []Ownership
<1>1. IInv => Ownership
  BY DEF IInv
<1> QED
  BY <1>1, Invariance, PTL

(***************************************************************************)
(* Refinement.  Each operation is a step of BoundedQueue, a push that      *)
(* drops too early because capacity is smaller than the array, or a        *)
(* stutter: the queue is the sequence of the counted elements, wherever    *)
(* the tail stands, and its limit is the length of the array.  Ownership   *)
(* plays no part in it; what is needed of IInv is that every counted       *)
(* element has a slot and that distinct offsets have distinct slots, so    *)
(* that no more elements are counted than the array has slots.             *)
(***************************************************************************)
\* The array of n slots has Size n.
LEMMA SizeOfArray ==
  /\ \A n \in Nat : DOMAIN entries = 0 .. n - 1 => Size = n
  /\ \A n \in Nat : DOMAIN entries' = 0 .. n - 1 => Size' = n
BY FS_Interval DEF Size

\* No more elements are counted than the array has slots.
LEMMA CountWithinSize == IInv => Size \in Nat /\ count <= Size
<1> SUFFICES ASSUME IInv PROVE Size \in Nat /\ count <= Size
  OBVIOUS
<1>1. PICK n \in Nat : entries \in [0 .. n - 1 -> Element \cup {NULL}]
  BY ArrayShape DEF IInv, TypeOK
<1>2. DOMAIN entries = 0 .. n - 1 /\ Size = n
  BY <1>1, SizeOfArray
<1>3. CASE count = 0
  BY <1>2, <1>3
<1>4. CASE count > 0
  <2> DEFINE f == [i \in 0 .. count - 1 |-> Slot(i)]
  <2>1. count \in Nat /\ count <= capacity /\ capacity \in Nat /\ position < capacity
    BY <1>4 DEF IInv, TypeOK, CountedInArray
  <2>2. f \in [0 .. count - 1 -> 0 .. n - 1]
    BY <1>2 DEF IInv, CountedInArray, Occupied
  <2>3. ASSUME NEW i \in 0 .. count - 1, NEW j \in 0 .. count - 1, f[i] = f[j]
        PROVE  i = j
    <3>1. i \in 0 .. capacity - 1 /\ j \in 0 .. capacity - 1
      BY <2>1
    <3> QED
      BY <2>1, <2>3, <3>1, SlotInjective DEF IInv
  <2>4. f \in Injection(0 .. count - 1, 0 .. n - 1)
    BY <2>2, <2>3 DEF Injection, IsInjective
  <2>5. /\ IsFiniteSet(0 .. count - 1) /\ IsFiniteSet(0 .. n - 1)
        /\ Cardinality(0 .. count - 1) = count /\ Cardinality(0 .. n - 1) = n
    BY <2>1, FS_Interval
  <2>6. Cardinality(0 .. count - 1) <= Cardinality(0 .. n - 1)
    BY <2>4, <2>5, FS_Injection
  <2> QED
    BY <1>2, <2>5, <2>6
<1> QED
  BY <1>3, <1>4 DEF IInv, TypeOK

\* The queue is a sequence of count elements, the oldest in the tail's slot.
QueueShaped == /\ Queue \in Seq(Element \cup {NULL})
               /\ Len(Queue) = count
               /\ \A i \in 1 .. count : Queue[i] = entries[Slot(i - 1)]

\* The counted elements are a sequence, for they all have a slot in the array.
LEMMA QueueShape == IInv => QueueShaped
<1> SUFFICES ASSUME IInv PROVE QueueShaped
  OBVIOUS
<1>1. PICK n \in Nat : entries \in [0 .. n - 1 -> Element \cup {NULL}]
  BY ArrayShape DEF IInv, TypeOK
<1>2. \A i \in 1 .. count : /\ i - 1 \in 0 .. count - 1
                            /\ RbElement(i - 1) = entries[Slot(i - 1)]
  BY DEF RbElement, IInv, TypeOK
<1>3. \A i \in 1 .. count : RbElement(i - 1) \in Element \cup {NULL}
  BY <1>1, <1>2 DEF Occupied, IInv, CountedInArray
<1>4. Queue \in [1 .. count -> Element \cup {NULL}] /\ count \in Nat
  BY <1>3 DEF Queue, IInv, TypeOK
<1>5. Queue \in Seq(Element \cup {NULL})
  BY <1>4, SeqDef
<1>6. Len(Queue) = count
  BY <1>4, <1>5, LenProperties
<1> QED
  BY <1>2, <1>5, <1>6 DEF Queue, QueueShaped

\* The newest n elements of a sequence are its last n, or all of them.
LEMMA NewestShape ==
  ASSUME NEW S, NEW q \in Seq(S), NEW n \in Nat,
         NEW kept \in Nat, n < Len(q) => kept = n, Len(q) <= n => kept = Len(q)
  PROVE  /\ Promise!Newest(q, n) \in Seq(S)
         /\ Len(Promise!Newest(q, n)) = kept
         /\ \A i \in 1 .. kept : Promise!Newest(q, n)[i] = q[Len(q) - kept + i]
<1>1. Len(q) \in Nat /\ \A i \in 1 .. Len(q) : q[i] \in S
  BY LenProperties, ElementOfSeq
<1>2. CASE Len(q) <= n
  <2>1. kept = Len(q) /\ Promise!Newest(q, n) = q
    BY <1>1, <1>2 DEF Promise!Newest
  <2>2. \A i \in 1 .. kept : Len(q) - kept + i = i
    BY <1>1, <2>1
  <2> QED
    BY <2>1, <2>2
<1>3. CASE n < Len(q)
  <2> DEFINE m == Len(q) - n + 1
             r == SubSeq(q, m, Len(q))
  <2>1. /\ m \in Int /\ Len(q) \in Int /\ Len(q) - m + 1 = n /\ kept = n
        /\ (IF m <= Len(q) THEN Len(q) - m + 1 ELSE 0) = n
        /\ \A i \in m .. Len(q) : q[i] \in S
    BY <1>1, <1>3
  <2>2. \A i \in 1 .. n : m + i - 1 = Len(q) - n + i
    BY <1>1
  <2>3. Promise!Newest(q, n) = r
    BY <1>1, <1>3 DEF Promise!Newest
  <2> HIDE DEF m
  <2>4. /\ r \in Seq(S)
        /\ Len(r) = IF m <= Len(q) THEN Len(q) - m + 1 ELSE 0
        /\ \A i \in 1 .. Len(q) - m + 1 : r[i] = q[m + i - 1]
    BY <2>1, SubSeqProperties
  <2> QED
    BY <2>1, <2>2, <2>3, <2>4
<1>4. Len(q) <= n \/ n < Len(q)
  BY <1>1
<1> QED
  BY <1>2, <1>3, <1>4

\* An operation that leaves the n newest elements of q, each in the slot its
\* place in the queue asks for, makes the queue Newest(q, n).
LEMMA QueueIsNewest ==
  ASSUME IInv', NEW S, Element \cup {NULL} \subseteq S, NEW q \in Seq(S), NEW n \in Nat,
         NEW kept \in Nat, n < Len(q) => kept = n, Len(q) <= n => kept = Len(q),
         count' = kept,
         \A i \in 1 .. count' : entries'[Slot(i - 1)'] = q[Len(q) - count' + i]
  PROVE  Queue' = Promise!Newest(q, n)
<1>1. /\ Queue' \in Seq(Element \cup {NULL})
      /\ Len(Queue') = kept
      /\ \A i \in 1 .. kept : Queue'[i] = entries'[Slot(i - 1)']
  <2>1. QueueShaped'
    BY QueueShape, PTL
  <2> QED
    BY <2>1 DEF QueueShaped
<1>2. Queue' \in Seq(S)
  BY <1>1, SeqMonotonic
<1>3. /\ Promise!Newest(q, n) \in Seq(S)
      /\ Len(Promise!Newest(q, n)) = kept
      /\ \A i \in 1 .. kept : Promise!Newest(q, n)[i] = q[Len(q) - kept + i]
  BY NewestShape
<1> QED
  BY <1>1, <1>2, <1>3, SeqEqual

\* Nothing the queue depends on changes.
LEMMA QueueStutter ==
  ASSUME UNCHANGED <<entries, position, count, capacity>>
  PROVE  UNCHANGED Promise!vars
BY DEF Promise!vars, Queue, Size, RbElement, Slot, Wrap

\* An empty buffer is an empty queue.
LEMMA QueueEmpty ==
  /\ count = 0 => Queue = <<>>
  /\ count' = 0 => Queue' = <<>>
<1>1. 1 .. 0 = {}
  OBVIOUS
<1> QED
  BY <1>1 DEF Queue

\* ringbuffer_init sets up an empty queue, whatever calloc gave it.
LEMMA RbInitRefines ==
  ASSUME IInv, NEW n \in Capacities, NEW ok \in BOOLEAN, RbInit(n, ok)
  PROVE  Promise!Setup
<1>1. count = 0 /\ count' = 0
  BY DEF RbInit, IInv, TypeOK, CountedInArray, RawEmpty
<1>2. \E got \in Nat : DOMAIN entries' = 0 .. got - 1
  BY RingAssumption DEF RbInit, Cleared
<1> QED
  BY <1>1, <1>2, SizeOfArray, QueueEmpty DEF Promise!Setup

\* A push into free space appends the element: none has to go.
LEMMA PushRoomRefines ==
  ASSUME IInv, IInv', NEW e \in Element, PushRoom(e)
  PROVE  Promise!Push(e) \/ UNCHANGED Promise!vars
<1> DEFINE s == Slot(count)
           q == Append(Queue, e)
<1>1. CASE s \notin DOMAIN entries
  BY <1>1, QueueStutter DEF PushRoom, Fault
<1>2. CASE s \in DOMAIN entries
  <2>1. /\ count \in Nat /\ capacity \in Nat /\ count < capacity /\ position < capacity
        /\ count' = count + 1 /\ position' = position /\ capacity' = capacity
        /\ entries' = [entries EXCEPT ![s] = e]
    BY <1>2 DEF PushRoom, Store, IInv, TypeOK, CountedInArray
  <2>2. /\ q \in Seq(Element \cup {NULL}) /\ Len(q) = count + 1
        /\ q[count + 1] = e
        /\ \A i \in 1 .. count : q[i] = entries[Slot(i - 1)]
    BY QueueShape, AppendProperties DEF QueueShaped, IInv, TypeOK
  <2>3. ASSUME NEW i \in 1 .. count + 1
        PROVE  entries'[Slot(i - 1)'] = q[i]
    <3>1. Slot(i - 1)' = Slot(i - 1)
      BY <2>1 DEF Slot, Wrap
    <3>2. CASE i = count + 1
      <4>1. i - 1 = count
        BY <2>1, <3>2
      <4>2. entries'[s] = e
        BY <1>2, <2>1
      <4> QED
        BY <2>2, <3>1, <3>2, <4>1, <4>2
    <3>3. CASE i \in 1 .. count
      <4>1. i - 1 \in 0 .. capacity - 1 /\ count \in 0 .. capacity - 1 /\ i - 1 # count
        BY <2>1, <3>3
      <4>2. Slot(i - 1) # s
        BY <2>1, <4>1, SlotInjective DEF IInv
      <4>3. Slot(i - 1) \in DOMAIN entries
        BY <2>1, <3>3, i - 1 \in 0 .. count - 1 DEF IInv, CountedInArray, Occupied
      <4> QED
        BY <2>1, <2>2, <3>1, <3>3, <4>2, <4>3
    <3>4. i = count + 1 \/ i \in 1 .. count
      BY <2>1
    <3> QED
      BY <3>2, <3>3, <3>4
  <2>4. Size' = Size /\ Size \in Nat /\ count + 1 <= Size
    <3>1. DOMAIN entries' = DOMAIN entries
      BY <2>1
    <3>2. Size' = Size
      BY <3>1 DEF Size
    <3>3. (Size \in Nat /\ count <= Size)'
      BY CountWithinSize, PTL
    <3> QED
      BY <2>1, <3>2, <3>3
  <2>5. Queue' = Promise!Newest(q, Size)
    <3> HIDE DEF q
    <3>1. ~(Size < Len(q)) /\ count + 1 = Len(q) /\ count + 1 \in Nat
      BY <2>1, <2>2, <2>4
    <3>2. \A i \in 1 .. count + 1 : entries'[Slot(i - 1)'] = q[Len(q) - (count + 1) + i]
      BY <2>1, <2>2, <2>3
    <3> QED
      BY <2>1, <2>2, <2>4, <3>1, <3>2, QueueIsNewest
  <2> QED
    BY <2>4, <2>5 DEF Promise!Push
<1> QED
  BY <1>1, <1>2

\* A push into a full buffer appends the element and drops the oldest one,
\* as the queue does, if the array is full too, and too early if it is not.
\* (In a buffer without capacity the element itself does not enter the queue.)
LEMMA PushFullRefines ==
  ASSUME IInv, IInv', NEW e \in Element, PushFull(e)
  PROVE  Promise!Push(e) \/ DropsEarly(e) \/ UNCHANGED Promise!vars
<1> DEFINE s == Slot(0)
           q == Append(Queue, e)
<1>1. CASE s \notin DOMAIN entries
  BY <1>1, QueueStutter DEF PushFull, Fault
<1>2. CASE s \in DOMAIN entries
  <2>1. /\ count \in Nat /\ capacity \in Nat /\ count = capacity
        /\ capacity > 0 => position < capacity
        /\ count' = count /\ position' = IncTail(position) /\ capacity' = capacity
        /\ entries' = [entries EXCEPT ![s] = e]
    BY <1>2 DEF PushFull, Store, IInv, TypeOK, CountedInArray
  <2>2. /\ q \in Seq(Element \cup {NULL}) /\ Len(q) = count + 1
        /\ q[count + 1] = e
        /\ \A i \in 1 .. count : q[i] = entries[Slot(i - 1)]
    BY QueueShape, AppendProperties DEF QueueShaped, IInv, TypeOK
  <2>3. ASSUME NEW i \in 1 .. count
        PROVE  entries'[Slot(i - 1)'] = q[1 + i]
    <3>1. position < capacity /\ position' \in Nat /\ position \in Nat
      BY <2>1 DEF IncTail, IInv, TypeOK
    <3>2. CASE i = count
      <4>1. Slot(i - 1)' = s
        BY <2>1, <3>1, <3>2 DEF Slot, Wrap, IncTail
      <4>2. entries'[s] = e
        BY <1>2, <2>1
      <4> QED
        BY <2>1, <2>2, <3>2, <4>1, <4>2
    <3>3. CASE i + 1 \in 1 .. count
      <4>1. Slot(i - 1)' = Slot(i)
        BY <2>1, <3>1, <3>3 DEF Slot, Wrap, IncTail
      <4>2. i \in 0 .. capacity - 1 /\ 0 \in 0 .. capacity - 1 /\ i # 0
        BY <2>1, <3>3
      <4>3. Slot(i) # s
        BY <3>1, <4>2, SlotInjective DEF IInv
      <4>4. Slot(i) \in DOMAIN entries
        BY <2>1, <4>2 DEF IInv, CountedInArray, Occupied
      <4>5. (i + 1) - 1 = i /\ 1 + i = i + 1
        BY <2>1
      <4> QED
        BY <2>1, <2>2, <3>3, <4>1, <4>3, <4>4, <4>5
    <3>4. i = count \/ i + 1 \in 1 .. count
      BY <2>1
    <3> QED
      BY <3>2, <3>3, <3>4
  <2>4. Queue' = Promise!Newest(q, capacity)
    <3> HIDE DEF q
    <3>1. capacity < Len(q) /\ count' = capacity /\ Len(q) - capacity = 1
      BY <2>1, <2>2
    <3>2. \A i \in 1 .. count' : entries'[Slot(i - 1)'] = q[Len(q) - count' + i]
      BY <2>1, <2>3, <3>1
    <3> QED
      BY <2>1, <2>2, <3>1, <3>2, QueueIsNewest
  <2>5. DOMAIN entries' = DOMAIN entries
    BY <2>1
  <2>6. Size' = Size
    BY <2>5 DEF Size
  <2>7. capacity = Size \/ capacity < Size
    BY <2>1, CountWithinSize
  <2> QED
    BY <2>4, <2>6, <2>7 DEF Promise!Push, DropsEarly
<1> QED
  BY <1>1, <1>2

\* The elements that stay when the oldest go are the newest of the queue.
LEMMA KeptNewest ==
  ASSUME IInv, IInv', NEW n \in Nat, NEW kept \in 0 .. count,
         n < count => kept = n, count <= n => kept = count, count' = kept,
         \A i \in 1 .. kept : entries'[Slot(i - 1)'] = entries[Slot(count - kept + i - 1)]
  PROVE  Queue' = Promise!Newest(Queue, n)
<1> DEFINE q == Queue
<1>1. count \in Nat /\ kept \in Nat
  BY DEF IInv, TypeOK
<1>2. /\ q \in Seq(Element \cup {NULL}) /\ Len(q) = count
      /\ \A i \in 1 .. count : q[i] = entries[Slot(i - 1)]
  BY QueueShape DEF QueueShaped
<1> HIDE DEF q
<1>3. ASSUME NEW i \in 1 .. kept
      PROVE  entries'[Slot(i - 1)'] = q[Len(q) - kept + i]
  <2>1. count - kept + i \in 1 .. count
    BY <1>1
  <2> QED
    BY <1>2, <2>1
<1>4. /\ n < Len(q) => kept = n
      /\ Len(q) <= n => kept = Len(q)
      /\ \A i \in 1 .. count' : entries'[Slot(i - 1)'] = q[Len(q) - count' + i]
  BY <1>1, <1>2, <1>3
<1>5. Queue' = Promise!Newest(q, n)
  BY <1>1, <1>2, <1>4, QueueIsNewest
<1> QED
  BY <1>5 DEF q

\* Releasing the oldest n elements leaves the newest of the others, and the
\* array as long as it was.
LEMMA ReleaseNewest ==
  ASSUME IInv, IInv', NEW n \in 1 .. count, Release(n), capacity' = capacity
  PROVE  Queue' = Promise!Newest(Queue, count - n) /\ Size' = Size
<1> DEFINE kept == count - n
<1>1. /\ count \in Nat /\ n \in 0 .. capacity /\ position < capacity
      /\ kept \in 0 .. count /\ count' = kept /\ count - kept = n
      /\ kept \in Nat /\ (count <= kept => kept = count)
  BY DEF Release, IInv, TypeOK, CountedInArray
<1>2. ASSUME NEW i \in 1 .. kept
      PROVE  entries'[Slot(i - 1)'] = entries[Slot(count - kept + i - 1)]
  <2>1. n + (i - 1) \in 0 .. count - 1 /\ i - 1 \in Nat /\ n + (i - 1) < capacity
        /\ count - kept + i - 1 = n + (i - 1)
    BY <1>1 DEF IInv, TypeOK, CountedInArray
  <2>2. Slot(i - 1)' = Slot(n + (i - 1))
    BY <1>1, <2>1, SlotAdvanced DEF Release, IInv
  <2>3. Slot(n + (i - 1)) \in DOMAIN entries
    BY <2>1 DEF IInv, CountedInArray, Occupied
  <2>4. Slot(n + (i - 1)) \notin Occupied(n)
    <3> SUFFICES ASSUME NEW j \in 0 .. n - 1, Slot(j) = Slot(n + (i - 1)) PROVE FALSE
      BY DEF Occupied
    <3>1. /\ j \in 0 .. capacity - 1 /\ n + (i - 1) \in 0 .. capacity - 1
          /\ j # n + (i - 1)
      BY <1>1, <2>1 DEF IInv, TypeOK
    <3> QED
      BY <1>1, <3>1, SlotInjective DEF IInv
  <2> QED
    BY <2>1, <2>2, <2>3, <2>4 DEF Release
<1>3. DOMAIN entries' = DOMAIN entries
  BY DEF Release
<1>4. Size' = Size
  BY <1>3 DEF Size
<1> HIDE DEF kept
<1>5. Queue' = Promise!Newest(Queue, kept)
  BY <1>1, <1>2, KeptNewest
<1> QED
  BY <1>4, <1>5 DEF kept

\* Pop drops the oldest element.
LEMMA PopRefines == ASSUME IInv, IInv', Pop PROVE Promise!Pop
<1> DEFINE q == Queue
<1>1. count \in Nat /\ count > 0 /\ 1 \in 1 .. count
  BY DEF Pop, IInv, TypeOK
<1>2. Queue' = Promise!Newest(q, count - 1) /\ Size' = Size
  BY <1>1, ReleaseNewest DEF Pop
<1>3. q \in Seq(Element \cup {NULL}) /\ Len(q) = count
  BY QueueShape DEF QueueShaped
<1> HIDE DEF q
<1>4. q # <<>>
  BY <1>1, <1>3, EmptySeq
<1>5. Len(q) - (count - 1) + 1 = 2 /\ ~(Len(q) <= count - 1)
  BY <1>1, <1>3
<1>6. Queue' = SubSeq(q, 2, Len(q))
  BY <1>2, <1>5 DEF Promise!Newest
<1>7. SubSeq(q, 2, Len(q)) = Tail(q)
  BY <1>3, <1>4, TailIsSubSeq
<1> QED
  BY <1>2, <1>4, <1>6, <1>7 DEF Promise!Pop, q

\* Clear drops them all.
LEMMA ClearRefines == ASSUME IInv, IInv', Clear PROVE Promise!Clear
<1>1. count \in 1 .. count /\ count' = 0
  BY DEF Clear, Release, IInv, TypeOK
<1>2. Size' = Size
  BY <1>1, ReleaseNewest DEF Clear
<1> QED
  BY <1>1, <1>2, QueueEmpty DEF Promise!Clear

\* Done leaves an empty queue that has no room.
LEMMA DoneRefines == ASSUME Done PROVE Promise!Close
<1>1. DOMAIN entries' = 0 .. 0 - 1
  BY DEF Done, Cleared
<1>2. Size' = 0
  BY <1>1, SizeOfArray
<1> QED
  BY <1>2, QueueEmpty DEF Done, Promise!Close

\* A resize gives the queue its new limit, and drops the oldest elements that
\* do not fit.
LEMMA ResizeRefines ==
  ASSUME IInv, IInv', NEW n \in NewCapacities, Resize(n)
  PROVE  Promise!Resize
<1> DEFINE kept == IF count > n THEN n ELSE count
<1>1. kept \in 0 .. count /\ kept <= n /\ n \in Nat /\ count \in Nat
  BY RingAssumption DEF IInv, TypeOK
<1>2. /\ count' = kept /\ position' = 0
      /\ entries' = [i \in 0 .. n - 1 |->
                       IF i < kept THEN RbElement(count - kept + i) ELSE NULL]
  BY DEF Resize
<1>3. DOMAIN entries' = 0 .. n - 1
  BY <1>2
<1>4. Size' = n
  BY <1>1, <1>3, SizeOfArray
<1>5. (n < count => kept = n) /\ (count <= n => kept = count)
  BY <1>1
<1> HIDE DEF kept
<1>6. ASSUME NEW i \in 1 .. kept
      PROVE  entries'[Slot(i - 1)'] = entries[Slot(count - kept + i - 1)]
  <2>1. /\ i - 1 \in 0 .. n - 1 /\ i - 1 < kept
        /\ count - kept + (i - 1) = count - kept + i - 1
        /\ count - kept + i - 1 < count
    BY <1>1
  <2>2. Slot(i - 1)' = i - 1
    BY <1>1, <1>2, <2>1 DEF Slot, Wrap, Resize, IInv, TypeOK, CountedInArray
  <2> QED
    BY <1>2, <2>1, <2>2 DEF RbElement
<1>7. Queue' = Promise!Newest(Queue, n)
  BY <1>1, <1>2, <1>5, <1>6, KeptNewest
<1> QED
  BY <1>1, <1>4, <1>7 DEF Promise!Resize

\* Every step of the ring buffer is a step of the queue, drops too early, or
\* changes nothing of the queue.
LEMMA StepRefines ==
  IInv /\ IInv' /\ [Next]_vars
    => [Promise!Next \/ \E e \in Element : DropsEarly(e)]_(Promise!vars)
<1> SUFFICES ASSUME IInv, IInv', [Next]_vars
             PROVE  \/ Promise!Next \/ UNCHANGED Promise!vars
                    \/ \E e \in Element : DropsEarly(e)
  OBVIOUS
<1>1. ASSUME NEW n \in Capacities, NEW ok \in BOOLEAN, RbInit(n, ok) PROVE Promise!Next
  BY <1>1, RbInitRefines DEF Promise!Next
<1>2. ASSUME NEW e \in Element, PushRoom(e) PROVE Promise!Next \/ UNCHANGED Promise!vars
  BY <1>2, PushRoomRefines DEF Promise!Next
<1>3. ASSUME NEW e \in Element, PushFull(e)
      PROVE  Promise!Next \/ DropsEarly(e) \/ UNCHANGED Promise!vars
  BY <1>3, PushFullRefines DEF Promise!Next
<1>4. CASE Pop
  BY <1>4, PopRefines DEF Promise!Next
<1>5. CASE Clear
  BY <1>5, ClearRefines DEF Promise!Next
<1>6. CASE Done
  BY <1>6, DoneRefines DEF Promise!Next
<1>7. ASSUME NEW n \in NewCapacities, Resize(n) PROVE Promise!Next
  BY <1>7, ResizeRefines DEF Promise!Next
<1>8. CASE UNCHANGED vars
  BY <1>8, QueueStutter DEF vars
<1> QED
  BY <1>1, <1>2, <1>3, <1>4, <1>5, <1>6, <1>7, <1>8 DEF Next

\* ringbuffer.c is the queue its comments describe: first in, first out, never
\* more elements than the array has slots, a new limit at each resize, and the
\* oldest dropped for a new one.  It falls short of it in one way only: while
\* capacity is smaller than an array that has grown, pushes drop too early.
THEOREM ImplementsQueue == Spec => RefinesQueue
<1>1. Init => Promise!Init
  <2> SUFFICES ASSUME Init PROVE Promise!Init
    OBVIOUS
  <2>1. DOMAIN entries = 0 .. 0 - 1
    BY DEF Init, Cleared
  <2>2. Size = 0
    BY <2>1, SizeOfArray
  <2> QED
    BY <2>2, QueueEmpty DEF Init, Promise!Init
<1> QED
  BY <1>1, Invariance, StepRefines, PTL DEF Spec, RefinesQueue

(***************************************************************************)
(* Growing buffers.  That the growing ends is shown by TLC alone.          *)
(***************************************************************************)
\* Between calls there is no result.
IdleEmpty == pc = "idle" => buffer = "none"

\* The buffer has a size while a call lasts, and so has the block.
SizePositive == pc \in {"alloc", "ask"} => size > 0

\* A buffer is missing only in vformatmsg_len, and when memory has run out.
MissingBuffer == pc = "ask" /\ buffer = "none" => api \in Formats /\ noMemory

\* The inductive invariant.
GBIInv == /\ GBTypeOK /\ IdleEmpty /\ SizePositive /\ MissingBuffer
        /\ HeapResultWhole /\ AskedWithinBlock /\ LostByRealloc /\ FailsForCause

\* Nothing is held when the program starts.
LEMMA GBInitIInv == GBInit => GBIInv
<1> SUFFICES ASSUME GBInit PROVE GBIInv
  OBVIOUS
<1>1. GBTypeOK
  <2>1. terminated \in BOOLEAN /\ lost \in BOOLEAN /\ noMemory \in BOOLEAN
    BY DEF GBInit
  <2>2. blocks \subseteq 1 .. MaxSize /\ (buffer = "heap" <=> blocks # {})
    BY DEF GBInit
  <2>3. size \in Nat /\ stored \in 0 .. size
    BY DEF GBInit
  <2> QED
    BY <2>1, <2>2, <2>3 DEF GBInit, GBTypeOK
<1>2. IdleEmpty /\ SizePositive /\ MissingBuffer
  BY DEF GBInit, IdleEmpty, SizePositive, MissingBuffer
<1>3. HeapResultWhole /\ AskedWithinBlock /\ LostByRealloc /\ FailsForCause
  BY DEF GBInit, HeapResultWhole, AskedWithinBlock, LostByRealloc, FailsForCause
<1> QED
  BY <1>1, <1>2, <1>3 DEF GBIInv

\* An answer fits the buffer.  It is whole when it leaves room; one that reports
\* an error was about a process that is gone, or a name too long for "query".
LEMMA AnswerBounds ==
  ASSUME NEW n \in Nat, NEW s \in Nat \ {0}
  PROVE  /\ Answer(n, s) \in -1 .. s
         /\ Answer(n, s) = -1 => n = 0 \/ (api = "query" /\ n >= s)
         /\ Answer(n, s) >= 0 /\ Answer(n, s) < s => Answer(n, s) = n
<1>1. CASE n = 0
  BY <1>1 DEF Answer
<1>2. CASE n # 0 /\ n < s
  BY <1>2 DEF Answer
<1>3. CASE n # 0 /\ ~(n < s)
  BY <1>3 DEF Answer
<1> QED
  BY <1>1, <1>2, <1>3

\* What vsnprintf returns is an error or the length.
LEMMA UsedBounds ==
  ASSUME NEW n \in Nat, NEW s \in Nat
  PROVE  Used(n, s) \in {-1, n}
BY DEF Used

\* The next attempt has a greater buffer.
LEMMA NextSizeGrows ==
  ASSUME NEW n \in Nat, n = 0 \/ n >= size \/ Used(n, size) = -1, size \in Nat
  PROVE  NextSize(Used(n, size)) \in Nat /\ NextSize(Used(n, size)) > size
<1>1. CASE Used(n, size) = -1
  BY <1>1, BufferAssumption DEF NextSize
<1>2. CASE Used(n, size) # -1
  <2>1. Used(n, size) = n /\ n # 0
    BY <1>2 DEF Used
  <2> QED
    BY <1>2, <2>1 DEF NextSize
<1> QED
  BY <1>1, <1>2

\* The types, and what holds between calls and at each attempt.
Shape == GBTypeOK /\ IdleEmpty /\ SizePositive /\ MissingBuffer

\* What the answer of the system does to the buffer.
LEMMA AskShape ==
  ASSUME Shape, Ask PROVE Shape'
<1> DEFINE rc == Answer(length, size)
<1>1. /\ pc = "ask" /\ api \notin Formats /\ seen' = length
      /\ api' = api /\ length' = length /\ noMemory' = noMemory
  BY DEF Ask
<1>2. size \in Nat \ {0} /\ length \in Nat
  BY <1>1, BufferAssumption DEF Shape, GBTypeOK, SizePositive
<1>3. rc \in -1 .. size
  BY <1>2, AnswerBounds
<1>4. CASE Fail
  BY <1>1, <1>4 DEF Fail, Shape, GBTypeOK, IdleEmpty, SizePositive, MissingBuffer
<1>5. CASE rc >= 0 /\ Finish(rc)
  BY <1>1, <1>3, <1>5 DEF Finish, Shape, GBTypeOK, IdleEmpty, SizePositive, MissingBuffer
<1>6. CASE rc >= 0 /\ Retry(rc)
  BY <1>1, <1>2, <1>3, <1>6
       DEF Retry, Shape, GBTypeOK, IdleEmpty, SizePositive, MissingBuffer
<1> QED
  BY <1>4, <1>5, <1>6 DEF Ask

\* What an attempt of vformatmsg_len does to it.
LEMMA FormatShape ==
  ASSUME Shape, Format PROVE Shape'
<1> DEFINE used == Used(length, size)
<1>1. /\ pc = "ask" /\ api \in Formats /\ seen' = length
      /\ api' = api /\ length' = length /\ noMemory' = noMemory
  BY DEF Format
<1>2. size \in Nat \ {0} /\ length \in Nat
  BY <1>1, BufferAssumption DEF Shape, GBTypeOK, SizePositive
<1>3. used \in {-1, length}
  BY <1>2, UsedBounds
<1>4. CASE /\ buffer = "none" /\ pc' = "fault"
           /\ UNCHANGED <<size, stored, terminated, buffer, blocks, lost>>
  BY <1>1, <1>4 DEF Shape, GBTypeOK, IdleEmpty, SizePositive, MissingBuffer
<1>5. CASE 0 <= used /\ used < size /\ Finish(used)
  BY <1>1, <1>2, <1>3, <1>5
       DEF Finish, Shape, GBTypeOK, IdleEmpty, SizePositive, MissingBuffer
<1>6. CASE /\ ~(0 <= used /\ used < size) /\ pc' = "alloc" /\ size' = NextSize(used)
           /\ UNCHANGED <<stored, terminated, buffer, blocks, lost>>
  <2>1. size' \in Nat /\ size' > size
    BY <1>2, <1>3, <1>6, NextSizeGrows
  <2> QED
    BY <1>1, <1>6, <2>1 DEF Shape, GBTypeOK, IdleEmpty, SizePositive, MissingBuffer
<1> QED
  BY <1>4, <1>5, <1>6 DEF Format

\* Every step keeps the shape.
LEMMA ShapeStep == Shape /\ [GBNext]_gbvars => Shape'
<1> SUFFICES ASSUME Shape, [GBNext]_gbvars PROVE Shape'
  OBVIOUS
<1>1. CASE Change
  BY <1>1 DEF Change, Shape, GBTypeOK, IdleEmpty, SizePositive, MissingBuffer
<1>2. ASSUME NEW n \in FixedSizes, CallFixed(n) PROVE Shape'
  <2>1. n \in Nat \ {0}
    BY BufferAssumption
  <2>2. blocks = {} /\ pc = "idle"
    BY <1>2 DEF CallFixed, Shape, GBTypeOK, IdleEmpty
  <2>3. terminated' \in BOOLEAN /\ lost' \in BOOLEAN /\ noMemory' \in BOOLEAN
    BY <1>2 DEF CallFixed
  <2>4. size' \in Nat \ {0} /\ stored' \in 0 .. size' /\ seen' \in Lengths \cup {0}
    BY <1>2, <2>1 DEF CallFixed
  <2> QED
    BY <1>2, <2>2, <2>3, <2>4
       DEF CallFixed, Shape, GBTypeOK, IdleEmpty, SizePositive, MissingBuffer
<1>3. CASE CallDynamic
  <2>1. blocks = {} /\ pc = "idle"
    BY <1>3 DEF CallDynamic, Shape, GBTypeOK, IdleEmpty
  <2>2. terminated' \in BOOLEAN /\ lost' \in BOOLEAN /\ noMemory' \in BOOLEAN
    BY <1>3 DEF CallDynamic
  <2>3. size' \in Nat \ {0} /\ stored' \in 0 .. size' /\ seen' \in Lengths \cup {0}
    BY <1>3, BufferAssumption DEF CallDynamic
  <2> QED
    BY <1>3, <2>1, <2>2, <2>3
       DEF CallDynamic, Shape, GBTypeOK, IdleEmpty, SizePositive, MissingBuffer
<1>4. CASE Alloc
  <2>1. pc = "alloc" /\ size \in Nat \ {0} /\ UNCHANGED <<api, length, size, stored, terminated, seen>>
    BY <1>4 DEF Alloc, Shape, GBTypeOK, SizePositive
  <2>2. CASE /\ size <= MaxSize /\ pc' = "ask" /\ buffer' = "heap" /\ blocks' = {size}
             /\ UNCHANGED <<lost, noMemory>>
    <3>1. size \in 1 .. MaxSize
      BY <2>1, <2>2, BufferAssumption
    <3>2. blocks' \subseteq 1 .. MaxSize /\ blocks' # {}
      BY <2>2, <3>1
    <3> QED
      BY <2>1, <2>2, <3>2 DEF Shape, GBTypeOK, IdleEmpty, SizePositive, MissingBuffer
  <2>3. CASE /\ pc' = (IF api \in Formats THEN "ask" ELSE "returned")
             /\ buffer' = "none" /\ noMemory' = TRUE
             /\ lost' = (blocks # {}) /\ blocks' = {}
    <3>1. lost' \in BOOLEAN /\ noMemory' \in BOOLEAN
      BY <2>3
    <3> QED
      BY <2>1, <2>3, <3>1 DEF Shape, GBTypeOK, IdleEmpty, SizePositive, MissingBuffer
  <2> QED
    BY <1>4, <2>2, <2>3 DEF Alloc
<1>5. CASE Ask
  BY <1>5, AskShape
<1>6. CASE Format
  BY <1>6, FormatShape
<1>7. CASE Dispose
  BY <1>7 DEF Dispose, Shape, GBTypeOK, IdleEmpty, SizePositive, MissingBuffer
<1>8. CASE DisposeBinding
  BY <1>8 DEF DisposeBinding, Shape, GBTypeOK, IdleEmpty, SizePositive, MissingBuffer
<1>9. CASE UNCHANGED gbvars
  BY <1>9 DEF gbvars, Shape, GBTypeOK, IdleEmpty, SizePositive, MissingBuffer
<1> QED
  BY <1>1, <1>2, <1>3, <1>4, <1>5, <1>6, <1>7, <1>8, <1>9 DEF GBNext

\* A result on the heap is what the last answer, or the message, was.
LEMMA WholeStep == Shape /\ HeapResultWhole /\ [GBNext]_gbvars => HeapResultWhole'
<1> SUFFICES ASSUME Shape, HeapResultWhole, [GBNext]_gbvars,
                    pc' = "returned", buffer' = "heap"
             PROVE  stored' = seen' /\ terminated'
  BY DEF HeapResultWhole
<1>1. CASE Ask
  <2> DEFINE rc == Answer(length, size)
  <2>1. size \in Nat \ {0} /\ length \in Nat /\ seen' = length
    BY <1>1, BufferAssumption DEF Ask, Shape, GBTypeOK, SizePositive
  <2>2. rc >= 0 /\ rc < size /\ Finish(rc)
    BY <1>1, <2>1, AnswerBounds DEF Ask, Fail, Finish, Retry, Whole
  <2>3. rc = length
    BY <2>1, <2>2, AnswerBounds
  <2> QED
    BY <2>1, <2>2, <2>3 DEF Finish
<1>2. CASE Format
  <2> DEFINE used == Used(length, size)
  <2>1. size \in Nat /\ length \in Nat /\ seen' = length
    BY <1>2, BufferAssumption DEF Format, Shape, GBTypeOK
  <2>2. 0 <= used /\ used < size /\ Finish(used)
    BY <1>2 DEF Format
  <2>3. used = length
    BY <2>1, <2>2, UsedBounds
  <2> QED
    BY <2>1, <2>2, <2>3 DEF Finish
<1>3. CASE Change \/ UNCHANGED gbvars
  BY <1>3 DEF Change, gbvars, HeapResultWhole
<1>4. CASE (\E n \in FixedSizes : CallFixed(n)) \/ CallDynamic \/ Alloc
           \/ Dispose \/ DisposeBinding
  BY <1>4 DEF CallFixed, CallDynamic, Alloc, Dispose, DisposeBinding
<1> QED
  BY <1>1, <1>2, <1>3, <1>4 DEF GBNext

\* The size that is told is that of the block.
LEMMA AskedStep == Shape /\ AskedWithinBlock /\ [GBNext]_gbvars => AskedWithinBlock'
<1> SUFFICES ASSUME Shape, AskedWithinBlock, [GBNext]_gbvars,
                    pc' = "ask", buffer' = "heap"
             PROVE  blocks' = {size'}
  BY DEF AskedWithinBlock
<1>1. CASE Alloc
  BY <1>1 DEF Alloc
<1>2. CASE Change \/ UNCHANGED gbvars
  BY <1>2 DEF Change, gbvars, AskedWithinBlock
<1>3. CASE Ask \/ Format
  BY <1>3 DEF Ask, Format, Fail, Finish, Retry
<1>4. CASE (\E n \in FixedSizes : CallFixed(n)) \/ CallDynamic \/ Dispose \/ DisposeBinding
  BY <1>4 DEF CallFixed, CallDynamic, Dispose, DisposeBinding
<1> QED
  BY <1>1, <1>2, <1>3, <1>4 DEF GBNext

\* Only realloc loses a block, when it fails.
LEMMA LostStep == Shape /\ LostByRealloc /\ [GBNext]_gbvars => LostByRealloc'
<1> SUFFICES ASSUME Shape, LostByRealloc, [GBNext]_gbvars, lost'
             PROVE  noMemory'
  BY DEF LostByRealloc
<1>1. CASE Alloc
  BY <1>1 DEF Alloc, LostByRealloc
<1>2. CASE (\E n \in FixedSizes : CallFixed(n)) \/ CallDynamic
  BY <1>2 DEF CallFixed, CallDynamic
<1>3. CASE UNCHANGED <<lost, noMemory>>
  BY <1>3 DEF LostByRealloc
<1>4. CASE Change \/ Ask \/ Format \/ Dispose
           \/ DisposeBinding \/ UNCHANGED gbvars
  BY <1>3, <1>4
       DEF Change, Ask, Format, Dispose, DisposeBinding, gbvars, Fail, Finish, Retry
<1> QED
  BY <1>1, <1>2, <1>4 DEF GBNext

\* A call fails, or faults, for one of the stated causes.
LEMMA CauseStep == Shape /\ FailsForCause /\ [GBNext]_gbvars => FailsForCause'
<1> SUFFICES ASSUME Shape, FailsForCause, [GBNext]_gbvars PROVE FailsForCause'
  OBVIOUS
<1>1. CASE Alloc
  <2>1. noMemory' \/ pc' = "ask"
    BY <1>1 DEF Alloc
  <2>2. pc' # "fault" /\ (pc' = "returned" => api' \notin Formats)
    BY <1>1 DEF Alloc
  <2> QED
    BY <2>1, <2>2 DEF FailsForCause
<1>2. CASE Ask
  <2> DEFINE rc == Answer(length, size)
  <2>1. /\ size \in Nat \ {0} /\ length \in Nat /\ seen' = length
        /\ api \notin Formats /\ api' = api /\ buffer # "none" /\ pc' # "fault"
    BY <1>2, BufferAssumption
         DEF Ask, Shape, GBTypeOK, SizePositive, MissingBuffer, Fail, Finish, Retry
  <2> SUFFICES ASSUME pc' = "returned", buffer' = "none"
               PROVE  seen' = 0 \/ (api' = "query" /\ seen' >= size')
    BY <2>1 DEF FailsForCause
  <2>2. rc = -1 /\ Fail
    BY <1>2, <2>1 DEF Ask, Finish, Retry
  <2> QED
    BY <2>1, <2>2, AnswerBounds DEF Fail
<1>3. CASE Format
  <2>1. api' = api /\ noMemory' = noMemory /\ api \in Formats
    BY <1>3 DEF Format
  <2>2. pc' = "fault" => noMemory
    BY <1>3 DEF Format, Finish, Shape, MissingBuffer
  <2>3. ~(pc' = "returned" /\ buffer' = "none")
    BY <1>3 DEF Format, Finish
  <2> QED
    BY <2>1, <2>2, <2>3 DEF FailsForCause
<1>4. CASE DisposeBinding
  BY <1>4 DEF DisposeBinding, FailsForCause, Formats, Windows
<1>5. CASE Change \/ UNCHANGED gbvars
  BY <1>5 DEF Change, gbvars, FailsForCause
<1>6. CASE (\E n \in FixedSizes : CallFixed(n)) \/ CallDynamic \/ Dispose
  BY <1>6 DEF CallFixed, CallDynamic, Dispose, FailsForCause
<1> QED
  BY <1>1, <1>2, <1>3, <1>4, <1>5, <1>6 DEF GBNext

\* The invariant is inductive.
LEMMA GBStepIInv == GBIInv /\ [GBNext]_gbvars => GBIInv'
<1>1. GBIInv <=> /\ Shape /\ HeapResultWhole /\ AskedWithinBlock
                     /\ LostByRealloc /\ FailsForCause
  BY DEF GBIInv, Shape
<1> QED
  BY <1>1, ShapeStep, WholeStep, AskedStep, LostStep, CauseStep DEF GBIInv, Shape

\* It holds in every run.
LEMMA GBInvariance == GBSpec => []GBIInv
BY GBInitIInv, GBStepIInv, PTL DEF GBSpec

\* A result of get_pid_exe, get_handle_exe, process_get_pids_C or vformatmsg_len
\* on the heap is whole, however long it is and however often it changed.
THEOREM ResultsWhole == GBSpec => []HeapResultWhole
<1>1. GBIInv => HeapResultWhole
  BY DEF GBIInv
<1> QED
  BY <1>1, GBInvariance, PTL

\* The variables keep their types.
THEOREM GBTypeCorrect == GBSpec => []GBTypeOK
<1>1. GBIInv => GBTypeOK
  BY DEF GBIInv
<1> QED
  BY <1>1, GBInvariance, PTL

\* The system is never told a size other than that of the block it fills, and
\* memory is lost only when realloc fails.
THEOREM BlocksStaySound == GBSpec => []BlocksSound
<1>1. GBIInv => BlocksSound
  BY DEF GBIInv, BlocksSound
<1> QED
  BY <1>1, GBInvariance, PTL

\* A call fails only for one of the stated causes.
THEOREM FailureCause == GBSpec => []FailsForCause
<1>1. GBIInv => FailsForCause
  BY DEF GBIInv
<1> QED
  BY <1>1, GBInvariance, PTL
=============================================================================
