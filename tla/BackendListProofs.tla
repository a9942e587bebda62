------------------------- MODULE BackendListProofs -------------------------
(***************************************************************************)
(* The list of backends stays a list for every number of nodes, files and  *)
(* backends, and implements BackendRegistry.                               *)
(*                                                                         *)
(* The argument follows a sequence that the code does not have: the nodes  *)
(* in the order of the list.  The pointers of list.h say what the next     *)
(* node is; the sequence says which one is the i-th, and turns what the    *)
(* macros find by walking into arithmetic on indices.                      *)
(***************************************************************************)
EXTENDS BackendList, FiniteSetTheorems, SequenceTheorems, WellFoundedInduction, TLAPS

\* The i-th node of c, and NULL where there is none.
EntryAt(n, c, i) == IF i \in 1 .. n THEN c[i] ELSE NULL

\* c has the n nodes in use in the order of the list, each one once, and
\* their pointers lead forth and back along it.
Lists(n, c) ==
  /\ n \in Nat /\ c \in [1 .. n -> Node]
  /\ alloc = {c[i] : i \in 1 .. n}
  /\ \A i, j \in 1 .. n : c[i] = c[j] => i = j
  /\ head = EntryAt(n, c, 1)
  /\ \A i \in 1 .. n : /\ heap[c[i]].next = EntryAt(n, c, i + 1)
                       /\ heap[c[i]].prev = EntryAt(n, c, i - 1)

Listed == \E n, c : Lists(n, c)

(***************************************************************************)
(* Walking                                                                 *)
(***************************************************************************)
\* A set of naturals has a least element.
LEMMA Least ==
  ASSUME NEW S \in SUBSET Nat, S # {}
  PROVE  \E m \in S : \A k \in S : m <= k
<1>1. PICK m \in S : \A k \in S : <<k, m>> \notin OpToRel(<, Nat)
  BY NatLessThanWellFounded, WFMin
<1>2. \A k \in S : ~(k < m)
  BY <1>1 DEF OpToRel
<1> QED
  BY <1>2

\* A sequence that starts at x and follows the pointers is the walk from x.
LEMMA WalkUnique ==
  ASSUME NEW x, NEW k \in Nat, NEW g,
         g = [j \in 0 .. k |-> IF j = 0 THEN x ELSE Follow(g[j - 1])]
  PROVE  Hop(x, k) = g[k]
<1> DEFINE Walks(f) == f = [j \in 0 .. k |-> IF j = 0 THEN x ELSE Follow(f[j - 1])]
           at == CHOOSE f : Walks(f)
<1>1. Walks(g)
  OBVIOUS
<1>2. Walks(at)
  BY <1>1
<1>3. Hop(x, k) = at[k]
  BY DEF Hop
<1>4. \A j \in 0 .. k : at[j] = IF j = 0 THEN x ELSE Follow(at[j - 1])
  BY <1>2
<1>5. \A j \in 0 .. k : g[j] = IF j = 0 THEN x ELSE Follow(g[j - 1])
  BY <1>1
<1> HIDE DEF at, Walks
<1>6. \A j \in 0 .. k : at[j] = g[j]
  <2> SUFFICES ASSUME NEW j \in 0 .. k, at[j] # g[j] PROVE FALSE
    OBVIOUS
  <2> DEFINE S == {i \in 0 .. k : at[i] # g[i]}
  <2>1. S \in SUBSET Nat /\ S # {}
    OBVIOUS
  <2>2. PICK m \in S : \A i \in S : m <= i
    BY <2>1, Least
  <2>3. m # 0
    BY <1>4, <1>5
  <2>4. m - 1 \in 0 .. k /\ m - 1 \notin S
    BY <2>2, <2>3
  <2>5. at[m - 1] = g[m - 1]
    BY <2>4
  <2> QED
    BY <1>4, <1>5, <2>3, <2>5
<1> QED
  BY <1>3, <1>6

\* From the i-th node, k hops lead to the one with index i + k.
LEMMA HopWalks ==
  ASSUME NEW n, NEW c, Lists(n, c), NEW i \in 1 .. n + 1, NEW k \in Nat
  PROVE  Hop(EntryAt(n, c, i), k) = EntryAt(n, c, i + k)
<1> DEFINE g == [j \in 0 .. k |-> EntryAt(n, c, i + j)]
<1>1. n \in Nat /\ i \in Nat
  BY DEF Lists
<1>2. ASSUME NEW j \in 0 .. k, j # 0
      PROVE  Follow(g[j - 1]) = g[j]
  <2> DEFINE m == i + (j - 1)
  <2>1. m \in Nat /\ m >= 1 /\ m + 1 = i + j /\ j - 1 \in 0 .. k
    BY <1>1, <1>2
  <2>2. g[j - 1] = EntryAt(n, c, m) /\ g[j] = EntryAt(n, c, m + 1)
    BY <2>1
  <2> HIDE DEF m, g
  <2>3. CASE m \in 1 .. n
    <3>1. c[m] \in Node /\ EntryAt(n, c, m) = c[m] /\ heap[c[m]].next = EntryAt(n, c, m + 1)
      BY <2>3 DEF EntryAt, Lists
    <3> QED
      BY <2>2, <3>1, BackendAssumption DEF Follow
  <2>4. CASE m \notin 1 .. n
    BY <1>1, <2>1, <2>2, <2>4 DEF EntryAt, Follow
  <2> QED
    BY <2>3, <2>4
<1>3. g[0] = EntryAt(n, c, i) /\ g[k] = EntryAt(n, c, i + k)
  BY <1>1
<1>4. g = [j \in 0 .. k |-> IF j = 0 THEN EntryAt(n, c, i) ELSE Follow(g[j - 1])]
  BY <1>2, <1>3
<1> HIDE DEF g
<1> QED
  BY <1>3, <1>4, WalkUnique

\* There are as many nodes in use as the sequence has, so no more than Node has.
LEMMA ListLength ==
  ASSUME NEW n, NEW c, Lists(n, c)
  PROVE  /\ Cardinality(alloc) = n
         /\ Cardinality(Node) \in Nat /\ n <= Cardinality(Node)
<1>1. n \in Nat /\ IsFiniteSet(1 .. n) /\ Cardinality(1 .. n) = n
  BY FS_Interval DEF Lists
<1>2. c \in Bijection(1 .. n, alloc)
  BY DEF Lists, Bijection, Injection, Surjection, IsInjective
<1>3. Cardinality(alloc) = n /\ IsFiniteSet(alloc)
  BY <1>1, <1>2, FS_Bijection DEF ExistsBijection
<1>4. alloc \subseteq Node /\ IsFiniteSet(Node)
  BY BackendAssumption DEF Lists
<1> QED
  BY <1>3, <1>4, FS_Subset, FS_CardinalityType

\* The nodes reached from the i-th are it and the later ones.
LEMMA ReachedFrom ==
  ASSUME NEW n, NEW c, Lists(n, c), NEW i \in 1 .. n + 1
  PROVE  ReachFrom(EntryAt(n, c, i)) = {c[j] : j \in i .. n}
<1> DEFINE N == Cardinality(Node)
<1>1. n \in Nat /\ i \in Nat /\ N \in Nat /\ n <= N /\ c \in [1 .. n -> Node]
  <2>1. n \in Nat /\ c \in [1 .. n -> Node]
    BY DEF Lists
  <2>2. N \in Nat /\ n <= N
    BY ListLength
  <2> QED
    BY <2>1, <2>2
<1> HIDE DEF N
<1>2. \A k \in 0 .. N : Hop(EntryAt(n, c, i), k) = EntryAt(n, c, i + k)
  BY HopWalks
<1>3. ASSUME NEW k \in 0 .. N, EntryAt(n, c, i + k) # NULL
      PROVE  EntryAt(n, c, i + k) \in {c[j] : j \in i .. n}
  BY <1>1, <1>3 DEF EntryAt
<1>4. ASSUME NEW j \in i .. n
      PROVE  c[j] # NULL /\ \E k \in 0 .. N : c[j] = EntryAt(n, c, i + k)
  <2>1. j - i \in 0 .. N /\ i + (j - i) = j /\ j \in 1 .. n
    BY <1>1
  <2>2. c[j] = EntryAt(n, c, i + (j - i))
    BY <2>1 DEF EntryAt
  <2> QED
    BY <1>1, <2>1, <2>2, BackendAssumption
<1> QED
  BY <1>2, <1>3, <1>4 DEF ReachFrom, N

\* What the operators of list.h find, in terms of the sequence.
LEMMA ListFound ==
  ASSUME NEW n, NEW c, Lists(n, c)
  PROVE  /\ Linked = alloc
         /\ ListLast = EntryAt(n, c, n)
         /\ Chain = c
<1>1. n \in Nat /\ c \in [1 .. n -> Node] /\ head = EntryAt(n, c, 1) /\ 1 \in 1 .. n + 1
  BY DEF Lists
<1>2. Linked = alloc
  <2>1. ReachFrom(EntryAt(n, c, 1)) = {c[j] : j \in 1 .. n}
    BY <1>1, ReachedFrom
  <2> QED
    BY <1>1, <2>1 DEF Linked, Lists
<1>3. ListLast = EntryAt(n, c, n)
  <2>1. CASE n = 0
    BY <1>1, <2>1 DEF ListLast, EntryAt
  <2>2. CASE n # 0
    <3>1. head # NULL /\ n \in 1 .. n
      BY <1>1, <2>2, BackendAssumption DEF EntryAt
    <3>2. heap[c[n]].next = NULL /\ c[n] \in alloc
      BY <3>1 DEF Lists, EntryAt
    <3>3. ASSUME NEW x \in alloc, heap[x].next = NULL PROVE x = c[n]
      <4>1. PICK i \in 1 .. n : x = c[i]
        BY DEF Lists
      <4>2. heap[x].next = EntryAt(n, c, i + 1)
        BY <4>1 DEF Lists
      <4>3. i + 1 \notin 1 .. n
        BY <1>1, <3>3, <4>2, BackendAssumption DEF EntryAt
      <4> QED
        BY <1>1, <4>1, <4>3
    <3>4. (CHOOSE x \in Linked : heap[x].next = NULL) = c[n]
      BY <1>2, <3>2, <3>3
    <3> QED
      BY <3>1, <3>4 DEF ListLast, EntryAt
  <2> QED
    BY <2>1, <2>2
<1>4. Chain = c
  <2>1. Cardinality(Linked) = n
    BY <1>2, ListLength
  <2>2. ASSUME NEW i \in 1 .. n PROVE Hop(head, i - 1) = c[i]
    <3>1. i - 1 \in Nat /\ 1 + (i - 1) = i
      BY <1>1
    <3>2. Hop(head, i - 1) = EntryAt(n, c, i)
      BY <1>1, <3>1, HopWalks
    <3> QED
      BY <3>2 DEF EntryAt
  <2> QED
    BY <1>1, <2>1, <2>2 DEF Chain
<1> QED
  BY <1>2, <1>3, <1>4

\* LIST_MATCH finds the node with the least index.
LEMMA FirstMatch ==
  ASSUME NEW n, NEW c, Lists(n, c), NEW S \in SUBSET alloc, S # {}
  PROVE  \E m \in 1 .. n : /\ ListMatch(S) = c[m] /\ c[m] \in S
                           /\ \A i \in 1 .. n : c[i] \in S => m <= i
<1> DEFINE I == {i \in 1 .. n : c[i] \in S}
<1>1. /\ n \in Nat /\ c \in [1 .. n -> Node]
      /\ \A x \in S : \E i \in 1 .. n : x = c[i]
      /\ \A i, j \in 1 .. n : c[i] = c[j] => i = j
  BY DEF Lists
<1>2. I \in SUBSET Nat /\ I # {}
  BY <1>1
<1>3. PICK m \in I : \A i \in I : m <= i
  BY <1>2, Least
<1>4. m \in 1 .. n /\ c[m] \in S /\ \A i \in 1 .. n : c[i] \in S => m <= i
  BY <1>3
<1>5. \A i \in 1 .. n : ReachFrom(c[i]) = {c[j] : j \in i .. n}
  <2> SUFFICES ASSUME NEW i \in 1 .. n PROVE ReachFrom(c[i]) = {c[j] : j \in i .. n}
    OBVIOUS
  <2>1. i \in 1 .. n + 1 /\ c[i] = EntryAt(n, c, i)
    BY <1>1 DEF EntryAt
  <2> QED
    BY <2>1, ReachedFrom
<1>6. S \subseteq ReachFrom(c[m])
  BY <1>1, <1>4, <1>5
<1>7. ASSUME NEW x \in S, S \subseteq ReachFrom(x) PROVE x = c[m]
  <2>1. PICK i \in 1 .. n : x = c[i]
    BY <1>1
  <2>2. c[m] \in {c[j] : j \in i .. n}
    BY <1>4, <1>5, <1>7, <2>1
  <2>3. i <= m
    BY <1>1, <1>4, <2>2
  <2> QED
    BY <1>1, <1>4, <2>1, <2>3
<1>8. ListMatch(S) = c[m]
  BY <1>4, <1>6, <1>7 DEF ListMatch
<1> QED
  BY <1>4, <1>8

(***************************************************************************)
(* Changing the list                                                       *)
(***************************************************************************)
\* The sequence with a node behind it, and without its m-th one.
Extended(n, c, x) == [i \in 1 .. n + 1 |-> IF i <= n THEN c[i] ELSE x]
Without(n, c, m) == [i \in 1 .. n - 1 |-> IF i < m THEN c[i] ELSE c[i + 1]]

\* A new state of the pointers leaves what the nodes are for alone.
SameUse(S) == \A x \in S : /\ heap'[x].callback = heap[x].callback
                           /\ heap'[x].user = heap[x].user

\* LIST_APPEND puts the new node behind the others, and changes no other's use.
LEMMA AppendKeeps ==
  ASSUME TypeOK, NEW n, NEW c, Lists(n, c), NEW x \in Node \ alloc, NEW b \in Backend,
         ListAppend(x, b), alloc' = alloc \cup {x}
  PROVE  /\ Lists(n + 1, Extended(n, c, x))'
         /\ heap'[x].callback = b.callback /\ heap'[x].user = b.user
         /\ SameUse(alloc)
<1> DEFINE d == Extended(n, c, x)
           last == EntryAt(n, c, n)
<1>1. /\ n \in Nat /\ c \in [1 .. n -> Node] /\ alloc = {c[i] : i \in 1 .. n}
      /\ \A i, j \in 1 .. n : c[i] = c[j] => i = j
      /\ head = EntryAt(n, c, 1)
      /\ \A i \in 1 .. n : /\ heap[c[i]].next = EntryAt(n, c, i + 1)
                           /\ heap[c[i]].prev = EntryAt(n, c, i - 1)
  BY DEF Lists
<1>2. /\ d \in [1 .. n + 1 -> Node] /\ d[n + 1] = x
      /\ \A i \in 1 .. n : d[i] = c[i] /\ c[i] # x
  BY <1>1 DEF Extended
<1>3. ListLast = last /\ last # x
  BY <1>1, ListFound, BackendAssumption DEF EntryAt
<1> DEFINE entry == [callback |-> b.callback, user |-> b.user, prev |-> last, next |-> NULL]
<1>4. /\ heap' = [m \in Node |-> IF m = x THEN entry
                                 ELSE IF m = last THEN [heap[m] EXCEPT !.next = x]
                                 ELSE heap[m]]
      /\ head' = IF last = NULL THEN x ELSE head
  BY <1>3 DEF ListAppend
<1>5. /\ heap'[x] = entry
      /\ \A m \in Node \ {x} : heap'[m] = IF m = last THEN [heap[m] EXCEPT !.next = x] ELSE heap[m]
  BY <1>4
<1> HIDE DEF d, last
<1>6. alloc' = {d[i] : i \in 1 .. n + 1}
  <2>1. 1 .. n + 1 = (1 .. n) \cup {n + 1}
    BY <1>1
  <2> QED
    BY <1>1, <1>2, <2>1
<1>7. \A i, j \in 1 .. n + 1 : d[i] = d[j] => i = j
  <2>1. \A i \in 1 .. n + 1 : i \in 1 .. n \/ i = n + 1
    BY <1>1
  <2> QED
    BY <1>1, <1>2, <2>1
<1>8. head' = EntryAt(n + 1, d, 1)
  <2>1. CASE n = 0
    BY <1>2, <1>4, <2>1 DEF EntryAt, last
  <2>2. CASE n # 0
    BY <1>1, <1>2, <1>4, <2>2, BackendAssumption DEF EntryAt, last
  <2> QED
    BY <2>1, <2>2
<1>9. ASSUME NEW i \in 1 .. n + 1
      PROVE  /\ heap'[d[i]].next = EntryAt(n + 1, d, i + 1)
             /\ heap'[d[i]].prev = EntryAt(n + 1, d, i - 1)
  <2>1. CASE i = n + 1
    <3>1. heap'[d[i]].next = NULL /\ heap'[d[i]].prev = last
      BY <1>2, <1>5, <2>1
    <3>2. EntryAt(n + 1, d, i + 1) = NULL /\ EntryAt(n + 1, d, i - 1) = last
      BY <1>1, <1>2, <2>1 DEF EntryAt, last
    <3> QED
      BY <3>1, <3>2
  <2>2. CASE i \in 1 .. n
    <3>1. d[i] = c[i] /\ c[i] \in Node \ {x} /\ n \in 1 .. n /\ last = c[n]
      BY <1>1, <1>2, <2>2 DEF EntryAt, last
    <3>2. heap'[c[i]].prev = heap[c[i]].prev
      BY <1>5, <3>1 DEF TypeOK
    <3>3. heap'[c[i]].next = IF i = n THEN x ELSE heap[c[i]].next
      <4>1. CASE i = n
        BY <1>5, <3>1, <4>1 DEF TypeOK
      <4>2. CASE i # n
        <5>1. c[i] # last
          BY <1>1, <2>2, <3>1, <4>2
        <5> QED
          BY <1>5, <3>1, <4>2, <5>1
      <4> QED
        BY <4>1, <4>2
    <3>4. EntryAt(n + 1, d, i - 1) = EntryAt(n, c, i - 1)
      BY <1>1, <1>2, <2>2 DEF EntryAt
    <3>5. EntryAt(n + 1, d, i + 1) = IF i = n THEN x ELSE EntryAt(n, c, i + 1)
      BY <1>1, <1>2, <2>2 DEF EntryAt
    <3> QED
      BY <1>1, <2>2, <3>1, <3>2, <3>3, <3>4, <3>5
  <2> QED
    BY <1>1, <2>1, <2>2
<1>10. SameUse(alloc)
  BY <1>5 DEF SameUse, TypeOK
<1> QED
  BY <1>1, <1>2, <1>5, <1>6, <1>7, <1>8, <1>9, <1>10 DEF Lists, d

\* LIST_DELETE takes the m-th node out, and changes no other's use.
LEMMA DeleteKeeps ==
  ASSUME TypeOK, NEW n, NEW c, Lists(n, c), NEW m \in 1 .. n,
         ListDelete(c[m]), alloc' = alloc \ {c[m]}
  PROVE  Lists(n - 1, Without(n, c, m))' /\ SameUse(alloc)
<1> DEFINE d == Without(n, c, m)
           p == EntryAt(n, c, m - 1)
           q == EntryAt(n, c, m + 1)
<1>1. /\ n \in Nat /\ c \in [1 .. n -> Node] /\ alloc = {c[i] : i \in 1 .. n}
      /\ \A i, j \in 1 .. n : c[i] = c[j] => i = j
      /\ head = EntryAt(n, c, 1)
      /\ \A i \in 1 .. n : /\ heap[c[i]].next = EntryAt(n, c, i + 1)
                           /\ heap[c[i]].prev = EntryAt(n, c, i - 1)
  BY DEF Lists
<1>2. d \in [1 .. n - 1 -> Node] /\ \A i \in 1 .. n - 1 : d[i] = IF i < m THEN c[i] ELSE c[i + 1]
  BY <1>1 DEF Without
<1>3. /\ heap' = [x \in Node |-> IF x = q THEN [heap[x] EXCEPT !.prev = p]
                                 ELSE IF x = p THEN [heap[x] EXCEPT !.next = q]
                                 ELSE heap[x]]
      /\ head' = IF p = NULL THEN q ELSE head
  BY <1>1 DEF ListDelete
<1>4. \A x \in Node :
         /\ heap'[x].prev = IF x = q THEN p ELSE heap[x].prev
         /\ heap'[x].next = IF x = p /\ x # q THEN q ELSE heap[x].next
  <2> SUFFICES ASSUME NEW x \in Node
               PROVE  /\ heap'[x].prev = IF x = q THEN p ELSE heap[x].prev
                      /\ heap'[x].next = IF x = p /\ x # q THEN q ELSE heap[x].next
    OBVIOUS
  <2>1. CASE x = q
    BY <1>3, <2>1 DEF TypeOK
  <2>2. CASE x # q /\ x = p
    BY <1>3, <2>2 DEF TypeOK
  <2>3. CASE x # q /\ x # p
    BY <1>3, <2>3
  <2> QED
    BY <2>1, <2>2, <2>3
<1>5. SameUse(alloc)
  <2> SUFFICES ASSUME NEW x \in Node
               PROVE  heap'[x].callback = heap[x].callback /\ heap'[x].user = heap[x].user
    BY <1>1 DEF SameUse
  <2> QED
    BY <1>3 DEF TypeOK
\* The m-th node has the others on either side.
<1>6. /\ \A i \in 1 .. n : c[i] = p <=> i = m - 1
      /\ \A i \in 1 .. n : c[i] = q <=> i = m + 1
      /\ p = NULL <=> m = 1
  BY <1>1, BackendAssumption DEF EntryAt
<1>7. /\ \A i \in 1 .. n - 1 : EntryAt(n - 1, d, i) = d[i]
      /\ EntryAt(n - 1, d, 0) = NULL /\ EntryAt(n - 1, d, n) = NULL
  BY <1>1 DEF EntryAt
<1> HIDE DEF d, p, q
<1>8. alloc' = {d[i] : i \in 1 .. n - 1}
  <2>1. ASSUME NEW i \in 1 .. n - 1 PROVE d[i] \in alloc \ {c[m]}
    <3>1. i \in 1 .. n /\ i + 1 \in 1 .. n
      BY <1>1
    <3> QED
      BY <1>1, <1>2, <3>1
  <2>2. ASSUME NEW i \in 1 .. n, i # m PROVE \E j \in 1 .. n - 1 : c[i] = d[j]
    <3>1. CASE i < m
      BY <1>1, <1>2, <3>1, i \in 1 .. n - 1
    <3>2. CASE i > m
      <4>1. i - 1 \in 1 .. n - 1 /\ ~(i - 1 < m) /\ (i - 1) + 1 = i
        BY <1>1, <3>2
      <4> QED
        BY <1>2, <4>1
    <3> QED
      BY <1>1, <2>2, <3>1, <3>2
  <2>3. \A x \in alloc \ {c[m]} : \E i \in 1 .. n : i # m /\ x = c[i]
    BY <1>1
  <2>4. \A x \in alloc \ {c[m]} : x \in {d[i] : i \in 1 .. n - 1}
    BY <2>2, <2>3
  <2> QED
    BY <2>1, <2>4
<1>9. \A i, j \in 1 .. n - 1 : d[i] = d[j] => i = j
  <2> SUFFICES ASSUME NEW i \in 1 .. n - 1, NEW j \in 1 .. n - 1, d[i] = d[j] PROVE i = j
    OBVIOUS
  <2> DEFINE k == IF i < m THEN i ELSE i + 1
             l == IF j < m THEN j ELSE j + 1
  <2>1. k \in 1 .. n /\ d[i] = c[k]
    BY <1>1, <1>2
  <2>2. l \in 1 .. n /\ d[j] = c[l]
    BY <1>1, <1>2
  <2>3. k = l => i = j
    BY <1>1
  <2> HIDE DEF k, l
  <2> QED
    BY <1>1, <2>1, <2>2, <2>3
<1>10. head' = EntryAt(n - 1, d, 1)
  <2>1. CASE m = 1
    <3>1. head' = EntryAt(n, c, 2)
      BY <1>3, <1>6, <2>1 DEF q
    <3> QED
      BY <1>1, <1>2, <2>1, <3>1 DEF EntryAt
  <2>2. CASE m # 1
    <3>1. head' = c[1] /\ 1 \in 1 .. n - 1 /\ 1 < m
      BY <1>1, <1>3, <1>6, <2>2 DEF EntryAt
    <3> QED
      BY <1>2, <1>7, <3>1
  <2> QED
    BY <2>1, <2>2
<1>11. ASSUME NEW i \in 1 .. n - 1
       PROVE  /\ heap'[d[i]].next = EntryAt(n - 1, d, i + 1)
              /\ heap'[d[i]].prev = EntryAt(n - 1, d, i - 1)
  <2> DEFINE k == IF i < m THEN i ELSE i + 1
  <2>1. /\ k \in 1 .. n /\ k # m /\ d[i] = c[k] /\ c[k] \in Node
        /\ c[k] = p <=> k = m - 1
        /\ c[k] = q <=> k = m + 1
        /\ heap[c[k]].next = EntryAt(n, c, k + 1) /\ heap[c[k]].prev = EntryAt(n, c, k - 1)
    BY <1>1, <1>2, <1>6
  <2>2. /\ heap'[c[k]].next = IF k = m - 1 THEN q ELSE EntryAt(n, c, k + 1)
        /\ heap'[c[k]].prev = IF k = m + 1 THEN p ELSE EntryAt(n, c, k - 1)
    BY <1>4, <2>1
  <2>3. EntryAt(n - 1, d, i + 1) = IF k = m - 1 THEN q ELSE EntryAt(n, c, k + 1)
    BY <1>1, <1>2 DEF EntryAt, q
  <2>4. EntryAt(n - 1, d, i - 1) = IF k = m + 1 THEN p ELSE EntryAt(n, c, k - 1)
    <3>1. CASE i < m
      <4>1. k = i /\ k # m + 1 /\ (i - 1 \in 1 .. n - 1 <=> i - 1 \in 1 .. n)
            /\ (i - 1 \in 1 .. n - 1 => d[i - 1] = c[i - 1])
        BY <1>1, <1>2, <3>1
      <4> QED
        BY <4>1 DEF EntryAt
    <3>2. CASE i = m
      <4>1. k = m + 1 /\ (m - 1 \in 1 .. n - 1 <=> m - 1 \in 1 .. n)
            /\ (m - 1 \in 1 .. n - 1 => d[m - 1] = c[m - 1])
        BY <1>1, <1>2, <3>2
      <4> QED
        BY <3>2, <4>1 DEF EntryAt, p
    <3>3. CASE i > m
      <4>1. /\ k = i + 1 /\ k # m + 1 /\ k - 1 = i /\ k - 1 \in 1 .. n /\ i - 1 \in 1 .. n - 1
            /\ d[i - 1] = c[k - 1]
        BY <1>1, <1>2, <3>3
      <4> QED
        BY <4>1 DEF EntryAt
    <3> QED
      BY <1>1, <3>1, <3>2, <3>3
  <2> QED
    BY <2>1, <2>2, <2>3, <2>4
<1>12. n - 1 \in Nat
  BY <1>1
<1> QED
  BY <1>2, <1>5, <1>8, <1>9, <1>10, <1>11, <1>12 DEF Lists, d

(***************************************************************************)
(* The inductive invariant                                                 *)
(***************************************************************************)
\* What a node is registered for.
Use(x) == [callback |-> heap[x].callback, user |-> heap[x].user]

Entries == [callback : Custom \cup {"stdio", NULL}, user : File \cup Std \cup User \cup {NULL},
            prev : Pointer, next : Pointer]

\* Every node in use holds a backend.
Backends == \A x \in alloc : Use(x) \in Backend

\* The shutdown removes the entries from the front.
AtShutdown == pc = "shutdown" => cur = head

\* A callback that has not removed its own backend returns to an entry in use.
UsedLive == /\ pc = "fault" => orphan
            /\ pc = "callback" /\ ~orphan => cur \in alloc

IInv == TypeOK /\ Listed /\ Backends /\ FilesOwned /\ AtShutdown /\ UsedLive

\* Only stdio backends have files.
LEMMA FilesAreStdio ==
  ASSUME Backends, NEW x \in alloc, heap[x].user \in File
  PROVE  heap[x].callback = "stdio"
<1>1. Use(x) \in Backend /\ Use(x).callback = heap[x].callback /\ Use(x).user = heap[x].user
  BY DEF Backends, Use
<1>2. Use(x) \notin [callback : Custom, user : User \cup {NULL}]
  BY <1>1, BackendAssumption
<1> QED
  BY <1>1, <1>2 DEF Backend

\* The pointers a new entry gets and changes are well-typed.
LEMMA AppendTypes ==
  ASSUME TypeOK, NEW n, NEW c, Lists(n, c), NEW x \in Node, NEW b \in Backend, ListAppend(x, b)
  PROVE  heap' \in [Node -> Entries] /\ head' \in Pointer
<1>1. ListLast \in Pointer
  <2>1. c \in [1 .. n -> Node] /\ ListLast = EntryAt(n, c, n)
    BY ListFound DEF Lists
  <2> QED
    BY <2>1 DEF EntryAt, Pointer
<1>2. b.callback \in Custom \cup {"stdio"} /\ b.user \in File \cup Std \cup User \cup {NULL}
  BY DEF Backend
<1>3. [callback |-> b.callback, user |-> b.user, prev |-> ListLast, next |-> NULL] \in Entries
  BY <1>1, <1>2 DEF Entries, Pointer
<1>4. \A m \in Node : heap[m] \in Entries /\ [heap[m] EXCEPT !.next = x] \in Entries
  BY DEF TypeOK, Entries, Pointer
<1>5. head' \in Pointer
  BY DEF ListAppend, TypeOK, Pointer
<1> QED
  BY <1>3, <1>4, <1>5 DEF ListAppend

\* and so are those that change when an entry is removed.
LEMMA DeleteTypes ==
  ASSUME TypeOK, NEW x \in Node, ListDelete(x)
  PROVE  heap' \in [Node -> Entries] /\ head' \in Pointer
<1>1. heap[x].prev \in Pointer /\ heap[x].next \in Pointer
  BY DEF TypeOK
<1>2. \A m \in Node : /\ heap[m] \in Entries
                      /\ [heap[m] EXCEPT !.prev = heap[x].prev] \in Entries
                      /\ [heap[m] EXCEPT !.next = heap[x].next] \in Entries
  BY <1>1 DEF TypeOK, Entries
<1>3. head' \in Pointer
  BY <1>1 DEF ListDelete, TypeOK
<1> QED
  BY <1>2, <1>3 DEF ListDelete

\* What does not touch the list keeps it, the backends and their files.
LEMMA ListSame ==
  ASSUME Listed, Backends, FilesOwned, UNCHANGED <<heap, alloc, head, open>>
  PROVE  Listed' /\ Backends' /\ FilesOwned'
<1>1. PICK n, c : Lists(n, c)
  BY DEF Listed
<1>2. Lists(n, c)'
  BY <1>1 DEF Lists
<1>3. Listed'
  BY <1>2 DEF Listed
<1>4. Backends'
  BY DEF Backends, Use
<1>5. FilesOwned'
  BY DEF FilesOwned
<1> QED
  BY <1>3, <1>4, <1>5

\* At first nothing is registered.
LEMMA InitIInv == Init => IInv
<1> SUFFICES ASSUME Init PROVE IInv
  OBVIOUS
<1>1. Blank \in Entries
  BY DEF Blank, Entries, Pointer
<1>2. TypeOK
  BY <1>1 DEF Init, TypeOK, Entries, Pointer
<1>3. Lists(0, [i \in 1 .. 0 |-> NULL])
  BY DEF Init, Lists, EntryAt
<1>4. Listed
  BY <1>3 DEF Listed
<1>5. Backends /\ FilesOwned /\ AtShutdown /\ UsedLive
  BY DEF Init, Backends, FilesOwned, AtShutdown, UsedLive
<1> QED
  BY <1>2, <1>4, <1>5 DEF IInv

\* A registration keeps the list; a file that comes with it is a new one.
LEMMA RegisterKeeps ==
  ASSUME IInv, NEW b \in Backend, RegisterBackend(b),
         b.callback = "stdio" /\ b.user \in File => b.user \notin open,
         open' = IF b.callback = "stdio" THEN open \cup ({b.user} \cap File) ELSE open
  PROVE  IInv'
<1>1. PICK n, c : Lists(n, c)
  BY DEF IInv, Listed
<1>2. PICK x \in Node \ alloc : ListAppend(x, b) /\ alloc' = alloc \cup {x}
  BY DEF RegisterBackend
<1>3. /\ Lists(n + 1, Extended(n, c, x))'
      /\ heap'[x].callback = b.callback /\ heap'[x].user = b.user
      /\ \A y \in alloc : heap'[y].callback = heap[y].callback /\ heap'[y].user = heap[y].user
  BY <1>1, <1>2, AppendKeeps DEF IInv, SameUse
<1>4. pc \in {"idle", "callback"} /\ UNCHANGED <<pc, cur, orphan>>
  BY DEF RegisterBackend, MayCall
<1>5. b.user \in File => b.callback = "stdio"
  BY BackendAssumption DEF Backend
<1>6. TypeOK'
  <2>1. heap' \in [Node -> Entries] /\ head' \in Pointer
    BY <1>1, <1>2, AppendTypes DEF IInv
  <2> QED
    BY <1>2, <1>4, <2>1 DEF IInv, TypeOK, Entries
<1>7. Listed'
  BY <1>3 DEF Listed
<1>8. Backends'
  <2>1. [callback |-> b.callback, user |-> b.user] = b
    BY DEF Backend
  <2> QED
    BY <1>2, <1>3, <2>1 DEF IInv, Backends, Use
<1>9. FilesOwned'
  <2>1. \A y \in alloc : heap[y].user \in File => heap[y].user \in open
    BY FilesAreStdio DEF IInv, FilesOwned
  <2>2. open' = {heap'[y].user : y \in {m \in alloc' : heap'[m].callback = "stdio"}} \cap File
    <3>1. CASE b.callback = "stdio"
      BY <1>2, <1>3, <3>1 DEF IInv, FilesOwned
    <3>2. CASE b.callback # "stdio"
      BY <1>2, <1>3, <3>2 DEF IInv, FilesOwned
    <3> QED
      BY <3>1, <3>2
  <2>3. ASSUME NEW y \in alloc', NEW z \in alloc', heap'[y].user \in File,
               heap'[y].user = heap'[z].user
        PROVE  y = z
    <3>1. CASE y \in alloc /\ z \in alloc
      BY <1>3, <2>3, <3>1 DEF IInv, FilesOwned
    <3>2. CASE y = x /\ z \in alloc
      BY <1>3, <1>5, <2>1, <2>3, <3>2
    <3>3. CASE y \in alloc /\ z = x
      BY <1>3, <1>5, <2>1, <2>3, <3>3
    <3> QED
      BY <1>2, <2>3, <3>1, <3>2, <3>3
  <2> QED
    BY <2>2, <2>3 DEF FilesOwned
<1>10. AtShutdown' /\ UsedLive'
  BY <1>2, <1>4 DEF IInv, AtShutdown, UsedLive
<1> QED
  BY <1>6, <1>7, <1>8, <1>9, <1>10 DEF IInv

\* A removal keeps the list, and closes the file that came with the entry.
LEMMA RemoveKeeps ==
  ASSUME IInv, NEW x \in alloc, RemoveEntry(x)
  PROVE  /\ Listed' /\ Backends' /\ FilesOwned'
         /\ heap' \in [Node -> Entries] /\ head' \in Pointer
         /\ alloc' \subseteq Node /\ open' \subseteq File
<1>1. PICK n, c : Lists(n, c)
  BY DEF IInv, Listed
<1>2. PICK m \in 1 .. n : x = c[m]
  BY <1>1 DEF Lists
<1>3. ListDelete(x) /\ alloc' = alloc \ {x} /\ x \in Node
  BY DEF RemoveEntry, IInv, TypeOK
<1>4. /\ Lists(n - 1, Without(n, c, m))'
      /\ \A y \in alloc : heap'[y].callback = heap[y].callback /\ heap'[y].user = heap[y].user
  BY <1>1, <1>2, <1>3, DeleteKeeps DEF IInv, SameUse
<1>5. heap' \in [Node -> Entries] /\ head' \in Pointer
  BY <1>3, DeleteTypes DEF IInv
<1>6. alloc' \subseteq Node /\ open' \subseteq File
  BY <1>3 DEF RemoveEntry, IInv, TypeOK
<1>7. Backends'
  BY <1>3, <1>4 DEF IInv, Backends, Use
<1>8. FilesOwned'
  <2>1. \A y, z \in alloc : heap[y].user \in File /\ heap[y].user = heap[z].user => y = z
    BY DEF IInv, FilesOwned
  <2>2. open = {heap[y].user : y \in {z \in alloc : heap[z].callback = "stdio"}} \cap File
    BY DEF IInv, FilesOwned
  <2>3. open' = {heap[y].user : y \in {z \in alloc' : heap[z].callback = "stdio"}} \cap File
    <3>1. CASE heap[x].callback = "stdio"
      BY <1>3, <2>1, <2>2, <3>1 DEF RemoveEntry
    <3>2. CASE heap[x].callback # "stdio"
      BY <1>3, <2>2, <3>2 DEF RemoveEntry
    <3> QED
      BY <3>1, <3>2
  <2>4. open' = {heap'[y].user : y \in {z \in alloc' : heap'[z].callback = "stdio"}} \cap File
    BY <1>3, <1>4, <2>3
  <2>5. \A y, z \in alloc' : heap'[y].user \in File /\ heap'[y].user = heap'[z].user => y = z
    BY <1>3, <1>4, <2>1
  <2> QED
    BY <2>4, <2>5 DEF FilesOwned
<1>9. Listed'
  BY <1>4 DEF Listed
<1> QED
  BY <1>5, <1>6, <1>7, <1>8, <1>9

\* A backend that has a match has a victim, which is one of the entries.
LEMMA VictimFound ==
  ASSUME NEW n, NEW c, Lists(n, c), NEW b, Same(b) # {}
  PROVE  \E m \in 1 .. n :
           /\ Victim(b) = c[m]
           /\ \/ /\ c[m] \in Exact(b)
                 /\ \A i \in 1 .. n : c[i] \in Exact(b) => m <= i
              \/ /\ Exact(b) = {} /\ c[m] \in Same(b)
                 /\ \A i \in 1 .. n : c[i] \in Same(b) => m <= i
<1>1. Exact(b) \in SUBSET alloc /\ Same(b) \in SUBSET alloc
  BY ListFound DEF Exact, Same
<1>2. CASE Exact(b) # {}
  <2>1. PICK m \in 1 .. n : /\ ListMatch(Exact(b)) = c[m] /\ c[m] \in Exact(b)
                            /\ \A i \in 1 .. n : c[i] \in Exact(b) => m <= i
    BY <1>1, <1>2, FirstMatch
  <2> QED
    BY <1>2, <2>1 DEF Victim
<1>3. CASE Exact(b) = {}
  <2>1. PICK m \in 1 .. n : /\ ListMatch(Same(b)) = c[m] /\ c[m] \in Same(b)
                            /\ \A i \in 1 .. n : c[i] \in Same(b) => m <= i
    BY <1>1, FirstMatch
  <2> QED
    BY <1>3, <2>1 DEF Victim
<1> QED
  BY <1>2, <1>3

\* log_unregister_backend, called by the program or in a callback.
LEMMA UnregisterKeeps ==
  ASSUME IInv, NEW b \in Backend, Unregister(b)
  PROVE  IInv'
<1>1. PICK n, c : Lists(n, c)
  BY DEF IInv, Listed
<1>2. Victim(b) \in alloc
  BY <1>1, VictimFound DEF Unregister, Lists
<1>3. RemoveEntry(Victim(b)) /\ UNCHANGED <<pc, cur>>
  BY DEF Unregister
<1>4. /\ pc \in {"idle", "callback"} /\ orphan \in BOOLEAN
      /\ orphan' = (orphan \/ (pc = "callback" /\ Victim(b) = cur))
  BY DEF Unregister, MayCall, IInv, TypeOK
<1>5. TypeOK'
  <2>1. orphan' \in BOOLEAN
    BY <1>4
  <2> QED
    BY <1>2, <1>3, <2>1, RemoveKeeps DEF IInv, TypeOK, Entries
<1>6. alloc' = alloc \ {Victim(b)}
  BY <1>3 DEF RemoveEntry
<1>7. AtShutdown' /\ UsedLive'
  BY <1>3, <1>4, <1>6 DEF IInv, AtShutdown, UsedLive
<1> QED
  BY <1>2, <1>3, <1>5, <1>7, RemoveKeeps DEF IInv

\* The shutdown removes the entry at the front, and goes on with the next.
LEMMA ShutdownRemoves ==
  ASSUME IInv, ShutdownEntry, NEW n, NEW c, Lists(n, c)
  PROVE  /\ 1 \in 1 .. n /\ cur = c[1] /\ cur \in alloc
         /\ Victim(Use(cur)) = c[1] /\ cur \in Exact(Use(cur))
         /\ RemoveEntry(cur) /\ cur' = head' /\ UNCHANGED <<pc, orphan>>
<1>1. cur = EntryAt(n, c, 1) /\ cur # NULL
  BY DEF IInv, AtShutdown, ShutdownEntry, Lists
<1>2. 1 \in 1 .. n /\ cur = c[1]
  BY <1>1 DEF EntryAt
<1>3. cur \in alloc /\ cur \in Linked
  BY <1>2, ListFound DEF Lists
<1>4. cur \in Exact(Use(cur)) /\ cur \in Same(Use(cur))
  BY <1>3 DEF Exact, Same, Use
<1>5. PICK m \in 1 .. n : /\ Victim(Use(cur)) = c[m]
                          /\ \A i \in 1 .. n : c[i] \in Exact(Use(cur)) => m <= i
  BY <1>4, VictimFound
<1>6. m = 1
  BY <1>2, <1>4, <1>5 DEF Lists
<1>7. /\ cur' = heap[cur].next /\ RemoveEntry(Victim(Use(cur))) /\ UNCHANGED <<pc, orphan>>
  BY <1>3 DEF ShutdownEntry, Use
<1>8. RemoveEntry(cur)
  BY <1>2, <1>5, <1>6, <1>7
<1>9. heap[cur].prev = NULL
  BY <1>2 DEF Lists, EntryAt
<1>10. head' = heap[cur].next
  BY <1>8, <1>9 DEF RemoveEntry, ListDelete
<1> QED
  BY <1>2, <1>3, <1>4, <1>5, <1>6, <1>7, <1>8, <1>10

LEMMA ShutdownKeeps ==
  ASSUME IInv, ShutdownEntry
  PROVE  IInv'
<1>1. PICK n, c : Lists(n, c)
  BY DEF IInv, Listed
<1>2. /\ cur \in alloc /\ RemoveEntry(cur) /\ cur' = head' /\ UNCHANGED <<pc, orphan>>
      /\ pc = "shutdown"
  BY <1>1, ShutdownRemoves DEF ShutdownEntry
<1>3. TypeOK'
  BY <1>2, RemoveKeeps DEF IInv, TypeOK, Entries
<1>4. AtShutdown' /\ UsedLive'
  BY <1>2 DEF AtShutdown, UsedLive
<1> QED
  BY <1>2, <1>3, <1>4, RemoveKeeps DEF IInv

\* An entry in use can be visited: its stream is open.
LEMMA EnterKeeps ==
  ASSUME IInv, NEW x \in alloc, Enter(x)
  PROVE  /\ IInv' /\ pc' = "callback" /\ cur' = x /\ orphan' = FALSE
         /\ UNCHANGED <<heap, alloc, head, open>>
<1>1. heap[x].user \in File => heap[x].user \in open
  BY FilesAreStdio DEF IInv, FilesOwned
<1>2. /\ UNCHANGED <<heap, alloc, head, open>>
      /\ pc' = "callback" /\ cur' = x /\ orphan' = FALSE
  BY <1>1 DEF Enter
<1>3. TypeOK' /\ AtShutdown' /\ UsedLive'
  BY <1>2 DEF IInv, TypeOK, AtShutdown, UsedLive, Pointer
<1>4. Listed' /\ Backends' /\ FilesOwned'
  BY <1>2, ListSame DEF IInv
<1> QED
  BY <1>2, <1>3, <1>4 DEF IInv

\* What follows an entry in use is in use, if there is anything.
LEMMA NextLive ==
  ASSUME IInv, NEW x \in alloc, heap[x].next # NULL
  PROVE  heap[x].next \in alloc
<1>1. PICK n, c : Lists(n, c)
  BY DEF IInv, Listed
<1>2. PICK i \in 1 .. n : x = c[i]
  BY <1>1 DEF Lists
<1>3. heap[x].next = EntryAt(n, c, i + 1)
  BY <1>1, <1>2 DEF Lists
<1> QED
  BY <1>1, <1>3 DEF Lists, EntryAt

LEMMA SendKeeps ==
  ASSUME IInv, Send
  PROVE  /\ IInv' /\ pc' = "callback" /\ cur' = head /\ orphan' = FALSE
         /\ UNCHANGED <<heap, alloc, head, open>>
<1>1. PICK n, c : Lists(n, c)
  BY DEF IInv, Listed
<1>2. head \in alloc /\ Enter(head)
  BY <1>1 DEF Send, Lists, EntryAt
<1> QED
  BY <1>2, EnterKeeps

LEMMA ReturnKeeps ==
  ASSUME IInv, Return
  PROVE  IInv'
<1>1. CASE cur \notin alloc
  <2>1. UNCHANGED <<heap, alloc, head, open, cur, orphan>> /\ pc' = "fault"
    BY <1>1 DEF Return, Fault
  <2>2. orphan
    BY <1>1 DEF IInv, UsedLive, Return
  <2>3. TypeOK' /\ AtShutdown' /\ UsedLive'
    BY <2>1, <2>2 DEF IInv, TypeOK, AtShutdown, UsedLive
  <2> QED
    BY <2>1, <2>3, ListSame DEF IInv
<1>2. CASE cur \in alloc /\ heap[cur].next # NULL
  <2>1. Enter(heap[cur].next) /\ heap[cur].next \in alloc
    BY <1>2, NextLive DEF Return
  <2> QED
    BY <2>1, EnterKeeps
<1>3. CASE cur \in alloc /\ heap[cur].next = NULL
  <2>1. UNCHANGED <<heap, alloc, head, open>> /\ pc' = "idle" /\ cur' = NULL /\ orphan' = FALSE
    BY <1>3 DEF Return
  <2>2. TypeOK' /\ AtShutdown' /\ UsedLive'
    BY <2>1 DEF IInv, TypeOK, AtShutdown, UsedLive, Pointer
  <2> QED
    BY <2>1, <2>2, ListSame DEF IInv
<1> QED
  BY <1>1, <1>2, <1>3

\* The beginning and the end of a shutdown change neither the list nor a file.
LEMMA LoopKeeps ==
  ASSUME IInv, BeginShutdown \/ EndShutdown \/ UNCHANGED vars
  PROVE  IInv'
<1>1. UNCHANGED <<heap, alloc, head, open>>
  BY DEF BeginShutdown, EndShutdown, vars
<1>2. TypeOK' /\ AtShutdown' /\ UsedLive'
  <2>1. CASE BeginShutdown
    BY <2>1 DEF IInv, TypeOK, AtShutdown, UsedLive, BeginShutdown
  <2>2. CASE EndShutdown
    BY <2>2 DEF IInv, TypeOK, AtShutdown, UsedLive, EndShutdown
  <2>3. CASE UNCHANGED vars
    BY <2>3 DEF IInv, TypeOK, AtShutdown, UsedLive, vars
  <2> QED
    BY <2>1, <2>2, <2>3
<1> QED
  BY <1>1, <1>2, ListSame DEF IInv

\* log_stdio registers a stream that is not one of the open files.
LEMMA LogStdioRegisters ==
  ASSUME NEW s \in File \cup Std \cup {NULL}, LogStdio(s)
  PROVE  \E b \in Backend :
           /\ RegisterBackend(b)
           /\ b.callback = "stdio" /\ b.user \in File => b.user \notin open
           /\ open' = IF b.callback = "stdio" THEN open \cup ({b.user} \cap File) ELSE open
<1> DEFINE b == [callback |-> "stdio", user |-> s]
<1>1. b \in Backend /\ b.callback = "stdio" /\ b.user = s
  BY DEF Backend
<1> QED
  BY <1>1 DEF LogStdio

\* Every step keeps the invariant.
LEMMA StepIInv == IInv /\ [Next]_vars => IInv'
<1> SUFFICES ASSUME IInv, [Next]_vars PROVE IInv'
  OBVIOUS
<1>1. CASE \E s \in File \cup Std \cup {NULL} : LogStdio(s)
  <2>1. PICK s \in File \cup Std \cup {NULL} : LogStdio(s)
    BY <1>1
  <2> QED
    BY <2>1, LogStdioRegisters, RegisterKeeps
<1>2. CASE \E b \in Backend : b.callback \in Custom /\ (RegisterCustom(b) \/ Unregister(b))
  <2>1. PICK b \in Backend : b.callback \in Custom /\ (RegisterCustom(b) \/ Unregister(b))
    BY <1>2
  <2>2. CASE RegisterCustom(b)
    <3>1. b.callback # "stdio" /\ RegisterBackend(b) /\ open' = open
      BY <2>1, <2>2, BackendAssumption DEF RegisterCustom
    <3> QED
      BY <3>1, RegisterKeeps
  <2>3. CASE Unregister(b)
    BY <2>3, UnregisterKeeps
  <2> QED
    BY <2>1, <2>2, <2>3
<1>3. CASE ShutdownEntry
  BY <1>3, ShutdownKeeps
<1>4. CASE Send
  BY <1>4, SendKeeps
<1>5. CASE Return
  BY <1>5, ReturnKeeps
<1>6. CASE BeginShutdown \/ EndShutdown \/ UNCHANGED vars
  BY <1>6, LoopKeeps
<1> QED
  BY <1>1, <1>2, <1>3, <1>4, <1>5, <1>6 DEF Next

LEMMA Invariance == Spec => []IInv
<1> QED
  BY InitIInv, StepIInv, PTL DEF Spec

\* A list along a sequence is doubly linked.
LEMMA ListedLinks ==
  ASSUME TypeOK, Listed
  PROVE  DoublyLinked
<1>1. PICK n, c : Lists(n, c)
  BY DEF Listed
<1>2. n \in Nat /\ c \in [1 .. n -> Node] /\ NULL \notin Node
  BY <1>1, BackendAssumption DEF Lists
<1>3. Linked = alloc
  BY <1>1, ListFound
<1>4. ASSUME head # NULL PROVE heap[head].prev = NULL
  <2>1. head = c[1] /\ 1 \in 1 .. n
    BY <1>1, <1>4 DEF Lists, EntryAt
  <2>2. heap[c[1]].prev = EntryAt(n, c, 0)
    BY <1>1, <2>1 DEF Lists
  <2> QED
    BY <2>1, <2>2 DEF EntryAt
<1>5. ASSUME NEW x \in alloc
      PROVE  /\ heap[x].next # NULL => heap[heap[x].next].prev = x
             /\ heap[x].prev # NULL => heap[x].prev \in alloc /\ heap[heap[x].prev].next = x
  <2>1. PICK i \in 1 .. n : x = c[i]
    BY <1>1 DEF Lists
  <2>2. heap[x].next = EntryAt(n, c, i + 1) /\ heap[x].prev = EntryAt(n, c, i - 1)
    BY <1>1, <2>1 DEF Lists
  <2>3. ASSUME heap[x].next # NULL PROVE heap[heap[x].next].prev = x
    <3>1. i + 1 \in 1 .. n /\ heap[x].next = c[i + 1]
      BY <2>2, <2>3 DEF EntryAt
    <3>2. heap[c[i + 1]].prev = EntryAt(n, c, (i + 1) - 1)
      BY <1>1, <3>1 DEF Lists
    <3> QED
      BY <1>2, <2>1, <3>1, <3>2 DEF EntryAt
  <2>4. ASSUME heap[x].prev # NULL
        PROVE  heap[x].prev \in alloc /\ heap[heap[x].prev].next = x
    <3>1. i - 1 \in 1 .. n /\ heap[x].prev = c[i - 1]
      BY <2>2, <2>4 DEF EntryAt
    <3>2. heap[c[i - 1]].next = EntryAt(n, c, (i - 1) + 1) /\ c[i - 1] \in alloc
      BY <1>1, <3>1 DEF Lists
    <3> QED
      BY <1>2, <2>1, <3>1, <3>2 DEF EntryAt
  <2> QED
    BY <2>3, <2>4
<1> QED
  BY <1>3, <1>4, <1>5 DEF DoublyLinked

\* The entries in use are the ones in the list, and prev undoes next: whatever
\* the program and the callbacks register and remove, even their own backend.
THEOREM ListWellFormed == Spec => []WellFormed
<1>1. IInv => WellFormed
  BY ListedLinks DEF IInv, WellFormed
<1> QED
  BY <1>1, Invariance, PTL

\* A file is open exactly while the one stdio backend it came with is there.
THEOREM FilesHaveOwners == Spec => []FilesOwned
<1>1. IInv => FilesOwned
  BY DEF IInv
<1> QED
  BY <1>1, Invariance, PTL

\* log.c, head comment: backends can be added and removed at any time.  They
\* can, in the code as it is, unless a callback removes its own backend: the
\* loop reads the entry's next pointer after the callback has returned.  That
\* is the one way to a use of freed memory or of a closed stream.
THEOREM FaultsExplained == Spec => []UseExplained
<1>1. IInv => UseExplained
  BY DEF IInv, UsedLive, UseExplained
<1> QED
  BY <1>1, Invariance, PTL

(***************************************************************************)
(* Refinement: the list implements the ordered collection of backends, as  *)
(* long as no callback has removed its own                                 *)
(***************************************************************************)
\* The entry a message is at, or the one before it if that is gone.
Behind == IF orphan THEN heap[cur].prev ELSE cur

\* k is its index, or 0.
Placed(n, c, k) ==
  IF pc = "callback" THEN k \in 0 .. n /\ Behind = EntryAt(n, c, k) /\ (~orphan => k # 0)
  ELSE k = 0

\* The state of the registry that goes with the sequence c.
Shown(n, c, k) == /\ Registered = [i \in 1 .. n |-> Use(c[i])]
                  /\ At = k

AllShown == \A n, c, k : Lists(n, c) /\ Placed(n, c, k) => Shown(n, c, k)

LEMMA RegistryShown == AllShown
<1> SUFFICES ASSUME NEW n, NEW c, NEW k, Lists(n, c), Placed(n, c, k) PROVE Shown(n, c, k)
  BY DEF AllShown
<1>1. Chain = c /\ n \in Nat /\ c \in [1 .. n -> Node] /\ DOMAIN Chain = 1 .. n
  BY ListFound DEF Lists
<1>2. Registered = [i \in 1 .. n |-> Use(c[i])]
  BY <1>1 DEF Registered, Use
<1>3. CASE pc = "callback"
  <2>1. k \in 0 .. n /\ Behind = EntryAt(n, c, k) /\ At = IndexOf(Behind)
    BY <1>3 DEF Placed, At, Behind
  <2>2. CASE k = 0
    <3>1. Behind = NULL /\ \A i \in 1 .. n : c[i] # NULL
      BY <1>1, <2>1, <2>2, BackendAssumption DEF EntryAt
    <3>2. IndexOf(Behind) = 0
      BY <1>1, <3>1 DEF IndexOf
    <3> QED
      BY <1>2, <2>1, <2>2, <3>2 DEF Shown
  <2>3. CASE k # 0
    <3>1. k \in 1 .. n /\ Behind = c[k] /\ \A i \in 1 .. n : c[i] = Behind => i = k
      BY <1>1, <2>1, <2>3 DEF EntryAt, Lists
    <3>2. (CHOOSE i \in 1 .. n : c[i] = Behind) = k
      BY <3>1
    <3>3. IndexOf(Behind) = k
      BY <1>1, <3>1, <3>2 DEF IndexOf
    <3> QED
      BY <1>2, <2>1, <3>3 DEF Shown
  <2> QED
    BY <2>2, <2>3
<1>4. CASE pc # "callback"
  BY <1>2, <1>4 DEF Shown, At, Placed
<1> QED
  BY <1>3, <1>4

\* The same of the next state.
LEMMA RegistryShownNext == AllShown'
BY RegistryShown, PTL

\* Sequences written as functions: one longer, and one shorter.
LEMMA AppendIs ==
  ASSUME NEW S, NEW n \in Nat, NEW f \in [1 .. n -> S], NEW b \in S
  PROVE  Append(f, b) = [i \in 1 .. n + 1 |-> IF i <= n THEN f[i] ELSE b]
<1>1. f \in Seq(S) /\ Len(f) = n
  OBVIOUS
<1>2. /\ Append(f, b) \in Seq(S) /\ Len(Append(f, b)) = n + 1
      /\ \A i \in 1 .. n : Append(f, b)[i] = f[i]
      /\ Append(f, b)[n + 1] = b
  BY <1>1, AppendProperties
<1>3. Append(f, b) \in [1 .. n + 1 -> S]
  BY <1>2, LenProperties
<1>4. \A i \in 1 .. n + 1 : Append(f, b)[i] = IF i <= n THEN f[i] ELSE b
  BY <1>2
<1> QED
  BY <1>3, <1>4

LEMMA RemoveIs ==
  ASSUME NEW S, NEW n \in Nat, NEW f \in [1 .. n -> S], NEW m \in 1 .. n
  PROVE  SubSeq(f, 1, m - 1) \o SubSeq(f, m + 1, Len(f))
           = [i \in 1 .. n - 1 |-> IF i < m THEN f[i] ELSE f[i + 1]]
<1> DEFINE s == SubSeq(f, 1, m - 1)
           t == SubSeq(f, m + 1, n)
<1>1. f \in Seq(S) /\ Len(f) = n
  OBVIOUS
<1>2. /\ s \in Seq(S) /\ Len(s) = m - 1
      /\ \A i \in 1 .. m - 1 : s[i] = f[i]
  BY <1>1, SubSeqProperties
<1>3. /\ t \in Seq(S) /\ Len(t) = n - m
      /\ \A i \in 1 .. n - m : t[i] = f[m + i]
  BY <1>1, SubSeqProperties
<1> HIDE DEF s, t
<1>4. /\ s \o t \in Seq(S) /\ Len(s \o t) = n - 1
      /\ \A i \in 1 .. n - 1 : (s \o t)[i] = IF i <= m - 1 THEN s[i] ELSE t[i - (m - 1)]
  <2>1. Len(s) + Len(t) = n - 1
    BY <1>2, <1>3
  <2>2. /\ s \o t \in Seq(S) /\ Len(s \o t) = Len(s) + Len(t)
        /\ \A i \in 1 .. Len(s) + Len(t) :
             (s \o t)[i] = IF i <= Len(s) THEN s[i] ELSE t[i - Len(s)]
    BY <1>2, <1>3, ConcatProperties
  <2> QED
    BY <1>2, <2>1, <2>2
<1>5. s \o t \in [1 .. n - 1 -> S]
  BY <1>4, LenProperties
<1>6. ASSUME NEW i \in 1 .. n - 1
      PROVE  (s \o t)[i] = IF i < m THEN f[i] ELSE f[i + 1]
  <2>1. CASE i < m
    BY <1>2, <1>4, <2>1
  <2>2. CASE ~(i < m)
    <3>1. i - (m - 1) \in 1 .. n - m /\ m + (i - (m - 1)) = i + 1
      BY <2>2
    <3> QED
      BY <1>3, <1>4, <2>2, <3>1
  <2> QED
    BY <2>1, <2>2
<1>7. s \o t = [i \in 1 .. n - 1 |-> IF i < m THEN f[i] ELSE f[i + 1]]
  BY <1>5, <1>6
<1> QED
  BY <1>1, <1>7 DEF s, t

\* The backends of a list are a sequence of backends.
LEMMA RegisteredType ==
  ASSUME Backends, NEW n, NEW c, Lists(n, c)
  PROVE  /\ n \in Nat /\ [i \in 1 .. n |-> Use(c[i])] \in [1 .. n -> Backend]
         /\ Len([i \in 1 .. n |-> Use(c[i])]) = n
         /\ \A i \in 1 .. n : c[i] \in alloc
<1>1. n \in Nat /\ \A i \in 1 .. n : c[i] \in alloc
  BY DEF Lists
<1>2. [i \in 1 .. n |-> Use(c[i])] \in [1 .. n -> Backend]
  BY <1>1 DEF Backends
<1> QED
  BY <1>1, <1>2

\* A registration appends its backend.
LEMMA RegisterRefines ==
  ASSUME IInv, ~orphan, NEW b \in Backend, RegisterBackend(b), NEW n, NEW c, Lists(n, c),
         NEW k, Placed(n, c, k)
  PROVE  Registry!Register(b)
<1> DEFINE f == [i \in 1 .. n |-> Use(c[i])]
<1>1. PICK x \in Node \ alloc : ListAppend(x, b) /\ alloc' = alloc \cup {x}
  BY DEF RegisterBackend
<1> DEFINE d == Extended(n, c, x)
<1>2. /\ Lists(n + 1, d)'
      /\ heap'[x].callback = b.callback /\ heap'[x].user = b.user
      /\ \A y \in alloc : heap'[y].callback = heap[y].callback /\ heap'[y].user = heap[y].user
  BY <1>1, AppendKeeps DEF IInv, SameUse
<1>3. n \in Nat /\ f \in [1 .. n -> Backend] /\ \A i \in 1 .. n : c[i] \in alloc
  BY RegisteredType DEF IInv
<1>4. d[n + 1] = x /\ \A i \in 1 .. n : d[i] = c[i]
  BY <1>3 DEF Extended
<1>5. UNCHANGED <<pc, cur, orphan>>
  BY DEF RegisterBackend
<1>6. Placed(n + 1, d, k)'
  <2>1. k \in 1 .. n => k \in 1 .. n + 1 /\ EntryAt(n + 1, d, k) = EntryAt(n, c, k)
    BY <1>3, <1>4 DEF EntryAt
  <2> HIDE DEF d
  <2> QED
    BY <1>3, <1>5, <2>1 DEF Placed, Behind, EntryAt
<1> HIDE DEF d
<1>7. Shown(n, c, k) /\ Shown(n + 1, d, k)'
  BY <1>2, <1>6, RegistryShown, RegistryShownNext DEF AllShown
<1>8. ASSUME NEW i \in 1 .. n + 1
      PROVE  Use(d[i])' = IF i <= n THEN f[i] ELSE b
  <2>1. CASE i <= n
    BY <1>2, <1>3, <1>4, <2>1 DEF Use
  <2>2. CASE ~(i <= n)
    <3>1. i = n + 1
      BY <1>3, <2>2
    <3>2. [callback |-> b.callback, user |-> b.user] = b
      BY DEF Backend
    <3> QED
      BY <1>2, <1>4, <2>2, <3>1, <3>2 DEF Use
  <2> QED
    BY <2>1, <2>2
<1>9. Append(f, b) = [i \in 1 .. n + 1 |-> IF i <= n THEN f[i] ELSE b]
  BY <1>3, AppendIs
<1>10. Registered' = [i \in 1 .. n + 1 |-> Use(d[i])'] /\ At' = k /\ Registered = f /\ At = k
  BY <1>7 DEF Shown
<1> HIDE DEF f
<1>11. Registered' = Append(f, b)
  BY <1>8, <1>9, <1>10
<1> QED
  BY <1>10, <1>11 DEF Registry!Register

\* A removal of the entry at index m takes the m-th backend out, and moves a
\* message that is there or further on.
LEMMA RemoveRefines ==
  ASSUME IInv, ~orphan, NEW n, NEW c, Lists(n, c), NEW k, Placed(n, c, k),
         NEW m \in 1 .. n, RemoveEntry(c[m]), pc' = pc, pc = "callback" => cur' = cur,
         orphan' <=> (pc = "callback" /\ c[m] = cur)
  PROVE  /\ Registered' = SubSeq(Registered, 1, m - 1)
                            \o SubSeq(Registered, m + 1, Len(Registered))
         /\ At = k /\ At' = IF m <= k THEN k - 1 ELSE k
<1> DEFINE f == [i \in 1 .. n |-> Use(c[i])]
           d == Without(n, c, m)
           l == IF m <= k THEN k - 1 ELSE k
<1>1. n \in Nat /\ f \in [1 .. n -> Backend] /\ \A i \in 1 .. n : c[i] \in alloc
  BY RegisteredType DEF IInv
<1>2. /\ Lists(n - 1, d)'
      /\ \A y \in alloc : heap'[y].callback = heap[y].callback /\ heap'[y].user = heap[y].user
  BY DeleteKeeps DEF RemoveEntry, IInv, SameUse
<1>3. \A i \in 1 .. n - 1 : d[i] = IF i < m THEN c[i] ELSE c[i + 1]
  BY <1>1 DEF Without
<1>4. Placed(n - 1, d, l)'
  <2>1. CASE pc = "callback"
    <3>1. k \in 1 .. n /\ cur = c[k] /\ pc' = "callback" /\ cur' = cur
      BY <1>1, <2>1 DEF Placed, Behind, EntryAt
    <3>2. orphan' <=> (m = k)
      BY <1>1, <2>1, <3>1 DEF Lists
    <3>3. CASE m = k
      <4>1. heap'[cur].prev = heap[cur].prev /\ heap[cur].prev = EntryAt(n, c, k - 1)
        <5>1. cur \in Node /\ heap[cur].next # cur
          <6>1. heap[cur].next = EntryAt(n, c, k + 1) /\ cur \in Node /\ NULL \notin Node
            BY <3>1, BackendAssumption DEF Lists
          <6>2. k + 1 \in 1 .. n => c[k + 1] # c[k]
            BY <1>1, <3>1 DEF Lists
          <6> QED
            BY <3>1, <6>1, <6>2 DEF EntryAt
        <5>2. ListDelete(cur) /\ heap[cur].prev = EntryAt(n, c, k - 1)
          BY <3>1, <3>3 DEF RemoveEntry, Lists
        <5> QED
          BY <5>1, <5>2 DEF ListDelete, IInv, TypeOK
      <4>2. l = k - 1 /\ l \in 0 .. n - 1 /\ EntryAt(n - 1, d, l) = EntryAt(n, c, k - 1)
        BY <1>1, <1>3, <3>1, <3>3 DEF EntryAt
      <4> HIDE DEF d, l
      <4> QED
        BY <3>1, <3>2, <3>3, <4>1, <4>2 DEF Placed, Behind, EntryAt
    <3>4. CASE m # k
      <4>1. l \in 1 .. n - 1 /\ d[l] = c[k]
        <5>1. CASE m < k
          BY <1>1, <1>3, <3>1, <5>1
        <5>2. CASE ~(m < k)
          BY <1>1, <1>3, <3>1, <3>4, <5>2
        <5> QED
          BY <5>1, <5>2
      <4> HIDE DEF d, l
      <4>2. l \in 0 .. n - 1 /\ l # 0
        BY <1>1, <4>1
      <4> QED
        BY <3>1, <3>2, <3>4, <4>1, <4>2 DEF Placed, Behind, EntryAt
    <3> QED
      BY <3>3, <3>4
  <2>2. CASE pc # "callback"
    BY <1>1, <2>2 DEF Placed
  <2> QED
    BY <2>1, <2>2
<1> HIDE DEF d, l
<1>5. Shown(n, c, k) /\ Shown(n - 1, d, l)'
  BY <1>2, <1>4, RegistryShown, RegistryShownNext DEF AllShown
<1>6. ASSUME NEW i \in 1 .. n - 1
      PROVE  Use(d[i])' = IF i < m THEN f[i] ELSE f[i + 1]
  <2>1. i \in 1 .. n /\ i + 1 \in 1 .. n
    BY <1>1
  <2>2. Use(d[i])' = Use(d[i])
    BY <1>1, <1>2, <1>3, <2>1 DEF Use
  <2> QED
    BY <1>3, <2>1, <2>2
<1>7. Registered' = [i \in 1 .. n - 1 |-> Use(d[i])'] /\ At' = l /\ Registered = f /\ At = k
  BY <1>5 DEF Shown
<1>8. SubSeq(f, 1, m - 1) \o SubSeq(f, m + 1, Len(f))
        = [i \in 1 .. n - 1 |-> IF i < m THEN f[i] ELSE f[i + 1]]
  BY <1>1, RemoveIs
<1> HIDE DEF f
<1>9. Registered' = SubSeq(f, 1, m - 1) \o SubSeq(f, m + 1, Len(f))
  BY <1>6, <1>7, <1>8
<1> QED
  BY <1>7, <1>9 DEF l

\* A message that is at an entry is at one in use, unless a callback removed it.
LEMMA HasPlace ==
  ASSUME IInv, ~orphan, NEW n, NEW c, Lists(n, c)
  PROVE  \E k : Placed(n, c, k)
<1>1. CASE pc = "callback"
  <2>1. PICK k \in 1 .. n : cur = c[k]
    BY <1>1 DEF IInv, UsedLive, Lists
  <2>2. k \in 0 .. n /\ k # 0 /\ Behind = EntryAt(n, c, k)
    BY <2>1 DEF Behind, EntryAt, Lists
  <2> QED
    BY <1>1, <2>2 DEF Placed
<1>2. CASE pc # "callback"
  BY <1>2 DEF Placed
<1> QED
  BY <1>1, <1>2

\* First picks the least index of a set.
LEMMA FirstIs ==
  ASSUME NEW S \in SUBSET Nat, NEW m \in S, \A j \in S : m <= j
  PROVE  Registry!First(S) = m
<1>1. \A i \in S : (\A j \in S : i <= j) => i = m
  OBVIOUS
<1>2. (CHOOSE i \in S : \A j \in S : i <= j) = m
  BY <1>1
<1> QED
  BY <1>2 DEF Registry!First

\* The entry that is picked is the one the registry picks.
LEMMA VictimRefines ==
  ASSUME IInv, NEW n, NEW c, Lists(n, c), NEW k, Placed(n, c, k),
         NEW b \in Backend, Same(b) # {}
  PROVE  \E m \in 1 .. n : Victim(b) = c[m] /\ Registry!Same(b) # {} /\ Registry!Victim(b) = m
<1> DEFINE exact == Registry!Exact(b)
           same  == Registry!Same(b)
<1>1. /\ n \in Nat /\ Linked = alloc /\ \A i \in 1 .. n : c[i] \in alloc
      /\ \A x \in alloc : \E i \in 1 .. n : x = c[i]
  BY ListFound DEF Lists
<1>2. Registered = [i \in 1 .. n |-> Use(c[i])]
  BY RegistryShown DEF AllShown, Shown
<1>3. /\ \A i : i \in exact <=> i \in 1 .. n /\ c[i] \in Exact(b)
      /\ \A i : i \in same <=> i \in 1 .. n /\ c[i] \in Same(b)
  <2> SUFFICES ASSUME NEW i \in 1 .. n
               PROVE  /\ Use(c[i]) = b <=> c[i] \in Exact(b)
                      /\ Use(c[i]).callback = b.callback <=> c[i] \in Same(b)
    BY <1>2 DEF Registry!Exact, Registry!Same
  <2>1. [callback |-> b.callback, user |-> b.user] = b
    BY DEF Backend
  <2> QED
    BY <1>1, <2>1 DEF Use, Exact, Same
<1>4. PICK m \in 1 .. n :
        /\ Victim(b) = c[m]
        /\ \/ c[m] \in Exact(b) /\ \A i \in 1 .. n : c[i] \in Exact(b) => m <= i
           \/ Exact(b) = {} /\ c[m] \in Same(b) /\ \A i \in 1 .. n : c[i] \in Same(b) => m <= i
  BY VictimFound
<1>5. c[m] \in Same(b)
  BY <1>4 DEF Exact, Same
<1> HIDE DEF exact, same
<1>6. CASE c[m] \in Exact(b) /\ \A i \in 1 .. n : c[i] \in Exact(b) => m <= i
  <2>1. exact \in SUBSET Nat /\ m \in exact /\ \A j \in exact : m <= j
    BY <1>1, <1>3, <1>6
  <2>2. Registry!First(exact) = m
    BY <2>1, FirstIs
  <2> QED
    BY <1>3, <1>4, <1>5, <2>1, <2>2 DEF Registry!Victim, exact, same
<1>7. CASE /\ Exact(b) = {} /\ c[m] \in Same(b)
           /\ \A i \in 1 .. n : c[i] \in Same(b) => m <= i
  <2>1. exact = {} /\ same \in SUBSET Nat /\ m \in same /\ \A j \in same : m <= j
    BY <1>1, <1>3, <1>7
  <2>2. Registry!First(same) = m
    BY <2>1, FirstIs
  <2> QED
    BY <1>4, <2>1, <2>2 DEF Registry!Victim, exact, same
<1> QED
  BY <1>4, <1>6, <1>7

\* The removal of the victim is the registry's, wherever a message is.
LEMMA VictimRemoved ==
  ASSUME IInv, ~orphan, NEW n, NEW c, Lists(n, c), NEW k, Placed(n, c, k),
         NEW b \in Backend, Same(b) # {}, RemoveEntry(Victim(b)), pc' = pc,
         pc = "callback" => cur' = cur,
         orphan' <=> (pc = "callback" /\ Victim(b) = cur)
  PROVE  Registry!Unregister(b)
<1>1. PICK m \in 1 .. n :
        Victim(b) = c[m] /\ Registry!Same(b) # {} /\ Registry!Victim(b) = m
  BY VictimRefines
<1>2. RemoveEntry(c[m]) /\ (orphan' <=> (pc = "callback" /\ c[m] = cur))
  BY <1>1
<1>3. /\ Registered' = SubSeq(Registered, 1, m - 1)
                         \o SubSeq(Registered, m + 1, Len(Registered))
      /\ At = k /\ At' = IF m <= k THEN k - 1 ELSE k
  BY <1>2, RemoveRefines
<1> QED
  BY <1>1, <1>3 DEF Registry!Unregister, Registry!RemoveAt

\* log_unregister_backend removes what the registry removes.
LEMMA UnregisterRefines ==
  ASSUME IInv, ~orphan, NEW n, NEW c, Lists(n, c),
         NEW k, Placed(n, c, k), NEW b \in Backend, Unregister(b)
  PROVE  Registry!Unregister(b)
<1>1. orphan' <=> (pc = "callback" /\ Victim(b) = cur)
  BY DEF Unregister
<1> QED
  BY <1>1, VictimRemoved DEF Unregister

\* log_shutdown unregisters the backends one by one.
LEMMA ShutdownRefines ==
  ASSUME IInv, ~orphan, NEW n, NEW c, Lists(n, c), NEW k, Placed(n, c, k), ShutdownEntry
  PROVE  \E b \in Backend : Registry!Unregister(b)
<1> DEFINE b == Use(cur)
<1>1. /\ cur \in alloc /\ Victim(b) = cur /\ cur \in Exact(b) /\ RemoveEntry(cur) /\ pc' = pc
      /\ orphan' = orphan
  BY ShutdownRemoves
<1>2. b \in Backend /\ pc = "shutdown"
  BY <1>1 DEF IInv, Backends, ShutdownEntry
<1>3. Same(b) # {}
  BY <1>1 DEF Exact, Same
<1> HIDE DEF b
<1>4. Registry!Unregister(b)
  BY <1>1, <1>2, <1>3, VictimRemoved
<1> QED
  BY <1>2, <1>4

\* What leaves the list alone moves a message at most.
LEMMA MoveRefines ==
  ASSUME NEW n, NEW c, Lists(n, c), NEW k, Placed(n, c, k), NEW l, Placed(n, c, l)',
         UNCHANGED <<heap, alloc, head>>
  PROVE  Registered' = Registered /\ Len(Registered) = n /\ At = k /\ At' = l
<1>1. Lists(n, c)' /\ n \in Nat
  BY DEF Lists
<1>2. Shown(n, c, k) /\ Shown(n, c, l)'
  BY <1>1, RegistryShown, RegistryShownNext DEF AllShown
<1>3. \A i \in 1 .. n : Use(c[i])' = Use(c[i])
  BY DEF Use
<1>4. Registered' = [i \in 1 .. n |-> Use(c[i])'] /\ Registered = [i \in 1 .. n |-> Use(c[i])]
  BY <1>2 DEF Shown
<1> QED
  BY <1>1, <1>2, <1>3, <1>4 DEF Shown

\* A message goes to the first backend.
LEMMA SendRefines ==
  ASSUME IInv, NEW n, NEW c, Lists(n, c), NEW k, Placed(n, c, k), Send
  PROVE  Registry!Visit
<1>1. pc' = "callback" /\ cur' = head /\ orphan' = FALSE /\ UNCHANGED <<heap, alloc, head>>
  BY SendKeeps
<1>2. k = 0 /\ n \in Nat /\ 1 \in 1 .. n /\ head = c[1]
  BY DEF Send, Placed, Lists, EntryAt
<1>3. Placed(n, c, 1)'
  BY <1>1, <1>2 DEF Placed, Behind, EntryAt
<1>4. Registered' = Registered /\ Len(Registered) = n /\ At = 0 /\ At' = 1
  BY <1>1, <1>2, <1>3, MoveRefines
<1> QED
  BY <1>2, <1>4 DEF Registry!Visit

\* It goes from each backend to the next, and from the last it is done.
LEMMA ReturnRefines ==
  ASSUME IInv, ~orphan, NEW n, NEW c, Lists(n, c), NEW k, Placed(n, c, k), Return
  PROVE  Registry!Visit \/ Registry!Finish
<1>1. k \in 1 .. n /\ n \in Nat /\ cur = c[k] /\ cur \in alloc
      /\ heap[cur].next = EntryAt(n, c, k + 1)
  <2>1. k \in 1 .. n /\ n \in Nat /\ cur = c[k]
    BY DEF Return, Placed, Behind, EntryAt, Lists
  <2> QED
    BY <2>1 DEF Lists
<1>2. CASE heap[cur].next # NULL
  <2>1. k + 1 \in 1 .. n /\ heap[cur].next = c[k + 1]
    BY <1>1, <1>2 DEF EntryAt
  <2>2. Enter(c[k + 1]) /\ c[k + 1] \in alloc
    BY <1>1, <1>2, <2>1 DEF Return, Lists
  <2>3. pc' = "callback" /\ cur' = c[k + 1] /\ orphan' = FALSE /\ UNCHANGED <<heap, alloc, head>>
    BY <2>2, EnterKeeps
  <2>4. Placed(n, c, k + 1)'
    BY <1>1, <2>1, <2>3 DEF Placed, Behind, EntryAt
  <2>5. Registered' = Registered /\ Len(Registered) = n /\ At = k /\ At' = k + 1
    BY <2>3, <2>4, MoveRefines
  <2> QED
    BY <1>1, <2>1, <2>5 DEF Registry!Visit
<1>3. CASE heap[cur].next = NULL
  <2>1. k = n
    <3>1. k + 1 \in 1 .. n => c[k + 1] # NULL
      BY BackendAssumption DEF Lists
    <3> QED
      BY <1>1, <1>3, <3>1 DEF EntryAt
  <2>2. pc' = "idle" /\ UNCHANGED <<heap, alloc, head>>
    BY <1>1, <1>3 DEF Return
  <2>3. Placed(n, c, 0)'
    BY <2>2 DEF Placed
  <2>4. Registered' = Registered /\ Len(Registered) = n /\ At = k /\ At' = 0
    BY <2>2, <2>3, MoveRefines
  <2> QED
    BY <1>1, <2>1, <2>4 DEF Registry!Finish
<1> QED
  BY <1>2, <1>3

\* The beginning and the end of a shutdown change nothing of the registry.
LEMMA LoopRefines ==
  ASSUME NEW n, NEW c, Lists(n, c), NEW k, Placed(n, c, k),
         BeginShutdown \/ EndShutdown \/ UNCHANGED vars
  PROVE  UNCHANGED Registry!vars
<1>1. Placed(n, c, k)' /\ UNCHANGED <<heap, alloc, head>>
  BY DEF Placed, Behind, BeginShutdown, EndShutdown, vars
<1> QED
  BY <1>1, MoveRefines DEF Registry!vars

\* Every step of the list is a step of the registry, or changes nothing of it,
\* unless a callback has removed its own backend.
LEMMA StepRefines == IInv /\ [Next]_vars => [Registry!Next \/ orphan]_(Registry!vars)
<1> SUFFICES ASSUME IInv, [Next]_vars, ~orphan
             PROVE  Registry!Next \/ UNCHANGED Registry!vars
  OBVIOUS
<1>1. PICK n, c : Lists(n, c)
  BY DEF IInv, Listed
<1>2. PICK k : Placed(n, c, k)
  BY <1>1, HasPlace
<1>3. CASE \E s \in File \cup Std \cup {NULL} : LogStdio(s)
  <2>1. PICK b \in Backend : RegisterBackend(b)
    BY <1>3, LogStdioRegisters
  <2>2. Registry!Register(b)
    BY <1>1, <1>2, <2>1, RegisterRefines
  <2> QED
    BY <2>2 DEF Registry!Next
<1>4. CASE \E b \in Backend : b.callback \in Custom /\ (RegisterCustom(b) \/ Unregister(b))
  <2>1. PICK b \in Backend : RegisterCustom(b) \/ Unregister(b)
    BY <1>4
  <2>2. RegisterCustom(b) => Registry!Register(b)
    BY <1>1, <1>2, RegisterRefines DEF RegisterCustom
  <2>3. Unregister(b) => Registry!Unregister(b)
    BY <1>1, <1>2, UnregisterRefines
  <2> QED
    BY <2>1, <2>2, <2>3 DEF Registry!Next
<1>5. CASE ShutdownEntry
  BY <1>1, <1>2, <1>5, ShutdownRefines DEF Registry!Next
<1>6. CASE Send
  BY <1>1, <1>2, <1>6, SendRefines DEF Registry!Next
<1>7. CASE Return
  BY <1>1, <1>2, <1>7, ReturnRefines DEF Registry!Next
<1>8. CASE BeginShutdown \/ EndShutdown \/ UNCHANGED vars
  BY <1>1, <1>2, <1>8, LoopRefines
<1> QED
  BY <1>3, <1>4, <1>5, <1>6, <1>7, <1>8 DEF Next

\* At first there is no backend, and no message.
LEMMA InitRefines == Init => Registry!Init
<1> SUFFICES ASSUME Init PROVE Registered = <<>> /\ At = 0
  BY DEF Registry!Init
<1> DEFINE c == [i \in 1 .. 0 |-> NULL]
<1>1. Lists(0, c) /\ Placed(0, c, 0)
  BY DEF Init, Lists, EntryAt, Placed
<1>2. Shown(0, c, 0)
  BY <1>1, RegistryShown DEF AllShown
<1> QED
  BY <1>2 DEF Shown

\* The list of core/list.h, with its pointers, its reuse of freed entries and
\* callbacks that register and remove backends, is the ordered collection that
\* log.c promises: a message visits every backend once, in the order of
\* registration, and a removal takes the first exact match, else the first with
\* the same callback.  A callback may remove even its own backend, but then
\* nothing is promised of the rest of its message.
THEOREM ImplementsRegistry == Spec => RefinesRegistry
<1>1. Init => Registry!Init
  BY InitRefines
<1>2. IInv /\ [Next]_vars => [Registry!Next \/ orphan]_(Registry!vars)
  BY StepRefines
<1> QED
  BY <1>1, <1>2, Invariance, PTL DEF Spec, RefinesRegistry
=============================================================================
