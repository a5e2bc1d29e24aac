--------------------------- MODULE RingQueueProofs ---------------------------
(***************************************************************************)
(* The ring buffer is a FIFO queue, for every capacity, growth, element    *)
(* and sequence of calls: what each operation leaves in the queue, and     *)
(* that a queue on its own implements Fifo.                                *)
(***************************************************************************)
EXTENDS RingQueue, SequenceTheorems, TLAPS

(* The shape of a queue, field by field *)

Arrays == UNION {[0 .. c - 1 -> Elements \cup {NoElement}] : c \in Caps}

\* r is a queue: head and tail are in the array, and between them every slot
\* holds an element.
IsRing(r) ==
  /\ r \in [buf : Arrays, cap : Caps, head : Nat, tail : Nat]
  /\ r.buf \in [0 .. r.cap - 1 -> Elements \cup {NoElement}]
  /\ r.head < r.cap
  /\ r.tail < r.cap
  /\ \A i \in 0 .. Count(r) - 1 : r.buf[Place(r, i)] \in Elements

LEMMA TypeIsRing == RqTypeOK <=> IsRing(ring)
<1>1. ASSUME RqTypeOK
      PROVE  IsRing(ring)
  <2>1. PICK c \in Caps : ring \in [buf : [0 .. c - 1 -> Elements \cup {NoElement}],
                                    cap : {c}, head : 0 .. c - 1, tail : 0 .. c - 1]
    BY <1>1 DEF RqTypeOK
  <2>2. ring.buf \in Arrays
    BY <2>1 DEF Arrays
  <2>3. /\ ring = [buf |-> ring.buf, cap |-> ring.cap, head |-> ring.head, tail |-> ring.tail]
        /\ ring.cap = c /\ ring.head \in 0 .. c - 1 /\ ring.tail \in 0 .. c - 1 /\ c \in Nat
    BY <2>1, CapsAssumption
  <2>4. ring \in [buf : Arrays, cap : Caps, head : Nat, tail : Nat]
    BY <2>2, <2>3
  <2>5. ring.buf \in [0 .. ring.cap - 1 -> Elements \cup {NoElement}]
    BY <2>1
  <2> QED  BY <1>1, <2>3, <2>4, <2>5 DEF RqTypeOK, IsRing
<1>2. ASSUME IsRing(ring)
      PROVE  RqTypeOK
  <2>1. /\ ring.cap \in Nat /\ ring.head \in 0 .. ring.cap - 1 /\ ring.tail \in 0 .. ring.cap - 1
        /\ ring = [buf |-> ring.buf, cap |-> ring.cap, head |-> ring.head, tail |-> ring.tail]
        /\ ring.buf \in [0 .. ring.cap - 1 -> Elements \cup {NoElement}] /\ ring.cap \in Caps
    <3>1. ring \in [buf : Arrays, cap : Caps, head : Nat, tail : Nat]
      BY <1>2 DEF IsRing
    <3>2. /\ ring.head < ring.cap /\ ring.tail < ring.cap
          /\ ring.buf \in [0 .. ring.cap - 1 -> Elements \cup {NoElement}]
      BY <1>2 DEF IsRing
    <3>3. ring.cap \in Nat
      BY <3>1, CapsAssumption
    <3> QED  BY <3>1, <3>2, <3>3
  <2> DEFINE c == ring.cap
  <2>2. ring \in [buf : [0 .. c - 1 -> Elements \cup {NoElement}],
                 cap : {c}, head : 0 .. c - 1, tail : 0 .. c - 1]
    BY <2>1
  <2> QED  BY <1>2, <2>1, <2>2 DEF RqTypeOK, IsRing
<1> QED  BY <1>1, <1>2

----------------------------------------------------------------------------
(* Places and counts *)

\* A queue never holds as many elements as its array has slots.
LEMMA CountBounded ==
  ASSUME NEW r, IsRing(r)
  PROVE  /\ r.cap \in Nat \ {0} /\ r.head \in 0 .. r.cap - 1 /\ r.tail \in 0 .. r.cap - 1
         /\ Count(r) \in 0 .. r.cap - 1
<1>1. r.cap \in Nat /\ r.head \in Nat /\ r.tail \in Nat /\ r.head < r.cap /\ r.tail < r.cap
  BY CapsAssumption DEF IsRing
<1> QED  BY <1>1 DEF Count

\* Elements are in the array, and in as many places as there are elements.
LEMMA PlaceInArray ==
  ASSUME NEW r, IsRing(r), NEW i \in Nat, i < r.cap
  PROVE  Place(r, i) \in 0 .. r.cap - 1
BY CountBounded DEF Place

LEMMA ItemsAreElements ==
  ASSUME NEW r, IsRing(r)
  PROVE  Items(r) \in Seq(Elements) /\ Len(Items(r)) = Count(r)
<1>1. Count(r) \in Nat
  BY CountBounded
<1>2. \A i \in 1 .. Count(r) : r.buf[Place(r, i - 1)] \in Elements
  BY <1>1 DEF IsRing
<1> QED  BY <1>1, <1>2 DEF Items

\* A queue whose elements are those of another without the first k holds
\* what the other holds without the first k.
LEMMA ItemsWithout ==
  ASSUME NEW r, IsRing(r), NEW t, NEW k \in 0 .. Count(r),
         Count(t) = Count(r) - k,
         \A i \in 0 .. Count(t) - 1 : t.buf[Place(t, i)] = r.buf[Place(r, i + k)]
  PROVE  Items(t) = SubSeq(Items(r), k + 1, Count(r))
<1>1. Count(r) \in Nat /\ Count(t) \in Nat
  BY CountBounded
<1>2. Items(r) \in Seq(Elements) /\ Len(Items(r)) = Count(r)
  BY ItemsAreElements
<1>3. SubSeq(Items(r), k + 1, Count(r)) = [i \in 1 .. Count(t) |-> Items(r)[i + k]]
  BY <1>1, <1>2, Z3
<1>4. \A i \in 1 .. Count(t) : Items(r)[i + k] = r.buf[Place(r, (i - 1) + k)]
  <2> SUFFICES ASSUME NEW i \in 1 .. Count(t)
               PROVE  Items(r)[i + k] = r.buf[Place(r, (i - 1) + k)]
    OBVIOUS
  <2>1. i + k \in 1 .. Count(r) /\ (i + k) - 1 = (i - 1) + k
    BY <1>1
  <2> QED  BY <2>1 DEF Items
<1>5. \A i \in 1 .. Count(t) : t.buf[Place(t, i - 1)] = r.buf[Place(r, (i - 1) + k)]
  BY <1>1
<1> QED  BY <1>3, <1>4, <1>5 DEF Items

\* Such a queue is a queue.
LEMMA WithoutIsRing ==
  ASSUME NEW r, IsRing(r), NEW t \in [buf : Arrays, cap : Caps, head : Nat, tail : Nat],
         t.buf \in [0 .. t.cap - 1 -> Elements \cup {NoElement}],
         t.head < t.cap, t.tail < t.cap,
         NEW k \in 0 .. Count(r), Count(t) = Count(r) - k,
         \A i \in 0 .. Count(t) - 1 : t.buf[Place(t, i)] = r.buf[Place(r, i + k)]
  PROVE  IsRing(t)
<1>1. Count(r) \in Nat
  BY CountBounded
<1>2. \A i \in 0 .. Count(t) - 1 : i + k \in 0 .. Count(r) - 1
  BY <1>1
<1>3. \A i \in 0 .. Count(t) - 1 : t.buf[Place(t, i)] \in Elements
  BY <1>2 DEF IsRing
<1> QED  BY <1>3 DEF IsRing

\* Destroying elements changes the named slots and nothing else.
LEMMA DestroyedArray ==
  ASSUME NEW r, IsRing(r), NEW S
  PROVE  /\ Destroyed(r, S) \in [0 .. r.cap - 1 -> Elements \cup {NoElement}]
         /\ Destroyed(r, S) \in Arrays
         /\ \A s \in (0 .. r.cap - 1) \ S : Destroyed(r, S)[s] = r.buf[s]
<1>1. Destroyed(r, S) \in [0 .. r.cap - 1 -> Elements \cup {NoElement}]
  BY DEF Destroyed, IsRing
<1>2. r.cap \in Caps
  BY DEF IsRing
<1> QED  BY <1>1, <1>2 DEF Destroyed, Arrays

\* What is left when the head moves on by k elements, and slots before the
\* new head are destroyed.
LEMMA HeadMoves ==
  ASSUME NEW r, IsRing(r), NEW k \in 0 .. Count(r), NEW S, NEW h,
         k < Count(r) \/ k = 1, h = Place(r, k),
         \A i \in 0 .. Count(r) - k - 1 : Place(r, i + k) \notin S,
         NEW t, t = [r EXCEPT !.head = h, !.buf = Destroyed(r, S)]
  PROVE  IsRing(t) /\ Items(t) = SubSeq(Items(r), k + 1, Count(r))
<1>1. /\ r.cap \in Nat /\ r.head \in 0 .. r.cap - 1 /\ r.tail \in 0 .. r.cap - 1
      /\ Count(r) \in 0 .. r.cap - 1
  BY CountBounded
<1>2. h \in 0 .. r.cap - 1
  BY <1>1, PlaceInArray
<1>3. /\ t \in [buf : Arrays, cap : Caps, head : Nat, tail : Nat]
      /\ t.cap = r.cap /\ t.tail = r.tail /\ t.head = h /\ t.buf = Destroyed(r, S)
  <2>1. r \in [buf : Arrays, cap : Caps, head : Nat, tail : Nat]
    BY DEF IsRing
  <2>2. Destroyed(r, S) \in Arrays /\ h \in Nat
    BY <1>1, <1>2, DestroyedArray
  <2> QED  BY <2>1, <2>2
<1>4. Count(t) = Count(r) - k
  BY <1>1, <1>3 DEF Count, Place
<1>5. ASSUME NEW i \in 0 .. Count(t) - 1
      PROVE  t.buf[Place(t, i)] = r.buf[Place(r, i + k)]
  <2>1. Place(t, i) = Place(r, i + k)
    BY <1>1, <1>2, <1>3, <1>4 DEF Place, Count
  <2>2. Place(r, i + k) \in (0 .. r.cap - 1) \ S
    BY <1>1, <1>4, PlaceInArray
  <2> QED  BY <2>1, <2>2, <1>3, DestroyedArray
<1>6. IsRing(t)
  <2>1. t.buf \in [0 .. t.cap - 1 -> Elements \cup {NoElement}]
    BY <1>3, DestroyedArray
  <2>2. t.head < t.cap /\ t.tail < t.cap
    BY <1>1, <1>2, <1>3
  <2> QED  BY <1>3, <1>4, <1>5, <2>1, <2>2, WithoutIsRing
<1>7. Items(t) = SubSeq(Items(r), k + 1, Count(r))
  <2>1. \A i \in 0 .. Count(t) - 1 : t.buf[Place(t, i)] = r.buf[Place(r, i + k)]
    BY <1>5
  <2> QED  BY ONLY <2>1, <1>4, IsRing(r), k \in 0 .. Count(r), ItemsWithout
<1> QED  BY <1>6, <1>7

----------------------------------------------------------------------------
(* The operations *)

\* A new queue is empty.
LEMMA NewIsEmpty == IsRing(NewQueue) /\ Items(NewQueue) = <<>>
<1>1. IsRing(NewQueue) /\ Count(NewQueue) = 0
  BY CapsAssumption DEF IsRing, NewQueue, Arrays, Count
<1> QED  BY <1>1 DEF Items

\* Pop takes the oldest element.
LEMMA PopTakesFirst ==
  ASSUME NEW r, IsRing(r), r.head # r.tail
  PROVE  IsRing(Pop(r)) /\ Items(Pop(r)) = SubSeq(Items(r), 2, Count(r))
<1>1. /\ r.cap \in Nat /\ r.head \in 0 .. r.cap - 1 /\ r.tail \in 0 .. r.cap - 1
      /\ Count(r) \in 1 .. r.cap - 1
  BY CountBounded DEF Count
<1>2. After(r, r.head) = Place(r, 1)
  BY <1>1 DEF After, Place
<1>3. \A i \in 0 .. Count(r) - 2 : Place(r, i + 1) \notin {r.head}
  BY <1>1 DEF Place
<1>4. Pop(r) = [r EXCEPT !.head = Place(r, 1), !.buf = Destroyed(r, {r.head})]
  BY <1>2 DEF Pop
<1> DEFINE S == {r.head}
           t == Pop(r)
           k == 1
<1>5. /\ k \in 0 .. Count(r) /\ k = 1
      /\ \A i \in 0 .. Count(r) - k - 1 : Place(r, i + k) \notin S
  BY <1>1, <1>3
<1>6. t = [r EXCEPT !.head = Place(r, k), !.buf = Destroyed(r, S)]
  BY <1>4
<1> HIDE DEF S, t, k
<1>7. IsRing(t) /\ Items(t) = SubSeq(Items(r), k + 1, Count(r))
  BY <1>5, <1>6, HeadMoves
<1> QED  BY <1>7 DEF t, k

\* Clear leaves nothing.
LEMMA ClearTakesAll ==
  ASSUME NEW r, IsRing(r)
  PROVE  IsRing(Clear(r)) /\ Items(Clear(r)) = <<>>
<1>1. CASE r.head = r.tail
  <2>1. Count(r) = 0
    BY <1>1, CountBounded DEF Count
  <2> QED  BY <1>1, <2>1 DEF Clear, Items
<1>2. CASE r.head # r.tail
  <2>1. PICK S : Clear(r) = [r EXCEPT !.head = 0, !.tail = 0, !.buf = Destroyed(r, S)]
    BY <1>2 DEF Clear
  <2>2. Count(Clear(r)) = 0
    BY <2>1, CountBounded DEF Count, IsRing
  <2>3. IsRing(Clear(r))
    <3> DEFINE t == Clear(r)
    <3>1. /\ t \in [buf : Arrays, cap : Caps, head : Nat, tail : Nat]
          /\ t.cap = r.cap /\ t.head = 0 /\ t.tail = 0 /\ t.buf = Destroyed(r, S)
      <4>1. r \in [buf : Arrays, cap : Caps, head : Nat, tail : Nat]
        BY DEF IsRing
      <4>2. Destroyed(r, S) \in Arrays
        BY DestroyedArray
      <4>3. t = [r EXCEPT !.head = 0, !.tail = 0, !.buf = Destroyed(r, S)]
        BY <2>1
      <4> HIDE DEF t
      <4> QED  BY <4>1, <4>2, <4>3
    <3> HIDE DEF t
    <3>2. t.buf \in [0 .. t.cap - 1 -> Elements \cup {NoElement}]
      BY <3>1, DestroyedArray
    <3>3. t.head < t.cap /\ t.tail < t.cap
      BY <3>1, CountBounded
    <3>4. Count(t) = 0
      BY <2>2 DEF t
    <3>5. IsRing(t)
      BY <3>1, <3>2, <3>3, <3>4 DEF IsRing
    <3> QED  BY <3>5 DEF t
  <2> QED  BY <2>2, <2>3 DEF Items
<1> QED  BY <1>1, <1>2

\* PopMulti takes as many of the oldest as it is asked for, or all.
LEMMA PopMultiTakesFirst ==
  ASSUME NEW r, IsRing(r), NEW n \in Nat
  PROVE  /\ IsRing(PopMulti(r, n))
         /\ Items(PopMulti(r, n)) = SubSeq(Items(r), n + 1, Count(r))
<1>1. /\ r.cap \in Nat /\ r.head \in 0 .. r.cap - 1 /\ r.tail \in 0 .. r.cap - 1
      /\ Count(r) \in 0 .. r.cap - 1
  BY CountBounded
<1>2. Items(r) \in Seq(Elements) /\ Len(Items(r)) = Count(r)
  BY ItemsAreElements
<1>3. CASE n = 0
  BY <1>1, <1>2, <1>3 DEF PopMulti
<1>4. CASE n # 0 /\ n >= Count(r)
  <2>1. SubSeq(Items(r), n + 1, Count(r)) = <<>>
    BY <1>1, <1>2, <1>4
  <2> QED  BY <1>4, <2>1, ClearTakesAll DEF PopMulti
<1>5. CASE n # 0 /\ n < Count(r) /\ (r.head < r.tail \/ n < r.cap - r.head)
  <2>1. PopMulti(r, n) = [r EXCEPT !.head = r.head + n,
                                   !.buf = Destroyed(r, r.head .. r.head + n - 1)]
    BY <1>1, <1>5 DEF PopMulti
  <2>2. r.head + n = Place(r, n)
    BY <1>1, <1>5 DEF Place, Count
  <2>3. \A i \in 0 .. Count(r) - n - 1 : Place(r, i + n) \notin r.head .. r.head + n - 1
    BY <1>1, <1>5 DEF Place, Count
  <2> DEFINE S == r.head .. r.head + n - 1
             t == PopMulti(r, n)
  <2>4. /\ n \in 0 .. Count(r) /\ n < Count(r)
        /\ \A i \in 0 .. Count(r) - n - 1 : Place(r, i + n) \notin S
        /\ t = [r EXCEPT !.head = Place(r, n), !.buf = Destroyed(r, S)]
    <3>1. t = [r EXCEPT !.head = Place(r, n), !.buf = Destroyed(r, S)]
      BY <2>1, <2>2
    <3> HIDE DEF S, t
    <3>2. n \in 0 .. Count(r) /\ n < Count(r)
      BY <1>1, <1>5
    <3>3. \A i \in 0 .. Count(r) - n - 1 : Place(r, i + n) \notin S
      BY <2>3 DEF S
    <3> QED  BY <3>1, <3>2, <3>3
  <2> HIDE DEF S, t
  <2>5. IsRing(t) /\ Items(t) = SubSeq(Items(r), n + 1, Count(r))
    BY <2>4, HeadMoves
  <2> QED  BY <2>5 DEF t
<1>6. CASE n # 0 /\ n < Count(r) /\ ~(r.head < r.tail) /\ n >= r.cap - r.head
  <2> DEFINE front == r.cap - r.head
             S == r.head .. r.cap - 1 \cup 0 .. n - front - 1
  <2>1. PopMulti(r, n) = [r EXCEPT !.head = n - front, !.buf = Destroyed(r, S)]
    BY <1>1, <1>6 DEF PopMulti
  <2>2. n - front = Place(r, n)
    BY <1>1, <1>6 DEF Place, Count
  <2>3. \A i \in 0 .. Count(r) - n - 1 : Place(r, i + n) \notin S
    BY <1>1, <1>6 DEF Place, Count
  <2> DEFINE t == PopMulti(r, n)
  <2>4. /\ n \in 0 .. Count(r) /\ n < Count(r)
        /\ t = [r EXCEPT !.head = Place(r, n), !.buf = Destroyed(r, S)]
    <3>1. n \in 0 .. Count(r) /\ n < Count(r)
      BY <1>1, <1>6
    <3> HIDE DEF S
    <3> QED  BY <2>1, <2>2, <3>1
  <2> HIDE DEF front, S, t
  <2>5. IsRing(t) /\ Items(t) = SubSeq(Items(r), n + 1, Count(r))
    BY <2>3, <2>4, HeadMoves
  <2> QED  BY <2>5 DEF t
<1> QED  BY <1>1, <1>3, <1>4, <1>5, <1>6

\* PopLast takes the newest element, although it destroys another slot.
LEMMA PopLastTakesLast ==
  ASSUME NEW r, IsRing(r), r.head # r.tail
  PROVE  IsRing(PopLast(r)) /\ Items(PopLast(r)) = SubSeq(Items(r), 1, Count(r) - 1)
<1> DEFINE t == PopLast(r)
<1>1. /\ r.cap \in Nat /\ r.head \in 0 .. r.cap - 1 /\ r.tail \in 0 .. r.cap - 1
      /\ Count(r) \in 1 .. r.cap - 1
  BY CountBounded DEF Count
<1>2. /\ t \in [buf : Arrays, cap : Caps, head : Nat, tail : Nat]
      /\ t.cap = r.cap /\ t.head = r.head /\ t.buf = Destroyed(r, {r.tail})
      /\ t.tail = (IF r.tail = 0 THEN r.cap - 1 ELSE r.tail - 1)
      /\ t.tail \in 0 .. r.cap - 1
  <2>1. r \in [buf : Arrays, cap : Caps, head : Nat, tail : Nat]
    BY DEF IsRing
  <2> DEFINE u == IF r.tail = 0 THEN r.cap - 1 ELSE r.tail - 1
  <2>2. u \in 0 .. r.cap - 1
    BY <1>1
  <2>3. Destroyed(r, {r.tail}) \in Arrays
    BY DestroyedArray
  <2>4. t = [r EXCEPT !.buf = Destroyed(r, {r.tail}), !.tail = u]
    BY DEF PopLast
  <2> HIDE DEF u, t
  <2>5. u \in Nat
    BY <1>1, <2>2
  <2>6. /\ t \in [buf : Arrays, cap : Caps, head : Nat, tail : Nat]
        /\ t.cap = r.cap /\ t.head = r.head /\ t.buf = Destroyed(r, {r.tail}) /\ t.tail = u
    BY <2>1, <2>3, <2>4, <2>5
  <2> QED  BY <2>2, <2>6 DEF u
<1> HIDE DEF t
<1>3. Count(t) = Count(r) - 1
  BY <1>1, <1>2 DEF Count
<1>4. ASSUME NEW i \in 0 .. Count(t) - 1
      PROVE  t.buf[Place(t, i)] = r.buf[Place(r, i)]
  <2>1. Place(t, i) = Place(r, i)
    BY <1>2 DEF Place
  <2>2. Place(r, i) \in (0 .. r.cap - 1) \ {r.tail}
    BY <1>1, <1>3 DEF Place, Count
  <2> QED  BY <1>2, <2>1, <2>2, DestroyedArray
<1>5. IsRing(t)
  <2>1. \A i \in 0 .. Count(t) - 1 : t.buf[Place(t, i)] \in Elements
    <3>1. \A i \in 0 .. Count(t) - 1 : i \in 0 .. Count(r) - 1
      BY <1>1, <1>3
    <3> QED  BY <3>1, <1>4 DEF IsRing
  <2>2. t.buf \in [0 .. t.cap - 1 -> Elements \cup {NoElement}]
    BY <1>2, DestroyedArray
  <2>3. t.head < t.cap /\ t.tail < t.cap
    BY <1>1, <1>2
  <2> QED  BY <1>2, <2>1, <2>2, <2>3 DEF IsRing
<1>6. Items(t) = [i \in 1 .. Count(r) - 1 |-> Items(r)[i]]
  BY <1>1, <1>3, <1>4 DEF Items
<1>7. Items(r) \in Seq(Elements) /\ Len(Items(r)) = Count(r)
  BY ItemsAreElements
<1> QED  BY <1>1, <1>5, <1>6, <1>7 DEF t

\* A queue that holds what another does, and one element behind it.
LEMMA OneMore ==
  ASSUME NEW r, IsRing(r), NEW t \in [buf : Arrays, cap : Caps, head : Nat, tail : Nat],
         t.buf \in [0 .. t.cap - 1 -> Elements \cup {NoElement}],
         t.head < t.cap, t.tail < t.cap, NEW e \in Elements,
         Count(t) = Count(r) + 1,
         \A i \in 0 .. Count(r) - 1 : t.buf[Place(t, i)] = r.buf[Place(r, i)],
         t.buf[Place(t, Count(r))] = e
  PROVE  IsRing(t) /\ Items(t) = Append(Items(r), e)
<1>1. Count(r) \in Nat
  BY CountBounded
<1>2. \A i \in 0 .. Count(t) - 1 : t.buf[Place(t, i)] \in Elements
  <2> SUFFICES ASSUME NEW i \in 0 .. Count(t) - 1
               PROVE  t.buf[Place(t, i)] \in Elements
    OBVIOUS
  <2>1. CASE i = Count(r)
    BY <2>1
  <2>2. CASE i \in 0 .. Count(r) - 1
    BY <2>2 DEF IsRing
  <2> QED  BY <1>1, <2>1, <2>2
<1>3. IsRing(t)
  BY <1>2 DEF IsRing
<1>4. Items(r) \in Seq(Elements) /\ Len(Items(r)) = Count(r)
  BY ItemsAreElements
<1>5. Append(Items(r), e)
        = [i \in 1 .. Count(r) + 1 |-> IF i = Count(r) + 1 THEN e ELSE Items(r)[i]]
  <2> DEFINE s == Items(r)
  <2>1. s \in Seq(Elements) /\ Len(s) = Count(r)
    BY <1>4
  <2> HIDE DEF s
  <2>2. /\ Append(s, e) \in Seq(Elements) /\ Len(Append(s, e)) = Count(r) + 1
        /\ \A i \in 1 .. Count(r) : Append(s, e)[i] = s[i]
        /\ Append(s, e)[Count(r) + 1] = e
    BY <2>1, AppendProperties
  <2>3. Append(s, e)
          = [i \in 1 .. Count(r) + 1 |-> IF i = Count(r) + 1 THEN e ELSE s[i]]
    <3> DEFINE a == Append(s, e)
               n == Count(r) + 1
    <3>1. a \in Seq(Elements) /\ Len(a) = n /\ n \in Nat
      BY <1>1, <2>2
    <3>2. \A i \in 1 .. n : a[i] = IF i = n THEN e ELSE s[i]
      BY <1>1, <2>2
    <3> HIDE DEF a, n
    <3>3. a = [i \in 1 .. n |-> a[i]]
      BY <3>1
    <3>4. a = [i \in 1 .. n |-> IF i = n THEN e ELSE s[i]]
      BY <3>2, <3>3
    <3> QED  BY <3>4 DEF a, n
  <2> QED  BY <2>3 DEF s
<1>6. \A i \in 1 .. Count(r) + 1 :
        t.buf[Place(t, i - 1)] = IF i = Count(r) + 1 THEN e ELSE Items(r)[i]
  <2> SUFFICES ASSUME NEW i \in 1 .. Count(r) + 1
               PROVE  t.buf[Place(t, i - 1)] = IF i = Count(r) + 1 THEN e ELSE Items(r)[i]
    OBVIOUS
  <2>1. CASE i = Count(r) + 1
    BY <1>1, <2>1
  <2>2. CASE i # Count(r) + 1
    <3>1. i \in 1 .. Count(r) /\ i - 1 \in 0 .. Count(r) - 1
      BY <1>1, <2>2
    <3> QED  BY <2>2, <3>1 DEF Items
  <2> QED  BY <2>1, <2>2
<1> QED  BY <1>3, <1>5, <1>6 DEF Items

\* Emplace appends, also when the queue grows under it, and returns a
\* reference to what it appended.
LEMMA EmplaceAppends ==
  ASSUME NEW r, IsRing(r), NEW e \in Elements, NEW c \in Caps,
         Fills(r) => c >= 2 * r.cap
  PROVE  /\ IsRing(Emplace(r, e, c))
         /\ Items(Emplace(r, e, c)) = Append(Items(r), e)
         /\ Emplace(r, e, c).buf[EmplacedAt(r)] = e
<1> DEFINE put == [r EXCEPT !.buf[r.tail] = e, !.tail = After(r, r.tail)]
           array == [r.buf EXCEPT ![r.tail] = e]
<1>1. /\ r.cap \in Nat \ {0} /\ r.head \in 0 .. r.cap - 1 /\ r.tail \in 0 .. r.cap - 1
      /\ Count(r) \in 0 .. r.cap - 1
  BY CountBounded
<1>2. r \in [buf : Arrays, cap : Caps, head : Nat, tail : Nat]
  BY DEF IsRing
<1>3. array \in [0 .. r.cap - 1 -> Elements \cup {NoElement}]
  BY <1>1 DEF IsRing
<1>4. array \in Arrays
  BY <1>2, <1>3 DEF Arrays
<1>5. After(r, r.tail) \in 0 .. r.cap - 1
  BY <1>1 DEF After
<1>6. /\ put \in [buf : Arrays, cap : Caps, head : Nat, tail : Nat]
      /\ put.cap = r.cap /\ put.head = r.head /\ put.tail = After(r, r.tail)
      /\ put.buf = array
  <2>1. After(r, r.tail) \in Nat
    BY <1>1, <1>5
  <2>2. put = [r EXCEPT !.buf = array, !.tail = After(r, r.tail)]
    BY <1>2
  <2> HIDE DEF put, array
  <2> QED  BY <1>2, <1>4, <2>1, <2>2
<1>7. array[r.tail] = e /\ \A s \in 0 .. r.cap - 1 : s # r.tail => array[s] = r.buf[s]
  BY <1>1 DEF IsRing
<1>8. Place(r, Count(r)) = r.tail /\ \A i \in 0 .. Count(r) - 1 : Place(r, i) # r.tail
  BY <1>1 DEF Place, Count
<1>9. \A i \in 0 .. Count(r) - 1 : array[Place(r, i)] = r.buf[Place(r, i)]
  BY <1>1, <1>7, <1>8, PlaceInArray
<1>10. Emplace(r, e, c) = IF Fills(r) THEN Moved(put, r.cap, c) ELSE put
  BY <1>6 DEF Emplace, Fills
<1> HIDE DEF put, array
<1>11. CASE ~Fills(r)
  <2>1. Count(put) = Count(r) + 1
    BY <1>1, <1>6, <1>11 DEF Count, Fills, After
  <2>2. \A i \in 0 .. Count(r) : Place(put, i) = Place(r, i)
    BY <1>6 DEF Place
  <2>3. \A i \in 0 .. Count(r) - 1 : put.buf[Place(put, i)] = r.buf[Place(r, i)]
    BY <1>1, <1>6, <1>9, <2>2
  <2>4. put.buf[Place(put, Count(r))] = e
    BY <1>1, <1>6, <1>7, <1>8, <2>2
  <2>5. put.buf \in [0 .. put.cap - 1 -> Elements \cup {NoElement}]
    BY <1>3, <1>6
  <2>6. put.head < put.cap /\ put.tail < put.cap
    BY <1>1, <1>5, <1>6
  <2>7. IsRing(put) /\ Items(put) = Append(Items(r), e)
    BY <1>6, <2>1, <2>3, <2>4, <2>5, <2>6, OneMore
  <2> QED  BY <1>6, <1>7, <1>10, <1>11, <2>7 DEF EmplacedAt
<1>12. CASE Fills(r)
  <2> DEFINE t == Moved(put, r.cap, c)
             moved == t.buf
  <2>1. c \in Nat /\ c >= 2 * r.cap /\ Count(r) = r.cap - 1 /\ put.tail = put.head
    BY <1>1, <1>6, <1>12, CapsAssumption DEF Fills, After, Count
  <2>2. /\ t = [buf |-> moved, cap |-> c, head |-> 0, tail |-> r.cap]
        /\ moved = [s \in 0 .. c - 1 |->
                      IF s < r.cap - r.head THEN array[r.head + s]
                      ELSE IF s < r.cap - r.head + r.head THEN array[s - (r.cap - r.head)]
                      ELSE NoElement]
    BY <1>1, <1>6, <2>1 DEF Moved
  <2> HIDE DEF moved, t
  <2>3. moved \in [0 .. c - 1 -> Elements \cup {NoElement}]
    BY <1>1, <1>3, <2>1, <2>2
  <2>4. \A i \in 0 .. r.cap - 1 : moved[i] = array[Place(r, i)]
    BY <1>1, <2>1, <2>2 DEF Place
  <2>5. /\ t \in [buf : Arrays, cap : Caps, head : Nat, tail : Nat]
        /\ t.cap = c /\ t.head = 0 /\ t.tail = r.cap /\ t.buf = moved
    <3>1. moved \in Arrays
      BY <2>3 DEF Arrays
    <3> QED  BY <1>1, <2>2, <3>1
  <2>6. Count(t) = Count(r) + 1 /\ \A i \in 0 .. Count(r) : Place(t, i) = i
    BY <1>1, <2>1, <2>5 DEF Count, Place
  <2>7. \A i \in 0 .. Count(r) - 1 : t.buf[Place(t, i)] = r.buf[Place(r, i)]
    BY <1>1, <1>9, <2>1, <2>4, <2>5, <2>6
  <2>8. t.buf[Place(t, Count(r))] = e
    BY <1>1, <1>7, <1>8, <2>1, <2>4, <2>5, <2>6
  <2>9. t.head < t.cap /\ t.tail < t.cap
    BY <1>1, <2>1, <2>5
  <2>10. IsRing(t) /\ Items(t) = Append(Items(r), e)
    BY <2>3, <2>5, <2>6, <2>7, <2>8, <2>9, OneMore
  <2>11. t.buf[EmplacedAt(r)] = e
    BY <1>1, <1>12, <2>1, <2>6, <2>8 DEF EmplacedAt
  <2> QED  BY <1>10, <1>12, <2>10, <2>11 DEF t
<1> QED  BY <1>11, <1>12

\* Reserve moves the elements and keeps them.
LEMMA ReserveKeeps ==
  ASSUME NEW r, IsRing(r), NEW c \in Caps
  PROVE  IsRing(Reserve(r, c, c)) /\ Items(Reserve(r, c, c)) = Items(r)
<1>1. /\ r.cap \in Nat \ {0} /\ r.head \in 0 .. r.cap - 1 /\ r.tail \in 0 .. r.cap - 1
      /\ Count(r) \in 0 .. r.cap - 1 /\ c \in Nat
  BY CountBounded, CapsAssumption
<1>2. CASE c <= r.cap
  BY <1>2 DEF Reserve
<1>3. CASE c > r.cap
  <2> DEFINE t == Moved(r, Count(r), c)
             moved == t.buf
  <2>1. Reserve(r, c, c) = t
    BY <1>1, <1>3 DEF Reserve
  <2>2. /\ t = [buf |-> moved, cap |-> c, head |-> 0, tail |-> Count(r)]
        /\ moved = [s \in 0 .. c - 1 |->
                      IF r.head < r.tail
                      THEN IF s < Count(r) THEN r.buf[r.head + s] ELSE NoElement
                      ELSE IF s < r.cap - r.head THEN r.buf[r.head + s]
                      ELSE IF s < r.cap - r.head + r.tail THEN r.buf[s - (r.cap - r.head)]
                      ELSE NoElement]
    BY DEF Moved
  <2> HIDE DEF moved, t
  <2>3. moved \in [0 .. c - 1 -> Elements \cup {NoElement}]
    <3>1. r.buf \in [0 .. r.cap - 1 -> Elements \cup {NoElement}]
      BY DEF IsRing
    <3>2. \A s \in 0 .. c - 1 : moved[s] \in Elements \cup {NoElement}
      <4> SUFFICES ASSUME NEW s \in 0 .. c - 1
                   PROVE  moved[s] \in Elements \cup {NoElement}
        OBVIOUS
      <4>1. CASE r.head < r.tail
        <5>1. s < Count(r) => r.head + s \in 0 .. r.cap - 1
          BY <1>1, <4>1 DEF Count
        <5> QED  BY <2>2, <3>1, <4>1, <5>1
      <4>2. CASE ~(r.head < r.tail)
        <5>1. /\ s < r.cap - r.head => r.head + s \in 0 .. r.cap - 1
              /\ ~(s < r.cap - r.head) /\ s < r.cap - r.head + r.tail
                   => s - (r.cap - r.head) \in 0 .. r.cap - 1
          BY <1>1
        <5> QED  BY <2>2, <3>1, <4>2, <5>1
      <4> QED  BY <4>1, <4>2
    <3> QED  BY <2>2, <3>2
  <2>4. \A i \in 0 .. Count(r) - 1 : moved[i] = r.buf[Place(r, i)]
    <3>1. CASE r.head < r.tail
      <4>1. \A i \in 0 .. Count(r) - 1 : /\ i \in 0 .. c - 1 /\ i < Count(r)
                                        /\ Place(r, i) = r.head + i
        BY <1>1, <1>3, <3>1 DEF Place, Count
      <4> QED  BY <2>2, <3>1, <4>1
    <3>2. CASE ~(r.head < r.tail)
      <4>1. \A i \in 0 .. Count(r) - 1 :
              /\ i \in 0 .. c - 1 /\ i < r.cap - r.head + r.tail
              /\ Place(r, i) = IF i < r.cap - r.head THEN r.head + i
                               ELSE i - (r.cap - r.head)
        BY <1>1, <1>3, <3>2 DEF Place, Count
      <4> QED  BY <2>2, <3>2, <4>1
    <3> QED  BY <3>1, <3>2
  <2>5. /\ t \in [buf : Arrays, cap : Caps, head : Nat, tail : Nat]
        /\ t.cap = c /\ t.head = 0 /\ t.tail = Count(r) /\ t.buf = moved
    <3>1. moved \in Arrays
      BY <2>3 DEF Arrays
    <3> QED  BY <1>1, <2>2, <3>1
  <2>6. Count(t) = Count(r) /\ \A i \in 0 .. Count(r) - 1 : Place(t, i) = i
    BY <1>1, <1>3, <2>5 DEF Count, Place
  <2>7. \A i \in 0 .. Count(t) - 1 : t.buf[Place(t, i)] = r.buf[Place(r, i + 0)]
    BY <1>1, <2>4, <2>5, <2>6
  <2>8. 0 \in 0 .. Count(r) /\ Count(t) = Count(r) - 0
    BY <1>1, <2>6
  <2>9. t.buf \in [0 .. t.cap - 1 -> Elements \cup {NoElement}] /\ t.head < t.cap /\ t.tail < t.cap
    BY <1>1, <1>3, <2>3, <2>5
  <2>10. IsRing(t)
    BY <2>5, <2>7, <2>8, <2>9, WithoutIsRing
  <2>11. Items(t) = SubSeq(Items(r), 0 + 1, Count(r))
    BY <2>7, <2>8, ItemsWithout
  <2>12. Items(r) \in Seq(Elements) /\ Len(Items(r)) = Count(r)
    BY ItemsAreElements
  <2> QED  BY <1>1, <2>1, <2>10, <2>11, <2>12
<1> QED  BY <1>1, <1>2, <1>3

----------------------------------------------------------------------------
(* A queue on its own *)

\* Every step of the queue is a step of Fifo, or none.
LEMMA StepIsFifo ==
  ASSUME IsRing(ring), RqNext
  PROVE  IsRing(ring') /\ [RqFifo!FifoNext]_(Items(ring))
<1>1. Count(ring) \in Nat
  BY CountBounded
<1>2. Items(ring) \in Seq(Elements) /\ Len(Items(ring)) = Count(ring)
  BY ItemsAreElements
<1>3. CASE RqPush
  <2>1. PICK e \in Elements, c \in Caps :
          (Fills(ring) => c >= 2 * ring.cap) /\ ring' = Emplace(ring, e, c)
    BY <1>3 DEF RqPush
  <2>2. IsRing(ring') /\ Items(ring') = Append(Items(ring), e)
    BY <2>1, EmplaceAppends
  <2>3. Append(Items(ring), e)
          = SubSeq(Append(Items(ring), e), 0 + 1, Len(Append(Items(ring), e)))
    BY <1>1, <1>2
  <2>4. 0 \in 0 .. Len(Items(ring)) + 1
    BY <1>1, <1>2
  <2> QED  BY <2>2, <2>3, <2>4 DEF RqFifo!FifoNext, RqFifo!Join, RqFifo!Without
<1>4. CASE RqPop
  <2>1. ring.head # ring.tail /\ ring' = Pop(ring)
    BY <1>4 DEF RqPop
  <2>2. IsRing(ring') /\ Items(ring') = SubSeq(Items(ring), 1 + 1, Len(Items(ring)))
    BY <1>2, <2>1, PopTakesFirst
  <2>3. 1 \in 1 .. Len(Items(ring))
    BY <1>1, <1>2, <2>1, CountBounded DEF Count
  <2> QED  BY <2>2, <2>3 DEF RqFifo!FifoNext, RqFifo!Leave, RqFifo!Without
<1>5. CASE RqPopLast
  <2>1. ring.head # ring.tail /\ ring' = PopLast(ring)
    BY <1>5 DEF RqPopLast
  <2>2. IsRing(ring') /\ Items(ring') = SubSeq(Items(ring), 1, Len(Items(ring)) - 1)
    BY <1>2, <2>1, PopLastTakesLast
  <2>3. Items(ring) # <<>>
    BY <1>1, <1>2, <2>1, CountBounded DEF Count
  <2> QED  BY <2>2, <2>3 DEF RqFifo!FifoNext, RqFifo!LeaveLast
<1>6. CASE RqPopMulti
  <2>1. PICK n \in 0 .. Count(ring) : ring' = PopMulti(ring, n)
    BY <1>6 DEF RqPopMulti
  <2>2. IsRing(ring') /\ Items(ring') = SubSeq(Items(ring), n + 1, Len(Items(ring)))
    <3>1. n \in Nat
      BY <1>1
    <3>2. /\ IsRing(PopMulti(ring, n))
          /\ Items(PopMulti(ring, n)) = SubSeq(Items(ring), n + 1, Count(ring))
      BY <3>1, PopMultiTakesFirst
    <3> QED  BY <1>2, <2>1, <3>2
  <2>3. CASE n = 0
    <3>1. Items(ring') = Items(ring)
      BY <1>1, <1>2, <2>2, <2>3
    <3> QED  BY <2>2, <3>1
  <2>4. CASE n # 0
    <3>1. n \in 1 .. Len(Items(ring))
      BY <1>1, <1>2, <2>4
    <3> QED  BY <2>2, <3>1 DEF RqFifo!FifoNext, RqFifo!Leave, RqFifo!Without
  <2> QED  BY <2>3, <2>4
<1>7. CASE RqClear
  <2>1. IsRing(ring') /\ Items(ring') = <<>>
    BY <1>7, ClearTakesAll DEF RqClear
  <2>2. CASE Count(ring) = 0
    <3>1. Items(ring) = <<>>
      BY <2>2 DEF Items
    <3> QED  BY <2>1, <3>1
  <2>3. CASE Count(ring) # 0
    <3>1. Count(ring) \in 1 .. Len(Items(ring))
      BY <1>1, <1>2, <2>3
    <3>2. <<>> = SubSeq(Items(ring), Count(ring) + 1, Len(Items(ring)))
      BY <1>1, <1>2
    <3> QED  BY <2>1, <3>1, <3>2 DEF RqFifo!FifoNext, RqFifo!Leave, RqFifo!Without
  <2> QED  BY <2>2, <2>3
<1>8. CASE RqReserve
  BY <1>8, ReserveKeeps DEF RqReserve
<1> QED  BY <1>3, <1>4, <1>5, <1>6, <1>7, <1>8 DEF RqNext

\* The queue keeps its shape: head and tail are in the array, and every slot
\* between them holds an element, however often it wraps and grows.
THEOREM RingQueueTypeCorrect == RqSpec => []RqTypeOK
<1>1. RqInit => IsRing(ring)
  BY NewIsEmpty DEF RqInit
<1>2. IsRing(ring) /\ [RqNext]_ring => IsRing(ring')
  <2>1. CASE UNCHANGED ring
    BY <2>1
  <2>2. ASSUME IsRing(ring), RqNext
        PROVE  IsRing(ring')
    BY <2>2, StepIsFifo
  <2> QED  BY <2>1, <2>2
<1>3. QED
  <2>1. (IsRing(ring))' <=> IsRing(ring')
    BY DEF IsRing, Arrays, Count, Place
  <2> QED  BY <1>1, <1>2, <2>1, TypeIsRing, PTL DEF RqSpec

\* xx::Queue implements Fifo.
THEOREM RingQueueIsFifo == RqSpec => FifoKept
<1>1. RqInit => RqFifo!FifoInit
  BY NewIsEmpty DEF RqInit, RqFifo!FifoInit
<1>2. RqTypeOK /\ [RqNext]_ring => [RqFifo!FifoNext]_(Items(ring))
  <2>1. CASE UNCHANGED ring
    BY <2>1
  <2>2. ASSUME RqTypeOK, RqNext
        PROVE  [RqFifo!FifoNext]_(Items(ring))
    BY <2>2, StepIsFifo, TypeIsRing
  <2> QED  BY <2>1, <2>2
<1> QED  BY <1>1, <1>2, RingQueueTypeCorrect, PTL DEF RqSpec, FifoKept, RqFifo!FifoSpec
=============================================================================
