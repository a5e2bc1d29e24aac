------------------------------ MODULE RingQueue ------------------------------
(***************************************************************************)
(* xx::Queue: a ring buffer that doubles when it is full. Its state is a   *)
(* record, so that a caller that makes several calls in one step, like     *)
(* xx::DataQueue in TcpSend, composes them; RqSpec is a queue on its own.  *)
(* A slot without an object holds NoElement. ( Elements of a type without  *)
(* a destructor leave their bits behind; nothing reads them. )             *)
(***************************************************************************)
EXTENDS Integers, Sequences

CONSTANTS
  Elements,    \* what is queued
  NoElement,   \* what a slot without an object holds
  MinCap,      \* the capacity of a new queue, at least 8 in the code
  Caps         \* the capacities an array may have: what Round2n leaves of the
               \* bytes asked for, divided by sizeof( T )

ASSUME NoElementAssumption == NoElement \notin Elements
ASSUME CapsAssumption == MinCap \in Nat \ {0} /\ MinCap \in Caps /\ Caps \subseteq Nat

VARIABLE ring  \* [buf, cap, head, tail]

\* The element i places behind the head is in slot Place( r, i ) ( At ).
Place(r, i) == IF r.head + i < r.cap THEN r.head + i ELSE r.head + i - r.cap

Count(r) == IF r.head <= r.tail THEN r.tail - r.head ELSE r.tail + (r.cap - r.head)

\* What the queue holds, the oldest first.
Items(r) == [i \in 1 .. Count(r) |-> r.buf[Place(r, i - 1)]]

NewQueue ==
  [buf |-> [s \in 0 .. MinCap - 1 |-> NoElement], cap |-> MinCap, head |-> 0, tail |-> 0]

\* The array with the objects in the slots S destroyed.
Destroyed(r, S) == [s \in 0 .. r.cap - 1 |-> IF s \in S THEN NoElement ELSE r.buf[s]]

----------------------------------------------------------------------------
(* The operations *)

\* mutant: the part of a full queue before the head is left behind
MovedFrontOnly(r, n, c) ==
  [buf |-> [s \in 0 .. c - 1 |->
              IF s < r.cap - r.head THEN r.buf[r.head + s] ELSE NoElement],
   cap |-> c, head |-> 0, tail |-> n]

\* Reserve, the queue being of n elements: they move to an array of c slots.
\* A full queue has head = tail and counts as wrapped, and so does an empty
\* one, of which the slots behind head are moved as they are.
Moved(r, n, c) ==
  LET front == r.cap - r.head IN
  [buf |-> [s \in 0 .. c - 1 |->
              IF r.head < r.tail
              THEN IF s < n THEN r.buf[r.head + s] ELSE NoElement
              ELSE IF s < front THEN r.buf[r.head + s]
              ELSE IF s < front + r.tail THEN r.buf[s - front]
              ELSE NoElement],
   cap |-> c, head |-> 0, tail |-> n]

After(r, s) == IF s + 1 = r.cap THEN 0 ELSE s + 1

\* Emplace: full after it, the queue moves to an array of c slots.
Emplace(r, e, c) ==
  LET put == [r EXCEPT !.buf[r.tail] = e, !.tail = After(r, r.tail)] IN
  IF put.tail = r.head THEN Moved(put, r.cap, c) ELSE put

\* One more element fills the array.
Fills(r) == After(r, r.tail) = r.head

\* The slot of the reference that Emplace returns.
EmplacedAt(r) == IF Fills(r) THEN r.cap - 1 ELSE r.tail

Pop(r) ==
  [r EXCEPT !.buf = Destroyed(r, {r.head}), !.head = After(r, r.head)]

\* PopLast destroys the slot behind the last element, and not the last.
PopLast(r) ==
  [r EXCEPT !.buf = Destroyed(r, {r.tail}),
            !.tail = IF r.tail = 0 THEN r.cap - 1 ELSE r.tail - 1]

Clear(r) ==
  IF r.head = r.tail THEN r
  ELSE [r EXCEPT !.head = 0, !.tail = 0,
          !.buf = Destroyed(r, IF r.head < r.tail
                            THEN r.head .. r.tail - 1
                            ELSE 0 .. r.tail - 1 \cup r.head .. r.cap - 1)]

\* PopMulti( n ).
PopMulti(r, n) ==
  LET front == r.cap - r.head IN
  IF n = 0 THEN r
  ELSE IF n >= Count(r) THEN Clear(r)
  ELSE IF r.head < r.tail \/ n < front
  THEN [r EXCEPT !.head = r.head + n,
                 !.buf = Destroyed(r, r.head .. r.head + n - 1)]
  ELSE [r EXCEPT !.head = n - front,
                 !.buf = Destroyed(r, r.head .. r.cap - 1 \cup 0 .. n - front - 1)]

Reserve(r, capacity, c) == IF capacity <= r.cap THEN r ELSE Moved(r, Count(r), c)

----------------------------------------------------------------------------
(* A queue on its own *)

RqInit == ring = NewQueue

RqPush == \E e \in Elements, c \in Caps :
            /\ Fills(ring) => c >= 2 * ring.cap
            /\ ring' = Emplace(ring, e, c)
RqPop == ring.head # ring.tail /\ ring' = Pop(ring)
RqPopLast == ring.head # ring.tail /\ ring' = PopLast(ring)
\* A count above Count takes all there is, and a Reserve of less than cap does
\* nothing.
RqPopMulti == \E n \in 0 .. Count(ring) : ring' = PopMulti(ring, n)
RqClear == ring' = Clear(ring)
RqReserve == \E c \in Caps : ring' = Reserve(ring, c, c)

RqNext == RqPush \/ RqPop \/ RqPopLast \/ RqPopMulti \/ RqClear \/ RqReserve

RqSpec == RqInit /\ [][RqNext]_ring

----------------------------------------------------------------------------
(* What the queue promises *)

\* The type of the queue: head and tail are in the array, and between them
\* every slot holds an element.
RqTypeOK ==
  /\ \E c \in Caps :
       ring \in [buf : [0 .. c - 1 -> Elements \cup {NoElement}],
                 cap : {c}, head : 0 .. c - 1, tail : 0 .. c - 1]
  /\ \A i \in 0 .. Count(ring) - 1 : ring.buf[Place(ring, i)] \in Elements

RqFifo == INSTANCE Fifo WITH items <- Items(ring)

\* However head and tail wrap and the array grows, the queue is a sequence
\* that elements join at the back and leave at the front.
FifoKept == RqFifo!FifoSpec
=============================================================================
