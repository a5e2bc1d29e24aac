-------------------------- MODULE TimerWheelProofs --------------------------
(***************************************************************************)
(* Proofs about TimerWheel for any number of timers and slots: the lists   *)
(* stay whole, the timers of a slot are called newest first, and a timer   *)
(* is called in the frame it was set to.                                   *)
(*                                                                         *)
(* The argument is about the order in which timers were set. A list is     *)
(* that order, restricted to one slot: what a timer links to is the newest *)
(* of the older timers of its list, and the head is newer than the rest.   *)
(* Hence nothing is left when the walk runs out of links.                  *)
(***************************************************************************)
EXTENDS TimerWheel, TLAPS

\* The types of a wheel w, indexes ix, links p and n, due timers d, order o
\* and saved pointer h.
Shape(w, ix, p, n, d, o, h) ==
  /\ w \in [0 .. Slots - 1 -> Pointers]
  /\ ix \in [Timers -> -1 .. Slots - 1]
  /\ p \in [Timers -> Pointers]
  /\ n \in [Timers -> Pointers]
  /\ d \subseteq Timers
  /\ o \subseteq Timers \X Timers
  /\ h \in Pointers

\* t and u are timers of the same list.
Alike(ix, d, t, u) == ix[t] # -1 /\ ix[u] = ix[t] /\ (t \in d <=> u \in d)

HeadOfSlot(w, ix, p, d) ==
  \A s \in 0 .. Slots - 1 : w[s] # NoTimer =>
    ix[w[s]] = s /\ w[s] \notin d /\ p[w[s]] = NoTimer

Linked(ix, p, n, d) ==
  \A t \in Timers : n[t] # NoTimer => p[n[t]] = t /\ Alike(ix, d, t, n[t])

Idle(ix, p, n, d) ==
  \A t \in Timers : ix[t] = -1 => n[t] = NoTimer /\ p[t] = NoTimer /\ t \notin d

Reached(w, ix, p, n, d, h) ==
  \A t \in Timers : ix[t] # -1 =>
    IF t \in d THEN t = h \/ (p[t] # NoTimer /\ n[p[t]] = t)
    ELSE IF p[t] = NoTimer THEN w[ix[t]] = t ELSE n[p[t]] = t

\* o is a strict order of timers that are set.
Order(ix, o) ==
  /\ \A t, u \in Timers : <<t, u>> \in o => ix[t] # -1 /\ ix[u] # -1 /\ t # u
  /\ \A t, u, v \in Timers : <<t, u>> \in o /\ <<u, v>> \in o => <<t, v>> \in o

\* A timer links to an older one, and none of its list is between them.
Successor(ix, n, d, o) ==
  /\ \A t \in Timers : n[t] # NoTimer => <<t, n[t]>> \in o
  /\ \A t, u \in Timers : <<t, u>> \in o /\ Alike(ix, d, t, u) =>
       n[t] # NoTimer /\ (n[t] = u \/ <<n[t], u>> \in o)

\* The head of a slot is the newest of its timers.
HeadNewest(w, ix, d, o) ==
  \A u \in Timers : ix[u] # -1 /\ u \notin d /\ w[ix[u]] # u =>
    w[ix[u]] # NoTimer /\ <<w[ix[u]], u>> \in o

\* The saved timer is the newest of those that are due, all of one slot c.
SavedNewest(ix, d, o, h, c) ==
  /\ h # NoTimer => h \in d
  /\ \A u \in d : ix[u] = c
  /\ \A u \in d \ {h} : <<h, u>> \in o

Whole(w, ix, p, n, d, o, h, c) ==
  /\ Shape(w, ix, p, n, d, o, h)
  /\ HeadOfSlot(w, ix, p, d)
  /\ Linked(ix, p, n, d)
  /\ Idle(ix, p, n, d)
  /\ Reached(w, ix, p, n, d, h)
  /\ Order(ix, o)
  /\ Successor(ix, n, d, o)
  /\ HeadNewest(w, ix, d, o)
  /\ SavedNewest(ix, d, o, h, c)

----------------------------------------------------------------------------
(* What the operations do to the lists *)

\* The wheel w, the links f ( with g the links the other way ) and the order o
\* without the timer t.
WheelWithout(w, ix, p, n, t) ==
  IF p[t] = NoTimer THEN [w EXCEPT ![ix[t]] = n[t]] ELSE w

LinksWithout(f, g, t) == [Via(f, g[t], f[t]) EXCEPT ![t] = NoTimer]

OrderWithout(o, t) == {pair \in o : pair[1] # t /\ pair[2] # t}

\* A timer that is in a slot, and is not the one the walk goes on with, can
\* be taken out of its list.
LEMMA TakenOut ==
  ASSUME NEW w, NEW ix, NEW p, NEW n, NEW d, NEW o, NEW h,
         NEW c \in 0 .. Slots - 1, NEW t \in Timers,
         Whole(w, ix, p, n, d, o, h, c), t # h, ix[t] # -1
  PROVE  Whole(WheelWithout(w, ix, p, n, t), [ix EXCEPT ![t] = -1],
               LinksWithout(p, n, t), LinksWithout(n, p, t), d \ {t},
               OrderWithout(o, t), h, c)
<1> DEFINE w2 == IF p[t] = NoTimer THEN [w EXCEPT ![ix[t]] = n[t]] ELSE w
           n2 == [Via(n, p[t], n[t]) EXCEPT ![t] = NoTimer]
           p2 == [Via(p, n[t], p[t]) EXCEPT ![t] = NoTimer]
           i2 == [ix EXCEPT ![t] = -1]
           d2 == d \ {t}
           o2 == {pair \in o : pair[1] # t /\ pair[2] # t}
<1>1. Shape(w, ix, p, n, d, o, h)
  BY DEF Whole
<1>2. HeadOfSlot(w, ix, p, d) /\ Linked(ix, p, n, d) /\ Idle(ix, p, n, d)
      /\ Reached(w, ix, p, n, d, h) /\ Order(ix, o) /\ Successor(ix, n, d, o)
      /\ HeadNewest(w, ix, d, o) /\ SavedNewest(ix, d, o, h, c)
  BY DEF Whole
<1>3. n[t] # t /\ p[t] # t
  <2>1. n[t] # t
    BY <1>1, <1>2, NoTimerAssumption DEF Shape, Order, Successor
  <2>2. p[t] = t => n[t] = t
    BY <1>1, <1>2, NoTimerAssumption DEF Shape, Reached, SavedNewest
  <2> QED  BY <2>1, <2>2
<1>4. p[t] # NoTimer => n[p[t]] = t /\ p[t] \in Timers /\ Alike(ix, d, t, p[t])
  <2>1. p[t] # NoTimer => n[p[t]] = t /\ p[t] \in Timers
    BY <1>1, <1>2 DEF Shape, Reached, Pointers
  <2> QED  BY <2>1, <1>1, <1>2, NoTimerAssumption DEF Linked, Alike
<1>5. p[t] = NoTimer => t \notin d /\ w[ix[t]] = t
  BY <1>1, <1>2 DEF Reached
<1>6. Shape(w2, i2, p2, n2, d2, o2, h)
  <2>1. w2 \in [0 .. Slots - 1 -> Pointers] /\ i2 \in [Timers -> -1 .. Slots - 1]
    BY <1>1, SlotsAssumption DEF Shape
  <2>2. n2 \in [Timers -> Pointers] /\ p2 \in [Timers -> Pointers]
    BY <1>1 DEF Shape, Via, Pointers
  <2>3. d2 \subseteq Timers /\ o2 \subseteq Timers \X Timers
    BY <1>1 DEF Shape
  <2> QED  BY <2>1, <2>2, <2>3, <1>1 DEF Shape
<1>7. \A x \in Timers : /\ x # t => i2[x] = ix[x]
                        /\ i2[t] = -1
                        /\ n2[x] = IF x = t THEN NoTimer ELSE IF x = p[t] THEN n[t] ELSE n[x]
                        /\ p2[x] = IF x = t THEN NoTimer ELSE IF x = n[t] THEN p[t] ELSE p[x]
  BY <1>1, NoTimerAssumption DEF Shape, Via, Pointers
<1>8. \A s \in 0 .. Slots - 1 :
        w2[s] = IF p[t] = NoTimer /\ s = ix[t] THEN n[t] ELSE w[s]
  BY <1>1 DEF Shape
<1>9. \A x, y \in Timers : <<x, y>> \in o2 <=> <<x, y>> \in o /\ x # t /\ y # t
  OBVIOUS
<1>10. \A x \in Timers : n[x] = t => x = p[t]
  BY <1>1, <1>2, NoTimerAssumption DEF Linked
<1>11. HeadOfSlot(w2, i2, p2, d2)
  <2> SUFFICES ASSUME NEW s \in 0 .. Slots - 1, w2[s] # NoTimer
               PROVE  i2[w2[s]] = s /\ w2[s] \notin d2 /\ p2[w2[s]] = NoTimer
    BY DEF HeadOfSlot
  <2>1. CASE p[t] = NoTimer /\ s = ix[t]
    <3>1. w2[s] = n[t] /\ n[t] \in Timers /\ p[n[t]] = t /\ Alike(ix, d, t, n[t])
      BY <2>1, <1>1, <1>2, <1>8 DEF Shape, Linked, Pointers
    <3> QED  BY <3>1, <2>1, <1>3, <1>5, <1>7 DEF Alike
  <2>2. CASE ~(p[t] = NoTimer /\ s = ix[t])
    <3>1. w2[s] = w[s] /\ w[s] \in Timers /\ ix[w[s]] = s /\ w[s] \notin d /\ p[w[s]] = NoTimer
      BY <2>2, <1>1, <1>2, <1>8 DEF Shape, HeadOfSlot, Pointers
    <3>2. w[s] # t
      BY <3>1, <2>2
    <3>3. w[s] = n[t] => p[w[s]] = t
      BY <3>1, <1>2, NoTimerAssumption DEF Linked
    <3> QED  BY <3>1, <3>2, <3>3, <1>7, NoTimerAssumption
  <2> QED  BY <2>1, <2>2
<1>12. Linked(i2, p2, n2, d2)
  <2> SUFFICES ASSUME NEW x \in Timers, n2[x] # NoTimer
               PROVE  p2[n2[x]] = x /\ Alike(i2, d2, x, n2[x])
    BY DEF Linked
  <2>1. x # t
    BY <1>7
  <2>2. CASE x = p[t]
    <3>1. n2[x] = n[t] /\ n[t] \in Timers /\ Alike(ix, d, t, n[t])
      BY <2>1, <2>2, <1>1, <1>2, <1>7 DEF Shape, Linked, Pointers
    <3>2. Alike(ix, d, t, x)
      BY <2>2, <1>4, NoTimerAssumption
    <3>3. p2[n2[x]] = x
      BY <3>1, <2>2, <1>3, <1>7
    <3> QED  BY <3>1, <3>2, <3>3, <2>1, <1>3, <1>7 DEF Alike
  <2>3. CASE x # p[t]
    <3>1. n2[x] = n[x] /\ n[x] \in Timers /\ p[n[x]] = x /\ Alike(ix, d, x, n[x])
      BY <2>1, <2>3, <1>1, <1>2, <1>7 DEF Shape, Linked, Pointers
    <3>2. n[x] # t
      BY <2>3, <1>10
    <3>3. n[x] # n[t]
      BY <3>1, <2>1, <1>2, NoTimerAssumption DEF Linked
    <3> QED  BY <3>1, <3>2, <3>3, <2>1, <1>7 DEF Alike
  <2> QED  BY <2>2, <2>3
<1>13. Idle(i2, p2, n2, d2)
  <2> SUFFICES ASSUME NEW x \in Timers, i2[x] = -1
               PROVE  n2[x] = NoTimer /\ p2[x] = NoTimer /\ x \notin d2
    BY DEF Idle
  <2>1. CASE x = t
    BY <2>1, <1>7
  <2>2. CASE x # t
    <3>1. ix[x] = -1 /\ n[x] = NoTimer /\ p[x] = NoTimer /\ x \notin d
      BY <2>2, <1>2, <1>7 DEF Idle
    <3>2. x # p[t]
      BY <3>1, <1>4 , NoTimerAssumption
    <3>3. x # n[t]
      BY <3>1, <1>2, NoTimerAssumption DEF Linked
    <3> QED  BY <2>2, <3>1, <3>2, <3>3, <1>7
  <2> QED  BY <2>1, <2>2
<1>14. Reached(w2, i2, p2, n2, d2, h)
  <2> SUFFICES ASSUME NEW x \in Timers, i2[x] # -1
               PROVE  IF x \in d2 THEN x = h \/ (p2[x] # NoTimer /\ n2[p2[x]] = x)
                      ELSE IF p2[x] = NoTimer THEN w2[i2[x]] = x ELSE n2[p2[x]] = x
    BY DEF Reached
  <2>1. x # t /\ i2[x] = ix[x] /\ ix[x] # -1 /\ (x \in d2 <=> x \in d) /\ ix[x] \in 0 .. Slots - 1
    BY <1>1, <1>7 DEF Shape
  <2>2. IF x \in d THEN x = h \/ (p[x] # NoTimer /\ n[p[x]] = x)
        ELSE IF p[x] = NoTimer THEN w[ix[x]] = x ELSE n[p[x]] = x
    BY <2>1, <1>2 DEF Reached
  <2>3. CASE x = n[t]
    <3>1. p[x] = t /\ Alike(ix, d, t, x) /\ p2[x] = p[t]
      BY <2>1, <2>3, <1>2, <1>7, NoTimerAssumption DEF Linked
    <3>2. CASE p[t] = NoTimer
      <4>1. w2[ix[x]] = x
        BY <3>1, <3>2, <2>1, <2>3, <1>8 DEF Alike
      <4> QED  BY <4>1, <3>1, <3>2, <2>1, <1>5 DEF Alike
    <3>3. CASE p[t] # NoTimer
      <4>1. n2[p[t]] = x
        BY <3>3, <2>3, <1>3, <1>4, <1>7
      <4> QED  BY <4>1, <3>1, <3>3, <2>1
    <3> QED  BY <3>2, <3>3
  <2>4. CASE x # n[t]
    <3>1. p2[x] = p[x] /\ p[x] \in Pointers
      BY <2>1, <2>4, <1>1, <1>7 DEF Shape
    <3>2. CASE p[x] # NoTimer /\ n[p[x]] = x
      <4>1. p[x] # t /\ p[x] # p[t] /\ p[x] \in Timers
        BY <3>1, <3>2, <2>1, <2>4, <1>4 DEF Pointers
      <4>2. n2[p[x]] = x
        BY <4>1, <3>2, <1>7
      <4> QED  BY <4>2, <3>1, <3>2, <2>1
    <3>3. CASE x \notin d /\ p[x] = NoTimer
      <4>1. w[ix[x]] = x
        BY <3>3, <2>2
      <4>2. w2[ix[x]] = x
        BY <4>1, <2>1, <1>5, <1>8
      <4> QED  BY <4>2, <3>1, <3>3, <2>1
    <3>4. CASE x = h /\ x \in d
      BY <3>4, <2>1
    <3> QED  BY <3>2, <3>3, <3>4, <2>2
  <2> QED  BY <2>3, <2>4
<1>15. Order(i2, o2)
  BY <1>2, <1>7, <1>9 DEF Order
<1>16. Successor(i2, n2, d2, o2)
  <2>1. ASSUME NEW x \in Timers, n2[x] # NoTimer
        PROVE  <<x, n2[x]>> \in o2
    <3>1. x # t /\ n2[x] \in Timers
      BY <2>1, <1>6, <1>7 DEF Shape, Pointers
    <3>2. CASE x = p[t]
      <4>1. n2[x] = n[t] /\ <<t, n[t]>> \in o
        BY <3>1, <3>2, <2>1, <1>2, <1>7 DEF Successor
      <4>2. <<x, t>> \in o
        BY <3>2, <1>2, <1>4, NoTimerAssumption DEF Successor
      <4>3. <<x, n[t]>> \in o
        BY <4>1, <4>2, <3>1, <1>2 DEF Order
      <4> QED  BY <4>1, <4>3, <3>1, <1>3, <1>9
    <3>3. CASE x # p[t]
      <4>1. n2[x] = n[x] /\ <<x, n[x]>> \in o /\ n[x] # t
        BY <3>1, <3>3, <2>1, <1>2, <1>7, <1>10 DEF Successor
      <4> QED  BY <4>1, <3>1, <1>9
    <3> QED  BY <3>2, <3>3
  <2>2. ASSUME NEW x \in Timers, NEW y \in Timers, <<x, y>> \in o2, Alike(i2, d2, x, y)
        PROVE  n2[x] # NoTimer /\ (n2[x] = y \/ <<n2[x], y>> \in o2)
    <3>1. x # t /\ y # t /\ <<x, y>> \in o /\ Alike(ix, d, x, y)
      BY <2>2, <1>7, <1>9 DEF Alike
    <3>2. n[x] # NoTimer /\ (n[x] = y \/ <<n[x], y>> \in o)
      BY <3>1, <1>2 DEF Successor
    <3>3. CASE x = p[t]
      <4>1. n[x] = t /\ Alike(ix, d, t, x)
        BY <3>3, <1>4, NoTimerAssumption
      <4>2. <<t, y>> \in o /\ Alike(ix, d, t, y)
        BY <4>1, <3>1, <3>2 DEF Alike
      <4>3. n[t] # NoTimer /\ (n[t] = y \/ <<n[t], y>> \in o)
        BY <4>2, <1>2 DEF Successor
      <4>4. n2[x] = n[t] /\ n[t] \in Timers
        BY <4>3, <3>1, <3>3, <1>1, <1>7 DEF Shape, Pointers
      <4> QED  BY <4>3, <4>4, <3>1, <1>3, <1>9
    <3>4. CASE x # p[t]
      <4>1. n2[x] = n[x] /\ n[x] # t /\ n[x] \in Timers
        BY <3>1, <3>2, <3>4, <1>1, <1>7, <1>10 DEF Shape, Pointers
      <4> QED  BY <4>1, <3>1, <3>2, <1>9
    <3> QED  BY <3>3, <3>4
  <2> QED  BY <2>1, <2>2 DEF Successor
<1>17. HeadNewest(w2, i2, d2, o2)
  <2> SUFFICES ASSUME NEW x \in Timers, i2[x] # -1, x \notin d2, w2[i2[x]] # x
               PROVE  w2[i2[x]] # NoTimer /\ <<w2[i2[x]], x>> \in o2
    BY DEF HeadNewest
  <2>1. x # t /\ i2[x] = ix[x] /\ ix[x] # -1 /\ x \notin d /\ ix[x] \in 0 .. Slots - 1
    BY <1>1, <1>7 DEF Shape
  <2>2. w[ix[x]] # x => w[ix[x]] # NoTimer /\ <<w[ix[x]], x>> \in o
    BY <2>1, <1>2 DEF HeadNewest
  <2>3. CASE p[t] = NoTimer /\ ix[x] = ix[t]
    <3>1. w2[ix[x]] = n[t] /\ w[ix[x]] = t
      BY <2>1, <2>3, <1>5, <1>8
    <3>2. <<t, x>> \in o /\ Alike(ix, d, t, x)
      BY <3>1, <2>1, <2>2, <2>3, <1>5 DEF Alike
    <3>3. n[t] # NoTimer /\ (n[t] = x \/ <<n[t], x>> \in o) /\ n[t] \in Timers
      BY <3>2, <1>1, <1>2 DEF Successor, Shape, Pointers
    <3> QED  BY <3>1, <3>3, <2>1, <1>3, <1>9
  <2>4. CASE ~(p[t] = NoTimer /\ ix[x] = ix[t])
    <3>1. w2[ix[x]] = w[ix[x]] /\ w[ix[x]] \in Timers
      BY <2>1, <2>2, <2>4, <1>1, <1>8 DEF Shape, Pointers
    <3>2. w[ix[x]] # t
      BY <2>1, <2>4, <1>1, <1>2, NoTimerAssumption DEF HeadOfSlot
    <3> QED  BY <3>1, <3>2, <2>1, <2>2, <1>9
  <2> QED  BY <2>3, <2>4
<1>18. SavedNewest(i2, d2, o2, h, c)
  <2>1. h # NoTimer => h \in d2
    BY <1>2 DEF SavedNewest
  <2>2. \A u \in d2 : i2[u] = c
    BY <1>1, <1>2, <1>7 DEF SavedNewest, Shape
  <2>3. ASSUME NEW u \in d2 \ {h}
        PROVE  <<h, u>> \in o2
    <3>1. <<h, u>> \in o /\ u \in Timers /\ h \in Timers /\ u # t
      BY <2>3, <1>1, <1>2 DEF SavedNewest, Shape
    <3> QED  BY <3>1, <1>9
  <2> QED  BY <2>1, <2>2, <2>3 DEF SavedNewest
<1>19. Whole(w2, i2, p2, n2, d2, o2, h, c)
  BY <1>6, <1>11, <1>12, <1>13, <1>14, <1>15, <1>16, <1>17, <1>18 DEF Whole
<1> QED  BY <1>19 DEF WheelWithout, LinksWithout, OrderWithout

\* A timer that is in no slot can be put first in the list of a slot.
LEMMA PutFirst ==
  ASSUME NEW w, NEW ix, NEW p, NEW n, NEW d, NEW o, NEW h,
         NEW c \in 0 .. Slots - 1, NEW t \in Timers, NEW s \in 0 .. Slots - 1,
         Whole(w, ix, p, n, d, o, h, c), ix[t] = -1
  PROVE  Whole([w EXCEPT ![s] = t], [ix EXCEPT ![t] = s], Via(p, w[s], t),
               [n EXCEPT ![t] = w[s]], d,
               o \cup {<<t, u>> : u \in {u \in Timers \ {t} : ix[u] # -1}}, h, c)
<1> DEFINE w2 == [w EXCEPT ![s] = t]
           i2 == [ix EXCEPT ![t] = s]
           p2 == Via(p, w[s], t)
           n2 == [n EXCEPT ![t] = w[s]]
           o2 == o \cup {<<t, u>> : u \in {u \in Timers \ {t} : ix[u] # -1}}
<1>1. Shape(w, ix, p, n, d, o, h)
  BY DEF Whole
<1>2. HeadOfSlot(w, ix, p, d) /\ Linked(ix, p, n, d) /\ Idle(ix, p, n, d)
      /\ Reached(w, ix, p, n, d, h) /\ Order(ix, o) /\ Successor(ix, n, d, o)
      /\ HeadNewest(w, ix, d, o) /\ SavedNewest(ix, d, o, h, c)
  BY DEF Whole
<1>3. t \notin d /\ n[t] = NoTimer /\ p[t] = NoTimer
  BY <1>2 DEF Idle
<1>4. w[s] # NoTimer =>
        w[s] \in Timers /\ ix[w[s]] = s /\ w[s] \notin d /\ p[w[s]] = NoTimer /\ w[s] # t
  BY <1>1, <1>2, SlotsAssumption DEF Shape, HeadOfSlot, Pointers
<1>5. \A x \in Timers : n[x] # t /\ (n[x] = w[s] => n[x] = NoTimer)
  <2>1. ASSUME NEW x \in Timers, n[x] # NoTimer
        PROVE  p[n[x]] = x /\ ix[n[x]] # -1
    BY <2>1, <1>2 DEF Linked, Alike
  <2> QED  BY <2>1, <1>4, NoTimerAssumption
<1>6. Shape(w2, i2, p2, n2, d, o2, h)
  <2>1. w2 \in [0 .. Slots - 1 -> Pointers] /\ i2 \in [Timers -> -1 .. Slots - 1]
    BY <1>1, SlotsAssumption DEF Shape, Pointers
  <2>2. n2 \in [Timers -> Pointers] /\ p2 \in [Timers -> Pointers]
    BY <1>1 DEF Shape, Via, Pointers
  <2> QED  BY <2>1, <2>2, <1>1 DEF Shape
<1>7. \A x \in Timers : /\ x # t => i2[x] = ix[x]
                        /\ i2[t] = s
                        /\ n2[x] = IF x = t THEN w[s] ELSE n[x]
                        /\ p2[x] = IF x = w[s] THEN t ELSE p[x]
  BY <1>1, NoTimerAssumption DEF Shape, Via, Pointers
<1>8. \A r \in 0 .. Slots - 1 : w2[r] = IF r = s THEN t ELSE w[r]
  BY <1>1 DEF Shape
<1>9. \A x, y \in Timers :
        <<x, y>> \in o2 <=> <<x, y>> \in o \/ (x = t /\ y # t /\ ix[y] # -1)
  OBVIOUS
<1>10. \A x, y \in Timers : <<x, y>> \in o => x # t /\ y # t /\ x # y /\ ix[x] # -1 /\ ix[y] # -1
  BY <1>2 DEF Order
<1>11. HeadOfSlot(w2, i2, p2, d)
  <2> SUFFICES ASSUME NEW r \in 0 .. Slots - 1, w2[r] # NoTimer
               PROVE  i2[w2[r]] = r /\ w2[r] \notin d /\ p2[w2[r]] = NoTimer
    BY DEF HeadOfSlot
  <2>1. CASE r = s
    BY <2>1, <1>3, <1>4, <1>7, <1>8
  <2>2. CASE r # s
    <3>1. w2[r] = w[r] /\ w[r] \in Timers /\ ix[w[r]] = r /\ w[r] \notin d /\ p[w[r]] = NoTimer
      BY <2>2, <1>1, <1>2, <1>8 DEF Shape, HeadOfSlot, Pointers
    <3>2. w[r] # t /\ w[r] # w[s]
      BY <3>1, <2>2, <1>4, NoTimerAssumption
    <3> QED  BY <3>1, <3>2, <1>7
  <2> QED  BY <2>1, <2>2
<1>12. Linked(i2, p2, n2, d)
  <2> SUFFICES ASSUME NEW x \in Timers, n2[x] # NoTimer
               PROVE  p2[n2[x]] = x /\ Alike(i2, d, x, n2[x])
    BY DEF Linked
  <2>1. CASE x = t
    BY <2>1, <1>3, <1>4, <1>7 DEF Alike
  <2>2. CASE x # t
    <3>1. n2[x] = n[x] /\ n[x] \in Timers /\ p[n[x]] = x /\ Alike(ix, d, x, n[x])
      BY <2>2, <1>1, <1>2, <1>7 DEF Shape, Linked, Pointers
    <3> QED  BY <3>1, <2>2, <1>5, <1>7, NoTimerAssumption DEF Alike
  <2> QED  BY <2>1, <2>2
<1>13. Idle(i2, p2, n2, d)
  <2> SUFFICES ASSUME NEW x \in Timers, i2[x] = -1
               PROVE  n2[x] = NoTimer /\ p2[x] = NoTimer /\ x \notin d
    BY DEF Idle
  <2>1. x # t /\ ix[x] = -1
    BY <1>7
  <2>2. n[x] = NoTimer /\ p[x] = NoTimer /\ x \notin d
    BY <2>1, <1>2 DEF Idle
  <2>3. x # w[s]
    BY <2>1, <1>4, NoTimerAssumption
  <2> QED  BY <2>1, <2>2, <2>3, <1>7
<1>14. Reached(w2, i2, p2, n2, d, h)
  <2> SUFFICES ASSUME NEW x \in Timers, i2[x] # -1
               PROVE  IF x \in d THEN x = h \/ (p2[x] # NoTimer /\ n2[p2[x]] = x)
                      ELSE IF p2[x] = NoTimer THEN w2[i2[x]] = x ELSE n2[p2[x]] = x
    BY DEF Reached
  <2>1. CASE x = t
    BY <2>1, <1>3, <1>4, <1>7, <1>8
  <2>2. CASE x = w[s]
    BY <2>2, <1>3, <1>4, <1>7, NoTimerAssumption
  <2>3. CASE x # t /\ x # w[s]
    <3>1. i2[x] = ix[x] /\ p2[x] = p[x] /\ ix[x] # -1 /\ ix[x] \in 0 .. Slots - 1
          /\ p[x] \in Pointers
      BY <2>3, <1>1, <1>7 DEF Shape
    <3>2. IF x \in d THEN x = h \/ (p[x] # NoTimer /\ n[p[x]] = x)
          ELSE IF p[x] = NoTimer THEN w[ix[x]] = x ELSE n[p[x]] = x
      BY <3>1, <1>2 DEF Reached
    <3>3. p[x] # NoTimer /\ n[p[x]] = x => p[x] # t /\ n2[p[x]] = x
      BY <3>1, <1>3, <1>7, NoTimerAssumption DEF Pointers
    <3>4. w[ix[x]] = x => w2[ix[x]] = x
      BY <3>1, <2>3, <1>8
    <3> QED  BY <3>1, <3>2, <3>3, <3>4
  <2> QED  BY <2>1, <2>2, <2>3
<1>15. Order(i2, o2)
  <2>1. ASSUME NEW x \in Timers, NEW y \in Timers, <<x, y>> \in o2
        PROVE  i2[x] # -1 /\ i2[y] # -1 /\ x # y
    BY <2>1, <1>7, <1>9, <1>10
  <2>2. ASSUME NEW x \in Timers, NEW y \in Timers, NEW z \in Timers,
               <<x, y>> \in o2, <<y, z>> \in o2
        PROVE  <<x, z>> \in o2
    <3>1. <<y, z>> \in o
      BY <2>2, <1>9, <1>10
    <3>2. CASE x = t
      BY <3>1, <3>2, <1>9, <1>10
    <3>3. CASE x # t
      <4>1. <<x, y>> \in o
        BY <2>2, <3>3, <1>9
      <4>2. <<x, z>> \in o
        BY <3>1, <4>1, <1>2 DEF Order
      <4> QED  BY <4>2, <1>9
    <3> QED  BY <3>2, <3>3
  <2> QED  BY <2>1, <2>2 DEF Order
<1>16. Successor(i2, n2, d, o2)
  <2>1. ASSUME NEW x \in Timers, n2[x] # NoTimer
        PROVE  <<x, n2[x]>> \in o2
    <3>1. CASE x = t
      BY <3>1, <2>1, <1>4, <1>7, <1>9
    <3>2. CASE x # t
      <4>1. n2[x] = n[x] /\ <<x, n[x]>> \in o
        BY <3>2, <2>1, <1>2, <1>7 DEF Successor
      <4> QED  BY <4>1
    <3> QED  BY <3>1, <3>2
  <2>2. ASSUME NEW x \in Timers, NEW y \in Timers, <<x, y>> \in o2, Alike(i2, d, x, y)
        PROVE  n2[x] # NoTimer /\ (n2[x] = y \/ <<n2[x], y>> \in o2)
    <3>1. CASE x = t
      <4>1. y # t /\ ix[y] = s /\ y \notin d
        BY <3>1, <2>2, <1>3, <1>7, <1>9, <1>10 DEF Alike
      <4>2. w[s] = y \/ (w[s] # NoTimer /\ <<w[s], y>> \in o)
        BY <4>1, <1>2 DEF HeadNewest
      <4>3. n2[x] = w[s]
        BY <3>1, <1>7
      <4> QED  BY <4>2, <4>3, NoTimerAssumption
    <3>2. CASE x # t
      <4>1. <<x, y>> \in o /\ y # t
        BY <3>2, <2>2, <1>9, <1>10
      <4>2. Alike(ix, d, x, y)
        BY <3>2, <4>1, <2>2, <1>7 DEF Alike
      <4>3. n[x] # NoTimer /\ (n[x] = y \/ <<n[x], y>> \in o)
        BY <4>1, <4>2, <1>2 DEF Successor
      <4>4. n2[x] = n[x]
        BY <3>2, <1>7
      <4> QED  BY <4>3, <4>4
    <3> QED  BY <3>1, <3>2
  <2> QED  BY <2>1, <2>2 DEF Successor
<1>17. HeadNewest(w2, i2, d, o2)
  <2> SUFFICES ASSUME NEW x \in Timers, i2[x] # -1, x \notin d, w2[i2[x]] # x
               PROVE  w2[i2[x]] # NoTimer /\ <<w2[i2[x]], x>> \in o2
    BY DEF HeadNewest
  <2>1. x # t
    BY <1>7, <1>8
  <2>2. i2[x] = ix[x] /\ ix[x] # -1 /\ ix[x] \in 0 .. Slots - 1
    BY <2>1, <1>1, <1>7 DEF Shape
  <2>3. CASE ix[x] = s
    BY <2>1, <2>2, <2>3, <1>8, <1>9, NoTimerAssumption
  <2>4. CASE ix[x] # s
    <3>1. w2[ix[x]] = w[ix[x]] /\ w[ix[x]] # x
      BY <2>2, <2>4, <1>8
    <3>2. w[ix[x]] # NoTimer /\ <<w[ix[x]], x>> \in o
      BY <3>1, <2>2, <1>2 DEF HeadNewest
    <3> QED  BY <3>1, <3>2, <2>2
  <2> QED  BY <2>3, <2>4
<1>18. SavedNewest(i2, d, o2, h, c)
  <2>1. h # NoTimer => h \in d
    BY <1>2 DEF SavedNewest
  <2>2. \A u \in d : i2[u] = c
    BY <1>1, <1>2, <1>3, <1>7 DEF SavedNewest, Shape
  <2>3. \A u \in d \ {h} : <<h, u>> \in o2
    BY <1>2 DEF SavedNewest
  <2> QED  BY <2>1, <2>2, <2>3 DEF SavedNewest
<1>19. Whole(w2, i2, p2, n2, d, o2, h, c)
  BY <1>6, <1>11, <1>12, <1>13, <1>14, <1>15, <1>16, <1>17, <1>18 DEF Whole
<1> QED  BY <1>19

\* The walk can take the timer it saved out of its list, and save the next.
LEMMA SavedTaken ==
  ASSUME NEW w, NEW ix, NEW p, NEW n, NEW d, NEW o, NEW h, NEW c \in 0 .. Slots - 1,
         Whole(w, ix, p, n, d, o, h, c), h # NoTimer
  PROVE  Whole(w, [ix EXCEPT ![h] = -1], [p EXCEPT ![h] = NoTimer],
               [n EXCEPT ![h] = NoTimer], d \ {h},
               {pair \in o : pair[1] # h /\ pair[2] # h}, n[h], c)
<1> DEFINE n2 == [n EXCEPT ![h] = NoTimer]
           p2 == [p EXCEPT ![h] = NoTimer]
           i2 == [ix EXCEPT ![h] = -1]
           d2 == d \ {h}
           o2 == {pair \in o : pair[1] # h /\ pair[2] # h}
<1>1. Shape(w, ix, p, n, d, o, h)
  BY DEF Whole
<1>2. HeadOfSlot(w, ix, p, d) /\ Linked(ix, p, n, d) /\ Idle(ix, p, n, d)
      /\ Reached(w, ix, p, n, d, h) /\ Order(ix, o) /\ Successor(ix, n, d, o)
      /\ HeadNewest(w, ix, d, o) /\ SavedNewest(ix, d, o, h, c)
  BY DEF Whole
<1>3. h \in d /\ h \in Timers /\ ix[h] = c
  BY <1>1, <1>2 DEF Shape, SavedNewest
<1>4. n[h] \in Pointers /\ n[h] # h
  BY <1>1, <1>2, <1>3, NoTimerAssumption DEF Shape, Successor, Order
<1>5. \A x \in Timers : n[x] # h
  <2> SUFFICES ASSUME NEW x \in Timers, n[x] = h
               PROVE  FALSE
    OBVIOUS
  <2>1. <<x, h>> \in o /\ x \in d
    BY <1>2, <1>3, NoTimerAssumption DEF Successor, Linked, Alike
  <2>2. x # h /\ <<h, x>> \in o
    BY <2>1, <1>2, <1>3 DEF Order, SavedNewest
  <2> QED  BY <2>1, <2>2, <1>2, <1>3 DEF Order
<1>6. Shape(w, i2, p2, n2, d2, o2, n[h])
  <2>1. i2 \in [Timers -> -1 .. Slots - 1]
    <3>1. ix \in [Timers -> -1 .. Slots - 1] /\ -1 \in -1 .. Slots - 1
      BY <1>1, SlotsAssumption DEF Shape
    <3> QED  BY <3>1, <1>3
  <2>2. n2 \in [Timers -> Pointers] /\ p2 \in [Timers -> Pointers]
    BY <1>1 DEF Shape, Pointers
  <2> QED  BY <2>1, <2>2, <1>1, <1>4 DEF Shape
<1>7. \A x \in Timers : /\ x # h => i2[x] = ix[x]
                        /\ i2[h] = -1
                        /\ n2[x] = IF x = h THEN NoTimer ELSE n[x]
                        /\ p2[x] = IF x = h THEN NoTimer ELSE p[x]
  BY <1>1, <1>3 DEF Shape
<1>8. \A x, y \in Timers : <<x, y>> \in o2 <=> <<x, y>> \in o /\ x # h /\ y # h
  OBVIOUS
<1>9. HeadOfSlot(w, i2, p2, d2)
  <2> SUFFICES ASSUME NEW s \in 0 .. Slots - 1, w[s] # NoTimer
               PROVE  i2[w[s]] = s /\ w[s] \notin d2 /\ p2[w[s]] = NoTimer
    BY DEF HeadOfSlot
  <2>1. w[s] \in Timers /\ ix[w[s]] = s /\ w[s] \notin d /\ p[w[s]] = NoTimer
    BY <1>1, <1>2 DEF Shape, HeadOfSlot, Pointers
  <2> QED  BY <2>1, <1>3, <1>7
<1>10. Linked(i2, p2, n2, d2)
  <2> SUFFICES ASSUME NEW x \in Timers, n2[x] # NoTimer
               PROVE  p2[n2[x]] = x /\ Alike(i2, d2, x, n2[x])
    BY DEF Linked
  <2>1. x # h /\ n2[x] = n[x] /\ n[x] \in Timers /\ n[x] # h
    BY <1>1, <1>5, <1>7 DEF Shape, Pointers
  <2>2. p[n[x]] = x /\ Alike(ix, d, x, n[x])
    BY <2>1, <1>2 DEF Linked
  <2> QED  BY <2>1, <2>2, <1>7 DEF Alike
<1>11. Idle(i2, p2, n2, d2)
  <2> SUFFICES ASSUME NEW x \in Timers, i2[x] = -1
               PROVE  n2[x] = NoTimer /\ p2[x] = NoTimer /\ x \notin d2
    BY DEF Idle
  <2> QED  BY <1>2, <1>7 DEF Idle
<1>12. Reached(w, i2, p2, n2, d2, n[h])
  <2> SUFFICES ASSUME NEW x \in Timers, i2[x] # -1
               PROVE  IF x \in d2 THEN x = n[h] \/ (p2[x] # NoTimer /\ n2[p2[x]] = x)
                      ELSE IF p2[x] = NoTimer THEN w[i2[x]] = x ELSE n2[p2[x]] = x
    BY DEF Reached
  <2>1. x # h /\ i2[x] = ix[x] /\ ix[x] # -1 /\ p2[x] = p[x] /\ p[x] \in Pointers
    BY <1>1, <1>7 DEF Shape
  <2>2. IF x \in d THEN p[x] # NoTimer /\ n[p[x]] = x
        ELSE IF p[x] = NoTimer THEN w[ix[x]] = x ELSE n[p[x]] = x
    BY <2>1, <1>2 DEF Reached
  <2>3. CASE p[x] = h
    BY <2>1, <2>2, <2>3, <1>2, <1>3, NoTimerAssumption DEF Linked, Alike
  <2>4. CASE p[x] = NoTimer
    BY <2>1, <2>2, <2>4
  <2>5. CASE p[x] # h /\ p[x] # NoTimer
    <3>1. n2[p[x]] = n[p[x]]
      BY <2>1, <2>5, <1>7 DEF Pointers
    <3> QED  BY <3>1, <2>1, <2>2, <2>5
  <2> QED  BY <2>3, <2>4, <2>5
<1>13. Order(i2, o2)
  BY <1>2, <1>7, <1>8 DEF Order
<1>14. Successor(i2, n2, d2, o2)
  <2>1. ASSUME NEW x \in Timers, n2[x] # NoTimer
        PROVE  <<x, n2[x]>> \in o2
    <3>1. x # h /\ n2[x] = n[x] /\ n[x] \in Timers /\ n[x] # h
      BY <2>1, <1>1, <1>5, <1>7 DEF Shape, Pointers
    <3>2. <<x, n[x]>> \in o
      BY <2>1, <3>1, <1>2 DEF Successor
    <3> QED  BY <3>1, <3>2, <1>8
  <2>2. ASSUME NEW x \in Timers, NEW y \in Timers, <<x, y>> \in o2, Alike(i2, d2, x, y)
        PROVE  n2[x] # NoTimer /\ (n2[x] = y \/ <<n2[x], y>> \in o2)
    <3>1. x # h /\ y # h /\ <<x, y>> \in o /\ Alike(ix, d, x, y)
      BY <2>2, <1>7, <1>8 DEF Alike
    <3>2. n[x] # NoTimer /\ (n[x] = y \/ <<n[x], y>> \in o)
      BY <3>1, <1>2 DEF Successor
    <3>3. n2[x] = n[x] /\ n[x] # h /\ n[x] \in Timers
      BY <3>1, <3>2, <1>1, <1>5, <1>7 DEF Shape, Pointers
    <3> QED  BY <3>1, <3>2, <3>3, <1>8
  <2> QED  BY <2>1, <2>2 DEF Successor
<1>15. HeadNewest(w, i2, d2, o2)
  <2> SUFFICES ASSUME NEW x \in Timers, i2[x] # -1, x \notin d2, w[i2[x]] # x
               PROVE  w[i2[x]] # NoTimer /\ <<w[i2[x]], x>> \in o2
    BY DEF HeadNewest
  <2>1. x # h /\ i2[x] = ix[x] /\ ix[x] # -1 /\ x \notin d /\ ix[x] \in 0 .. Slots - 1
    BY <1>1, <1>7 DEF Shape
  <2>2. w[ix[x]] # NoTimer /\ <<w[ix[x]], x>> \in o
    BY <2>1, <1>2 DEF HeadNewest
  <2>3. w[ix[x]] # h /\ w[ix[x]] \in Timers
    BY <2>1, <2>2, <1>1, <1>2, <1>3 DEF HeadOfSlot, Shape, Pointers
  <2> QED  BY <2>1, <2>2, <2>3, <1>8
<1>16. SavedNewest(i2, d2, o2, n[h], c)
  <2>1. n[h] # NoTimer => n[h] \in d2
    BY <1>2, <1>3, <1>4 DEF Linked, Alike
  <2>2. \A u \in d2 : i2[u] = c
    BY <1>1, <1>2, <1>7 DEF SavedNewest, Shape
  <2>3. ASSUME NEW u \in d2 \ {n[h]}
        PROVE  <<n[h], u>> \in o2
    <3>1. u \in Timers /\ <<h, u>> \in o /\ Alike(ix, d, h, u) /\ u # h
      <4>1. u \in d /\ u # h /\ ix[u] = c /\ u \in Timers
        BY <2>3, <1>1, <1>2 DEF Shape, SavedNewest
      <4>2. <<h, u>> \in o
        BY <4>1, <1>2 DEF SavedNewest
      <4> QED  BY <4>1, <4>2, <1>2, <1>3 DEF Alike, Order
    <3>2. n[h] # NoTimer /\ <<n[h], u>> \in o
      BY <3>1, <2>3, <1>2, <1>3 DEF Successor
    <3> QED  BY <3>1, <3>2, <1>4, <1>8 DEF Pointers
  <2> QED  BY <2>1, <2>2, <2>3 DEF SavedNewest
<1>17. Whole(w, i2, p2, n2, d2, o2, n[h], c)
  BY <1>6, <1>9, <1>10, <1>11, <1>12, <1>13, <1>14, <1>15, <1>16 DEF Whole
<1> QED  BY <1>17

\* Between two walks a slot can give up its list, which is due then.
LEMMA SlotTaken ==
  ASSUME NEW w, NEW ix, NEW p, NEW n, NEW o, NEW c \in 0 .. Slots - 1,
         NEW s \in 0 .. Slots - 1, Whole(w, ix, p, n, {}, o, NoTimer, c)
  PROVE  Whole([w EXCEPT ![s] = NoTimer], ix, p, n, {t \in Timers : ix[t] = s},
               o, w[s], s)
<1> DEFINE w2 == [w EXCEPT ![s] = NoTimer]
           d2 == {t \in Timers : ix[t] = s}
<1>1. Shape(w, ix, p, n, {}, o, NoTimer)
  BY DEF Whole
<1>2. HeadOfSlot(w, ix, p, {}) /\ Linked(ix, p, n, {}) /\ Idle(ix, p, n, {})
      /\ Reached(w, ix, p, n, {}, NoTimer) /\ Order(ix, o) /\ Successor(ix, n, {}, o)
      /\ HeadNewest(w, ix, {}, o)
  BY DEF Whole
<1>3. Shape(w2, ix, p, n, d2, o, w[s])
  BY <1>1 DEF Shape, Pointers
<1>4. \A r \in 0 .. Slots - 1 : w2[r] = IF r = s THEN NoTimer ELSE w[r]
  BY <1>1 DEF Shape
<1>5. \A t, u \in Timers : Alike(ix, d2, t, u) <=> Alike(ix, {}, t, u)
  BY DEF Alike
<1>6. HeadOfSlot(w2, ix, p, d2)
  BY <1>1, <1>2, <1>4 DEF HeadOfSlot, Shape
<1>7. Linked(ix, p, n, d2)
  BY <1>1, <1>2, <1>5 DEF Linked, Shape, Pointers
<1>8. Idle(ix, p, n, d2)
  BY <1>2, SlotsAssumption DEF Idle
<1>9. Reached(w2, ix, p, n, d2, w[s])
  <2> SUFFICES ASSUME NEW x \in Timers, ix[x] # -1
               PROVE  IF x \in d2 THEN x = w[s] \/ (p[x] # NoTimer /\ n[p[x]] = x)
                      ELSE IF p[x] = NoTimer THEN w2[ix[x]] = x ELSE n[p[x]] = x
    BY DEF Reached
  <2>1. IF p[x] = NoTimer THEN w[ix[x]] = x ELSE n[p[x]] = x
    BY <1>2 DEF Reached
  <2>2. ix[x] \in 0 .. Slots - 1
    BY <1>1 DEF Shape
  <2> QED  BY <2>1, <2>2, <1>4
<1>10. Successor(ix, n, d2, o)
  BY <1>2, <1>5 DEF Successor
<1>11. HeadNewest(w2, ix, d2, o)
  <2> SUFFICES ASSUME NEW x \in Timers, ix[x] # -1, x \notin d2, w2[ix[x]] # x
               PROVE  w2[ix[x]] # NoTimer /\ <<w2[ix[x]], x>> \in o
    BY DEF HeadNewest
  <2>1. ix[x] \in 0 .. Slots - 1 /\ ix[x] # s
    BY <1>1 DEF Shape
  <2> QED  BY <2>1, <1>2, <1>4 DEF HeadNewest
<1>12. SavedNewest(ix, d2, o, w[s], s)
  <2>1. w[s] # NoTimer => w[s] \in d2
    BY <1>1, <1>2 DEF Shape, HeadOfSlot, Pointers
  <2>2. ASSUME NEW u \in d2 \ {w[s]}
        PROVE  <<w[s], u>> \in o
    <3>1. u \in Timers /\ ix[u] = s /\ w[s] # u /\ s # -1
      BY <2>2
    <3> QED  BY <3>1, <1>2 DEF HeadNewest
  <2> QED  BY <2>1, <2>2 DEF SavedNewest
<1>13. Whole(w2, ix, p, n, d2, o, w[s], s)
  BY <1>2, <1>3, <1>6, <1>7, <1>8, <1>9, <1>10, <1>11, <1>12 DEF Whole
<1> QED  BY <1>13

----------------------------------------------------------------------------
(* The invariant *)

\* left says when: a set timer is in the slot of the frame left[t] from now.
LeftTells(ix, d, l, c) ==
  \A t \in Timers :
    IF ix[t] = -1 \/ t \in d THEN l[t] = 0
    ELSE l[t] # 0 /\ ix[t] = (l[t] + c) % Slots

WheelInv ==
  /\ cursor \in 0 .. Slots - 1
  /\ walking \in BOOLEAN
  /\ running \in Pointers
  /\ exists \subseteq Timers
  /\ left \in [Timers -> 0 .. Slots]
  /\ Whole(wheel, index, prev, next, due, newer, np, cursor)
  /\ ~walking => np = NoTimer
  /\ \A t \in Timers : index[t] # -1 => t \in exists
  /\ LeftTells(index, due, left, cursor)

LEMMA WheelTypes ==
  ASSUME WheelInv
  PROVE  TwTypeOK
BY DEF WheelInv, Whole, Shape, TwTypeOK

\* Without a saved timer nothing is due.
LEMMA NothingLeft ==
  ASSUME WheelInv, np = NoTimer
  PROVE  due = {}
<1>1. due \subseteq Timers /\ newer \subseteq Timers \X Timers
  BY DEF WheelInv, Whole, Shape
<1>2. \A u \in due \ {NoTimer} : <<NoTimer, u>> \in newer
  BY DEF WheelInv, Whole, SavedNewest
<1>3. SUFFICES ASSUME NEW u \in due
               PROVE  FALSE
  OBVIOUS
<1>4. <<NoTimer, u>> \in Timers \X Timers
  BY <1>1, <1>2, NoTimerAssumption
<1> QED  BY <1>4, NoTimerAssumption

LEMMA SlotOf ==
  ASSUME NEW c \in 0 .. Slots - 1, NEW k \in 0 .. Slots
  PROVE  /\ (k + c) % Slots \in 0 .. Slots - 1
         /\ (k + c) % Slots = IF k + c < Slots THEN k + c ELSE k + c - Slots
BY SlotsAssumption

LEMMA Stopped ==
  ASSUME WheelInv, NEW t \in Timers, t # np
  PROVE  LET u == Unlinked(t) IN
         Whole(u.wheel, [index EXCEPT ![t] = -1], [u.prev EXCEPT ![t] = NoTimer],
               [u.next EXCEPT ![t] = NoTimer], due \ {t}, Others(t), np, cursor)
<1>1. Whole(wheel, index, prev, next, due, newer, np, cursor) /\ cursor \in 0 .. Slots - 1
  BY DEF WheelInv
<1>2. CASE index[t] # -1
  <2>1. Whole(WheelWithout(wheel, index, prev, next, t), [index EXCEPT ![t] = -1],
              LinksWithout(prev, next, t), LinksWithout(next, prev, t), due \ {t},
              OrderWithout(newer, t), np, cursor)
    BY <1>1, <1>2, TakenOut
  <2>2. /\ Unlinked(t).wheel = WheelWithout(wheel, index, prev, next, t)
        /\ [Unlinked(t).next EXCEPT ![t] = NoTimer] = LinksWithout(next, prev, t)
        /\ [Unlinked(t).prev EXCEPT ![t] = NoTimer] = LinksWithout(prev, next, t)
        /\ Others(t) = OrderWithout(newer, t)
    BY <1>2 DEF Unlinked, WheelWithout, LinksWithout, OrderWithout, Others
  <2> QED  BY <2>1, <2>2
<1>3. CASE index[t] = -1
  <2>1. next[t] = NoTimer /\ prev[t] = NoTimer /\ t \notin due
    BY <1>1, <1>3 DEF Whole, Idle
  <2>2. /\ [index EXCEPT ![t] = -1] = index
        /\ [prev EXCEPT ![t] = NoTimer] = prev
        /\ [next EXCEPT ![t] = NoTimer] = next
    BY <1>1, <1>3, <2>1 DEF Whole, Shape
  <2>3. newer \subseteq Timers \X Timers /\ Order(index, newer)
    BY <1>1 DEF Whole, Shape
  <2>4. ASSUME NEW pair \in newer
        PROVE  pair[1] # t /\ pair[2] # t
    <3>1. PICK x, y \in Timers : pair = <<x, y>>
      BY <2>3, <2>4
    <3> QED  BY <3>1, <2>3, <2>4, <1>3 DEF Order
  <2>5. Others(t) = newer /\ due \ {t} = due
    BY <2>1, <2>4 DEF Others
  <2>6. Unlinked(t).wheel = wheel /\ Unlinked(t).next = next /\ Unlinked(t).prev = prev
    BY <1>3 DEF Unlinked
  <2> QED  BY <1>1, <2>2, <2>5, <2>6
<1> QED  BY <1>2, <1>3

LEMMA StopKeeps ==
  ASSUME WheelInv, NEW t \in Timers, t # np, Stop(t)
  PROVE  Whole(wheel', index', prev', next', due', newer', np, cursor)
BY Stopped DEF Stop

LEMMA StartKeeps ==
  ASSUME WheelInv, NEW t \in Timers, t # np, NEW k \in 1 .. Slots, Start(t, k)
  PROVE  Whole(wheel', index', prev', next', due', newer', np, cursor)
<1> DEFINE u == Unlinked(t)
           s == (k + cursor) % Slots
           w == u.wheel
           ix == [index EXCEPT ![t] = -1]
           p == [u.prev EXCEPT ![t] = NoTimer]
           n == [u.next EXCEPT ![t] = NoTimer]
<1>1. Whole(w, ix, p, n, due \ {t}, Others(t), np, cursor) /\ cursor \in 0 .. Slots - 1
  BY Stopped DEF WheelInv
<1>2. s \in 0 .. Slots - 1 /\ ix[t] = -1
  <2>1. index \in [Timers -> -1 .. Slots - 1] /\ k \in 0 .. Slots
    BY DEF WheelInv, Whole, Shape
  <2> QED  BY <2>1, <1>1, SlotOf
<1>3. Whole([w EXCEPT ![s] = t], [ix EXCEPT ![t] = s], Via(p, w[s], t),
            [n EXCEPT ![t] = w[s]], due \ {t},
            Others(t) \cup {<<t, x>> : x \in {x \in Timers \ {t} : ix[x] # -1}}, np, cursor)
  <2> HIDE DEF u, s, w, ix, p, n
  <2> QED  BY <1>1, <1>2, PutFirst
<1>4. [ix EXCEPT ![t] = s] = [index EXCEPT ![t] = s]
  BY DEF WheelInv, Whole, Shape
<1>5. [n EXCEPT ![t] = w[s]] = [u.next EXCEPT ![t] = w[s]]
  OBVIOUS
<1>6. {x \in Timers \ {t} : ix[x] # -1} = {x \in Timers \ {t} : index[x] # -1}
  BY DEF WheelInv, Whole, Shape
<1> QED  BY <1>3, <1>4, <1>5, <1>6 DEF Start

NextSlot(c) == (c + 1) % Slots

\* A timer set to k frames is in the slot of the next frame only for k = 1,
\* and k frames from now are k - 1 from the next.
LEMMA NextFrame ==
  ASSUME NEW c \in 0 .. Slots - 1, NEW k \in 1 .. Slots
  PROVE  /\ (k + c) % Slots = NextSlot(c) <=> k = 1
         /\ (k + c) % Slots = (k - 1 + NextSlot(c)) % Slots
<1> DEFINE s == NextSlot(c)
           m == k - 1
<1>1. Slots \in Nat \ {0} /\ c + 1 = 1 + c /\ 1 \in 0 .. Slots /\ k \in 0 .. Slots
      /\ m \in 0 .. Slots
  BY SlotsAssumption
<1>2. s \in 0 .. Slots - 1 /\ s = IF 1 + c < Slots THEN 1 + c ELSE 1 + c - Slots
  BY <1>1, SlotOf DEF NextSlot
<1>3. (k + c) % Slots = IF k + c < Slots THEN k + c ELSE k + c - Slots
  BY <1>1, SlotOf
<1> HIDE DEF s, m
<1>4. (m + s) % Slots = IF m + s < Slots THEN m + s ELSE m + s - Slots
  BY <1>1, <1>2, SlotOf
<1>5. m = k - 1
  BY DEF m
<1>6. (k + c) % Slots = s <=> k = 1
  BY <1>1, <1>2, <1>3
<1>7. (k + c) % Slots = (m + s) % Slots
  BY <1>1, <1>2, <1>3, <1>4, <1>5
<1>8. (k + c) % Slots = (k - 1 + s) % Slots
  BY <1>5, <1>7
<1> QED  BY <1>6, <1>8 DEF s

LEMMA TickKeeps ==
  ASSUME WheelInv, Tick
  PROVE  WheelInv' /\ TwDeadlines!BeginFrame
<1> DEFINE s == NextSlot(cursor)
<1>1. due = {} /\ np = NoTimer
  BY NothingLeft DEF WheelInv, Tick
<1>2. s \in 0 .. Slots - 1 /\ cursor \in 0 .. Slots - 1
  BY SlotOf, SlotsAssumption DEF WheelInv, NextSlot
<1>3. Whole(wheel', index', prev', next', due', newer', np', cursor')
  BY <1>1, <1>2, SlotTaken DEF WheelInv, Tick, NextSlot
<1>4. \A t \in Timers :
        /\ left[t] \in 0 .. Slots
        /\ left'[t] = IF left[t] = 0 THEN 0 ELSE left[t] - 1
        /\ IF index[t] = -1 THEN left[t] = 0
           ELSE left[t] # 0 /\ index[t] = (left[t] + cursor) % Slots
  BY <1>1 DEF WheelInv, LeftTells, Tick
<1>5. \A k \in 1 .. Slots : /\ (k + cursor) % Slots = s <=> k = 1
                            /\ (k + cursor) % Slots = (k - 1 + s) % Slots
  BY <1>2, NextFrame
<1>6. cursor' = s /\ \A t \in Timers : t \in due' <=> index[t] = s
  BY DEF Tick, NextSlot
<1> HIDE DEF s
<1>7. \A t \in Timers : t \in due' <=> left[t] = 1
  <2> SUFFICES ASSUME NEW t \in Timers
               PROVE  index[t] = s <=> left[t] = 1
    BY <1>6
  <2>1. CASE index[t] = -1
    BY <2>1, <1>2, <1>4
  <2>2. CASE index[t] # -1
    <3>1. left[t] \in 1 .. Slots /\ index[t] = (left[t] + cursor) % Slots
      BY <2>2, <1>4, SlotsAssumption
    <3> QED  BY <3>1, <1>5
  <2> QED  BY <2>1, <2>2
<1>8. LeftTells(index', due', left', cursor')
  <2> SUFFICES ASSUME NEW t \in Timers
               PROVE  IF index[t] = -1 \/ t \in due' THEN left'[t] = 0
                      ELSE left'[t] # 0 /\ index[t] = (left'[t] + s) % Slots
    BY <1>6 DEF LeftTells, Tick
  <2>1. CASE index[t] = -1 \/ t \in due'
    BY <2>1, <1>4, <1>7
  <2>2. CASE index[t] # -1 /\ t \notin due'
    <3>1. left[t] \in 1 .. Slots /\ left[t] # 1 /\ index[t] = (left[t] + cursor) % Slots
          /\ left'[t] = left[t] - 1
      BY <2>2, <1>4, <1>7, SlotsAssumption
    <3>2. index[t] = (left[t] - 1 + s) % Slots
      BY <3>1, <1>5
    <3>3. left'[t] # 0
      BY <3>1
    <3> QED  BY <2>2, <3>1, <3>2, <3>3
  <2> QED  BY <2>1, <2>2
<1>9. left' \in [Timers -> 0 .. Slots]
  <2>1. \A t \in Timers : left[t] \in 0 .. Slots =>
          (IF left[t] = 0 THEN 0 ELSE left[t] - 1) \in 0 .. Slots
    BY SlotsAssumption
  <2>2. left' = [t \in Timers |-> IF left[t] = 0 THEN 0 ELSE left[t] - 1]
    BY DEF Tick
  <2> QED  BY <2>1, <2>2, <1>4
<1>10. WheelInv'
  BY <1>2, <1>3, <1>8, <1>9, <1>6 DEF WheelInv, Tick
<1>11. due' = {t \in Timers : left[t] = 1}
  BY <1>7 DEF Tick
<1> QED  BY <1>10, <1>11 DEF TwDeadlines!BeginFrame, Tick

LEMMA CallKeeps ==
  ASSUME WheelInv, Call
  PROVE  WheelInv' /\ TwDeadlines!CallOne(np) /\ np \in Timers
<1>1. Whole(wheel, index, prev, next, due, newer, np, cursor) /\ cursor \in 0 .. Slots - 1
  BY DEF WheelInv
<1>2. np \in Timers /\ np \in due
  BY <1>1 DEF Call, Whole, Shape, Pointers, SavedNewest
<1>3. Whole(wheel, [index EXCEPT ![np] = -1], [prev EXCEPT ![np] = NoTimer],
            [next EXCEPT ![np] = NoTimer], due \ {np},
            {pair \in newer : pair[1] # np /\ pair[2] # np}, next[np], cursor)
  BY <1>1, SavedTaken DEF Call
<1>4. Whole(wheel', index', prev', next', due', newer', np', cursor')
  BY <1>3 DEF Call, Others
<1>5. \A t \in Timers : index'[t] = (IF t = np THEN -1 ELSE index[t])
                        /\ (t \in due' <=> t \in due /\ t # np)
  BY <1>1, <1>2 DEF Call, Whole, Shape
<1>6. LeftTells(index', due', left', cursor')
  BY <1>2, <1>5 DEF WheelInv, LeftTells, Call
<1>7. WheelInv'
  BY <1>2, <1>4, <1>5, <1>6 DEF WheelInv, Call, Pointers
<1> QED  BY <1>2, <1>7 DEF TwDeadlines!CallOne, Call

LEMMA SetKeeps ==
  ASSUME WheelInv, NEW t \in Timers, NEW k \in 0 .. Slots, SetTimeout(t, k)
  PROVE  WheelInv' /\ TwDeadlines!Set(t, k)
<1>1. t \in exists /\ t # np
  BY NoTimerAssumption DEF SetTimeout, MayTouch, WheelInv
<1>2. /\ cursor \in 0 .. Slots - 1 /\ index \in [Timers -> -1 .. Slots - 1]
      /\ left \in [Timers -> 0 .. Slots]
  BY DEF WheelInv, Whole, Shape
<1>3. Whole(wheel', index', prev', next', due', newer', np', cursor')
      /\ due' = due \ {t}
      /\ index' = [index EXCEPT ![t] = IF k = 0 THEN -1 ELSE (k + cursor) % Slots]
  <2>1. CASE k = 0
    <3>1. Stop(t)
      BY <2>1 DEF SetTimeout
    <3> QED  BY <1>1, <2>1, <3>1, StopKeeps DEF SetTimeout, Stop
  <2>2. CASE k # 0
    <3>1. Start(t, k) /\ k \in 1 .. Slots
      BY <2>2 DEF SetTimeout
    <3> QED  BY <1>1, <2>2, <3>1, StartKeeps DEF SetTimeout, Start
  <2> QED  BY <2>1, <2>2
<1>4. (k + cursor) % Slots \in 0 .. Slots - 1
  BY <1>2, SlotOf
<1>5. \A x \in Timers :
        /\ left'[x] = IF x = t THEN k ELSE left[x]
        /\ index'[x] = IF x # t THEN index[x] ELSE IF k = 0 THEN -1 ELSE (k + cursor) % Slots
  BY <1>2, <1>3 DEF SetTimeout
<1>6. LeftTells(index', due', left', cursor')
  <2> SUFFICES ASSUME NEW x \in Timers
               PROVE  IF index'[x] = -1 \/ x \in due' THEN left'[x] = 0
                      ELSE left'[x] # 0 /\ index'[x] = (left'[x] + cursor) % Slots
    BY DEF LeftTells, SetTimeout
  <2>1. CASE x = t
    BY <2>1, <1>3, <1>4, <1>5
  <2>2. CASE x # t
    BY <2>2, <1>3, <1>5 DEF WheelInv, LeftTells
  <2> QED  BY <2>1, <2>2
<1>7. left' \in [Timers -> 0 .. Slots]
  BY <1>2 DEF SetTimeout
<1>8. WheelInv'
  BY <1>1, <1>3, <1>5, <1>6, <1>7 DEF WheelInv, SetTimeout
<1> QED  BY <1>3, <1>8 DEF TwDeadlines!Set, SetTimeout

LEMMA DestroyKeeps ==
  ASSUME WheelInv, NEW t \in Timers, Destroy(t)
  PROVE  WheelInv' /\ TwDeadlines!Set(t, 0)
<1>1. t # np
  BY NoTimerAssumption DEF Destroy, MayTouch, WheelInv
<1>2. /\ Whole(wheel, index, prev, next, due, newer, np, cursor)
      /\ index \in [Timers -> -1 .. Slots - 1] /\ left \in [Timers -> 0 .. Slots]
  BY DEF WheelInv, Whole, Shape
<1>3. Whole(wheel', index', prev', next', due', newer', np', cursor')
      /\ due' = due \ {t}
      /\ index' = [index EXCEPT ![t] = -1]
  <2>1. CASE index[t] # -1
    <3>1. Stop(t)
      BY <2>1 DEF Destroy
    <3> QED  BY <1>1, <3>1, StopKeeps DEF Destroy, Stop
  <2>2. CASE index[t] = -1
    <3>1. t \notin due /\ [index EXCEPT ![t] = -1] = index
      BY <1>2, <2>2 DEF Whole, Idle
    <3> QED  BY <1>2, <2>2, <3>1 DEF Destroy
  <2> QED  BY <2>1, <2>2
<1>4. \A x \in Timers : /\ left'[x] = IF x = t THEN 0 ELSE left[x]
                        /\ index'[x] = IF x = t THEN -1 ELSE index[x]
  BY <1>2, <1>3 DEF Destroy
<1>5. LeftTells(index', due', left', cursor')
  BY <1>3, <1>4 DEF WheelInv, LeftTells, Destroy
<1>6. left' \in [Timers -> 0 .. Slots]
  BY <1>2, SlotsAssumption DEF Destroy
<1>7. WheelInv'
  BY <1>3, <1>4, <1>5, <1>6 DEF WheelInv, Destroy
<1> QED  BY <1>3, <1>7 DEF TwDeadlines!Set, Destroy

LEMMA OthersKeep ==
  ASSUME WheelInv, Return \/ EndWalk \/ \E t \in Timers : Make(t)
  PROVE  WheelInv'
BY NoTimerAssumption DEF WheelInv, Return, EndWalk, Make, Pointers

\* Every step keeps the invariant, and is a step of the abstract timers.
LEMMA StepKeeps ==
  ASSUME WheelInv, TwNext
  PROVE  WheelInv' /\ [TwDeadlines!DlNext]_(TwDeadlines!dlVars)
<1>1. CASE Tick
  BY <1>1, TickKeeps DEF TwDeadlines!DlNext
<1>2. CASE Call
  BY <1>2, CallKeeps DEF TwDeadlines!DlNext
<1>3. CASE Return
  BY <1>3, OthersKeep DEF Return, TwDeadlines!DlNext, TwDeadlines!CallReturns
<1>4. CASE EndWalk
  BY <1>4, OthersKeep, NothingLeft DEF EndWalk, TwDeadlines!DlNext, TwDeadlines!EndFrame
<1>5. ASSUME NEW t \in Timers, Make(t)
      PROVE  WheelInv' /\ UNCHANGED TwDeadlines!dlVars
  BY <1>5, OthersKeep DEF Make, TwDeadlines!dlVars
<1>6. ASSUME NEW t \in Timers, Destroy(t)
      PROVE  WheelInv' /\ TwDeadlines!DlNext
  BY <1>6, DestroyKeeps, SlotsAssumption DEF TwDeadlines!DlNext
<1>7. ASSUME NEW t \in Timers, NEW k \in 0 .. Slots, SetTimeout(t, k)
      PROVE  WheelInv' /\ TwDeadlines!DlNext
  BY <1>7, SetKeeps DEF TwDeadlines!DlNext
<1> QED  BY <1>1, <1>2, <1>3, <1>4, <1>5, <1>6, <1>7 DEF TwNext

LEMMA StutterKeeps ==
  ASSUME WheelInv, UNCHANGED wheelVars
  PROVE  WheelInv' /\ UNCHANGED TwDeadlines!dlVars
BY DEF WheelInv, wheelVars, TwDeadlines!dlVars

LEMMA WheelStarts ==
  ASSUME TwInit
  PROVE  WheelInv
<1>1. Shape(wheel, index, prev, next, due, newer, np)
  <2>1. 0 .. Slots - 1 # {} /\ -1 \in -1 .. Slots - 1
    BY SlotsAssumption
  <2> QED  BY <2>1 DEF TwInit, Shape, Pointers
<1>2. \A t \in Timers : index[t] = -1 /\ next[t] = NoTimer /\ prev[t] = NoTimer /\ left[t] = 0
  BY DEF TwInit
<1>3. \A s \in 0 .. Slots - 1 : wheel[s] = NoTimer
  BY DEF TwInit
<1>4. HeadOfSlot(wheel, index, prev, due) /\ Linked(index, prev, next, due)
      /\ Idle(index, prev, next, due) /\ Reached(wheel, index, prev, next, due, np)
  BY <1>2, <1>3 DEF TwInit, HeadOfSlot, Linked, Idle, Reached
<1>5. Order(index, newer) /\ Successor(index, next, due, newer)
      /\ HeadNewest(wheel, index, due, newer) /\ SavedNewest(index, due, newer, np, cursor)
  BY <1>2, <1>3 DEF TwInit, Order, Successor, HeadNewest, SavedNewest
<1>6. LeftTells(index, due, left, cursor)
  BY <1>2 DEF LeftTells
<1>7. cursor \in 0 .. Slots - 1 /\ left \in [Timers -> 0 .. Slots]
  BY SlotsAssumption DEF TwInit
<1> QED  BY <1>1, <1>2, <1>4, <1>5, <1>6, <1>7 DEF TwInit, WheelInv, Whole, Pointers

LEMMA WheelInductive == TwSpec => []WheelInv
<1>1. TwInit => WheelInv
  BY WheelStarts
<1>2. WheelInv /\ [TwNext]_wheelVars => WheelInv'
  BY StepKeeps, StutterKeeps
<1> QED  BY <1>1, <1>2, PTL DEF TwSpec

----------------------------------------------------------------------------
(* The theorems *)

\* The wheel, its links and its cursor keep their types.
THEOREM TimerWheelTypeCorrect == TwSpec => []TwTypeOK
<1>1. WheelInv => TwTypeOK
  BY WheelTypes
<1> QED  BY <1>1, WheelInductive, PTL

\* Neither SetTimeout nor UpdateTimeoutWheel meets a timer that was stopped,
\* moved or destroyed.
THEOREM TimerListsAreWhole == TwSpec => []ListsWhole
<1>1. WheelInv => ListsWhole
  <2> SUFFICES ASSUME WheelInv
               PROVE  ListsWhole
    OBVIOUS
  <2>1. Shape(wheel, index, prev, next, due, newer, np)
    BY DEF WheelInv, Whole
  <2>2. HeadOfSlot(wheel, index, prev, due) /\ Linked(index, prev, next, due)
        /\ Idle(index, prev, next, due) /\ Reached(wheel, index, prev, next, due, np)
        /\ (np # NoTimer => np \in due) /\ \A t \in Timers : index[t] # -1 => t \in exists
    BY DEF WheelInv, Whole, SavedNewest
  <2> QED  BY <2>1, <2>2 DEF ListsWhole, HeadOfSlot, Linked, Alike, Idle, Reached
<1> QED  BY <1>1, WheelInductive, PTL

\* UpdateTimeoutWheel calls the timers of a slot newest first, the order that
\* the timers of KcpDialer rely on.
THEOREM TimersAreCalledNewestFirst == TwSpec => []NewestFirst
<1>1. WheelInv => NewestFirst
  BY DEF WheelInv, Whole, SavedNewest, NewestFirst
<1> QED  BY <1>1, WheelInductive, PTL

\* The wheel implements Deadlines: every timer is called in the frame it was
\* set to, whatever the callbacks before it do to other timers.
THEOREM TimerWheelKeepsDeadlines == TwSpec => DeadlinesKept
<1>1. TwInit => TwDeadlines!DlInit
  BY DEF TwInit, TwDeadlines!DlInit
<1>2. WheelInv /\ [TwNext]_wheelVars => [TwDeadlines!DlNext]_(TwDeadlines!dlVars)
  BY StepKeeps, StutterKeeps
<1> QED  BY <1>1, <1>2, WheelInductive, PTL DEF TwSpec, DeadlinesKept, TwDeadlines!DlSpec
=============================================================================
