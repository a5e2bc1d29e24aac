----------------------------- MODULE TimerWheel -----------------------------
(***************************************************************************)
(* The timers of xx::epoll::Context: a wheel of slots, each the head of a  *)
(* list that is linked through the timers, newest first, and the walk of   *)
(* UpdateTimeoutWheel over one slot per frame. Event handlers and the      *)
(* callbacks of timers set, stop, make and destroy timers. The lists and   *)
(* the walk of xx_looper.h are the same.                                   *)
(***************************************************************************)
EXTENDS Integers

CONSTANTS
  Timers,
  NoTimer,   \* the null pointer
  Slots      \* wheel.size(), a power of 2 in the code

ASSUME NoTimerAssumption == NoTimer \notin Timers
ASSUME SlotsAssumption == Slots \in Nat \ {0}

Pointers == Timers \cup {NoTimer}

VARIABLES
  cursor,    \* the slot of this frame
  wheel,     \* per slot the first timer of its list
  index,     \* timeoutIndex, the slot a timer is in, -1 if none
  prev,      \* timeoutPrev
  next,      \* timeoutNext
  exists,    \* the timers that are constructed
  walking,   \* UpdateTimeoutWheel is on its way
  np,        \* the timer it has saved to go on with
  running,   \* the timer whose Timeout it calls
  due,       \* history: the timers of this walk that were not called or set
  newer,     \* history: <<t, u>> if t and u are set, t after u
  left       \* history: the frames until a timer is to be called, 0 if none

wheelVars == <<cursor, wheel, index, prev, next, exists, walking, np, running, due, newer, left>>

TwInit ==
  /\ cursor = 0
  /\ wheel = [s \in 0 .. Slots - 1 |-> NoTimer]
  /\ index = [t \in Timers |-> -1]
  /\ prev = [t \in Timers |-> NoTimer]
  /\ next = [t \in Timers |-> NoTimer]
  /\ exists = {}
  /\ walking = FALSE
  /\ np = NoTimer
  /\ running = NoTimer
  /\ due = {}
  /\ newer = {}
  /\ left = [t \in Timers |-> 0]

\* newer without the timer t.
Others(t) == {pair \in newer : pair[1] # t /\ pair[2] # t}

----------------------------------------------------------------------------
(* SetTimeout *)

\* f with the value v for p, unless p is the null pointer.
Via(f, p, v) == IF p = NoTimer THEN f ELSE [f EXCEPT ![p] = v]

\* mutant: the timer behind keeps its link to the one that goes
UnlinkedForward(t) ==
  [wheel |-> IF index[t] # -1 /\ prev[t] = NoTimer
             THEN [wheel EXCEPT ![index[t]] = next[t]] ELSE wheel,
   next |-> IF index[t] # -1 THEN Via(next, prev[t], next[t]) ELSE next,
   prev |-> prev]

\* The lists after the first part of SetTimeout: a timer that is in a slot
\* leaves it. A timer without one before it counts as the head of its slot.
Unlinked(t) ==
  [wheel |-> IF index[t] # -1 /\ prev[t] = NoTimer
             THEN [wheel EXCEPT ![index[t]] = next[t]] ELSE wheel,
   next |-> IF index[t] # -1 THEN Via(next, prev[t], next[t]) ELSE next,
   prev |-> IF index[t] # -1 THEN Via(prev, next[t], prev[t]) ELSE prev]

\* SetTimeout( 0 ).
Stop(t) ==
  LET u == Unlinked(t) IN
  /\ wheel' = u.wheel
  /\ next' = [u.next EXCEPT ![t] = NoTimer]
  /\ prev' = [u.prev EXCEPT ![t] = NoTimer]
  /\ index' = [index EXCEPT ![t] = -1]
  /\ due' = due \ {t}
  /\ newer' = Others(t)

\* mutant: the slot is counted from the slot before the cursor's
StartEarly(t, k) ==
  LET u == Unlinked(t)
      slot == (k + cursor - 1) % Slots
      head == u.wheel[slot] IN
  /\ wheel' = [u.wheel EXCEPT ![slot] = t]
  /\ next' = [u.next EXCEPT ![t] = head]
  /\ prev' = Via([u.prev EXCEPT ![t] = NoTimer], head, t)
  /\ index' = [index EXCEPT ![t] = slot]
  /\ due' = due \ {t}
  /\ newer' = Others(t) \cup {<<t, o>> : o \in {o \in Timers \ {t} : index[o] # -1}}

\* mutant: the timer becomes the second of its list
StartBehind(t, k) ==
  LET u == Unlinked(t)
      slot == (k + cursor) % Slots
      head == u.wheel[slot] IN
  /\ wheel' = IF head = NoTimer THEN [u.wheel EXCEPT ![slot] = t] ELSE u.wheel
  /\ next' = IF head = NoTimer THEN [u.next EXCEPT ![t] = NoTimer]
             ELSE [u.next EXCEPT ![head] = t, ![t] = u.next[head]]
  /\ prev' = IF head = NoTimer THEN [u.prev EXCEPT ![t] = NoTimer]
             ELSE Via([u.prev EXCEPT ![t] = head], u.next[head], t)
  /\ index' = [index EXCEPT ![t] = slot]
  /\ due' = due \ {t}
  /\ newer' = Others(t) \cup {<<t, o>> : o \in {o \in Timers \ {t} : index[o] # -1}}

\* SetTimeout( k ), k frames from now: the timer becomes the head of the slot
\* it is in then. ( An interval of more than the wheel throws and ends the
\* event loop. )
Start(t, k) ==
  LET u == Unlinked(t)
      slot == (k + cursor) % Slots
      head == u.wheel[slot] IN
  /\ wheel' = [u.wheel EXCEPT ![slot] = t]
  /\ next' = [u.next EXCEPT ![t] = head]
  /\ prev' = Via([u.prev EXCEPT ![t] = NoTimer], head, t)
  /\ index' = [index EXCEPT ![t] = slot]
  /\ due' = due \ {t}
  /\ newer' = Others(t) \cup {<<t, o>> : o \in {o \in Timers \ {t} : index[o] # -1}}

----------------------------------------------------------------------------
(* What handlers and callbacks do *)

\* Code that may touch the timer t: an event handler between two frames, or
\* a callback. The walk cannot bear that a callback touches the timer it goes
\* on with, and none of this code does: callbacks set their own, or one that
\* is not due. ( The exception is a KcpDialer that dials for 20 frames. )
MayTouch(t) == t \in exists /\ (~walking \/ (running # NoTimer /\ t # np))

Make(t) ==
  /\ ~walking \/ running # NoTimer
  /\ t \notin exists
  /\ exists' = exists \cup {t}
  /\ UNCHANGED <<cursor, wheel, index, prev, next, walking, np, running, due, newer, left>>

SetTimeout(t, k) ==
  /\ MayTouch(t)
  /\ IF k = 0 THEN Stop(t) ELSE Start(t, k)
  /\ left' = [left EXCEPT ![t] = k]
  /\ UNCHANGED <<cursor, exists, walking, np, running>>

\* ~Timer. A timer may be destroyed in its own callback.
Destroy(t) ==
  /\ MayTouch(t)
  /\ IF index[t] # -1 THEN Stop(t) ELSE UNCHANGED <<wheel, next, prev, index, due, newer>>
  /\ exists' = exists \ {t}
  /\ left' = [left EXCEPT ![t] = 0]
  /\ UNCHANGED <<cursor, walking, np, running>>

----------------------------------------------------------------------------
(* UpdateTimeoutWheel *)

\* mutant: the cursor is masked where it is used, not where it is kept
TickUnmasked ==
  LET slot == (cursor + 1) % Slots IN
  /\ ~walking
  /\ cursor' = cursor + 1
  /\ np' = wheel[slot]
  /\ wheel' = [wheel EXCEPT ![slot] = NoTimer]
  /\ walking' = TRUE
  /\ due' = {t \in Timers : index[t] = slot}
  /\ left' = [t \in Timers |-> IF left[t] = 0 THEN 0 ELSE left[t] - 1]
  /\ UNCHANGED <<index, prev, next, exists, running, newer>>

\* A frame is due: the cursor moves on and its slot gives up its list.
Tick ==
  LET slot == (cursor + 1) % Slots IN
  /\ ~walking
  /\ cursor' = slot
  /\ np' = wheel[slot]
  /\ wheel' = [wheel EXCEPT ![slot] = NoTimer]
  /\ walking' = TRUE
  /\ due' = {t \in Timers : index[t] = slot}
  /\ left' = [t \in Timers |-> IF left[t] = 0 THEN 0 ELSE left[t] - 1]
  /\ UNCHANGED <<index, prev, next, exists, running, newer>>

\* The next timer of the list: what follows is saved, the timer is reset and
\* its Timeout is called.
Call ==
  /\ walking /\ running = NoTimer /\ np # NoTimer
  /\ running' = np
  /\ np' = next[np]
  /\ index' = [index EXCEPT ![np] = -1]
  /\ prev' = [prev EXCEPT ![np] = NoTimer]
  /\ next' = [next EXCEPT ![np] = NoTimer]
  /\ due' = due \ {np}
  /\ newer' = Others(np)
  /\ UNCHANGED <<cursor, wheel, exists, walking, left>>

\* mutant: the walk goes on with what was set into its slot meanwhile
ReturnWalksOn ==
  /\ running # NoTimer
  /\ running' = NoTimer
  /\ np' = IF np = NoTimer THEN wheel[cursor] ELSE np
  /\ UNCHANGED <<cursor, wheel, index, prev, next, exists, walking, due, newer, left>>

Return ==
  /\ running # NoTimer
  /\ running' = NoTimer
  /\ UNCHANGED <<cursor, wheel, index, prev, next, exists, walking, np, due, newer, left>>

EndWalk ==
  /\ walking /\ running = NoTimer /\ np = NoTimer
  /\ walking' = FALSE
  /\ UNCHANGED <<cursor, wheel, index, prev, next, exists, np, running, due, newer, left>>

TwNext ==
  \/ Tick \/ Call \/ Return \/ EndWalk
  \/ \E t \in Timers : Make(t) \/ Destroy(t)
  \/ \E t \in Timers, k \in 0 .. Slots : SetTimeout(t, k)

\* Run turns as long as it runs, and callbacks return.
TwFairness == WF_wheelVars(Tick) /\ WF_wheelVars(Call) /\ WF_wheelVars(Return)
              /\ WF_wheelVars(EndWalk)

TwSpec == TwInit /\ [][TwNext]_wheelVars /\ TwFairness

----------------------------------------------------------------------------
(* What the wheel promises *)

TwTypeOK ==
  /\ cursor \in 0 .. Slots - 1
  /\ wheel \in [0 .. Slots - 1 -> Pointers]
  /\ index \in [Timers -> -1 .. Slots - 1]
  /\ prev \in [Timers -> Pointers]
  /\ next \in [Timers -> Pointers]
  /\ exists \subseteq Timers
  /\ walking \in BOOLEAN
  /\ np \in Pointers
  /\ running \in Pointers
  /\ due \subseteq Timers
  /\ newer \subseteq Timers \X Timers
  /\ left \in [Timers -> 0 .. Slots]

\* Every set timer is in exactly one list, linked both ways, and every pointer
\* leads to a timer that exists: neither the wheel nor the walk meets a timer
\* that was stopped, moved or destroyed.
ListsWhole ==
  /\ \A s \in 0 .. Slots - 1 : wheel[s] # NoTimer =>
        index[wheel[s]] = s /\ wheel[s] \notin due /\ prev[wheel[s]] = NoTimer
  /\ np # NoTimer => np \in due
  /\ \A t \in Timers : next[t] # NoTimer =>
        /\ prev[next[t]] = t
        /\ index[next[t]] = index[t]
        /\ next[t] \in due <=> t \in due
  /\ \A t \in Timers : index[t] = -1 => next[t] = NoTimer /\ prev[t] = NoTimer
  /\ \A t \in Timers : index[t] # -1 =>
        /\ t \in exists
        /\ IF t \in due THEN t = np \/ (prev[t] # NoTimer /\ next[prev[t]] = t)
           ELSE IF prev[t] = NoTimer THEN wheel[index[t]] = t
                ELSE next[prev[t]] = t

\* The timers of a slot are called newest first. xx::epoll::KcpDialer relies
\* on it: its dial timeout stops its request timer, which is set again every
\* 20 frames and so called before it when both are due.
NewestFirst == \A t \in due \ {np} : <<np, t>> \in newer

TwDeadlines == INSTANCE Deadlines WITH
  Longest <- Slots,
  inFrame <- walking

\* A timer is called in the frame it was set to: never early, never a turn
\* late, never twice, and the walk of a slot leaves none of its timers out,
\* whatever the callbacks do to other timers.
DeadlinesKept == TwDeadlines!DlSpec

\* The walk ends, although callbacks set timers while it is on its way, also
\* by a whole turn, into the slot that is walked.
WalkEnds == walking ~> ~walking
=============================================================================
