------------------------------ MODULE Deadlines ------------------------------
(***************************************************************************)
(* What timers promise: a timer that is set to k frames is called in the   *)
(* k-th frame from then and in no other, unless it is set anew or stopped  *)
(* before. Timers that are due in the same frame are called one by one,    *)
(* and the frame does not end before.                                      *)
(***************************************************************************)
EXTENDS Naturals

CONSTANTS
  Timers,
  NoTimer,
  Longest    \* the longest interval a timer may be set to

VARIABLES
  left,      \* the frames left until a timer is called, 0 if it is not set
  due,       \* the timers that this frame still has to call
  running,   \* the timer whose callback runs
  inFrame    \* timers are being called

dlVars == <<left, due, running, inFrame>>

DlInit ==
  /\ left = [t \in Timers |-> 0]
  /\ due = {}
  /\ running = NoTimer
  /\ inFrame = FALSE

\* The next frame begins: what had one frame left is due.
BeginFrame ==
  /\ ~inFrame
  /\ inFrame' = TRUE
  /\ due' = {t \in Timers : left[t] = 1}
  /\ left' = [t \in Timers |-> IF left[t] = 0 THEN 0 ELSE left[t] - 1]
  /\ UNCHANGED running

CallOne(t) ==
  /\ running = NoTimer
  /\ t \in due
  /\ running' = t
  /\ due' = due \ {t}
  /\ UNCHANGED <<left, inFrame>>

CallReturns ==
  /\ running # NoTimer
  /\ running' = NoTimer
  /\ UNCHANGED <<left, due, inFrame>>

EndFrame ==
  /\ inFrame
  /\ running = NoTimer
  /\ due = {}
  /\ inFrame' = FALSE
  /\ UNCHANGED <<left, due, running>>

\* A timer is set to k frames, or stopped with k = 0.
Set(t, k) ==
  /\ left' = [left EXCEPT ![t] = k]
  /\ due' = due \ {t}
  /\ UNCHANGED <<running, inFrame>>

DlNext ==
  \/ BeginFrame
  \/ \E t \in Timers : CallOne(t)
  \/ CallReturns
  \/ EndFrame
  \/ \E t \in Timers, k \in 0 .. Longest : Set(t, k)

DlSpec == DlInit /\ [][DlNext]_dlVars
=============================================================================
