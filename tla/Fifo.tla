-------------------------------- MODULE Fifo --------------------------------
(***************************************************************************)
(* What a queue promises, whatever it keeps its elements in: elements join *)
(* at the back and leave at the front or, for PopLast, at the back; what   *)
(* is in between keeps its order.                                          *)
(***************************************************************************)
EXTENDS Naturals, Sequences

CONSTANT Elements   \* what is queued

VARIABLE items      \* what the queue holds, the oldest first

FifoInit == items = <<>>

\* The first k of s leave.
Without(s, k) == SubSeq(s, k + 1, Len(s))

\* An element joins, and in the same call any number of the oldest may leave.
\* A package that is sent may go through the queue at once.
Join == \E e \in Elements : \E k \in 0 .. Len(items) + 1 :
          items' = Without(Append(items, e), k)

Leave == \E k \in 1 .. Len(items) : items' = Without(items, k)

LeaveLast == items # <<>> /\ items' = SubSeq(items, 1, Len(items) - 1)

FifoNext == Join \/ Leave \/ LeaveLast

FifoSpec == FifoInit /\ [][FifoNext]_items
=============================================================================
