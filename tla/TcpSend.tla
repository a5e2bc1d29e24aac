------------------------------ MODULE TcpSend ------------------------------
(***************************************************************************)
(* The sending side of xx::epoll::TcpPeer: Send, Write and the EPOLLOUT    *)
(* branch of EpollEvent, over the byte queue of xx::DataQueue. Bytes are   *)
(* numbered as they are handed to Send, so that what reaches the socket    *)
(* can be compared with it. DataQueue is a RingQueue of packages.          *)
(***************************************************************************)
EXTENDS RingQueue, FiniteSets, SequencesExt

CONSTANTS
  Sizes,      \* the lengths of the packages that are sent
  MaxBufLen,  \* how much one Write may send: 256 KB
  VsCap,      \* ec->iovecs.size(): how many packages one writev may take
  MaxQueued,  \* bound: the bytes queued at a time
  MaxTotal,   \* bound: the bytes sent in all
  Marks       \* the byte numbers that AllWritten watches

ASSUME SizesAssumption == Sizes \subseteq Nat \ {0}
ASSUME LimitsAssumption == MaxBufLen \in Nat \ {0} /\ VsCap \in Nat \ {0}
ASSUME BoundsAssumption == MaxQueued \in Nat /\ MaxTotal \in Nat
ASSUME MarksAssumption == Marks \subseteq 1 .. MaxTotal

\* A package: its length and the number of its first byte.
Packages == [from : 1 .. MaxTotal, len : Sizes]

\* sendQueue holds packages.
ASSUME ElementsAssumption == Elements = Packages

\* An array that MaxQueued bytes can fill, in packages of at least one byte,
\* has one of twice its capacity to move to.
ASSUME GrowthAssumption ==
  \A c \in Caps : c <= MaxQueued => \E d \in Caps : d >= 2 * c

VARIABLES           \* and ring, the packages of sendQueue
  offset,   \* DataQueue::offset, how much of the first package is gone
  bytes,    \* DataQueue::bytes
  writing,  \* TcpPeer::writing, the socket is full
  armed,    \* EPOLLOUT is registered for the socket
  total,    \* history: the bytes handed to Send
  wire      \* history: the bytes the socket took

tsVars == <<ring, offset, bytes, writing, armed, total, wire>>

\* The packages in sendQueue, the oldest first.
q == Items(ring)

Lower(a, b) == IF a < b THEN a ELSE b

\* n bytes of a package from its byte off on.
Slice(package, off, n) == [i \in 1 .. n |-> package.from + off + i - 1]

\* The bytes of the first i packages of p, less what is gone of the first.
Upto(p, i) ==
  LET sum[k \in 0 .. i] == IF k = 0 THEN 0 ELSE sum[k - 1] + p[k].len IN
  sum[i] - offset

\* A dialed connection comes with EPOLLOUT registered ( NewTcpConn ), an
\* accepted one without.
TsInit ==
  /\ RqInit
  /\ offset = 0
  /\ bytes = 0
  /\ writing = FALSE
  /\ armed \in BOOLEAN
  /\ total = 0
  /\ wire = <<>>

----------------------------------------------------------------------------
(* DataQueue, holding the packages p of b bytes *)

\* Fill when the first package is shorter than bufLen: whole packages while
\* they fit, then a part of the next. Unless it ends in such a part the loop
\* leaves vsLen at vsCap, however few packages it took.
FillMany(p, bufLen) ==
  LET cap == Lower(VsCap, Len(p))
      n == Max({i \in 1 .. cap : Upto(p, i) <= bufLen})
      rest == bufLen - Upto(p, n)
      whole == Slice(p[1], offset, p[1].len - offset)
               \o FlattenSeq([i \in 1 .. n - 1 |-> Slice(p[i + 1], 0, p[i + 1].len)]) IN
  IF rest > 0 /\ n < cap
  THEN [vsLen |-> n + 1, len |-> bufLen, offset |-> rest,
        data |-> whole \o Slice(p[n + 1], 0, rest)]
  ELSE [vsLen |-> VsCap, len |-> Upto(p, n), offset |-> 0, data |-> whole]

\* Fill: what the next write is offered. A first package that is longer than
\* bufLen is offered whole.
Fill(p, b) ==
  LET bufLen == Lower(MaxBufLen, b)
      siz == p[1].len - offset IN
  IF siz >= bufLen
  THEN [vsLen |-> 1, len |-> bufLen,
        offset |-> IF siz > bufLen THEN offset + bufLen ELSE 0,
        data |-> Slice(p[1], offset, siz)]
  ELSE FillMany(p, bufLen)

\* Push: the array doubles when it is full.
Pushed(r, package) == Emplace(r, package, CHOOSE c \in Caps : c >= 2 * r.cap)

\* mutant: the offset into the first package outlives it
PopFilledKeepsOffset(r, b, f) ==
  /\ bytes' = b - f.len
  /\ ring' = PopMulti(r, f.vsLen)
  /\ UNCHANGED offset

\* Pop( vsLen, offset, bufLen ): all that Fill counted was sent. ( The offset
\* Fill returned for a long first package already includes bufLen. A vsLen
\* above the number of packages empties the queue. )
PopFilled(r, b, f) ==
  /\ bytes' = b - f.len
  /\ IF f.vsLen = 1 /\ Items(r)[1].len > offset + f.len
     THEN offset' = f.offset + f.len /\ ring' = r
     ELSE offset' = f.offset /\ ring' = PopMulti(r, f.vsLen)

\* The packages that are gone when n bytes are.
Gone(p, n) == {i \in 1 .. Len(p) : Upto(p, i) <= n}

\* One Pop for each of k packages.
PopEach(r, k) ==
  LET after[i \in 0 .. k] == IF i = 0 THEN r ELSE Pop(after[i - 1]) IN after[k]

\* mutant: the rest of the head counts as its whole length
PopBytesForgetsOffset(r, b, n) ==
  LET k == Cardinality({i \in 1 .. Len(Items(r)) : Upto(Items(r), i) + offset <= n}) IN
  /\ bytes' = b - n
  /\ ring' = PopEach(r, k)
  /\ offset' = IF k = 0 THEN offset + n ELSE n - Upto(Items(r), k) - offset

\* Pop( bufLen ): n bytes were sent.
PopBytes(r, b, n) ==
  LET k == Cardinality(Gone(Items(r), n)) IN
  IF n >= b
  THEN ring' = Clear(r) /\ bytes' = 0 /\ offset' = 0
  ELSE /\ bytes' = b - n
       /\ ring' = PopEach(r, k)
       /\ offset' = IF k = 0 THEN offset + n ELSE n - Upto(Items(r), k)

----------------------------------------------------------------------------
(* TcpPeer *)

\* mutant: EPOLLOUT is not asked for when the socket is full
WriteUnarmed(r, b) ==
  /\ b > 0
  /\ LET f == Fill(Items(r), b) IN
     \E n \in 0 .. Len(f.data) :
       /\ wire' = wire \o SubSeq(f.data, 1, n)
       /\ writing' = (n # f.len)
       /\ UNCHANGED armed
       /\ IF n = f.len THEN PopFilled(r, b, f) ELSE PopBytes(r, b, n)

\* Write, called with writing = FALSE: the socket takes n bytes of what it is
\* offered, none if it is full. Whatever is not all that Fill counted leaves
\* writing set and EPOLLOUT registered.
Write(r, b) ==
  \/ /\ b = 0
     /\ armed' = FALSE
     /\ writing' = FALSE
     /\ UNCHANGED <<ring, offset, bytes, wire>>
  \/ /\ b > 0
     /\ LET f == Fill(Items(r), b) IN
        \E n \in 0 .. Len(f.data) :
          /\ wire' = wire \o SubSeq(f.data, 1, n)
          /\ IF n = f.len
             THEN PopFilled(r, b, f) /\ writing' = FALSE /\ UNCHANGED armed
             ELSE PopBytes(r, b, n) /\ writing' = TRUE /\ armed' = TRUE

\* Send of a package of len bytes.
Send(len) ==
  LET r == Pushed(ring, [from |-> total + 1, len |-> len]) IN
  /\ bytes + len <= MaxQueued
  /\ total + len <= MaxTotal
  /\ total' = total + len
  /\ IF writing
     THEN ring' = r /\ bytes' = bytes + len /\ UNCHANGED <<offset, writing, armed, wire>>
     ELSE Write(r, bytes + len)

\* EpollEvent with EPOLLOUT.
EpollOut ==
  /\ armed
  /\ Write(ring, bytes)
  /\ UNCHANGED total

TsNext == EpollOut \/ \E len \in Sizes : Send(len)

\* The other end reads, so the socket has room again and again.
TsFairness == WF_tsVars(EpollOut /\ wire' # wire)

TsSpec == TsInit /\ [][TsNext]_tsVars /\ TsFairness

----------------------------------------------------------------------------
(* What the sending side promises *)

\* The types of the sending side's state: the ring is well formed, bytes and
\* offset never go below 0.
TsTypeOK ==
  /\ RqTypeOK
  /\ offset \in Nat
  /\ bytes \in 0 .. MaxQueued
  /\ writing \in BOOLEAN
  /\ armed \in BOOLEAN
  /\ total \in 0 .. MaxTotal
  /\ wire \in Seq(1 .. MaxTotal)

Queued == FlattenSeq([i \in 1 .. Len(q) |->
            IF i = 1 THEN Slice(q[1], offset, q[1].len - offset)
                     ELSE Slice(q[i], 0, q[i].len)])

\* What the socket took and what is queued are together the stream that was
\* sent: no byte is lost, repeated or overtaken, whatever part of each write
\* the socket takes ( Fill and the two Pops agree ).
StreamKept == wire \o Queued = [i \in 1 .. total |-> i]

\* data_queue.h: "bytes = sum( bufs.len ) - offset", and the offset is inside
\* the first package.
BytesAgree ==
  /\ bytes = Upto(q, Len(q))
  /\ IF q = <<>> THEN offset = 0 ELSE offset < q[1].len

\* As long as bytes are queued EPOLLOUT is registered, so Write is called
\* again although nobody calls Send.
NoStall == bytes > 0 => armed

\* Everything sent is written in the end: the byte n, once sent, reaches the
\* socket, without another Send.
AllWritten == \A n \in Marks : total >= n ~> Len(wire) >= n
=============================================================================
