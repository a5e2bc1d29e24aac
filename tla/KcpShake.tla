------------------------------ MODULE KcpShake ------------------------------
(***************************************************************************)
(* How a KcpDialer and a KcpListener connect over udp, which loses,        *)
(* repeats and reorders what it carries. A dialer sends the 4 bytes of a   *)
(* serial to every address it knows, again and again. A listener answers   *)
(* with the conv it keeps for that address for a while, and makes a peer   *)
(* at the first kcp packet of that conv. The dialer takes the first answer *)
(* and makes its own peer, whose first bytes, an empty package, only make  *)
(* the listener accept.                                                    *)
(*                                                                         *)
(* Of kcp ( ikcp.c ) the module keeps what the two rely on: bytes sent     *)
(* before an update share a segment, segments are numbered, sent again and *)
(* again, and handed on in order and once.                                 *)
(***************************************************************************)
EXTENDS Naturals, FiniteSets, Sequences, SequencesExt

CONSTANTS
  Clients,        \* dialers, each with the address of its socket
  Servers,        \* listeners
  NoOne,
  Addrs,          \* addrs, the servers that a dialer tries
  ShakeLife,      \* the frames that a listener keeps a handshake
  Timeouts,       \* the timeouts of dials in frames: 0 is less than a frame
  MaxDials,       \* bound: dials of a client
  MaxAllDials,    \* bound: dials of all clients
  MaxConv,        \* bound: convs that a listener gives
  MaxShakes       \* bound: different answers that listeners send

ASSUME AddrsAssumption == Addrs \in Seq(Servers) /\ Len(Addrs) > 0
ASSUME NoOneAssumption == NoOne \notin Clients \cup Servers
ASSUME BoundsAssumption ==
  /\ ShakeLife \in Nat /\ Timeouts \subseteq Nat /\ MaxDials \in Nat /\ MaxAllDials \in Nat
  /\ MaxConv \in Nat /\ MaxShakes \in Nat

Convs == 1 .. MaxConv
PeerIds == Clients \X (1 .. MaxDials)     \* a dial makes at most one peer
Bytes == {"accept", "data"}               \* the 5 bytes 1 0 0 0 0, a package
Segments == BoundedSeq(Bytes, 2)
NoPeer == <<NoOne, 0>>

Serials == 1 .. MaxDials * Len(Addrs)

Packets ==
  [kind : {"serial"}, from : Clients, to : Servers, serial : Serials]
  \cup [kind : {"shake"}, from : Servers, to : Clients, serial : Serials, conv : Convs]
  \cup [kind : {"kcp"}, from : Clients, to : Servers, conv : Convs, sn : {0, 1},
        segment : Segments]
  \cup [kind : {"answer"}, from : Servers, to : Clients, conv : Convs]

VARIABLES
  \* the dialers
  serials,     \* of the current dial, one per address, empty if not dialing
  serialAutoInc,
  armed,       \* the dialers with timerForTimeout in the wheel
  peers,       \* the peer that a dial made
  dcps,        \* cps: which peer has a conv
  dials,       \* history: dials so far
  connects,    \* history: calls of Connect so far
  before,      \* history: <<server, conv>> accepted before the current dial
  \* the listeners
  convId,
  shakes,      \* per address its conv and the frames it is kept
  lpeers,      \* the peer of a conv
  lcps,        \* cps: the convs of open peers
  accepts,     \* history: how often a conv was accepted
  \* the network
  net          \* every packet that was ever sent: it may arrive any time

dialerVars == <<serials, serialAutoInc, armed, peers, dcps, dials, connects, before>>
listenerVars == <<convId, shakes, lpeers, lcps, accepts>>
shakeVars == <<dialerVars, listenerVars, net>>

Made(isOpen, server, conv, queued, isFresh) ==
  [open |-> isOpen, server |-> server, conv |-> conv, queued |-> queued,
   flushed |-> <<>>, wrote |-> FALSE, fresh |-> isFresh, fed |-> {}]
Unmade == Made(FALSE, NoOne, 0, <<>>, TRUE)
Unaccepted == [open |-> FALSE, client |-> NoOne, addr |-> NoOne, next |-> 0,
               arrived |-> <<>>, handed |-> <<>>, first |-> 0, fed |-> {}]
NoShake == [conv |-> 0, left |-> 0]

KsInit ==
  /\ serials = [c \in Clients |-> <<>>]
  /\ serialAutoInc = [c \in Clients |-> 0]
  /\ armed = {}
  /\ peers = [p \in PeerIds |-> Unmade]
  /\ dcps = [c \in Clients |-> [v \in Convs |-> NoPeer]]
  /\ dials = [c \in Clients |-> 0]
  /\ connects = [c \in Clients |-> 0]
  /\ before = [c \in Clients |-> {}]
  /\ convId = [s \in Servers |-> 0]
  /\ shakes = [s \in Servers |-> [c \in Clients |-> NoShake]]
  /\ lpeers = [s \in Servers |-> [v \in Convs |-> Unaccepted]]
  /\ lcps = [s \in Servers |-> {}]
  /\ accepts = [s \in Servers |-> [v \in Convs |-> 0]]
  /\ net = {}

----------------------------------------------------------------------------
(* KcpDialer *)

Busy(c) == serials[c] # <<>>

AllDials == FoldFunction(LAMBDA x, y : x + y, 0, dials)

SerialPackets(c, ss) ==
  {[kind |-> "serial", from |-> c, to |-> Addrs[i], serial |-> ss[i]] : i \in DOMAIN ss}

\* mutant: every dial numbers its addresses from 1
DialAnew(c, timeout) ==
  LET ss == [i \in DOMAIN Addrs |-> i] IN
  /\ ~Busy(c) /\ dials[c] < MaxDials /\ AllDials < MaxAllDials
  /\ serials' = [serials EXCEPT ![c] = ss]
  /\ armed' = IF timeout > 0 THEN armed \cup {c} ELSE armed \ {c}
  /\ net' = net \cup SerialPackets(c, ss)
  /\ dials' = [dials EXCEPT ![c] = @ + 1]
  /\ before' = [before EXCEPT ![c] = {sv \in Servers \X Convs : accepts[sv[1]][sv[2]] > 0}]
  /\ UNCHANGED <<serialAutoInc, peers, dcps, connects, listenerVars>>

\* Dial, which those who use it call when it is not busy. The first requests
\* go out at once. timerForShake sends the same ones again: net has them, so
\* what repeats is Receive of the listener. SetTimeout(0) is no timeout.
Dial(c, timeout) ==
  LET ss == [i \in DOMAIN Addrs |-> serialAutoInc[c] + i] IN
  /\ ~Busy(c) /\ dials[c] < MaxDials /\ AllDials < MaxAllDials
  /\ serials' = [serials EXCEPT ![c] = ss]
  /\ serialAutoInc' = [serialAutoInc EXCEPT ![c] = @ + Len(Addrs)]
  /\ armed' = IF timeout > 0 THEN armed \cup {c} ELSE armed \ {c}
  /\ net' = net \cup SerialPackets(c, ss)
  /\ dials' = [dials EXCEPT ![c] = @ + 1]
  /\ before' = [before EXCEPT ![c] = {sv \in Servers \X Convs : accepts[sv[1]][sv[2]] > 0}]
  /\ UNCHANGED <<peers, dcps, connects, listenerVars>>

\* Stop: no serials and no timers.
Stop(c) ==
  /\ serials' = [serials EXCEPT ![c] = <<>>]
  /\ armed' = armed \ {c}
  /\ before' = [before EXCEPT ![c] = {}]

\* timerForTimeout: Stop and Connect( nullptr ). It comes whenever the timer
\* is in the wheel, dialing or not.
DialTimeout(c) ==
  /\ c \in armed
  /\ Stop(c)
  /\ connects' = [connects EXCEPT ![c] = @ + 1]
  /\ UNCHANGED <<serialAutoInc, peers, dcps, dials, listenerVars, net>>

\* A peer without its kcp.
Closed(isFresh) == Made(FALSE, NoOne, 0, <<>>, isFresh)

\* Connect( peer ) may keep the new peer. If it does not, the peer is destroyed
\* at once, and Close takes its conv out of cps.
Connected(c, server, v, held) ==
  LET id == <<c, dials[c]>>
      isFresh == <<server, v>> \notin before[c] IN
  /\ peers' = [peers EXCEPT ![id] =
       IF held THEN Made(TRUE, server, v, <<"accept">>, isFresh) ELSE Closed(isFresh)]
  /\ dcps' = [dcps EXCEPT ![c][v] = IF held THEN id ELSE NoPeer]
  /\ connects' = [connects EXCEPT ![c] = @ + 1]

\* mutant: whatever comes in stops the timeout
ReceiveShakeStopsAny(c, m, held) ==
  /\ m.kind = "shake" /\ m.to = c
  /\ Busy(c)
  /\ armed' = armed \ {c}
  /\ \/ /\ m.serial \notin ToSet(serials[c])
        /\ UNCHANGED <<serials, peers, dcps, connects, before>>
     \/ /\ \E i \in DOMAIN serials[c] :
             serials[c][i] = m.serial /\ Connected(c, Addrs[i], m.conv, held)
        /\ Stop(c)
  /\ UNCHANGED <<serialAutoInc, dials, listenerVars, net>>

\* mutant: the timeout goes on after the dial
ReceiveShakeStaysArmed(c, m, held) ==
  /\ m.kind = "shake" /\ m.to = c
  /\ \E i \in DOMAIN serials[c] :
       serials[c][i] = m.serial /\ Connected(c, Addrs[i], m.conv, held)
  /\ serials' = [serials EXCEPT ![c] = <<>>]
  /\ before' = [before EXCEPT ![c] = {}]
  /\ UNCHANGED <<armed, serialAutoInc, dials, listenerVars, net>>

\* Receive of 8 bytes: the answer to a serial of this dial, which stops. The
\* first package is sent ( needSendFirstPackage ), but Flush does nothing
\* before the first update.
ReceiveShake(c, m, held) ==
  /\ m.kind = "shake" /\ m.to = c
  /\ \E i \in DOMAIN serials[c] :
       serials[c][i] = m.serial /\ Connected(c, Addrs[i], m.conv, held)
  /\ Stop(c)
  /\ UNCHANGED <<serialAutoInc, dials, listenerVars, net>>

\* KcpPeer::Send of the user: what is not flushed yet shares a segment.
UserSends(p) ==
  /\ peers[p].open /\ ~peers[p].wrote
  /\ peers' = [peers EXCEPT ![p].queued = Append(@, "data"), ![p].wrote = TRUE]
  /\ UNCHANGED <<serials, serialAutoInc, armed, dcps, dials, connects, before, listenerVars, net>>

\* mutant: what kcp puts out goes to the address of the last send of Dial
DialerFrameAstray(c) ==
  LET due == {p \in PeerIds : p[1] = c /\ peers[p].queued # <<>>
                              /\ dcps[c][peers[p].conv] = p} IN
  /\ due # {}
  /\ peers' = [p \in PeerIds |->
       IF p \in due THEN [peers[p] EXCEPT !.queued = <<>>, !.flushed = Append(@, peers[p].queued)]
       ELSE peers[p]]
  /\ net' = net \cup {[kind |-> "kcp", from |-> c, to |-> Last(Addrs),
                       conv |-> peers[p].conv, sn |-> Len(peers[p].flushed),
                       segment |-> peers[p].queued] : p \in due}
  /\ UNCHANGED <<serials, serialAutoInc, armed, dcps, dials, connects, before, listenerVars>>

\* The peers of due, all of the dialer c, put out what they have queued.
PutOut(c, due) ==
  /\ peers' = [p \in PeerIds |->
       IF p \in due THEN [peers[p] EXCEPT !.queued = <<>>, !.flushed = Append(@, peers[p].queued)]
       ELSE peers[p]]
  /\ net' = net \cup {[kind |-> "kcp", from |-> c, to |-> peers[p].server,
                       conv |-> peers[p].conv, sn |-> Len(peers[p].flushed),
                       segment |-> peers[p].queued] : p \in due}
  /\ UNCHANGED <<serials, serialAutoInc, armed, dcps, dials, connects, before, listenerVars>>

\* Timeout of KcpBase, every frame: the peers in cps send what they have.
DialerFrame(c) ==
  LET due == {p \in PeerIds : p[1] = c /\ peers[p].queued # <<>>
                              /\ dcps[c][peers[p].conv] = p} IN
  due # {} /\ PutOut(c, due)

\* KcpPeer::Flush of the user. After the first update, which puts out the
\* accept package, it does not take cps to send.
Flush(p) ==
  /\ peers[p].open /\ peers[p].queued # <<>> /\ peers[p].flushed # <<>>
  /\ PutOut(p[1], {p})

\* Receive of a kcp packet: the peer of its conv gets it, if there is one.
ReceiveAnswer(c, m) ==
  LET p == dcps[c][m.conv] IN
  /\ m.kind = "answer" /\ m.to = c
  /\ p # NoPeer
  /\ peers' = [peers EXCEPT ![p].fed = @ \cup {m.from}]
  /\ UNCHANGED <<serials, serialAutoInc, armed, dcps, dials, connects, before, listenerVars, net>>

\* mutant: the key stays in cps
CloseLeavesKey(p) ==
  /\ peers[p].open
  /\ peers' = [peers EXCEPT ![p] = Closed(@.fresh)]
  /\ UNCHANGED <<serials, serialAutoInc, armed, dcps, dials, connects, before, listenerVars, net>>

\* KcpPeer::Close, by the user or its timeout: whatever peer has its conv in
\* cps by now goes from there.
ClosePeer(p) ==
  /\ peers[p].open
  /\ peers' = [peers EXCEPT ![p] = Closed(@.fresh)]
  /\ dcps' = [dcps EXCEPT ![p[1]][peers[p].conv] = NoPeer]
  /\ UNCHANGED <<serials, serialAutoInc, armed, dials, connects, before, listenerVars, net>>

----------------------------------------------------------------------------
(* KcpListener *)

\* mutant: the conv is the number of the handshake
ReceiveSerialNumbered(s, m) ==
  LET known == shakes[s][m.from].conv # 0
      conv == IF known THEN shakes[s][m.from].conv
              ELSE Cardinality({c \in Clients : shakes[s][c].conv # 0}) + 1 IN
  /\ m.kind = "serial" /\ m.to = s
  /\ conv <= MaxConv
  /\ shakes' = [shakes EXCEPT ![s][m.from] = [conv |-> conv, left |-> ShakeLife]]
  /\ net' = net \cup {[kind |-> "shake", from |-> s, to |-> m.from,
                       serial |-> m.serial, conv |-> conv]}
  /\ Cardinality({x \in net' : x.kind = "shake"}) <= MaxShakes
  /\ UNCHANGED <<dialerVars, convId, lpeers, lcps, accepts>>

\* Receive of 4 bytes: the address gets the conv it has, for longer, or a new
\* one.
ReceiveSerial(s, m) ==
  LET known == shakes[s][m.from].conv # 0
      conv == IF known THEN shakes[s][m.from].conv ELSE convId[s] + 1 IN
  /\ m.kind = "serial" /\ m.to = s
  /\ conv <= MaxConv
  /\ convId' = [convId EXCEPT ![s] = IF known THEN @ ELSE conv]
  /\ shakes' = [shakes EXCEPT ![s][m.from] = [conv |-> conv, left |-> ShakeLife]]
  /\ net' = net \cup {[kind |-> "shake", from |-> s, to |-> m.from,
                       serial |-> m.serial, conv |-> conv]}
  /\ Cardinality({x \in net' : x.kind = "shake"}) <= MaxShakes
  /\ UNCHANGED <<dialerVars, lpeers, lcps, accepts>>

\* What Input hands to Receive of the user: the segments that follow without
\* a gap. At the packet that was accepted it leaves the accept package out.
Ready(peer) == {n \in DOMAIN peer.arrived : \A k \in peer.next .. n : k \in DOMAIN peer.arrived}

\* mutant: the accept package is handed on
HandedAll(segment, isFirst) == segment

Handed(segment, isFirst) ==
  IF isFirst /\ segment # <<>> /\ Head(segment) = "accept" THEN Tail(segment) ELSE segment

\* KcpPeer::Input of the packet m.
Input(peer, m, isFirst) ==
  LET dup == m.sn < peer.next \/ m.sn \in DOMAIN peer.arrived
      in == [peer EXCEPT !.arrived = IF dup THEN @ ELSE [k \in {m.sn} \cup DOMAIN @ |->
                                       IF k = m.sn THEN m.segment ELSE @[k]],
                         !.fed = @ \cup {m.from}, !.addr = m.from]
      n == Cardinality(Ready(in)) IN
  [in EXCEPT
     !.handed = @ \o FlattenSeq([i \in 1 .. n |-> Handed(in.arrived[in.next + i - 1], isFirst)]),
     !.next = @ + n,
     !.arrived = [k \in DOMAIN in.arrived \ Ready(in) |-> in.arrived[k]]]

\* Receive of a kcp packet for a peer that is there.
ReceiveKcp(s, m) ==
  /\ m.kind = "kcp" /\ m.to = s
  /\ m.conv \in lcps[s]
  /\ lpeers' = [lpeers EXCEPT ![s][m.conv] = Input(@, m, FALSE)]
  /\ UNCHANGED <<dialerVars, convId, shakes, lcps, accepts, net>>

\* mutant: the handshake stays after the peer is made
AcceptKeepsShake(s, m, held) ==
  /\ m.kind = "kcp" /\ m.to = s
  /\ m.conv \notin lcps[s]
  /\ shakes[s][m.from].conv = m.conv
  /\ lpeers' = [lpeers EXCEPT ![s][m.conv] =
       IF held THEN Input([@ EXCEPT !.open = TRUE, !.client = m.from, !.first = m.sn], m, TRUE)
       ELSE @]
  /\ lcps' = [lcps EXCEPT ![s] = IF held THEN @ \cup {m.conv} ELSE @]
  /\ accepts' = [accepts EXCEPT ![s][m.conv] = @ + 1]
  /\ UNCHANGED <<dialerVars, convId, shakes, net>>

\* Receive of a kcp packet of the conv that its address has: the handshake is
\* over and Accept gets the peer. One that Accept does not hold is destroyed.
AcceptKcp(s, m, held) ==
  /\ m.kind = "kcp" /\ m.to = s
  /\ m.conv \notin lcps[s]
  /\ shakes[s][m.from].conv = m.conv
  /\ shakes' = [shakes EXCEPT ![s][m.from] = NoShake]
  /\ lpeers' = [lpeers EXCEPT ![s][m.conv] =
       IF held THEN Input([@ EXCEPT !.open = TRUE, !.client = m.from, !.first = m.sn], m, TRUE)
       ELSE @]
  /\ lcps' = [lcps EXCEPT ![s] = IF held THEN @ \cup {m.conv} ELSE @]
  /\ accepts' = [accepts EXCEPT ![s][m.conv] = @ + 1]
  /\ UNCHANGED <<dialerVars, convId, net>>

Answers(s) ==
  {[kind |-> "answer", from |-> s, to |-> lpeers[s][v].addr, conv |-> v] : v \in lcps[s]}

\* mutant: a handshake goes after its time has run below 0
FrameTooLate(s) ==
  /\ shakes' = [shakes EXCEPT ![s] = [c \in Clients |->
       IF @[c].conv = 0 \/ @[c].left < 0 THEN NoShake ELSE [@[c] EXCEPT !.left = @ - 1]]]
  /\ net' = net \cup Answers(s)
  /\ UNCHANGED <<dialerVars, convId, lpeers, lcps, accepts>>

\* A handshake, a frame later.
Older(shake) == IF shake.left = 0 THEN NoShake ELSE [shake EXCEPT !.left = @ - 1]

\* Timeout of KcpBase, every frame: the open peers send to the address they
\* heard from last, and handshakes that are too old go.
ListenerFrame(s) ==
  /\ shakes' = [shakes EXCEPT ![s] = [c \in Clients |-> Older(@[c])]]
  /\ net' = net \cup Answers(s)
  /\ UNCHANGED <<dialerVars, convId, lpeers, lcps, accepts>>

\* KcpPeer::Close, by the user or its timeout.
CloseAccepted(s, v) ==
  /\ v \in lcps[s]
  /\ lpeers' = [lpeers EXCEPT ![s][v] = Unaccepted]
  /\ lcps' = [lcps EXCEPT ![s] = @ \ {v}]
  /\ UNCHANGED <<dialerVars, convId, shakes, accepts, net>>

KsNext ==
  \/ \E c \in Clients :
       \/ \E timeout \in Timeouts : Dial(c, timeout)
       \/ DialTimeout(c) \/ DialerFrame(c)
       \/ \E m \in net : ReceiveAnswer(c, m) \/ \E held \in BOOLEAN : ReceiveShake(c, m, held)
  \/ \E p \in PeerIds : UserSends(p) \/ Flush(p) \/ ClosePeer(p)
  \/ \E s \in Servers :
       \/ ListenerFrame(s)
       \/ \E m \in net : \/ ReceiveSerial(s, m) \/ ReceiveKcp(s, m)
                         \/ \E held \in BOOLEAN : AcceptKcp(s, m, held)
       \/ \E v \in Convs : CloseAccepted(s, v)

\* The event loop of a dialer calls the timers that are in its wheel, and kcp
\* sends a segment again and again until it arrives.
KsFairness ==
  /\ \A c \in Clients : WF_shakeVars(DialTimeout(c)) /\ WF_shakeVars(DialerFrame(c))
  /\ \A s \in Servers :
       WF_shakeVars(\E m \in net, held \in BOOLEAN : AcceptKcp(s, m, held))

KsSpec == KsInit /\ [][KsNext]_shakeVars /\ KsFairness

----------------------------------------------------------------------------
(* What the handshake promises *)

KsTypeOK ==
  /\ \A c \in Clients : Len(serials[c]) \in {0, Len(Addrs)} /\ ToSet(serials[c]) \subseteq Serials
  /\ serialAutoInc \in [Clients -> 0 .. MaxDials * Len(Addrs)]
  /\ armed \subseteq Clients
  /\ \A p \in PeerIds :
       /\ DOMAIN peers[p] = DOMAIN Unmade
       /\ peers[p].server \in Servers \cup {NoOne} /\ peers[p].conv \in 0 .. MaxConv
       /\ peers[p].queued \in Segments /\ ToSet(peers[p].flushed) \subseteq Segments
  /\ dcps \in [Clients -> [Convs -> PeerIds \cup {NoPeer}]]
  /\ dials \in [Clients -> 0 .. MaxDials]
  /\ connects \in [Clients -> 0 .. MaxDials]
  /\ convId \in [Servers -> 0 .. MaxConv]
  /\ shakes \in [Servers -> [Clients -> [conv : 0 .. MaxConv, left : 0 .. ShakeLife]]]
  /\ \A s \in Servers, v \in Convs : DOMAIN lpeers[s][v] = DOMAIN Unaccepted
  /\ lcps \in [Servers -> SUBSET Convs]
  /\ accepts \in [Servers -> [Convs -> Nat]]
  /\ \A m \in net : m \in Packets

\* A listener makes one peer of a conv: a packet that comes late, after its
\* peer was closed, or that is repeated, makes no second one.
AcceptedOnce == \A s \in Servers, v \in Convs : accepts[s][v] <= 1

\* A peer of a listener is fed by the dialer its conv was given to and by no
\* other, although packets are assigned by the conv alone. A peer of a dialer
\* is fed by listeners that gave the dialer its conv.
OneConversation ==
  /\ \A s \in Servers, v \in Convs : lpeers[s][v].fed \subseteq {lpeers[s][v].client}
  /\ \A p \in PeerIds : \A s \in peers[p].fed :
       \E m \in net : m.kind = "shake" /\ m.from = s /\ m.to = p[1] /\ m.conv = peers[p].conv

\* What cps leads to is open: Timeout and Receive call no peer that is gone,
\* also when a later peer took the key of an earlier one.
CpsWhole ==
  /\ \A c \in Clients, v \in Convs : dcps[c][v] # NoPeer =>
       peers[dcps[c][v]].open /\ peers[dcps[c][v]].conv = v
  /\ \A s \in Servers, v \in Convs : v \in lcps[s] <=> lpeers[s][v].open

\* Connect is called once per dial, with a peer or without: an answer that
\* comes late, or a second one, does not call it again, nor does a timeout that
\* outlives its dial.
ConnectOnce == \A c \in Clients : dials[c] = connects[c] + IF Busy(c) THEN 1 ELSE 0

\* A dialer does not take up a conv that was accepted before it dialed: an
\* answer to an earlier dial cannot tie it to a peer of its own past.
FreshConv == \A p \in PeerIds : peers[p].fresh

\* "ignore the 5 bytes of the accept package" holds for a peer that is accepted
\* at the segment that has them. ( At a later segment they are handed on when
\* they arrive. )
AcceptIgnored == \A s \in Servers, v \in Convs :
  lpeers[s][v].first = 0 => "accept" \notin ToSet(lpeers[s][v].handed)

\* A dial of at least a frame ends, with Connect, although no answer comes, or
\* only answers to earlier dials: nothing takes its timeout away before.
DialEnds == \A c \in Clients : Busy(c) ~> ~Busy(c)

\* A dialer's peer is accepted, unless it is closed, another took its place in
\* cps, or the listener dropped the handshake.
Joined == \A p \in PeerIds :
  peers[p].open ~> \/ ~peers[p].open
                   \/ dcps[p[1]][peers[p].conv] # p
                   \/ accepts[peers[p].server][peers[p].conv] > 0
                   \/ shakes[peers[p].server][p[1]].conv # peers[p].conv
=============================================================================
