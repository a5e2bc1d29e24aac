--------------------------- MODULE KcpShakeProofs ---------------------------
(***************************************************************************)
(* Proofs about KcpShake, for any dialers, listeners, addresses and bounds: *)
(* a conv is accepted once, a conversation is between the two ends that    *)
(* shook hands, cps leads to open peers only, a dial ends in one Connect   *)
(* and not with a conv of the dialer's past, and the accept package is not *)
(* handed on.                                                              *)
(*                                                                         *)
(* What ties the two sides together is on the network: a serial was sent   *)
(* to one listener ( Asked ), and a conv of a listener was given to one    *)
(* dialer ( Given ). The invariant says of each piece of state which       *)
(* packet it comes from. KsSegInv, on top of it, says what the segments of *)
(* a conv have in them.                                                    *)
(***************************************************************************)
EXTENDS KcpShake, SequenceTheorems, FiniteSetTheorems, TLAPS

\* Among the packets sent, the dialer c sent the serial n to s.
Asked(sent, c, s, n) == \E m \in sent : m.kind = "serial" /\ m.from = c /\ m.to = s /\ m.serial = n

\* Among them, the listener s gave the conv v to the dialer c.
Given(sent, s, c, v) == \E m \in sent : m.kind = "shake" /\ m.from = s /\ m.to = c /\ m.conv = v

DialerPeer == [open : BOOLEAN, server : Servers \cup {NoOne}, conv : 0 .. MaxConv,
               queued : Seq(Bytes), flushed : Seq(Seq(Bytes)), wrote : BOOLEAN,
               fresh : BOOLEAN, fed : SUBSET Servers]

\* The fields of an accepted peer.
Fields == {"open", "client", "addr", "next", "arrived", "handed", "first", "fed"}

DialerTypes ==
  /\ serials \in [Clients -> Seq(Nat)]
  /\ serialAutoInc \in [Clients -> Nat]
  /\ peers \in [PeerIds -> DialerPeer]
  /\ dcps \in [Clients -> [Convs -> PeerIds \cup {NoPeer}]]
  /\ dials \in [Clients -> 0 .. MaxDials]
  /\ connects \in [Clients -> Nat]
  /\ before \in [Clients -> SUBSET (Servers \X Convs)]

ListenerTypes ==
  /\ convId \in [Servers -> Nat]
  /\ shakes \in [Servers -> [Clients -> [conv : Nat, left : Nat]]]
  /\ lcps \in [Servers -> SUBSET Convs]
  /\ accepts \in [Servers -> [Convs -> Nat]]
  /\ DOMAIN lpeers = Servers
  /\ \A s \in Servers :
       /\ DOMAIN lpeers[s] = Convs
       /\ \A v \in Convs : DOMAIN lpeers[s][v] = Fields /\ lpeers[s][v].open \in BOOLEAN

PacketTypes == \A m \in net :
  /\ m.kind = "serial" => m.from \in Clients /\ m.to \in Servers /\ m.serial \in Nat
  /\ m.kind = "shake" => /\ m.from \in Servers /\ m.to \in Clients
                         /\ m.serial \in Nat /\ m.conv \in Convs
  /\ m.kind = "kcp" => m.from \in Clients /\ m.to \in Servers /\ m.conv \in Convs
  /\ m.kind = "answer" => m.from \in Servers /\ m.to \in Clients /\ m.conv \in Convs

\* A serial names one listener, to which it was sent.
SerialsKept ==
  /\ \A m \in net : m.kind = "serial" => m.serial <= serialAutoInc[m.from]
  /\ \A m, n \in net : m.kind = "serial" /\ n.kind = "serial" /\ m.from = n.from
                       /\ m.serial = n.serial => m.to = n.to
  /\ \A c \in Clients : \A i \in DOMAIN serials[c] :
       i \in DOMAIN Addrs /\ Asked(net, c, Addrs[i], serials[c][i])
  /\ \A m \in net : m.kind = "shake" => Asked(net, m.to, m.from, m.serial)

\* A conv was given to one dialer, and is not kept once it was accepted.
ConvsKept ==
  /\ \A m \in net : m.kind = "shake" => m.conv <= convId[m.from]
  /\ \A m, n \in net : m.kind = "shake" /\ n.kind = "shake" /\ m.from = n.from
                       /\ m.conv = n.conv => m.to = n.to
  /\ \A s \in Servers, c \in Clients : shakes[s][c].conv # 0 =>
       /\ shakes[s][c].conv \in Convs
       /\ Given(net, s, c, shakes[s][c].conv)
       /\ accepts[s][shakes[s][c].conv] = 0
  /\ \A s \in Servers, v \in Convs : v > convId[s] => accepts[s][v] = 0

\* What was accepted before a dial is no answer to it.
BeforeKept ==
  /\ \A c \in Clients : \A sv \in before[c] : accepts[sv[1]][sv[2]] > 0
  /\ \A m \in net : m.kind = "shake" =>
       \A i \in DOMAIN serials[m.to] :
         serials[m.to][i] = m.serial => <<m.from, m.conv>> \notin before[m.to]

\* The timeout of a dial is in the wheel from its start to its end, unless it
\* is less than a frame.
TimersKept ==
  /\ armed \subseteq Clients
  /\ \A c \in Clients : c \in armed => Busy(c)
  /\ 0 \notin Timeouts => \A c \in Clients : Busy(c) => c \in armed

\* What an open peer of a dialer comes from. The peer of the dial that is on
\* its way is still to be made.
DialerKept ==
  /\ \A p \in PeerIds : peers[p].queued # <<>> => peers[p].open
  /\ \A p \in PeerIds : peers[p].open =>
       /\ peers[p].conv \in Convs
       /\ Given(net, peers[p].server, p[1], peers[p].conv)
       /\ p[2] <= dials[p[1]]
       /\ p[2] = dials[p[1]] => ~Busy(p[1])
  /\ \A p \in PeerIds : \A s \in peers[p].fed : Given(net, s, p[1], peers[p].conv)
  /\ \A c \in Clients, v \in Convs : dcps[c][v] # NoPeer =>
       /\ dcps[c][v][1] = c
       /\ peers[dcps[c][v]].open
       /\ peers[dcps[c][v]].conv = v

\* What kcp packets and accepted peers come from.
ListenerKept ==
  /\ \A m \in net : m.kind = "kcp" => Given(net, m.to, m.from, m.conv)
  /\ \A m \in net : m.kind = "answer" => Given(net, m.from, m.to, m.conv)
  /\ \A s \in Servers, v \in Convs : v \in lcps[s] <=> lpeers[s][v].open
  /\ \A s \in Servers, v \in Convs : lpeers[s][v].open =>
       /\ lpeers[s][v].client \in Clients
       /\ lpeers[s][v].addr = lpeers[s][v].client
       /\ Given(net, s, lpeers[s][v].client, v)
  /\ \A s \in Servers, v \in Convs : lpeers[s][v].fed \subseteq {lpeers[s][v].client}
  /\ \A s \in Servers, v \in Convs : ~lpeers[s][v].open => lpeers[s][v].fed = {}

KsIInv ==
  /\ DialerTypes
  /\ ListenerTypes
  /\ PacketTypes
  /\ SerialsKept
  /\ ConvsKept
  /\ BeforeKept
  /\ TimersKept
  /\ DialerKept
  /\ ListenerKept
  /\ AcceptedOnce
  /\ ConnectOnce
  /\ FreshConv

----------------------------------------------------------------------------
(* What stays when the network only grows *)

LEMMA GivenStays ==
  ASSUME net \subseteq net', NEW s, NEW c, NEW v, Given(net, s, c, v)
  PROVE  Given(net', s, c, v)
BY DEF Given

LEMMA AskedStays ==
  ASSUME net \subseteq net', NEW c, NEW s, NEW n, Asked(net, c, s, n)
  PROVE  Asked(net', c, s, n)
BY DEF Asked

\* No serial is sent and no dial begins.
LEMMA SerialsStay ==
  ASSUME SerialsKept, net \subseteq net', UNCHANGED serialAutoInc,
         \A m \in net' : m.kind \in {"serial", "shake"} => m \in net,
         \A c \in Clients : serials'[c] \in {serials[c], <<>>}
  PROVE  SerialsKept'
<1>1. \A m \in net' : m.kind = "serial" => m.serial <= serialAutoInc'[m.from]
  BY DEF SerialsKept
<1>2. \A m, n \in net' : m.kind = "serial" /\ n.kind = "serial" /\ m.from = n.from
                         /\ m.serial = n.serial => m.to = n.to
  BY DEF SerialsKept
<1>3. ASSUME NEW c \in Clients, NEW i \in DOMAIN serials'[c]
      PROVE  i \in DOMAIN Addrs /\ Asked(net', c, Addrs[i], serials'[c][i])
  <2>1. serials'[c] = serials[c]
    BY <1>3
  <2>2. i \in DOMAIN Addrs /\ Asked(net, c, Addrs[i], serials[c][i])
    BY <1>3, <2>1 DEF SerialsKept
  <2> QED  BY <2>1, <2>2 DEF Asked
<1>4. \A m \in net' : m.kind = "shake" => Asked(net', m.to, m.from, m.serial)
  BY AskedStays DEF SerialsKept
<1> QED  BY <1>1, <1>2, <1>3, <1>4 DEF SerialsKept

\* No conv is given or accepted.
LEMMA ConvsStay ==
  ASSUME ConvsKept, net \subseteq net', UNCHANGED <<convId, accepts>>,
         \A m \in net' : m.kind = "shake" => m \in net,
         \A s \in Servers, c \in Clients : shakes'[s][c].conv \in {shakes[s][c].conv, 0}
  PROVE  ConvsKept'
<1>1. \A m \in net' : m.kind = "shake" => m.conv <= convId'[m.from]
  BY DEF ConvsKept
<1>2. \A m, n \in net' : m.kind = "shake" /\ n.kind = "shake" /\ m.from = n.from
                         /\ m.conv = n.conv => m.to = n.to
  BY DEF ConvsKept
<1>3. ASSUME NEW s \in Servers, NEW c \in Clients, shakes'[s][c].conv # 0
      PROVE  /\ shakes'[s][c].conv \in Convs
             /\ Given(net', s, c, shakes'[s][c].conv)
             /\ accepts'[s][shakes'[s][c].conv] = 0
  <2>1. shakes'[s][c].conv = shakes[s][c].conv
    BY <1>3
  <2>2. /\ shakes[s][c].conv \in Convs
        /\ Given(net, s, c, shakes[s][c].conv)
        /\ accepts[s][shakes[s][c].conv] = 0
    BY <1>3, <2>1 DEF ConvsKept
  <2> QED  BY <2>1, <2>2 DEF Given
<1>4. \A s \in Servers, v \in Convs : v > convId'[s] => accepts'[s][v] = 0
  BY DEF ConvsKept
<1> QED  BY <1>1, <1>2, <1>3, <1>4 DEF ConvsKept

\* No conv is given and no dial begins.
LEMMA BeforeStays ==
  ASSUME BeforeKept, ListenerTypes, DialerTypes, PacketTypes,
         \A s \in Servers, v \in Convs : accepts'[s][v] \in {accepts[s][v], accepts[s][v] + 1},
         \A m \in net' : m.kind = "shake" => m \in net,
         \A c \in Clients : before'[c] \in {before[c], {}},
         \A c \in Clients : \/ serials'[c] = <<>>
                            \/ serials'[c] = serials[c] /\ before'[c] = before[c]
  PROVE  BeforeKept'
<1>1. ASSUME NEW c \in Clients, NEW sv \in before'[c]
      PROVE  accepts'[sv[1]][sv[2]] > 0
  <2>1. sv \in before[c] /\ accepts[sv[1]][sv[2]] > 0
    BY <1>1 DEF BeforeKept
  <2>2. sv[1] \in Servers /\ sv[2] \in Convs
    BY <2>1 DEF DialerTypes
  <2>3. accepts[sv[1]][sv[2]] \in Nat
    BY <2>2 DEF ListenerTypes
  <2> QED  BY <2>1, <2>2, <2>3
<1>2. ASSUME NEW m \in net', m.kind = "shake", NEW i \in DOMAIN serials'[m.to],
             serials'[m.to][i] = m.serial
      PROVE  <<m.from, m.conv>> \notin before'[m.to]
  <2>1. m \in net /\ m.to \in Clients
    BY <1>2 DEF PacketTypes
  <2>2. serials'[m.to] = serials[m.to] /\ before'[m.to] = before[m.to]
    BY <1>2, <2>1
  <2> QED  BY <1>2, <2>1, <2>2 DEF BeforeKept
<1> QED  BY <1>1, <1>2 DEF BeforeKept

\* A step of a listener.
LEMMA DialerStays ==
  ASSUME DialerKept, net \subseteq net', UNCHANGED dialerVars
  PROVE  DialerKept'
<1>1. \A p \in PeerIds : peers'[p].queued # <<>> => peers'[p].open
  BY DEF DialerKept, dialerVars
<1>2. ASSUME NEW p \in PeerIds, peers'[p].open
      PROVE  /\ peers'[p].conv \in Convs
             /\ Given(net', peers'[p].server, p[1], peers'[p].conv)
             /\ p[2] <= dials'[p[1]]
             /\ p[2] = dials'[p[1]] => ~Busy(p[1])'
  <2>1. peers' = peers /\ dials' = dials /\ serials' = serials
    BY DEF dialerVars
  <2>2. /\ peers[p].conv \in Convs
        /\ Given(net, peers[p].server, p[1], peers[p].conv)
        /\ p[2] <= dials[p[1]]
        /\ p[2] = dials[p[1]] => ~Busy(p[1])
    BY <1>2, <2>1 DEF DialerKept
  <2>3. Given(net', peers[p].server, p[1], peers[p].conv)
    BY <2>2, GivenStays
  <2> QED  BY <2>1, <2>2, <2>3 DEF Busy
<1>3. \A p \in PeerIds : \A s \in peers'[p].fed : Given(net', s, p[1], peers'[p].conv)
  BY DEF DialerKept, dialerVars, Given
<1>4. \A c \in Clients, v \in Convs : dcps'[c][v] # NoPeer =>
        dcps'[c][v][1] = c /\ peers'[dcps'[c][v]].open /\ peers'[dcps'[c][v]].conv = v
  BY DEF DialerKept, dialerVars
<1> QED  BY <1>1, <1>2, <1>3, <1>4 DEF DialerKept

\* No kcp packet is sent and no peer is accepted.
LEMMA ListenerStays ==
  ASSUME ListenerKept, net \subseteq net', UNCHANGED <<lpeers, lcps>>,
         \A m \in net' : m.kind \in {"kcp", "answer"} => m \in net
  PROVE  ListenerKept'
<1>1. \A m \in net' : m.kind = "kcp" => Given(net', m.to, m.from, m.conv)
  BY GivenStays DEF ListenerKept
<1>2. \A m \in net' : m.kind = "answer" => Given(net', m.from, m.to, m.conv)
  BY GivenStays DEF ListenerKept
<1>3. lpeers' = lpeers /\ lcps' = lcps
  OBVIOUS
<1>4. ASSUME NEW s \in Servers, NEW v \in Convs, lpeers[s][v].open
      PROVE  Given(net', s, lpeers[s][v].client, v)
  <2>1. Given(net, s, lpeers[s][v].client, v)
    BY <1>4 DEF ListenerKept
  <2> QED  BY <2>1, GivenStays
<1> QED  BY <1>1, <1>2, <1>3, <1>4 DEF ListenerKept

----------------------------------------------------------------------------
(* The dialer *)

LEMMA DialKeeps ==
  ASSUME KsIInv, NEW c \in Clients, NEW timeout \in Timeouts, Dial(c, timeout)
  PROVE  KsIInv'
<1> DEFINE ss == [i \in DOMAIN Addrs |-> serialAutoInc[c] + i]
<1>1. /\ ~Busy(c) /\ dials[c] < MaxDials
      /\ serials' = [serials EXCEPT ![c] = ss]
      /\ serialAutoInc' = [serialAutoInc EXCEPT ![c] = @ + Len(Addrs)]
      /\ armed' = IF timeout > 0 THEN armed \cup {c} ELSE armed \ {c}
      /\ net' = net \cup SerialPackets(c, ss)
      /\ dials' = [dials EXCEPT ![c] = @ + 1]
      /\ before' = [before EXCEPT ![c] = {sv \in Servers \X Convs : accepts[sv[1]][sv[2]] > 0}]
      /\ UNCHANGED <<peers, dcps, connects, listenerVars>>
  BY DEF Dial
<1>2. /\ DialerTypes /\ ListenerTypes /\ PacketTypes /\ SerialsKept /\ ConvsKept /\ BeforeKept
      /\ DialerKept /\ ListenerKept /\ AcceptedOnce /\ ConnectOnce /\ FreshConv
  BY DEF KsIInv
<1>3. /\ Len(Addrs) \in Nat \ {0} /\ DOMAIN Addrs = 1 .. Len(Addrs)
      /\ \A i \in DOMAIN Addrs : Addrs[i] \in Servers
  BY AddrsAssumption
<1>4. serialAutoInc[c] \in Nat /\ ss \in Seq(Nat) /\ DOMAIN ss = DOMAIN Addrs /\ ss # <<>>
  <2>1. serialAutoInc[c] \in Nat
    BY <1>2 DEF DialerTypes
  <2>2. \A i \in DOMAIN Addrs : serialAutoInc[c] + i \in Nat
    BY <2>1, <1>3
  <2>3. ss \in [1 .. Len(Addrs) -> Nat]
    BY <2>2, <1>3
  <2> QED  BY <2>1, <2>3, <1>3
<1>5. \A i \in DOMAIN ss : ss[i] = serialAutoInc[c] + i
  OBVIOUS
<1> HIDE DEF ss
<1>6. \A m \in net' : \/ m \in net
                     \/ \E i \in DOMAIN ss :
                          m = [kind |-> "serial", from |-> c, to |-> Addrs[i], serial |-> ss[i]]
  BY <1>1 DEF SerialPackets
<1>7. net \subseteq net'
  BY <1>1
<1>8. \A i \in DOMAIN ss : ss[i] \in Nat /\ ss[i] > serialAutoInc[c]
                           /\ ss[i] <= serialAutoInc[c] + Len(Addrs)
  BY <1>3, <1>4, <1>5
<1>9. DialerTypes'
  <2>1. serials' \in [Clients -> Seq(Nat)]
    BY <1>1, <1>2, <1>4 DEF DialerTypes
  <2>2. serialAutoInc' \in [Clients -> Nat]
    BY <1>1, <1>2, <1>3 DEF DialerTypes
  <2>3. dials' \in [Clients -> 0 .. MaxDials]
    BY <1>1, <1>2, BoundsAssumption DEF DialerTypes
  <2>4. before' \in [Clients -> SUBSET (Servers \X Convs)]
    BY <1>1, <1>2 DEF DialerTypes
  <2> QED  BY <1>1, <1>2, <2>1, <2>2, <2>3, <2>4 DEF DialerTypes
<1>10. ListenerTypes'
  BY <1>1, <1>2 DEF ListenerTypes, listenerVars
<1>11. PacketTypes'
  <2> SUFFICES ASSUME NEW m \in net'
               PROVE  /\ m.kind = "serial" => m.from \in Clients /\ m.to \in Servers /\ m.serial \in Nat
                      /\ m.kind # "serial" => m \in net
    BY <1>2 DEF PacketTypes
  <2>1. CASE m \in net
    BY <2>1, <1>2 DEF PacketTypes
  <2>2. CASE m \notin net
    BY <2>2, <1>6, <1>3, <1>4, <1>8
  <2> QED  BY <2>1, <2>2
<1>12. SerialsKept'
  <2>1. \A m \in net : m.kind = "serial" => m.from \in Clients /\ m.serial \in Nat
    BY <1>2 DEF PacketTypes
  <2>2. \A d \in Clients : serialAutoInc'[d] = IF d = c THEN serialAutoInc[c] + Len(Addrs)
                                             ELSE serialAutoInc[d]
    BY <1>1, <1>2 DEF DialerTypes
  <2>3. ASSUME NEW m \in net', m.kind = "serial" PROVE m.serial <= serialAutoInc'[m.from]
    <3>1. CASE m \in net
      <4>1. m.serial <= serialAutoInc[m.from] /\ m.from \in Clients /\ m.serial \in Nat
        BY <3>1, <2>3, <2>1, <1>2 DEF SerialsKept
      <4>2. serialAutoInc[m.from] \in Nat
        BY <4>1, <1>2 DEF DialerTypes
      <4> QED  BY <4>1, <4>2, <2>2, <1>3
    <3>2. CASE m \notin net
      BY <3>2, <1>6, <1>8, <2>2
    <3> QED  BY <3>1, <3>2
  <2>4. ASSUME NEW m \in net', NEW n \in net', m.kind = "serial", n.kind = "serial",
               m.from = n.from, m.serial = n.serial
        PROVE  m.to = n.to
    <3>1. \A k \in net : k.kind = "serial" /\ k.from = c =>
            k.serial \in Nat /\ k.serial <= serialAutoInc[c]
      BY <2>1, <1>2 DEF SerialsKept
    <3>2. CASE m \in net /\ n \in net
      BY <3>2, <2>4, <1>2 DEF SerialsKept
    <3>3. CASE m \notin net /\ n \in net
      <4>1. m.from = c /\ m.serial \in Nat /\ m.serial > serialAutoInc[c]
        BY <3>3, <1>6, <1>8
      <4> QED  BY <4>1, <3>1, <3>3, <2>4, <1>4
    <3>4. CASE m \in net /\ n \notin net
      <4>1. n.from = c /\ n.serial \in Nat /\ n.serial > serialAutoInc[c]
        BY <3>4, <1>6, <1>8
      <4> QED  BY <4>1, <3>1, <3>4, <2>4, <1>4
    <3>5. CASE m \notin net /\ n \notin net
      <4>1. PICK i \in DOMAIN ss :
              m = [kind |-> "serial", from |-> c, to |-> Addrs[i], serial |-> ss[i]]
        BY <3>5, <1>6
      <4>2. PICK j \in DOMAIN ss :
              n = [kind |-> "serial", from |-> c, to |-> Addrs[j], serial |-> ss[j]]
        BY <3>5, <1>6
      <4>3. i \in Nat /\ j \in Nat /\ ss[i] = ss[j]
        BY <4>1, <4>2, <2>4, <1>3, <1>4
      <4>4. i = j
        BY <4>3, <4>1, <4>2, <1>4, <1>5
      <4> QED  BY <4>1, <4>2, <4>4
    <3> QED  BY <3>2, <3>3, <3>4, <3>5
  <2>5. ASSUME NEW d \in Clients, NEW i \in DOMAIN serials'[d]
        PROVE  i \in DOMAIN Addrs /\ Asked(net', d, Addrs[i], serials'[d][i])
    <3>1. CASE d = c
      <4>1. serials'[d] = ss
        BY <3>1, <1>1, <1>2 DEF DialerTypes
      <4>2. [kind |-> "serial", from |-> c, to |-> Addrs[i], serial |-> ss[i]] \in net'
        BY <4>1, <2>5, <1>1 DEF SerialPackets
      <4> QED  BY <4>1, <4>2, <2>5, <3>1, <1>4 DEF Asked
    <3>2. CASE d # c
      <4>1. serials'[d] = serials[d]
        BY <3>2, <1>1, <1>2 DEF DialerTypes
      <4> QED  BY <4>1, <2>5, <1>2, <1>7, AskedStays DEF SerialsKept
    <3> QED  BY <3>1, <3>2
  <2>6. ASSUME NEW m \in net', m.kind = "shake" PROVE Asked(net', m.to, m.from, m.serial)
    <3>1. m \in net
      BY <2>6, <1>6
    <3> QED  BY <3>1, <2>6, <1>2, <1>7, AskedStays DEF SerialsKept
  <2> QED  BY <2>3, <2>4, <2>5, <2>6 DEF SerialsKept
<1>13. ConvsKept'
  BY <1>1, <1>2, <1>6, <1>7, ConvsStay DEF listenerVars
<1>14. BeforeKept'
  <2>1. ASSUME NEW d \in Clients, NEW sv \in before'[d]
        PROVE  accepts'[sv[1]][sv[2]] > 0
    <3>1. accepts' = accepts
      BY <1>1 DEF listenerVars
    <3>2. before'[d] = IF d = c THEN {x \in Servers \X Convs : accepts[x[1]][x[2]] > 0} ELSE before[d]
      BY <1>1, <1>2 DEF DialerTypes
    <3> QED  BY <2>1, <3>1, <3>2, <1>2 DEF BeforeKept
  <2>2. ASSUME NEW m \in net', m.kind = "shake", NEW i \in DOMAIN serials'[m.to],
               serials'[m.to][i] = m.serial
        PROVE  <<m.from, m.conv>> \notin before'[m.to]
    <3>1. m \in net /\ m.to \in Clients
      BY <2>2, <1>6, <1>2 DEF PacketTypes
    <3>2. CASE m.to = c
      <4>1. PICK k \in net : k.kind = "serial" /\ k.from = c /\ k.serial = m.serial
        BY <3>1, <3>2, <2>2, <1>2 DEF SerialsKept, Asked
      <4>2. m.serial <= serialAutoInc[c]
        BY <4>1, <1>2 DEF SerialsKept
      <4>3. serials'[m.to] = ss
        BY <3>2, <1>1, <1>2 DEF DialerTypes
      <4> QED  BY <4>2, <4>3, <2>2, <1>8, <1>4
    <3>3. CASE m.to # c
      <4>1. serials'[m.to] = serials[m.to] /\ before'[m.to] = before[m.to]
        BY <3>1, <3>3, <1>1, <1>2 DEF DialerTypes
      <4> QED  BY <4>1, <3>1, <2>2, <1>2 DEF BeforeKept
    <3> QED  BY <3>2, <3>3
  <2> QED  BY <2>1, <2>2 DEF BeforeKept
<1>15. DialerKept'
  <2>1. ASSUME NEW p \in PeerIds, peers[p].open
        PROVE  /\ p[2] <= dials'[p[1]]
               /\ p[2] = dials'[p[1]] => ~Busy(p[1])'
    <3>1. p[1] \in Clients /\ p[2] \in Nat /\ p[2] <= dials[p[1]] /\ dials[p[1]] \in Nat
      BY <2>1, <1>2, BoundsAssumption DEF DialerKept, PeerIds, DialerTypes
    <3>2. p[2] = dials[p[1]] => ~Busy(p[1])
      BY <2>1, <1>2 DEF DialerKept
    <3>3. CASE p[1] = c
      <4>1. dials'[p[1]] = dials[p[1]] + 1
        BY <3>3, <1>1, <1>2 DEF DialerTypes
      <4> QED  BY <4>1, <3>1
    <3>4. CASE p[1] # c
      <4>1. dials'[p[1]] = dials[p[1]] /\ serials'[p[1]] = serials[p[1]]
        BY <3>4, <3>1, <1>1, <1>2 DEF DialerTypes
      <4> QED  BY <4>1, <3>1, <3>2 DEF Busy
    <3> QED  BY <3>3, <3>4
  <2>2. \A p \in PeerIds : peers[p].open => Given(net', peers[p].server, p[1], peers[p].conv)
    BY <1>2, <1>7, GivenStays DEF DialerKept
  <2>3. \A p \in PeerIds : \A s \in peers[p].fed : Given(net', s, p[1], peers[p].conv)
    BY <1>2, <1>7, GivenStays DEF DialerKept
  <2>4. peers' = peers /\ dcps' = dcps
    BY <1>1
  <2> QED  BY <2>1, <2>2, <2>3, <2>4, <1>2 DEF DialerKept
<1>16. ListenerKept'
  BY <1>1, <1>2, <1>6, <1>7, ListenerStays DEF listenerVars
<1>17. AcceptedOnce' /\ FreshConv'
  BY <1>1, <1>2 DEF AcceptedOnce, FreshConv, listenerVars
<1>18. ConnectOnce'
  <2> SUFFICES ASSUME NEW d \in Clients
               PROVE  dials'[d] = connects'[d] + IF Busy(d)' THEN 1 ELSE 0
    BY DEF ConnectOnce
  <2>1. dials[d] = connects[d] + IF Busy(d) THEN 1 ELSE 0
    BY <1>2 DEF ConnectOnce
  <2>2. connects[d] \in Nat
    BY <1>2 DEF DialerTypes
  <2>3. CASE d = c
    <3>1. dials'[d] = dials[d] + 1 /\ connects'[d] = connects[d] /\ serials'[d] = ss
      BY <2>3, <1>1, <1>2 DEF DialerTypes
    <3>2. Busy(d)' /\ ~Busy(d)
      BY <3>1, <2>3, <1>1, <1>4 DEF Busy
    <3> QED  BY <3>1, <3>2, <2>1, <2>2
  <2>4. CASE d # c
    <3>1. dials'[d] = dials[d] /\ connects'[d] = connects[d] /\ serials'[d] = serials[d]
      BY <2>4, <1>1, <1>2 DEF DialerTypes
    <3>2. Busy(d)' <=> Busy(d)
      BY <3>1 DEF Busy
    <3> QED  BY <3>1, <3>2, <2>1
  <2> QED  BY <2>3, <2>4
<1>19. TimersKept'
  <2>1. TimersKept
    BY DEF KsIInv
  <2>2. Busy(c)'
    BY <1>1, <1>2, <1>4 DEF Busy, DialerTypes
  <2>3. \A d \in Clients : d # c => (Busy(d)' <=> Busy(d))
    BY <1>1, <1>2 DEF Busy, DialerTypes
  <2>4. /\ timeout \in Nat /\ (0 \notin Timeouts => timeout > 0)
        /\ armed' \in {armed \cup {c}, armed \ {c}}
        /\ timeout > 0 => armed' = armed \cup {c}
    BY <1>1, BoundsAssumption
  <2> QED  BY <2>1, <2>2, <2>3, <2>4 DEF TimersKept
<1> QED  BY <1>9, <1>10, <1>11, <1>12, <1>13, <1>14, <1>15, <1>16, <1>17, <1>18, <1>19 DEF KsIInv

\* A dial ends, with a peer or without: all that is not about peers.
LEMMA DialOver ==
  ASSUME KsIInv, NEW c \in Clients, Busy(c),
         Stop(c),
         connects' = [connects EXCEPT ![c] = @ + 1],
         UNCHANGED <<serialAutoInc, dials, listenerVars, net>>
  PROVE  /\ serials' \in [Clients -> Seq(Nat)]
         /\ connects' \in [Clients -> Nat]
         /\ before' \in [Clients -> SUBSET (Servers \X Convs)]
         /\ ListenerTypes' /\ PacketTypes' /\ SerialsKept' /\ ConvsKept' /\ BeforeKept'
         /\ ListenerKept' /\ AcceptedOnce' /\ ConnectOnce' /\ TimersKept'
<1>1. /\ DialerTypes /\ ListenerTypes /\ PacketTypes /\ SerialsKept /\ ConvsKept /\ BeforeKept
      /\ ListenerKept /\ AcceptedOnce /\ ConnectOnce /\ TimersKept
  BY DEF KsIInv
<1>2. /\ serials' \in [Clients -> Seq(Nat)]
      /\ connects' \in [Clients -> Nat]
      /\ before' \in [Clients -> SUBSET (Servers \X Convs)]
  BY <1>1 DEF DialerTypes, Stop
<1>3. \A d \in Clients : IF d = c
        THEN serials'[d] = <<>> /\ before'[d] = {} /\ connects'[d] = connects[d] + 1
        ELSE serials'[d] = serials[d] /\ before'[d] = before[d] /\ connects'[d] = connects[d]
  BY <1>1 DEF DialerTypes, Stop
<1>4. ListenerTypes' /\ PacketTypes' /\ AcceptedOnce'
  BY <1>1 DEF ListenerTypes, PacketTypes, AcceptedOnce, listenerVars
<1>5. SerialsKept'
  BY <1>1, <1>3, SerialsStay
<1>6. ConvsKept'
  BY <1>1, ConvsStay DEF listenerVars
<1>7. BeforeKept'
  BY <1>1, <1>3, BeforeStays DEF listenerVars
<1>8. ListenerKept'
  BY <1>1, ListenerStays DEF listenerVars
<1>9. ConnectOnce'
  <2> SUFFICES ASSUME NEW d \in Clients
               PROVE  dials'[d] = connects'[d] + IF Busy(d)' THEN 1 ELSE 0
    BY DEF ConnectOnce
  <2>1. dials[d] = connects[d] + (IF Busy(d) THEN 1 ELSE 0) /\ connects[d] \in Nat
    BY <1>1 DEF ConnectOnce, DialerTypes
  <2> QED  BY <2>1, <1>3 DEF Busy
<1>10. TimersKept'
  <2>1. armed' = armed \ {c}
    BY DEF Stop
  <2>2. ~Busy(c)' /\ \A d \in Clients : d # c => (Busy(d)' <=> Busy(d))
    BY <1>3 DEF Busy
  <2> QED  BY <1>1, <2>1, <2>2 DEF TimersKept
<1> QED  BY <1>2, <1>4, <1>5, <1>6, <1>7, <1>8, <1>9, <1>10

LEMMA DialTimeoutKeeps ==
  ASSUME KsIInv, NEW c \in Clients, DialTimeout(c)
  PROVE  KsIInv'
<1>1. /\ Busy(c)
      /\ Stop(c)
      /\ serials' = [serials EXCEPT ![c] = <<>>]
      /\ connects' = [connects EXCEPT ![c] = @ + 1]
      /\ UNCHANGED <<serialAutoInc, peers, dcps, dials, listenerVars, net>>
  BY DEF DialTimeout, Stop, KsIInv, TimersKept
<1>2. /\ serials' \in [Clients -> Seq(Nat)]
      /\ connects' \in [Clients -> Nat]
      /\ before' \in [Clients -> SUBSET (Servers \X Convs)]
      /\ ListenerTypes' /\ PacketTypes' /\ SerialsKept' /\ ConvsKept' /\ BeforeKept'
      /\ ListenerKept' /\ AcceptedOnce' /\ ConnectOnce' /\ TimersKept'
  BY <1>1, DialOver
<1>3. DialerTypes /\ DialerKept /\ FreshConv
  BY DEF KsIInv
<1>4. DialerTypes' /\ FreshConv'
  BY <1>1, <1>2, <1>3 DEF DialerTypes, FreshConv
<1>5. \A d \in Clients : ~Busy(d) => ~Busy(d)'
  BY <1>1, <1>3 DEF Busy, DialerTypes
<1>6. DialerKept'
  BY <1>1, <1>3, <1>5 DEF DialerKept, PeerIds
<1> QED  BY <1>2, <1>4, <1>6 DEF KsIInv

\* The answer to a serial comes from the address the serial was sent to.
LEMMA AnswerIsOfItsAddress ==
  ASSUME KsIInv, NEW c \in Clients, NEW m \in net, m.kind = "shake", m.to = c,
         NEW i \in DOMAIN serials[c], serials[c][i] = m.serial
  PROVE  Addrs[i] = m.from
<1>1. SerialsKept
  BY DEF KsIInv
<1>2. PICK j \in net : j.kind = "serial" /\ j.from = c /\ j.to = Addrs[i] /\ j.serial = m.serial
  BY <1>1 DEF SerialsKept, Asked
<1>3. PICK k \in net : k.kind = "serial" /\ k.from = c /\ k.to = m.from /\ k.serial = m.serial
  BY <1>1 DEF SerialsKept, Asked
<1> QED  BY <1>1, <1>2, <1>3 DEF SerialsKept

LEMMA ReceiveShakeKeeps ==
  ASSUME KsIInv, NEW c \in Clients, NEW m \in net, NEW held \in BOOLEAN, ReceiveShake(c, m, held)
  PROVE  KsIInv'
<1> DEFINE id == <<c, dials[c]>>
<1>1. /\ m.kind = "shake" /\ m.to = c
      /\ Stop(c)
      /\ serials' = [serials EXCEPT ![c] = <<>>]
      /\ UNCHANGED <<serialAutoInc, dials, listenerVars, net>>
  BY DEF ReceiveShake, Stop
<1>2. PICK i \in DOMAIN serials[c] :
        /\ serials[c][i] = m.serial
        /\ Connected(c, Addrs[i], m.conv, held)
  BY DEF ReceiveShake
<1>3. /\ DialerTypes /\ ListenerTypes /\ PacketTypes /\ SerialsKept /\ BeforeKept
      /\ DialerKept /\ ConnectOnce /\ FreshConv
  BY DEF KsIInv
<1>4. Addrs[i] = m.from /\ m.from \in Servers /\ m.conv \in Convs
  BY <1>1, <1>2, <1>3, AnswerIsOfItsAddress DEF PacketTypes
<1>5. <<m.from, m.conv>> \notin before[c]
  BY <1>1, <1>2, <1>3 DEF BeforeKept
<1> DEFINE new == IF held THEN Made(TRUE, m.from, m.conv, <<"accept">>, TRUE) ELSE Closed(TRUE)
<1>6. /\ peers' = [peers EXCEPT ![id] = new]
      /\ dcps' = [dcps EXCEPT ![c][m.conv] = IF held THEN id ELSE NoPeer]
      /\ connects' = [connects EXCEPT ![c] = @ + 1]
  <2>1. (<<m.from, m.conv>> \notin before[c]) = TRUE
    BY <1>5
  <2> QED  BY <1>2, <1>4, <2>1 DEF Connected
<1>7. Busy(c)
  <2>1. serials[c] \in Seq(Nat)
    BY <1>3 DEF DialerTypes
  <2> QED  BY <2>1, <1>2 DEF Busy
<1>8. /\ serials' \in [Clients -> Seq(Nat)]
      /\ connects' \in [Clients -> Nat]
      /\ before' \in [Clients -> SUBSET (Servers \X Convs)]
      /\ ListenerTypes' /\ PacketTypes' /\ SerialsKept' /\ ConvsKept' /\ BeforeKept'
      /\ ListenerKept' /\ AcceptedOnce' /\ ConnectOnce' /\ TimersKept'
  BY <1>1, <1>6, <1>7, DialOver
<1>9. dials[c] \in 1 .. MaxDials /\ id \in PeerIds
  <2>1. dials[c] \in 0 .. MaxDials /\ connects[c] \in Nat /\ dials[c] = connects[c] + 1
    BY <1>3, <1>7 DEF DialerTypes, ConnectOnce
  <2> QED  BY <2>1, BoundsAssumption DEF PeerIds
<1>10. ~peers[id].open
  BY <1>3, <1>7, <1>9 DEF DialerKept
<1>11. id # NoPeer
  BY NoOneAssumption DEF NoPeer
<1>12. new \in DialerPeer
  <2>1. <<"accept">> \in Seq(Bytes) /\ <<>> \in Seq(Bytes) /\ <<>> \in Seq(Seq(Bytes))
    BY DEF Bytes
  <2> QED  BY <2>1, <1>4, BoundsAssumption DEF DialerPeer, Convs, Made, Closed
<1>13. DialerTypes'
  BY <1>1, <1>3, <1>4, <1>6, <1>8, <1>9, <1>12 DEF DialerTypes
<1>14. \A p \in PeerIds : peers'[p] = IF p = id THEN new ELSE peers[p]
  BY <1>3, <1>6 DEF DialerTypes
<1>15. \A d \in Clients, v \in Convs :
         dcps'[d][v] = IF d = c /\ v = m.conv THEN IF held THEN id ELSE NoPeer ELSE dcps[d][v]
  BY <1>3, <1>4, <1>6 DEF DialerTypes
<1>16. Given(net, m.from, c, m.conv) /\ net' = net
  BY <1>1 DEF Given
<1> HIDE DEF id
<1>17. /\ new.open = held /\ new.fresh = TRUE /\ new.fed = {}
       /\ held => new.conv = m.conv /\ new.server = m.from
       /\ ~held => new.queued = <<>>
  BY DEF Made, Closed
<1> HIDE DEF new
<1>18. \A d \in Clients : ~Busy(d) => ~Busy(d)'
  BY <1>1, <1>3 DEF Busy, DialerTypes
<1>19. ~Busy(c)' /\ dials' = dials
  BY <1>1, <1>3 DEF Busy, DialerTypes
<1>20. id[1] = c /\ id[2] = dials[c]
  BY DEF id
<1>21. DialerKept'
  <2>1. \A p \in PeerIds : peers'[p].queued # <<>> => peers'[p].open
    BY <1>3, <1>14, <1>17 DEF DialerKept
  <2>2. ASSUME NEW p \in PeerIds, peers'[p].open
        PROVE  /\ peers'[p].conv \in Convs
               /\ Given(net', peers'[p].server, p[1], peers'[p].conv)
               /\ p[2] <= dials'[p[1]]
               /\ p[2] = dials'[p[1]] => ~Busy(p[1])'
    <3>1. CASE p = id
      BY <3>1, <2>2, <1>4, <1>9, <1>14, <1>16, <1>17, <1>19, <1>20
    <3>2. CASE p # id
      <4>1. peers'[p] = peers[p] /\ p[1] \in Clients
        BY <3>2, <1>14 DEF PeerIds
      <4> QED  BY <4>1, <2>2, <1>3, <1>16, <1>18, <1>19 DEF DialerKept
    <3> QED  BY <3>1, <3>2
  <2>3. \A p \in PeerIds : \A s \in peers'[p].fed : Given(net', s, p[1], peers'[p].conv)
    BY <1>3, <1>14, <1>16, <1>17 DEF DialerKept
  <2>4. ASSUME NEW d \in Clients, NEW v \in Convs, dcps'[d][v] # NoPeer
        PROVE  /\ dcps'[d][v][1] = d
               /\ peers'[dcps'[d][v]].open
               /\ peers'[dcps'[d][v]].conv = v
    <3>1. CASE d = c /\ v = m.conv
      BY <3>1, <2>4, <1>9, <1>14, <1>15, <1>17, <1>20
    <3>2. CASE ~(d = c /\ v = m.conv)
      <4>1. dcps'[d][v] = dcps[d][v] /\ dcps[d][v] \in PeerIds
        BY <3>2, <2>4, <1>15, <1>3 DEF DialerTypes
      <4>2. /\ dcps[d][v][1] = d
            /\ peers[dcps[d][v]].open
            /\ peers[dcps[d][v]].conv = v
        BY <4>1, <2>4, <1>3 DEF DialerKept
      <4> QED  BY <4>1, <4>2, <1>10, <1>14
    <3> QED  BY <3>1, <3>2
  <2> QED  BY <2>1, <2>2, <2>3, <2>4 DEF DialerKept
<1>22. FreshConv'
  BY <1>3, <1>14, <1>17 DEF FreshConv
<1> QED  BY <1>8, <1>13, <1>21, <1>22 DEF KsIInv

\* A dialer changes its peers, and what it sends is of a conv it was given.
LEMMA PeersChange ==
  ASSUME KsIInv, net \subseteq net',
         UNCHANGED <<serials, serialAutoInc, armed, dials, connects, before, listenerVars>>,
         \A m \in net' : \/ m \in net
                         \/ /\ m.kind = "kcp" /\ m.from \in Clients /\ m.to \in Servers
                            /\ m.conv \in Convs /\ Given(net, m.to, m.from, m.conv),
         peers' \in [PeerIds -> DialerPeer],
         dcps' \in [Clients -> [Convs -> PeerIds \cup {NoPeer}]],
         DialerKept', FreshConv'
  PROVE  KsIInv'
<1>1. /\ DialerTypes /\ ListenerTypes /\ PacketTypes /\ SerialsKept /\ ConvsKept /\ BeforeKept
      /\ ListenerKept /\ AcceptedOnce /\ ConnectOnce /\ TimersKept
  BY DEF KsIInv
<1>2. \A m \in net' : m.kind # "kcp" => m \in net
  OBVIOUS
<1>3. DialerTypes' /\ ListenerTypes' /\ AcceptedOnce'
  BY <1>1 DEF DialerTypes, ListenerTypes, AcceptedOnce, listenerVars
<1>4. PacketTypes'
  BY <1>1 DEF PacketTypes
<1>5. SerialsKept'
  BY <1>1, <1>2, SerialsStay
<1>6. ConvsKept'
  BY <1>1, <1>2, ConvsStay DEF listenerVars
<1>7. BeforeKept'
  BY <1>1, <1>2, BeforeStays DEF listenerVars
<1>8. ListenerKept'
  <2>1. lpeers' = lpeers /\ lcps' = lcps
    BY DEF listenerVars
  <2>2. \A m \in net' : m.kind = "kcp" => Given(net', m.to, m.from, m.conv)
    BY <1>1, GivenStays DEF ListenerKept
  <2>3. \A m \in net' : m.kind = "answer" => Given(net', m.from, m.to, m.conv)
    BY <1>1, <1>2, GivenStays DEF ListenerKept
  <2>4. ASSUME NEW s \in Servers, NEW v \in Convs, lpeers[s][v].open
        PROVE  Given(net', s, lpeers[s][v].client, v)
    <3>1. Given(net, s, lpeers[s][v].client, v)
      BY <1>1, <2>4 DEF ListenerKept
    <3> QED  BY <3>1, GivenStays
  <2> QED  BY <1>1, <2>1, <2>2, <2>3, <2>4 DEF ListenerKept
<1>9. ConnectOnce' /\ TimersKept'
  BY <1>1 DEF ConnectOnce, TimersKept, Busy
<1> QED  BY <1>3, <1>4, <1>5, <1>6, <1>7, <1>8, <1>9 DEF KsIInv

\* The peers of the dialers stay what they are, but for what they have to send
\* and who fed them.
LEMMA PeersStay ==
  ASSUME KsIInv, net \subseteq net', UNCHANGED <<serials, dials, dcps>>,
         \A p \in PeerIds :
           /\ peers'[p].open = peers[p].open /\ peers'[p].server = peers[p].server
           /\ peers'[p].conv = peers[p].conv /\ peers'[p].fresh = peers[p].fresh
           /\ peers'[p].queued # <<>> => peers[p].open
           /\ \A s \in peers'[p].fed : Given(net, s, p[1], peers[p].conv)
  PROVE  DialerKept' /\ FreshConv'
<1>1. DialerKept /\ FreshConv /\ DialerTypes
  BY DEF KsIInv
<1>2. FreshConv'
  BY <1>1 DEF FreshConv
<1>3. ASSUME NEW p \in PeerIds, peers'[p].open
      PROVE  /\ peers'[p].conv \in Convs
             /\ Given(net', peers'[p].server, p[1], peers'[p].conv)
             /\ p[2] <= dials'[p[1]]
             /\ p[2] = dials'[p[1]] => ~Busy(p[1])'
  <2>1. /\ peers[p].conv \in Convs
        /\ Given(net, peers[p].server, p[1], peers[p].conv)
        /\ p[2] <= dials[p[1]]
        /\ p[2] = dials[p[1]] => ~Busy(p[1])
    BY <1>1, <1>3 DEF DialerKept
  <2>2. Given(net', peers[p].server, p[1], peers[p].conv)
    BY <2>1, GivenStays
  <2> QED  BY <2>1, <2>2 DEF Busy
<1>4. ASSUME NEW p \in PeerIds, NEW s \in peers'[p].fed
      PROVE  Given(net', s, p[1], peers'[p].conv)
  BY <1>4, GivenStays
<1>5. ASSUME NEW c \in Clients, NEW v \in Convs, dcps'[c][v] # NoPeer
      PROVE  dcps'[c][v][1] = c /\ peers'[dcps'[c][v]].open /\ peers'[dcps'[c][v]].conv = v
  <2>1. dcps'[c][v] = dcps[c][v] /\ dcps[c][v] \in PeerIds
    BY <1>1, <1>5 DEF DialerTypes
  <2> QED  BY <1>1, <1>5, <2>1 DEF DialerKept
<1> QED  BY <1>2, <1>3, <1>4, <1>5 DEF DialerKept

LEMMA UserSendsKeeps ==
  ASSUME KsIInv, NEW p \in PeerIds, UserSends(p)
  PROVE  KsIInv'
<1>1. DialerTypes /\ DialerKept
  BY DEF KsIInv
<1>2. /\ peers[p].open
      /\ peers' = [peers EXCEPT ![p].queued = Append(@, "data"), ![p].wrote = TRUE]
      /\ UNCHANGED <<serials, serialAutoInc, armed, dcps, dials, connects, before, listenerVars, net>>
  BY DEF UserSends
<1>3. \A q \in PeerIds : peers[q] \in DialerPeer
  BY <1>1 DEF DialerTypes
<1>4. Append(peers[p].queued, "data") \in Seq(Bytes)
  BY <1>3 DEF DialerPeer, Bytes
<1>5. peers' \in [PeerIds -> DialerPeer]
  BY <1>1, <1>2, <1>3, <1>4 DEF DialerTypes, DialerPeer
<1>6. \A q \in PeerIds :
        /\ peers'[q].open = peers[q].open /\ peers'[q].server = peers[q].server
        /\ peers'[q].conv = peers[q].conv /\ peers'[q].fresh = peers[q].fresh
        /\ peers'[q].fed = peers[q].fed
        /\ q # p => peers'[q] = peers[q]
  BY <1>1, <1>2, <1>3 DEF DialerTypes, DialerPeer
<1>7. \A q \in PeerIds : peers'[q].queued # <<>> => peers[q].open
  BY <1>1, <1>2, <1>6 DEF DialerKept
<1>8. \A q \in PeerIds : \A s \in peers'[q].fed : Given(net, s, q[1], peers[q].conv)
  BY <1>1, <1>6 DEF DialerKept
<1>9. DialerKept' /\ FreshConv'
  BY <1>2, <1>6, <1>7, <1>8, PeersStay
<1> QED  BY <1>1, <1>2, <1>5, <1>9, PeersChange DEF DialerTypes

LEMMA ReceiveAnswerKeeps ==
  ASSUME KsIInv, NEW c \in Clients, NEW m \in net, ReceiveAnswer(c, m)
  PROVE  KsIInv'
<1> DEFINE p == dcps[c][m.conv]
<1>1. DialerTypes /\ DialerKept /\ ListenerKept /\ PacketTypes
  BY DEF KsIInv
<1>2. /\ m.kind = "answer" /\ m.to = c /\ p # NoPeer
      /\ peers' = [peers EXCEPT ![p].fed = @ \cup {m.from}]
      /\ UNCHANGED <<serials, serialAutoInc, armed, dcps, dials, connects, before, listenerVars, net>>
  BY DEF ReceiveAnswer
<1>3. m.conv \in Convs /\ m.from \in Servers
  BY <1>1, <1>2 DEF PacketTypes
<1>4. p \in PeerIds /\ p[1] = c /\ peers[p].open /\ peers[p].conv = m.conv
  BY <1>1, <1>2, <1>3 DEF DialerKept, DialerTypes
<1>5. Given(net, m.from, c, m.conv)
  BY <1>1, <1>2 DEF ListenerKept
<1> HIDE DEF p
<1>6. \A q \in PeerIds : peers[q] \in DialerPeer
  BY <1>1 DEF DialerTypes
<1>7. peers' \in [PeerIds -> DialerPeer]
  BY <1>1, <1>2, <1>3, <1>6 DEF DialerTypes, DialerPeer
<1>8. \A q \in PeerIds :
        /\ peers'[q].open = peers[q].open /\ peers'[q].server = peers[q].server
        /\ peers'[q].conv = peers[q].conv /\ peers'[q].fresh = peers[q].fresh
        /\ peers'[q].queued = peers[q].queued
        /\ peers'[q].fed = IF q = p THEN peers[p].fed \cup {m.from} ELSE peers[q].fed
  BY <1>1, <1>2, <1>6 DEF DialerTypes, DialerPeer
<1>9. \A q \in PeerIds : peers'[q].queued # <<>> => peers[q].open
  BY <1>1, <1>8 DEF DialerKept
<1>10. \A q \in PeerIds : \A s \in peers'[q].fed : Given(net, s, q[1], peers[q].conv)
  BY <1>1, <1>4, <1>5, <1>8 DEF DialerKept
<1>11. DialerKept' /\ FreshConv'
  BY <1>2, <1>8, <1>9, <1>10, PeersStay
<1> QED  BY <1>1, <1>2, <1>7, <1>11, PeersChange DEF DialerTypes

LEMMA PutOutKeeps ==
  ASSUME KsIInv, NEW c \in Clients, NEW due, PutOut(c, due),
         \A p \in due : p \in PeerIds /\ p[1] = c /\ peers[p].queued # <<>>
  PROVE  KsIInv'
<1> DEFINE sentBy(p) == [kind |-> "kcp", from |-> c, to |-> peers[p].server,
                         conv |-> peers[p].conv, sn |-> Len(peers[p].flushed),
                         segment |-> peers[p].queued]
<1>1. DialerTypes /\ DialerKept /\ PacketTypes
  BY DEF KsIInv
<1>2. /\ peers' = [p \in PeerIds |->
           IF p \in due
           THEN [peers[p] EXCEPT !.queued = <<>>, !.flushed = Append(@, peers[p].queued)]
           ELSE peers[p]]
      /\ net' = net \cup {sentBy(p) : p \in due}
      /\ UNCHANGED <<serials, serialAutoInc, armed, dcps, dials, connects, before, listenerVars>>
  BY DEF PutOut
<1>3. ASSUME NEW p \in due
      PROVE  /\ peers[p].conv \in Convs /\ peers[p].server \in Servers
             /\ Given(net, peers[p].server, c, peers[p].conv)
  <2>1. peers[p].open /\ p[1] = c
    BY <1>1, <1>3 DEF DialerKept
  <2>2. peers[p].conv \in Convs /\ Given(net, peers[p].server, c, peers[p].conv)
    BY <1>1, <1>3, <2>1 DEF DialerKept
  <2> QED  BY <1>1, <2>2 DEF Given, PacketTypes
<1>4. \A m \in net' : \/ m \in net
                     \/ /\ m.kind = "kcp" /\ m.from \in Clients /\ m.to \in Servers
                        /\ m.conv \in Convs /\ Given(net, m.to, m.from, m.conv)
  <2> SUFFICES ASSUME NEW m \in net', m \notin net
               PROVE  /\ m.kind = "kcp" /\ m.from \in Clients /\ m.to \in Servers
                      /\ m.conv \in Convs /\ Given(net, m.to, m.from, m.conv)
    OBVIOUS
  <2>1. PICK p \in due : m = sentBy(p)
    BY <1>2
  <2>2. m.kind = "kcp" /\ m.from = c /\ m.to = peers[p].server /\ m.conv = peers[p].conv
    BY <2>1
  <2>3. /\ peers[p].conv \in Convs /\ peers[p].server \in Servers
        /\ Given(net, peers[p].server, c, peers[p].conv)
    BY <1>3
  <2> QED  BY <2>2, <2>3
<1> HIDE DEF sentBy
<1>5. \A q \in PeerIds : peers[q] \in DialerPeer
  BY <1>1 DEF DialerTypes
<1>6. \A q \in PeerIds : /\ <<>> \in Seq(Bytes)
                         /\ Append(peers[q].flushed, peers[q].queued) \in Seq(Seq(Bytes))
  BY <1>5 DEF DialerPeer
<1>7. peers' \in [PeerIds -> DialerPeer]
  BY <1>2, <1>5, <1>6 DEF DialerPeer
<1>8. \A q \in PeerIds :
        /\ peers'[q].open = peers[q].open /\ peers'[q].server = peers[q].server
        /\ peers'[q].conv = peers[q].conv /\ peers'[q].fresh = peers[q].fresh
        /\ peers'[q].fed = peers[q].fed
        /\ peers'[q].queued \in {peers[q].queued, <<>>}
  BY <1>2, <1>5 DEF DialerPeer
<1>9. \A q \in PeerIds : peers'[q].queued # <<>> => peers[q].open
  BY <1>1, <1>8 DEF DialerKept
<1>10. \A q \in PeerIds : \A s \in peers'[q].fed : Given(net, s, q[1], peers[q].conv)
  BY <1>1, <1>8 DEF DialerKept
<1>11. net \subseteq net'
  BY <1>2
<1>12. DialerKept' /\ FreshConv'
  BY <1>2, <1>8, <1>9, <1>10, <1>11, PeersStay
<1> QED  BY <1>1, <1>2, <1>4, <1>7, <1>11, <1>12, PeersChange DEF DialerTypes

LEMMA DialerFrameKeeps ==
  ASSUME KsIInv, NEW c \in Clients, DialerFrame(c)
  PROVE  KsIInv'
  BY PutOutKeeps DEF DialerFrame

LEMMA FlushKeeps ==
  ASSUME KsIInv, NEW p \in PeerIds, Flush(p)
  PROVE  KsIInv'
<1>1. p[1] \in Clients
  BY DEF PeerIds
<1> QED  BY <1>1, PutOutKeeps DEF Flush

LEMMA ClosePeerKeeps ==
  ASSUME KsIInv, NEW p \in PeerIds, ClosePeer(p)
  PROVE  KsIInv'
<1> DEFINE v == peers[p].conv
<1>1. DialerTypes /\ DialerKept /\ FreshConv
  BY DEF KsIInv
<1>2. /\ peers[p].open
      /\ peers' = [peers EXCEPT ![p] = Closed(peers[p].fresh)]
      /\ dcps' = [dcps EXCEPT ![p[1]][v] = NoPeer]
      /\ UNCHANGED <<serials, serialAutoInc, armed, dials, connects, before, listenerVars, net>>
  BY <1>1 DEF ClosePeer, DialerTypes
<1>3. p[1] \in Clients /\ v \in Convs /\ peers[p].fresh = TRUE
  <2>1. peers[p].fresh /\ peers[p].fresh \in BOOLEAN
    BY <1>1 DEF FreshConv, DialerTypes, DialerPeer
  <2> QED  BY <1>1, <1>2, <2>1 DEF DialerKept, PeerIds
<1>4. Closed(TRUE) \in DialerPeer
  <2>1. <<>> \in Seq(Bytes) /\ <<>> \in Seq(Seq(Bytes))
    OBVIOUS
  <2> QED  BY <2>1, BoundsAssumption DEF DialerPeer, Closed, Made
<1>5. Closed(TRUE).queued = <<>> /\ ~Closed(TRUE).open /\ Closed(TRUE).fed = {}
      /\ Closed(TRUE).fresh
  BY DEF Closed, Made
<1>6. \A q \in PeerIds : peers'[q] = IF q = p THEN Closed(TRUE) ELSE peers[q]
  BY <1>1, <1>2, <1>3 DEF DialerTypes
<1>7. \A d \in Clients, w \in Convs :
        dcps'[d][w] = IF d = p[1] /\ w = v THEN NoPeer ELSE dcps[d][w]
  BY <1>1, <1>2, <1>3 DEF DialerTypes
<1>8. /\ peers' \in [PeerIds -> DialerPeer]
      /\ dcps' \in [Clients -> [Convs -> PeerIds \cup {NoPeer}]]
  BY <1>1, <1>2, <1>3, <1>4 DEF DialerTypes
<1>9. FreshConv'
  BY <1>1, <1>5, <1>6 DEF FreshConv
<1>10. DialerKept'
  <2>1. \A q \in PeerIds : peers'[q].queued # <<>> => peers'[q].open
    BY <1>1, <1>5, <1>6 DEF DialerKept
  <2>2. ASSUME NEW q \in PeerIds, peers'[q].open
        PROVE  /\ peers'[q].conv \in Convs
               /\ Given(net', peers'[q].server, q[1], peers'[q].conv)
               /\ q[2] <= dials'[q[1]]
               /\ q[2] = dials'[q[1]] => ~Busy(q[1])'
    <3>1. peers'[q] = peers[q]
      BY <1>5, <1>6, <2>2
    <3>2. /\ peers[q].conv \in Convs
          /\ Given(net, peers[q].server, q[1], peers[q].conv)
          /\ q[2] <= dials[q[1]]
          /\ q[2] = dials[q[1]] => ~Busy(q[1])
      BY <1>1, <2>2, <3>1 DEF DialerKept
    <3> QED  BY <1>2, <3>1, <3>2 DEF Busy
  <2>3. ASSUME NEW q \in PeerIds, NEW s \in peers'[q].fed
        PROVE  Given(net', s, q[1], peers'[q].conv)
    <3>1. q # p
      BY <1>5, <1>6, <2>3
    <3>2. peers'[q] = peers[q]
      BY <1>6, <3>1
    <3> QED  BY <1>1, <1>2, <2>3, <3>2 DEF DialerKept
  <2>4. ASSUME NEW d \in Clients, NEW w \in Convs, dcps'[d][w] # NoPeer
        PROVE  dcps'[d][w][1] = d /\ peers'[dcps'[d][w]].open /\ peers'[dcps'[d][w]].conv = w
    <3>1. dcps'[d][w] = dcps[d][w] /\ dcps[d][w] \in PeerIds
      BY <1>1, <1>7, <2>4 DEF DialerTypes
    <3>2. dcps[d][w][1] = d /\ peers[dcps[d][w]].open /\ peers[dcps[d][w]].conv = w
      BY <1>1, <2>4, <3>1 DEF DialerKept
    <3>3. dcps[d][w] # p
      BY <1>7, <2>4, <3>2
    <3> QED  BY <1>6, <3>1, <3>2, <3>3
  <2> QED  BY <2>1, <2>2, <2>3, <2>4 DEF DialerKept
<1> QED  BY <1>2, <1>8, <1>9, <1>10, PeersChange

----------------------------------------------------------------------------
(* The listener *)

\* What Input leaves as it is, and what it notes of the packet's address.
LEMMA InputOfPeer ==
  ASSUME NEW peer, DOMAIN peer = Fields, NEW m, NEW isFirst
  PROVE  LET in == Input(peer, m, isFirst) IN
         /\ DOMAIN in = Fields
         /\ in.open = peer.open /\ in.client = peer.client
         /\ in.addr = m.from /\ in.fed = peer.fed \cup {m.from}
BY DEF Input, Fields

LEMMA ReceiveSerialKeeps ==
  ASSUME KsIInv, NEW s \in Servers, NEW m \in net, ReceiveSerial(s, m)
  PROVE  KsIInv'
<1> DEFINE known == shakes[s][m.from].conv # 0
           conv == IF known THEN shakes[s][m.from].conv ELSE convId[s] + 1
           answer == [kind |-> "shake", from |-> s, to |-> m.from,
                      serial |-> m.serial, conv |-> conv]
<1>1. /\ DialerTypes /\ ListenerTypes /\ PacketTypes /\ SerialsKept /\ ConvsKept /\ BeforeKept
      /\ DialerKept /\ ListenerKept /\ AcceptedOnce /\ ConnectOnce /\ FreshConv /\ TimersKept
  BY DEF KsIInv
<1>2. /\ m.kind = "serial" /\ m.to = s /\ conv <= MaxConv
      /\ convId' = [convId EXCEPT ![s] = IF known THEN @ ELSE conv]
      /\ shakes' = [shakes EXCEPT ![s][m.from] = [conv |-> conv, left |-> ShakeLife]]
      /\ net' = net \cup {answer}
      /\ UNCHANGED <<dialerVars, lpeers, lcps, accepts>>
  BY DEF ReceiveSerial
<1>3. m.from \in Clients /\ m.serial \in Nat
  BY <1>1, <1>2 DEF PacketTypes
<1>4. convId[s] \in Nat
  BY <1>1 DEF ListenerTypes
<1>5. /\ conv \in Convs /\ accepts[s][conv] = 0
      /\ conv <= convId'[s] /\ convId[s] <= convId'[s]
      /\ \A n \in net : n.kind = "shake" /\ n.from = s /\ n.conv = conv => n.to = m.from
  <2>1. convId'[s] = IF known THEN convId[s] ELSE conv
    BY <1>1, <1>2 DEF ListenerTypes
  <2>2. CASE known
    <3>1. conv = shakes[s][m.from].conv
      BY <2>2
    <3>2. Given(net, s, m.from, conv) /\ conv \in Convs /\ accepts[s][conv] = 0
      BY <1>1, <1>3, <2>2, <3>1 DEF ConvsKept
    <3>3. PICK g \in net : g.kind = "shake" /\ g.from = s /\ g.to = m.from /\ g.conv = conv
      BY <3>2 DEF Given
    <3>4. conv <= convId[s]
      BY <1>1, <3>3 DEF ConvsKept
    <3>5. \A n \in net : n.kind = "shake" /\ n.from = s /\ n.conv = conv => n.to = m.from
      BY <1>1, <3>3 DEF ConvsKept
    <3> HIDE DEF conv
    <3> QED  BY <1>4, <2>1, <2>2, <3>2, <3>4, <3>5
  <2>3. CASE ~known
    <3>1. conv = convId[s] + 1
      BY <2>3
    <3>2. conv \in Convs
      BY <1>2, <1>4, <3>1, BoundsAssumption DEF Convs
    <3>3. accepts[s][conv] = 0
      BY <1>1, <1>4, <3>1, <3>2 DEF ConvsKept
    <3>4. \A n \in net : n.kind = "shake" /\ n.from = s => n.conv <= convId[s] /\ n.conv \in Nat
      BY <1>1 DEF ConvsKept, PacketTypes, Convs
    <3> HIDE DEF conv
    <3> QED  BY <1>4, <2>1, <2>3, <3>1, <3>2, <3>3, <3>4
  <2> QED  BY <2>2, <2>3
<1>6. /\ answer.kind = "shake" /\ answer.from = s /\ answer.to = m.from
      /\ answer.serial = m.serial /\ answer.conv = conv
  OBVIOUS
<1>7. /\ convId' \in [Servers -> Nat]
      /\ \A t \in Servers : /\ convId[t] \in Nat /\ convId'[t] \in Nat
                            /\ convId[t] <= convId'[t]
  <2>1. convId' \in [Servers -> Nat]
    BY <1>1, <1>2, <1>5 DEF ListenerTypes, Convs
  <2>2. \A t \in Servers : t # s => convId'[t] = convId[t]
    BY <1>1, <1>2 DEF ListenerTypes
  <2>3. convId'[s] = IF known THEN convId[s] ELSE conv
    BY <1>1, <1>2 DEF ListenerTypes
  <2>4. convId \in [Servers -> Nat]
    BY <1>1 DEF ListenerTypes
  <2>5. convId[s] <= convId'[s]
    <3> HIDE DEF conv, known
    <3> QED  BY <1>5, <2>1, <2>3, <2>4
  <2> HIDE DEF conv
  <2> QED  BY <2>1, <2>2, <2>4, <2>5
<1>8. /\ shakes' \in [Servers -> [Clients -> [conv : Nat, left : Nat]]]
      /\ \A t \in Servers, d \in Clients :
           shakes'[t][d].conv = IF t = s /\ d = m.from THEN conv ELSE shakes[t][d].conv
  <2>1. [conv |-> conv, left |-> ShakeLife] \in [conv : Nat, left : Nat]
    BY <1>5, BoundsAssumption DEF Convs
  <2> HIDE DEF conv
  <2> QED  BY <1>1, <1>2, <1>3, <2>1 DEF ListenerTypes
<1> HIDE DEF known, conv, answer
<1>9. /\ net \subseteq net' /\ answer \in net'
      /\ \A n \in net' : n \in net \/ n = answer
      /\ \A n \in net' : n.kind # "shake" => n \in net
  BY <1>2, <1>6
<1>10. ListenerTypes'
  BY <1>1, <1>2, <1>7, <1>8 DEF ListenerTypes
<1>11. DialerTypes' /\ AcceptedOnce' /\ FreshConv' /\ ConnectOnce' /\ TimersKept'
  BY <1>1, <1>2 DEF DialerTypes, AcceptedOnce, FreshConv, ConnectOnce, TimersKept, Busy, dialerVars
<1>12. PacketTypes'
  BY <1>1, <1>3, <1>5, <1>6, <1>9 DEF PacketTypes
<1>13. SerialsKept'
  <2>1. serials' = serials /\ serialAutoInc' = serialAutoInc
    BY <1>2 DEF dialerVars
  <2>2. \A n \in net' : n.kind = "serial" => n.serial <= serialAutoInc'[n.from]
    BY <1>1, <1>9, <2>1 DEF SerialsKept
  <2>3. \A n, k \in net' : n.kind = "serial" /\ k.kind = "serial" /\ n.from = k.from
                           /\ n.serial = k.serial => n.to = k.to
    BY <1>1, <1>9 DEF SerialsKept
  <2>4. ASSUME NEW c \in Clients, NEW i \in DOMAIN serials'[c]
        PROVE  i \in DOMAIN Addrs /\ Asked(net', c, Addrs[i], serials'[c][i])
    <3>1. i \in DOMAIN Addrs /\ Asked(net, c, Addrs[i], serials[c][i])
      BY <1>1, <2>1, <2>4 DEF SerialsKept
    <3> QED  BY <1>9, <2>1, <3>1 DEF Asked
  <2>5. ASSUME NEW n \in net', n.kind = "shake" PROVE Asked(net', n.to, n.from, n.serial)
    <3>1. CASE n = answer
      BY <1>2, <1>6, <1>9, <3>1 DEF Asked
    <3>2. CASE n \in net
      BY <1>1, <1>9, <2>5, <3>2, AskedStays DEF SerialsKept
    <3> QED  BY <1>9, <3>1, <3>2
  <2> QED  BY <2>2, <2>3, <2>4, <2>5 DEF SerialsKept
<1>14. ConvsKept'
  <2>1. ASSUME NEW n \in net', n.kind = "shake" PROVE n.conv <= convId'[n.from]
    <3>1. CASE n = answer
      BY <1>5, <1>6, <3>1
    <3>2. CASE n \in net
      <4>1. n.conv <= convId[n.from] /\ n.from \in Servers /\ n.conv \in Nat
        BY <1>1, <2>1, <3>2 DEF ConvsKept, PacketTypes, Convs
      <4>2. convId[n.from] \in Nat /\ convId'[n.from] \in Nat /\ convId[n.from] <= convId'[n.from]
        BY <1>7, <4>1
      <4> QED  BY <4>1, <4>2
    <3> QED  BY <1>9, <3>1, <3>2
  <2>2. \A n, k \in net' : n.kind = "shake" /\ k.kind = "shake" /\ n.from = k.from
                           /\ n.conv = k.conv => n.to = k.to
    BY <1>1, <1>5, <1>6, <1>9 DEF ConvsKept
  <2>3. ASSUME NEW t \in Servers, NEW d \in Clients, shakes'[t][d].conv # 0
        PROVE  /\ shakes'[t][d].conv \in Convs
               /\ Given(net', t, d, shakes'[t][d].conv)
               /\ accepts'[t][shakes'[t][d].conv] = 0
    <3>1. CASE t = s /\ d = m.from
      BY <1>2, <1>5, <1>6, <1>8, <1>9, <3>1 DEF Given
    <3>2. CASE ~(t = s /\ d = m.from)
      <4>1. shakes'[t][d].conv = shakes[t][d].conv
        BY <1>8, <3>2
      <4>2. /\ shakes[t][d].conv \in Convs
            /\ Given(net, t, d, shakes[t][d].conv)
            /\ accepts[t][shakes[t][d].conv] = 0
        BY <1>1, <2>3, <4>1 DEF ConvsKept
      <4> QED  BY <1>2, <1>9, <4>1, <4>2 DEF Given
    <3> QED  BY <3>1, <3>2
  <2>4. ASSUME NEW t \in Servers, NEW v \in Convs, v > convId'[t] PROVE accepts'[t][v] = 0
    <3>1. convId[t] <= convId'[t] /\ convId[t] \in Nat /\ convId'[t] \in Nat
      BY <1>7
    <3>2. v > convId[t]
      BY <2>4, <3>1 DEF Convs
    <3> QED  BY <1>1, <1>2, <3>2 DEF ConvsKept
  <2> QED  BY <2>1, <2>2, <2>3, <2>4 DEF ConvsKept
<1>15. BeforeKept'
  <2>1. before' = before /\ serials' = serials /\ accepts' = accepts
    BY <1>2 DEF dialerVars
  <2>2. ASSUME NEW n \in net', n.kind = "shake", NEW i \in DOMAIN serials[n.to],
               serials[n.to][i] = n.serial
        PROVE  <<n.from, n.conv>> \notin before[n.to]
    <3>1. CASE n = answer
      <4>1. \A sv \in before[m.from] : accepts[sv[1]][sv[2]] > 0
        BY <1>1, <1>3 DEF BeforeKept
      <4> QED  BY <1>5, <1>6, <3>1, <4>1
    <3>2. CASE n \in net
      BY <1>1, <2>2, <3>2 DEF BeforeKept
    <3> QED  BY <1>9, <3>1, <3>2
  <2> QED  BY <1>1, <2>1, <2>2 DEF BeforeKept
<1>16. DialerKept'
  BY <1>1, <1>2, <1>9, DialerStays
<1>17. ListenerKept'
  BY <1>1, <1>2, <1>9, ListenerStays
<1> QED  BY <1>10, <1>11, <1>12, <1>13, <1>14, <1>15, <1>16, <1>17 DEF KsIInv

\* A listener takes in what came, and gives no conv: all that is not about
\* convs and accepted peers.
LEMMA ListenerStep ==
  ASSUME KsIInv, net \subseteq net', UNCHANGED <<dialerVars, convId>>,
         \A m \in net' : m.kind \in {"serial", "shake"} => m \in net,
         \A s \in Servers, v \in Convs : accepts'[s][v] \in {accepts[s][v], accepts[s][v] + 1}
  PROVE  /\ DialerTypes' /\ SerialsKept' /\ BeforeKept' /\ DialerKept'
         /\ ConnectOnce' /\ FreshConv' /\ TimersKept'
<1>1. /\ DialerTypes /\ ListenerTypes /\ PacketTypes /\ SerialsKept /\ BeforeKept
      /\ DialerKept /\ ConnectOnce /\ FreshConv /\ TimersKept
  BY DEF KsIInv
<1>2. DialerTypes' /\ ConnectOnce' /\ FreshConv' /\ TimersKept'
  BY <1>1 DEF DialerTypes, ConnectOnce, FreshConv, TimersKept, Busy, dialerVars
<1>3. SerialsKept'
  BY <1>1, SerialsStay DEF dialerVars
<1>4. BeforeKept'
  BY <1>1, BeforeStays DEF dialerVars
<1>5. DialerKept'
  BY <1>1, DialerStays
<1> QED  BY <1>2, <1>3, <1>4, <1>5

LEMMA OlderShake ==
  ASSUME NEW shake \in [conv : Nat, left : Nat]
  PROVE  /\ Older(shake) \in [conv : Nat, left : Nat]
         /\ Older(shake).conv \in {shake.conv, 0}
<1>1. CASE shake.left = 0
  BY <1>1 DEF Older, NoShake
<1>2. CASE shake.left # 0
  <2>1. Older(shake) = [shake EXCEPT !.left = shake.left - 1]
    BY <1>2 DEF Older
  <2> QED  BY <1>2, <2>1
<1> QED  BY <1>1, <1>2

LEMMA ListenerFrameKeeps ==
  ASSUME KsIInv, NEW s \in Servers, ListenerFrame(s)
  PROVE  KsIInv'
<1>1. /\ ListenerTypes /\ PacketTypes /\ ConvsKept /\ ListenerKept /\ AcceptedOnce
  BY DEF KsIInv
<1>2. /\ shakes' = [shakes EXCEPT ![s] = [c \in Clients |-> Older(@[c])]]
      /\ net' = net \cup Answers(s)
      /\ UNCHANGED <<dialerVars, convId, lpeers, lcps, accepts>>
  BY DEF ListenerFrame
<1>3. \A m \in Answers(s) : /\ m.kind = "answer" /\ m.from = s /\ m.to \in Clients
                            /\ m.conv \in Convs /\ Given(net, s, m.to, m.conv)
  <2> SUFFICES ASSUME NEW v \in lcps[s],
                      NEW m, m = [kind |-> "answer", from |-> s, to |-> lpeers[s][v].addr, conv |-> v]
               PROVE  /\ m.kind = "answer" /\ m.from = s /\ m.to \in Clients
                      /\ m.conv \in Convs /\ Given(net, s, m.to, m.conv)
    BY DEF Answers
  <2>1. v \in Convs
    BY <1>1 DEF ListenerTypes
  <2>2. lpeers[s][v].addr \in Clients /\ Given(net, s, lpeers[s][v].addr, v)
    BY <1>1, <2>1 DEF ListenerKept
  <2> QED  BY <2>1, <2>2
<1>4. net \subseteq net' /\ \A m \in net' : m.kind # "answer" => m \in net
  BY <1>2, <1>3
<1>5. /\ shakes' \in [Servers -> [Clients -> [conv : Nat, left : Nat]]]
      /\ \A t \in Servers, d \in Clients : shakes'[t][d].conv \in {shakes[t][d].conv, 0}
  <2>1. \A t \in Servers, d \in Clients : shakes'[t][d] =
          IF t = s THEN Older(shakes[t][d]) ELSE shakes[t][d]
    BY <1>1, <1>2 DEF ListenerTypes
  <2>2. \A t \in Servers, d \in Clients : shakes[t][d] \in [conv : Nat, left : Nat]
    BY <1>1 DEF ListenerTypes
  <2>3. \A t \in Servers, d \in Clients :
          /\ shakes'[t][d] \in [conv : Nat, left : Nat]
          /\ shakes'[t][d].conv \in {shakes[t][d].conv, 0}
    BY <2>1, <2>2, OlderShake
  <2>4. \A t \in Servers : shakes'[t] \in [Clients -> [conv : Nat, left : Nat]]
    BY <1>1, <1>2, <2>3 DEF ListenerTypes
  <2> QED  BY <1>1, <1>2, <2>3, <2>4 DEF ListenerTypes
<1>6. ListenerTypes' /\ AcceptedOnce'
  BY <1>1, <1>2, <1>5 DEF ListenerTypes, AcceptedOnce
<1>7. PacketTypes'
  BY <1>1, <1>2, <1>3 DEF PacketTypes
<1>8. ConvsKept'
  BY <1>1, <1>2, <1>4, <1>5, ConvsStay
<1>9. ListenerKept'
  <2>1. \A m \in net' : m.kind = "kcp" => Given(net', m.to, m.from, m.conv)
    BY <1>1, <1>4, GivenStays DEF ListenerKept
  <2>2. ASSUME NEW m \in net', m.kind = "answer" PROVE Given(net', m.from, m.to, m.conv)
    <3>1. Given(net, m.from, m.to, m.conv)
      BY <1>1, <1>2, <1>3, <2>2 DEF ListenerKept
    <3> QED  BY <1>4, <3>1, GivenStays
  <2>3. ASSUME NEW t \in Servers, NEW v \in Convs, lpeers[t][v].open
        PROVE  Given(net', t, lpeers[t][v].client, v)
    <3>1. Given(net, t, lpeers[t][v].client, v)
      BY <1>1, <2>3 DEF ListenerKept
    <3> QED  BY <1>4, <3>1, GivenStays
  <2> QED  BY <1>1, <1>2, <2>1, <2>2, <2>3 DEF ListenerKept
<1> QED  BY <1>2, <1>4, <1>6, <1>7, <1>8, <1>9, ListenerStep DEF KsIInv

LEMMA ReceiveKcpKeeps ==
  ASSUME KsIInv, NEW s \in Servers, NEW m \in net, ReceiveKcp(s, m)
  PROVE  KsIInv'
<1> DEFINE new == Input(lpeers[s][m.conv], m, FALSE)
<1>1. /\ ListenerTypes /\ PacketTypes /\ ConvsKept /\ ListenerKept /\ AcceptedOnce
  BY DEF KsIInv
<1>2. /\ m.kind = "kcp" /\ m.to = s /\ m.conv \in lcps[s]
      /\ lpeers' = [lpeers EXCEPT ![s][m.conv] = new]
      /\ UNCHANGED <<dialerVars, convId, shakes, lcps, accepts, net>>
  BY DEF ReceiveKcp
<1>3. m.conv \in Convs
  BY <1>1, <1>2 DEF PacketTypes
<1>4. /\ lpeers[s][m.conv].open /\ Given(net, s, lpeers[s][m.conv].client, m.conv)
      /\ lpeers[s][m.conv].client \in Clients
      /\ lpeers[s][m.conv].fed \subseteq {lpeers[s][m.conv].client}
  BY <1>1, <1>2, <1>3 DEF ListenerKept
<1>5. Given(net, s, m.from, m.conv)
  BY <1>1, <1>2 DEF ListenerKept
<1>6. m.from = lpeers[s][m.conv].client
  BY <1>1, <1>4, <1>5 DEF Given, ConvsKept
<1>7. /\ DOMAIN new = Fields
      /\ new.open = lpeers[s][m.conv].open /\ new.client = m.from
      /\ new.addr = m.from /\ new.fed \subseteq {m.from}
  <2>1. DOMAIN lpeers[s][m.conv] = Fields
    BY <1>1, <1>3 DEF ListenerTypes
  <2>2. /\ DOMAIN new = Fields
        /\ new.open = lpeers[s][m.conv].open /\ new.client = lpeers[s][m.conv].client
        /\ new.addr = m.from /\ new.fed = lpeers[s][m.conv].fed \cup {m.from}
    BY <2>1, InputOfPeer
  <2> QED  BY <1>4, <1>6, <2>2
<1> HIDE DEF new
<1>8. \A t \in Servers, v \in Convs :
        lpeers'[t][v] = IF t = s /\ v = m.conv THEN new ELSE lpeers[t][v]
  BY <1>1, <1>2 DEF ListenerTypes
<1>9. ListenerTypes'
  BY <1>1, <1>2, <1>7, <1>8 DEF ListenerTypes
<1>10. PacketTypes' /\ AcceptedOnce'
  BY <1>1, <1>2 DEF PacketTypes, AcceptedOnce
<1>11. ConvsKept'
  BY <1>1, <1>2, ConvsStay
<1>12. ListenerKept'
  <2>1. net' = net /\ lcps' = lcps
    BY <1>2
  <2>2. \A t \in Servers, v \in Convs : lpeers'[t][v].open = lpeers[t][v].open
    BY <1>7, <1>8
  <2>3. ASSUME NEW t \in Servers, NEW v \in Convs
        PROVE  /\ lpeers[t][v].open => /\ lpeers'[t][v].client \in Clients
                                       /\ lpeers'[t][v].addr = lpeers'[t][v].client
                                       /\ Given(net, t, lpeers'[t][v].client, v)
               /\ lpeers'[t][v].fed \subseteq {lpeers'[t][v].client}
               /\ ~lpeers[t][v].open => lpeers'[t][v].fed = {}
    <3>1. CASE t = s /\ v = m.conv
      BY <1>4, <1>5, <1>6, <1>7, <1>8, <3>1
    <3>2. CASE ~(t = s /\ v = m.conv)
      BY <1>1, <1>8, <3>2 DEF ListenerKept
    <3> QED  BY <3>1, <3>2
  <2> QED  BY <1>1, <2>1, <2>2, <2>3 DEF ListenerKept
<1>13. \A t \in Servers, v \in Convs : accepts'[t][v] \in {accepts[t][v], accepts[t][v] + 1}
  BY <1>2
<1> QED  BY <1>2, <1>9, <1>10, <1>11, <1>12, <1>13, ListenerStep DEF KsIInv

LEMMA AcceptKcpKeeps ==
  ASSUME KsIInv, NEW s \in Servers, NEW m \in net, NEW held \in BOOLEAN, AcceptKcp(s, m, held)
  PROVE  KsIInv'
<1> DEFINE old == lpeers[s][m.conv]
           made == [old EXCEPT !.open = TRUE, !.client = m.from, !.first = m.sn]
           new == IF held THEN Input(made, m, TRUE) ELSE old
<1>1. /\ ListenerTypes /\ PacketTypes /\ ConvsKept /\ ListenerKept /\ AcceptedOnce
  BY DEF KsIInv
<1>2. /\ m.kind = "kcp" /\ m.to = s /\ m.conv \notin lcps[s]
      /\ shakes[s][m.from].conv = m.conv
      /\ shakes' = [shakes EXCEPT ![s][m.from] = NoShake]
      /\ lpeers' = [lpeers EXCEPT ![s][m.conv] = new]
      /\ lcps' = [lcps EXCEPT ![s] = IF held THEN @ \cup {m.conv} ELSE @]
      /\ accepts' = [accepts EXCEPT ![s][m.conv] = @ + 1]
      /\ UNCHANGED <<dialerVars, convId, net>>
  BY DEF AcceptKcp
<1>3. m.conv \in Convs /\ m.from \in Clients
  BY <1>1, <1>2 DEF PacketTypes
<1>4. Given(net, s, m.from, m.conv) /\ accepts[s][m.conv] = 0
  BY <1>1, <1>2, <1>3 DEF ConvsKept, Convs
<1>5. ~old.open /\ old.fed = {} /\ DOMAIN old = Fields
  BY <1>1, <1>2, <1>3 DEF ListenerKept, ListenerTypes
<1>6. /\ DOMAIN new = Fields /\ new.open = held
      /\ held => new.client = m.from /\ new.addr = m.from
      /\ new.fed \subseteq {new.client}
      /\ ~held => new.fed = {}
  <2>1. CASE held
    <3>1. DOMAIN made = Fields /\ made.open = TRUE /\ made.client = m.from /\ made.fed = {}
      BY <1>5 DEF Fields
    <3> HIDE DEF made, old
    <3>2. /\ DOMAIN Input(made, m, TRUE) = Fields
          /\ Input(made, m, TRUE).open = made.open /\ Input(made, m, TRUE).client = made.client
          /\ Input(made, m, TRUE).addr = m.from
          /\ Input(made, m, TRUE).fed = made.fed \cup {m.from}
      BY <3>1, InputOfPeer
    <3> QED  BY <2>1, <3>1, <3>2
  <2>2. CASE ~held
    <3>1. new = old /\ old.open \in BOOLEAN
      BY <1>1, <1>3, <2>2 DEF ListenerTypes
    <3> QED  BY <1>5, <2>2, <3>1
  <2> QED  BY <2>1, <2>2
<1> HIDE DEF new, made, old
<1>7. \A t \in Servers, v \in Convs :
        lpeers'[t][v] = IF t = s /\ v = m.conv THEN new ELSE lpeers[t][v]
  BY <1>1, <1>2 DEF ListenerTypes
<1>8. \A t \in Servers, v \in Convs :
        accepts'[t][v] = IF t = s /\ v = m.conv THEN 1 ELSE accepts[t][v]
  BY <1>1, <1>2, <1>4 DEF ListenerTypes
<1>9. /\ shakes' \in [Servers -> [Clients -> [conv : Nat, left : Nat]]]
      /\ \A t \in Servers, d \in Clients :
           shakes'[t][d].conv = IF t = s /\ d = m.from THEN 0 ELSE shakes[t][d].conv
  BY <1>1, <1>2, <1>3 DEF ListenerTypes, NoShake
<1>10. /\ lcps' \in [Servers -> SUBSET Convs]
       /\ \A t \in Servers, v \in Convs :
            v \in lcps'[t] <=> v \in lcps[t] \/ (held /\ t = s /\ v = m.conv)
  BY <1>1, <1>2, <1>3 DEF ListenerTypes
<1>11. ListenerTypes'
  <2>1. accepts' \in [Servers -> [Convs -> Nat]]
    <3>1. accepts \in [Servers -> [Convs -> Nat]] /\ accepts[s][m.conv] + 1 \in Nat
      BY <1>1, <1>4 DEF ListenerTypes
    <3> QED  BY <1>2, <3>1
  <2>2. DOMAIN lpeers' = Servers /\ \A t \in Servers : DOMAIN lpeers'[t] = Convs
    BY <1>1, <1>2 DEF ListenerTypes
  <2>3. \A t \in Servers, v \in Convs :
          DOMAIN lpeers'[t][v] = Fields /\ lpeers'[t][v].open \in BOOLEAN
    BY <1>1, <1>6, <1>7 DEF ListenerTypes
  <2> QED  BY <1>1, <1>2, <1>9, <1>10, <2>1, <2>2, <2>3 DEF ListenerTypes
<1>12. PacketTypes'
  BY <1>1, <1>2 DEF PacketTypes
<1>13. AcceptedOnce'
  BY <1>1, <1>8 DEF AcceptedOnce
<1>14. ConvsKept'
  <2>1. ASSUME NEW t \in Servers, NEW d \in Clients, shakes'[t][d].conv # 0
        PROVE  /\ shakes'[t][d].conv \in Convs
               /\ Given(net, t, d, shakes'[t][d].conv)
               /\ accepts'[t][shakes'[t][d].conv] = 0
    <3>1. shakes'[t][d].conv = shakes[t][d].conv /\ ~(t = s /\ d = m.from)
      BY <1>9, <2>1
    <3>2. /\ shakes[t][d].conv \in Convs
          /\ Given(net, t, d, shakes[t][d].conv)
          /\ accepts[t][shakes[t][d].conv] = 0
      BY <1>1, <2>1, <3>1 DEF ConvsKept
    <3>3. ~(t = s /\ shakes[t][d].conv = m.conv)
      BY <1>1, <1>4, <3>1, <3>2 DEF ConvsKept, Given
    <3> QED  BY <1>8, <3>1, <3>2, <3>3
  <2>2. ASSUME NEW t \in Servers, NEW v \in Convs, v > convId[t] PROVE accepts'[t][v] = 0
    <3>1. ~(t = s /\ v = m.conv)
      <4>1. PICK g \in net : g.kind = "shake" /\ g.from = s /\ g.conv = m.conv
        BY <1>4 DEF Given
      <4>2. m.conv <= convId[s] /\ convId[s] \in Nat
        BY <1>1, <4>1 DEF ConvsKept, ListenerTypes
      <4> QED  BY <2>2, <4>2 DEF Convs
    <3> QED  BY <1>1, <1>8, <2>2, <3>1 DEF ConvsKept
  <2>3. net' = net /\ convId' = convId
    BY <1>2
  <2> QED  BY <1>1, <2>1, <2>2, <2>3 DEF ConvsKept
<1>15. ListenerKept'
  <2>1. net' = net
    BY <1>2
  <2>2. \A t \in Servers, v \in Convs : v \in lcps'[t] <=> lpeers'[t][v].open
    BY <1>1, <1>2, <1>6, <1>7, <1>10 DEF ListenerKept
  <2>3. ASSUME NEW t \in Servers, NEW v \in Convs
        PROVE  /\ lpeers'[t][v].open => /\ lpeers'[t][v].client \in Clients
                                        /\ lpeers'[t][v].addr = lpeers'[t][v].client
                                        /\ Given(net, t, lpeers'[t][v].client, v)
               /\ lpeers'[t][v].fed \subseteq {lpeers'[t][v].client}
               /\ ~lpeers'[t][v].open => lpeers'[t][v].fed = {}
    <3>1. CASE t = s /\ v = m.conv
      BY <1>3, <1>4, <1>6, <1>7, <3>1
    <3>2. CASE ~(t = s /\ v = m.conv)
      BY <1>1, <1>7, <3>2 DEF ListenerKept
    <3> QED  BY <3>1, <3>2
  <2> QED  BY <1>1, <2>1, <2>2, <2>3 DEF ListenerKept
<1>16. \A t \in Servers, v \in Convs : accepts'[t][v] \in {accepts[t][v], accepts[t][v] + 1}
  BY <1>4, <1>8
<1> QED  BY <1>2, <1>11, <1>12, <1>13, <1>14, <1>15, <1>16, ListenerStep DEF KsIInv

LEMMA CloseAcceptedKeeps ==
  ASSUME KsIInv, NEW s \in Servers, NEW v \in Convs, CloseAccepted(s, v)
  PROVE  KsIInv'
<1>1. /\ ListenerTypes /\ PacketTypes /\ ConvsKept /\ ListenerKept /\ AcceptedOnce
  BY DEF KsIInv
<1>2. /\ lpeers' = [lpeers EXCEPT ![s][v] = Unaccepted]
      /\ lcps' = [lcps EXCEPT ![s] = @ \ {v}]
      /\ UNCHANGED <<dialerVars, convId, shakes, accepts, net>>
  BY DEF CloseAccepted
<1>3. DOMAIN Unaccepted = Fields /\ Unaccepted.open = FALSE /\ Unaccepted.fed = {}
  BY DEF Unaccepted, Fields
<1>4. \A t \in Servers, w \in Convs :
        lpeers'[t][w] = IF t = s /\ w = v THEN Unaccepted ELSE lpeers[t][w]
  BY <1>1, <1>2 DEF ListenerTypes
<1>5. /\ lcps' \in [Servers -> SUBSET Convs]
      /\ \A t \in Servers, w \in Convs : w \in lcps'[t] <=> w \in lcps[t] /\ ~(t = s /\ w = v)
  BY <1>1, <1>2 DEF ListenerTypes
<1>6. ListenerTypes'
  <2>1. DOMAIN lpeers' = Servers /\ \A t \in Servers : DOMAIN lpeers'[t] = Convs
    BY <1>1, <1>2 DEF ListenerTypes
  <2>2. \A t \in Servers, w \in Convs :
          DOMAIN lpeers'[t][w] = Fields /\ lpeers'[t][w].open \in BOOLEAN
    <3>1. Unaccepted.open \in BOOLEAN
      BY <1>3
    <3> QED  BY <1>1, <1>3, <1>4, <3>1 DEF ListenerTypes
  <2> QED  BY <1>1, <1>2, <1>5, <2>1, <2>2 DEF ListenerTypes
<1>7. PacketTypes' /\ AcceptedOnce'
  BY <1>1, <1>2 DEF PacketTypes, AcceptedOnce
<1>8. ConvsKept'
  BY <1>1, <1>2, ConvsStay
<1>9. ListenerKept'
  <2>1. net' = net
    BY <1>2
  <2>2. \A t \in Servers, w \in Convs : w \in lcps'[t] <=> lpeers'[t][w].open
    BY <1>1, <1>3, <1>4, <1>5 DEF ListenerKept
  <2>3. ASSUME NEW t \in Servers, NEW w \in Convs
        PROVE  /\ lpeers'[t][w].open => /\ lpeers'[t][w].client \in Clients
                                        /\ lpeers'[t][w].addr = lpeers'[t][w].client
                                        /\ Given(net, t, lpeers'[t][w].client, w)
               /\ lpeers'[t][w].fed \subseteq {lpeers'[t][w].client}
               /\ ~lpeers'[t][w].open => lpeers'[t][w].fed = {}
    BY <1>1, <1>3, <1>4 DEF ListenerKept
  <2> QED  BY <1>1, <2>1, <2>2, <2>3 DEF ListenerKept
<1>10. \A t \in Servers, w \in Convs : accepts'[t][w] \in {accepts[t][w], accepts[t][w] + 1}
  BY <1>2
<1> QED  BY <1>2, <1>6, <1>7, <1>8, <1>9, <1>10, ListenerStep DEF KsIInv

----------------------------------------------------------------------------
(* The invariant *)

LEMMA InitHolds == KsInit => KsIInv
<1> SUFFICES ASSUME KsInit PROVE KsIInv
  OBVIOUS
<1> USE DEF KsInit
<1>1. Unmade \in DialerPeer /\ Unmade.queued = <<>> /\ ~Unmade.open /\ Unmade.fed = {}
      /\ Unmade.fresh
  <2>1. <<>> \in Seq(Bytes) /\ <<>> \in Seq(Seq(Bytes))
    OBVIOUS
  <2> QED  BY <2>1, BoundsAssumption DEF DialerPeer, Unmade, Made
<1>2. DOMAIN Unaccepted = Fields /\ Unaccepted.open = FALSE /\ Unaccepted.fed = {}
  BY DEF Unaccepted, Fields
<1>3. DialerTypes
  <2>1. <<>> \in Seq(Nat)
    OBVIOUS
  <2> QED  BY <1>1, <2>1, BoundsAssumption DEF DialerTypes
<1>4. ListenerTypes
  BY <1>2 DEF ListenerTypes, NoShake
<1>5. PacketTypes /\ SerialsKept /\ ConvsKept /\ BeforeKept
  BY DEF PacketTypes, SerialsKept, ConvsKept, BeforeKept, NoShake
<1>6. DialerKept /\ ListenerKept
  BY <1>1, <1>2 DEF DialerKept, ListenerKept
<1>7. AcceptedOnce /\ ConnectOnce /\ FreshConv /\ TimersKept
  BY <1>1 DEF AcceptedOnce, ConnectOnce, FreshConv, TimersKept, Busy
<1> QED  BY <1>3, <1>4, <1>5, <1>6, <1>7 DEF KsIInv

LEMMA StepHolds == KsIInv /\ [KsNext]_shakeVars => KsIInv'
<1> SUFFICES ASSUME KsIInv, [KsNext]_shakeVars PROVE KsIInv'
  OBVIOUS
<1>1. CASE UNCHANGED shakeVars
  <2>1. /\ serials' = serials /\ serialAutoInc' = serialAutoInc /\ armed' = armed
        /\ peers' = peers /\ dcps' = dcps
        /\ dials' = dials /\ connects' = connects /\ before' = before /\ convId' = convId
        /\ shakes' = shakes /\ lpeers' = lpeers /\ lcps' = lcps /\ accepts' = accepts /\ net' = net
    BY <1>1 DEF shakeVars, dialerVars, listenerVars
  <2> QED  BY <2>1 DEF KsIInv, DialerTypes, ListenerTypes, PacketTypes, SerialsKept, ConvsKept,
                       BeforeKept, TimersKept, DialerKept, ListenerKept, AcceptedOnce, ConnectOnce,
                       FreshConv, Busy
<1>2. ASSUME NEW c \in Clients, NEW timeout \in Timeouts, Dial(c, timeout) PROVE KsIInv'
  BY <1>2, DialKeeps
<1>3. ASSUME NEW c \in Clients, DialTimeout(c) PROVE KsIInv'
  BY <1>3, DialTimeoutKeeps
<1>4. ASSUME NEW c \in Clients, DialerFrame(c) PROVE KsIInv'
  BY <1>4, DialerFrameKeeps
<1>5. ASSUME NEW c \in Clients, NEW m \in net, ReceiveAnswer(c, m) PROVE KsIInv'
  BY <1>5, ReceiveAnswerKeeps
<1>6. ASSUME NEW c \in Clients, NEW m \in net, NEW held \in BOOLEAN, ReceiveShake(c, m, held)
      PROVE  KsIInv'
  BY <1>6, ReceiveShakeKeeps
<1>7. ASSUME NEW p \in PeerIds, UserSends(p) PROVE KsIInv'
  BY <1>7, UserSendsKeeps
<1>14. ASSUME NEW p \in PeerIds, Flush(p) PROVE KsIInv'
  BY <1>14, FlushKeeps
<1>8. ASSUME NEW p \in PeerIds, ClosePeer(p) PROVE KsIInv'
  BY <1>8, ClosePeerKeeps
<1>9. ASSUME NEW s \in Servers, ListenerFrame(s) PROVE KsIInv'
  BY <1>9, ListenerFrameKeeps
<1>10. ASSUME NEW s \in Servers, NEW m \in net, ReceiveSerial(s, m) PROVE KsIInv'
  BY <1>10, ReceiveSerialKeeps
<1>11. ASSUME NEW s \in Servers, NEW m \in net, ReceiveKcp(s, m) PROVE KsIInv'
  BY <1>11, ReceiveKcpKeeps
<1>12. ASSUME NEW s \in Servers, NEW m \in net, NEW held \in BOOLEAN, AcceptKcp(s, m, held)
       PROVE  KsIInv'
  BY <1>12, AcceptKcpKeeps
<1>13. ASSUME NEW s \in Servers, NEW v \in Convs, CloseAccepted(s, v) PROVE KsIInv'
  BY <1>13, CloseAcceptedKeeps
<1> QED  BY <1>1, <1>2, <1>3, <1>4, <1>5, <1>6, <1>7, <1>8, <1>9, <1>10, <1>11, <1>12, <1>13,
            <1>14
         DEF KsNext

\* The invariant holds, whatever is lost, repeated or late: each piece of state
\* comes from a packet that was sent.
THEOREM ShakeKept == KsSpec => []KsIInv
BY InitHolds, StepHolds, PTL DEF KsSpec

----------------------------------------------------------------------------
(* What follows from it *)

\* A listener makes at most one peer of a conv: Receive gives the handshake up
\* when it makes the peer, and no conv is given again.
THEOREM ConvAcceptedOnce == KsSpec => []AcceptedOnce
<1>1. KsIInv => AcceptedOnce
  BY DEF KsIInv
<1> QED  BY <1>1, ShakeKept, PTL

\* Packets are assigned by their conv alone, and yet what a listener's peer is
\* fed comes from one dialer, and what a dialer's peer is fed comes from
\* listeners that gave it the conv.
THEOREM OneConversationEach == KsSpec => []OneConversation
<1>1. KsIInv => OneConversation
  BY DEF KsIInv, DialerKept, ListenerKept, OneConversation, Given
<1> QED  BY <1>1, ShakeKept, PTL

\* Every peer in a cps is open and has the conv of its key: also when a new
\* peer took the key of another, Timeout and Receive find no closed one.
THEOREM CpsLeadsToOpenPeers == KsSpec => []CpsWhole
<1>1. KsIInv => CpsWhole
  BY DEF KsIInv, DialerKept, ListenerKept, CpsWhole
<1> QED  BY <1>1, ShakeKept, PTL

\* Each dial that is over called Connect once: the answer, a second answer and
\* the timeout do not both end it.
THEOREM OneConnectPerDial == KsSpec => []ConnectOnce
<1>1. KsIInv => ConnectOnce
  BY DEF KsIInv
<1> QED  BY <1>1, ShakeKept, PTL

\* Serials are not used twice, so no answer to an earlier dial gives a dialer a
\* conv that was accepted before it dialed.
THEOREM ConvIsFresh == KsSpec => []FreshConv
<1>1. KsIInv => FreshConv
  BY DEF KsIInv
<1> QED  BY <1>1, ShakeKept, PTL

----------------------------------------------------------------------------
(* What is in the segments, and the types that rest on it *)

AcceptOnly == <<"accept">>
AcceptAndData == <<"accept", "data">>
DataOnly == <<"data">>

\* What a dialer's peer has queued: the accept package is in its first segment,
\* alone or with a package of the user, which otherwise is the second.
Stage(q) ==
  /\ \A i \in DOMAIN q.flushed : q.flushed[i] \in Segments
  /\ q.queued # <<>> => \/ Len(q.flushed) = 0 /\ q.queued \in {AcceptOnly, AcceptAndData}
                        \/ Len(q.flushed) = 1 /\ q.queued = DataOnly
  /\ q.open /\ ~q.wrote => \/ q.queued = AcceptOnly /\ Len(q.flushed) = 0
                           \/ q.queued = <<>> /\ Len(q.flushed) = 1

\* What a segment of a number has.
SegmentOf(m) == \/ m.sn = 0 /\ m.segment \in {AcceptOnly, AcceptAndData}
                \/ m.sn = 1 /\ m.segment = DataOnly

\* A dial takes as many serials as there are addresses.
DialsKept == \A c \in Clients :
  /\ Len(serials[c]) \in {0, Len(Addrs)}
  /\ \A i \in DOMAIN serials[c] : serials[c][i] \in Serials
  /\ serialAutoInc[c] = dials[c] * Len(Addrs)

StagesKept == \A p \in PeerIds : Stage(peers[p])

ShakesKept == \A s \in Servers :
  /\ convId[s] <= MaxConv
  /\ \A c \in Clients : shakes[s][c].left <= ShakeLife

\* A peer accepted at segment 0 got it, and waits for no segment that it
\* skipped: what it hands on from then on is data.
HandedKept == \A s \in Servers, v \in Convs :
  /\ ~lpeers[s][v].open => lpeers[s][v] = Unaccepted
  /\ lpeers[s][v].open /\ lpeers[s][v].first = 0 =>
       /\ lpeers[s][v].next \in {1, 2}
       /\ DOMAIN lpeers[s][v].arrived = {}
       /\ lpeers[s][v].handed \in Seq({"data"})

PacketsKept == \A m \in net : m \in Packets /\ (m.kind = "kcp" => SegmentOf(m))

KsSegInv == DialsKept /\ StagesKept /\ ShakesKept /\ HandedKept /\ PacketsKept

\* Which steps change what.
LEMMA Changes ==
  ASSUME [KsNext]_shakeVars
  PROVE  /\ \/ UNCHANGED <<serials, serialAutoInc, dials>>
            \/ \E c \in Clients, timeout \in Timeouts : Dial(c, timeout)
            \/ \E c \in Clients : DialTimeout(c)
            \/ \E c \in Clients, m \in net, held \in BOOLEAN : ReceiveShake(c, m, held)
         /\ \/ UNCHANGED peers
            \/ \E c \in Clients : DialerFrame(c) \/ \E m \in net : ReceiveAnswer(c, m)
            \/ \E c \in Clients, m \in net, held \in BOOLEAN : ReceiveShake(c, m, held)
            \/ \E p \in PeerIds : UserSends(p) \/ Flush(p) \/ ClosePeer(p)
         /\ \/ UNCHANGED <<convId, shakes>>
            \/ \E s \in Servers : ListenerFrame(s)
            \/ \E s \in Servers, m \in net : ReceiveSerial(s, m)
            \/ \E s \in Servers, m \in net, held \in BOOLEAN : AcceptKcp(s, m, held)
         /\ \/ UNCHANGED lpeers
            \/ \E s \in Servers, m \in net : ReceiveKcp(s, m)
            \/ \E s \in Servers, m \in net, held \in BOOLEAN : AcceptKcp(s, m, held)
            \/ \E s \in Servers, v \in Convs : CloseAccepted(s, v)
         /\ \/ UNCHANGED net
            \/ \E c \in Clients, timeout \in Timeouts : Dial(c, timeout)
            \/ \E c \in Clients : DialerFrame(c)
            \/ \E p \in PeerIds : Flush(p)
            \/ \E s \in Servers : ListenerFrame(s)
            \/ \E s \in Servers, m \in net : ReceiveSerial(s, m)
<1>1. CASE UNCHANGED shakeVars
  BY <1>1 DEF shakeVars, dialerVars, listenerVars
<1>2. ASSUME NEW c \in Clients, NEW timeout \in Timeouts, Dial(c, timeout)
      PROVE  UNCHANGED <<peers, convId, shakes, lpeers>>
  BY <1>2 DEF Dial, listenerVars
<1>3. ASSUME NEW c \in Clients, DialTimeout(c)
      PROVE  UNCHANGED <<peers, convId, shakes, lpeers, net>>
  BY <1>3 DEF DialTimeout, Stop, listenerVars
<1>4. ASSUME NEW c \in Clients, DialerFrame(c)
      PROVE  UNCHANGED <<serials, serialAutoInc, dials, convId, shakes, lpeers>>
  BY <1>4 DEF DialerFrame, PutOut, listenerVars
<1>13. ASSUME NEW p \in PeerIds, Flush(p)
      PROVE  UNCHANGED <<serials, serialAutoInc, dials, convId, shakes, lpeers>>
  BY <1>13 DEF Flush, PutOut, listenerVars
<1>5. ASSUME NEW c \in Clients, NEW m \in net, ReceiveAnswer(c, m)
      PROVE  UNCHANGED <<serials, serialAutoInc, dials, convId, shakes, lpeers, net>>
  BY <1>5 DEF ReceiveAnswer, listenerVars
<1>6. ASSUME NEW c \in Clients, NEW m \in net, NEW held \in BOOLEAN, ReceiveShake(c, m, held)
      PROVE  UNCHANGED <<convId, shakes, lpeers, net>>
  BY <1>6 DEF ReceiveShake, Stop, listenerVars
<1>7. ASSUME NEW p \in PeerIds, UserSends(p) \/ ClosePeer(p)
      PROVE  UNCHANGED <<serials, serialAutoInc, dials, convId, shakes, lpeers, net>>
  BY <1>7 DEF UserSends, ClosePeer, listenerVars
<1>8. ASSUME NEW s \in Servers, ListenerFrame(s)
      PROVE  UNCHANGED <<serials, serialAutoInc, dials, peers, lpeers>>
  BY <1>8 DEF ListenerFrame, dialerVars
<1>9. ASSUME NEW s \in Servers, NEW m \in net, ReceiveSerial(s, m)
      PROVE  UNCHANGED <<serials, serialAutoInc, dials, peers, lpeers>>
  BY <1>9 DEF ReceiveSerial, dialerVars
<1>10. ASSUME NEW s \in Servers, NEW m \in net, ReceiveKcp(s, m)
       PROVE  UNCHANGED <<serials, serialAutoInc, dials, peers, convId, shakes, net>>
  BY <1>10 DEF ReceiveKcp, dialerVars
<1>11. ASSUME NEW s \in Servers, NEW m \in net, NEW held \in BOOLEAN, AcceptKcp(s, m, held)
       PROVE  UNCHANGED <<serials, serialAutoInc, dials, peers, net>>
  BY <1>11 DEF AcceptKcp, dialerVars
<1>12. ASSUME NEW s \in Servers, NEW v \in Convs, CloseAccepted(s, v)
       PROVE  UNCHANGED <<serials, serialAutoInc, dials, peers, convId, shakes, net>>
  BY <1>12 DEF CloseAccepted, dialerVars
<1> QED  BY <1>1, <1>2, <1>3, <1>4, <1>5, <1>6, <1>7, <1>8, <1>9, <1>10, <1>11, <1>12,
            <1>13
         DEF KsNext

LEMMA TimesGrows ==
  ASSUME NEW a \in Nat, NEW b \in Nat, NEW l \in Nat, a < b
  PROVE  /\ (a + 1) * l = a * l + l /\ a * l + l <= b * l
         /\ a * l \in Nat /\ b * l \in Nat
OBVIOUS

LEMMA DialsStep ==
  ASSUME KsIInv, DialsKept, [KsNext]_shakeVars
  PROVE  DialsKept'
<1>1. DialerTypes
  BY DEF KsIInv
<1>2. /\ Len(Addrs) \in Nat /\ DOMAIN Addrs = 1 .. Len(Addrs) /\ MaxDials \in Nat
      /\ Len(<<>>) = 0 /\ DOMAIN <<>> = {}
  BY AddrsAssumption, BoundsAssumption
<1>3. CASE UNCHANGED <<serials, serialAutoInc, dials>>
  BY <1>3 DEF DialsKept
<1>4. ASSUME NEW c \in Clients, NEW timeout \in Timeouts, Dial(c, timeout) PROVE DialsKept'
  <2> DEFINE ss == [i \in DOMAIN Addrs |-> serialAutoInc[c] + i]
  <2>1. /\ dials[c] < MaxDials
        /\ serials' = [serials EXCEPT ![c] = ss]
        /\ serialAutoInc' = [serialAutoInc EXCEPT ![c] = @ + Len(Addrs)]
        /\ dials' = [dials EXCEPT ![c] = @ + 1]
    BY <1>4 DEF Dial
  <2>2. dials[c] \in Nat /\ serialAutoInc[c] = dials[c] * Len(Addrs)
    BY <1>1 DEF DialerTypes, DialsKept
  <2>3. /\ (dials[c] + 1) * Len(Addrs) = serialAutoInc[c] + Len(Addrs)
        /\ serialAutoInc[c] + Len(Addrs) <= MaxDials * Len(Addrs)
        /\ serialAutoInc[c] \in Nat /\ MaxDials * Len(Addrs) \in Nat
    BY <1>2, <2>1, <2>2, TimesGrows
  <2>4. \A i \in DOMAIN ss : ss[i] \in Serials
    BY <1>2, <2>3 DEF Serials
  <2>5. Len(ss) = Len(Addrs)
    BY <1>2
  <2> HIDE DEF ss
  <2>6. \A d \in Clients :
          /\ serials'[d] = IF d = c THEN ss ELSE serials[d]
          /\ serialAutoInc'[d] = IF d = c THEN serialAutoInc[c] + Len(Addrs) ELSE serialAutoInc[d]
          /\ dials'[d] = IF d = c THEN dials[c] + 1 ELSE dials[d]
    BY <1>1, <2>1 DEF DialerTypes
  <2> QED  BY <2>3, <2>4, <2>5, <2>6 DEF DialsKept
<1>5. ASSUME NEW c \in Clients, serials' = [serials EXCEPT ![c] = <<>>],
             UNCHANGED <<serialAutoInc, dials>>
      PROVE  DialsKept'
  <2>1. \A d \in Clients : serials'[d] = IF d = c THEN <<>> ELSE serials[d]
    BY <1>1, <1>5 DEF DialerTypes
  <2> QED  BY <1>2, <1>5, <2>1 DEF DialsKept
<1>6. ASSUME NEW c \in Clients, DialTimeout(c) PROVE DialsKept'
  BY <1>5, <1>6 DEF DialTimeout, Stop
<1>7. ASSUME NEW c \in Clients, NEW m \in net, NEW held \in BOOLEAN, ReceiveShake(c, m, held)
      PROVE  DialsKept'
  BY <1>5, <1>7 DEF ReceiveShake, Stop
<1> QED  BY <1>3, <1>4, <1>6, <1>7, Changes

LEMMA AppendToOne ==
  ASSUME NEW S, NEW s \in Seq(S), Len(s) = 1, NEW b \in S
  PROVE  Append(s, b) = <<s[1], b>>
<1> DEFINE t == Append(s, b)
           u == <<s[1], b>>
<1>1. t \in Seq(S) /\ Len(t) = 2
  <2>1. t \in Seq(S)
    OBVIOUS
  <2>2. Len(t) = 2
    OBVIOUS
  <2> QED  BY <2>1, <2>2
<1>2. t[1] = s[1] /\ t[2] = b
  <2>1. 1 \in 1 .. Len(s) /\ Len(s) + 1 = 2
    OBVIOUS
  <2>2. \A i \in 1 .. Len(s) : t[i] = s[i]
    BY AppendProperties
  <2>3. t[Len(s) + 1] = b
    BY AppendProperties
  <2> HIDE DEF t
  <2> QED  BY <2>1, <2>2, <2>3
<1>3. u \in Seq(S) /\ Len(u) = 2 /\ u[1] = s[1] /\ u[2] = b
  <2>1. s[1] \in S
    BY ElementOfSeq
  <2>2. u \in Seq(S)
    BY <2>1
  <2>3. Len(u) = 2
    OBVIOUS
  <2> QED  BY <2>2, <2>3
<1> HIDE DEF t, u
<1>4. \A i \in 1 .. Len(t) : t[i] = u[i]
  <2>1. \A i \in 1 .. 2 : i = 1 \/ i = 2
    OBVIOUS
  <2> QED  BY <1>1, <1>2, <1>3, <2>1
<1>5. t = u
  BY <1>1, <1>3, <1>4, SeqEqual
<1> QED  BY <1>5 DEF t, u

LEMMA SegmentFacts ==
  /\ AcceptOnly \in Segments /\ AcceptAndData \in Segments /\ DataOnly \in Segments
  /\ <<>> \in Segments
  /\ AcceptOnly # <<>> /\ AcceptAndData # <<>> /\ DataOnly # <<>>
  /\ Append(AcceptOnly, "data") = AcceptAndData /\ Append(<<>>, "data") = DataOnly
<1> USE DEF AcceptOnly, AcceptAndData, DataOnly
<1>1. AcceptOnly \in [1 .. 1 -> Bytes] /\ DataOnly \in [1 .. 1 -> Bytes]
  BY DEF Bytes
<1>2. AcceptAndData \in [1 .. 2 -> Bytes]
  BY DEF Bytes
<1>3. <<>> \in [1 .. 0 -> Bytes]
  OBVIOUS
<1>4. /\ [1 .. 0 -> Bytes] \subseteq Segments
      /\ [1 .. 1 -> Bytes] \subseteq Segments
      /\ [1 .. 2 -> Bytes] \subseteq Segments
  <2>1. \A n \in 0 .. 2 : [1 .. n -> Bytes] \subseteq Segments
    BY DEF Segments, BoundedSeq, SeqOf
  <2>2. 0 \in 0 .. 2 /\ 1 \in 0 .. 2 /\ 2 \in 0 .. 2
    OBVIOUS
  <2> HIDE DEF AcceptOnly, AcceptAndData, DataOnly
  <2> QED  BY <2>1, <2>2
<1>5. /\ AcceptOnly \in Segments /\ AcceptAndData \in Segments /\ DataOnly \in Segments
      /\ <<>> \in Segments
  <2> HIDE DEF AcceptOnly, AcceptAndData, DataOnly
  <2> QED  BY <1>1, <1>2, <1>3, <1>4
<1>6. AcceptOnly # <<>> /\ AcceptAndData # <<>> /\ DataOnly # <<>>
  OBVIOUS
<1>7. Append(AcceptOnly, "data") = AcceptAndData
  <2>1. AcceptOnly \in Seq({"accept", "data"})
    OBVIOUS
  <2>2. Len(AcceptOnly) = 1
    OBVIOUS
  <2>3. AcceptOnly[1] = "accept"
    OBVIOUS
  <2> HIDE DEF AcceptOnly
  <2>4. Append(AcceptOnly, "data") = <<AcceptOnly[1], "data">>
    BY <2>1, <2>2, AppendToOne
  <2> QED  BY <2>3, <2>4
<1>8. Append(<<>>, "data") = DataOnly
  OBVIOUS
<1> QED  BY <1>5, <1>6, <1>7, <1>8

LEMMA StagesStep ==
  ASSUME KsIInv, StagesKept, [KsNext]_shakeVars
  PROVE  StagesKept'
<1>1. /\ peers \in [PeerIds -> DialerPeer] /\ DOMAIN peers = PeerIds
      /\ \A p \in PeerIds : peers[p] \in DialerPeer
  BY DEF KsIInv, DialerTypes
<1>2. CASE UNCHANGED peers
  BY <1>2 DEF StagesKept
<1>3. ASSUME NEW c, NEW due, PutOut(c, due), \A p \in due : peers[p].queued # <<>>
      PROVE  StagesKept'
  <2>1. peers' = [p \in PeerIds |->
          IF p \in due THEN [peers[p] EXCEPT !.queued = <<>>, !.flushed = Append(@, peers[p].queued)]
          ELSE peers[p]]
    BY <1>3 DEF PutOut
  <2>2. \A p \in due : peers[p].queued # <<>>
    BY <1>3
  <2> SUFFICES ASSUME NEW p \in PeerIds PROVE Stage(peers[p])'
    BY DEF StagesKept
  <2>3. CASE p \notin due
    BY <2>1, <2>3 DEF StagesKept, Stage
  <2>4. CASE p \in due
    <3> DEFINE q == peers[p]
               r == peers'[p]
    <3>1. Stage(q) /\ q.queued # <<>> /\ q \in DialerPeer
      BY <1>1, <2>2, <2>4 DEF StagesKept
    <3>2. /\ r.queued = <<>> /\ r.flushed = Append(q.flushed, q.queued)
          /\ r.open = q.open /\ r.wrote = q.wrote
      BY <1>1, <2>1, <2>4 DEF DialerPeer
    <3>3. q.flushed \in Seq(Seq(Bytes)) /\ q.queued \in Seq(Bytes)
      BY <3>1 DEF DialerPeer
    <3> HIDE DEF q, r
    <3>4. /\ Len(r.flushed) = Len(q.flushed) + 1
          /\ \A i \in 1 .. Len(q.flushed) : r.flushed[i] = q.flushed[i]
          /\ r.flushed[Len(q.flushed) + 1] = q.queued
          /\ DOMAIN r.flushed = 1 .. Len(q.flushed) + 1 /\ DOMAIN q.flushed = 1 .. Len(q.flushed)
          /\ Len(q.flushed) \in Nat
      BY <3>2, <3>3
    <3>5. q.queued \in Segments
      BY <3>1, SegmentFacts DEF Stage
    <3>6. \A i \in DOMAIN r.flushed : r.flushed[i] \in Segments
      <4> SUFFICES ASSUME NEW i \in DOMAIN r.flushed PROVE r.flushed[i] \in Segments
        OBVIOUS
      <4>1. CASE i \in 1 .. Len(q.flushed)
        BY <3>1, <3>4, <4>1 DEF Stage
      <4>2. CASE i = Len(q.flushed) + 1
        BY <3>4, <3>5, <4>2
      <4> QED  BY <3>4, <4>1, <4>2
    <3>7. r.open /\ ~r.wrote => Len(r.flushed) = 1
      <4> SUFFICES ASSUME q.open, ~q.wrote PROVE Len(q.flushed) = 0
        BY <3>2, <3>4
      <4> QED  BY <3>1 DEF Stage
    <3> QED  BY <3>2, <3>6, <3>7 DEF Stage, q, r
  <2> QED  BY <2>3, <2>4
<1>4. ASSUME NEW c \in Clients, NEW m \in net, ReceiveAnswer(c, m) PROVE StagesKept'
  <2>1. peers' = [peers EXCEPT ![dcps[c][m.conv]].fed = @ \cup {m.from}]
    BY <1>4 DEF ReceiveAnswer
  <2>2. \A p \in PeerIds : /\ peers'[p].queued = peers[p].queued
                           /\ peers'[p].flushed = peers[p].flushed
                           /\ peers'[p].open = peers[p].open
                           /\ peers'[p].wrote = peers[p].wrote
    BY <1>1, <2>1 DEF DialerPeer
  <2> QED  BY <2>2 DEF StagesKept, Stage
<1>5. ASSUME NEW isOpen, NEW server, NEW conv, NEW isFresh,
             NEW queued, queued = IF isOpen THEN AcceptOnly ELSE <<>>
      PROVE  Stage(Made(isOpen, server, conv, queued, isFresh))
  <2>1. DOMAIN <<>> = {} /\ Len(<<>>) = 0
    OBVIOUS
  <2> QED  BY <1>5, <2>1 DEF Stage, Made
<1>6. ASSUME NEW p \in PeerIds, NEW q, Stage(q), peers' = [peers EXCEPT ![p] = q]
      PROVE  StagesKept'
  <2>1. \A x \in PeerIds : peers'[x] = IF x = p THEN q ELSE peers[x]
    BY <1>1, <1>6
  <2> SUFFICES ASSUME NEW x \in PeerIds PROVE Stage(peers'[x])
    BY DEF StagesKept, Stage
  <2> QED  BY <1>6, <2>1 DEF StagesKept
<1>7. ASSUME NEW c \in Clients, NEW m \in net, NEW held \in BOOLEAN, ReceiveShake(c, m, held)
      PROVE  StagesKept'
  <2>1. PICK i \in DOMAIN serials[c] : Connected(c, Addrs[i], m.conv, held)
    BY <1>7 DEF ReceiveShake
  <2> DEFINE isFresh == <<Addrs[i], m.conv>> \notin before[c]
             q == IF held THEN Made(TRUE, Addrs[i], m.conv, AcceptOnly, isFresh) ELSE Closed(isFresh)
  <2>2. peers' = [peers EXCEPT ![<<c, dials[c]>>] = q]
    BY <2>1 DEF Connected, AcceptOnly
  <2>3. Stage(q)
    BY <1>5 DEF Closed
  <2> HIDE DEF q
  <2>4. CASE <<c, dials[c]>> \in PeerIds
    BY <1>6, <2>2, <2>3, <2>4
  <2>5. CASE <<c, dials[c]>> \notin PeerIds
    <3>1. peers' = peers
      BY <1>1, <2>2, <2>5
    <3> QED  BY <3>1 DEF StagesKept
  <2> QED  BY <2>4, <2>5
<1>8. ASSUME NEW p \in PeerIds, UserSends(p) PROVE StagesKept'
  <2> DEFINE q == peers[p]
             r == peers'[p]
  <2>1. /\ q.open /\ ~q.wrote
        /\ peers' = [peers EXCEPT ![p].queued = Append(@, "data"), ![p].wrote = TRUE]
    BY <1>8 DEF UserSends
  <2>2. /\ r.queued = Append(q.queued, "data") /\ r.flushed = q.flushed
        /\ r.open = q.open /\ r.wrote = TRUE
        /\ \A x \in PeerIds : x # p => peers'[x] = peers[x]
    BY <1>1, <2>1 DEF DialerPeer
  <2>3. Stage(q)
    BY DEF StagesKept
  <2>4. Stage(r)
    <3>1. \/ r.queued = AcceptAndData /\ Len(r.flushed) = 0
          \/ r.queued = DataOnly /\ Len(r.flushed) = 1
      <4>1. \/ q.queued = AcceptOnly /\ Len(q.flushed) = 0
            \/ q.queued = <<>> /\ Len(q.flushed) = 1
        BY <2>1, <2>3 DEF Stage
      <4> HIDE DEF q, r
      <4> QED  BY <2>2, <4>1, SegmentFacts
    <3>2. \A i \in DOMAIN r.flushed : r.flushed[i] \in Segments
      BY <2>2, <2>3 DEF Stage
    <3> HIDE DEF r
    <3> QED  BY <2>2, <3>1, <3>2 DEF Stage
  <2> SUFFICES ASSUME NEW x \in PeerIds PROVE Stage(peers'[x])
    BY DEF StagesKept, Stage
  <2> HIDE DEF q, r
  <2> QED  BY <2>2, <2>4 DEF StagesKept, r
<1>9. ASSUME NEW p \in PeerIds, ClosePeer(p) PROVE StagesKept'
  <2>1. peers' = [peers EXCEPT ![p] = Closed(peers[p].fresh)]
    BY <1>1, <1>9 DEF ClosePeer
  <2>2. Stage(Closed(peers[p].fresh))
    BY <1>5 DEF Closed
  <2> QED  BY <1>6, <2>1, <2>2
<1>10. ASSUME NEW c \in Clients, DialerFrame(c) PROVE StagesKept'
  BY <1>3, <1>10 DEF DialerFrame
<1>11. ASSUME NEW p \in PeerIds, Flush(p) PROVE StagesKept'
  BY <1>3, <1>11 DEF Flush
<1> QED  BY <1>2, <1>4, <1>7, <1>8, <1>9, <1>10, <1>11, Changes

LEMMA ShakesStep ==
  ASSUME KsIInv, ShakesKept, [KsNext]_shakeVars
  PROVE  ShakesKept'
<1>1. /\ convId \in [Servers -> Nat]
      /\ shakes \in [Servers -> [Clients -> [conv : Nat, left : Nat]]]
  BY DEF KsIInv, ListenerTypes
<1>2. ShakeLife \in Nat /\ MaxConv \in Nat
  BY BoundsAssumption
<1>3. CASE UNCHANGED <<convId, shakes>>
  BY <1>3 DEF ShakesKept
<1>4. ASSUME NEW s \in Servers, ListenerFrame(s) PROVE ShakesKept'
  <2>1. /\ shakes' = [shakes EXCEPT ![s] = [c \in Clients |-> Older(@[c])]]
        /\ UNCHANGED convId
    BY <1>4 DEF ListenerFrame
  <2>2. \A t \in Servers, d \in Clients : shakes'[t][d] =
          IF t = s THEN Older(shakes[t][d]) ELSE shakes[t][d]
    BY <1>1, <2>1
  <2>3. ASSUME NEW t \in Servers, NEW d \in Clients PROVE Older(shakes[t][d]).left <= ShakeLife
    <3>1. shakes[t][d] \in [conv : Nat, left : Nat] /\ shakes[t][d].left <= ShakeLife
      BY <1>1 DEF ShakesKept
    <3>2. CASE shakes[t][d].left = 0
      BY <1>2, <3>2 DEF Older, NoShake
    <3>3. CASE shakes[t][d].left # 0
      <4>1. Older(shakes[t][d]) = [shakes[t][d] EXCEPT !.left = shakes[t][d].left - 1]
        BY <3>3 DEF Older
      <4>2. Older(shakes[t][d]).left = shakes[t][d].left - 1
        BY <3>1, <4>1
      <4> QED  BY <1>2, <3>1, <4>2
    <3> QED  BY <3>2, <3>3
  <2> QED  BY <2>1, <2>2, <2>3 DEF ShakesKept
<1>5. ASSUME NEW s \in Servers, NEW m \in net, ReceiveSerial(s, m) PROVE ShakesKept'
  <2> DEFINE known == shakes[s][m.from].conv # 0
             conv == IF known THEN shakes[s][m.from].conv ELSE convId[s] + 1
  <2>1. /\ conv <= MaxConv
        /\ convId' = [convId EXCEPT ![s] = IF known THEN @ ELSE conv]
        /\ shakes' = [shakes EXCEPT ![s][m.from] = [conv |-> conv, left |-> ShakeLife]]
    BY <1>5 DEF ReceiveSerial
  <2> HIDE DEF conv, known
  <2>2. \A t \in Servers : convId'[t] = IF t = s /\ ~known THEN conv ELSE convId[t]
    BY <1>1, <2>1
  <2>3. \A t \in Servers, d \in Clients : shakes'[t][d] =
          IF t = s /\ d = m.from THEN [conv |-> conv, left |-> ShakeLife] ELSE shakes[t][d]
    BY <1>1, <2>1
  <2> QED  BY <1>2, <2>1, <2>2, <2>3 DEF ShakesKept
<1>6. ASSUME NEW s \in Servers, NEW m \in net, NEW held \in BOOLEAN, AcceptKcp(s, m, held)
      PROVE  ShakesKept'
  <2>1. /\ shakes' = [shakes EXCEPT ![s][m.from] = NoShake]
        /\ UNCHANGED convId
    BY <1>6 DEF AcceptKcp
  <2>2. \A t \in Servers, d \in Clients : shakes'[t][d] =
          IF t = s /\ d = m.from THEN NoShake ELSE shakes[t][d]
    BY <1>1, <2>1
  <2> QED  BY <1>2, <2>1, <2>2 DEF ShakesKept, NoShake
<1> QED  BY <1>3, <1>4, <1>5, <1>6, Changes

LEMMA FlattenNone ==
  ASSUME NEW s, s = <<>>
  PROVE  FlattenSeq(s) = <<>>
BY DEF FlattenSeq

LEMMA FlattenOne ==
  ASSUME NEW x, NEW s, s = [i \in 1 .. 1 |-> x]
  PROVE  FlattenSeq(s) = x
<1> DEFINE Flat(f) == f = [i \in 1 .. 1 |-> IF i = 1 THEN s[i] ELSE f[i - 1] \o s[i]]
           flatten == CHOOSE f : Flat(f)
<1>1. Len(s) = 1
  OBVIOUS
<1>2. Flat(s)
  OBVIOUS
<1>3. Flat(flatten)
  <2> HIDE DEF Flat
  <2> QED  BY <1>2
<1>4. flatten[1] = x
  <2> HIDE DEF flatten
  <2> QED  BY <1>3
<1>5. FlattenSeq(s) = flatten[Len(s)]
  BY <1>1 DEF FlattenSeq, flatten, Flat
<1> HIDE DEF flatten
<1> QED  BY <1>1, <1>4, <1>5

LEMMA InputKeepsFirst ==
  ASSUME NEW peer, DOMAIN peer = Fields, NEW m, NEW isFirst
  PROVE  Input(peer, m, isFirst).first = peer.first
BY DEF Input, Fields

\* Input of a packet for a peer that waits for no other: it is the next one, or
\* an old one.
LEMMA InputInOrder ==
  ASSUME NEW peer, DOMAIN peer = Fields, peer.next \in Nat, DOMAIN peer.arrived = {},
         NEW m, m.sn \in Nat, m.sn <= peer.next, NEW isFirst,
         peer.handed \in Seq({"data"}),
         m.sn = peer.next => Handed(m.segment, isFirst) \in Seq({"data"}),
         NEW new, new = Input(peer, m, isFirst)
  PROVE  /\ new.next = IF m.sn < peer.next THEN peer.next ELSE peer.next + 1
         /\ DOMAIN new.arrived = {} /\ new.handed \in Seq({"data"})
<1> DEFINE dup == m.sn < peer.next \/ m.sn \in DOMAIN peer.arrived
           in == [peer EXCEPT !.arrived = IF dup THEN @ ELSE [k \in {m.sn} \cup DOMAIN @ |->
                                            IF k = m.sn THEN m.segment ELSE @[k]],
                              !.fed = @ \cup {m.from}, !.addr = m.from]
           n == Cardinality(Ready(in))
           parts == [i \in 1 .. n |-> Handed(in.arrived[in.next + i - 1], isFirst)]
<1>1. new = [in EXCEPT !.handed = @ \o FlattenSeq(parts), !.next = @ + n,
                       !.arrived = [k \in DOMAIN in.arrived \ Ready(in) |-> in.arrived[k]]]
  BY DEF Input
<1>2. /\ DOMAIN in = Fields /\ in.next = peer.next /\ in.handed = peer.handed
      /\ in.first = peer.first
      /\ dup => in.arrived = peer.arrived
      /\ ~dup => in.arrived = [k \in {m.sn} \cup DOMAIN peer.arrived |->
                                 IF k = m.sn THEN m.segment ELSE peer.arrived[k]]
  BY DEF Fields
<1>3. dup <=> m.sn < peer.next
  OBVIOUS
<1> HIDE DEF in, dup
<1>4. /\ new.next = in.next + n
      /\ new.handed = in.handed \o FlattenSeq(parts)
      /\ DOMAIN new.arrived = DOMAIN in.arrived \ Ready(in)
  <2> HIDE DEF n, parts
  <2> QED  BY <1>1, <1>2 DEF Fields
<1>5. CASE m.sn < peer.next
  <2>1. DOMAIN in.arrived = {}
    BY <1>2, <1>3, <1>5
  <2>2. Ready(in) = {}
    BY <2>1 DEF Ready
  <2>3. n = 0
    BY <2>2, FS_EmptySet
  <2>4. FlattenSeq(parts) = <<>>
    <3>1. parts = <<>>
      BY <2>3
    <3> HIDE DEF parts
    <3> QED  BY <3>1, FlattenNone
  <2> HIDE DEF n, parts
  <2>5. new.next = peer.next
    BY <1>2, <1>4, <2>3
  <2>6. new.handed = peer.handed \o <<>> /\ DOMAIN new.arrived = {}
    BY <1>2, <1>4, <2>1, <2>4
  <2>7. new.handed \in Seq({"data"})
    BY <2>6, ConcatEmptySeq
  <2> QED  BY <1>5, <2>5, <2>6, <2>7
<1>6. CASE m.sn = peer.next
  <2>1. DOMAIN in.arrived = {m.sn} /\ in.arrived[m.sn] = m.segment
    BY <1>2, <1>3, <1>6
  <2>2. Ready(in) = {m.sn}
    BY <1>2, <1>6, <2>1 DEF Ready
  <2>3. n = 1
    BY <2>2, FS_Singleton
  <2>4. parts = [i \in 1 .. 1 |-> Handed(m.segment, isFirst)]
    <3>1. \A i \in 1 .. 1 : in.next + i - 1 = m.sn
      BY <1>2, <1>6
    <3> QED  BY <2>1, <2>3, <3>1
  <2>5. FlattenSeq(parts) = Handed(m.segment, isFirst)
    <3> HIDE DEF parts
    <3> QED  BY <2>4, FlattenOne
  <2> HIDE DEF n, parts
  <2>6. new.next = peer.next + 1
    BY <1>2, <1>4, <2>3
  <2>7. /\ new.handed = peer.handed \o Handed(m.segment, isFirst)
        /\ DOMAIN new.arrived = {}
    BY <1>2, <1>4, <2>1, <2>2, <2>5
  <2>8. new.handed \in Seq({"data"})
    BY <1>6, <2>7, ConcatProperties
  <2> QED  BY <1>6, <2>6, <2>7, <2>8
<1>7. m.sn < peer.next \/ m.sn = peer.next
  OBVIOUS
<1> QED  BY <1>5, <1>6, <1>7

\* What is handed on of a segment: no accept package of a segment 0 that a peer
\* is accepted at, and none of a segment 1.
LEMMA HandedIsData ==
  /\ Handed(AcceptOnly, TRUE) \in Seq({"data"})
  /\ Handed(AcceptAndData, TRUE) \in Seq({"data"})
  /\ Handed(DataOnly, FALSE) \in Seq({"data"})
<1> USE DEF AcceptOnly, AcceptAndData, DataOnly
<1>1. Tail(AcceptOnly) = <<>> /\ Head(AcceptOnly) = "accept" /\ AcceptOnly # <<>>
  OBVIOUS
<1>2. Tail(AcceptAndData) = <<"data">> /\ Head(AcceptAndData) = "accept" /\ AcceptAndData # <<>>
  OBVIOUS
<1>3. <<>> \in Seq({"data"}) /\ <<"data">> \in Seq({"data"})
  OBVIOUS
<1>4. Handed(AcceptOnly, TRUE) = <<>>
  BY <1>1 DEF Handed
<1>5. Handed(AcceptAndData, TRUE) = <<"data">>
  BY <1>2 DEF Handed
<1>6. Handed(DataOnly, FALSE) = <<"data">>
  BY DEF Handed
<1> QED  BY <1>3, <1>4, <1>5, <1>6

LEMMA HandedStep ==
  ASSUME KsIInv, HandedKept, PacketsKept, [KsNext]_shakeVars
  PROVE  HandedKept'
<1>1. ListenerTypes /\ PacketTypes /\ ListenerKept
  BY DEF KsIInv
<1>2. DOMAIN <<>> = {} /\ <<>> \in Seq({"data"})
  OBVIOUS
<1>3. CASE UNCHANGED lpeers
  BY <1>3 DEF HandedKept
<1>4. ASSUME NEW s \in Servers, NEW v \in Convs, NEW new,
             lpeers' = [lpeers EXCEPT ![s][v] = new],
             ~new.open => new = Unaccepted,
             new.open /\ new.first = 0 => /\ new.next \in {1, 2} /\ DOMAIN new.arrived = {}
                                          /\ new.handed \in Seq({"data"})
      PROVE  HandedKept'
  <2>1. \A t \in Servers, w \in Convs :
          lpeers'[t][w] = IF t = s /\ w = v THEN new ELSE lpeers[t][w]
    BY <1>1, <1>4 DEF ListenerTypes
  <2> SUFFICES ASSUME NEW t \in Servers, NEW w \in Convs
               PROVE  /\ ~lpeers'[t][w].open => lpeers'[t][w] = Unaccepted
                      /\ lpeers'[t][w].open /\ lpeers'[t][w].first = 0 =>
                           /\ lpeers'[t][w].next \in {1, 2}
                           /\ DOMAIN lpeers'[t][w].arrived = {}
                           /\ lpeers'[t][w].handed \in Seq({"data"})
    BY DEF HandedKept, Unaccepted
  <2>2. CASE t = s /\ w = v
    BY <1>4, <2>1, <2>2
  <2>3. CASE ~(t = s /\ w = v)
    BY <2>1, <2>3 DEF HandedKept
  <2> QED  BY <2>2, <2>3
<1>5. ASSUME NEW s \in Servers, NEW m \in net, ReceiveKcp(s, m) PROVE HandedKept'
  <2> DEFINE old == lpeers[s][m.conv]
             new == Input(old, m, FALSE)
  <2>1. /\ m.kind = "kcp" /\ m.conv \in lcps[s]
        /\ lpeers' = [lpeers EXCEPT ![s][m.conv] = Input(@, m, FALSE)]
    BY <1>5 DEF ReceiveKcp
  <2>2. m.conv \in Convs
    BY <1>1, <2>1 DEF PacketTypes
  <2>3. lpeers' = [lpeers EXCEPT ![s][m.conv] = new]
    BY <1>1, <2>1, <2>2 DEF ListenerTypes
  <2>4. old.open /\ DOMAIN old = Fields
    BY <1>1, <2>1, <2>2 DEF ListenerTypes, ListenerKept
  <2>5. old.first = 0 => /\ old.next \in {1, 2} /\ DOMAIN old.arrived = {}
                         /\ old.handed \in Seq({"data"})
    BY <2>2, <2>4 DEF HandedKept
  <2>6. SegmentOf(m)
    BY <2>1 DEF PacketsKept
  <2> HIDE DEF old
  <2>7. new.open /\ new.first = old.first
    BY <2>4, InputOfPeer, InputKeepsFirst
  <2>8. ASSUME old.first = 0
        PROVE  new.next \in {1, 2} /\ DOMAIN new.arrived = {} /\ new.handed \in Seq({"data"})
    <3>1. old.next \in Nat /\ m.sn \in Nat /\ m.sn <= old.next
      BY <2>5, <2>6, <2>8 DEF SegmentOf
    <3>2. m.sn = old.next => m.segment = DataOnly /\ old.next = 1
      BY <2>5, <2>6, <2>8 DEF SegmentOf
    <3>3. m.sn = old.next => Handed(m.segment, FALSE) \in Seq({"data"})
      BY <3>2, HandedIsData
    <3>4. new = Input(old, m, FALSE)
      OBVIOUS
    <3> HIDE DEF new
    <3>5. DOMAIN old.arrived = {} /\ old.handed \in Seq({"data"}) /\ DOMAIN old = Fields
      BY <2>4, <2>5, <2>8
    <3>6. /\ new.next = IF m.sn < old.next THEN old.next ELSE old.next + 1
          /\ DOMAIN new.arrived = {} /\ new.handed \in Seq({"data"})
      BY <3>1, <3>3, <3>4, <3>5, InputInOrder
    <3> QED  BY <2>5, <2>8, <3>1, <3>2, <3>6
  <2> HIDE DEF new
  <2> QED  BY <1>4, <2>2, <2>3, <2>7, <2>8
<1>6. ASSUME NEW s \in Servers, NEW m \in net, NEW held \in BOOLEAN, AcceptKcp(s, m, held)
      PROVE  HandedKept'
  <2> DEFINE old == lpeers[s][m.conv]
             made == [old EXCEPT !.open = TRUE, !.client = m.from, !.first = m.sn]
             new == IF held THEN Input(made, m, TRUE) ELSE old
  <2>1. /\ m.kind = "kcp" /\ m.conv \notin lcps[s]
        /\ lpeers' = [lpeers EXCEPT ![s][m.conv] = new]
    BY <1>6 DEF AcceptKcp
  <2>2. m.conv \in Convs
    BY <1>1, <2>1 DEF PacketTypes
  <2>3. ~old.open
    BY <1>1, <2>1, <2>2 DEF ListenerKept
  <2>4. old = Unaccepted
    BY <2>2, <2>3 DEF HandedKept
  <2>5. SegmentOf(m)
    BY <2>1 DEF PacketsKept
  <2>6. CASE ~held
    BY <1>4, <2>1, <2>2, <2>3, <2>4, <2>6
  <2>7. CASE held
    <3>1. new = Input(made, m, TRUE)
      BY <2>7
    <3>2. /\ DOMAIN made = Fields /\ made.open = TRUE /\ made.first = m.sn
          /\ made.next = 0 /\ made.arrived = <<>> /\ made.handed = <<>>
      BY <2>4 DEF Unaccepted, Fields
    <3> HIDE DEF made, new
    <3>3. new.open = TRUE /\ new.first = m.sn
      BY <3>1, <3>2, InputOfPeer, InputKeepsFirst
    <3>4. ASSUME m.sn = 0
          PROVE  new.next = 1 /\ DOMAIN new.arrived = {} /\ new.handed \in Seq({"data"})
      <4>1. made.next \in Nat /\ m.sn \in Nat /\ m.sn <= made.next /\ DOMAIN made.arrived = {}
        BY <1>2, <3>2, <3>4
      <4>2. m.segment \in {AcceptOnly, AcceptAndData}
        BY <2>5, <3>4 DEF SegmentOf
      <4>3. Handed(m.segment, TRUE) \in Seq({"data"})
        BY <4>2, HandedIsData
      <4>4. made.handed \in Seq({"data"})
        BY <1>2, <3>2
      <4>5. DOMAIN made = Fields
        BY <3>2
      <4>6. /\ new.next = IF m.sn < made.next THEN made.next ELSE made.next + 1
            /\ DOMAIN new.arrived = {} /\ new.handed \in Seq({"data"})
        BY <3>1, <4>1, <4>3, <4>4, <4>5, InputInOrder
      <4> QED  BY <3>2, <3>4, <4>6
    <3> QED  BY <1>4, <2>1, <2>2, <3>3, <3>4
  <2> QED  BY <2>6, <2>7
<1>7. ASSUME NEW s \in Servers, NEW v \in Convs, CloseAccepted(s, v) PROVE HandedKept'
  <2>1. lpeers' = [lpeers EXCEPT ![s][v] = Unaccepted]
    BY <1>7 DEF CloseAccepted
  <2>2. Unaccepted.open = FALSE
    BY DEF Unaccepted
  <2> QED  BY <1>4, <2>1, <2>2
<1> QED  BY <1>3, <1>5, <1>6, <1>7, Changes

LEMMA PacketsStep ==
  ASSUME KsIInv, KsIInv', DialsKept, DialsKept', ShakesKept', StagesKept, PacketsKept,
         [KsNext]_shakeVars
  PROVE  PacketsKept'
<1>1. /\ DialerTypes /\ ListenerTypes /\ PacketTypes /\ DialerKept /\ ListenerKept
      /\ DialerTypes' /\ ListenerTypes' /\ PacketTypes'
  BY DEF KsIInv
<1> SUFFICES ASSUME NEW m \in net', m \notin net
             PROVE  m \in Packets /\ (m.kind = "kcp" => SegmentOf(m))
  BY DEF PacketsKept, SegmentOf
<1>2. CASE UNCHANGED net
  BY <1>2
<1>3. ASSUME NEW c \in Clients, NEW timeout \in Timeouts, Dial(c, timeout)
      PROVE  m \in Packets /\ (m.kind = "kcp" => SegmentOf(m))
  <2> DEFINE ss == [i \in DOMAIN Addrs |-> serialAutoInc[c] + i]
  <2>1. serials' = [serials EXCEPT ![c] = ss] /\ net' = net \cup SerialPackets(c, ss)
    BY <1>3 DEF Dial
  <2>2. serials'[c] = ss
    BY <1>1, <2>1 DEF DialerTypes
  <2>3. PICK i \in DOMAIN ss :
          m = [kind |-> "serial", from |-> c, to |-> Addrs[i], serial |-> ss[i]]
    BY <2>1 DEF SerialPackets
  <2>4. ss[i] \in Serials
    BY <2>2 DEF DialsKept
  <2>5. Addrs[i] \in Servers
    BY AddrsAssumption
  <2> HIDE DEF ss
  <2> QED  BY <2>3, <2>4, <2>5 DEF Packets
<1>4. ASSUME NEW c \in Clients, NEW due, PutOut(c, due),
             \A p \in due : p \in PeerIds /\ p[1] = c /\ peers[p].queued # <<>>
      PROVE  m \in Packets /\ (m.kind = "kcp" => SegmentOf(m))
  <2>1. PICK p \in PeerIds :
          /\ p[1] = c /\ peers[p].queued # <<>>
          /\ m = [kind |-> "kcp", from |-> c, to |-> peers[p].server, conv |-> peers[p].conv,
                  sn |-> Len(peers[p].flushed), segment |-> peers[p].queued]
    BY <1>4 DEF PutOut
  <2>2. m.kind = "kcp" /\ m.sn = Len(peers[p].flushed) /\ m.segment = peers[p].queued
    BY <2>1
  <2>3. SegmentOf(m)
    BY <2>1, <2>2 DEF StagesKept, Stage, SegmentOf
  <2>4. peers[p].conv \in Convs /\ peers[p].server \in Servers
    BY <1>1, <2>1, <2>2 DEF PacketTypes
  <2>5. Len(peers[p].flushed) \in {0, 1} /\ peers[p].queued \in Segments
    BY <2>2, <2>3, SegmentFacts DEF SegmentOf
  <2> QED  BY <2>1, <2>3, <2>4, <2>5 DEF Packets
<1>5. ASSUME NEW s \in Servers, ListenerFrame(s)
      PROVE  m \in Packets /\ (m.kind = "kcp" => SegmentOf(m))
  <2>1. PICK v \in lcps[s] :
          m = [kind |-> "answer", from |-> s, to |-> lpeers[s][v].addr, conv |-> v]
    BY <1>5 DEF ListenerFrame, Answers
  <2>2. m.kind = "answer" /\ m.to = lpeers[s][v].addr
    BY <2>1
  <2>3. v \in Convs /\ lpeers[s][v].addr \in Clients
    BY <1>1, <2>2 DEF PacketTypes, ListenerTypes
  <2> QED  BY <2>1, <2>3 DEF Packets
<1>6. ASSUME NEW s \in Servers, NEW n \in net, ReceiveSerial(s, n)
      PROVE  m \in Packets /\ (m.kind = "kcp" => SegmentOf(m))
  <2>1. PICK conv : m = [kind |-> "shake", from |-> s, to |-> n.from, serial |-> n.serial,
                         conv |-> conv]
    BY <1>6 DEF ReceiveSerial
  <2>2. m.kind = "shake" /\ m.conv = conv
    BY <2>1
  <2>3. conv \in Convs
    BY <1>1, <2>2 DEF PacketTypes
  <2>4. n.kind = "serial" /\ n \in Packets
    BY <1>6 DEF ReceiveSerial, PacketsKept
  <2>5. n.from \in Clients /\ n.serial \in Serials
    BY <2>4 DEF Packets
  <2> QED  BY <2>1, <2>3, <2>5 DEF Packets
<1>7. ASSUME NEW c \in Clients, DialerFrame(c)
      PROVE  m \in Packets /\ (m.kind = "kcp" => SegmentOf(m))
  BY <1>4, <1>7 DEF DialerFrame
<1>8. ASSUME NEW p \in PeerIds, Flush(p)
      PROVE  m \in Packets /\ (m.kind = "kcp" => SegmentOf(m))
  BY <1>4, <1>8 DEF Flush, PeerIds
<1> QED  BY <1>2, <1>3, <1>5, <1>6, <1>7, <1>8, Changes

LEMMA SegInitHolds == KsInit => KsSegInv
<1> SUFFICES ASSUME KsInit PROVE KsSegInv
  OBVIOUS
<1> USE DEF KsInit
<1>1. DOMAIN <<>> = {} /\ Len(<<>>) = 0
  OBVIOUS
<1>2. Len(Addrs) \in Nat
  BY AddrsAssumption
<1>3. DialsKept
  BY <1>1, <1>2 DEF DialsKept
<1>4. StagesKept
  BY <1>1 DEF StagesKept, Stage, Unmade, Made
<1>5. ShakesKept
  BY BoundsAssumption DEF ShakesKept, NoShake
<1>6. HandedKept
  BY DEF HandedKept, Unaccepted
<1>7. PacketsKept
  BY DEF PacketsKept
<1> QED  BY <1>3, <1>4, <1>5, <1>6, <1>7 DEF KsSegInv

LEMMA SegStepHolds == KsIInv /\ KsSegInv /\ [KsNext]_shakeVars => KsSegInv'
<1> SUFFICES ASSUME KsIInv, KsSegInv, [KsNext]_shakeVars PROVE KsSegInv'
  OBVIOUS
<1>1. KsIInv'
  BY StepHolds
<1>2. DialsKept /\ StagesKept /\ ShakesKept /\ HandedKept /\ PacketsKept
  BY DEF KsSegInv
<1>3. DialsKept'
  BY <1>2, DialsStep
<1>4. StagesKept'
  BY <1>2, StagesStep
<1>5. ShakesKept'
  BY <1>2, ShakesStep
<1>6. HandedKept'
  BY <1>2, HandedStep
<1>7. PacketsKept'
  BY <1>1, <1>2, <1>3, <1>5, PacketsStep
<1> QED  BY <1>3, <1>4, <1>5, <1>6, <1>7 DEF KsSegInv

\* The second invariant holds on top of the first: the accept package is in
\* segment 0 of a conv and nowhere else.
THEOREM SegmentsAreKept == KsSpec => [](KsIInv /\ KsSegInv)
<1>1. KsInit => KsIInv /\ KsSegInv
  BY InitHolds, SegInitHolds
<1>2. KsIInv /\ KsSegInv /\ [KsNext]_shakeVars => (KsIInv /\ KsSegInv)'
  BY StepHolds, SegStepHolds
<1> QED  BY <1>1, <1>2, PTL DEF KsSpec

\* Every variable has its type and every packet its form: a dialer's serials
\* are within what its dials used, and a listener's convs are those it gave.
THEOREM ShakeTypeCorrect == KsSpec => []KsTypeOK
<1>1. KsIInv /\ KsSegInv => KsTypeOK
  <2> SUFFICES ASSUME KsIInv, KsSegInv PROVE KsTypeOK
    OBVIOUS
  <2>1. /\ DialerTypes /\ ListenerTypes /\ ConvsKept /\ DialerKept /\ ConnectOnce /\ TimersKept
        /\ DialsKept /\ StagesKept /\ ShakesKept /\ PacketsKept
    BY DEF KsIInv, KsSegInv
  <2>2. \A c \in Clients : Len(serials[c]) \in {0, Len(Addrs)} /\ ToSet(serials[c]) \subseteq Serials
    BY <2>1 DEF DialsKept, ToSet
  <2>3. serialAutoInc \in [Clients -> 0 .. MaxDials * Len(Addrs)]
    <3>1. Len(Addrs) \in Nat /\ MaxDials \in Nat
      BY AddrsAssumption, BoundsAssumption
    <3>2. ASSUME NEW c \in Clients PROVE serialAutoInc[c] \in 0 .. MaxDials * Len(Addrs)
      <4>1. dials[c] \in 0 .. MaxDials /\ serialAutoInc[c] = dials[c] * Len(Addrs)
        BY <2>1 DEF DialerTypes, DialsKept
      <4>2. dials[c] \in Nat /\ (dials[c] = MaxDials \/ dials[c] < MaxDials)
        BY <3>1, <4>1
      <4>3. /\ dials[c] * Len(Addrs) \in Nat /\ MaxDials * Len(Addrs) \in Nat
            /\ dials[c] * Len(Addrs) <= MaxDials * Len(Addrs)
        <5>1. CASE dials[c] = MaxDials
          <6>1. MaxDials < MaxDials + 1 /\ MaxDials + 1 \in Nat
            BY <3>1
          <6>2. MaxDials * Len(Addrs) \in Nat
            BY <3>1, <6>1, TimesGrows
          <6> QED  BY <5>1, <6>2
        <5>2. CASE dials[c] < MaxDials
          BY <3>1, <4>2, <5>2, TimesGrows
        <5> QED  BY <4>2, <5>1, <5>2
      <4> QED  BY <4>1, <4>3
    <3>3. serialAutoInc \in [Clients -> Nat]
      BY <2>1 DEF DialerTypes
    <3> QED  BY <3>2, <3>3
  <2>4. ASSUME NEW p \in PeerIds
        PROVE  /\ DOMAIN peers[p] = DOMAIN Unmade
               /\ peers[p].server \in Servers \cup {NoOne} /\ peers[p].conv \in 0 .. MaxConv
               /\ peers[p].queued \in Segments /\ ToSet(peers[p].flushed) \subseteq Segments
    <3>1. peers[p] \in DialerPeer
      BY <2>1 DEF DialerTypes
    <3>2. peers[p].queued \in Segments
      BY <2>1, SegmentFacts DEF StagesKept, Stage
    <3>3. ToSet(peers[p].flushed) \subseteq Segments
      BY <2>1 DEF StagesKept, Stage, ToSet
    <3>4. DOMAIN peers[p] = DOMAIN Unmade
      BY <3>1 DEF DialerPeer, Unmade, Made
    <3> QED  BY <3>1, <3>2, <3>3, <3>4 DEF DialerPeer
  <2>5. connects \in [Clients -> 0 .. MaxDials]
    <3>1. \A c \in Clients : connects[c] \in Nat /\ dials[c] \in 0 .. MaxDials
      BY <2>1 DEF DialerTypes
    <3>2. ASSUME NEW c \in Clients PROVE connects[c] \in 0 .. MaxDials
      <4>1. dials[c] = connects[c] \/ dials[c] = connects[c] + 1
        <5>1. CASE Busy(c)
          BY <2>1, <5>1 DEF ConnectOnce
        <5>2. CASE ~Busy(c)
          BY <2>1, <3>1, <5>2 DEF ConnectOnce
        <5> QED  BY <5>1, <5>2
      <4> QED  BY <3>1, <4>1, BoundsAssumption
    <3> QED  BY <2>1, <3>2 DEF DialerTypes
  <2>6. convId \in [Servers -> 0 .. MaxConv]
    BY <2>1, BoundsAssumption DEF ListenerTypes, ShakesKept
  <2>7. shakes \in [Servers -> [Clients -> [conv : 0 .. MaxConv, left : 0 .. ShakeLife]]]
    <3>1. ASSUME NEW s \in Servers, NEW c \in Clients
          PROVE  shakes[s][c] \in [conv : 0 .. MaxConv, left : 0 .. ShakeLife]
      <4>1. shakes[s][c] \in [conv : Nat, left : Nat] /\ shakes[s][c].left <= ShakeLife
        BY <2>1 DEF ListenerTypes, ShakesKept
      <4>2. shakes[s][c].conv # 0 => shakes[s][c].conv \in 1 .. MaxConv
        BY <2>1 DEF ConvsKept, Convs
      <4>3. shakes[s][c].conv \in 0 .. MaxConv /\ shakes[s][c].left \in 0 .. ShakeLife
        BY <4>1, <4>2, BoundsAssumption
      <4> QED  BY <4>1, <4>3
    <3>2. \A s \in Servers : shakes[s] \in [Clients -> [conv : 0 .. MaxConv, left : 0 .. ShakeLife]]
      BY <2>1, <3>1 DEF ListenerTypes
    <3> QED  BY <2>1, <3>2 DEF ListenerTypes
  <2>8. \A s \in Servers, v \in Convs : DOMAIN lpeers[s][v] = DOMAIN Unaccepted
    BY <2>1 DEF ListenerTypes, Fields, Unaccepted
  <2>9. \A m \in net : m \in Packets
    BY <2>1 DEF PacketsKept
  <2> QED  BY <2>1, <2>2, <2>3, <2>4, <2>5, <2>6, <2>7, <2>8, <2>9
           DEF KsTypeOK, DialerTypes, ListenerTypes, TimersKept
<1> QED  BY <1>1, SegmentsAreKept, PTL

\* Input of KcpPeer leaves the accept package out when it hands on what it has:
\* Receive of the user never sees it, at a peer that was accepted at the segment
\* it is in. One accepted at a later segment may see it, and the theorem says
\* nothing about that one.
THEOREM AcceptPackageIsIgnored == KsSpec => []AcceptIgnored
<1>1. KsIInv /\ KsSegInv => AcceptIgnored
  <2> SUFFICES ASSUME KsIInv, KsSegInv, NEW s \in Servers, NEW v \in Convs,
                      lpeers[s][v].first = 0
               PROVE  "accept" \notin ToSet(lpeers[s][v].handed)
    BY DEF AcceptIgnored
  <2>1. lpeers[s][v].open \in BOOLEAN
    BY DEF KsIInv, ListenerTypes
  <2>2. <<>> \in Seq({"data"}) /\ "accept" # "data"
    OBVIOUS
  <2>3. lpeers[s][v].handed \in Seq({"data"})
    <3>1. CASE lpeers[s][v].open
      BY <3>1 DEF KsSegInv, HandedKept
    <3>2. CASE ~lpeers[s][v].open
      <4>1. lpeers[s][v] = Unaccepted
        BY <3>2 DEF KsSegInv, HandedKept
      <4>2. Unaccepted.handed = <<>>
        BY DEF Unaccepted
      <4> QED  BY <2>2, <4>1, <4>2
    <3> QED  BY <3>1, <3>2
  <2> QED  BY <2>2, <2>3 DEF ToSet
<1> QED  BY <1>1, SegmentsAreKept, PTL
=============================================================================
