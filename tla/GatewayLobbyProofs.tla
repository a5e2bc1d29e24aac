------------------------- MODULE GatewayLobbyProofs -------------------------
(***************************************************************************)
(* The gateway and the lobby together, for any number of clients,          *)
(* connections, failures and messages in flight: the gateway's own         *)
(* invariant survives in the composition, the lobby's registry agrees with *)
(* its connections, and the permissions at the gateway and the VPeers at   *)
(* the lobby differ by no more than what is on its way. Settled is the     *)
(* part that says so, and no run lists it.                                 *)
(***************************************************************************)
EXTENDS GatewayLobby, GatewayProofs, FiniteSetTheorems, SequenceTheorems

\* What travels to the lobby and to the gateway.
Upstream == [cmd : {"gatewayId", "ping"}, client : {Nobody}]
            \cup [cmd : {"accept", "disconnect", "data"}, client : Clients]
Downstream == [cmd : {"garbage"}, client : {Nobody}]
              \cup [cmd : {"open", "close", "data"}, client : Clients]

MessagesOK == /\ toS \in [Conns -> Seq(Upstream)]
              /\ toG \in [Conns -> Seq(Downstream)]

\* The gateway is connected to the lobby only.
OnlyBase == dps \subseteq {Base}

\* A connection is a GPeer or waits to become one.
HandedOverOnce == backlog \cap gpeers = {}

\* Nothing is left of a GPeer that is closed.
GoneIsBlank == \A k \in Conns \ gpeers : id[k] = NoGateway /\ vpeers[k] = {}

\* Nothing on the gateway's connection is about a client that is yet to come,
\* so a new client finds no VPeer and no message of a namesake.
KnownClients ==
  cur # NoConn =>
    /\ \A c \in vpeers[cur] : c <= cpeerAutoId
    /\ \A i \in DOMAIN toS[cur] : toS[cur][i].client <= cpeerAutoId
    /\ \A i \in DOMAIN toG[cur] : toG[cur][i].client <= cpeerAutoId

\* Whether c may send to the lobby once the gateway has read ch, when it may
\* now or may not: the last "open" or "close" decides.
Final(ch, c, now) ==
  \/ \E i \in DOMAIN ch : /\ ch[i] = ToGateway("open", c)
                          /\ \A j \in DOMAIN ch : j > i => ch[j] # ToGateway("close", c)
  \/ now /\ \A j \in DOMAIN ch : ch[j] # ToGateway("close", c)

\* When the gateway has read all that the lobby sent, exactly the registered
\* clients with a VPeer may send to the lobby.
Settled ==
  cur \in gpeers \cup backlog =>
    \A c \in cps : Final(toG[cur], c, Base \in serverIds[c]) <=> c \in vpeers[cur]

GlIInv ==
  /\ GwIInv
  /\ GlTypeOK
  /\ MessagesOK
  /\ OnlyBase
  /\ HandedOverOnce
  /\ GoneIsBlank
  /\ RegistryAgrees
  /\ KnownClients
  /\ Settled

----------------------------------------------------------------------------
(* What is on its way *)

LEMMA MsgEq ==
  ASSUME NEW cmd, NEW c, NEW cmd2, NEW d
  PROVE  ToGateway(cmd, c) = ToGateway(cmd2, d) <=> cmd = cmd2 /\ c = d
  BY DEF ToGateway

LEMMA DownstreamOf ==
  /\ \A cmd \in {"open", "close", "data"}, c \in Clients : ToGateway(cmd, c) \in Downstream
  /\ ToGateway("garbage", Nobody) \in Downstream
  /\ \A m \in Downstream : m = ToGateway(m.cmd, m.client)
  BY DEF Downstream, ToGateway, Nobody

LEMMA UpstreamOf ==
  /\ \A cmd \in {"accept", "disconnect", "data"}, c \in Clients : ToGateway(cmd, c) \in Upstream
  /\ \A cmd \in {"gatewayId", "ping"} : ToGateway(cmd, Nobody) \in Upstream
  BY DEF Upstream, ToGateway, Nobody

\* The message that is sent last has the last word, if it is about c.
LEMMA FinalAppend ==
  ASSUME NEW ch \in Seq(Downstream), NEW m \in Downstream, NEW c, NEW now \in BOOLEAN
  PROVE  /\ m = ToGateway("open", c) => Final(Append(ch, m), c, now)
         /\ m = ToGateway("close", c) => ~Final(Append(ch, m), c, now)
         /\ m \notin {ToGateway("open", c), ToGateway("close", c)} =>
              (Final(Append(ch, m), c, now) <=> Final(ch, c, now))
<1> DEFINE n == Len(ch)
           ch2 == Append(ch, m)
<1>1. /\ n \in Nat
      /\ DOMAIN ch = 1 .. n
      /\ DOMAIN ch2 = 1 .. n + 1
      /\ \A i \in 1 .. n : ch2[i] = ch[i]
      /\ ch2[n + 1] = m
  BY AppendProperties, LenProperties
<1>2. ToGateway("open", c) # ToGateway("close", c)
  BY MsgEq
<1> HIDE DEF n, ch2
<1>3. \A i \in 1 .. n + 1 : i \in 1 .. n \/ i = n + 1
  BY <1>1
<1>4. m = ToGateway("open", c) => Final(ch2, c, now)
  <2> SUFFICES ASSUME m = ToGateway("open", c) PROVE Final(ch2, c, now)
    OBVIOUS
  <2>1. n + 1 \in DOMAIN ch2 /\ \A j \in DOMAIN ch2 : ~(j > n + 1)
    BY <1>1
  <2> QED BY <2>1, <1>1 DEF Final
<1>5. m = ToGateway("close", c) => ~Final(ch2, c, now)
  <2> SUFFICES ASSUME m = ToGateway("close", c) PROVE ~Final(ch2, c, now)
    OBVIOUS
  <2>1. n + 1 \in DOMAIN ch2 /\ ch2[n + 1] = ToGateway("close", c)
    BY <1>1
  <2>2. \A i \in DOMAIN ch2 : i # n + 1 => n + 1 > i
    BY <1>1
  <2> QED BY <2>1, <2>2, <1>2 DEF Final
<1>6. m \notin {ToGateway("open", c), ToGateway("close", c)} =>
        (Final(ch2, c, now) <=> Final(ch, c, now))
  <2> SUFFICES ASSUME m # ToGateway("open", c), m # ToGateway("close", c)
               PROVE  Final(ch2, c, now) <=> Final(ch, c, now)
    OBVIOUS
  <2>1. (\A j \in DOMAIN ch2 : ch2[j] # ToGateway("close", c))
          <=> \A j \in DOMAIN ch : ch[j] # ToGateway("close", c)
    BY <1>1, <1>3
  <2>2. \A i \in 1 .. n :
          (\A j \in DOMAIN ch2 : j > i => ch2[j] # ToGateway("close", c))
            <=> \A j \in DOMAIN ch : j > i => ch[j] # ToGateway("close", c)
    BY <1>1, <1>3
  <2> QED BY <1>1, <1>3, <2>1, <2>2 DEF Final
<1> QED BY <1>4, <1>5, <1>6 DEF ch2

\* Reading the first message does not change what is final, when the
\* permission follows the message.
LEMMA FinalTail ==
  ASSUME NEW ch \in Seq(Downstream), ch # <<>>, NEW c,
         NEW now \in BOOLEAN, NEW next \in BOOLEAN,
         Head(ch) = ToGateway("open", c) => next,
         Head(ch) = ToGateway("close", c) => ~next,
         Head(ch) \notin {ToGateway("open", c), ToGateway("close", c)} => next = now
  PROVE  Final(Tail(ch), c, next) <=> Final(ch, c, now)
<1> DEFINE n == Len(ch)
           ch2 == Tail(ch)
           Shut(i) == ch[i] = ToGateway("close", c)
<1>1. /\ n \in Nat \ {0}
      /\ DOMAIN ch = 1 .. n
      /\ DOMAIN ch2 = 1 .. n - 1
      /\ \A i \in 1 .. n - 1 : ch2[i] = ch[i + 1]
      /\ Head(ch) = ch[1]
  BY HeadTailProperties, LenProperties, EmptySeq
<1>2. ToGateway("open", c) # ToGateway("close", c)
  BY MsgEq
<1> HIDE DEF n, ch2
<1>3. \A i \in 2 .. n : i - 1 \in 1 .. n - 1 /\ ch2[i - 1] = ch[i]
  BY <1>1
<1>4. (\A j \in DOMAIN ch2 : ch2[j] # ToGateway("close", c)) <=> \A j \in 2 .. n : ~Shut(j)
  <2>1. \A j \in 2 .. n : j - 1 \in DOMAIN ch2 /\ ch2[j - 1] = ch[j]
    BY <1>1, <1>3
  <2>2. \A j \in DOMAIN ch2 : j + 1 \in 2 .. n /\ ch2[j] = ch[j + 1]
    BY <1>1
  <2> QED BY <2>1, <2>2
<1>5. \A i \in 1 .. n - 1 :
        (\A j \in DOMAIN ch2 : j > i => ch2[j] # ToGateway("close", c))
          <=> \A j \in DOMAIN ch : j > i + 1 => ~Shut(j)
  <2> SUFFICES ASSUME NEW i \in 1 .. n - 1
               PROVE (\A j \in DOMAIN ch2 : j > i => ch2[j] # ToGateway("close", c))
                       <=> \A j \in DOMAIN ch : j > i + 1 => ~Shut(j)
    OBVIOUS
  <2>1. \A j \in DOMAIN ch : j > i + 1 => j \in 2 .. n /\ j - 1 > i
    BY <1>1
  <2>2. \A j \in DOMAIN ch2 : j > i => j + 1 \in DOMAIN ch /\ j + 1 > i + 1 /\ ch2[j] = ch[j + 1]
    BY <1>1
  <2> QED BY <1>1, <1>3, <2>1, <2>2
<1>6. Final(ch2, c, next) <=>
        \/ \E i \in 2 .. n : ch[i] = ToGateway("open", c) /\ \A j \in DOMAIN ch : j > i => ~Shut(j)
        \/ next /\ \A j \in 2 .. n : ~Shut(j)
  <2>1. \A i \in 1 .. n - 1 : i + 1 \in 2 .. n /\ ch2[i] = ch[i + 1]
    BY <1>1
  <2>2. (\E i \in DOMAIN ch2 : /\ ch2[i] = ToGateway("open", c)
                               /\ \A j \in DOMAIN ch2 : j > i => ch2[j] # ToGateway("close", c))
          => \E i \in 2 .. n : ch[i] = ToGateway("open", c) /\ \A j \in DOMAIN ch : j > i => ~Shut(j)
    BY <1>1, <1>5, <2>1
  <2>3. ASSUME NEW i \in 2 .. n, ch[i] = ToGateway("open", c),
               \A j \in DOMAIN ch : j > i => ~Shut(j)
        PROVE  \E k \in DOMAIN ch2 : /\ ch2[k] = ToGateway("open", c)
                               /\ \A j \in DOMAIN ch2 : j > k => ch2[j] # ToGateway("close", c)
    <3>1. i - 1 \in 1 .. n - 1 /\ i - 1 + 1 = i /\ ch2[i - 1] = ch[i]
      BY <1>1, <1>3
    <3> QED BY <3>1, <1>1, <1>5, <2>3
  <2> QED BY <2>2, <2>3, <1>4 DEF Final
<1>7. Final(ch, c, now) <=>
        \/ \E i \in 1 .. n : ch[i] = ToGateway("open", c) /\ \A j \in DOMAIN ch : j > i => ~Shut(j)
        \/ now /\ \A j \in 1 .. n : ~Shut(j)
  BY <1>1 DEF Final
<1>8. \A i \in 1 .. n : i = 1 \/ i \in 2 .. n
  BY <1>1
<1>9. 1 \in 1 .. n /\ (\A i \in 2 .. n : i \in 1 .. n /\ i > 1) /\ \A j \in 1 .. n : j > 1 => j \in 2 .. n
  BY <1>1
<1> HIDE DEF Shut
<1>10. (\A j \in DOMAIN ch : j > 1 => ~Shut(j)) <=> \A j \in 2 .. n : ~Shut(j)
  BY <1>1, <1>9
<1>11. CASE ch[1] = ToGateway("open", c)
  <2>1. ~Shut(1) /\ next
    BY <1>11, <1>1, <1>2 DEF Shut
  <2> QED BY <1>6, <1>7, <1>8, <1>9, <1>10, <1>11, <2>1 DEF ch2
<1>12. CASE ch[1] = ToGateway("close", c)
  <2>1. Shut(1) /\ ~next /\ ch[1] # ToGateway("open", c)
    BY <1>12, <1>1, <1>2 DEF Shut
  <2> QED BY <1>6, <1>7, <1>8, <1>9, <2>1 DEF ch2
<1>13. CASE ch[1] \notin {ToGateway("open", c), ToGateway("close", c)}
  <2>1. ~Shut(1) /\ next = now /\ ch[1] # ToGateway("open", c)
    BY <1>13, <1>1 DEF Shut
  <2> QED BY <1>6, <1>7, <1>8, <1>9, <2>1 DEF ch2
<1> QED BY <1>11, <1>12, <1>13

LEMMA SeqOfNone == SetToSeq({}) = <<>>
<1>1. Cardinality({}) = 0
  BY FS_EmptySet
<1>2. \A f \in [1 .. 0 -> {}] : f = <<>>
  OBVIOUS
<1>3. \E f \in [1 .. 0 -> {}] : IsInjective(f)
  <2>1. <<>> \in [1 .. 0 -> {}] /\ IsInjective(<<>>)
    BY DEF IsInjective
  <2> QED BY <2>1
<1>4. SetToSeq({}) \in [1 .. 0 -> {}]
  BY <1>1, <1>3 DEF SetToSeq
<1> QED BY <1>2, <1>4

LEMMA SeqOfOne == ASSUME NEW x PROVE SetToSeq({x}) = <<x>>
<1>1. Cardinality({x}) = 1
  BY FS_Singleton
<1>2. \A f \in [1 .. 1 -> {x}] : f = <<x>>
  OBVIOUS
<1>3. \E f \in [1 .. 1 -> {x}] : IsInjective(f)
  <2>1. <<x>> \in [1 .. 1 -> {x}] /\ IsInjective(<<x>>)
    BY DEF IsInjective
  <2> QED BY <2>1
<1>4. SetToSeq({x}) \in [1 .. 1 -> {x}]
  BY <1>1, <1>3 DEF SetToSeq
<1> QED BY <1>2, <1>4

----------------------------------------------------------------------------
(* The gateway's part *)

LEMMA IdleStep == GwIInv /\ GwIdle => GwIInv'
  BY DEF GwIdle, GwIInv, GwTypeOK, FreshIds, Views, WhitelistTold, RosterAgrees,
         RosterLinked, LiveAreRegistered, OneConnectionEach, peerVars, linkVars

\* What the gateway reads is about a client, and is for it if it is registered.
LEMMA HandleCases ==
  ASSUME NEW m \in Downstream, m.cmd # "garbage", Handle(m)
  PROVE  /\ m.client \in Clients
         /\ \/ m.client \notin cps /\ GwIdle
            \/ m.client \in cps /\ m.cmd = "open" /\ ServiceOpen(Base, m.client)
            \/ m.client \in cps /\ m.cmd = "close" /\ ServiceClose(Base, m.client)
            \/ m.client \in cps /\ m.cmd = "data" /\ ServicePackage(Base, m.client)
<1>1. m.client \in Clients /\ m.cmd \in {"open", "close", "data"}
  BY DEF Downstream
<1>2. CASE m.client \notin cps
  BY <1>1, <1>2 DEF Handle
<1>3. CASE m.client \in cps
  BY <1>1, <1>3 DEF Handle
<1> QED BY <1>1, <1>2, <1>3

\* Every step of the composition is a step of the gateway, or leaves it idle.
LEMMA GatewayMoves == GlIInv /\ GlNext => GwIInv'
<1> SUFFICES ASSUME GlIInv, GlNext PROVE GwIInv'
  OBVIOUS
<1>0. GwIInv /\ Base \in Sids
  BY BaseAssumption DEF GlIInv
<1>1. CASE FromClients
  <2>1. GwNext
    BY <1>1, <1>0 DEF FromClients, GwNext
  <2> QED BY <2>1, <1>0, NextIInv
<1>2. CASE FromLobby
  <2>1. toG[cur] \in Seq(Downstream) /\ toG[cur] # <<>>
    BY <1>2 DEF FromLobby, GlIInv, MessagesOK, GlTypeOK
  <2> DEFINE m == Head(toG[cur])
  <2>2. m \in Downstream
    BY <2>1, HeadTailProperties
  <2>3. CASE m.cmd # "garbage" /\ Handle(m)
    <3> HIDE DEF m
    <3>1. GwIdle \/ GwNext
      BY <2>2, <2>3, <1>0, HandleCases DEF GwNext
    <3> QED BY <3>1, <1>0, IdleStep, NextIInv
  <2>4. CASE CloseService(Base)
    BY <2>4, <1>0, NextIInv DEF GwNext
  <2> QED BY <1>2, <2>3, <2>4 DEF FromLobby
<1>3. CASE GatewayEOF \/ GatewayError
  <2>1. GwNext
    BY <1>3, <1>0 DEF GatewayEOF, GatewayError, GwNext
  <2> QED BY <2>1, <1>0, NextIInv
<1>4. CASE Ping \/ Redial \/ Connected \/ NotConnected \/ GatewayRestart
  <2>1. GwNext
    BY <1>4, <1>0 DEF Ping, Redial, Connected, NotConnected, GatewayRestart, GwNext
  <2> QED BY <2>1, <1>0, NextIInv
<1>5. CASE LobbyRestarts
  BY <1>0, <1>5, IdleStep DEF LobbyRestarts
<1>6. CASE \E k \in Conns : \/ LobbyAccepts(k) \/ LobbyReads(k) \/ DropStale(k)
                            \/ LobbyEOF(k) \/ LobbyError(k)
  <2>1. GwIdle
    BY <1>6 DEF LobbyAccepts, LobbyReads, DropStale, LobbyEOF, LobbyError
  <2> QED BY <2>1, <1>0, IdleStep
<1> QED BY <1>1, <1>2, <1>3, <1>4, <1>5, <1>6 DEF GlNext

\* At most one message goes out in a step, on the current connection.
LEMMA DeliverOne ==
  ASSUME GlIInv, NEW cmd, NEW c, ToGateway(cmd, c) \in Upstream,
         sentS' \in {{}, {ToService(Base, cmd, c)}}, Deliver, cur' \in Conns \cup {NoConn}
  PROVE  /\ toS' \in [Conns -> Seq(Upstream)]
         /\ \A k \in Conns : k # cur' => toS'[k] = toS[k]
         /\ \A k \in Conns : toS'[k] \in {toS[k], Append(toS[k], ToGateway(cmd, c))}
<1>1. toS \in [Conns -> Seq(Upstream)]
  BY DEF GlIInv, MessagesOK
<1>2. CASE cur' \notin gpeers' \cup backlog'
  BY <1>1, <1>2 DEF Deliver
<1>3. CASE sentS' = {}
  <2>1. Outgoing = <<>>
    <3>1. {[cmd |-> m.cmd, client |-> m.client] : m \in sentS'} = {}
      BY <1>3
    <3> QED BY <3>1, SeqOfNone DEF Outgoing
  <2>2. \A k \in Conns : toS[k] \o <<>> = toS[k]
    BY <1>1, ConcatEmptySeq
  <2>3. toS' = toS
    BY <1>1, <2>1, <2>2, NoConnAssumption DEF Deliver
  <2> QED BY <1>1, <2>3
<1>4. CASE sentS' = {ToService(Base, cmd, c)} /\ cur' \in gpeers' \cup backlog'
  <2>1. Outgoing = <<ToGateway(cmd, c)>>
    <3>1. {[cmd |-> m.cmd, client |-> m.client] : m \in sentS'} = {ToGateway(cmd, c)}
      BY <1>4 DEF ToService, ToGateway
    <3> QED BY <3>1, SeqOfOne DEF Outgoing
  <2>2. \A k \in Conns : /\ toS[k] \o <<ToGateway(cmd, c)>> = Append(toS[k], ToGateway(cmd, c))
                         /\ Append(toS[k], ToGateway(cmd, c)) \in Seq(Upstream)
    BY <1>1, AppendIsConcat, AppendProperties
  <2>3. toS' = [toS EXCEPT ![cur'] = Append(@, ToGateway(cmd, c))]
    BY <1>4, <2>1, <2>2, <1>1 DEF Deliver
  <2> QED BY <1>1, <2>2, <2>3
<1> QED BY <1>2, <1>3, <1>4

----------------------------------------------------------------------------
(* The composition: each step preserves what GlIInv says beyond GwIInv *)

\* A message of a known client can be sent, and any message can be read.
LEMMA KnownAppend ==
  ASSUME NEW S, NEW ch \in Seq(S), NEW m \in S, NEW n, m.client <= n,
         \A i \in DOMAIN ch : ch[i].client <= n
  PROVE  \A i \in DOMAIN Append(ch, m) : Append(ch, m)[i].client <= n
<1>1. /\ DOMAIN Append(ch, m) = 1 .. Len(ch) + 1
      /\ DOMAIN ch = 1 .. Len(ch)
      /\ \A i \in 1 .. Len(ch) : Append(ch, m)[i] = ch[i]
      /\ Append(ch, m)[Len(ch) + 1] = m
      /\ Len(ch) \in Nat
  BY AppendProperties, LenProperties
<1>2. \A i \in 1 .. Len(ch) + 1 : i \in 1 .. Len(ch) \/ i = Len(ch) + 1
  BY <1>1
<1> QED BY <1>1, <1>2

LEMMA KnownTail ==
  ASSUME NEW S, NEW ch \in Seq(S), ch # <<>>, NEW n,
         \A i \in DOMAIN ch : ch[i].client <= n
  PROVE  /\ \A i \in DOMAIN Tail(ch) : Tail(ch)[i].client <= n
         /\ Head(ch).client <= n
<1>1. /\ DOMAIN Tail(ch) = 1 .. Len(ch) - 1
      /\ DOMAIN ch = 1 .. Len(ch)
      /\ \A i \in 1 .. Len(ch) - 1 : Tail(ch)[i] = ch[i + 1]
      /\ Len(ch) \in Nat \ {0}
      /\ Head(ch) = ch[1]
  BY HeadTailProperties, LenProperties, EmptySeq
<1>2. \A i \in 1 .. Len(ch) - 1 : i + 1 \in 1 .. Len(ch)
  BY <1>1
<1> QED BY <1>1, <1>2

\* A registered client has been let in.
LEMMA RegisteredKnown ==
  ASSUME GwIInv, NEW c \in cps
  PROVE  c \in Clients /\ c \in Nat /\ c <= cpeerAutoId
  BY MaxClientIdAssumption DEF GwIInv, GwTypeOK, FreshIds, LiveAreRegistered, Clients

\* The lobby's registry and its types do not depend on the gateway's clients.
LEMMA LobbyKept ==
  ASSUME GlIInv, GwIInv', UNCHANGED <<gpeers, waiting, id, gps, vpeers>>,
         cur' \in Conns \cup {NoConn}, backlog' \subseteq Conns,
         cur' # NoConn <=> Base \in dps', backlog' \cap gpeers = {},
         \A k \in Conns : Len(toS'[k]) <= MaxInFlight + 1 /\ Len(toG'[k]) <= MaxInFlight
  PROVE  GlTypeOK' /\ HandedOverOnce' /\ GoneIsBlank' /\ RegistryAgrees'
  BY DEF GlIInv, GlTypeOK, HandedOverOnce, GoneIsBlank, RegistryAgrees, GwIInv

\* Clients come, go and send: one more message is on its way to the lobby, and
\* a new client is not known there.
LEMMA FromClientsStep ==
  ASSUME GlIInv, GwIInv', FromClients
  PROVE  GlIInv'
<1>1. PICK c \in Clients, cmd \in {"accept", "disconnect", "data"} :
        /\ sentS' \in {{}, {ToService(Base, cmd, c)}}
        /\ c <= cpeerAutoId'
        /\ cpeerAutoId <= cpeerAutoId'
        /\ \A d \in cps' : \/ d \in cps /\ serverIds'[d] = serverIds[d]
                           \/ d > cpeerAutoId /\ serverIds'[d] = {}
  <2>0. GwIInv /\ cpeerAutoId \in Nat /\ OnlyBase
    BY DEF GlIInv, GwIInv, GwTypeOK
  <2>1. CASE AcceptClient
    <3> DEFINE c == cpeerAutoId + 1
    <3>1. c \in Clients /\ serverIds[c] = {} /\ c > cpeerAutoId
      BY <2>0, <2>1, MaxClientIdAssumption DEF AcceptClient, Clients, GwIInv, FreshIds
    <3>2. /\ sentS' = {ToService(Base, "accept", c)}
          /\ cpeerAutoId' = c
          /\ cps' = cps \cup {c}
          /\ serverIds' = serverIds
      BY <2>1 DEF AcceptClient, Emit, Tell
    <3>3. c \in Nat
      BY <2>0
    <3> HIDE DEF c
    <3>4. /\ sentS' \in {{}, {ToService(Base, "accept", c)}}
          /\ c <= cpeerAutoId' /\ cpeerAutoId <= cpeerAutoId'
          /\ \A d \in cps' : \/ d \in cps /\ serverIds'[d] = serverIds[d]
                             \/ d > cpeerAutoId /\ serverIds'[d] = {}
      BY <2>0, <3>1, <3>2, <3>3
    <3> QED BY <3>1, <3>4
  <2>2. ASSUME NEW c \in Clients, ClientPackage(c, Base) \/ ClientCommand(c)
        PROVE  /\ sentS' \in {{}, {ToService(Base, "data", c)}}
               /\ c <= cpeerAutoId' /\ cpeerAutoId <= cpeerAutoId'
               /\ \A d \in cps' : d \in cps /\ serverIds'[d] = serverIds[d]
    <3>1. c \in cps
      BY <2>0, <2>2 DEF ClientPackage, ClientCommand, Reads, GwIInv, LiveAreRegistered
    <3> QED BY <2>0, <2>2, <3>1, RegisteredKnown DEF ClientPackage, ClientCommand, Emit, Tell
  <2>3. ASSUME NEW c \in Clients, CloseClient(c, {}), c \in alive
        PROVE  /\ sentS' \in {{}, {ToService(Base, "disconnect", c)}}
               /\ c <= cpeerAutoId' /\ cpeerAutoId <= cpeerAutoId'
               /\ \A d \in cps' : d \in cps /\ serverIds'[d] = serverIds[d]
    <3>1. sentS' = {ToService(s, "disconnect", c) : s \in serverIds[c] \cap dps}
      BY <2>3 DEF CloseClient, Emit, Tell, Disconnects
    <3>2. serverIds[c] \cap dps \in {{}, {Base}}
      BY <2>0 DEF OnlyBase
    <3>3. sentS' \in {{}, {ToService(Base, "disconnect", c)}}
      BY <3>1, <3>2
    <3>4. c <= cpeerAutoId
      BY <2>0, <2>3 DEF GwIInv, FreshIds, Clients
    <3> QED BY <2>0, <2>3, <3>3, <3>4 DEF CloseClient
  <2>4. ASSUME NEW c \in Clients, ClientGone(c) \/ ClientTimeout(c)
        PROVE  CloseClient(c, {}) /\ c \in alive
    BY <2>4 DEF ClientGone, ClientTimeout
  <2> QED BY <2>1, <2>2, <2>3, <2>4 DEF FromClients
<1>2. /\ UNCHANGED <<lbVars, netVars>>
      /\ Deliver
      /\ cur # NoConn => Len(toS[cur]) < MaxInFlight
  BY DEF FromClients
<1>3. dps' = dps
  BY DEF FromClients, AcceptClient, ClientPackage, ClientCommand, ClientGone, ClientTimeout,
         CloseClient, linkVars
<1> DEFINE m == ToGateway(cmd, c)
<1>4. /\ gpeers' = gpeers /\ backlog' = backlog /\ vpeers' = vpeers /\ toG' = toG /\ cur' = cur
      /\ UNCHANGED <<gpeers, waiting, id, gps, vpeers>>
      /\ toS \in [Conns -> Seq(Upstream)] /\ cur \in Conns \cup {NoConn}
      /\ GlTypeOK
  BY <1>2 DEF lbVars, netVars, GlIInv, GlTypeOK, MessagesOK
<1>5. /\ toS' \in [Conns -> Seq(Upstream)]
      /\ \A k \in Conns : k # cur => toS'[k] = toS[k]
      /\ \A k \in Conns : toS'[k] \in {toS[k], Append(toS[k], m)}
      /\ m \in Upstream /\ m.client = c
  <2>1. ToGateway(cmd, c) \in Upstream
    BY UpstreamOf
  <2>2. m.client = c
    BY DEF ToGateway
  <2> QED BY <1>1, <1>2, <1>4, <2>1, <2>2, DeliverOne
<1> HIDE DEF m
<1>6. \A k \in Conns : Len(toS'[k]) <= MaxInFlight + 1 /\ Len(toG'[k]) <= MaxInFlight
  <2>1. \A k \in Conns : Len(toS[k]) \in Nat /\ Len(Append(toS[k], m)) = Len(toS[k]) + 1
    BY <1>4, <1>5, LenProperties, AppendProperties
  <2> SUFFICES ASSUME NEW k \in Conns
               PROVE  Len(toS'[k]) <= MaxInFlight + 1 /\ Len(toG'[k]) <= MaxInFlight
    OBVIOUS
  <2>2. Len(toS[k]) <= MaxInFlight + 1 /\ Len(toG[k]) <= MaxInFlight
    BY <1>4 DEF GlTypeOK
  <2>3. CASE k # cur
    BY <1>4, <1>5, <2>2, <2>3
  <2>4. CASE k = cur
    <3>1. Len(toS[k]) < MaxInFlight
      BY <1>2, <2>4, NoConnAssumption
    <3> QED BY <1>4, <1>5, <2>1, <2>2, <3>1, InFlightAssumption
  <2> QED BY <2>3, <2>4
<1>7. GlTypeOK' /\ HandedOverOnce' /\ GoneIsBlank' /\ RegistryAgrees'
  BY <1>3, <1>4, <1>6, LobbyKept DEF GlIInv, GlTypeOK, HandedOverOnce
<1>8. KnownClients'
  <2> SUFFICES ASSUME cur # NoConn
               PROVE  /\ \A d \in vpeers[cur] : d <= cpeerAutoId'
                      /\ \A i \in DOMAIN toS'[cur] : toS'[cur][i].client <= cpeerAutoId'
                      /\ \A i \in DOMAIN toG[cur] : toG[cur][i].client <= cpeerAutoId'
    BY <1>4 DEF KnownClients
  <2>0. cpeerAutoId \in Nat /\ cpeerAutoId' \in Nat
    BY DEF GlIInv, GwIInv, GwTypeOK
  <2>1. toG[cur] \in Seq(Downstream) /\ toS[cur] \in Seq(Upstream) /\ vpeers[cur] \subseteq Clients
    BY <1>4 DEF GlIInv, MessagesOK, GlTypeOK
  <2>2. /\ \A i \in DOMAIN toS[cur] : toS[cur][i].client \in Nat
        /\ \A i \in DOMAIN toG[cur] : toG[cur][i].client \in Nat
    BY <2>1, ElementOfSeq, LenProperties DEF Upstream, Downstream, Nobody, Clients
  <2>3. /\ \A d \in vpeers[cur] : d <= cpeerAutoId'
        /\ \A i \in DOMAIN toS[cur] : toS[cur][i].client <= cpeerAutoId'
        /\ \A i \in DOMAIN toG[cur] : toG[cur][i].client <= cpeerAutoId'
    BY <1>1, <2>0, <2>1, <2>2 DEF GlIInv, KnownClients, Clients
  <2>4. \A i \in DOMAIN Append(toS[cur], m) : Append(toS[cur], m)[i].client <= cpeerAutoId'
    BY <1>1, <1>5, <2>1, <2>3, KnownAppend
  <2> QED BY <1>4, <1>5, <2>3, <2>4
<1>9. Settled'
  <2> SUFFICES ASSUME cur \in gpeers \cup backlog, NEW d \in cps'
               PROVE  Final(toG[cur], d, Base \in serverIds'[d]) <=> d \in vpeers[cur]
    BY <1>4 DEF Settled
  <2>1. CASE d \in cps /\ serverIds'[d] = serverIds[d]
    BY <2>1 DEF GlIInv, Settled
  <2>2. CASE d > cpeerAutoId /\ serverIds'[d] = {}
    <3>1. cur \in Conns /\ cur # NoConn
      BY NoConnAssumption DEF GlIInv, GlTypeOK
    <3>2. cpeerAutoId \in Nat /\ d \in Nat
      BY RegisteredKnown DEF GlIInv, GwIInv, GwTypeOK, Clients
    <3>3. d \notin vpeers[cur]
      BY <2>2, <3>1, <3>2 DEF GlIInv, KnownClients
    <3>4. \A i \in DOMAIN toG[cur] : toG[cur][i] # ToGateway("open", d)
      BY <2>2, <3>1, <3>2 DEF GlIInv, KnownClients, ToGateway
    <3> QED BY <2>2, <3>3, <3>4 DEF Final
  <2> QED BY <1>1, <2>1, <2>2
<1> QED BY <1>3, <1>4, <1>5, <1>7, <1>8, <1>9 DEF GlIInv, MessagesOK, OnlyBase

\* The gateway lets go of its connection: what was on its way there is lost,
\* and nothing is promised of the connection any more.
LEMMA DropStep ==
  ASSUME GlIInv, GwIInv', cur' = NoConn, dps' = {},
         toG' \in {toG, [toG EXCEPT ![cur] = <<>>]},
         UNCHANGED <<gpeers, waiting, id, gps, vpeers, backlog, toS>>
  PROVE  GlIInv'
<1>1. /\ GlTypeOK /\ MessagesOK /\ HandedOverOnce
  BY DEF GlIInv
<1>2. \A k \in Conns : toG'[k] = toG[k] \/ toG'[k] = <<>>
  BY <1>1 DEF MessagesOK
<1>3. toG' \in [Conns -> Seq(Downstream)]
  <2>1. <<>> \in Seq(Downstream)
    BY EmptySeq
  <2> QED BY <1>1, <2>1 DEF MessagesOK
<1>4. \A k \in Conns : Len(toS'[k]) <= MaxInFlight + 1 /\ Len(toG'[k]) <= MaxInFlight
  BY <1>1, <1>2, InFlightAssumption DEF GlTypeOK
<1>5. GlTypeOK' /\ HandedOverOnce' /\ GoneIsBlank' /\ RegistryAgrees'
  BY <1>1, <1>4, LobbyKept DEF GlTypeOK, HandedOverOnce
<1>6. KnownClients' /\ Settled'
  BY <1>1, NoConnAssumption DEF KnownClients, Settled, GlTypeOK
<1> QED BY <1>1, <1>3, <1>5, <1>6 DEF GlIInv, MessagesOK, OnlyBase

\* A message of the lobby is read: the permission follows it.
LEMMA FromLobbyStep ==
  ASSUME GlIInv, GwIInv', FromLobby
  PROVE  GlIInv'
<1>1. CASE CloseService(Base) /\ DropCurrent /\ UNCHANGED <<toS, faults>>
  <2>1. dps' = {}
    BY <1>1 DEF CloseService, GlIInv, OnlyBase
  <2> QED BY <1>1, <2>1, DropStep DEF DropCurrent
<1>2. ASSUME cur # NoConn, toG[cur] # <<>>, Head(toG[cur]).cmd # "garbage",
             Handle(Head(toG[cur])), toG' = [toG EXCEPT ![cur] = Tail(@)],
             UNCHANGED <<gpeers, waiting, id, gps, vpeers, netVars, toS>>
      PROVE  GlIInv'
  <2> DEFINE ch == toG[cur]
             m == Head(ch)
  <2>1. /\ cur \in Conns /\ toG \in [Conns -> Seq(Downstream)] /\ toS \in [Conns -> Seq(Upstream)]
        /\ ch \in Seq(Downstream)
        /\ UNCHANGED <<gpeers, waiting, id, gps, vpeers>>
        /\ cur' = cur /\ backlog' = backlog /\ toS' = toS
        /\ GlTypeOK /\ HandedOverOnce
    BY <1>2 DEF GlIInv, GlTypeOK, MessagesOK, netVars
  <2>2. Tail(ch) \in Seq(Downstream) /\ Len(Tail(ch)) = Len(ch) - 1 /\ Len(ch) \in Nat /\ m \in Downstream
    BY <1>2, <2>1, HeadTailProperties, LenProperties
  <2>3. /\ toG' \in [Conns -> Seq(Downstream)]
        /\ toG'[cur] = Tail(ch)
        /\ \A k \in Conns : k # cur => toG'[k] = toG[k]
    BY <1>2, <2>1, <2>2
  <2>4. /\ m.client \in Clients
        /\ \/ m.client \notin cps /\ GwIdle
           \/ m.client \in cps /\ m.cmd = "open" /\ ServiceOpen(Base, m.client)
           \/ m.client \in cps /\ m.cmd = "close" /\ ServiceClose(Base, m.client)
           \/ m.client \in cps /\ m.cmd = "data" /\ ServicePackage(Base, m.client)
    BY <1>2, <2>2, HandleCases
  <2>5. cpeerAutoId' = cpeerAutoId /\ cps' = cps /\ dps' = dps
    BY <2>4 DEF GwIdle, ServiceOpen, ServiceClose, ServicePackage, peerVars, linkVars
  <2>6. \A k \in Conns : Len(toS'[k]) <= MaxInFlight + 1 /\ Len(toG'[k]) <= MaxInFlight
    <3> SUFFICES ASSUME NEW k \in Conns
                 PROVE  Len(toS'[k]) <= MaxInFlight + 1 /\ Len(toG'[k]) <= MaxInFlight
      OBVIOUS
    <3>1. Len(toS[k]) <= MaxInFlight + 1 /\ Len(toG[k]) <= MaxInFlight
      BY <2>1 DEF GlTypeOK
    <3>2. CASE k = cur
      BY <2>1, <2>2, <2>3, <3>1, <3>2, InFlightAssumption
    <3>3. CASE k # cur
      BY <2>1, <2>3, <3>1, <3>3
    <3> QED BY <3>2, <3>3
  <2>7. GlTypeOK' /\ HandedOverOnce' /\ GoneIsBlank' /\ RegistryAgrees'
    BY <2>1, <2>5, <2>6, LobbyKept DEF GlTypeOK, HandedOverOnce
  <2>8. KnownClients'
    <3>1. \A i \in DOMAIN ch : ch[i].client <= cpeerAutoId
      BY <1>2 DEF GlIInv, KnownClients
    <3>2. \A i \in DOMAIN Tail(ch) : Tail(ch)[i].client <= cpeerAutoId
      BY <1>2, <2>1, <3>1, KnownTail
    <3> QED BY <1>2, <2>1, <2>3, <2>5, <3>2 DEF GlIInv, KnownClients
  <2>9. Settled'
    <3> SUFFICES ASSUME cur \in gpeers \cup backlog, NEW c \in cps
                 PROVE  Final(Tail(ch), c, Base \in serverIds'[c]) <=> c \in vpeers[cur]
      BY <2>1, <2>3, <2>5 DEF Settled
    <3>1. c \in Clients /\ serverIds \in [Clients -> SUBSET Sids] /\ Base \in Sids
      BY BaseAssumption DEF GlIInv, GwIInv, GwTypeOK
    <3>2. m = ToGateway(m.cmd, m.client)
      BY <2>2, DownstreamOf
    <3> DEFINE now == Base \in serverIds[c]
               next == Base \in serverIds'[c]
    <3>3. /\ m = ToGateway("open", c) => next
          /\ m = ToGateway("close", c) => ~next
          /\ m \notin {ToGateway("open", c), ToGateway("close", c)} => next = now
      <4>1. \A cmd : m = ToGateway(cmd, c) <=> m.cmd = cmd /\ m.client = c
        BY <3>2, MsgEq
      <4>2. CASE m.client \notin cps /\ GwIdle
        <5>1. m.client # c /\ serverIds' = serverIds
          BY <4>2 DEF GwIdle, peerVars
        <5> QED BY <4>1, <5>1
      <4>3. CASE m.cmd = "open" /\ ServiceOpen(Base, m.client)
        <5>1. serverIds'[c] = IF c = m.client THEN serverIds[c] \cup {Base} ELSE serverIds[c]
          BY <3>1, <4>3 DEF ServiceOpen
        <5> QED BY <4>1, <4>3, <5>1
      <4>4. CASE m.cmd = "close" /\ ServiceClose(Base, m.client)
        <5>1. serverIds'[c] = IF c = m.client THEN serverIds[c] \ {Base} ELSE serverIds[c]
          BY <3>1, <4>4 DEF ServiceClose
        <5> QED BY <4>1, <4>4, <5>1
      <4>5. CASE m.cmd = "data" /\ ServicePackage(Base, m.client)
        <5>1. serverIds' = serverIds
          BY <4>5 DEF ServicePackage, peerVars
        <5> QED BY <4>1, <4>5, <5>1
      <4> QED BY <2>4, <4>2, <4>3, <4>4, <4>5
    <3>4. now \in BOOLEAN /\ next \in BOOLEAN
      OBVIOUS
    <3>5. Final(ch, c, now) <=> c \in vpeers[cur]
      BY DEF GlIInv, Settled
    <3> HIDE DEF now, next, ch
    <3>6. Final(Tail(ch), c, next) <=> Final(ch, c, now)
      BY <1>2, <2>1, <3>3, <3>4, FinalTail DEF ch
    <3> QED BY <3>5, <3>6 DEF next
  <2> QED BY <2>1, <2>3, <2>5, <2>7, <2>8, <2>9 DEF GlIInv, MessagesOK, OnlyBase
<1> QED BY <1>1, <1>2 DEF FromLobby

\* The lobby's end is gone, the connection fails, a ping is too old, or the
\* gateway starts again.
LEMMA LetGoStep ==
  ASSUME GlIInv, GwIInv',
         GatewayEOF \/ GatewayError \/ GatewayRestart \/ (Ping /\ dps' # dps)
  PROVE  GlIInv'
<1>1. CASE GatewayEOF \/ GatewayError
  <2>1. dps' = {}
    BY <1>1 DEF GatewayEOF, GatewayError, CloseService, GlIInv, OnlyBase
  <2> QED BY <1>1, <2>1, DropStep DEF GatewayEOF, GatewayError, DropCurrent
<1>2. CASE GatewayRestart
  <2>1. dps' = {}
    BY <1>2 DEF GatewayRestart, Restart
  <2> QED BY <1>2, <2>1, DropStep DEF GatewayRestart, DropCurrent, lbVars
<1>3. CASE Ping /\ dps' # dps
  <2>1. dps' = {}
    BY <1>3 DEF Ping, PingTick, GlIInv, OnlyBase
  <2>2. DropCurrent /\ toS' = toS
    BY <1>3 DEF Ping
  <2> QED BY <2>1, <2>2, DropStep DEF DropCurrent
<1> QED BY <1>1, <1>2, <1>3

\* The gateway's timers and dialers: at most a ping goes out.
LEMMA TimersStep ==
  ASSUME GlIInv, GwIInv', Redial \/ NotConnected \/ (Ping /\ dps' = dps)
  PROVE  GlIInv'
<1> DEFINE m == ToGateway("ping", Nobody)
<1>0. /\ GlTypeOK /\ GwIInv /\ OnlyBase /\ HandedOverOnce /\ cpeerAutoId \in Nat
      /\ toS \in [Conns -> Seq(Upstream)] /\ cur \in Conns \cup {NoConn}
      /\ m \in Upstream /\ m.client = 0
  BY UpstreamOf DEF GlIInv, GlTypeOK, MessagesOK, GwIInv, GwTypeOK, ToGateway, Nobody
<1>1. UNCHANGED <<gpeers, waiting, id, gps, vpeers, toG, cur, backlog>>
  BY DEF Redial, NotConnected, Ping, lbVars, netVars
<1>2. UNCHANGED <<cps, cpeerAutoId, serverIds, dps>>
  <2>1. CASE Redial \/ NotConnected
    BY <2>1 DEF Redial, NotConnected, TaskTick, DialFailed, peerVars
  <2>2. CASE Ping /\ dps' = dps
    <3>1. PICK S \in SUBSET dps : /\ dps' = dps \ S /\ serverIds' = WithoutServices(S)
                                  /\ UNCHANGED <<cps, cpeerAutoId>>
      BY <2>2 DEF Ping, PingTick
    <3>2. S = {}
      BY <2>2, <3>1
    <3>3. WithoutServices({}) = serverIds
      BY <1>0 DEF WithoutServices, GwIInv, GwTypeOK
    <3> QED BY <2>2, <3>1, <3>2, <3>3
  <2> QED BY <2>1, <2>2
<1>3. /\ toS' \in [Conns -> Seq(Upstream)]
      /\ \A k \in Conns : toS'[k] \in {toS[k], Append(toS[k], m)}
      /\ \A k \in Conns : k # cur => toS'[k] = toS[k]
      /\ cur # NoConn => toS' = toS \/ Len(toS[cur]) < MaxInFlight
  <2>1. CASE Redial \/ NotConnected
    BY <1>0, <2>1 DEF Redial, NotConnected
  <2>2. CASE Ping /\ dps' = dps
    <3>1. sentS' = {ToService(s, "ping", Nobody) : s \in {s \in dps : pinging[s] = 0}}
      BY <2>2 DEF Ping, PingTick, Emit, Tell
    <3>2. {s \in dps : pinging[s] = 0} \in {{}, {Base}}
      BY <1>0 DEF OnlyBase
    <3>3. sentS' \in {{}, {ToService(Base, "ping", Nobody)}}
      BY <3>1, <3>2
    <3>4. Deliver /\ (cur # NoConn => Len(toS[cur]) < MaxInFlight)
      BY <2>2 DEF Ping
    <3> HIDE DEF Nobody
    <3> QED BY <1>0, <1>1, <3>3, <3>4, DeliverOne
  <2> QED BY <2>1, <2>2
<1> HIDE DEF m
<1>4. \A k \in Conns : Len(toS'[k]) <= MaxInFlight + 1 /\ Len(toG'[k]) <= MaxInFlight
  <2> SUFFICES ASSUME NEW k \in Conns
               PROVE  Len(toS'[k]) <= MaxInFlight + 1 /\ Len(toG'[k]) <= MaxInFlight
    OBVIOUS
  <2>1. Len(toS[k]) <= MaxInFlight + 1 /\ Len(toG[k]) <= MaxInFlight
    BY <1>0 DEF GlTypeOK
  <2>2. Len(toS[k]) \in Nat /\ Len(Append(toS[k], m)) = Len(toS[k]) + 1
    BY <1>0, LenProperties, AppendProperties
  <2>3. CASE toS'[k] = toS[k]
    BY <1>1, <2>1, <2>3
  <2>4. CASE k = cur /\ Len(toS[k]) < MaxInFlight
    BY <1>1, <1>3, <2>1, <2>2, <2>4, InFlightAssumption
  <2> QED BY <1>3, <2>3, <2>4, NoConnAssumption
<1>5. GlTypeOK' /\ HandedOverOnce' /\ GoneIsBlank' /\ RegistryAgrees'
  BY <1>0, <1>1, <1>2, <1>4, LobbyKept DEF GlTypeOK, HandedOverOnce
<1>6. KnownClients'
  <2> SUFFICES ASSUME cur # NoConn
               PROVE  \A i \in DOMAIN toS'[cur] : toS'[cur][i].client <= cpeerAutoId
    BY <1>1, <1>2 DEF GlIInv, KnownClients
  <2>1. \A i \in DOMAIN toS[cur] : toS[cur][i].client <= cpeerAutoId
    BY DEF GlIInv, KnownClients
  <2>2. toS[cur] \in Seq(Upstream) /\ m.client <= cpeerAutoId
    BY <1>0
  <2>3. \A i \in DOMAIN Append(toS[cur], m) : Append(toS[cur], m)[i].client <= cpeerAutoId
    BY <1>0, <2>1, <2>2, KnownAppend
  <2> QED BY <1>0, <1>3, <2>1, <2>3
<1>7. Settled'
  BY <1>1, <1>2 DEF GlIInv, Settled
<1> QED BY <1>0, <1>1, <1>2, <1>3, <1>5, <1>6, <1>7 DEF GlIInv, MessagesOK, OnlyBase

\* A new connection: nothing is on its way, no VPeer exists on it, and the loss
\* of the last one took the lobby from every white list.
LEMMA ConnectedStep ==
  ASSUME GlIInv, GwIInv', Connected
  PROVE  GlIInv'
<1>1. PICK k \in Conns : /\ Free(k) /\ DialConnected(Base) /\ cur' = k
                         /\ backlog' = backlog \cup {k} /\ UNCHANGED <<lbVars, faults>> /\ Deliver
  BY DEF Connected
<1> DEFINE m == ToGateway("gatewayId", Nobody)
<1>2. /\ GlTypeOK /\ MessagesOK /\ GwIInv /\ OnlyBase /\ HandedOverOnce /\ cpeerAutoId \in Nat
      /\ m \in Upstream /\ m.client = 0
  BY UpstreamOf DEF GlIInv, GwIInv, GwTypeOK, ToGateway, Nobody
<1>3. /\ UNCHANGED <<cpeerAutoId, cps, serverIds>>
      /\ dps' = dps \cup {Base} /\ Base \notin dps
      /\ sentS' \in {{}, {ToService(Base, "gatewayId", Nobody)}}
  BY <1>1, <1>2 DEF DialConnected, peerVars, Emit, Tell, GwIInv, OneConnectionEach
<1>4. UNCHANGED <<gpeers, waiting, id, gps, vpeers, toG>>
  BY <1>1 DEF lbVars
<1>5. /\ toS' \in [Conns -> Seq(Upstream)]
      /\ \A j \in Conns : toS'[j] \in {toS[j], Append(toS[j], m)}
      /\ \A j \in Conns : j # k => toS'[j] = toS[j]
  BY <1>1, <1>2, <1>3, DeliverOne
<1>6. toS[k] = <<>> /\ toG[k] = <<>> /\ k \notin gpeers /\ k # NoConn /\ vpeers[k] = {}
  BY <1>1, NoConnAssumption DEF Free, LobbyHolds, GlIInv, GoneIsBlank
<1> HIDE DEF m
<1>7. \A j \in Conns : Len(toS'[j]) <= MaxInFlight + 1 /\ Len(toG'[j]) <= MaxInFlight
  <2> SUFFICES ASSUME NEW j \in Conns
               PROVE  Len(toS'[j]) <= MaxInFlight + 1 /\ Len(toG'[j]) <= MaxInFlight
    OBVIOUS
  <2>1. Len(toS[j]) <= MaxInFlight + 1 /\ Len(toG[j]) <= MaxInFlight
    BY <1>2 DEF GlTypeOK
  <2>2. Len(<<>>) = 0 /\ Len(Append(<<>>, m)) = 1
    OBVIOUS
  <2> QED BY <1>4, <1>5, <1>6, <2>1, <2>2, InFlightAssumption
<1>8. GlTypeOK' /\ HandedOverOnce' /\ GoneIsBlank' /\ RegistryAgrees'
  BY <1>1, <1>2, <1>3, <1>4, <1>6, <1>7, LobbyKept DEF GlTypeOK, HandedOverOnce
<1>9. KnownClients'
  <2>1. \A i \in DOMAIN toS'[k] : toS'[k][i].client <= cpeerAutoId
    <3>1. \A i \in DOMAIN Append(<<>>, m) : Append(<<>>, m)[i].client <= cpeerAutoId
      BY <1>2
    <3> QED BY <1>2, <1>5, <1>6, <3>1
  <2> QED BY <1>1, <1>3, <1>4, <1>6, <2>1 DEF KnownClients
<1>10. Settled'
  <2> SUFFICES ASSUME NEW c \in cps
               PROVE  Final(toG[k], c, Base \in serverIds[c]) <=> c \in vpeers[k]
    BY <1>1, <1>3, <1>4 DEF Settled
  <2>1. Base \notin serverIds[c]
    BY <1>2, <1>3, BaseAssumption DEF GwIInv, Views, RosterAgrees, RosterLinked
  <2> QED BY <1>6, <2>1 DEF Final
<1> QED BY <1>2, <1>3, <1>4, <1>5, <1>8, <1>9, <1>10 DEF GlIInv, MessagesOK, OnlyBase

\* The lobby takes a connection over, or the kernel drops what was on its way
\* to a gateway that let go of it.
LEMMA TakeOverStep ==
  ASSUME GlIInv, GwIInv', NEW k \in Conns, LobbyAccepts(k) \/ DropStale(k)
  PROVE  GlIInv'
<1>1. /\ UNCHANGED <<cps, cpeerAutoId, serverIds, dps, cur, toS, id, gps, vpeers>>
      /\ cur # NoConn => toG'[cur] = toG[cur]
      /\ \A j \in Conns : toG'[j] \in {toG[j], <<>>}
      /\ toG' \in [Conns -> Seq(Downstream)]
  <2>1. toG \in [Conns -> Seq(Downstream)] /\ <<>> \in Seq(Downstream)
    BY EmptySeq DEF GlIInv, MessagesOK
  <2> QED BY <2>1 DEF LobbyAccepts, DropStale, GAccept, GwIdle, peerVars, linkVars, netVars,
                      GlIInv, GlTypeOK
<1>2. /\ gpeers' \cup backlog' = gpeers \cup backlog
      /\ backlog' \cap gpeers' = {}
      /\ waiting' \subseteq gpeers'
      /\ gpeers \subseteq gpeers'
      /\ gpeers' \subseteq gpeers \cup {k}
      /\ k \in gpeers' /\ k \notin gpeers => id[k] = NoGateway
  BY DEF LobbyAccepts, DropStale, GAccept, netVars, GlIInv, HandedOverOnce, GoneIsBlank, GlTypeOK
<1>3. GlTypeOK'
  <2>1. GlTypeOK
    BY DEF GlIInv
  <2>2. \A j \in Conns : Len(toS'[j]) <= MaxInFlight + 1 /\ Len(toG'[j]) <= MaxInFlight
    BY <1>1, <2>1, InFlightAssumption DEF GlTypeOK
  <2> QED BY <1>1, <1>2, <2>1, <2>2 DEF GlTypeOK, GwIInv
<1>4. GoneIsBlank' /\ RegistryAgrees'
  BY <1>1, <1>2, NoGatewayAssumption DEF GlIInv, GoneIsBlank, RegistryAgrees
<1>5. KnownClients'
  BY <1>1 DEF GlIInv, KnownClients
<1>6. Settled'
  <2>1. cur \in gpeers \cup backlog => cur # NoConn
    BY NoConnAssumption DEF GlIInv, GlTypeOK
  <2> QED BY <1>1, <1>2, <2>1 DEF GlIInv, Settled
<1> QED BY <1>1, <1>2, <1>3, <1>4, <1>5, <1>6 DEF GlIInv, MessagesOK, OnlyBase, HandedOverOnce

\* GPeer::Close: the connection leaves the registry with everything it had.
LEMMA CloseConnStep ==
  ASSUME GlIInv, GwIInv', GwIdle, NEW k \in gpeers, GClose(k),
         toS' \in {toS, [toS EXCEPT ![k] = <<>>]},
         UNCHANGED <<cur, backlog>>
  PROVE  GlIInv'
<1>0. /\ GlTypeOK /\ MessagesOK /\ k \in Conns /\ k \notin backlog
      /\ UNCHANGED <<cps, cpeerAutoId, serverIds, dps, toG>>
  BY DEF GlIInv, GlTypeOK, GwIdle, peerVars, linkVars, HandedOverOnce, GClose
<1>1. /\ \A j \in Conns : toS'[j] \in {toS[j], <<>>}
      /\ toS' \in [Conns -> Seq(Upstream)]
  <2>1. <<>> \in Seq(Upstream)
    BY EmptySeq
  <2> QED BY <1>0, <2>1 DEF MessagesOK
<1>2. /\ gpeers' = gpeers \ {k}
      /\ waiting' = waiting \ {k}
      /\ vpeers' \in [Conns -> SUBSET Clients]
      /\ \A j \in Conns : vpeers'[j] = IF j = k THEN {} ELSE vpeers[j]
      /\ id' \in [Conns -> Gateways \cup {NoGateway}]
      /\ \A j \in Conns : id'[j] = IF j = k THEN NoGateway ELSE id[j]
      /\ gps' \in [Gateways -> Conns \cup {NoConn}]
      /\ \A g \in Gateways : gps'[g] = IF g = id[k] THEN NoConn ELSE gps[g]
  BY <1>0 DEF GClose, GlTypeOK
<1>3. GlTypeOK'
  <2>1. \A j \in Conns : Len(toS'[j]) <= MaxInFlight + 1 /\ Len(toG'[j]) <= MaxInFlight
    BY <1>0, <1>1, InFlightAssumption DEF GlTypeOK
  <2> QED BY <1>0, <1>2, <2>1 DEF GlTypeOK, GwIInv
<1>4. GoneIsBlank'
  BY <1>2 DEF GlIInv, GoneIsBlank
<1>5. RegistryAgrees'
  <2>1. \A j \in Conns, g \in Gateways : gps'[g] = j <=> j \in gpeers' /\ id'[j] = g
    <3> SUFFICES ASSUME NEW j \in Conns, NEW g \in Gateways
                 PROVE  gps'[g] = j <=> j \in gpeers' /\ id'[j] = g
      OBVIOUS
    <3>1. gps[g] = j <=> j \in gpeers /\ id[j] = g
      BY DEF GlIInv, RegistryAgrees
    <3>2. gps[g] = k <=> id[k] = g
      BY <1>0 DEF GlIInv, RegistryAgrees
    <3>3. NoConn # j /\ NoGateway # g
      BY NoConnAssumption, NoGatewayAssumption
    <3> QED BY <1>2, <3>1, <3>2, <3>3
  <2>2. \A j \in Conns : vpeers'[j] # {} => id'[j] # NoGateway
    BY <1>2 DEF GlIInv, RegistryAgrees
  <2> QED BY <2>1, <2>2 DEF RegistryAgrees
<1>6. KnownClients'
  <2> SUFFICES ASSUME cur # NoConn
               PROVE  /\ \A c \in vpeers'[cur] : c <= cpeerAutoId
                      /\ \A i \in DOMAIN toS'[cur] : toS'[cur][i].client <= cpeerAutoId
                      /\ \A i \in DOMAIN toG[cur] : toG[cur][i].client <= cpeerAutoId
    BY <1>0 DEF KnownClients
  <2>1. cur \in Conns
    BY <1>0 DEF GlTypeOK
  <2>2. vpeers'[cur] \subseteq vpeers[cur] /\ toS'[cur] \in {toS[cur], <<>>}
    BY <1>1, <1>2, <2>1
  <2> QED BY <2>2 DEF GlIInv, KnownClients
<1>7. Settled'
  <2>1. cur' \in gpeers' \cup backlog' => cur \in gpeers \cup backlog /\ cur # k /\ cur \in Conns
    BY <1>0, <1>2 DEF GlTypeOK
  <2> QED BY <1>0, <1>2, <2>1 DEF GlIInv, Settled
<1> QED BY <1>0, <1>1, <1>2, <1>3, <1>4, <1>5, <1>6, <1>7
        DEF GlIInv, MessagesOK, OnlyBase, HandedOverOnce

\* The lobby starts again: it holds no connection.
LEMMA LobbyRestartsStep ==
  ASSUME GlIInv, GwIInv', LobbyRestarts
  PROVE  GlIInv'
<1>1. /\ gpeers' = {} /\ backlog' = {} /\ waiting' = {} /\ cur' = cur /\ toG' = toG
      /\ id' = [k \in Conns |-> NoGateway] /\ gps' = [g \in Gateways |-> NoConn]
      /\ vpeers' = [k \in Conns |-> {}] /\ toS' = [k \in Conns |-> <<>>]
      /\ UNCHANGED <<cps, cpeerAutoId, serverIds, dps>>
  BY DEF LobbyRestarts, LobbyRestart, GwIdle, peerVars, linkVars
<1>2. toS' \in [Conns -> Seq(Upstream)]
  <2>1. <<>> \in Seq(Upstream)
    BY EmptySeq
  <2> QED BY <1>1, <2>1
<1>3. GlTypeOK /\ MessagesOK
  BY DEF GlIInv
<1>4. GlTypeOK'
  <2>1. \A j \in Conns : Len(toS'[j]) <= MaxInFlight + 1 /\ Len(toG'[j]) <= MaxInFlight
    BY <1>1, <1>3, InFlightAssumption DEF GlTypeOK
  <2> QED BY <1>1, <1>3, <2>1 DEF GlTypeOK, GwIInv
<1>5. GoneIsBlank' /\ RegistryAgrees' /\ Settled' /\ HandedOverOnce'
  BY <1>1, NoConnAssumption, NoGatewayAssumption
  DEF GoneIsBlank, RegistryAgrees, Settled, HandedOverOnce
<1>6. KnownClients'
  <2>1. cur # NoConn => cur \in Conns
    BY <1>3 DEF GlTypeOK
  <2> QED BY <1>1, <2>1 DEF GlIInv, KnownClients
<1> QED BY <1>1, <1>2, <1>3, <1>4, <1>5, <1>6 DEF GlIInv, MessagesOK, OnlyBase

\* A registered connection: the lobby reads a message, creates or closes a VPeer
\* and says so, or answers.
LEMMA AnswerStep ==
  ASSUME GlIInv, GwIInv', GwIdle, NEW k \in gpeers, id[k] # NoGateway, toS[k] # <<>>,
         Len(toG[k]) < MaxInFlight, NEW m \in Downstream, NEW V \in SUBSET Clients,
         m.client <= cpeerAutoId \/ k # cur,
         toG' = [toG EXCEPT ![k] = Append(@, m)],
         vpeers' = [vpeers EXCEPT ![k] = V],
         toS' = [toS EXCEPT ![k] = Tail(@)],
         \A c \in V : c \in vpeers[k] \/ c = m.client,
         \A c : /\ m = ToGateway("open", c) => c \in V
                /\ m = ToGateway("close", c) => c \notin V
                /\ m \notin {ToGateway("open", c), ToGateway("close", c)} =>
                     (c \in V <=> c \in vpeers[k]),
         UNCHANGED <<gpeers, waiting, id, gps, netVars>>
  PROVE  GlIInv'
<1>1. /\ GlTypeOK /\ MessagesOK /\ k \in Conns /\ cur' = cur /\ backlog' = backlog
      /\ cpeerAutoId \in Nat
      /\ UNCHANGED <<cps, cpeerAutoId, serverIds, dps>>
  BY DEF GlIInv, GlTypeOK, GwTypeOK, GwIdle, peerVars, linkVars, netVars
<1>2. /\ toG[k] \in Seq(Downstream) /\ toS[k] \in Seq(Upstream)
      /\ Append(toG[k], m) \in Seq(Downstream) /\ Len(Append(toG[k], m)) = Len(toG[k]) + 1
      /\ Tail(toS[k]) \in Seq(Upstream) /\ Len(Tail(toS[k])) = Len(toS[k]) - 1
      /\ Len(toG[k]) \in Nat /\ Len(toS[k]) \in Nat
  BY <1>1, AppendProperties, HeadTailProperties, LenProperties DEF MessagesOK
<1>3. /\ toG' \in [Conns -> Seq(Downstream)]
      /\ toS' \in [Conns -> Seq(Upstream)]
      /\ vpeers' \in [Conns -> SUBSET Clients]
      /\ toG'[k] = Append(toG[k], m) /\ toS'[k] = Tail(toS[k]) /\ vpeers'[k] = V
      /\ \A j \in Conns \ {k} : toG'[j] = toG[j] /\ toS'[j] = toS[j] /\ vpeers'[j] = vpeers[j]
  BY <1>1, <1>2 DEF MessagesOK, GlTypeOK
<1>4. GlTypeOK'
  <2>1. \A j \in Conns : Len(toS'[j]) <= MaxInFlight + 1 /\ Len(toG'[j]) <= MaxInFlight
    <3> SUFFICES ASSUME NEW j \in Conns
                 PROVE  Len(toS'[j]) <= MaxInFlight + 1 /\ Len(toG'[j]) <= MaxInFlight
      OBVIOUS
    <3>1. Len(toS[j]) <= MaxInFlight + 1 /\ Len(toG[j]) <= MaxInFlight
      BY <1>1 DEF GlTypeOK
    <3>2. CASE j = k
      BY <1>2, <1>3, <3>1, <3>2, InFlightAssumption
    <3> QED BY <1>3, <3>1, <3>2
  <2> QED BY <1>1, <1>3, <2>1 DEF GlTypeOK, GwIInv
<1>5. GoneIsBlank' /\ RegistryAgrees' /\ HandedOverOnce'
  <2>1. \A j \in Conns : j \notin gpeers => j # k
    OBVIOUS
  <2> QED BY <1>1, <1>3, <2>1 DEF GlIInv, GoneIsBlank, RegistryAgrees, HandedOverOnce
<1>6. KnownClients'
  <2> SUFFICES ASSUME cur # NoConn
               PROVE  /\ \A c \in vpeers'[cur] : c <= cpeerAutoId
                      /\ \A i \in DOMAIN toS'[cur] : toS'[cur][i].client <= cpeerAutoId
                      /\ \A i \in DOMAIN toG'[cur] : toG'[cur][i].client <= cpeerAutoId
    BY <1>1 DEF KnownClients
  <2>1. /\ \A c \in vpeers[cur] : c <= cpeerAutoId
        /\ \A i \in DOMAIN toS[cur] : toS[cur][i].client <= cpeerAutoId
        /\ \A i \in DOMAIN toG[cur] : toG[cur][i].client <= cpeerAutoId
        /\ cur \in Conns
    BY <1>1 DEF GlIInv, KnownClients, GlTypeOK
  <2>2. CASE cur # k
    BY <1>3, <2>1, <2>2
  <2>3. CASE cur = k
    <3>1. \A i \in DOMAIN Tail(toS[k]) : Tail(toS[k])[i].client <= cpeerAutoId
      BY <1>2, <2>1, <2>3, KnownTail
    <3>2. \A i \in DOMAIN Append(toG[k], m) : Append(toG[k], m)[i].client <= cpeerAutoId
      BY <1>2, <2>1, <2>3, KnownAppend
    <3> QED BY <1>3, <2>1, <2>3, <3>1, <3>2
  <2> QED BY <2>2, <2>3
<1>7. Settled'
  <2> SUFFICES ASSUME cur \in gpeers \cup backlog, NEW c \in cps
               PROVE  Final(toG'[cur], c, Base \in serverIds[c]) <=> c \in vpeers'[cur]
    BY <1>1 DEF Settled
  <2>1. cur \in Conns /\ (Final(toG[cur], c, Base \in serverIds[c]) <=> c \in vpeers[cur])
    BY <1>1 DEF GlIInv, Settled, GlTypeOK
  <2>2. CASE cur # k
    BY <1>3, <2>1, <2>2
  <2>3. CASE cur = k
    <3> DEFINE now == Base \in serverIds[c]
    <3>1. now \in BOOLEAN
      OBVIOUS
    <3> HIDE DEF now
    <3>2. /\ m = ToGateway("open", c) => Final(Append(toG[k], m), c, now)
          /\ m = ToGateway("close", c) => ~Final(Append(toG[k], m), c, now)
          /\ m \notin {ToGateway("open", c), ToGateway("close", c)} =>
               (Final(Append(toG[k], m), c, now) <=> Final(toG[k], c, now))
      BY <1>2, <3>1, FinalAppend
    <3>3. Final(toG[k], c, now) <=> c \in vpeers[k]
      BY <2>1, <2>3 DEF now
    <3>4. Final(toG'[k], c, now) <=> c \in V
      BY <1>3, <3>2, <3>3
    <3> QED BY <1>3, <2>3, <3>4 DEF now
  <2> QED BY <2>2, <2>3
<1> QED BY <1>1, <1>3, <1>4, <1>5, <1>6, <1>7 DEF GlIInv, MessagesOK, OnlyBase

\* A message the lobby reads and does not answer; the first package, which
\* registers the connection, is one.
LEMMA ConsumeStep ==
  ASSUME GlIInv, GwIInv', GwIdle, NEW k \in gpeers, toS[k] # <<>>,
         toS' = [toS EXCEPT ![k] = Tail(@)],
         \/ UNCHANGED <<waiting, id, gps>>
         \/ /\ id[k] = NoGateway /\ gps[G] = NoConn
            /\ gps' = [gps EXCEPT ![G] = k]
            /\ id' = [id EXCEPT ![k] = G]
            /\ waiting' = waiting \ {k},
         UNCHANGED <<gpeers, vpeers, toG, netVars>>
  PROVE  GlIInv'
<1>1. /\ GlTypeOK /\ MessagesOK /\ k \in Conns /\ cur' = cur /\ backlog' = backlog
      /\ UNCHANGED <<cps, cpeerAutoId, serverIds, dps>>
      /\ G \in Gateways
  BY GatewaysAssumption DEF GlIInv, GlTypeOK, GwIdle, peerVars, linkVars, netVars, G
<1>2. /\ toS[k] \in Seq(Upstream) /\ Tail(toS[k]) \in Seq(Upstream)
      /\ Len(Tail(toS[k])) = Len(toS[k]) - 1 /\ Len(toS[k]) \in Nat
  BY <1>1, HeadTailProperties, LenProperties DEF MessagesOK
<1>3. /\ toS' \in [Conns -> Seq(Upstream)]
      /\ toS'[k] = Tail(toS[k])
      /\ \A j \in Conns \ {k} : toS'[j] = toS[j]
  BY <1>1, <1>2 DEF MessagesOK
<1> HIDE DEF G
<1>4. GlTypeOK'
  <2>1. \A j \in Conns : Len(toS'[j]) <= MaxInFlight + 1 /\ Len(toG'[j]) <= MaxInFlight
    <3> SUFFICES ASSUME NEW j \in Conns
                 PROVE  Len(toS'[j]) <= MaxInFlight + 1 /\ Len(toG'[j]) <= MaxInFlight
      OBVIOUS
    <3>1. Len(toS[j]) <= MaxInFlight + 1 /\ Len(toG[j]) <= MaxInFlight
      BY <1>1 DEF GlTypeOK
    <3>2. CASE j = k
      BY <1>2, <1>3, <3>1, <3>2, InFlightAssumption
    <3> QED BY <1>3, <3>1, <3>2
  <2>2. /\ waiting' \subseteq gpeers
        /\ id' \in [Conns -> Gateways \cup {NoGateway}]
        /\ gps' \in [Gateways -> Conns \cup {NoConn}]
    BY <1>1 DEF GlTypeOK
  <2> QED BY <1>1, <2>1, <2>2 DEF GlTypeOK, GwIInv
<1>5. GoneIsBlank' /\ RegistryAgrees' /\ HandedOverOnce'
  <2>1. CASE UNCHANGED <<waiting, id, gps>>
    BY <1>1, <2>1 DEF GlIInv, GoneIsBlank, RegistryAgrees, HandedOverOnce
  <2>2. CASE /\ id[k] = NoGateway /\ gps[G] = NoConn
             /\ gps' = [gps EXCEPT ![G] = k]
             /\ id' = [id EXCEPT ![k] = G]
    <3>1. /\ \A g \in Gateways : gps'[g] = IF g = G THEN k ELSE gps[g]
          /\ \A j \in Conns : id'[j] = IF j = k THEN G ELSE id[j]
          /\ G # NoGateway
      BY <1>1, <2>2, NoGatewayAssumption DEF GlTypeOK
    <3>2. \A j \in Conns, g \in Gateways : gps'[g] = j <=> j \in gpeers /\ id'[j] = g
      <4> SUFFICES ASSUME NEW j \in Conns, NEW g \in Gateways
                   PROVE  gps'[g] = j <=> j \in gpeers /\ id'[j] = g
        OBVIOUS
      <4>1. gps[g] = j <=> j \in gpeers /\ id[j] = g
        BY DEF GlIInv, RegistryAgrees
      <4>2. NoConn # j /\ NoGateway # g
        BY NoConnAssumption, NoGatewayAssumption
      <4> QED BY <2>2, <3>1, <4>1, <4>2
    <3> QED BY <1>1, <3>1, <3>2 DEF GlIInv, GoneIsBlank, RegistryAgrees, HandedOverOnce
  <2> QED BY <2>1, <2>2
<1>6. KnownClients'
  <2> SUFFICES ASSUME cur # NoConn
               PROVE  \A i \in DOMAIN toS'[cur] : toS'[cur][i].client <= cpeerAutoId
    BY <1>1 DEF GlIInv, KnownClients
  <2>1. cur \in Conns /\ \A i \in DOMAIN toS[cur] : toS[cur][i].client <= cpeerAutoId
    BY <1>1 DEF GlIInv, KnownClients, GlTypeOK
  <2>2. cur = k => \A i \in DOMAIN Tail(toS[k]) : Tail(toS[k])[i].client <= cpeerAutoId
    BY <1>2, <2>1, KnownTail
  <2> QED BY <1>3, <2>1, <2>2
<1>7. Settled'
  BY <1>1 DEF GlIInv, Settled
<1> QED BY <1>1, <1>3, <1>4, <1>5, <1>6, <1>7 DEF GlIInv, MessagesOK, OnlyBase

LEMMA LobbyReadsStep ==
  ASSUME GlIInv, GwIInv', NEW k \in Conns, LobbyReads(k)
  PROVE  GlIInv'
<1> DEFINE m == Head(toS[k])
           c == m.client
<1>1. /\ k \in gpeers /\ toS[k] # <<>> /\ Len(toG[k]) < MaxInFlight /\ GwIdle
      /\ UNCHANGED netVars
      /\ toS' = [toS EXCEPT ![k] = IF k \in gpeers' THEN Tail(@) ELSE <<>>]
  BY DEF LobbyReads
<1>2. /\ toS[k] \in Seq(Upstream) /\ m \in Upstream
      /\ vpeers \in [Conns -> SUBSET Clients] /\ toG \in [Conns -> Seq(Downstream)]
      /\ cpeerAutoId \in Nat /\ cur' = cur /\ backlog' = backlog
  <2>1. toS[k] \in Seq(Upstream)
    BY DEF GlIInv, MessagesOK
  <2> QED BY <1>1, <2>1, HeadTailProperties
          DEF GlIInv, MessagesOK, GlTypeOK, GwTypeOK, netVars
<1>3. c <= cpeerAutoId \/ k # cur
  <2> SUFFICES ASSUME k = cur PROVE c <= cpeerAutoId
    OBVIOUS
  <2>1. \A i \in DOMAIN toS[k] : toS[k][i].client <= cpeerAutoId
    BY NoConnAssumption DEF GlIInv, KnownClients
  <2> QED BY <1>1, <1>2, <2>1, KnownTail
<1>4. m.cmd \in {"accept", "disconnect", "data"} => c \in Clients
  BY <1>2 DEF Upstream
<1> HIDE DEF m
<1>5. CASE GClose(k)
  <2>1. toS' = [toS EXCEPT ![k] = <<>>]
    BY <1>1, <1>5 DEF GClose
  <2> QED BY <1>1, <1>2, <1>5, <2>1, CloseConnStep
<1>6. CASE UNCHANGED lbVars
  <2>1. toS' = [toS EXCEPT ![k] = Tail(@)]
    BY <1>1, <1>6 DEF lbVars
  <2> QED BY <1>1, <1>6, <2>1, ConsumeStep DEF lbVars
<1>7. CASE id[k] = NoGateway /\ GFirstPackage(k, G) /\ ~GClose(k)
  <2>1. /\ gps[G] = NoConn
        /\ gps' = [gps EXCEPT ![G] = k]
        /\ id' = [id EXCEPT ![k] = G]
        /\ waiting' = waiting \ {k}
        /\ UNCHANGED <<gpeers, vpeers, toG>>
    BY <1>7 DEF GFirstPackage
  <2>2. toS' = [toS EXCEPT ![k] = Tail(@)]
    BY <1>1, <2>1
  <2> QED BY <1>1, <1>7, <2>1, <2>2, ConsumeStep
<1>8. CASE id[k] # NoGateway /\ GMisread(k)
  <2> DEFINE a == ToGateway("garbage", Nobody)
             V == vpeers[k]
  <2>1. /\ toG' = [toG EXCEPT ![k] = Append(@, a)]
        /\ UNCHANGED <<gpeers, waiting, id, gps, vpeers>>
    BY <1>8 DEF GMisread, Reply, Nobody
  <2>2. /\ toS' = [toS EXCEPT ![k] = Tail(@)]
        /\ vpeers' = [vpeers EXCEPT ![k] = V]
        /\ V \in SUBSET Clients
    BY <1>1, <1>2, <2>1
  <2>3. a \in Downstream /\ a.client <= cpeerAutoId
    BY <1>2, DownstreamOf DEF ToGateway, Nobody
  <2>4. \A d : a \notin {ToGateway("open", d), ToGateway("close", d)}
    BY MsgEq
  <2> HIDE DEF a, V
  <2>5. /\ \A d \in V : d \in vpeers[k] \/ d = a.client
        /\ \A d : /\ a = ToGateway("open", d) => d \in V
                  /\ a = ToGateway("close", d) => d \notin V
                  /\ a \notin {ToGateway("open", d), ToGateway("close", d)} =>
                       (d \in V <=> d \in vpeers[k])
    BY <2>4 DEF V
  <2> QED BY <1>1, <1>8, <2>1, <2>2, <2>3, <2>5, AnswerStep
<1>9. CASE id[k] # NoGateway /\ c \in Clients /\ c \notin vpeers[k] /\ GCmdAccept(k, c) /\ ~UNCHANGED lbVars
  <2> DEFINE a == ToGateway("open", c)
             V == vpeers[k] \cup {c}
  <2>1. /\ toG' = [toG EXCEPT ![k] = Append(@, a)]
        /\ vpeers' = [vpeers EXCEPT ![k] = V]
        /\ UNCHANGED <<gpeers, waiting, id, gps>>
    BY <1>2, <1>9 DEF GCmdAccept, Reply
  <2>2. /\ toS' = [toS EXCEPT ![k] = Tail(@)]
        /\ V \in SUBSET Clients
    BY <1>1, <1>2, <1>9, <2>1
  <2>3. a \in Downstream /\ a.client = c
    BY <1>9, DownstreamOf DEF ToGateway
  <2>4. /\ \A d \in V : d \in vpeers[k] \/ d = a.client
        /\ \A d : /\ a = ToGateway("open", d) => d \in V
                  /\ a = ToGateway("close", d) => d \notin V
                  /\ a \notin {ToGateway("open", d), ToGateway("close", d)} =>
                       (d \in V <=> d \in vpeers[k])
    BY <2>3, MsgEq
  <2> HIDE DEF a, V, c
  <2> QED BY <1>1, <1>3, <1>9, <2>1, <2>2, <2>3, <2>4, AnswerStep
<1>10. CASE id[k] # NoGateway /\ c \in Clients /\ VClose(k, c)
  <2> DEFINE a == ToGateway("close", c)
             V == vpeers[k] \ {c}
  <2>1. /\ toG' = [toG EXCEPT ![k] = Append(@, a)]
        /\ vpeers' = [vpeers EXCEPT ![k] = V]
        /\ UNCHANGED <<gpeers, waiting, id, gps>>
    BY <1>2, <1>10 DEF VClose, Reply
  <2>2. /\ toS' = [toS EXCEPT ![k] = Tail(@)]
        /\ V \in SUBSET Clients
    BY <1>1, <1>2, <2>1
  <2>3. a \in Downstream /\ a.client = c
    BY <1>10, DownstreamOf DEF ToGateway
  <2>4. /\ \A d \in V : d \in vpeers[k] \/ d = a.client
        /\ \A d : /\ a = ToGateway("open", d) => d \in V
                  /\ a = ToGateway("close", d) => d \notin V
                  /\ a \notin {ToGateway("open", d), ToGateway("close", d)} =>
                       (d \in V <=> d \in vpeers[k])
    BY <2>3, MsgEq
  <2> HIDE DEF a, V, c
  <2> QED BY <1>1, <1>3, <1>10, <2>1, <2>2, <2>3, <2>4, AnswerStep
<1>11. CASE /\ id[k] # NoGateway /\ c \in Clients
            /\ Reply(k, "data", c) /\ UNCHANGED <<gpeers, waiting, id, gps, vpeers>>
  <2> DEFINE a == ToGateway("data", c)
             V == vpeers[k]
  <2>1. toG' = [toG EXCEPT ![k] = Append(@, a)]
    BY <1>11 DEF Reply
  <2>2. /\ toS' = [toS EXCEPT ![k] = Tail(@)]
        /\ vpeers' = [vpeers EXCEPT ![k] = V]
        /\ V \in SUBSET Clients
    BY <1>1, <1>2, <1>11
  <2>3. a \in Downstream /\ a.client = c
    BY <1>11, DownstreamOf DEF ToGateway
  <2>4. \A d : a \notin {ToGateway("open", d), ToGateway("close", d)}
    BY MsgEq
  <2> HIDE DEF a, V, c
  <2>5. /\ \A d \in V : d \in vpeers[k] \/ d = a.client
        /\ \A d : /\ a = ToGateway("open", d) => d \in V
                  /\ a = ToGateway("close", d) => d \notin V
                  /\ a \notin {ToGateway("open", d), ToGateway("close", d)} =>
                       (d \in V <=> d \in vpeers[k])
    BY <2>4 DEF V
  <2> QED BY <1>1, <1>3, <1>11, <2>1, <2>2, <2>3, <2>5, AnswerStep
<1>12. \/ id[k] = NoGateway /\ (GFirstPackage(k, G) \/ GClose(k))
       \/ id[k] # NoGateway /\ GMisread(k)
       \/ /\ id[k] # NoGateway
          /\ \/ m.cmd = "accept" /\ GCmdAccept(k, c)
             \/ m.cmd = "disconnect" /\ GCmdDisconnect(k, c)
             \/ m.cmd = "data" /\ VReceive(k, c)
             \/ m.cmd = "ping" /\ GPing(k)
  BY DEF LobbyReads, m
<1> HIDE DEF c
<1>13. CASE id[k] # NoGateway /\ m.cmd = "accept" /\ GCmdAccept(k, c)
  BY <1>4, <1>6, <1>9, <1>13 DEF GCmdAccept
<1>14. CASE id[k] # NoGateway /\ m.cmd = "disconnect" /\ GCmdDisconnect(k, c)
  BY <1>4, <1>6, <1>10, <1>14 DEF GCmdDisconnect
<1>15. CASE id[k] # NoGateway /\ m.cmd = "data" /\ VReceive(k, c)
  BY <1>4, <1>6, <1>10, <1>11, <1>15 DEF VReceive
<1> QED BY <1>5, <1>6, <1>7, <1>8, <1>12, <1>13, <1>14, <1>15 DEF GPing

----------------------------------------------------------------------------
(* The invariant, and what follows from it *)

LEMMA InitGlIInv == GlInit => GlIInv
<1> SUFFICES ASSUME GlInit PROVE GlIInv
  OBVIOUS
<1>1. GwIInv
  BY InitIInv DEF GlInit
<1>2. MessagesOK
  <2>1. \A S : <<>> \in Seq(S)
    BY EmptySeq
  <2> QED BY <2>1 DEF GlInit, LbInit, MessagesOK
<1>3. GlTypeOK
  <2>1. \A k \in Conns : Len(toS[k]) <= MaxInFlight + 1 /\ Len(toG[k]) <= MaxInFlight
    BY InFlightAssumption DEF GlInit, LbInit
  <2> QED BY <1>1, <2>1 DEF GlInit, GwInit, LbInit, GlTypeOK, GwIInv
<1>4. OnlyBase /\ HandedOverOnce /\ GoneIsBlank /\ KnownClients /\ Settled
  BY DEF GlInit, GwInit, LbInit, OnlyBase, HandedOverOnce, GoneIsBlank, KnownClients, Settled
<1>5. RegistryAgrees
  BY NoConnAssumption, NoGatewayAssumption DEF GlInit, LbInit, RegistryAgrees
<1> QED BY <1>1, <1>2, <1>3, <1>4, <1>5 DEF GlIInv

LEMMA NextGlIInv == GlIInv /\ [GlNext]_glVars => GlIInv'
<1> SUFFICES ASSUME GlIInv, [GlNext]_glVars PROVE GlIInv'
  OBVIOUS
<1>1. CASE UNCHANGED glVars
  <2>1. UNCHANGED gwVars
    BY <1>1 DEF glVars
  <2>2. GwIInv'
    BY <2>1, NextIInv DEF GlIInv
  <2> QED BY <1>1, <2>2 DEF glVars, gwVars, lbVars, GlIInv, GlTypeOK, MessagesOK, OnlyBase, HandedOverOnce,
             GoneIsBlank, RegistryAgrees, KnownClients, Settled, GwIInv
<1>2. CASE GlNext
  <2>0. GwIInv'
    BY <1>2, GatewayMoves
  <2>1. CASE FromClients
    BY <2>0, <2>1, FromClientsStep
  <2>2. CASE FromLobby
    BY <2>0, <2>2, FromLobbyStep
  <2>3. CASE GatewayEOF \/ GatewayError \/ GatewayRestart \/ Ping
    BY <2>0, <2>3, LetGoStep, TimersStep
  <2>4. CASE Redial \/ NotConnected
    BY <2>0, <2>4, TimersStep
  <2>5. CASE Connected
    BY <2>0, <2>5, ConnectedStep
  <2>6. ASSUME NEW k \in Conns, LobbyAccepts(k) \/ DropStale(k)
        PROVE  GlIInv'
    BY <2>0, <2>6, TakeOverStep
  <2>7. ASSUME NEW k \in Conns, LobbyReads(k)
        PROVE  GlIInv'
    BY <2>0, <2>7, LobbyReadsStep
  <2>8. ASSUME NEW k \in Conns, LobbyEOF(k) \/ LobbyError(k)
        PROVE  GlIInv'
    <3>1. /\ k \in gpeers /\ GClose(k) /\ GwIdle /\ UNCHANGED <<cur, backlog>>
          /\ toS' \in {toS, [toS EXCEPT ![k] = <<>>]}
      BY <2>8 DEF LobbyEOF, LobbyError, netVars
    <3> QED BY <2>0, <3>1, CloseConnStep
  <2>9. CASE LobbyRestarts
    BY <2>0, <2>9, LobbyRestartsStep
  <2> QED BY <1>2, <2>1, <2>2, <2>3, <2>4, <2>5, <2>6, <2>7, <2>8, <2>9 DEF GlNext
<1> QED BY <1>1, <1>2

\* The inductive invariant holds of the gateway and the lobby together; with it,
\* all that is proved of the gateway alone holds in their company.
THEOREM GatewayLobbyInvariant == GlSpec => []GlIInv
<1>1. GlInit => GlIInv
  BY InitGlIInv
<1>2. GlIInv /\ [GlNext]_glVars => GlIInv'
  BY NextGlIInv
<1> QED BY <1>1, <1>2, PTL DEF GlSpec

\* The variables keep their types and no more than MaxInFlight messages, and the
\* gatewayId that opens a connection, are in flight ( Deliver, Reply ).
THEOREM GatewayLobbyTypeCorrect == GlSpec => []GlTypeOK
<1>1. GlIInv => GlTypeOK
  BY DEF GlIInv
<1> QED BY <1>1, GatewayLobbyInvariant, PTL

\* The registry and the connections name each other, whatever the order in which
\* an old connection ends and its successor registers ( GPeer::Close,
\* ReceiveFirstPackage ).
THEOREM RegistryIsConsistent == GlSpec => []RegistryAgrees
<1>1. GlIInv => RegistryAgrees
  BY DEF GlIInv
<1> QED BY <1>1, GatewayLobbyInvariant, PTL

\* Who may send to the lobby has a VPeer there, or will lose the permission
\* ( VPeer::VPeer sends "open", VPeer::Close "close", SPeer obeys ).
THEOREM PermissionsAreBacked == GlSpec => []PermissionBacked
<1>1. GlIInv => PermissionBacked
  <2> SUFFICES ASSUME GlIInv, NEW c \in cps, Base \in serverIds[c], cur \in gpeers, c \notin vpeers[cur]
               PROVE  InFlight(toG[cur], "close", c)
    BY DEF PermissionBacked
  <2>1. ~Final(toG[cur], c, Base \in serverIds[c])
    BY DEF GlIInv, Settled
  <2> QED BY <2>1 DEF Final, InFlight, ToGateway
<1> QED BY <1>1, GatewayLobbyInvariant, PTL

\* A VPeer of a registered client may be talked to, or the "open" is on its way.
THEOREM VPeersArePermitted == GlSpec => []VPeerPermitted
<1>1. GlIInv => VPeerPermitted
  <2> SUFFICES ASSUME GlIInv, cur \in gpeers, NEW c \in vpeers[cur] \cap cps, Base \notin serverIds[c]
               PROVE  InFlight(toG[cur], "open", c)
    BY DEF VPeerPermitted
  <2>1. Final(toG[cur], c, Base \in serverIds[c])
    BY DEF GlIInv, Settled
  <2> QED BY <2>1 DEF Final, InFlight, ToGateway
<1> QED BY <1>1, GatewayLobbyInvariant, PTL

\* What is proved of the gateway with services that do anything is so with the
\* lobby: clients and services hold open what the white lists say, and no
\* connection is forgotten or made twice, also across messages in flight, redials
\* and restarts of either process.
THEOREM GatewayIsRightWithLobby ==
  GlSpec => [](WhitelistTold /\ RosterAgrees /\ LiveAreRegistered /\ OneConnectionEach)
<1>1. GlIInv => WhitelistTold /\ RosterAgrees /\ LiveAreRegistered /\ OneConnectionEach
  BY DEF GlIInv, GwIInv, Views
<1> QED BY <1>1, GatewayLobbyInvariant, PTL
=============================================================================
