---------------------------- MODULE GatewayLobby ----------------------------
(***************************************************************************)
(* One gateway and the lobby that is its service 0, joined by TCP: bytes   *)
(* in flight, connections that end on one side first, a redial that        *)
(* overtakes the end of the old connection, restarts of either process.    *)
(***************************************************************************)
EXTENDS Gateway, Lobby, SequencesExt

CONSTANTS
  MaxInFlight,  \* bound: messages in flight on a connection before new input
  MaxFaults     \* bound: failures of connections and processes

ASSUME GatewaysAssumption == Gateways # {}
ASSUME InFlightAssumption == MaxInFlight \in Nat
ASSUME FaultsAssumption == MaxFaults \in Nat

G == CHOOSE g \in Gateways : TRUE     \* the one gateway's config.gatewayId

VARIABLES
  cur,      \* the connection of the gateway's SPeer, or NoConn
  backlog,  \* connections the kernel accepted for the lobby, not yet GListener
  toS,      \* what the gateway has sent on a connection, not read yet
  faults    \* how many failures have happened

glVars == <<gwVars, lbVars, cur, backlog, toS, faults>>
netVars == <<cur, backlog, faults>>

\* The far end of a connection still exists.
LobbyHolds(k) == k \in gpeers \cup backlog
Free(k) == ~LobbyHolds(k) /\ k # cur /\ toS[k] = <<>> /\ toG[k] = <<>>

\* What a gateway step sends to the lobby goes out on cur; what is sent to an
\* end that is gone is lost.
Outgoing == SetToSeq({[cmd |-> m.cmd, client |-> m.client] : m \in sentS'})
Deliver == toS' = IF cur' \in gpeers' \cup backlog'
                  THEN [toS EXCEPT ![cur'] = @ \o Outgoing]
                  ELSE toS

Fault == faults < MaxFaults /\ faults' = faults + 1

\* The gateway does not move, and sends nothing.
GwIdle == /\ UNCHANGED <<peerVars, linkVars, told, roster>>
          /\ sentC' = {}
          /\ sentS' = {}

GlInit ==
  /\ GwInit
  /\ LbInit
  /\ cur = NoConn
  /\ backlog = {}
  /\ toS = [k \in Conns |-> <<>>]
  /\ faults = 0

----------------------------------------------------------------------------
(* The gateway's side *)

\* Clients come, send, and go while there is room in flight.
FromClients ==
  /\ cur # NoConn => Len(toS[cur]) < MaxInFlight
  /\ \/ AcceptClient
     \/ \E c \in Clients : \/ ClientPackage(c, Base)
                           \/ ClientCommand(c)
                           \/ ClientGone(c)
                           \/ ClientTimeout(c)
  /\ UNCHANGED <<lbVars, netVars>>
  /\ Deliver

\* What has to be dropped when the gateway lets go of cur.
DropCurrent ==
  /\ cur' = NoConn
  /\ toG' = [toG EXCEPT ![cur] = <<>>]
  /\ UNCHANGED <<gpeers, waiting, id, gps, vpeers, backlog>>

\* What SPeer::Receive makes of a message.
Handle(m) ==
  CASE m.cmd = "ping" -> ServicePing(Base)
    [] m.cmd # "ping" /\ m.client \notin cps -> GwIdle
    [] m.cmd = "open" /\ m.client \in cps -> ServiceOpen(Base, m.client)
    [] m.cmd = "close" /\ m.client \in cps -> ServiceClose(Base, m.client)
    [] m.cmd = "data" /\ m.client \in cps -> ServicePackage(Base, m.client)

\* The gateway reads the next message of the lobby.
FromLobby ==
  /\ cur # NoConn
  /\ toG[cur] # <<>>
  /\ \/ /\ Head(toG[cur]).cmd # "garbage"
        /\ Handle(Head(toG[cur]))
        /\ toG' = [toG EXCEPT ![cur] = Tail(@)]
        /\ UNCHANGED <<gpeers, waiting, id, gps, vpeers, netVars, toS>>
     \/ /\ Head(toG[cur]).cmd = "garbage"
        /\ CloseService(Base)
        /\ DropCurrent
        /\ UNCHANGED <<toS, faults>>

\* The lobby's end is gone and everything it sent has been read.
GatewayEOF ==
  /\ cur # NoConn
  /\ ~LobbyHolds(cur)
  /\ toG[cur] = <<>>
  /\ CloseService(Base)
  /\ DropCurrent
  /\ UNCHANGED <<toS, faults>>

\* The connection fails as the gateway sees it.
GatewayError ==
  /\ cur # NoConn
  /\ Fault
  /\ CloseService(Base)
  /\ DropCurrent
  /\ UNCHANGED toS

Ping ==
  /\ cur # NoConn => Len(toS[cur]) < MaxInFlight
  /\ PingTick
  /\ IF dps' = dps
     THEN UNCHANGED <<lbVars, netVars>> /\ Deliver
     ELSE Fault /\ DropCurrent /\ UNCHANGED toS

Redial ==
  /\ TaskTick
  /\ busy' # busy
  /\ UNCHANGED <<lbVars, netVars, toS>>

Connected ==
  \E k \in Conns :
    /\ Free(k)
    /\ DialConnected(Base)
    /\ cur' = k
    /\ backlog' = backlog \cup {k}
    /\ UNCHANGED <<lbVars, faults>>
    /\ Deliver

NotConnected ==
  /\ Fault
  /\ DialFailed(Base)
  /\ UNCHANGED <<lbVars, cur, backlog, toS>>

GatewayRestart ==
  /\ Fault
  /\ Restart
  /\ IF cur = NoConn THEN UNCHANGED <<lbVars, cur, backlog>> ELSE DropCurrent
  /\ UNCHANGED toS

----------------------------------------------------------------------------
(* The lobby's side *)

LobbyAccepts(k) ==
  /\ k \in backlog
  /\ backlog' = backlog \ {k}
  /\ GAccept(k)
  /\ GwIdle
  /\ UNCHANGED <<cur, faults, toS>>

\* The lobby reads the next message of a gateway connection, while there is
\* room for what it answers.
LobbyReads(k) ==
  /\ k \in gpeers
  /\ toS[k] # <<>>
  /\ Len(toG[k]) < MaxInFlight
  /\ LET m == Head(toS[k]) IN
     \/ /\ id[k] = NoGateway
        /\ IF m.cmd = "gatewayId" THEN GFirstPackage(k, G) ELSE GClose(k)
     \/ id[k] # NoGateway /\ GMisread(k)
     \/ /\ id[k] # NoGateway
        /\ \/ m.cmd = "accept" /\ GCmdAccept(k, m.client)
           \/ m.cmd = "disconnect" /\ GCmdDisconnect(k, m.client)
           \/ m.cmd = "data" /\ VReceive(k, m.client)
           \/ m.cmd = "ping" /\ GPing(k)
  /\ toS' = [toS EXCEPT ![k] = IF k \in gpeers' THEN Tail(@) ELSE <<>>]
  /\ GwIdle
  /\ UNCHANGED <<netVars>>

\* What the lobby has sent when the gateway lets go of the connection is lost.
DropStale(k) ==
  /\ k # cur
  /\ toG[k] # <<>>
  /\ toG' = [toG EXCEPT ![k] = <<>>]
  /\ GwIdle
  /\ UNCHANGED <<gpeers, waiting, id, gps, vpeers, netVars, toS>>

LobbyEOF(k) ==
  /\ k \in gpeers
  /\ k # cur
  /\ toS[k] = <<>>
  /\ GClose(k)
  /\ GwIdle
  /\ UNCHANGED <<netVars, toS>>

\* The connection fails as the lobby sees it, or the first package is late.
LobbyError(k) ==
  /\ k \in gpeers
  /\ Fault
  /\ GClose(k)
  /\ toS' = [toS EXCEPT ![k] = <<>>]
  /\ GwIdle
  /\ UNCHANGED <<cur, backlog>>

LobbyRestarts ==
  /\ Fault
  /\ LobbyRestart
  /\ backlog' = {}
  /\ toS' = [k \in Conns |-> <<>>]
  /\ GwIdle
  /\ UNCHANGED <<cur>>

----------------------------------------------------------------------------
GlNext ==
  \/ FromClients
  \/ FromLobby
  \/ GatewayEOF
  \/ GatewayError
  \/ Ping
  \/ Redial
  \/ Connected
  \/ NotConnected
  \/ GatewayRestart
  \/ \E k \in Conns : \/ LobbyAccepts(k)
                      \/ LobbyReads(k)
                      \/ DropStale(k)
                      \/ LobbyEOF(k)
                      \/ LobbyError(k)
  \/ LobbyRestarts

\* Both loops keep running and TCP keeps delivering.
GlFairness ==
  /\ WF_glVars(FromLobby)
  /\ WF_glVars(GatewayEOF)
  /\ WF_glVars(Redial)
  /\ WF_glVars(Connected)
  /\ \A k \in Conns : /\ WF_glVars(LobbyAccepts(k))
                      /\ WF_glVars(LobbyReads(k))
                      /\ WF_glVars(DropStale(k))
                      /\ WF_glVars(LobbyEOF(k))

GlSpec == GlInit /\ [][GlNext]_glVars /\ GlFairness

----------------------------------------------------------------------------
(* Properties *)

InFlight(ch, cmd, c) == \E i \in DOMAIN ch : ch[i] = [cmd |-> cmd, client |-> c]
Mentions(ch, c) == \E i \in DOMAIN ch : ch[i].client = c

\* Types of the composition's own state and of the lobby's.
GlTypeOK ==
  /\ GwTypeOK
  /\ gpeers \subseteq Conns
  /\ waiting \subseteq gpeers
  /\ id \in [Conns -> Gateways \cup {NoGateway}]
  /\ gps \in [Gateways -> Conns \cup {NoConn}]
  /\ vpeers \in [Conns -> SUBSET Clients]
  /\ cur \in Conns \cup {NoConn}
  /\ backlog \subseteq Conns
  /\ \A k \in Conns : Len(toS[k]) <= MaxInFlight + 1 /\ Len(toG[k]) <= MaxInFlight
  /\ cur # NoConn <=> Base \in dps

\* The lobby's registry and its connections name each other, and only a
\* registered connection has VPeers: whatever the order in which an old
\* connection ends and its successor registers ( GPeer::Close,
\* ReceiveFirstPackage ).
RegistryAgrees ==
  /\ \A k \in Conns, g \in Gateways : gps[g] = k <=> k \in gpeers /\ id[k] = g
  /\ \A k \in Conns : vpeers[k] # {} => id[k] # NoGateway

\* A client that may send to the lobby has a VPeer there, or the "close" that
\* takes the permission back is on its way, or the connection is ending.
PermissionBacked ==
  \A c \in cps :
    Base \in serverIds[c] /\ cur \in gpeers =>
      c \in vpeers[cur] \/ InFlight(toG[cur], "close", c)

\* A VPeer of a client that is still registered may be talked to: the client's
\* permission is there, or its "open" on the way.
VPeerPermitted ==
  cur \in gpeers =>
    \A c \in vpeers[cur] \cap cps :
      Base \in serverIds[c] \/ InFlight(toG[cur], "open", c)

\* main.cpp: a client that drops off is reported to every service related to
\* it. So once all messages about a client have been read, the lobby has a
\* VPeer on the gateway's connection only for a client that is registered.
NoOrphanVPeer ==
  cur \in gpeers =>
    \A c \in vpeers[cur] :
      c \in cps \/ Mentions(toS[cur], c) \/ Mentions(toG[cur], c)

\* peer.cpp: "handle the ping command, echo the content back". So while a ping
\* is out on a connection the lobby holds, it or its echo is in flight; a ping
\* lost otherwise makes the gateway hang up on a lobby that is well.
PingEchoed ==
  cur # NoConn /\ LobbyHolds(cur) /\ pinging[Base] # 0 =>
    InFlight(toS[cur], "ping", Nobody) \/ InFlight(toG[cur], "ping", Nobody)

\* When failures stop, the gateway registers with the lobby again, although
\* the lobby refuses it for as long as an old connection of it lives. ( It
\* does not stay registered: see GMisread. )
Recovers == []<>(cur # NoConn /\ cur \in gpeers /\ id[cur] # NoGateway)
=============================================================================
