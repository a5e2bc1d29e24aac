------------------------------- MODULE Lobby -------------------------------
(***************************************************************************)
(* The lobby process (gateway_server_lobby) as its gateways see it:        *)
(* GListener accepts connections, the first package registers a GPeer      *)
(* under its gatewayId, and every client a gateway announces becomes a     *)
(* VPeer of that connection. The handlers only: GatewayLobby feeds them.   *)
(***************************************************************************)
EXTENDS Naturals, Sequences

CONSTANTS
  Conns,     \* the TCP connections that can exist at a time
  NoConn,
  Gateways,  \* the gateway ids in use
  NoGateway  \* Peer::id = 0: no first package yet

ASSUME NoConnAssumption == NoConn \notin Conns
ASSUME NoGatewayAssumption == NoGateway \notin Gateways

VARIABLES
  gpeers,     \* the connections with an open GPeer
  waiting,    \* those whose 5 second first-package timeout is armed
  id,         \* Peer::id of each connection
  gps,        \* Server::gps: gatewayId -> connection
  vpeers,     \* GPeer::vpeers: the clients with a VPeer on a connection
  toG         \* what the lobby has sent on a connection, not read yet

lbVars == <<gpeers, waiting, id, gps, vpeers, toG>>

ToGateway(cmd, c) == [cmd |-> cmd, client |-> c]
Reply(k, cmd, c) == toG' = [toG EXCEPT ![k] = Append(@, ToGateway(cmd, c))]

LbInit ==
  /\ gpeers = {}
  /\ waiting = {}
  /\ id = [k \in Conns |-> NoGateway]
  /\ gps = [g \in Gateways |-> NoConn]
  /\ vpeers = [k \in Conns |-> {}]
  /\ toG = [k \in Conns |-> <<>>]

\* GListener::Accept.
GAccept(k) ==
  /\ gpeers' = gpeers \cup {k}
  /\ waiting' = waiting \cup {k}
  /\ UNCHANGED <<id, gps, vpeers, toG>>

\* mutant: Close forgets the registration
GCloseKeepsId(k) ==
  /\ gpeers' = gpeers \ {k}
  /\ waiting' = waiting \ {k}
  /\ vpeers' = [vpeers EXCEPT ![k] = {}]
  /\ id' = [id EXCEPT ![k] = NoGateway]
  /\ UNCHANGED <<gps, toG>>

\* mutant: the first-package timeout outlives the connection
GCloseKeepsTimer(k) ==
  /\ gpeers' = gpeers \ {k}
  /\ vpeers' = [vpeers EXCEPT ![k] = {}]
  /\ gps' = [g \in Gateways |-> IF g = id[k] THEN NoConn ELSE gps[g]]
  /\ id' = [id EXCEPT ![k] = NoGateway]
  /\ UNCHANGED <<waiting, toG>>

\* GPeer::Close: the VPeers go with it ( the gateway is not alive any more, so
\* they send nothing ), and the registration if there was one.
GClose(k) ==
  /\ gpeers' = gpeers \ {k}
  /\ waiting' = waiting \ {k}
  /\ vpeers' = [vpeers EXCEPT ![k] = {}]
  /\ gps' = [g \in Gateways |-> IF g = id[k] THEN NoConn ELSE gps[g]]
  /\ id' = [id EXCEPT ![k] = NoGateway]
  /\ UNCHANGED toG

\* mutant: a second registration replaces the first
GFirstPackageReplaces(k, g) ==
  /\ gps' = [gps EXCEPT ![g] = k]
  /\ id' = [id EXCEPT ![k] = g]
  /\ waiting' = waiting \ {k}
  /\ UNCHANGED <<gpeers, vpeers, toG>>

\* GPeer::ReceiveFirstPackage with gateway id g: a gateway that is registered
\* already is refused, whichever of its connections is the living one.
GFirstPackage(k, g) ==
  \/ /\ gps[g] = NoConn
     /\ gps' = [gps EXCEPT ![g] = k]
     /\ id' = [id EXCEPT ![k] = g]
     /\ waiting' = waiting \ {k}
     /\ UNCHANGED <<gpeers, vpeers, toG>>
  \/ gps[g] # NoConn /\ GClose(k)

\* mutant: the gateway is not told to open the client
GCmdAcceptSilent(k, c) ==
  /\ vpeers' = [vpeers EXCEPT ![k] = @ \cup {c}]
  /\ UNCHANGED <<gpeers, waiting, id, gps, toG>>

\* "accept": a known client id is ignored, a new one becomes a VPeer, whose
\* constructor sends "open".
GCmdAccept(k, c) ==
  \/ c \in vpeers[k] /\ UNCHANGED lbVars
  \/ /\ c \notin vpeers[k]
     /\ vpeers' = [vpeers EXCEPT ![k] = @ \cup {c}]
     /\ Reply(k, "open", c)
     /\ UNCHANGED <<gpeers, waiting, id, gps>>

\* mutant: the VPeer goes without a "close"
VCloseSilent(k, c) ==
  /\ vpeers' = [vpeers EXCEPT ![k] = @ \ {c}]
  /\ UNCHANGED <<gpeers, waiting, id, gps, toG>>

\* VPeer::Close while the gateway connection is alive.
VClose(k, c) ==
  /\ vpeers' = [vpeers EXCEPT ![k] = @ \ {c}]
  /\ Reply(k, "close", c)
  /\ UNCHANGED <<gpeers, waiting, id, gps>>

\* "disconnect": the client may just have been closed from this side.
GCmdDisconnect(k, c) ==
  IF c \in vpeers[k] THEN VClose(k, c) ELSE UNCHANGED lbVars

\* VPeer::Receive: a push is consumed, a known request answered, and anything
\* else closes the VPeer. A response finds no callback: nothing sends requests.
VReceive(k, c) ==
  \/ UNCHANGED lbVars
  \/ /\ c \in vpeers[k]
     /\ \/ VClose(k, c)
        \/ Reply(k, "data", c) /\ UNCHANGED <<gpeers, waiting, id, gps, vpeers>>

\* Peer::Receive takes for a ping any package with 0xFFFFFFFF in the four bytes
\* BEHIND it: the next package's length, or what an earlier read left in the
\* buffer ( every gateway command begins so ). It is not handled, and the bytes
\* from its last four on are sent, which the gateway reads as a length. The
\* last byte of a command is not 0, so that is beyond all limits. What a client
\* sent may end in any bytes: then the gateway may also wait for the rest, which
\* to the other steps is as if it did not read on, or take what follows for a
\* package, which is left out.
GMisread(k) ==
  Reply(k, "garbage", 0) /\ UNCHANGED <<gpeers, waiting, id, gps, vpeers>>

\* A package that is not misread goes to ReceivePackage, which knows no "ping".
GPing(k) == UNCHANGED lbVars

\* The process ends and is started again.
LobbyRestart ==
  /\ gpeers' = {}
  /\ waiting' = {}
  /\ id' = [k \in Conns |-> NoGateway]
  /\ gps' = [g \in Gateways |-> NoConn]
  /\ vpeers' = [k \in Conns |-> {}]
  /\ UNCHANGED toG
=============================================================================
