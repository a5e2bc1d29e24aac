------------------------------ MODULE Gateway ------------------------------
(***************************************************************************)
(* The gateway process (gateway_server_gateway and its kcp twin): clients  *)
(* dial in and become CPeers, dialers keep one SPeer per configured        *)
(* service, and the services open and close themselves to clients.         *)
(*                                                                         *)
(* One action is one event handler of the single-threaded epoll loop.      *)
(* What a handler hands to the sockets is the pair <<sentC, sentS>>; told  *)
(* and roster are what those messages add up to at the other ends once     *)
(* they are read (a TCP stream is read in order).                          *)
(***************************************************************************)
EXTENDS Naturals

CONSTANTS
  Sids,         \* the service ids of config.serverInfos
  Base,         \* service 0, server_base: it is told of every client
  MaxClientId,  \* bound: how many clients are accepted before a restart
  Delays,       \* the classes of "kick" delays the services use
  MaxAge        \* bound: the ticks after which a ping is surely too old

ASSUME BaseAssumption == Base \in Sids
ASSUME MaxClientIdAssumption == MaxClientId \in Nat
\* "now": delayMS = 0.  "subframe": 0 < delayMS < one frame, which
\* SecondsToFrames truncates to 0.  "later": at least one frame (or negative,
\* which DelayClose turns into 3 seconds).
ASSUME DelaysAssumption == Delays \subseteq {"now", "subframe", "later"}

\* A ping is too old after 5 seconds, at the second of the 3 second ticks. It
\* takes more when Context::Run catches up on frames it missed, and ticks follow
\* each other at once.
ASSUME MaxAgeAssumption == MaxAge \in Nat \ {0, 1}

Clients == 1 .. MaxClientId

VARIABLES
  cpeerAutoId,  \* Server::cpeerAutoId
  cps,          \* Server::cps, the ids of the registered CPeers
  alive,        \* CPeers with an open fd
  closed,       \* CPeers with closed = true: kicked, waiting for the timeout
  armed,        \* CPeers linked in the timeout wheel
  serverIds,    \* CPeer::serverIds, the white list
  dps,          \* the sids with a connected SPeer (dps[sid].second # null)
  busy,         \* the sids whose Dialer is dialing
  pinging,      \* per sid: 0 no ping is out, n: a ping is out for n - 1 ticks
  sentC, sentS, \* what the last step sent to clients and to services
  told,         \* per client: the sids it was last told are open
  roster        \* per sid: the clients opened on this connection, not yet
                \* closed by the service nor reported as disconnected

gwVars == <<cpeerAutoId, cps, alive, closed, armed, serverIds, dps, busy,
            pinging, sentC, sentS, told, roster>>
peerVars == <<cpeerAutoId, cps, alive, closed, armed, serverIds>>
linkVars == <<dps, busy, pinging>>

ToClient(c, cmd, s) == [client |-> c, cmd |-> cmd, sid |-> s]
ToService(s, cmd, c) == [sid |-> s, cmd |-> cmd, client |-> c]
Nobody == 0     \* the client of a message that concerns none

ClientMsg == [client: Clients, cmd: {"open", "close", "data", "echo"}, sid: Sids]
ServiceMsg == [sid: Sids, client: Clients \cup {Nobody},
               cmd: {"gatewayId", "accept", "disconnect", "data", "ping"}]

\* What the clients know when they have read what was sent.
Tell(toC, toS) ==
  /\ sentC' = toC
  /\ sentS' = toS
  /\ told' = [c \in Clients |->
       {s \in Sids : \/ ToClient(c, "open", s) \in toC
                     \/ s \in told[c] /\ ToClient(c, "close", s) \notin toC}]

\* And the services. Only a service opens itself, so it knows of an "open" it
\* has sent. Of the end of a client it knows what it is told.
Emit(toC, toS) ==
  /\ Tell(toC, toS)
  /\ roster' = [s \in Sids |->
       {c \in Clients : /\ s \in dps'
                        /\ \/ c \in roster[s]
                           \/ ToClient(c, "open", s) \in toC
                        /\ ToService(s, "disconnect", c) \notin toS}]

----------------------------------------------------------------------------
(* CPeer *)

\* mutant: only service 0 hears of the end of a client
DisconnectsBaseOnly(c) ==
  {ToService(s, "disconnect", c) : s \in serverIds[c] \cap dps \cap {Base}}

\* PartialClose: every connected service on the white list is told.
Disconnects(c) == {ToService(s, "disconnect", c) : s \in serverIds[c] \cap dps}

\* mutant: the connection is closed and stays in cps
CloseClientKeepsEntry(c, toC) ==
  /\ alive' = alive \ {c}
  /\ armed' = armed \ {c}
  /\ UNCHANGED <<cpeerAutoId, cps, closed, serverIds, linkVars>>
  /\ Emit(toC, Disconnects(c))

\* CPeer::Close, on an open fd. The timer goes with the object.
CloseClient(c, toC) ==
  /\ alive' = alive \ {c}
  /\ armed' = armed \ {c}
  /\ cps' = cps \ {c}
  /\ UNCHANGED <<cpeerAutoId, closed, serverIds, linkVars>>
  /\ Emit(toC, Disconnects(c))

\* mutant: a new client gets no idle timeout
AcceptClientUntimed ==
  LET c == cpeerAutoId + 1 IN
  /\ Base \in dps
  /\ cpeerAutoId < MaxClientId
  /\ cpeerAutoId' = c
  /\ cps' = cps \cup {c}
  /\ alive' = alive \cup {c}
  /\ UNCHANGED <<armed, closed, serverIds, linkVars>>
  /\ Emit({}, {ToService(Base, "accept", c)})

\* Listener::Accept: no client is let in while service 0 is not connected.
\* A refused connection dies with its CPeer and leaves no trace.
AcceptClient ==
  LET c == cpeerAutoId + 1 IN
  /\ Base \in dps
  /\ cpeerAutoId < MaxClientId
  /\ cpeerAutoId' = c
  /\ cps' = cps \cup {c}
  /\ alive' = alive \cup {c}
  /\ armed' = armed \cup {c}
  /\ UNCHANGED <<closed, serverIds, linkVars>>
  /\ Emit({}, {ToService(Base, "accept", c)})

\* mutant: a kicked peer is still read
ReadsKicked(c) == c \in alive

\* Peer::Receive reads only while the fd is open and the peer is not closed.
Reads(c) == c \in alive \ closed

\* CPeer::ReceivePackage: forwarded, and the timeout renewed, only for a
\* white-listed and connected service.
ClientPackage(c, s) ==
  /\ Reads(c)
  /\ s \in serverIds[c]
  /\ s \in dps
  /\ armed' = armed \cup {c}
  /\ UNCHANGED <<cpeerAutoId, cps, alive, closed, serverIds, linkVars>>
  /\ Emit({}, {ToService(s, "data", c)})

\* CPeer::ReceiveCommand: renews the timeout and echoes ( to an echo, the sid
\* means nothing ).
ClientCommand(c) ==
  /\ Reads(c)
  /\ armed' = armed \cup {c}
  /\ UNCHANGED <<cpeerAutoId, cps, alive, closed, serverIds, linkVars>>
  /\ Emit({ToClient(c, "echo", Base)}, {})

\* The connection ends: EOF, a socket error, or a malformed length.
ClientGone(c) == c \in alive /\ CloseClient(c, {})

\* TcpPeer::Timeout closes the peer, kicked or merely idle.
ClientTimeout(c) == c \in alive /\ c \in armed /\ CloseClient(c, {})

----------------------------------------------------------------------------
(* SPeer *)

\* mutant: a lost service stays on the white lists
WithoutServicesForgets(S) == serverIds

\* What SPeer::Close leaves of the state when the SPeers of S close: they go
\* from every registered white list, and each registered client is told.
WithoutServices(S) == [c \in Clients |->
  IF c \in cps THEN serverIds[c] \ S ELSE serverIds[c]]
Closes(S) == {ToClient(c, "close", s) : c \in cps, s \in S}

\* SPeer::Close: the connection failed, the peer hung up, or a packet was bad.
CloseService(s) ==
  /\ s \in dps
  /\ dps' = dps \ {s}
  /\ pinging' = [pinging EXCEPT ![s] = 0]
  /\ serverIds' = WithoutServices({s})
  /\ UNCHANGED <<cpeerAutoId, cps, alive, closed, armed, busy>>
  /\ Emit(Closes({s}), {})

\* SPeer::ReceivePackage and ReceiveCommand act on registered clients only
\* ( TryGetCPeer ); a message about any other client is dropped.
ServicePackage(s, c) ==
  /\ s \in dps
  /\ c \in cps
  /\ UNCHANGED <<peerVars, linkVars>>
  /\ Emit({ToClient(c, "data", s)}, {})

ServiceOpen(s, c) ==
  /\ s \in dps
  /\ c \in cps
  /\ serverIds' = [serverIds EXCEPT ![c] = @ \cup {s}]
  /\ UNCHANGED <<cpeerAutoId, cps, alive, closed, armed, linkVars>>
  /\ Emit({ToClient(c, "open", s)}, {})

\* A service closes itself, and knows it.
ServiceClose(s, c) ==
  /\ s \in dps
  /\ c \in cps
  /\ serverIds' = [serverIds EXCEPT ![c] = @ \ {s}]
  /\ UNCHANGED <<cpeerAutoId, cps, alive, closed, armed, linkVars>>
  /\ Tell({ToClient(c, "close", s)}, {})
  /\ roster' = [roster EXCEPT ![s] = @ \ {c}]

\* "kick" with delayMS = 0: CPeer::Close at once.
KickNow(s, c) ==
  /\ s \in dps
  /\ c \in cps
  /\ CloseClient(c, {})

\* mutant: DelayClose leaves the peer without a timeout
DelayedKickUntimed(s, c, delay) ==
  /\ s \in dps
  /\ c \in cps
  /\ closed' = closed \cup {c}
  /\ armed' = armed \ {c}
  /\ cps' = cps \ {c}
  /\ UNCHANGED <<cpeerAutoId, alive, serverIds, linkVars>>
  /\ Emit({ToClient(c, "close", Base)}, Disconnects(c))

\* "kick" with a delay: close(0) to the client, then CPeer::DelayClose, which
\* stops reading, leaves the end to the timeout and runs PartialClose.
\* SetTimeout(0) is what a delay of less than a frame comes to.
DelayedKick(s, c, delay) ==
  /\ s \in dps
  /\ c \in cps
  /\ closed' = closed \cup {c}
  /\ armed' = IF delay = "subframe" THEN armed \ {c} ELSE armed \cup {c}
  /\ cps' = cps \ {c}
  /\ UNCHANGED <<cpeerAutoId, alive, serverIds, linkVars>>
  /\ Emit({ToClient(c, "close", Base)}, Disconnects(c))

ServiceKick(s, c) ==
  \/ "now" \in Delays /\ KickNow(s, c)
  \/ \E delay \in Delays \ {"now"} : DelayedKick(s, c, delay)

\* The service answers the ping.
ServicePing(s) ==
  /\ s \in dps
  /\ pinging' = [pinging EXCEPT ![s] = 0]
  /\ UNCHANGED <<peerVars, dps, busy>>
  /\ Emit({}, {})

----------------------------------------------------------------------------
(* timers and dialers *)

\* mutant: a ping stays out however old it is
PingTickPatient ==
  LET idle == {s \in dps : pinging[s] = 0} IN
  /\ pinging' = [s \in Sids |->
       IF s \in dps /\ pinging[s] < MaxAge THEN pinging[s] + 1 ELSE pinging[s]]
  /\ UNCHANGED <<peerVars, dps, busy>>
  /\ Emit({}, {ToService(s, "ping", Nobody) : s \in idle})

\* mutant: the age of a ping is counted and never looked at
PingTickCounts ==
  LET idle == {s \in dps : pinging[s] = 0} IN
  /\ pinging' = [s \in Sids |-> IF s \in dps THEN pinging[s] + 1 ELSE 0]
  /\ UNCHANGED <<peerVars, dps, busy>>
  /\ Emit({}, {ToService(s, "ping", Nobody) : s \in idle})

\* PingTimer::Timeout, every 3 seconds, over all connected services. A ping
\* older than 5 seconds closes its SPeer: when the age is right depends on the
\* clock, which frames may lag behind.
PingTick ==
  \E old \in SUBSET {s \in dps : pinging[s] \in 1 .. MaxAge - 1} :
    LET cut == old \cup {s \in dps : pinging[s] = MaxAge}
        idle == {s \in dps : pinging[s] = 0} IN
    /\ dps' = dps \ cut
    /\ pinging' = [s \in Sids |->
         IF s \in dps \ cut THEN pinging[s] + 1 ELSE 0]
    /\ serverIds' = WithoutServices(cut)
    /\ UNCHANGED <<cpeerAutoId, cps, alive, closed, armed, busy>>
    /\ Emit(Closes(cut), {ToService(s, "ping", Nobody) : s \in idle})

\* mutant: connected services are dialed as well
TaskTickAll ==
  /\ busy' = Sids
  /\ UNCHANGED <<peerVars, dps, pinging>>
  /\ Emit({}, {})

\* TaskTimer::Timeout, every second: dial what is neither connected nor
\* dialing. A dial that fails at once is DialFailed right after it.
TaskTick ==
  /\ busy' = Sids \ dps
  /\ UNCHANGED <<peerVars, dps, pinging>>
  /\ Emit({}, {})

\* TcpConn::EpollEvent stops the dialer ( and the other attempts ) before
\* Dialer::Connect installs the new SPeer, which says who is calling.
DialConnected(s) ==
  /\ s \in busy
  /\ busy' = busy \ {s}
  /\ dps' = dps \cup {s}
  /\ pinging' = [pinging EXCEPT ![s] = 0]
  /\ UNCHANGED peerVars
  /\ Emit({}, {ToService(s, "gatewayId", Nobody)})

\* TcpDialer::Timeout, or a dial that could not start.
DialFailed(s) ==
  /\ s \in busy
  /\ busy' = busy \ {s}
  /\ UNCHANGED <<peerVars, dps, pinging>>
  /\ Emit({}, {})

\* Server::Run is left ( "quit" ) and the process starts again: the dialers
\* are stopped, the SPeers and then the CPeers closed ( by then no white list
\* names a service, so no disconnect goes out ), and all ids begin anew.
Restart ==
  /\ cpeerAutoId' = 0
  /\ cps' = {}
  /\ alive' = {}
  /\ closed' = {}
  /\ armed' = {}
  /\ serverIds' = [c \in Clients |-> {}]
  /\ dps' = {}
  /\ busy' = {}
  /\ pinging' = [s \in Sids |-> 0]
  /\ sentC' = Closes(dps)
  /\ sentS' = {}
  /\ told' = [c \in Clients |-> {}]
  /\ roster' = [s \in Sids |-> {}]

----------------------------------------------------------------------------
GwInit ==
  /\ cpeerAutoId = 0
  /\ cps = {}
  /\ alive = {}
  /\ closed = {}
  /\ armed = {}
  /\ serverIds = [c \in Clients |-> {}]
  /\ dps = {}
  /\ busy = {}
  /\ pinging = [s \in Sids |-> 0]
  /\ sentC = {}
  /\ sentS = {}
  /\ told = [c \in Clients |-> {}]
  /\ roster = [s \in Sids |-> {}]

GwNext ==
  \/ AcceptClient
  \/ \E c \in Clients : \/ ClientCommand(c)
                        \/ ClientGone(c)
                        \/ ClientTimeout(c)
  \/ \E c \in Clients, s \in Sids : \/ ClientPackage(c, s)
                                   \/ ServicePackage(s, c)
                                   \/ ServiceOpen(s, c)
                                   \/ ServiceClose(s, c)
                                   \/ ServiceKick(s, c)
  \/ \E s \in Sids : \/ ServicePing(s)
                     \/ CloseService(s)
                     \/ DialConnected(s)
                     \/ DialFailed(s)
  \/ PingTick
  \/ TaskTick
  \/ Restart

\* The wheel turns on every frame, so a tick is never put off for ever, nor is
\* the timeout of a kicked client: nothing renews it, for it is not read any
\* more. ( The timeout of other clients is renewed by what they send. )
GwFairness ==
  /\ \A c \in Clients : WF_gwVars(c \in closed /\ ClientTimeout(c))
  /\ WF_gwVars(PingTick)
  /\ WF_gwVars(TaskTick)

GwSpec == GwInit /\ [][GwNext]_gwVars /\ GwFairness

----------------------------------------------------------------------------
(* What the gateway promises *)

\* The types of the gateway's variables.
GwTypeOK ==
  /\ cpeerAutoId \in 0 .. MaxClientId
  /\ cps \subseteq Clients
  /\ alive \subseteq Clients
  /\ closed \subseteq Clients
  /\ armed \subseteq Clients
  /\ serverIds \in [Clients -> SUBSET Sids]
  /\ dps \subseteq Sids
  /\ busy \subseteq Sids
  /\ pinging \in [Sids -> 0 .. MaxAge]
  /\ sentC \subseteq ClientMsg
  /\ sentS \subseteq ServiceMsg
  /\ told \in [Clients -> SUBSET Sids]
  /\ roster \in [Sids -> SUBSET Clients]

\* A registered client that has read all that was sent to it holds open
\* exactly its white list, whatever services opened, closed, were lost or cut
\* in between ( SPeer::Close, ReceiveCommand "open" and "close" ).
WhitelistTold == \A c \in cps : told[c] = serverIds[c]

\* A service that has read all that was sent to it has exactly the registered
\* clients that white-list it: every way a client leaves ( closed, timed out,
\* kicked ) reports it to every service that opened it, and a lost connection
\* leaves no white list pointing at it ( PartialClose, SPeer::Close ).
RosterAgrees ==
  \A s \in Sids : roster[s] = {c \in cps : s \in serverIds[c]}

\* Every open client connection is either registered or kicked and waiting
\* for its timeout, never both: none is leaked by a path that leaves cps.
LiveAreRegistered == cps = alive \ closed

\* Every open client connection has a timeout in the wheel, so none outlives
\* a silent client ( CPeer::DelayClose: "use the timeout to Close" ).
EveryoneArmed == alive \subseteq armed

\* A service that is connected is not being dialed: Dialer::Connect overwrites
\* dps[serverId].second, and a second SPeer would orphan the first.
OneConnectionEach == busy \cap dps = {}

\* A service gets data only from clients it has opened on this connection and
\* that it has not been told are gone ( CPeer::ReceivePackage, Peer::closed ).
DataFromOpened ==
  [][\A m \in sentS' : m.cmd = "data" => m.client \in roster[m.sid]]_gwVars

\* A service hears once that a client it has opened is gone: peer.h says of
\* closed that "when the line drops Dispose is not executed again".
DisconnectOnce ==
  [][\A m \in sentS' : m.cmd = "disconnect" => m.client \in roster[m.sid]]_gwVars

\* A kicked client is disconnected in the end, even if it stays connected and
\* goes on sending.
KickedDies ==
  \A c \in Clients : c \in closed \cap alive ~> c \notin alive

\* A ping does not stay unanswered for ever: the answer comes or the
\* connection is cut.
PingResolved == \A s \in Sids : pinging[s] # 0 ~> pinging[s] = 0
=============================================================================
