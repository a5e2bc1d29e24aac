--------------------------- MODULE GatewayProofs ---------------------------
(***************************************************************************)
(* The safety invariants of Gateway, proved for every set of services and  *)
(* every number of clients. GwIInv is inductive; FreshIds is the part no   *)
(* run lists: an id that has not been handed out yet is blank, so the next *)
(* client starts with an empty white list.                                 *)
(***************************************************************************)
EXTENDS Gateway, TLAPS

\* The ids above cpeerAutoId have never been used since the start.
FreshIds ==
  \A c \in Clients : c > cpeerAutoId =>
    /\ c \notin alive
    /\ c \notin closed
    /\ serverIds[c] = {}
    /\ told[c] = {}

\* Only a connected service has a roster.
RosterLinked == \A s \in Sids : roster[s] # {} => s \in dps

Views == WhitelistTold /\ RosterAgrees /\ RosterLinked

GwIInv ==
  /\ GwTypeOK
  /\ FreshIds
  /\ Views
  /\ LiveAreRegistered
  /\ OneConnectionEach

----------------------------------------------------------------------------
(* The messages of a step, by membership *)

LEMMA ClientMsgEq ==
  ASSUME NEW c, NEW cmd, NEW s, NEW d, NEW cmd2, NEW t
  PROVE  (ToClient(c, cmd, s) = ToClient(d, cmd2, t)) <=>
           (c = d /\ cmd = cmd2 /\ s = t)
  BY DEF ToClient

LEMMA ServiceMsgEq ==
  ASSUME NEW s, NEW cmd, NEW c, NEW t, NEW cmd2, NEW d
  PROVE  (ToService(s, cmd, c) = ToService(t, cmd2, d)) <=>
           (s = t /\ cmd = cmd2 /\ c = d)
  BY DEF ToService

\* PartialClose reports exactly the client, and exactly to the connected
\* services on its white list.
LEMMA DisconnectsOf ==
  ASSUME NEW c, NEW s, NEW d
  PROVE  ToService(s, "disconnect", d) \in Disconnects(c) <=>
           (d = c /\ s \in serverIds[c] \cap dps)
  BY ServiceMsgEq DEF Disconnects

\* SPeer::Close tells every registered client, and nobody else.
LEMMA ClosesOf ==
  ASSUME NEW S, NEW c, NEW s
  PROVE  /\ ToClient(c, "close", s) \in Closes(S) <=> (c \in cps /\ s \in S)
         /\ ToClient(c, "open", s) \notin Closes(S)
  BY ClientMsgEq DEF Closes

\* A step that sends no "open", no "close" and no "disconnect", and loses no
\* connection, leaves what the other ends know as it is.
LEMMA QuietStep ==
  ASSUME GwTypeOK, NEW toC, NEW toS, Emit(toC, toS),
         \A c \in Clients, s \in Sids :
           /\ ToClient(c, "open", s) \notin toC
           /\ ToClient(c, "close", s) \notin toC
           /\ ToService(s, "disconnect", c) \notin toS,
         \A s \in Sids : roster[s] # {} => s \in dps'
  PROVE  /\ told' = told
         /\ roster' = roster
<1>1. told' = told
  <2>1. told' = [c \in Clients |-> {s \in Sids : s \in told[c]}]
    BY DEF Emit, Tell
  <2>2. \A c \in Clients : {s \in Sids : s \in told[c]} = told[c]
    BY DEF GwTypeOK
  <2> QED BY <2>1, <2>2 DEF GwTypeOK
<1>2. roster' = roster
  <2>1. roster' = [s \in Sids |-> {c \in Clients : s \in dps' /\ c \in roster[s]}]
    BY DEF Emit, Tell
  <2>2. \A s \in Sids : {c \in Clients : s \in dps' /\ c \in roster[s]} = roster[s]
    BY DEF GwTypeOK
  <2> QED BY <2>1, <2>2 DEF GwTypeOK
<1> QED BY <1>1, <1>2

----------------------------------------------------------------------------
(* Each handler preserves the invariant *)

LEMMA InitIInv == GwInit => GwIInv
  BY MaxAgeAssumption, BaseAssumption, MaxClientIdAssumption
  DEF GwInit, GwIInv, GwTypeOK, FreshIds, Views, WhitelistTold, RosterAgrees,
      RosterLinked, LiveAreRegistered, OneConnectionEach

USE DEF Nobody

LEMMA AcceptStep == GwIInv /\ AcceptClient => GwIInv'
<1> SUFFICES ASSUME GwIInv, AcceptClient PROVE GwIInv'
  OBVIOUS
<1> DEFINE c == cpeerAutoId + 1
<1>1. c \in Clients /\ c \notin alive /\ c \notin closed /\ serverIds[c] = {} /\ told[c] = {}
  BY MaxClientIdAssumption DEF AcceptClient, Clients, GwIInv, FreshIds, GwTypeOK
<1>2. told' = told /\ roster' = roster
  <2>1. Emit({}, {ToService(Base, "accept", c)}) /\ dps' = dps
    BY DEF AcceptClient, linkVars
  <2>2. \A d \in Clients, s \in Sids : ToService(s, "disconnect", d) \notin {ToService(Base, "accept", c)}
    BY ServiceMsgEq
  <2>3. GwTypeOK /\ \A s \in Sids : roster[s] # {} => s \in dps'
    BY <2>1 DEF GwIInv, Views, RosterLinked
  <2> HIDE DEF c
  <2> QED BY <2>1, <2>2, <2>3, QuietStep
<1>3. GwTypeOK'
  <2>1. ToService(Base, "accept", c) \in ServiceMsg
    BY <1>1, BaseAssumption DEF ToService, ServiceMsg
  <2> QED BY <1>1, <1>2, <2>1, MaxClientIdAssumption DEF AcceptClient, GwTypeOK, GwIInv, linkVars, Emit, Tell
<1>4. FreshIds'
  BY <1>2 DEF AcceptClient, GwIInv, FreshIds, GwTypeOK, Clients
<1>5. Views'
  BY <1>1, <1>2 DEF AcceptClient, GwIInv, Views, WhitelistTold, RosterAgrees, RosterLinked, linkVars, GwTypeOK
<1>6. LiveAreRegistered' /\ OneConnectionEach'
  BY <1>1 DEF AcceptClient, GwIInv, LiveAreRegistered, OneConnectionEach, linkVars, GwTypeOK
<1> QED BY <1>3, <1>4, <1>5, <1>6 DEF GwIInv

\* The handlers that change nothing but a timeout.
LEMMA ClientInputStep ==
  ASSUME GwIInv, NEW c \in Clients, NEW s \in Sids,
         ClientPackage(c, s) \/ ClientCommand(c)
  PROVE  GwIInv'
<1>1. told' = told /\ roster' = roster
  <2>1. PICK toC, toS : /\ Emit(toC, toS)
                        /\ toC \in {{}, {ToClient(c, "echo", Base)}}
                        /\ toS \in {{}, {ToService(s, "data", c)}}
    BY DEF ClientPackage, ClientCommand
  <2>2. \A d \in Clients, t \in Sids : /\ ToClient(d, "open", t) \notin toC
                                     /\ ToClient(d, "close", t) \notin toC
                                     /\ ToService(t, "disconnect", d) \notin toS
    BY <2>1, ClientMsgEq, ServiceMsgEq
  <2>3. GwTypeOK /\ \A t \in Sids : roster[t] # {} => t \in dps'
    BY DEF GwIInv, Views, RosterLinked, ClientPackage, ClientCommand, linkVars
  <2> QED BY <2>1, <2>2, <2>3, QuietStep
<1>2. GwTypeOK'
  <2>1. ToService(s, "data", c) \in ServiceMsg /\ ToClient(c, "echo", Base) \in ClientMsg
    BY BaseAssumption DEF ToService, ServiceMsg, ToClient, ClientMsg
  <2> QED BY <1>1, <2>1 DEF ClientPackage, ClientCommand, GwTypeOK, GwIInv, linkVars, Emit, Tell
<1> QED
  BY <1>1, <1>2 DEF ClientPackage, ClientCommand, GwIInv, FreshIds, Views, WhitelistTold,
     RosterAgrees, RosterLinked, LiveAreRegistered, OneConnectionEach, linkVars

\* CPeer::Close and DelayClose share PartialClose: leaving cps and telling the
\* services are one step, so the rosters go on agreeing with the white lists.
LEMMA PartialCloseViews ==
  ASSUME GwIInv, NEW c \in Clients, NEW toC, Emit(toC, Disconnects(c)),
         \A d \in Clients, s \in Sids :
           /\ ToClient(d, "open", s) \notin toC
           /\ ToClient(d, "close", s) \in toC => d = c,
         cps' = cps \ {c}, UNCHANGED <<cpeerAutoId, serverIds, dps>>
  PROVE  /\ Views'
         /\ told' \in [Clients -> SUBSET Sids]
         /\ roster' \in [Sids -> SUBSET Clients]
         /\ \A d \in Clients : told'[d] \subseteq told[d]
<1>1. \A d \in Clients : told'[d] = {s \in Sids : s \in told[d] /\ ToClient(d, "close", s) \notin toC}
  BY DEF Emit, Tell
<1>2. \A s \in Sids : roster'[s] =
        {d \in Clients : /\ s \in dps /\ d \in roster[s]
                         /\ ~(d = c /\ s \in serverIds[c] \cap dps)}
  BY DisconnectsOf DEF Emit, Tell
<1>3. WhitelistTold'
  <2> SUFFICES ASSUME NEW d \in cps \ {c} PROVE told'[d] = serverIds[d]
    BY DEF WhitelistTold
  <2>1. d \in Clients /\ told[d] \subseteq Sids /\ told[d] = serverIds[d]
    BY DEF GwIInv, GwTypeOK, Views, WhitelistTold
  <2> QED BY <1>1, <2>1
<1>4. RosterAgrees' /\ RosterLinked'
  <2> SUFFICES ASSUME NEW s \in Sids
               PROVE  /\ roster'[s] = {d \in cps \ {c} : s \in serverIds[d]}
                      /\ roster'[s] # {} => s \in dps
    BY DEF RosterAgrees, RosterLinked
  <2>1. roster[s] = {d \in cps : s \in serverIds[d]} /\ (roster[s] # {} => s \in dps) /\ cps \subseteq Clients
    BY DEF GwIInv, GwTypeOK, Views, RosterAgrees, RosterLinked
  <2> QED BY <1>2, <2>1
<1>5. told' \in [Clients -> SUBSET Sids] /\ roster' \in [Sids -> SUBSET Clients]
  BY DEF Emit, Tell
<1> QED BY <1>1, <1>3, <1>4, <1>5 DEF Views

LEMMA DisconnectsType ==
  ASSUME GwTypeOK, NEW c \in Clients
  PROVE  Disconnects(c) \subseteq ServiceMsg
  BY DEF GwTypeOK, Disconnects, ToService, ServiceMsg

LEMMA CloseClientStep ==
  ASSUME GwIInv, NEW c \in Clients, CloseClient(c, {})
  PROVE  GwIInv'
<1>1. /\ Views'
      /\ told' \in [Clients -> SUBSET Sids]
      /\ roster' \in [Sids -> SUBSET Clients]
      /\ \A d \in Clients : told'[d] \subseteq told[d]
  BY PartialCloseViews DEF CloseClient, linkVars
<1>2. GwTypeOK'
  BY <1>1, DisconnectsType DEF CloseClient, GwIInv, GwTypeOK, linkVars, Emit, Tell
<1>3. FreshIds'
  BY <1>1 DEF CloseClient, GwIInv, FreshIds
<1>4. LiveAreRegistered' /\ OneConnectionEach'
  BY DEF CloseClient, GwIInv, LiveAreRegistered, OneConnectionEach, linkVars
<1> QED BY <1>1, <1>2, <1>3, <1>4 DEF GwIInv

LEMMA DelayedKickStep ==
  ASSUME GwIInv, NEW s \in Sids, NEW c \in Clients, NEW delay, DelayedKick(s, c, delay)
  PROVE  GwIInv'
<1>1. /\ Views'
      /\ told' \in [Clients -> SUBSET Sids]
      /\ roster' \in [Sids -> SUBSET Clients]
      /\ \A d \in Clients : told'[d] \subseteq told[d]
  <2>1. /\ Emit({ToClient(c, "close", Base)}, Disconnects(c))
        /\ cps' = cps \ {c}
        /\ UNCHANGED <<cpeerAutoId, serverIds, dps>>
    BY DEF DelayedKick, linkVars
  <2>2. \A d \in Clients, t \in Sids :
          /\ ToClient(d, "open", t) \notin {ToClient(c, "close", Base)}
          /\ ToClient(d, "close", t) \in {ToClient(c, "close", Base)} => d = c
    BY ClientMsgEq
  <2> QED BY <2>1, <2>2, PartialCloseViews
<1>2. GwTypeOK'
  <2>1. ToClient(c, "close", Base) \in ClientMsg
    BY BaseAssumption DEF ToClient, ClientMsg
  <2> QED BY <1>1, <2>1, DisconnectsType DEF DelayedKick, GwIInv, GwTypeOK, linkVars, Emit, Tell
<1>3. FreshIds'
  BY <1>1 DEF DelayedKick, GwIInv, FreshIds, LiveAreRegistered
<1>4. LiveAreRegistered' /\ OneConnectionEach'
  BY DEF DelayedKick, GwIInv, LiveAreRegistered, OneConnectionEach, linkVars
<1> QED BY <1>1, <1>2, <1>3, <1>4 DEF GwIInv

\* SPeer::Close and the ping timer: the services of S lose their connection,
\* their place on the white lists, and every registered client is told.
LEMMA LoseServices ==
  ASSUME GwIInv, NEW S \in SUBSET dps, NEW toS, Emit(Closes(S), toS),
         \A c \in Clients, s \in Sids : ToService(s, "disconnect", c) \notin toS,
         toS \subseteq ServiceMsg,
         dps' = dps \ S, serverIds' = WithoutServices(S),
         pinging' \in [Sids -> 0 .. MaxAge],
         UNCHANGED <<cpeerAutoId, cps, alive, closed, armed, busy>>
  PROVE  GwIInv'
<1>1. \A d \in Clients : told'[d] =
        {s \in Sids : s \in told[d] /\ ~(d \in cps /\ s \in S)}
  BY ClosesOf DEF Emit, Tell
<1>2. \A s \in Sids : roster'[s] =
        {d \in Clients : s \in dps \ S /\ d \in roster[s]}
  BY ClosesOf DEF Emit, Tell
<1>3. \A d \in Clients : serverIds'[d] =
        IF d \in cps THEN serverIds[d] \ S ELSE serverIds[d]
  BY DEF WithoutServices
<1>4. WhitelistTold'
  <2> SUFFICES ASSUME NEW d \in cps PROVE told'[d] = serverIds'[d]
    BY DEF WhitelistTold
  <2>1. d \in Clients /\ told[d] = serverIds[d] /\ told[d] \subseteq Sids
    BY DEF GwIInv, GwTypeOK, Views, WhitelistTold
  <2> QED BY <1>1, <1>3, <2>1
<1>5. RosterAgrees' /\ RosterLinked'
  <2> SUFFICES ASSUME NEW s \in Sids
               PROVE  /\ roster'[s] = {d \in cps : s \in serverIds'[d]}
                      /\ roster'[s] # {} => s \in dps'
    BY DEF RosterAgrees, RosterLinked
  <2>1. /\ roster[s] = {d \in cps : s \in serverIds[d]}
        /\ roster[s] # {} => s \in dps
        /\ cps \subseteq Clients
    BY DEF GwIInv, GwTypeOK, Views, RosterAgrees, RosterLinked
  <2> QED BY <1>2, <1>3, <2>1
<1>6. GwTypeOK'
  <2>1. Closes(S) \subseteq ClientMsg
    BY DEF GwIInv, GwTypeOK, Closes, ToClient, ClientMsg
  <2>2. told' \in [Clients -> SUBSET Sids] /\ roster' \in [Sids -> SUBSET Clients]
    BY DEF Emit, Tell
  <2>3. serverIds' \in [Clients -> SUBSET Sids]
    BY DEF GwIInv, GwTypeOK, WithoutServices
  <2> QED BY <2>1, <2>2, <2>3 DEF GwIInv, GwTypeOK, Emit, Tell
<1>7. FreshIds'
  BY <1>1, <1>3 DEF GwIInv, FreshIds
<1>8. LiveAreRegistered' /\ OneConnectionEach'
  BY DEF GwIInv, LiveAreRegistered, OneConnectionEach
<1> QED BY <1>4, <1>5, <1>6, <1>7, <1>8 DEF GwIInv, Views

LEMMA CloseServiceStep ==
  ASSUME GwIInv, NEW s \in Sids, CloseService(s)
  PROVE  GwIInv'
<1>1. pinging' \in [Sids -> 0 .. MaxAge]
  BY MaxAgeAssumption DEF CloseService, GwIInv, GwTypeOK
<1>2. \A c \in Clients, t \in Sids : ToService(t, "disconnect", c) \notin {}
  OBVIOUS
<1> QED BY <1>1, <1>2, LoseServices DEF CloseService

LEMMA PingTickStep == GwIInv /\ PingTick => GwIInv'
<1> SUFFICES ASSUME GwIInv, PingTick PROVE GwIInv'
  OBVIOUS
<1> PICK old \in SUBSET {s \in dps : pinging[s] \in 1 .. MaxAge - 1} :
      LET cut == old \cup {s \in dps : pinging[s] = MaxAge}
          idle == {s \in dps : pinging[s] = 0} IN
      /\ dps' = dps \ cut
      /\ pinging' = [s \in Sids |->
           IF s \in dps \ cut THEN pinging[s] + 1 ELSE 0]
      /\ serverIds' = WithoutServices(cut)
      /\ UNCHANGED <<cpeerAutoId, cps, alive, closed, armed, busy>>
      /\ Emit(Closes(cut), {ToService(s, "ping", Nobody) : s \in idle})
  BY DEF PingTick
<1> DEFINE cut == old \cup {s \in dps : pinging[s] = MaxAge}
           toS == {ToService(s, "ping", Nobody) : s \in {s \in dps : pinging[s] = 0}}
<1>1. pinging' \in [Sids -> 0 .. MaxAge]
  BY MaxAgeAssumption DEF GwIInv, GwTypeOK
<1>2. \A c \in Clients, t \in Sids : ToService(t, "disconnect", c) \notin toS
  BY ServiceMsgEq
<1>3. toS \subseteq ServiceMsg
  BY DEF GwIInv, GwTypeOK, ToService, ServiceMsg
<1>4. /\ cut \in SUBSET dps
      /\ dps' = dps \ cut
      /\ serverIds' = WithoutServices(cut)
      /\ UNCHANGED <<cpeerAutoId, cps, alive, closed, armed, busy>>
      /\ Emit(Closes(cut), toS)
  OBVIOUS
<1> HIDE DEF cut, toS
<1> QED BY <1>1, <1>2, <1>3, <1>4, LoseServices

\* "open" and "close" change one white list, one roster and what one client
\* was told, all three by the same service.
LEMMA ServiceOpenStep ==
  ASSUME GwIInv, NEW s \in Sids, NEW c \in Clients, ServiceOpen(s, c)
  PROVE  GwIInv'
<1>1. Emit({ToClient(c, "open", s)}, {}) /\ dps' = dps
  BY DEF ServiceOpen, linkVars
<1>2. \A d \in Clients : told'[d] =
        {t \in Sids : (d = c /\ t = s) \/ t \in told[d]}
  BY <1>1, ClientMsgEq DEF Emit, Tell
<1>3. \A t \in Sids : roster'[t] =
        {d \in Clients : t \in dps /\ (d \in roster[t] \/ (d = c /\ t = s))}
  BY <1>1, ClientMsgEq DEF Emit, Tell
<1>4. \A d \in Clients : serverIds'[d] =
        IF d = c THEN serverIds[d] \cup {s} ELSE serverIds[d]
  BY DEF ServiceOpen, GwIInv, GwTypeOK
<1>5. s \in dps /\ c \in cps /\ cps' = cps
  BY DEF ServiceOpen
<1>6. WhitelistTold'
  <2> SUFFICES ASSUME NEW d \in cps PROVE told'[d] = serverIds'[d]
    BY <1>5 DEF WhitelistTold
  <2>1. d \in Clients /\ told[d] = serverIds[d] /\ told[d] \subseteq Sids
    BY DEF GwIInv, GwTypeOK, Views, WhitelistTold
  <2> QED BY <1>2, <1>4, <2>1
<1>7. RosterAgrees' /\ RosterLinked'
  <2> SUFFICES ASSUME NEW t \in Sids
               PROVE  /\ roster'[t] = {d \in cps : t \in serverIds'[d]}
                      /\ roster'[t] # {} => t \in dps
    BY <1>1, <1>5 DEF RosterAgrees, RosterLinked
  <2>1. /\ roster[t] = {d \in cps : t \in serverIds[d]}
        /\ roster[t] # {} => t \in dps
        /\ cps \subseteq Clients
    BY DEF GwIInv, GwTypeOK, Views, RosterAgrees, RosterLinked
  <2> QED BY <1>3, <1>4, <1>5, <2>1
<1>8. GwTypeOK'
  <2>1. ToClient(c, "open", s) \in ClientMsg
    BY DEF ToClient, ClientMsg
  <2> QED BY <2>1 DEF ServiceOpen, GwIInv, GwTypeOK, Emit, Tell, linkVars
<1>9. FreshIds' /\ LiveAreRegistered' /\ OneConnectionEach'
  <2>1. \A d \in Clients : d > cpeerAutoId => d # c
    BY <1>5 DEF GwIInv, FreshIds, LiveAreRegistered
  <2> QED BY <1>2, <1>4, <2>1 DEF ServiceOpen, GwIInv, FreshIds, LiveAreRegistered, OneConnectionEach, linkVars
<1> QED BY <1>6, <1>7, <1>8, <1>9 DEF GwIInv, Views

LEMMA ServiceCloseStep ==
  ASSUME GwIInv, NEW s \in Sids, NEW c \in Clients, ServiceClose(s, c)
  PROVE  GwIInv'
<1>1. /\ Tell({ToClient(c, "close", s)}, {}) /\ dps' = dps
      /\ roster' = [roster EXCEPT ![s] = @ \ {c}]
  BY DEF ServiceClose, linkVars
<1>2. \A d \in Clients : told'[d] =
        {t \in Sids : t \in told[d] /\ ~(d = c /\ t = s)}
  BY <1>1, ClientMsgEq DEF Tell
<1>3. \A t \in Sids : roster'[t] = IF t = s THEN roster[t] \ {c} ELSE roster[t]
  BY <1>1 DEF GwIInv, GwTypeOK
<1>4. \A d \in Clients : serverIds'[d] =
        IF d = c THEN serverIds[d] \ {s} ELSE serverIds[d]
  BY DEF ServiceClose, GwIInv, GwTypeOK
<1>5. cps' = cps
  BY DEF ServiceClose
<1>6. WhitelistTold'
  <2> SUFFICES ASSUME NEW d \in cps PROVE told'[d] = serverIds'[d]
    BY <1>5 DEF WhitelistTold
  <2>1. d \in Clients /\ told[d] = serverIds[d] /\ told[d] \subseteq Sids
    BY DEF GwIInv, GwTypeOK, Views, WhitelistTold
  <2> QED BY <1>2, <1>4, <2>1
<1>7. RosterAgrees' /\ RosterLinked'
  <2> SUFFICES ASSUME NEW t \in Sids
               PROVE  /\ roster'[t] = {d \in cps : t \in serverIds'[d]}
                      /\ roster'[t] # {} => t \in dps
    BY <1>1, <1>5 DEF RosterAgrees, RosterLinked
  <2>1. /\ roster[t] = {d \in cps : t \in serverIds[d]}
        /\ roster[t] # {} => t \in dps
        /\ cps \subseteq Clients
    BY DEF GwIInv, GwTypeOK, Views, RosterAgrees, RosterLinked
  <2> QED BY <1>3, <1>4, <1>5, <2>1
<1>8. GwTypeOK'
  <2>1. ToClient(c, "close", s) \in ClientMsg
    BY DEF ToClient, ClientMsg
  <2> QED BY <2>1 DEF ServiceClose, GwIInv, GwTypeOK, Tell, linkVars
<1>9. FreshIds' /\ LiveAreRegistered' /\ OneConnectionEach'
  BY <1>2, <1>4 DEF ServiceClose, GwIInv, FreshIds, LiveAreRegistered, OneConnectionEach, linkVars
<1> QED BY <1>6, <1>7, <1>8, <1>9 DEF GwIInv, Views

\* The handlers that leave the clients alone: data, ping answers, dialing.
LEMMA LinkStep ==
  ASSUME GwIInv, NEW s \in Sids, NEW c,
         \/ ServicePackage(s, c)
         \/ ServicePing(s)
         \/ TaskTick
         \/ DialConnected(s)
         \/ DialFailed(s)
  PROVE  GwIInv'
<1>1. PICK toC, toS : /\ Emit(toC, toS)
                      /\ toC \in {{}, {ToClient(c, "data", s)}}
                      /\ toS \in {{}, {ToService(s, "gatewayId", Nobody)}}
  BY DEF ServicePackage, ServicePing, TaskTick, DialConnected, DialFailed
<1>2. \A d \in Clients, t \in Sids : /\ ToClient(d, "open", t) \notin toC
                                   /\ ToClient(d, "close", t) \notin toC
                                   /\ ToService(t, "disconnect", d) \notin toS
  BY <1>1, ClientMsgEq, ServiceMsgEq
<1>3. UNCHANGED peerVars /\ dps \subseteq dps'
  BY DEF ServicePackage, ServicePing, TaskTick, DialConnected, DialFailed, linkVars
<1>4. told' = told /\ roster' = roster
  <2>1. GwTypeOK /\ \A t \in Sids : roster[t] # {} => t \in dps'
    BY <1>3 DEF GwIInv, Views, RosterLinked
  <2> QED BY <1>1, <1>2, <2>1, QuietStep
<1>5. GwTypeOK'
  <2>1. c \in Clients => ToClient(c, "data", s) \in ClientMsg
    BY DEF ToClient, ClientMsg
  <2>2. ToService(s, "gatewayId", Nobody) \in ServiceMsg
    BY DEF ToService, ServiceMsg
  <2>3. c \notin Clients => sentC' = {}
    BY DEF ServicePackage, ServicePing, TaskTick, DialConnected, DialFailed, Emit, Tell, GwIInv, GwTypeOK
  <2>4. sentC' \subseteq ClientMsg /\ sentS' \subseteq ServiceMsg
    BY <1>1, <2>1, <2>2, <2>3 DEF Emit, Tell
  <2>5. dps' \subseteq Sids /\ busy' \subseteq Sids /\ pinging' \in [Sids -> 0 .. MaxAge]
    BY MaxAgeAssumption DEF GwIInv, GwTypeOK, ServicePackage, ServicePing, TaskTick, DialConnected, DialFailed, linkVars
  <2> QED BY <1>3, <1>4, <2>4, <2>5 DEF GwIInv, GwTypeOK, peerVars
<1>6. OneConnectionEach'
  BY DEF GwIInv, OneConnectionEach, ServicePackage, ServicePing, TaskTick, DialConnected, DialFailed, linkVars
<1> QED
  BY <1>3, <1>4, <1>5, <1>6
  DEF GwIInv, FreshIds, Views, WhitelistTold, RosterAgrees, RosterLinked, LiveAreRegistered, peerVars

LEMMA RestartStep == GwIInv /\ Restart => GwIInv'
<1> SUFFICES ASSUME GwIInv, Restart PROVE GwIInv'
  OBVIOUS
<1>1. Closes(dps) \subseteq ClientMsg
  BY DEF GwIInv, GwTypeOK, Closes, ToClient, ClientMsg
<1>2. GwTypeOK'
  BY MaxAgeAssumption, <1>1, MaxClientIdAssumption DEF Restart, GwTypeOK
<1> QED
  BY <1>2 DEF Restart, GwIInv, FreshIds, Views, WhitelistTold, RosterAgrees, RosterLinked,
     LiveAreRegistered, OneConnectionEach

LEMMA NextIInv == GwIInv /\ [GwNext]_gwVars => GwIInv'
<1> SUFFICES ASSUME GwIInv, [GwNext]_gwVars PROVE GwIInv'
  OBVIOUS
<1>1. CASE AcceptClient
  BY <1>1, AcceptStep
<1>2. ASSUME NEW c \in Clients, ClientCommand(c) PROVE GwIInv'
  BY <1>2, ClientInputStep, BaseAssumption
<1>3. ASSUME NEW c \in Clients, ClientGone(c) \/ ClientTimeout(c) PROVE GwIInv'
  BY <1>3, CloseClientStep DEF ClientGone, ClientTimeout
<1>4. ASSUME NEW c \in Clients, NEW s \in Sids, ClientPackage(c, s) PROVE GwIInv'
  BY <1>4, ClientInputStep
<1>5. ASSUME NEW c \in Clients, NEW s \in Sids, ServicePackage(s, c) PROVE GwIInv'
  BY <1>5, LinkStep
<1>6. ASSUME NEW c \in Clients, NEW s \in Sids, ServiceOpen(s, c) PROVE GwIInv'
  BY <1>6, ServiceOpenStep
<1>7. ASSUME NEW c \in Clients, NEW s \in Sids, ServiceClose(s, c) PROVE GwIInv'
  BY <1>7, ServiceCloseStep
<1>8. ASSUME NEW c \in Clients, NEW s \in Sids, ServiceKick(s, c) PROVE GwIInv'
  BY <1>8, CloseClientStep, DelayedKickStep DEF ServiceKick, KickNow
<1>9. ASSUME NEW s \in Sids, ServicePing(s) \/ DialConnected(s) \/ DialFailed(s) PROVE GwIInv'
  BY <1>9, LinkStep
<1>10. ASSUME NEW s \in Sids, CloseService(s) PROVE GwIInv'
  BY <1>10, CloseServiceStep
<1>11. CASE PingTick
  BY <1>11, PingTickStep
<1>12. CASE TaskTick
  BY <1>12, LinkStep, BaseAssumption
<1>13. CASE Restart
  BY <1>13, RestartStep
<1>14. CASE UNCHANGED gwVars
  BY <1>14 DEF gwVars, GwIInv, GwTypeOK, FreshIds, Views, WhitelistTold, RosterAgrees,
     RosterLinked, LiveAreRegistered, OneConnectionEach
<1> QED
  BY <1>1, <1>2, <1>3, <1>4, <1>5, <1>6, <1>7, <1>8, <1>9, <1>10, <1>11, <1>12, <1>13, <1>14
  DEF GwNext

----------------------------------------------------------------------------
(* The theorems *)

\* GwIInv holds in every state of the gateway, whatever clients and services do:
\* each handler keeps it.
THEOREM GatewayInvariant == GwSpec => []GwIInv
<1>1. GwInit => GwIInv
  BY InitIInv
<1>2. GwIInv /\ [GwNext]_gwVars => GwIInv'
  BY NextIInv
<1> QED BY <1>1, <1>2, PTL DEF GwSpec

\* The variables keep their types, for any services and any number of clients.
THEOREM GatewayTypeCorrect == GwSpec => []GwTypeOK
<1>1. GwIInv => GwTypeOK
  BY DEF GwIInv
<1> QED BY <1>1, GatewayInvariant, PTL

\* A client that has read everything holds open exactly its white list.
THEOREM ClientsSeeTheirWhitelist == GwSpec => []WhitelistTold
<1>1. GwIInv => WhitelistTold
  BY DEF GwIInv, Views
<1> QED BY <1>1, GatewayInvariant, PTL

\* A service that has read everything has exactly the clients that white-list it.
THEOREM ServicesSeeTheirClients == GwSpec => []RosterAgrees
<1>1. GwIInv => RosterAgrees
  BY DEF GwIInv, Views
<1> QED BY <1>1, GatewayInvariant, PTL

\* Registered or kicked: no open client connection is forgotten.
THEOREM NoConnectionForgotten == GwSpec => []LiveAreRegistered
<1>1. GwIInv => LiveAreRegistered
  BY DEF GwIInv
<1> QED BY <1>1, GatewayInvariant, PTL

\* A connected service is never dialed again, so Dialer::Connect overwrites no
\* SPeer.
THEOREM OneConnectionPerService == GwSpec => []OneConnectionEach
<1>1. GwIInv => OneConnectionEach
  BY DEF GwIInv
<1> QED BY <1>1, GatewayInvariant, PTL

\* Data reaches a service only from clients it has opened and not lost.
THEOREM DataOnlyFromOpened == GwSpec => DataFromOpened
<1>1. GwIInv /\ [GwNext]_gwVars =>
        [\A m \in sentS' : m.cmd = "data" => m.client \in roster[m.sid]]_gwVars
  <2> SUFFICES ASSUME GwIInv, GwNext, NEW m \in sentS', m.cmd = "data"
               PROVE  m.client \in roster[m.sid]
    OBVIOUS
  <2>1. \E c \in Clients, s \in Sids : ClientPackage(c, s) /\ m = ToService(s, "data", c)
    <3>1. CASE \E c \in Clients, s \in Sids : ClientPackage(c, s)
      BY <3>1 DEF ClientPackage, Emit, Tell
    <3>2. CASE \E c \in Clients : \/ CloseClient(c, {})
                                \/ \E s \in Sids, delay \in Delays : DelayedKick(s, c, delay)
      <4>1. PICK c \in Clients : m \in Disconnects(c)
        BY <3>2 DEF CloseClient, DelayedKick, Emit, Tell
      <4>2. m.cmd = "disconnect"
        BY <4>1 DEF Disconnects, ToService
      <4> QED BY <4>2
    <3>3. CASE \/ \E c \in Clients : ClientCommand(c)
               \/ \E c \in Clients, s \in Sids : \/ ServicePackage(s, c) \/ ServiceOpen(s, c)
                                               \/ ServiceClose(s, c)
      BY <3>3 DEF ServicePackage, ServiceOpen, ServiceClose, ClientCommand, Emit, Tell
    <3>4. CASE \E s \in Sids : ServicePing(s) \/ CloseService(s) \/ DialFailed(s)
      BY <3>4 DEF ServicePing, CloseService, DialFailed, Emit, Tell
    <3>5. CASE TaskTick \/ Restart
      BY <3>5 DEF TaskTick, Restart, Emit, Tell
    <3>6. CASE AcceptClient \/ (\E s \in Sids : DialConnected(s)) \/ PingTick
      <4>1. CASE AcceptClient
        BY <4>1 DEF AcceptClient, Emit, Tell, ToService
      <4>2. CASE \E s \in Sids : DialConnected(s)
        BY <4>2 DEF DialConnected, Emit, Tell, ToService
      <4>3. CASE PingTick
        BY <4>3 DEF PingTick, Emit, Tell, ToService
      <4> QED BY <3>6, <4>1, <4>2, <4>3
    <3>7. CASE \E c \in Clients : ClientGone(c) \/ ClientTimeout(c)
      BY <3>2, <3>7 DEF ClientGone, ClientTimeout
    <3>8. CASE \E c \in Clients, s \in Sids : ServiceKick(s, c)
      BY <3>2, <3>8 DEF ServiceKick, KickNow
    <3> QED BY <3>1, <3>3, <3>4, <3>5, <3>6, <3>7, <3>8 DEF GwNext
  <2>2. PICK c \in Clients, s \in Sids : ClientPackage(c, s) /\ m = ToService(s, "data", c)
    BY <2>1
  <2>3. m.client = c /\ m.sid = s
    BY <2>2 DEF ToService
  <2>4. c \in cps /\ s \in serverIds[c]
    BY <2>2 DEF ClientPackage, Reads, GwIInv, LiveAreRegistered
  <2> QED BY <2>3, <2>4 DEF GwIInv, Views, RosterAgrees
<1> QED BY <1>1, GatewayInvariant, PTL DEF GwSpec, DataFromOpened

\* As long as no service kicks with a delay shorter than a frame, every open
\* client connection has a timeout running.
THEOREM TimeoutsArmed == "subframe" \notin Delays => (GwSpec => []EveryoneArmed)
<1> SUFFICES ASSUME "subframe" \notin Delays PROVE GwSpec => []EveryoneArmed
  OBVIOUS
<1>1. GwInit => EveryoneArmed
  BY DEF GwInit, EveryoneArmed
<1>2. EveryoneArmed /\ [GwNext]_gwVars => EveryoneArmed'
  <2> SUFFICES ASSUME EveryoneArmed, [GwNext]_gwVars PROVE EveryoneArmed'
    OBVIOUS
  <2>1. CASE UNCHANGED gwVars
    BY <2>1 DEF gwVars, EveryoneArmed
  <2>2. ASSUME NEW c \in Clients, NEW s \in Sids, ServiceKick(s, c) PROVE EveryoneArmed'
    BY <2>2 DEF ServiceKick, KickNow, CloseClient, DelayedKick, EveryoneArmed
  <2>3. CASE \E c \in Clients : ClientCommand(c) \/ ClientGone(c) \/ ClientTimeout(c)
    BY <2>3 DEF ClientCommand, ClientGone, ClientTimeout, CloseClient, EveryoneArmed
  <2>4. CASE \E c \in Clients, s \in Sids : \/ ClientPackage(c, s) \/ ServicePackage(s, c)
                                          \/ ServiceOpen(s, c) \/ ServiceClose(s, c)
    BY <2>4 DEF ClientPackage, ServicePackage, ServiceOpen, ServiceClose, EveryoneArmed, peerVars
  <2>5. CASE AcceptClient \/ PingTick \/ TaskTick \/ Restart
    BY <2>5 DEF AcceptClient, PingTick, TaskTick, Restart, EveryoneArmed, peerVars
  <2>6. CASE \E s \in Sids : \/ ServicePing(s) \/ CloseService(s)
                            \/ DialConnected(s) \/ DialFailed(s)
    BY <2>6 DEF ServicePing, CloseService, DialConnected, DialFailed, EveryoneArmed, peerVars
  <2> QED BY <2>1, <2>2, <2>3, <2>4, <2>5, <2>6 DEF GwNext
<1> QED BY <1>1, <1>2, PTL DEF GwSpec
=============================================================================
