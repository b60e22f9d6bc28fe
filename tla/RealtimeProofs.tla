--------------------------- MODULE RealtimeProofs ---------------------------
(***************************************************************************)
(* Theorems about Realtime, for any pages, clients, client ids and bounds: *)
(* its types, and that a connection which is open and authenticated gets   *)
(* the prices unless it shares its client id.                              *)
(*                                                                         *)
(* RealtimeInv is the inductive invariant.  One lemma per action shows     *)
(* that it is preserved.                                                   *)
(***************************************************************************)
EXTENDS Realtime, TLAPS

\* What is known of a socket before its connection and while a ticket is looked
\* up: nothing is in flight before, and the timer is off meanwhile.
AuthenticationOK ==
  \A ws \in Sockets :
    /\ conn[ws] = "none" => ~isAuthenticated[ws] /\ task[ws] = "none"
    /\ task[ws] # "none" => ws \notin authTimeout

Registered(ws) == ClientId[ws] \in DOMAIN clients /\ clients[ClientId[ws]] = ws

\* An open authenticated socket is in the map, or another has authenticated under
\* its client id: neither the close event of a socket nor the heartbeat takes
\* it out otherwise.
OpenAreRegistered ==
  \A ws \in Sockets :
    conn[ws] = "open" /\ isAuthenticated[ws] =>
      \/ Registered(ws)
      \/ \E other \in Sockets \ {ws} :
           ClientId[other] = ClientId[ws] /\ isAuthenticated[other]

RealtimeInv == RealtimeTypeOK /\ AuthenticationOK /\ OpenAreRegistered

-----------------------------------------------------------------------------
\* Every action preserves the invariant

\* The page asks for a ticket; no socket is concerned.
LEMMA MountKeeps ==
  ASSUME RealtimeInv, NEW p \in Pages, Mount(p)
  PROVE  RealtimeInv'
<1>0. RealtimeTypeOK /\ AuthenticationOK /\ OpenAreRegistered
  BY DEF RealtimeInv
<1>1. RealtimeTypeOK'
  BY <1>0, RealtimeAssumption DEF Mount, metadata, counters, RealtimeTypeOK
<1>2. AuthenticationOK'
  BY <1>0 DEF Mount, metadata, AuthenticationOK
<1>3. OpenAreRegistered'
  BY <1>0 DEF Mount, metadata, OpenAreRegistered, Registered
<1>. QED
  BY <1>1, <1>2, <1>3 DEF RealtimeInv

\* The ticket arrives or not; no socket is concerned.
LEMMA GetWsTicketKeeps ==
  ASSUME RealtimeInv, NEW p \in Pages, GetWsTicket(p)
  PROVE  RealtimeInv'
<1>0. RealtimeTypeOK /\ AuthenticationOK /\ OpenAreRegistered
  BY DEF RealtimeInv
<1>1. RealtimeTypeOK'
  BY <1>0, RealtimeAssumption DEF GetWsTicket, metadata, counters, RealtimeTypeOK
<1>2. AuthenticationOK'
  BY <1>0 DEF GetWsTicket, metadata, AuthenticationOK
<1>3. OpenAreRegistered'
  BY <1>0 DEF GetWsTicket, metadata, OpenAreRegistered, Registered
<1>. QED
  BY <1>1, <1>2, <1>3 DEF RealtimeInv

\* The page closes its own socket.
LEMMA UnmountKeeps ==
  ASSUME RealtimeInv, NEW p \in Pages, Unmount(p)
  PROVE  RealtimeInv'
<1>0. RealtimeTypeOK /\ AuthenticationOK /\ OpenAreRegistered
  BY DEF RealtimeInv
<1>1. RealtimeTypeOK'
  BY <1>0, RealtimeAssumption DEF Unmount, Close, metadata, counters, RealtimeTypeOK
<1>2. AuthenticationOK'
  BY <1>0 DEF Unmount, Close, metadata, AuthenticationOK
<1>3. OpenAreRegistered'
  BY <1>0 DEF Unmount, Close, metadata, OpenAreRegistered, Registered
<1>. QED
  BY <1>1, <1>2, <1>3 DEF RealtimeInv

\* Tickets are not looked at by the invariant.
LEMMA TicketExpiresKeeps ==
  ASSUME RealtimeInv, NEW p \in Pages, TicketExpires(p)
  PROVE  RealtimeInv'
<1>0. RealtimeTypeOK /\ AuthenticationOK /\ OpenAreRegistered
  BY DEF RealtimeInv
<1>1. RealtimeTypeOK'
  BY <1>0, RealtimeAssumption DEF TicketExpires, metadata, counters, RealtimeTypeOK
<1>2. AuthenticationOK'
  BY <1>0 DEF TicketExpires, metadata, AuthenticationOK
<1>3. OpenAreRegistered'
  BY <1>0 DEF TicketExpires, metadata, OpenAreRegistered, Registered
<1>. QED
  BY <1>1, <1>2, <1>3 DEF RealtimeInv

\* The timer goes off as the look-up begins.
LEMMA TicketMessageKeeps ==
  ASSUME RealtimeInv, NEW p \in Pages, TicketMessage(p)
  PROVE  RealtimeInv'
<1>0. RealtimeTypeOK /\ AuthenticationOK /\ OpenAreRegistered
  BY DEF RealtimeInv
<1>1. RealtimeTypeOK'
  BY <1>0, RealtimeAssumption DEF TicketMessage, metadata, counters,
     RealtimeTypeOK, Sockets
<1>2. AuthenticationOK'
  BY <1>0 DEF TicketMessage, metadata, AuthenticationOK
<1>3. OpenAreRegistered'
  BY <1>0 DEF TicketMessage, metadata, OpenAreRegistered, Registered
<1>. QED
  BY <1>1, <1>2, <1>3 DEF RealtimeInv

\* A ticket that is not there closes the socket.
LEMMA LookUpTicketKeeps ==
  ASSUME RealtimeInv, NEW p \in Pages, LookUpTicket(p)
  PROVE  RealtimeInv'
<1>0. RealtimeTypeOK /\ AuthenticationOK /\ OpenAreRegistered
  BY DEF RealtimeInv
<1>1. RealtimeTypeOK'
  BY <1>0, RealtimeAssumption DEF LookUpTicket, Close, browser, metadata,
     counters, RealtimeTypeOK
<1>2. AuthenticationOK'
  BY <1>0 DEF LookUpTicket, Close, metadata, RealtimeTypeOK, AuthenticationOK
<1>3. OpenAreRegistered'
  BY <1>0 DEF LookUpTicket, Close, metadata, OpenAreRegistered, Registered
<1>. QED
  BY <1>1, <1>2, <1>3 DEF RealtimeInv

\* The socket is registered when its ticket is deleted, closed or not by then.
LEMMA DeleteTicketKeeps ==
  ASSUME RealtimeInv, NEW p \in Pages, DeleteTicket(p)
  PROVE  RealtimeInv'
<1>0. RealtimeTypeOK /\ AuthenticationOK /\ OpenAreRegistered
  BY DEF RealtimeInv
<1>1. RealtimeTypeOK'
  BY <1>0, RealtimeAssumption DEF DeleteTicket, Close, Register, Put, counters,
     RealtimeTypeOK, Sockets, ClientIds, AuthenticationOK
<1>2. AuthenticationOK'
  BY <1>0 DEF DeleteTicket, Close, Register, AuthenticationOK
<1>3. OpenAreRegistered'
  BY <1>0 DEF DeleteTicket, Close, Register, Put, OpenAreRegistered, Registered
<1>. QED
  BY <1>1, <1>2, <1>3 DEF RealtimeInv

\* A failed call to Redis closes the socket.
LEMMA TicketAuthenticationFailsKeeps ==
  ASSUME RealtimeInv, NEW p \in Pages, TicketAuthenticationFails(p)
  PROVE  RealtimeInv'
<1>0. RealtimeTypeOK /\ AuthenticationOK /\ OpenAreRegistered
  BY DEF RealtimeInv
<1>1. RealtimeTypeOK'
  BY <1>0, RealtimeAssumption DEF TicketAuthenticationFails, Close, Fails,
     browser, metadata, RealtimeTypeOK, Sockets
<1>2. AuthenticationOK'
  BY <1>0 DEF TicketAuthenticationFails, Close, metadata, AuthenticationOK
<1>3. OpenAreRegistered'
  BY <1>0 DEF TicketAuthenticationFails, Close, metadata, OpenAreRegistered,
     Registered
<1>. QED
  BY <1>1, <1>2, <1>3 DEF RealtimeInv

\* A socket that registers replaces and closes the one before it.
LEMMA TokenMessageKeeps ==
  ASSUME RealtimeInv, NEW ws \in ApiClients, TokenMessage(ws)
  PROVE  RealtimeInv'
<1>0. RealtimeTypeOK /\ AuthenticationOK /\ OpenAreRegistered
  BY DEF RealtimeInv
<1>1. RealtimeTypeOK'
  <2>1. messages' \in 0 .. MaxMessages
    BY <1>0, RealtimeAssumption DEF TokenMessage, RealtimeTypeOK
  <2>2. ws \in Sockets
    BY DEF Sockets
  <2>3. CASE Register(ws)
    BY <1>0, <2>1, <2>2, <2>3 DEF TokenMessage, Close, Register, Put, browser,
       metadata, counters, RealtimeTypeOK, Sockets, ClientIds
  <2>4. CASE Close({ws}) /\ UNCHANGED <<clients, isAuthenticated>>
    BY <1>0, <2>1, <2>2, <2>4 DEF TokenMessage, Close, Register, Put, browser,
       metadata, counters, RealtimeTypeOK, Sockets, ClientIds
  <2> QED
    BY <2>3, <2>4 DEF TokenMessage
<1>2. AuthenticationOK'
  BY <1>0 DEF TokenMessage, Close, Register, RealtimeTypeOK, AuthenticationOK
<1>3. OpenAreRegistered'
  BY <1>0 DEF TokenMessage, Close, Register, Put, RealtimeTypeOK,
     OpenAreRegistered, Registered
<1>. QED
  BY <1>1, <1>2, <1>3 DEF RealtimeInv

\* A new connection is not authenticated and has its timer.
LEMMA HandleConnectionKeeps ==
  ASSUME RealtimeInv, NEW ws \in Sockets, HandleConnection(ws)
  PROVE  RealtimeInv'
<1>0. RealtimeTypeOK /\ AuthenticationOK /\ OpenAreRegistered
  BY DEF RealtimeInv
<1>1. RealtimeTypeOK'
  BY <1>0, RealtimeAssumption DEF HandleConnection, counters, RealtimeTypeOK,
     AuthenticationOK
<1>2. AuthenticationOK'
  BY <1>0 DEF HandleConnection, AuthenticationOK
<1>3. OpenAreRegistered'
  BY <1>0 DEF HandleConnection, AuthenticationOK, OpenAreRegistered, Registered
<1>. QED
  BY <1>1, <1>2, <1>3 DEF RealtimeInv

\* The timer goes off and closes the socket.
LEMMA AuthTimeoutKeeps ==
  ASSUME RealtimeInv, NEW ws \in Sockets, AuthTimeout(ws)
  PROVE  RealtimeInv'
<1>0. RealtimeTypeOK /\ AuthenticationOK /\ OpenAreRegistered
  BY DEF RealtimeInv
<1>1. RealtimeTypeOK'
  BY <1>0, RealtimeAssumption DEF AuthTimeout, Close, browser, metadata, counters,
     RealtimeTypeOK
<1>2. AuthenticationOK'
  BY <1>0 DEF AuthTimeout, Close, metadata, AuthenticationOK
<1>3. OpenAreRegistered'
  BY <1>0 DEF AuthTimeout, Close, metadata, OpenAreRegistered, Registered
<1>. QED
  BY <1>1, <1>2, <1>3 DEF RealtimeInv

\* A socket whose peer closes is no longer open.
LEMMA PeerClosesKeeps ==
  ASSUME RealtimeInv, NEW ws \in Sockets, PeerCloses(ws)
  PROVE  RealtimeInv'
<1>0. RealtimeTypeOK /\ AuthenticationOK /\ OpenAreRegistered
  BY DEF RealtimeInv
<1>1. RealtimeTypeOK'
  BY <1>0, RealtimeAssumption DEF PeerCloses, Close, browser, metadata, counters,
     RealtimeTypeOK
<1>2. AuthenticationOK'
  BY <1>0 DEF PeerCloses, Close, metadata, AuthenticationOK
<1>3. OpenAreRegistered'
  BY <1>0 DEF PeerCloses, Close, metadata, OpenAreRegistered, Registered
<1>. QED
  BY <1>1, <1>2, <1>3 DEF RealtimeInv

\* The close event takes out the entry of its client id, whoever has it.
LEMMA HandleClientDisconnectKeeps ==
  ASSUME RealtimeInv, NEW ws \in Sockets, HandleClientDisconnect(ws)
  PROVE  RealtimeInv'
<1>0. RealtimeTypeOK /\ AuthenticationOK /\ OpenAreRegistered
  BY DEF RealtimeInv
<1>1. RealtimeTypeOK'
  BY <1>0, RealtimeAssumption DEF HandleClientDisconnect, Without, browser,
     metadata, counters, RealtimeTypeOK
<1>2. AuthenticationOK'
  BY <1>0 DEF HandleClientDisconnect, metadata, AuthenticationOK
<1>3. OpenAreRegistered'
  BY <1>0 DEF HandleClientDisconnect, Without, metadata, OpenAreRegistered,
     Registered
<1>. QED
  BY <1>1, <1>2, <1>3 DEF RealtimeInv

\* The error event takes out the entry of its client id, whoever has it.
LEMMA HandleClientErrorKeeps ==
  ASSUME RealtimeInv, NEW ws \in Sockets, HandleClientError(ws)
  PROVE  RealtimeInv'
<1>0. RealtimeTypeOK /\ AuthenticationOK /\ OpenAreRegistered
  BY DEF RealtimeInv
<1>1. RealtimeTypeOK'
  BY <1>0, RealtimeAssumption DEF HandleClientError, Close, Without, browser,
     metadata, counters, RealtimeTypeOK
<1>2. AuthenticationOK'
  BY <1>0 DEF HandleClientError, Close, metadata, AuthenticationOK
<1>3. OpenAreRegistered'
  BY <1>0 DEF HandleClientError, Close, Without, metadata, OpenAreRegistered,
     Registered
<1>. QED
  BY <1>1, <1>2, <1>3 DEF RealtimeInv

\* A peer that vanishes leaves the server as it was.
LEMMA PeerVanishesKeeps ==
  ASSUME RealtimeInv, NEW ws \in Sockets, PeerVanishes(ws)
  PROVE  RealtimeInv'
<1>0. RealtimeTypeOK /\ AuthenticationOK /\ OpenAreRegistered
  BY DEF RealtimeInv
<1>1. RealtimeTypeOK'
  BY <1>0, RealtimeAssumption DEF PeerVanishes, metadata, counters, RealtimeTypeOK
<1>2. AuthenticationOK'
  BY <1>0 DEF PeerVanishes, metadata, AuthenticationOK
<1>3. OpenAreRegistered'
  BY <1>0 DEF PeerVanishes, metadata, OpenAreRegistered, Registered
<1>. QED
  BY <1>1, <1>2, <1>3 DEF RealtimeInv

\* A pong sets a flag.
LEMMA PongKeeps ==
  ASSUME RealtimeInv, NEW ws \in Sockets, Pong(ws)
  PROVE  RealtimeInv'
<1>0. RealtimeTypeOK /\ AuthenticationOK /\ OpenAreRegistered
  BY DEF RealtimeInv
<1>1. RealtimeTypeOK'
  BY <1>0, RealtimeAssumption DEF Pong, browser, counters, RealtimeTypeOK
<1>2. AuthenticationOK'
  BY <1>0 DEF Pong, AuthenticationOK
<1>3. OpenAreRegistered'
  BY <1>0 DEF Pong, OpenAreRegistered, Registered
<1>. QED
  BY <1>1, <1>2, <1>3 DEF RealtimeInv

\* The heartbeat closes every socket that it takes out.
LEMMA HeartbeatKeeps ==
  ASSUME RealtimeInv, Heartbeat
  PROVE  RealtimeInv'
<1>0. RealtimeTypeOK /\ AuthenticationOK /\ OpenAreRegistered
  BY DEF RealtimeInv
<1>1. RealtimeTypeOK'
  BY <1>0, RealtimeAssumption DEF Heartbeat, Close, Without, browser, counters,
     RealtimeTypeOK
<1>2. AuthenticationOK'
  BY <1>0 DEF Heartbeat, Close, AuthenticationOK
<1>3. OpenAreRegistered'
  BY <1>0 DEF Heartbeat, Close, Without, Members, OpenAreRegistered, Registered
<1>. QED
  BY <1>1, <1>2, <1>3 DEF RealtimeInv

\* A shutdown leaves the sockets to close by themselves.
LEMMA BeginShutdownKeeps ==
  ASSUME RealtimeInv, BeginShutdown
  PROVE  RealtimeInv'
<1>0. RealtimeTypeOK /\ AuthenticationOK /\ OpenAreRegistered
  BY DEF RealtimeInv
<1>1. RealtimeTypeOK'
  BY <1>0, RealtimeAssumption DEF BeginShutdown, browser, metadata, counters,
     RealtimeTypeOK
<1>2. AuthenticationOK'
  BY <1>0 DEF BeginShutdown, metadata, AuthenticationOK
<1>3. OpenAreRegistered'
  BY <1>0 DEF BeginShutdown, metadata, OpenAreRegistered, Registered
<1>. QED
  BY <1>1, <1>2, <1>3 DEF RealtimeInv

\* The process ends when all sockets have closed.
LEMMA ExitKeeps ==
  ASSUME RealtimeInv, Exit
  PROVE  RealtimeInv'
<1>0. RealtimeTypeOK /\ AuthenticationOK /\ OpenAreRegistered
  BY DEF RealtimeInv
<1>1. RealtimeTypeOK'
  BY <1>0, RealtimeAssumption DEF Exit, browser, metadata, counters, RealtimeTypeOK
<1>2. AuthenticationOK'
  BY <1>0 DEF Exit, metadata, AuthenticationOK
<1>3. OpenAreRegistered'
  BY <1>0 DEF Exit, OpenAreRegistered
<1>. QED
  BY <1>1, <1>2, <1>3 DEF RealtimeInv

-----------------------------------------------------------------------------
\* The invariant

\* There is no connection initially.
LEMMA InitEstablishes == Init => RealtimeInv
<1> SUFFICES ASSUME Init PROVE RealtimeInv
  OBVIOUS
<1>1. RealtimeTypeOK
  <2>1. 0 \in 0..MaxMessages /\ 0 \in 0..MaxFailures /\ DOMAIN clients = {}
    BY RealtimeAssumption DEF Init, EmptyMap
  <2> QED
    BY <2>1 DEF Init, RealtimeTypeOK
<1>2. AuthenticationOK /\ OpenAreRegistered
  BY DEF Init, AuthenticationOK, OpenAreRegistered
<1> QED
  BY <1>1, <1>2 DEF RealtimeInv

\* RealtimeInv holds in every state.
THEOREM RealtimeInvariant == Spec => []RealtimeInv
<1>1. RealtimeInv /\ [Next]_vars => RealtimeInv'
  <2> SUFFICES ASSUME RealtimeInv, [Next]_vars PROVE RealtimeInv'
    OBVIOUS
  <2>1. ASSUME NEW p \in Pages, Page(p) PROVE RealtimeInv'
    BY <2>1, MountKeeps, GetWsTicketKeeps, UnmountKeeps, TicketExpiresKeeps,
       TicketMessageKeeps, LookUpTicketKeeps, DeleteTicketKeeps,
       TicketAuthenticationFailsKeeps DEF Page, TicketAuthentication
  <2>2. ASSUME NEW ws \in Sockets, Socket(ws) PROVE RealtimeInv'
    BY <2>2, HandleConnectionKeeps, AuthTimeoutKeeps, PeerClosesKeeps,
       PeerVanishesKeeps, HandleClientDisconnectKeeps, HandleClientErrorKeeps,
       PongKeeps DEF Socket
  <2>3. CASE UNCHANGED vars
    BY <2>3 DEF vars, RealtimeInv, RealtimeTypeOK, AuthenticationOK,
       OpenAreRegistered, Registered
  <2> QED
    BY <2>1, <2>2, <2>3, TokenMessageKeeps, HeartbeatKeeps, BeginShutdownKeeps,
       ExitKeeps DEF Next
<1> QED
  BY <1>1, InitEstablishes, PTL DEF Spec

\* The server's tables keep their types: the map of clients holds authenticated
\* sockets under their own client id, and their timers are off.
THEOREM RealtimeTypeCorrect == Spec => []RealtimeTypeOK
<1>1. RealtimeInv => RealtimeTypeOK
  BY DEF RealtimeInv
<1> QED
  BY <1>1, RealtimeInvariant, PTL

\* A registered socket that is open is one of those a price is broadcast to.
LEMMA RegisteredReceive ==
  ASSUME NEW ws \in Sockets, conn[ws] = "open", isAuthenticated[ws], Registered(ws)
  PROVE  ws \in Receivers
BY DEF Receivers, Members, Registered

\* handleRedisMessage reaches every open authenticated connection that does not
\* share its client id, whatever came and went in between.
THEOREM AuthenticatedAlwaysHeard == Spec => []AuthenticatedAreHeard
<1>1. RealtimeInv => AuthenticatedAreHeard
  BY RegisteredReceive DEF RealtimeInv, OpenAreRegistered, AuthenticatedAreHeard
<1> QED
  BY <1>1, RealtimeInvariant, PTL

\* The trade page draws its client id at random, so it is never left out.
THEOREM PagesAlwaysHeard ==
  Spec => [](\A p \in Pages : conn[p] = "open" /\ isAuthenticated[p] => p \in Receivers)
<1>1. RealtimeInv =>
        \A p \in Pages : conn[p] = "open" /\ isAuthenticated[p] => p \in Receivers
  <2> SUFFICES ASSUME RealtimeInv, NEW p \in Pages, conn[p] = "open", isAuthenticated[p]
               PROVE  p \in Receivers
    OBVIOUS
  <2>1. p \in Sockets
    BY DEF Sockets
  <2>2. Registered(p)
    BY <2>1, RealtimeAssumption DEF RealtimeInv, OpenAreRegistered
  <2> QED
    BY <2>1, <2>2, RegisteredReceive
<1> QED
  BY <1>1, RealtimeInvariant, PTL
=============================================================================
