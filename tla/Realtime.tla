------------------------------ MODULE Realtime ------------------------------
(***************************************************************************)
(* The realtime server and the sockets of its clients: the trade page,     *)
(* which authenticates with a ticket under a client id of its own, and API *)
(* clients, which authenticate with a token and may come back under an id  *)
(* that is in use.                                                         *)
(*                                                                         *)
(* The server is one JavaScript thread; a ticket is looked up and deleted  *)
(* in Redis between two awaits.  The socket library emits a "close" event  *)
(* some time after either side has closed, so what it does there may come  *)
(* late; until then the socket is "closing".                               *)
(***************************************************************************)
EXTENDS Integers, Maps

CONSTANTS
  Pages,        \* trade pages, each mounted once
  ApiClients,   \* sockets of other clients
  ClientId,     \* socket -> the client id it authenticates with
  MaxMessages,  \* bound: authentications by token
  MaxFailures   \* bound: failed Redis calls

Sockets == Pages \cup ApiClients

ClientIds == {ClientId[ws] : ws \in Sockets}

\* A page draws its id at random: nobody else has it.
ASSUME RealtimeAssumption ==
  /\ Pages \cap ApiClients = {}
  /\ DOMAIN ClientId = Sockets
  /\ \A p \in Pages, ws \in Sockets : ClientId[ws] = ClientId[p] => ws = p
  /\ {MaxMessages, MaxFailures} \subseteq Nat

VARIABLES
  page,           \* page -> where its effect stands
  tickets,        \* pages whose ticket is in Redis
  conn,           \* socket -> readyState, "none" before the connection
  silent,         \* sockets whose peer is gone without a word
  isAuthenticated, isAlive,   \* socket -> metadata
  authTimeout,    \* sockets whose authentication timer is armed
  task,           \* socket -> ticket authentication in flight
  clients,        \* client id -> socket
  server,         \* "up", "closing", "exited"
  messages, failures   \* counters for the bounds

browser == <<page, tickets, silent>>
metadata == <<isAuthenticated, isAlive>>
counters == <<messages, failures>>
vars == <<page, tickets, conn, silent, isAuthenticated, isAlive,
          authTimeout, task, clients, server, messages, failures>>

Fails == failures < MaxFailures /\ failures' = failures + 1

\* close(): nothing happens to a socket that is closing or closed already.
Close(sockets) ==
  conn' = [ws \in Sockets |-> IF ws \in sockets /\ conn[ws] = "open"
                                THEN "closing" ELSE conn[ws]]

-----------------------------------------------------------------------------
\* The trade page

\* connect(): a ticket is asked for, then a socket opened.  Neither is retried.
Mount(p) ==
  /\ page[p] = "none"
  /\ page' = [page EXCEPT ![p] = "ticket"]
  /\ UNCHANGED <<tickets, conn, silent, metadata, authTimeout, task, clients,
                 server, counters>>

\* getWsTicket stores the ticket; without a valid session, or without Redis, the
\* page stays without prices.
GetWsTicket(p) ==
  /\ page[p] = "ticket"
  /\ \/ /\ tickets' = tickets \cup {p}
        /\ page' = [page EXCEPT ![p] = "connect"]
     \/ /\ page' = [page EXCEPT ![p] = "offline"]
        /\ UNCHANGED tickets
  /\ UNCHANGED <<conn, silent, metadata, authTimeout, task, clients, server,
                 counters>>

\* The clean-up of the effect; a ticket that arrives later is not used.
Unmount(p) ==
  /\ page[p] \in {"ticket", "connect", "auth", "live"}
  /\ page' = [page EXCEPT ![p] = "offline"]
  /\ Close({p})
  /\ UNCHANGED <<tickets, silent, metadata, authTimeout, task, clients, server,
                 counters>>

\* Thirty seconds after it was stored.
TicketExpires(p) ==
  /\ p \in tickets
  /\ tickets' = tickets \ {p}
  /\ UNCHANGED <<page, conn, silent, metadata, authTimeout, task, clients,
                 server, counters>>

-----------------------------------------------------------------------------
\* Connections

\* handleConnection.  Only a page waits for something to happen first.
HandleConnection(ws) ==
  /\ server = "up" /\ conn[ws] = "none"
  /\ ws \in Pages => page[ws] = "connect"
  /\ conn' = [conn EXCEPT ![ws] = "open"]
  /\ page' = [p \in Pages |-> IF p = ws THEN "auth" ELSE page[p]]
  /\ isAlive' = [isAlive EXCEPT ![ws] = TRUE]
  /\ authTimeout' = authTimeout \cup {ws}
  /\ UNCHANGED <<tickets, silent, isAuthenticated, task, clients,
                 server, counters>>

AuthTimeout(ws) ==
  /\ ws \in authTimeout
  /\ authTimeout' = authTimeout \ {ws}
  /\ Close({ws})
  /\ UNCHANGED <<browser, metadata, task, clients, server, counters>>

\* An older socket under the same id is closed; it may be the socket itself.
Register(ws) ==
  /\ Close({clients[c] : c \in DOMAIN clients \cap {ClientId[ws]}})
  /\ clients' = Put(clients, ClientId[ws], ws)
  /\ isAuthenticated' = [isAuthenticated EXCEPT ![ws] = TRUE]

\* Mutant: the timer stays armed.
TicketMessage_KeepsTimer(p) ==
  /\ page[p] = "auth" /\ conn[p] \in {"open", "closing"} /\ p \notin silent
  /\ page' = [page EXCEPT ![p] = "live"]
  /\ task' = [task EXCEPT ![p] = "lookup"]
  /\ UNCHANGED <<tickets, conn, silent, metadata, authTimeout, clients, server,
                 counters>>

\* onopen: the page sends its ticket.  Messages arrive on a closing socket too.
TicketMessage(p) ==
  /\ page[p] = "auth" /\ conn[p] \in {"open", "closing"} /\ p \notin silent
  /\ page' = [page EXCEPT ![p] = "live"]
  /\ authTimeout' = authTimeout \ {p}
  /\ task' = [task EXCEPT ![p] = "lookup"]
  /\ UNCHANGED <<tickets, conn, silent, metadata, clients, server, counters>>

\* Mutant: a ticket that is not there leaves the socket as it is.
LookUpTicket_Silent(p) ==
  /\ task[p] = "lookup"
  /\ \/ p \in tickets /\ task' = [task EXCEPT ![p] = "delete"]
     \/ p \notin tickets /\ task' = [task EXCEPT ![p] = "none"]
  /\ UNCHANGED <<browser, conn, metadata, authTimeout, clients, server, counters>>

\* handleTicketAuthentication up to its second await.
LookUpTicket(p) ==
  /\ task[p] = "lookup"
  /\ \/ /\ p \in tickets
        /\ task' = [task EXCEPT ![p] = "delete"]
        /\ UNCHANGED conn
     \/ /\ p \notin tickets
        /\ task' = [task EXCEPT ![p] = "none"]
        /\ Close({p})
  /\ UNCHANGED <<browser, metadata, authTimeout, clients, server, counters>>

\* The deletion, and the rest of the handler: the socket may be closed by now.
DeleteTicket(p) ==
  /\ task[p] = "delete"
  /\ task' = [task EXCEPT ![p] = "none"]
  /\ tickets' = tickets \ {p}
  /\ Register(p)
  /\ UNCHANGED <<page, silent, isAlive, authTimeout, server, counters>>

\* Either call to Redis is rejected.
TicketAuthenticationFails(p) ==
  /\ task[p] # "none"
  /\ Fails
  /\ task' = [task EXCEPT ![p] = "none"]
  /\ Close({p})
  /\ UNCHANGED <<browser, metadata, authTimeout, clients, server, messages>>

\* handleClientAuthentication: a token is verified without leaving the process.
TokenMessage(ws) ==
  /\ conn[ws] \in {"open", "closing"} /\ ws \notin silent
  /\ messages < MaxMessages /\ messages' = messages + 1
  /\ authTimeout' = authTimeout \ {ws}
  /\ \/ Register(ws)
     \/ Close({ws}) /\ UNCHANGED <<clients, isAuthenticated>>
  /\ UNCHANGED <<browser, isAlive, task, server, failures>>

-----------------------------------------------------------------------------
\* Ends of connections

\* The peer closes, or the server has closed and the peer agrees: "close" is due.
PeerCloses(ws) ==
  /\ conn[ws] = "open" /\ ws \notin silent
  /\ Close({ws})
  /\ UNCHANGED <<browser, metadata, authTimeout, task, clients, server, counters>>

\* The "close" event deletes whatever is under the socket's client id.
HandleClientDisconnect(ws) ==
  /\ conn[ws] = "closing"
  /\ conn' = [conn EXCEPT ![ws] = "closed"]
  /\ authTimeout' = authTimeout \ {ws}
  /\ clients' = IF isAuthenticated[ws] THEN Without(clients, {ClientId[ws]}) ELSE clients
  /\ UNCHANGED <<browser, metadata, task, server, counters>>

\* The "error" event does the same, and "close" follows.
HandleClientError(ws) ==
  /\ conn[ws] = "open"
  /\ Close({ws})
  /\ authTimeout' = authTimeout \ {ws}
  /\ clients' = IF isAuthenticated[ws] THEN Without(clients, {ClientId[ws]}) ELSE clients
  /\ UNCHANGED <<browser, metadata, task, server, counters>>

\* The peer vanishes: no message, no pong, no close.
PeerVanishes(ws) ==
  /\ conn[ws] = "open"
  /\ silent' = silent \cup {ws}
  /\ UNCHANGED <<page, tickets, conn, metadata, authTimeout, task, clients,
                 server, counters>>

-----------------------------------------------------------------------------
\* Heartbeat and prices

Pong(ws) ==
  /\ conn[ws] = "open" /\ ws \notin silent /\ ~isAlive[ws]
  /\ isAlive' = [isAlive EXCEPT ![ws] = TRUE]
  /\ UNCHANGED <<browser, conn, isAuthenticated, authTimeout, task, clients,
                 server, counters>>

Members == {clients[c] : c \in DOMAIN clients}

\* Mutant: a socket that has not answered is dropped and not terminated.
Heartbeat_NoTerminate ==
  /\ server = "up" /\ Members # {}
  /\ clients' = Without(clients, {c \in DOMAIN clients : ~isAlive[clients[c]]})
  /\ isAlive' = [ws \in Sockets |-> isAlive[ws] /\ ws \notin Members]
  /\ UNCHANGED <<browser, conn, isAuthenticated, authTimeout, task, server, counters>>

\* Mutant: the flag is never reset.
Heartbeat_NeverResets ==
  /\ server = "up" /\ Members # {}
  /\ clients' = Without(clients, {c \in DOMAIN clients : ~isAlive[clients[c]]})
  /\ Close({ws \in Members : ~isAlive[ws]})
  /\ UNCHANGED <<browser, metadata, authTimeout, task, server, counters>>

\* Who has not answered the last ping is dropped and terminated, the others are
\* pinged.  Only sockets in the map are looked at.
Heartbeat ==
  /\ server = "up" /\ Members # {}
  /\ clients' = Without(clients, {c \in DOMAIN clients : ~isAlive[clients[c]]})
  /\ Close({ws \in Members : ~isAlive[ws]})
  /\ isAlive' = [ws \in Sockets |-> isAlive[ws] /\ ws \notin Members]
  /\ UNCHANGED <<browser, isAuthenticated, authTimeout, task, server, counters>>

\* handleRedisMessage broadcasts a price to these, in one go.
Receivers ==
  {ws \in Members : conn[ws] = "open" /\ isAuthenticated[ws]}

-----------------------------------------------------------------------------
\* Shutdown: no heartbeat, no new connections; the process ends when the last
\* socket has closed by itself.
BeginShutdown ==
  /\ server = "up"
  /\ server' = "closing"
  /\ UNCHANGED <<browser, conn, metadata, authTimeout, task, clients, counters>>

Exit ==
  /\ server = "closing"
  /\ \A ws \in Sockets : conn[ws] \in {"none", "closed"}
  /\ server' = "exited"
  /\ UNCHANGED <<browser, conn, metadata, authTimeout, task, clients, counters>>

-----------------------------------------------------------------------------
Init ==
  /\ page = [p \in Pages |-> "none"] /\ tickets = {}
  /\ conn = [ws \in Sockets |-> "none"] /\ silent = {}
  /\ isAuthenticated = [ws \in Sockets |-> FALSE]
  /\ isAlive = [ws \in Sockets |-> FALSE]
  /\ authTimeout = {} /\ task = [ws \in Sockets |-> "none"]
  /\ clients = EmptyMap
  /\ server = "up" /\ messages = 0 /\ failures = 0

TicketAuthentication(p) ==
  LookUpTicket(p) \/ DeleteTicket(p) \/ TicketAuthenticationFails(p)

Page(p) ==
  \/ Mount(p) \/ GetWsTicket(p) \/ Unmount(p) \/ TicketExpires(p) \/ TicketMessage(p)
  \/ TicketAuthentication(p)

Socket(ws) ==
  \/ HandleConnection(ws) \/ AuthTimeout(ws) \/ PeerCloses(ws) \/ PeerVanishes(ws)
  \/ HandleClientDisconnect(ws) \/ HandleClientError(ws) \/ Pong(ws)

Next ==
  \/ \E p \in Pages : Page(p)
  \/ \E ws \in Sockets : Socket(ws)
  \/ \E ws \in ApiClients : TokenMessage(ws)
  \/ Heartbeat \/ BeginShutdown \/ Exit

Spec == Init /\ [][Next]_vars

\* Timers fire, Redis replies or rejects, and the socket library ends what was
\* closed, by itself if the peer does not.
FairSpec ==
  /\ Spec
  /\ WF_vars(Heartbeat)
  /\ \A p \in Pages : WF_vars(TicketAuthentication(p))
  /\ \A ws \in Sockets : WF_vars(AuthTimeout(ws)) /\ WF_vars(HandleClientDisconnect(ws))

-----------------------------------------------------------------------------
\* Properties

\* Every variable has its type; the timer of an authenticated socket is off, and
\* the map holds authenticated sockets only.
RealtimeTypeOK ==
  /\ page \in [Pages -> {"none", "ticket", "connect", "auth", "live", "offline"}]
  /\ tickets \subseteq Pages /\ silent \subseteq Sockets
  /\ conn \in [Sockets -> {"none", "open", "closing", "closed"}]
  /\ isAuthenticated \in [Sockets -> BOOLEAN] /\ isAlive \in [Sockets -> BOOLEAN]
  /\ authTimeout \subseteq {ws \in Sockets : conn[ws] # "none" /\ ~isAuthenticated[ws]}
  /\ task \in [Sockets -> {"none", "lookup", "delete"}]
  /\ DOMAIN clients \subseteq ClientIds
  /\ \A c \in DOMAIN clients : /\ clients[c] \in Sockets /\ isAuthenticated[clients[c]]
                               /\ ClientId[clients[c]] = c
  /\ server \in {"up", "closing", "exited"}
  /\ messages \in 0..MaxMessages /\ failures \in 0..MaxFailures

\* Live prices go to all authenticated clients (README.md:218): an open one that
\* is left out shares its client id with another socket.  A page never is.
AuthenticatedAreHeard ==
  \A ws \in Sockets :
    conn[ws] = "open" /\ isAuthenticated[ws] =>
      ws \in Receivers \/ \E other \in Sockets \ {ws} : ClientId[other] = ClientId[ws] /\ isAuthenticated[other]

\* A connection does not stay open unauthenticated, although its timer is cleared
\* before its authentication has succeeded.
AuthenticatedOrClosed ==
  \A ws \in Sockets :
    conn[ws] = "open" /\ ~isAuthenticated[ws] ~> isAuthenticated[ws] \/ conn[ws] = "closed"

\* While the server is up, the heartbeat finds a peer that has vanished, and a
\* socket that was put in the map after its close event, and drops it.
VanishedAreDropped ==
  \A ws \in Sockets :
    ws \in Members /\ (ws \in silent \/ conn[ws] = "closed")
      ~> ws \notin Members \/ server # "up"
=============================================================================
