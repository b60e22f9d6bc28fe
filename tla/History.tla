------------------------------ MODULE History ------------------------------
(***************************************************************************)
(* What a user sees of his orders: the trade page in one tab of a browser, *)
(* its session, and the two sources the page puts side by side, the open   *)
(* orders of the engine and the closed orders of the database, which the   *)
(* worker of module DbWorker fills behind the engine's back.               *)
(*                                                                         *)
(* A poll asks both and shows the two answers together; polls overlap, and *)
(* an older one may land last.  Closing an order moves it between the      *)
(* lists on the page, whatever the database has.                           *)
(***************************************************************************)
EXTENDS DbWorker

CONSTANTS
  Polls     \* the polls that may be in flight at a time

VARIABLES
  route,          \* "/", "/signin" (or "/register"), "/trade"
  cookie,         \* the token cookie: "none", "valid", "expired" (the token in it)
  unauthorized,   \* a 401 is on its way
  shown,          \* the lists of the page: open, closed
  polls,          \* poll in flight -> the answers it has: open, closed
  closeCalls      \* orders whose close request has been answered

lists == <<shown, polls, closeCalls>>
pageVars == <<route, cookie, unauthorized, shown, polls, closeCalls>>
historyVars == <<workerVars, pageVars>>

-----------------------------------------------------------------------------
\* Session and routes

\* The web middleware: /trade is for those with a cookie, /signin for those
\* without.  It looks at no token.
Redirected(target) ==
  IF target = "/trade" /\ cookie' = "none" THEN "/signin"
  ELSE IF target = "/signin" /\ cookie' # "none" THEN "/trade"
  ELSE target

\* Mutant: the polls of a page that is left go on.
EmptyPage_KeepsPolls ==
  /\ shown' = [open |-> {}, closed |-> {}]
  /\ closeCalls' = {} /\ UNCHANGED polls

EmptyPage ==
  /\ shown' = [open |-> {}, closed |-> {}]
  /\ polls' = EmptyMap /\ closeCalls' = {}

\* router.push: a page that is left loses its state, and answers on their way
\* to its lists are ignored.
Push(target) ==
  /\ route' = Redirected(target)
  /\ IF route' = route THEN UNCHANGED lists ELSE EmptyPage

\* The browser loads another page: what this one was waiting for is gone.
Load(target) ==
  /\ route' = Redirected(target) /\ route' # route
  /\ EmptyPage
  /\ unauthorized' = FALSE

\* The user types an address.
Visit(target) == UNCHANGED cookie /\ Load(target)

\* The form: the answer sets the cookie, then the page pushes /trade.
SignIn ==
  /\ route = "/signin"
  /\ cookie' = "valid"
  /\ Push("/trade")
  /\ UNCHANGED unauthorized

\* The callback sets the cookie on the domain of the pages.
AuthCallback == cookie' = "valid" /\ Load("/trade")

\* The link in the mail, verified, leads to the callback with a fresh token.
VerifyMagicLink == AuthCallback

\* The token expires after a day, the cookie after seven.
Expire ==
  /\ cookie # "none"
  /\ cookie' = IF cookie = "valid" THEN "expired" ELSE "none"
  /\ UNCHANGED <<route, unauthorized, lists>>

\* signout clears the cookie whatever is in it, and the page pushes /signin.
SignOut ==
  /\ route = "/trade"
  /\ cookie' = "none"
  /\ Push("/signin")
  /\ UNCHANGED unauthorized

\* authMiddleware: no cookie is a 401, an expired token a 403.
AuthStatus ==
  CASE cookie = "none" -> 401
    [] cookie = "expired" -> 403
    [] cookie = "valid" -> 200

\* fetchBalance, with every poll: of its failures only a 401 has a consequence.
FetchBalance ==
  /\ route = "/trade" /\ AuthStatus = 401
  /\ unauthorized' = TRUE
  /\ UNCHANGED <<route, cookie, lists>>

\* Mutant: the page acts on the answer that an expired token gets.
Unauthorized_Forbidden == unauthorized /\ AuthStatus = 403

Unauthorized == unauthorized

\* Wherever the browser is by then.
PushSignIn ==
  /\ Unauthorized
  /\ unauthorized' = FALSE
  /\ UNCHANGED cookie
  /\ Push("/signin")

-----------------------------------------------------------------------------
\* Orders

outside == <<route, cookie, unauthorized>>

\* fetchOrders, on mount, every five seconds and after an order was opened.
FetchOrders(p) ==
  /\ route = "/trade" /\ p \notin DOMAIN polls
  /\ polls' = Put(polls, p, EmptyMap)
  /\ UNCHANGED <<outside, shown, closeCalls>>

Answered(p) == DOMAIN polls[p] = {"open", "closed"}

\* The engine answers with the orders open in memory.
GetOpenOrders(p) ==
  /\ p \in DOMAIN polls /\ "open" \notin DOMAIN polls[p] /\ AuthStatus = 200
  /\ polls' = [polls EXCEPT ![p] = Put(@, "open", {o \in Orders : status[o] = "OPEN"})]
  /\ UNCHANGED <<outside, shown, closeCalls>>

\* The database answers with the rows of the user.
GetClosedOrders(p) ==
  /\ p \in DOMAIN polls /\ "closed" \notin DOMAIN polls[p] /\ AuthStatus = 200
  /\ polls' = [polls EXCEPT ![p] = Put(@, "closed", DOMAIN closedOrders)]
  /\ UNCHANGED <<outside, shown, closeCalls>>

\* Mutant: the page sets one list only.
Lists_OpenOnly(p) == [shown EXCEPT !.open = polls[p].open]

Lists(p) == [open |-> polls[p].open, closed |-> polls[p].closed]

\* Promise.all: both answers are there.
ShowOrders(p) ==
  /\ p \in DOMAIN polls /\ Answered(p)
  /\ shown' = Lists(p)
  /\ polls' = Without(polls, {p})
  /\ UNCHANGED <<outside, closeCalls>>

\* Either request failed: the lists stay as they are.
FetchFails(p) ==
  /\ p \in DOMAIN polls /\ ~Answered(p)
  /\ polls' = Without(polls, {p})
  /\ UNCHANGED <<outside, shown, closeCalls>>

\* The session does not allow it.
Refuse(p) == AuthStatus # 200 /\ FetchFails(p)

\* The call to the engine timed out, or the database failed.
Fail(p) ==
  /\ AuthStatus = 200 /\ Fails /\ FetchFails(p)
  /\ UNCHANGED <<engineVars, readerVars, upsets>>

\* The user opens an order; the polls that follow find it.
OpenOrder(o) ==
  /\ route = "/trade" /\ AuthStatus = 200
  /\ EngineOpens(o)
  /\ UNCHANGED <<pageVars, readerVars, failures>>

\* The user closes an order the page shows as open, which it need not be any more.
CloseOrder(o) ==
  /\ o \in shown.open /\ o \notin closeCalls
  /\ AuthStatus = 200
  /\ EngineCloses(o)
  /\ closeCalls' = closeCalls \cup {o}
  /\ UNCHANGED <<outside, shown, polls, readerVars, failures>>

\* The answer moves the order from one list to the other.
HandleCloseOrder(o) ==
  /\ o \in closeCalls
  /\ shown' = [open |-> shown.open \ {o}, closed |-> shown.closed \cup {o}]
  /\ closeCalls' = closeCalls \ {o}
  /\ UNCHANGED <<outside, polls>>

-----------------------------------------------------------------------------
HistoryInit ==
  /\ WorkerInit
  /\ route = "/" /\ cookie = "none"
  /\ unauthorized = FALSE
  /\ shown = [open |-> {}, closed |-> {}] /\ polls = EmptyMap /\ closeCalls = {}

Browser ==
  /\ \/ \E target \in {"/", "/signin", "/trade"} : Visit(target)
     \/ SignIn \/ VerifyMagicLink \/ Expire
     \/ SignOut \/ FetchBalance \/ PushSignIn
     \/ \E p \in Polls : FetchOrders(p) \/ ShowOrders(p) \/ Refuse(p)
     \/ \E o \in Orders : HandleCloseOrder(o)
  /\ UNCHANGED workerVars

Answers(p) == (GetOpenOrders(p) \/ GetClosedOrders(p)) /\ UNCHANGED workerVars

HistoryNext ==
  \/ WorkerNext /\ UNCHANGED pageVars
  \/ Browser
  \/ \E p \in Polls : Answers(p) \/ Fail(p)
  \/ \E o \in Orders : OpenOrder(o) \/ CloseOrder(o)

HistorySpec == HistoryInit /\ [][HistoryNext]_historyVars

\* Timers fire and awaits resolve; nothing is assumed of the user, the engine, the
\* worker or the expiry of a session.
HistoryFairSpec ==
  /\ HistorySpec
  /\ WF_historyVars(FetchBalance /\ UNCHANGED workerVars)
  /\ WF_historyVars(PushSignIn /\ UNCHANGED workerVars)
  /\ \A p \in Polls :
       WF_historyVars((FetchOrders(p) \/ GetOpenOrders(p) \/ GetClosedOrders(p)
                         \/ ShowOrders(p) \/ Refuse(p)) /\ UNCHANGED workerVars)

-----------------------------------------------------------------------------
\* Properties

\* Every variable has its type; a page that is left has no poll and no close
\* request in hand.
HistoryTypeOK ==
  /\ WorkerTypeOK
  /\ route \in {"/", "/signin", "/trade"}
  /\ cookie \in {"none", "valid", "expired"}
  /\ unauthorized \in BOOLEAN
  /\ shown \in [open : SUBSET Orders, closed : SUBSET Orders]
  /\ DOMAIN polls \subseteq Polls
  /\ \A p \in DOMAIN polls :
       /\ DOMAIN polls[p] \subseteq {"open", "closed"}
       /\ \A list \in DOMAIN polls[p] : polls[p][list] \subseteq Orders
  /\ closeCalls \subseteq Orders
  /\ route # "/trade" => DOMAIN polls = {} /\ closeCalls = {}

\* The page shows no order as open that was never placed, and none as closed that
\* the engine has open, although what it shows as closed comes by way of the
\* stream, the worker, the table, a poll that may be the older of two and the
\* answer of a close request.  The exception is an order that was closed and that a
\* restart of the engine has opened again: its closing was published, and stays.
PageTruthful ==
  /\ \A o \in shown.open : status[o] # "none"
  /\ \A o \in shown.closed : status[o] \in {"LIQUIDATED", "CLOSED", "gone"} \cup
                               (IF o \in reopened THEN {"OPEN"} ELSE {})

\* A page that stays open in a session that stays valid comes to show what its two
\* sources say, and goes on doing so, whichever order the answers of overlapping
\* polls and of the close request arrive in and whichever single answers fail: as
\* closed every order whose closing the worker has written, and as open exactly the
\* orders that are open in the engine for good.  An order that a restart has opened
\* again ends up in both lists.
PageConverges ==
  <>[](route = "/trade" /\ cookie = "valid") =>
    \A o \in Orders :
      /\ <>[](o \in DOMAIN closedOrders => o \in shown.closed)
      /\ <>[](status[o] = "OPEN") => <>[](o \in shown.open)
      /\ <>[](status[o] # "OPEN") => <>[](o \notin shown.open)

\* Without a cookie nobody stays on the trade page: the next balance is a 401 and
\* sends him to /signin, unless he has signed in again meanwhile.
SignedOutLeavesPage ==
  []<>(route # "/trade" \/ cookie # "none")
=============================================================================
