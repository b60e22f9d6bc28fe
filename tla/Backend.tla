------------------------------- MODULE Backend -------------------------------
(***************************************************************************)
(* The HTTP backend: controllers, engine client and response subscriber.   *)
(*                                                                         *)
(* A handler (a "call") reads the engine's status, registers a waiter,     *)
(* appends its request to the request stream and awaits the answer.  The   *)
(* subscriber, one per server process, reads the response queue, resolves  *)
(* the waiters and deletes what it has read.  A waiter that is not         *)
(* resolved in time is rejected.  `stage` is where a handler stands:       *)
(*   "idle"        not called yet                                          *)
(*   "status"      awaits the status key                                   *)
(*   "publishing"  waiter registered, awaits the XADD                      *)
(*   "waiting"     awaits the waiter's promise                             *)
(*   "rollback"    sign-up awaits the deletion of the user it created      *)
(*   "returned"    has sent its HTTP status                                *)
(*   "lost"        its process is gone, the connection dropped             *)
(*                                                                         *)
(* Of the engine this module keeps what a caller can tell: it applies a    *)
(* request, publishes the response or fails to, and may apply the request  *)
(* again.  A sign-up call names its user.                                  *)
(***************************************************************************)
EXTENDS Integers

CONSTANTS
  Servers,          \* backend processes that share the response queue
  Signups, Orders,  \* calls of the sign-up and of the order controllers
  Owner,            \* the user of each order call
  Kinds,            \* the order handlers that are called
  MaxFaults,        \* bound: failed database calls, publications, deletions
  MaxUpsets         \* bound: signals, crashes, failed reads of the response
                    \* queue, requests the engine applies again

Calls == Signups \cup Orders

OrderKinds == {"openOrder", "closeOrder", "getOrder", "getUserOrders",
               "getClosedOrders", "getBalance"}

ASSUME BackendAssumption ==
  /\ Signups \cap Orders = {}
  /\ Owner \in [Orders -> Signups]
  /\ Kinds \subseteq OrderKinds
  /\ {MaxFaults, MaxUpsets} \subseteq Nat

VARIABLES
  requests,      \* calls whose request is in the request stream
  verdict,       \* call -> error codes the engine came to, "NONE" for success
  reply,         \* the response in the engine's hands, if there is one
  sent,          \* call -> the entries of the response queue that answer it
  queue,         \* the response queue
  lastEntry,     \* identifier of the last entry ever added to it
  stage, kind, server, promise, status,  \* per call
  callbacks,     \* calls with a waiter registered
  lastId,        \* server -> position in the queue, Latest for "$"
  since,         \* server -> the entry "$" stood for, Latest before Redis had it
  reader,        \* server -> where runLoop stands
  inbox,         \* server -> entries read and not yet dispatched
  answer,        \* call -> the error code its waiter was resolved with
  phase,         \* server -> "up", "stopping", "down"
  rows,          \* users in the database
  tokens,        \* users who hold a session
  faults, upsets \* counters for the bounds

engine == <<requests, verdict, reply, sent>>
subscriber == <<queue, lastEntry, lastId, since, reader, inbox, answer>>
handlers == <<stage, kind, server, promise, status, callbacks>>
database == <<rows, tokens>>
counters == <<faults, upsets>>
vars == <<requests, verdict, reply, sent, queue, lastEntry, stage, kind,
          server, promise, status, callbacks, lastId, since, reader, inbox, answer,
          phase, rows, tokens, faults, upsets>>

Stages == {"idle", "status", "publishing", "waiting", "rollback", "returned",
           "lost"}
Promises == {"none", "pending", "answered", "timeout", "stopped", "gone"}
ErrorCodes == {"NONE", "INSUFFICIENT_BALANCE", "ORDER_NOT_FOUND",
               "ORDER_ALREADY_CLOSED", "PRICE_DATA_UNAVAILABLE", "USER_EXISTS"}
Statuses == {0, 200, 400, 403, 404, 500, 503}
Latest == -1

CallsOf(s) == {c \in Calls : server[c] = s}

Fault == faults < MaxFaults /\ faults' = faults + 1

Upset == upsets < MaxUpsets /\ upsets' = upsets + 1

-----------------------------------------------------------------------------
\* HTTP status of each handler for a response, by its error code.  A response
\* made up by the subscriber when it stops has an error no handler knows.

OpenOrderStatus(error) ==
  CASE error = "NONE" -> 200
    [] error = "PRICE_DATA_UNAVAILABLE" -> 503
    [] OTHER -> 400

\* Mutant: the success flag is not looked at.
CloseOrderStatus_Always(error) == 200

CloseOrderStatus(error) ==
  CASE error = "NONE" -> 200
    [] error = "ORDER_NOT_FOUND" -> 404
    [] error = "PRICE_DATA_UNAVAILABLE" -> 503
    [] OTHER -> 400

GetOrderStatus(error) ==
  CASE error = "NONE" -> 200 [] error = "ORDER_NOT_FOUND" -> 404 [] OTHER -> 400

GetUserOrdersStatus(error) == IF error = "NONE" THEN 200 ELSE 400

GetBalanceStatus(error) == IF error = "NONE" THEN 200 ELSE 400

ResponseStatus(k, error) ==
  CASE k = "openOrder" -> OpenOrderStatus(error)
    [] k = "closeOrder" -> CloseOrderStatus(error)
    [] k = "getOrder" -> GetOrderStatus(error)
    [] k = "getUserOrders" -> GetUserOrdersStatus(error)
    [] OTHER -> GetBalanceStatus(error)

Return(c, code) ==
  /\ stage' = [stage EXCEPT ![c] = "returned"]
  /\ status' = [status EXCEPT ![c] = code]

\* The handler's try block has thrown: a sign-up deletes its user first.  An
\* order handler answers 500, also for a timeout: it looks for "timeout" in a
\* message that says "Timeout".
Fail(c) ==
  \/ /\ c \in Signups
     /\ stage' = [stage EXCEPT ![c] = "rollback"]
     /\ UNCHANGED status
  \/ c \in Orders /\ Return(c, 500)

-----------------------------------------------------------------------------
\* Controllers and engine client

\* validate: a request outside its schema goes no further.
Invalid(c) == Return(c, 400)

\* signup: create the user, then turn to the engine.
BeginSignup(c, s) ==
  /\ stage[c] = "idle" /\ phase[s] = "up"
  /\ server' = [server EXCEPT ![c] = s]
  /\ kind' = [kind EXCEPT ![c] = "signup"]
  /\ \/ /\ rows' = rows \cup {c}
        /\ stage' = [stage EXCEPT ![c] = "status"]
        /\ UNCHANGED <<status, faults>>
     \/ Fault /\ Return(c, 500) /\ UNCHANGED rows
     \/ Invalid(c) /\ UNCHANGED <<rows, faults>>
  /\ UNCHANGED <<engine, subscriber, promise, callbacks, phase, tokens,
                 upsets>>

\* signin needs the row and nothing else: a sign-up need not have returned.
SignIn(u) ==
  /\ u \in rows \ tokens
  /\ \E s \in Servers : phase[s] = "up"
  /\ tokens' = tokens \cup {u}
  /\ UNCHANGED <<engine, subscriber, handlers, phase, rows, counters>>

\* getUserOrders for closed orders reads the database.
GetClosedOrders(c) ==
  \/ Return(c, 200) /\ UNCHANGED faults
  \/ Fault /\ Return(c, 500)

\* authMiddleware looks the user up; what is not history is asked of the engine.
BeginOrder(c, s, k) ==
  /\ stage[c] = "idle" /\ phase[s] = "up" /\ Owner[c] \in tokens
  /\ server' = [server EXCEPT ![c] = s]
  /\ kind' = [kind EXCEPT ![c] = k]
  /\ \/ Owner[c] \notin rows /\ Return(c, 404) /\ UNCHANGED faults
     \/ Owner[c] \in rows /\ k # "getBalance" /\ Invalid(c) /\ UNCHANGED faults
     \/ Owner[c] \in rows /\ k = "getClosedOrders" /\ GetClosedOrders(c)
     \/ /\ Owner[c] \in rows /\ k # "getClosedOrders"
        /\ stage' = [stage EXCEPT ![c] = "status"]
        /\ UNCHANGED <<status, faults>>
     \/ Fault /\ Return(c, 403)
  /\ UNCHANGED <<engine, subscriber, promise, callbacks, phase, database,
                 upsets>>

\* sendRequest: the engine may be READY or not, or its key cannot be read.  The
\* waiter is registered before the request is published.
CheckEngineStatus(c) ==
  /\ stage[c] = "status"
  /\ \/ /\ Fail(c)
        /\ UNCHANGED <<promise, callbacks>>
     \/ /\ stage' = [stage EXCEPT ![c] = "publishing"]
        /\ promise' = [promise EXCEPT ![c] = "pending"]
        /\ callbacks' = callbacks \cup {c}
        /\ UNCHANGED status
  /\ UNCHANGED <<engine, subscriber, kind, server, phase, database, counters>>

\* Redis executes the XADD; its reply may still be on the way.
AppendRequest(c) ==
  /\ stage[c] = "publishing" /\ c \notin requests
  /\ requests' = requests \cup {c}
  /\ UNCHANGED <<verdict, reply, sent, subscriber, handlers,
                 phase, database, counters>>

PublishRequest(c) ==
  /\ stage[c] = "publishing" /\ c \in requests
  /\ stage' = [stage EXCEPT ![c] = "waiting"]
  /\ UNCHANGED <<engine, subscriber, kind, server, promise, status, callbacks, phase,
                 database, counters>>

\* The XADD is rejected, whether or not Redis has executed it.  The waiter
\* stays, and nobody awaits its promise.
PublicationFails(c) ==
  /\ stage[c] = "publishing"
  /\ Fault
  /\ Fail(c)
  /\ UNCHANGED <<engine, subscriber, kind, server, promise, callbacks, phase,
                 database, upsets>>

\* The awaited promise is settled: the handler goes on.
TakeAnswer(c) ==
  /\ stage[c] = "waiting"
  /\ \/ promise[c] = "timeout" /\ Fail(c) /\ UNCHANGED tokens
     \/ /\ promise[c] = "answered" /\ c \in Signups /\ answer[c] = "NONE"
        /\ Return(c, 200)
        /\ tokens' = tokens \cup {c}
     \/ /\ promise[c] = "stopped" \/ (promise[c] = "answered" /\ answer[c] # "NONE")
        /\ c \in Signups
        /\ Fail(c)
        /\ UNCHANGED tokens
     \/ /\ promise[c] \in {"answered", "stopped"} /\ c \in Orders
        /\ Return(c, ResponseStatus(kind[c], IF promise[c] = "answered"
                                               THEN answer[c] ELSE "STOPPED"))
        /\ UNCHANGED tokens
  /\ UNCHANGED <<engine, subscriber, kind, server, promise, callbacks, phase, rows,
                 counters>>

\* Mutant: the user is not deleted.
Rollback_Keeps(c) ==
  /\ stage[c] = "rollback"
  /\ Return(c, 500)
  /\ UNCHANGED <<engine, subscriber, kind, server, promise, callbacks, phase,
                 database, counters>>

\* The deletion of the user, which may fail as well.
Rollback(c) ==
  /\ stage[c] = "rollback"
  /\ \/ rows' = rows \ {c} /\ UNCHANGED faults
     \/ Fault /\ UNCHANGED rows
  /\ Return(c, 500)
  /\ UNCHANGED <<engine, subscriber, kind, server, promise, callbacks, phase, tokens,
                 upsets>>

-----------------------------------------------------------------------------
\* Subscriber

\* stop(): every waiter of the server is resolved with an error object.
Stop(s, waiters) ==
  /\ phase' = [phase EXCEPT ![s] = "stopping"]
  /\ callbacks' = callbacks \ waiters
  /\ promise' = [c \in Calls |-> IF c \in waiters THEN "stopped" ELSE promise[c]]

\* Mutant: the waiter is forgotten, its promise is not rejected.
Timeout_Silent(c) ==
  /\ c \in callbacks
  /\ callbacks' = callbacks \ {c}
  /\ UNCHANGED <<promise, phase, engine, subscriber, stage, kind, server, status,
                 database, counters>>

\* A rejection nobody awaits yet, or any more, stops the server.
UnhandledRejection(c) ==
  LET others == (callbacks \ {c}) \cap CallsOf(server[c])
  IN  /\ callbacks' = callbacks \ (others \cup {c})
      /\ promise' = [d \in Calls |-> CASE d = c -> "timeout"
                                      [] d \in others -> "stopped"
                                      [] OTHER -> promise[d]]
      /\ phase' = [phase EXCEPT ![server[c]] = "stopping"]

\* The timer of a waiter rejects its promise.
Timeout(c) ==
  /\ c \in callbacks
  /\ \/ /\ stage[c] = "waiting"
        /\ promise' = [promise EXCEPT ![c] = "timeout"]
        /\ callbacks' = callbacks \ {c}
        /\ UNCHANGED phase
     \/ stage[c] # "waiting" /\ UnhandledRejection(c)
  /\ UNCHANGED <<engine, subscriber, stage, kind, server, status, database, counters>>

\* Mutant: every XREAD starts at "$".
ReadQueue_Latest(s) ==
  /\ reader[s] = "idle" /\ phase[s] = "up"
  /\ reader' = [reader EXCEPT ![s] = "blocked"]
  /\ since' = [since EXCEPT ![s] = IF lastId[s] = Latest THEN lastEntry ELSE @]
  /\ UNCHANGED <<engine, handlers, queue, lastEntry, lastId, inbox, answer, phase,
                 database, counters>>

\* XREAD: everything after lastId at once, or block.  "$" is what Redis has when
\* the command reaches it, which may be after the server began to listen.
ReadQueue(s) ==
  /\ reader[s] = "idle" /\ phase[s] = "up"
  /\ LET from == IF lastId[s] = Latest THEN lastEntry ELSE lastId[s]
         read == {e \in queue : e.id > from}
     IN  /\ inbox' = [inbox EXCEPT ![s] = read]
         /\ reader' = [reader EXCEPT ![s] = IF read = {} THEN "blocked"
                                            ELSE "dispatching"]
  /\ since' = [since EXCEPT ![s] = IF lastId[s] = Latest THEN lastEntry ELSE @]
  /\ UNCHANGED <<engine, handlers, queue, lastEntry, lastId, answer, phase, database,
                 counters>>

\* The connection fails under the blocked XREAD; the loop starts it again, with
\* "$" if nothing has been read yet.
ReadFails(s) ==
  /\ reader[s] = "blocked"
  /\ Upset
  /\ reader' = [reader EXCEPT ![s] = "idle"]
  /\ since' = [since EXCEPT ![s] = IF lastId[s] = Latest THEN Latest ELSE @]
  /\ UNCHANGED <<engine, handlers, queue, lastEntry, lastId, inbox, answer, phase,
                 database, faults>>

IsNext(s, e) == e \in inbox[s] /\ \A other \in inbox[s] : e.id <= other.id

\* The waiter of the entry is resolved with the response, if it is this server's.
Resolve(s, e) ==
  IF e.call \in callbacks \cap CallsOf(s)
    THEN /\ promise' = [promise EXCEPT ![e.call] = "answered"]
         /\ answer' = [answer EXCEPT ![e.call] = e.error]
    ELSE UNCHANGED <<promise, answer>>

\* Mutant: the waiter is resolved and stays registered.
DispatchAnswer_Keeps(s, e) ==
  /\ reader[s] = "dispatching" /\ IsNext(s, e)
  /\ lastId' = [lastId EXCEPT ![s] = e.id]
  /\ reader' = [reader EXCEPT ![s] = "deleting"]
  /\ Resolve(s, e)
  /\ UNCHANGED <<engine, queue, lastEntry, since, inbox, stage, kind, server, status,
                 callbacks, phase, database, counters>>

\* Mutant: the position moves past the entry.
DispatchAnswer_Past(s, e) ==
  /\ reader[s] = "dispatching" /\ IsNext(s, e)
  /\ lastId' = [lastId EXCEPT ![s] = e.id + 1]
  /\ reader' = [reader EXCEPT ![s] = "deleting"]
  /\ Resolve(s, e)
  /\ callbacks' = callbacks \ ({e.call} \cap CallsOf(s))
  /\ UNCHANGED <<engine, queue, lastEntry, since, inbox, stage, kind, server, status,
                 phase, database, counters>>

\* The entry is dispatched to its waiter, if this server has one.
DispatchAnswer(s, e) ==
  /\ reader[s] = "dispatching" /\ IsNext(s, e)
  /\ lastId' = [lastId EXCEPT ![s] = e.id]
  /\ reader' = [reader EXCEPT ![s] = "deleting"]
  /\ Resolve(s, e)
  /\ callbacks' = callbacks \ ({e.call} \cap CallsOf(s))
  /\ UNCHANGED <<engine, queue, lastEntry, since, inbox, stage, kind, server, status,
                 phase, database, counters>>

\* XDEL, whoever the entry was for; a failure is logged.
DeleteAnswer(s, e) ==
  /\ reader[s] = "deleting" /\ IsNext(s, e)
  /\ \/ queue' = queue \ {e} /\ UNCHANGED faults
     \/ Fault /\ UNCHANGED queue
  /\ inbox' = [inbox EXCEPT ![s] = @ \ {e}]
  /\ reader' = [reader EXCEPT ![s] = IF inbox[s] = {e} THEN "idle" ELSE "dispatching"]
  /\ UNCHANGED <<engine, handlers, lastEntry, lastId, since, answer, phase, database,
                 upsets>>

-----------------------------------------------------------------------------
\* Server process

Signal(s) ==
  /\ phase[s] = "up"
  /\ Upset
  /\ Stop(s, callbacks \cap CallsOf(s))
  /\ UNCHANGED <<engine, subscriber, stage, kind, server, status, database, faults>>

\* The end of the process: what its handlers had in hand is lost.
Terminate(s) ==
  /\ phase' = [phase EXCEPT ![s] = "down"]
  /\ stage' = [c \in Calls |->
                 IF server[c] = s /\ stage[c] # "returned" THEN "lost" ELSE stage[c]]
  /\ callbacks' = callbacks \ CallsOf(s)
  /\ reader' = [reader EXCEPT ![s] = "idle"]
  /\ promise' = [c \in Calls |-> IF c \in callbacks \cap CallsOf(s) THEN "gone"
                                 ELSE promise[c]]
  /\ inbox' = [inbox EXCEPT ![s] = {}]
  /\ UNCHANGED <<engine, queue, lastEntry, lastId, since, answer, kind, server, status,
                 database, faults>>

\* process.exit follows QUIT, which Redis answers only after a blocked XREAD.
Exit(s) ==
  /\ phase[s] = "stopping" /\ reader[s] # "blocked"
  /\ Terminate(s)
  /\ UNCHANGED upsets

Crash(s) ==
  /\ phase[s] # "down"
  /\ Upset
  /\ Terminate(s)

\* A new process starts at "$".  It listens before that XREAD reaches Redis.
Restart(s) ==
  /\ phase[s] = "down"
  /\ phase' = [phase EXCEPT ![s] = "up"]
  /\ lastId' = [lastId EXCEPT ![s] = Latest]
  /\ since' = [since EXCEPT ![s] = Latest]
  /\ UNCHANGED <<engine, queue, lastEntry, reader, inbox, answer, handlers, database,
                 counters>>

-----------------------------------------------------------------------------
\* Engine

\* What the engine may come to.  Its other codes are handled like the first.
ErrorsOf(k) ==
  {"NONE"} \cup
  (CASE k = "openOrder" -> {"INSUFFICIENT_BALANCE", "PRICE_DATA_UNAVAILABLE"}
     [] k = "closeOrder" -> {"ORDER_NOT_FOUND", "ORDER_ALREADY_CLOSED",
                             "PRICE_DATA_UNAVAILABLE"}
     [] k = "getOrder" -> {"ORDER_NOT_FOUND"}
     [] k = "signup" -> {"USER_EXISTS"}
     [] OTHER -> {})

\* Nobody without a balance opens an order, and a user exists who was registered.
Possible(c, error) ==
  /\ error \in ErrorsOf(kind[c])
  /\ kind[c] = "openOrder" /\ error = "NONE" => "NONE" \in verdict[Owner[c]]
  /\ error = "USER_EXISTS" => "NONE" \in verdict[c]

\* The engine applies a request.  It comes to the same request again when the last
\* publication of a batch was rejected, whether or not Redis executed it, and when
\* it replays after a restart.  A response that was not published by then is lost.
EngineDecides(c) ==
  /\ c \in requests
  /\ \/ verdict[c] = {} /\ UNCHANGED upsets
     \/ verdict[c] # {} /\ Upset
  /\ \E error \in ErrorCodes :
       /\ Possible(c, error)
       /\ verdict' = [verdict EXCEPT ![c] = @ \cup {error}]
       /\ reply' = {[call |-> c, error |-> error]}
  /\ UNCHANGED <<requests, sent, subscriber, handlers, phase, database, faults>>

\* publishResponseToQueue: readers that are blocked get the entry at once.
PublishResponse(entry) ==
  /\ reply' = {}
  /\ sent' = [sent EXCEPT ![entry.call] = @ \cup {entry.id}]
  /\ lastEntry' = entry.id
  /\ queue' = queue \cup {entry}
  /\ inbox' = [s \in Servers |-> IF reader[s] = "blocked" THEN {entry} ELSE inbox[s]]
  /\ reader' = [s \in Servers |-> IF reader[s] = "blocked" THEN "dispatching"
                                  ELSE reader[s]]
  /\ UNCHANGED <<requests, verdict, lastId, since, answer, handlers, phase, database,
                 counters>>

EngineAnswers ==
  \E r \in reply :
    PublishResponse([id |-> lastEntry + 1, call |-> r.call, error |-> r.error])

-----------------------------------------------------------------------------
\* Every server listens; its first XREAD has not reached Redis.
Init ==
  /\ requests = {} /\ reply = {}
  /\ verdict = [c \in Calls |-> {}]
  /\ sent = [c \in Calls |-> {}]
  /\ queue = {} /\ lastEntry = 0
  /\ stage = [c \in Calls |-> "idle"]
  /\ kind = [c \in Calls |-> "none"]
  /\ server = [c \in Calls |-> "none"]
  /\ promise = [c \in Calls |-> "none"]
  /\ status = [c \in Calls |-> 0]
  /\ callbacks = {}
  /\ lastId = [s \in Servers |-> Latest]
  /\ since = [s \in Servers |-> Latest]
  /\ reader = [s \in Servers |-> "idle"]
  /\ inbox = [s \in Servers |-> {}]
  /\ answer = [c \in Calls |-> "none"]
  /\ phase = [s \in Servers |-> "up"]
  /\ rows = {} /\ tokens = {}
  /\ faults = 0 /\ upsets = 0

SendRequest(c) ==
  \/ CheckEngineStatus(c) \/ AppendRequest(c) \/ PublishRequest(c)
  \/ PublicationFails(c) \/ TakeAnswer(c)

RunLoop(s) ==
  \/ ReadQueue(s) \/ ReadFails(s)
  \/ \E e \in inbox[s] : DispatchAnswer(s, e) \/ DeleteAnswer(s, e)

Users ==
  \/ \E c \in Signups, s \in Servers : BeginSignup(c, s)
  \/ \E u \in Signups : SignIn(u)
  \/ \E c \in Orders, s \in Servers, k \in Kinds : BeginOrder(c, s, k)

Process(s) == Signal(s) \/ Exit(s) \/ Crash(s) \/ Restart(s)

Engine ==
  EngineAnswers \/ \E c \in Calls : EngineDecides(c)

Next ==
  \/ Users \/ Engine
  \/ \E c \in Calls : SendRequest(c) \/ Timeout(c) \/ (c \in Signups /\ Rollback(c))
  \/ \E s \in Servers : RunLoop(s) \/ Process(s)

Spec == Init /\ [][Next]_vars

\* Redis and the database reply or reject, and timers fire.
FairSpec ==
  /\ Spec
  /\ \A c \in Calls : WF_vars(SendRequest(c)) /\ WF_vars(Timeout(c))
  /\ \A c \in Signups : WF_vars(Rollback(c))

-----------------------------------------------------------------------------
\* Properties

Entries == [id : 1..lastEntry, call : Calls, error : ErrorCodes]

\* Every variable has its type.  The reader's position is an entry that was
\* added, and an answer that is queued or read was sent.
BackendTypeOK ==
  /\ requests \subseteq Calls /\ callbacks \subseteq Calls
  /\ verdict \in [Calls -> SUBSET ErrorCodes]
  /\ reply \subseteq [call : Calls, error : ErrorCodes]
  /\ lastEntry \in Nat /\ queue \subseteq Entries
  /\ sent \in [Calls -> SUBSET (1..lastEntry)]
  /\ stage \in [Calls -> Stages] /\ promise \in [Calls -> Promises]
  /\ status \in [Calls -> Statuses]
  /\ kind \in [Calls -> OrderKinds \cup {"none", "signup"}]
  /\ server \in [Calls -> Servers \cup {"none"}]
  /\ lastId \in [Servers -> {Latest} \cup 1..lastEntry]
  /\ since \in [Servers -> {Latest} \cup 0..lastEntry]
  /\ reader \in [Servers -> {"idle", "blocked", "dispatching", "deleting"}]
  /\ inbox \in [Servers -> SUBSET Entries]
  /\ answer \in [Calls -> ErrorCodes \cup {"none"}]
  /\ phase \in [Servers -> {"up", "stopping", "down"}]
  /\ rows \subseteq Signups /\ tokens \subseteq Signups
  /\ faults \in 0..MaxFaults /\ upsets \in 0..MaxUpsets

\* A waiter is registered exactly as long as its promise is pending: none leaks
\* in the map of callbacks and none is forgotten there.  One that outlives its
\* handler belongs to a publication that failed.
WaitersReleased ==
  /\ \A c \in Calls : c \in callbacks <=> promise[c] = "pending"
  /\ \A c \in callbacks : \/ stage[c] \in {"publishing", "waiting"}
                          \/ faults > 0 /\ stage[c] \in {"rollback", "returned"}

\* The answer to c is with its server, or the server's next XREAD returns it.
AnswerInReach(c) ==
  LET s == server[c]
      ahead == {e \in queue : reader[s] # "blocked" /\ e.id > lastId[s]}
  IN  \E e \in inbox[s] \cup ahead : e.call = c

OneServer == \A s, t \in Servers : s = t

\* An answer somebody waits for, added after Redis first knew where the server's
\* reading begins, is not lost on him.
AnswersInReach ==
  \A c \in callbacks : \A id \in sent[c] :
    LET s == server[c]
    IN  since[s] # Latest /\ id > since[s] => AnswerInReach(c)

\* The loop of a single server never passes over and never deletes an answer that
\* somebody waits for, whatever fails, stops and restarts.  Exempt is what was added
\* before "$" reached Redis, or, when the read of "$" fails, before it does again.
NoAnswerMissed == OneServer => AnswersInReach

\* The HTTP layer is stateless and scales horizontally (README.md:446): with any
\* number of servers an answer reaches the one that waits for it.
ScalesOut == AnswersInReach

\* A sign-up that succeeded has its row and its balance in the engine; one that
\* failed leaves no row, as long as the database works, and it leaves a user in
\* the engine only if the engine was late, the server was stopped, or the engine
\* answered for the second time it applied the request.
SignupConsistent ==
  \A u \in Signups : stage[u] = "returned" =>
    /\ status[u] = 200 => u \in rows /\ "NONE" \in verdict[u]
    /\ status[u] = 500 /\ faults = 0 =>
         /\ u \notin rows
         /\ u \in requests => \/ promise[u] \in {"timeout", "stopped"}
                              \/ promise[u] = "answered" /\ answer[u] = "USER_EXISTS"

\* Every handler that has turned to the engine returns, whatever the engine, the
\* queue and the other servers do, or its process ends.
CallsReturn ==
  \A c \in Calls : stage[c] = "status" ~> stage[c] \in {"returned", "lost"}

\* What the engine did with a request, each time it applied it, and what the caller
\* hears.  A response made up when the server stops says nothing about the engine,
\* nor does a 500.
Effect == [c \in Calls |->
             {IF error = "NONE" THEN "done" ELSE "refused" : error \in verdict[c]}]

Outcome == [c \in Calls |->
              IF stage[c] # "returned" THEN "none"
              ELSE IF promise[c] # "answered" THEN "unknown"
              ELSE CASE status[c] = 200 -> "done"
                     [] status[c] \in {400, 404, 503} -> "refused"
                     [] OTHER -> "unknown"]

Remote == INSTANCE RemoteCall WITH effect <- Effect, outcome <- Outcome

\* A caller who is told that the engine did or refused what he asked is told what
\* the engine did, one of the times it applied his request, and had done by then.
ImplementsRemoteCall == Remote!CallSpec
=============================================================================
