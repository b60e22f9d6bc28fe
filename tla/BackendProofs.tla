--------------------------- MODULE BackendProofs ---------------------------
(***************************************************************************)
(* Theorems about Backend, for any servers, calls, kinds and bounds: the   *)
(* types, that waiters are released, that a sign-up leaves the database    *)
(* and the engine in agreement, that Backend implements RemoteCall, and    *)
(* that the loop of a single server misses no answer.                      *)
(*                                                                         *)
(* BackendInv is the inductive invariant.  One lemma per action shows that *)
(* it is preserved.  The loop adds ReaderInv, which rests on BackendInv.   *)
(***************************************************************************)
EXTENDS Backend, TLAPS

\* Where a handler stands, its promise, its request and its answer fit together:
\* before it turns to the engine there is no waiter and no request; a response in
\* hand, queued, read or taken is one the engine came to; a handler that returned
\* while its waiter was still there returned an error.
ControlOK ==
  /\ \A c \in Calls : stage[c] \in {"idle", "status"} =>
                        promise[c] = "none" /\ c \notin requests
  /\ \A c \in Calls : stage[c] = "returned" /\ promise[c] = "pending" =>
                        status[c] = 500
  /\ \A c \in Calls : verdict[c] # {} => c \in requests
  /\ \A r \in reply : r.error \in verdict[r.call]
  /\ \A e \in queue : e.id \in sent[e.call] /\ e.error \in verdict[e.call]
  /\ \A s \in Servers : \A e \in inbox[s] :
       e.id \in sent[e.call] /\ e.error \in verdict[e.call]
  /\ \A c \in Calls : sent[c] # {} => verdict[c] # {}
  /\ \A c \in Calls : promise[c] = "answered" => answer[c] \in verdict[c]

\* A sign-up in progress has its row; while nothing has failed it is rolled back
\* with its request in the stream only after a timeout, a stop or a refusal, and
\* only a request the engine applies again is refused.
SignupOK ==
  \A u \in Signups :
    /\ u \in requests \/ stage[u] \in {"status", "publishing", "waiting", "rollback"} =>
         kind[u] = "signup"
    /\ verdict[u] \subseteq {"NONE", "USER_EXISTS"}
    /\ stage[u] \in {"status", "publishing", "waiting", "rollback"} => u \in rows
    /\ (stage[u] = "rollback" /\ faults = 0 /\ u \in requests) =>
         \/ promise[u] \in {"timeout", "stopped"}
         \/ promise[u] = "answered" /\ answer[u] = "USER_EXISTS"

BackendInv ==
  BackendTypeOK /\ WaitersReleased /\ ControlOK /\ SignupOK /\ SignupConsistent

-----------------------------------------------------------------------------
\* What a handler makes of an answer

\* Every answer becomes one of four HTTP statuses.
LEMMA ResponseStatusType ==
  ASSUME NEW k, NEW error
  PROVE  ResponseStatus(k, error) \in {200, 400, 404, 503}
BY DEF ResponseStatus, OpenOrderStatus, CloseOrderStatus, GetOrderStatus,
       GetUserOrdersStatus, GetBalanceStatus

\* A caller is answered 200 exactly when the engine reports no error.
LEMMA ResponseStatusMeaning ==
  ASSUME NEW k, NEW error
  PROVE  ResponseStatus(k, error) = 200 <=> error = "NONE"
BY DEF ResponseStatus, OpenOrderStatus, CloseOrderStatus, GetOrderStatus,
       GetUserOrdersStatus, GetBalanceStatus

\* The engine's errors are codes the handlers know.
LEMMA ErrorsOfType ==
  ASSUME NEW k
  PROVE  ErrorsOf(k) \subseteq ErrorCodes
BY DEF ErrorsOf, ErrorCodes

-----------------------------------------------------------------------------
\* Every action preserves the invariant

\* The user's row is created before the sign-up turns to the engine.
LEMMA BeginSignupKeeps ==
  ASSUME BackendInv, NEW c \in Signups, NEW s \in Servers, BeginSignup(c, s)
  PROVE  BackendInv'
<1>0. BackendTypeOK /\ WaitersReleased /\ ControlOK /\ SignupOK /\ SignupConsistent
  BY DEF BackendInv
<1>1. BackendTypeOK'
  BY <1>0, BackendAssumption DEF BeginSignup, Return, Fault, Invalid, engine,
     subscriber, BackendTypeOK, Entries, Stages, Statuses, Calls
<1>2. WaitersReleased'
  BY <1>0 DEF BeginSignup, Return, Fault, Invalid, BackendTypeOK, WaitersReleased
<1>3. ControlOK'
  BY <1>0 DEF BeginSignup, Return, Invalid, engine, subscriber, BackendTypeOK,
     ControlOK
<1>4. SignupOK' /\ SignupConsistent'
  BY <1>0, BackendAssumption DEF subscriber, BeginSignup, Return, Fault, Invalid, engine,
     BackendTypeOK, Calls, SignupOK, SignupConsistent
<1>. QED
  BY <1>1, <1>2, <1>3, <1>4 DEF BackendInv

\* Signing in creates a session and touches no call.
LEMMA SignInKeeps ==
  ASSUME BackendInv, NEW u \in Signups, SignIn(u)
  PROVE  BackendInv'
<1>0. BackendTypeOK /\ WaitersReleased /\ ControlOK /\ SignupOK /\ SignupConsistent
  BY DEF BackendInv
<1>1. BackendTypeOK'
  BY <1>0, BackendAssumption DEF SignIn, engine, subscriber, handlers, counters,
     BackendTypeOK, Entries
<1>2. WaitersReleased'
  BY <1>0 DEF SignIn, handlers, counters, WaitersReleased
<1>3. ControlOK'
  BY <1>0 DEF SignIn, engine, subscriber, handlers, ControlOK
<1>4. SignupOK' /\ SignupConsistent'
  BY <1>0, BackendAssumption DEF subscriber, SignIn, engine, handlers, counters, SignupOK,
     SignupConsistent
<1>. QED
  BY <1>1, <1>2, <1>3, <1>4 DEF BackendInv

\* An order call has no waiter and no request until it turns to the engine.
LEMMA BeginOrderKeeps ==
  ASSUME BackendInv, NEW c \in Orders, NEW s \in Servers, NEW k \in Kinds, BeginOrder(c, s, k)
  PROVE  BackendInv'
<1>0. BackendTypeOK /\ WaitersReleased /\ ControlOK /\ SignupOK /\ SignupConsistent
  BY DEF BackendInv
<1>1. BackendTypeOK'
  BY <1>0, BackendAssumption DEF BeginOrder, Return, Fault, Invalid,
     GetClosedOrders, engine, subscriber, database, BackendTypeOK, Entries,
     Stages, Statuses, Calls
<1>2. WaitersReleased'
  BY <1>0 DEF BeginOrder, Return, Fault, Invalid, GetClosedOrders, BackendTypeOK,
     WaitersReleased
<1>3. ControlOK'
  BY <1>0 DEF BeginOrder, Return, Invalid, GetClosedOrders, engine, subscriber,
     BackendTypeOK, ControlOK
<1>4. SignupOK' /\ SignupConsistent'
  BY <1>0, BackendAssumption DEF subscriber, BeginOrder, Return, Fault, Invalid,
     GetClosedOrders, engine, database, BackendTypeOK, Calls, SignupOK,
     SignupConsistent
<1>. QED
  BY <1>1, <1>2, <1>3, <1>4 DEF BackendInv

\* The waiter is registered as the handler begins to publish.
LEMMA CheckEngineStatusKeeps ==
  ASSUME BackendInv, NEW c \in Calls, CheckEngineStatus(c)
  PROVE  BackendInv'
<1>0. BackendTypeOK /\ WaitersReleased /\ ControlOK /\ SignupOK /\ SignupConsistent
  BY DEF BackendInv
<1>1. BackendTypeOK'
  BY <1>0, BackendAssumption DEF CheckEngineStatus, Fail, Return, engine,
     subscriber, database, counters, BackendTypeOK, Entries, Stages, Promises,
     Statuses
<1>2. WaitersReleased'
  BY <1>0 DEF CheckEngineStatus, Fail, Return, counters, BackendTypeOK,
     WaitersReleased
<1>3. ControlOK'
  BY <1>0 DEF CheckEngineStatus, Fail, Return, engine, subscriber, BackendTypeOK,
     ControlOK
<1>4. SignupOK' /\ SignupConsistent'
  BY <1>0, BackendAssumption DEF subscriber, CheckEngineStatus, Fail, Return, engine,
     database, counters, BackendTypeOK, Calls, ControlOK, SignupOK,
     SignupConsistent
<1>. QED
  BY <1>1, <1>2, <1>3, <1>4 DEF BackendInv

\* The request reaches the stream while the handler still publishes.
LEMMA AppendRequestKeeps ==
  ASSUME BackendInv, NEW c \in Calls, AppendRequest(c)
  PROVE  BackendInv'
<1>0. BackendTypeOK /\ WaitersReleased /\ ControlOK /\ SignupOK /\ SignupConsistent
  BY DEF BackendInv
<1>1. BackendTypeOK'
  BY <1>0, BackendAssumption DEF AppendRequest, subscriber, handlers, database,
     counters, BackendTypeOK, Entries
<1>2. WaitersReleased'
  BY <1>0 DEF AppendRequest, handlers, counters, WaitersReleased
<1>3. ControlOK'
  BY <1>0 DEF AppendRequest, subscriber, handlers, ControlOK
<1>4. SignupOK' /\ SignupConsistent'
  BY <1>0, BackendAssumption DEF subscriber, AppendRequest, handlers, database, counters,
     SignupOK, SignupConsistent
<1>. QED
  BY <1>1, <1>2, <1>3, <1>4 DEF BackendInv

\* The handler begins to wait with its request in the stream.
LEMMA PublishRequestKeeps ==
  ASSUME BackendInv, NEW c \in Calls, PublishRequest(c)
  PROVE  BackendInv'
<1>0. BackendTypeOK /\ WaitersReleased /\ ControlOK /\ SignupOK /\ SignupConsistent
  BY DEF BackendInv
<1>1. BackendTypeOK'
  BY <1>0, BackendAssumption DEF PublishRequest, engine, subscriber, database,
     counters, BackendTypeOK, Entries, Stages
<1>2. WaitersReleased'
  BY <1>0 DEF PublishRequest, counters, WaitersReleased
<1>3. ControlOK'
  BY <1>0 DEF PublishRequest, engine, subscriber, ControlOK
<1>4. SignupOK' /\ SignupConsistent'
  BY <1>0, BackendAssumption DEF subscriber, PublishRequest, engine, database, counters,
     SignupOK, SignupConsistent
<1>. QED
  BY <1>1, <1>2, <1>3, <1>4 DEF BackendInv

\* A handler whose publication fails leaves its waiter behind.
LEMMA PublicationFailsKeeps ==
  ASSUME BackendInv, NEW c \in Calls, PublicationFails(c)
  PROVE  BackendInv'
<1>0. BackendTypeOK /\ WaitersReleased /\ ControlOK /\ SignupOK /\ SignupConsistent
  BY DEF BackendInv
<1>1. BackendTypeOK'
  BY <1>0, BackendAssumption DEF PublicationFails, Fail, Return, Fault, engine,
     subscriber, database, BackendTypeOK, Entries, Stages, Statuses
<1>2. WaitersReleased'
  BY <1>0 DEF PublicationFails, Fail, Return, Fault, BackendTypeOK, WaitersReleased
<1>3. ControlOK'
  BY <1>0 DEF PublicationFails, Fail, Return, engine, subscriber, BackendTypeOK,
     ControlOK
<1>4. SignupOK' /\ SignupConsistent'
  BY <1>0, BackendAssumption DEF PublicationFails, Fail, Return, Fault, engine,
     database, BackendTypeOK, Calls, SignupOK, SignupConsistent
<1>. QED
  BY <1>1, <1>2, <1>3, <1>4 DEF BackendInv

\* A handler returns what its settled promise says.
LEMMA TakeAnswerKeeps ==
  ASSUME BackendInv, NEW c \in Calls, TakeAnswer(c)
  PROVE  BackendInv'
<1>0. BackendTypeOK /\ WaitersReleased /\ ControlOK /\ SignupOK /\ SignupConsistent
  BY DEF BackendInv
<1>1. BackendTypeOK'
  BY <1>0, BackendAssumption, ResponseStatusType DEF TakeAnswer, Fail, Return,
     engine, subscriber, counters, BackendTypeOK, Entries, Stages, Statuses
<1>2. WaitersReleased'
  BY <1>0 DEF TakeAnswer, Fail, Return, counters, BackendTypeOK, WaitersReleased
<1>3. ControlOK'
  BY <1>0 DEF TakeAnswer, Fail, Return, engine, subscriber, BackendTypeOK, ControlOK
<1>4. SignupOK' /\ SignupConsistent'
  BY <1>0, BackendAssumption, ResponseStatusType DEF ControlOK, subscriber, TakeAnswer, Fail, Return,
     engine, counters, BackendTypeOK, Calls, SignupOK, SignupConsistent
<1>. QED
  BY <1>1, <1>2, <1>3, <1>4 DEF BackendInv

\* A sign-up that failed deletes its row, or the deletion fails.
LEMMA RollbackKeeps ==
  ASSUME BackendInv, NEW c \in Signups, Rollback(c)
  PROVE  BackendInv'
<1>0. BackendTypeOK /\ WaitersReleased /\ ControlOK /\ SignupOK /\ SignupConsistent
  BY DEF BackendInv
<1>1. BackendTypeOK'
  BY <1>0, BackendAssumption DEF Rollback, Return, Fault, engine, subscriber,
     BackendTypeOK, Entries, Stages, Statuses, Calls
<1>2. WaitersReleased'
  BY <1>0 DEF Rollback, Return, Fault, BackendTypeOK, WaitersReleased
<1>3. ControlOK'
  BY <1>0 DEF Rollback, Return, engine, subscriber, BackendTypeOK, ControlOK
<1>4. SignupOK' /\ SignupConsistent'
  BY <1>0, BackendAssumption DEF subscriber, Rollback, Return, Fault, engine, BackendTypeOK,
     Calls, SignupOK, SignupConsistent
<1>. QED
  BY <1>1, <1>2, <1>3, <1>4 DEF BackendInv

\* A waiter is released as its promise is rejected, or with all of its server.
LEMMA TimeoutKeeps ==
  ASSUME BackendInv, NEW c \in Calls, Timeout(c)
  PROVE  BackendInv'
<1>0. BackendTypeOK /\ WaitersReleased /\ ControlOK /\ SignupOK /\ SignupConsistent
  BY DEF BackendInv
<1>1. BackendTypeOK'
  BY <1>0, BackendAssumption DEF Timeout, UnhandledRejection, engine, subscriber,
     database, counters, BackendTypeOK, Entries, Promises
<1>2. WaitersReleased'
  BY <1>0 DEF Timeout, UnhandledRejection, counters, BackendTypeOK, WaitersReleased
<1>3. ControlOK'
  BY <1>0 DEF Timeout, UnhandledRejection, engine, subscriber, BackendTypeOK,
     WaitersReleased, ControlOK
<1>4. SignupOK' /\ SignupConsistent'
  BY <1>0, BackendAssumption DEF subscriber, Timeout, UnhandledRejection, engine, database,
     counters, BackendTypeOK, SignupOK, SignupConsistent
<1>. QED
  BY <1>1, <1>2, <1>3, <1>4 DEF BackendInv

\* What is read from the queue was sent.
LEMMA ReadQueueKeeps ==
  ASSUME BackendInv, NEW s \in Servers, ReadQueue(s)
  PROVE  BackendInv'
<1>0. BackendTypeOK /\ WaitersReleased /\ ControlOK /\ SignupOK /\ SignupConsistent
  BY DEF BackendInv
<1>1. BackendTypeOK'
  BY <1>0, BackendAssumption DEF ReadQueue, engine, handlers, database, counters,
     BackendTypeOK, Entries
<1>2. WaitersReleased'
  BY <1>0 DEF ReadQueue, handlers, counters, WaitersReleased
<1>3. ControlOK'
  BY <1>0 DEF ReadQueue, engine, handlers, ControlOK
<1>4. SignupOK' /\ SignupConsistent'
  BY <1>0, BackendAssumption DEF ReadQueue, engine, handlers, database, counters,
     SignupOK, SignupConsistent
<1>. QED
  BY <1>1, <1>2, <1>3, <1>4 DEF BackendInv

\* A failed read leaves everything but the loop as it was.
LEMMA ReadFailsKeeps ==
  ASSUME BackendInv, NEW s \in Servers, ReadFails(s)
  PROVE  BackendInv'
<1>0. BackendTypeOK /\ WaitersReleased /\ ControlOK /\ SignupOK /\ SignupConsistent
  BY DEF BackendInv
<1>1. BackendTypeOK'
  BY <1>0, BackendAssumption DEF ReadFails, Upset, engine, handlers, database,
     BackendTypeOK, Entries
<1>2. WaitersReleased'
  BY <1>0 DEF ReadFails, Upset, handlers, WaitersReleased
<1>3. ControlOK'
  BY <1>0 DEF ReadFails, Upset, engine, handlers, ControlOK
<1>4. SignupOK' /\ SignupConsistent'
  BY <1>0, BackendAssumption DEF ReadFails, Upset, engine, handlers, database, SignupOK,
     SignupConsistent
<1>. QED
  BY <1>1, <1>2, <1>3, <1>4 DEF BackendInv

\* The waiter is released as its promise is resolved by an answer that was sent.
LEMMA DispatchAnswerKeeps ==
  ASSUME BackendInv, NEW s \in Servers, NEW e \in inbox[s], DispatchAnswer(s, e)
  PROVE  BackendInv'
<1>0. BackendTypeOK /\ WaitersReleased /\ ControlOK /\ SignupOK /\ SignupConsistent
  BY DEF BackendInv
<1>1. BackendTypeOK'
  BY <1>0, BackendAssumption DEF DispatchAnswer, Resolve, engine, database, counters,
     BackendTypeOK, Entries, Promises
<1>2. WaitersReleased'
  BY <1>0 DEF DispatchAnswer, Resolve, counters, BackendTypeOK, WaitersReleased
<1>3. \A c \in Calls :
        \/ promise'[c] = promise[c] /\ answer'[c] = answer[c]
        \/ /\ c \in callbacks /\ promise[c] = "pending"
           /\ promise'[c] = "answered" /\ answer'[c] \in verdict[c]
  <2>1. /\ promise \in [Calls -> Promises]
        /\ answer \in [Calls -> ErrorCodes \cup {"none"}]
        /\ e.error \in verdict[e.call] /\ e.call \in Calls
        /\ \A c \in callbacks : promise[c] = "pending"
    BY <1>0 DEF BackendTypeOK, WaitersReleased, ControlOK, Entries
  <2>2. CASE e.call \in callbacks \cap CallsOf(s)
    BY <2>1, <2>2 DEF DispatchAnswer, Resolve
  <2>3. CASE e.call \notin callbacks \cap CallsOf(s)
    BY <2>3 DEF DispatchAnswer, Resolve
  <2> QED
    BY <2>2, <2>3
<1>4. UNCHANGED <<engine, queue, inbox, stage, kind, status, database, faults>>
  BY DEF DispatchAnswer, counters
<1>5. ControlOK'
  BY <1>0, <1>3, <1>4 DEF WaitersReleased, ControlOK, engine
<1>6. SignupOK' /\ SignupConsistent'
  BY <1>0, <1>3, <1>4, BackendAssumption DEF WaitersReleased, SignupOK,
     SignupConsistent, Calls, engine, database
<1>. QED
  BY <1>1, <1>2, <1>5, <1>6 DEF BackendInv

\* Deleting an entry leaves the calls as they are.
LEMMA DeleteAnswerKeeps ==
  ASSUME BackendInv, NEW s \in Servers, NEW e \in inbox[s], DeleteAnswer(s, e)
  PROVE  BackendInv'
<1>0. BackendTypeOK /\ WaitersReleased /\ ControlOK /\ SignupOK /\ SignupConsistent
  BY DEF BackendInv
<1>1. BackendTypeOK'
  BY <1>0, BackendAssumption DEF DeleteAnswer, Fault, engine, handlers, database,
     BackendTypeOK, Entries
<1>2. WaitersReleased'
  BY <1>0 DEF DeleteAnswer, Fault, handlers, BackendTypeOK, WaitersReleased
<1>3. ControlOK'
  BY <1>0 DEF DeleteAnswer, engine, handlers, ControlOK
<1>4. SignupOK' /\ SignupConsistent'
  BY <1>0, BackendAssumption DEF DeleteAnswer, Fault, engine, handlers, database,
     BackendTypeOK, SignupOK, SignupConsistent
<1>. QED
  BY <1>1, <1>2, <1>3, <1>4 DEF BackendInv

\* stop() releases the waiters of its server.
LEMMA SignalKeeps ==
  ASSUME BackendInv, NEW s \in Servers, Signal(s)
  PROVE  BackendInv'
<1>0. BackendTypeOK /\ WaitersReleased /\ ControlOK /\ SignupOK /\ SignupConsistent
  BY DEF BackendInv
<1>1. BackendTypeOK'
  BY <1>0, BackendAssumption DEF Signal, Upset, Stop, engine, subscriber, database,
     BackendTypeOK, Entries, Promises
<1>2. WaitersReleased'
  BY <1>0 DEF Signal, Upset, Stop, WaitersReleased
<1>3. ControlOK'
  BY <1>0 DEF Signal, Upset, Stop, engine, subscriber, WaitersReleased, ControlOK
<1>4. SignupOK' /\ SignupConsistent'
  BY <1>0, BackendAssumption DEF subscriber, Signal, Upset, Stop, engine, database, BackendTypeOK,
     SignupOK, SignupConsistent
<1>. QED
  BY <1>1, <1>2, <1>3, <1>4 DEF BackendInv

\* The end of a process takes its waiters with it.
LEMMA ExitKeeps ==
  ASSUME BackendInv, NEW s \in Servers, Exit(s)
  PROVE  BackendInv'
<1>0. BackendTypeOK /\ WaitersReleased /\ ControlOK /\ SignupOK /\ SignupConsistent
  BY DEF BackendInv
<1>1. BackendTypeOK'
  BY <1>0, BackendAssumption DEF Exit, Terminate, engine, database, BackendTypeOK,
     Entries, Stages, Promises
<1>2. WaitersReleased'
  BY <1>0 DEF Exit, Terminate, CallsOf, BackendTypeOK, WaitersReleased
<1>3. ControlOK'
  BY <1>0 DEF Exit, Terminate, CallsOf, engine, ControlOK
<1>4. SignupOK' /\ SignupConsistent'
  BY <1>0, BackendAssumption DEF Exit, Terminate, engine, database, Calls,
     WaitersReleased, SignupOK, SignupConsistent
<1>. QED
  BY <1>1, <1>2, <1>3, <1>4 DEF BackendInv

\* The end of a process takes its waiters with it.
LEMMA CrashKeeps ==
  ASSUME BackendInv, NEW s \in Servers, Crash(s)
  PROVE  BackendInv'
<1>0. BackendTypeOK /\ WaitersReleased /\ ControlOK /\ SignupOK /\ SignupConsistent
  BY DEF BackendInv
<1>1. BackendTypeOK'
  BY <1>0, BackendAssumption DEF Crash, Upset, Terminate, engine, database,
     BackendTypeOK, Entries, Stages, Promises
<1>2. WaitersReleased'
  BY <1>0 DEF Crash, Upset, Terminate, CallsOf, BackendTypeOK, WaitersReleased
<1>3. ControlOK'
  BY <1>0 DEF Crash, Upset, Terminate, CallsOf, engine, ControlOK
<1>4. SignupOK' /\ SignupConsistent'
  BY <1>0, BackendAssumption DEF Crash, Upset, Terminate, engine, database, Calls,
     WaitersReleased, SignupOK, SignupConsistent
<1>. QED
  BY <1>1, <1>2, <1>3, <1>4 DEF BackendInv

\* A new process has no calls.
LEMMA RestartKeeps ==
  ASSUME BackendInv, NEW s \in Servers, Restart(s)
  PROVE  BackendInv'
<1>0. BackendTypeOK /\ WaitersReleased /\ ControlOK /\ SignupOK /\ SignupConsistent
  BY DEF BackendInv
<1>1. BackendTypeOK'
  BY <1>0, BackendAssumption DEF Restart, engine, handlers, database, counters,
     BackendTypeOK, Entries
<1>2. WaitersReleased'
  BY <1>0 DEF Restart, handlers, counters, WaitersReleased
<1>3. ControlOK'
  BY <1>0 DEF Restart, engine, handlers, ControlOK
<1>4. SignupOK' /\ SignupConsistent'
  BY <1>0, BackendAssumption DEF Restart, engine, handlers, database, counters,
     SignupOK, SignupConsistent
<1>. QED
  BY <1>1, <1>2, <1>3, <1>4 DEF BackendInv

\* What the engine comes to is recorded, over all the times it comes to it.
LEMMA EngineDecidesKeeps ==
  ASSUME BackendInv, NEW c \in Calls, EngineDecides(c)
  PROVE  BackendInv'
<1>0. BackendTypeOK /\ WaitersReleased /\ ControlOK /\ SignupOK /\ SignupConsistent
  BY DEF BackendInv
<1>1. PICK error \in ErrorCodes :
        /\ Possible(c, error)
        /\ verdict' = [verdict EXCEPT ![c] = @ \cup {error}]
        /\ reply' = {[call |-> c, error |-> error]}
  BY DEF EngineDecides
<1>2. /\ c \in requests
      /\ UNCHANGED <<requests, sent, subscriber, handlers, phase, database, faults>>
      /\ upsets' = upsets \/ Upset
  BY DEF EngineDecides
<1>3. /\ verdict \in [Calls -> SUBSET ErrorCodes]
      /\ \A d \in Calls : verdict[d] \subseteq verdict'[d]
      /\ error \in verdict'[c]
      /\ \A d \in Calls : d # c => verdict'[d] = verdict[d]
      /\ verdict'[c] = verdict[c] \cup {error}
  BY <1>0, <1>1 DEF BackendTypeOK
<1>4. BackendTypeOK'
  BY <1>0, <1>1, <1>2, BackendAssumption DEF Upset, subscriber, handlers, database,
     BackendTypeOK, Entries
<1>5. WaitersReleased'
  BY <1>0, <1>2 DEF handlers, WaitersReleased
<1>6. ControlOK'
  <2>1. \A r \in reply' : r.error \in verdict'[r.call]
    BY <1>1, <1>3
  <2>2. \A d \in Calls : verdict'[d] # {} => d \in requests
    BY <1>0, <1>2, <1>3 DEF ControlOK
  <2>3. \A e \in queue : e.id \in sent[e.call] /\ e.error \in verdict'[e.call]
    BY <1>0, <1>3 DEF ControlOK, BackendTypeOK, Entries
  <2>4. \A s \in Servers : \A e \in inbox[s] :
          e.id \in sent[e.call] /\ e.error \in verdict'[e.call]
    BY <1>0, <1>3 DEF ControlOK, BackendTypeOK, Entries
  <2> QED
    BY <1>0, <1>2, <1>3, <2>1, <2>2, <2>3, <2>4 DEF subscriber, handlers, ControlOK
<1>7. SignupOK' /\ SignupConsistent'
  <2>1. c \in Signups => error \in {"NONE", "USER_EXISTS"}
    BY <1>0, <1>1, <1>2 DEF SignupOK, ControlOK, Possible, ErrorsOf, Calls
  <2> QED
    BY <1>0, <1>2, <1>3, <2>1, BackendAssumption DEF subscriber, handlers, database,
       Calls, SignupOK, SignupConsistent
<1>. QED
  BY <1>4, <1>5, <1>6, <1>7 DEF BackendInv

\* The response in hand becomes the last entry of the queue.
LEMMA Published ==
  ASSUME BackendInv, EngineAnswers
  PROVE  \E entry \in [id : {lastEntry + 1}, call : Calls, error : ErrorCodes] :
           PublishResponse(entry) /\ entry.error \in verdict[entry.call]
<1>1. PICK r \in reply :
        PublishResponse([id |-> lastEntry + 1, call |-> r.call, error |-> r.error])
  BY DEF EngineAnswers
<1>2. r.call \in Calls /\ r.error \in ErrorCodes /\ r.error \in verdict[r.call]
  BY DEF BackendInv, BackendTypeOK, ControlOK
<1> QED
  BY <1>1, <1>2

\* What is answered is what the engine came to.
LEMMA EngineAnswersKeeps ==
  ASSUME BackendInv, EngineAnswers
  PROVE  BackendInv'
<1>0. BackendTypeOK /\ WaitersReleased /\ ControlOK /\ SignupOK /\ SignupConsistent
  BY DEF BackendInv
<1>1. PICK entry \in [id : {lastEntry + 1}, call : Calls, error : ErrorCodes] :
        PublishResponse(entry) /\ entry.error \in verdict[entry.call]
  BY Published
<1>2. /\ lastEntry \in Nat /\ lastEntry' = lastEntry + 1 /\ entry \in Entries'
      /\ sent \in [Calls -> SUBSET (1..lastEntry)]
      /\ Entries \subseteq Entries'
      /\ \A c \in Calls : sent[c] \subseteq sent'[c]
      /\ entry.id \in sent'[entry.call]
      /\ \A c \in Calls : c # entry.call => sent'[c] = sent[c]
  BY <1>0, <1>1 DEF PublishResponse, BackendTypeOK, Entries
<1>3. BackendTypeOK'
  <2>1. sent' \in [Calls -> SUBSET (1..lastEntry')]
    BY <1>0, <1>1, <1>2 DEF PublishResponse
  <2>2. queue' \subseteq Entries' /\ inbox' \in [Servers -> SUBSET Entries']
    BY <1>0, <1>1, <1>2 DEF PublishResponse, BackendTypeOK
  <2>3. /\ lastId' \in [Servers -> {Latest} \cup 1..lastEntry']
        /\ since' \in [Servers -> {Latest} \cup 0..lastEntry']
    BY <1>0, <1>1, <1>2 DEF PublishResponse, BackendTypeOK
  <2> QED
    BY <1>0, <1>1, <1>2, <2>1, <2>2, <2>3, BackendAssumption DEF PublishResponse,
       handlers, database, counters, BackendTypeOK
<1>4. WaitersReleased'
  BY <1>0, <1>1 DEF PublishResponse, handlers, counters, WaitersReleased
<1>5. ControlOK'
  <2>1. \A e \in queue \cup {entry} : e.id \in sent'[e.call] /\ e.error \in verdict[e.call]
    BY <1>0, <1>1, <1>2 DEF ControlOK, BackendTypeOK, Entries
  <2>2. \A s \in Servers : \A e \in inbox'[s] :
          e.id \in sent'[e.call] /\ e.error \in verdict[e.call]
    BY <1>0, <1>1, <1>2 DEF PublishResponse, ControlOK, BackendTypeOK, Entries
  <2>3. \A c \in Calls : sent'[c] # {} => verdict[c] # {}
    BY <1>0, <1>1, <1>2 DEF ControlOK
  <2> QED
    BY <1>0, <1>1, <2>1, <2>2, <2>3 DEF PublishResponse, handlers, ControlOK
<1>6. SignupOK' /\ SignupConsistent'
  BY <1>0, <1>1, BackendAssumption DEF PublishResponse, handlers, database, counters,
     SignupOK, SignupConsistent
<1>. QED
  BY <1>3, <1>4, <1>5, <1>6 DEF BackendInv

-----------------------------------------------------------------------------
\* The invariant

\* Nothing has been called, sent or stored initially.
LEMMA InitEstablishes == Init => BackendInv
<1> SUFFICES ASSUME Init PROVE BackendInv
  OBVIOUS
<1>1. BackendTypeOK
  <2>1. 0 \in 0..MaxFaults /\ 0 \in 0..MaxUpsets
    BY BackendAssumption
  <2> QED
    BY <2>1 DEF Init, BackendTypeOK, Stages, Promises, Statuses
<1>2. WaitersReleased /\ ControlOK /\ SignupOK /\ SignupConsistent
  BY DEF Init, WaitersReleased, ControlOK, SignupOK, SignupConsistent, Calls
<1> QED
  BY <1>1, <1>2 DEF BackendInv

\* The invariant speaks of the variables alone.
LEMMA StutterKeeps ==
  ASSUME BackendInv, UNCHANGED vars
  PROVE  BackendInv'
<1>1. BackendTypeOK' /\ WaitersReleased'
  BY DEF BackendInv, vars, BackendTypeOK, Entries, WaitersReleased
<1>2. ControlOK' /\ SignupOK' /\ SignupConsistent'
  BY DEF BackendInv, vars, ControlOK, SignupOK, SignupConsistent
<1> QED
  BY <1>1, <1>2 DEF BackendInv

\* BackendInv holds in every state.
THEOREM BackendInvariant == Spec => []BackendInv
<1>1. BackendInv /\ [Next]_vars => BackendInv'
  <2> SUFFICES ASSUME BackendInv, [Next]_vars PROVE BackendInv'
    OBVIOUS
  <2>1. CASE Users
    BY <2>1, BeginSignupKeeps, SignInKeeps, BeginOrderKeeps DEF Users
  <2>2. CASE Engine
    BY <2>2, EngineDecidesKeeps, EngineAnswersKeeps DEF Engine
  <2>3. ASSUME NEW c \in Calls, SendRequest(c) PROVE BackendInv'
    BY <2>3, CheckEngineStatusKeeps, AppendRequestKeeps, PublishRequestKeeps,
       PublicationFailsKeeps, TakeAnswerKeeps DEF SendRequest
  <2>4. ASSUME NEW s \in Servers, RunLoop(s) PROVE BackendInv'
    BY <2>4, ReadQueueKeeps, ReadFailsKeeps, DispatchAnswerKeeps, DeleteAnswerKeeps
       DEF RunLoop
  <2>5. ASSUME NEW s \in Servers, Process(s) PROVE BackendInv'
    BY <2>5, SignalKeeps, ExitKeeps, CrashKeeps, RestartKeeps DEF Process
  <2> QED
    BY <2>1, <2>2, <2>3, <2>4, <2>5, TimeoutKeeps, RollbackKeeps, StutterKeeps DEF Next
<1> QED
  BY <1>1, InitEstablishes, PTL DEF Spec

\* Every variable keeps its type; in particular an answer that is queued or read
\* has an identifier that was handed out.
THEOREM BackendTypeCorrect == Spec => []BackendTypeOK
<1>1. BackendInv => BackendTypeOK
  BY DEF BackendInv
<1> QED
  BY <1>1, BackendInvariant, PTL

\* The map of callbacks of engineClient and subscriber holds exactly the waiters
\* whose promise is pending, whatever times out, stops, crashes or fails.
THEOREM WaitersAlwaysReleased == Spec => []WaitersReleased
<1>1. BackendInv => WaitersReleased
  BY DEF BackendInv
<1> QED
  BY <1>1, BackendInvariant, PTL

\* signup's compensation leaves the database and the engine in agreement, with
\* the exceptions SignupConsistent names.
THEOREM SignupAlwaysConsistent == Spec => []SignupConsistent
<1>1. BackendInv => SignupConsistent
  BY DEF BackendInv
<1> QED
  BY <1>1, BackendInvariant, PTL

-----------------------------------------------------------------------------
\* Refinement: Backend implements RemoteCall under the mapping Effect, Outcome

\* A step is invisible when the engine decides nothing, no handler returns and a
\* promise changes only where it was pending.
LEMMA SilentStep ==
  ASSUME BackendInv, UNCHANGED <<verdict, status>>,
         \A c \in Calls : stage'[c] = "returned" <=> stage[c] = "returned",
         \A c \in Calls : \/ promise'[c] = promise[c]
                          \/ promise[c] = "pending"
                          \/ stage[c] # "returned"
  PROVE  UNCHANGED <<Effect, Outcome>>
<1>1. Effect' = Effect
  BY DEF Effect
<1>2. \A c \in Calls : stage[c] = "returned" /\ promise[c] = "pending" =>
                        status[c] = 500
  BY DEF BackendInv, ControlOK
<1>3. Outcome' = Outcome
  BY <1>2 DEF Outcome
<1> QED
  BY <1>1, <1>3

\* A handler that returns reports the outcome, and an outcome other than
\* "unknown" is one the engine came to.
LEMMA ReturnStep ==
  ASSUME BackendInv, NEW c \in Calls, NEW code, Return(c, code),
         stage[c] # "returned", UNCHANGED <<verdict, promise>>,
         promise[c] = "answered" =>
           \/ code = 200 /\ "NONE" \in verdict[c]
           \/ code \in {400, 404, 503} /\ \E error \in verdict[c] : error # "NONE"
           \/ code = 500
  PROVE  Remote!Report(c)
<1>1. stage \in [Calls -> Stages] /\ status \in [Calls -> Statuses]
  BY DEF BackendInv, BackendTypeOK
<1>2. Effect' = Effect
  BY DEF Effect
<1>3. Outcome[c] = "none"
  BY DEF Outcome
<1>4. \A d \in Calls \ {c} : Outcome'[d] = Outcome[d]
  BY <1>1 DEF Return, Outcome
<1>5. Outcome'[c] \in Effect[c] \cup {"unknown"}
  BY <1>1 DEF Return, Outcome, Effect
<1>6. Outcome = [d \in Calls |-> Outcome[d]] /\ Outcome' = [d \in Calls |-> Outcome'[d]]
  BY DEF Outcome
<1>7. Outcome' = [Outcome EXCEPT ![c] = Outcome'[c]]
  BY <1>4, <1>6
<1> QED
  BY <1>2, <1>3, <1>5, <1>7 DEF Remote!Report

\* What one step of a handler shows of it.
LEMMA HandlerStep ==
  ASSUME BackendInv, NEW c \in Calls, SendRequest(c)
  PROVE  Remote!Report(c) \/ UNCHANGED <<Effect, Outcome>>
<1>0. /\ stage \in [Calls -> Stages] /\ promise \in [Calls -> Promises]
      /\ promise[c] = "answered" => answer[c] \in verdict[c]
  BY DEF BackendInv, BackendTypeOK, ControlOK
<1>1. ASSUME Fail(c), stage[c] # "returned", UNCHANGED <<verdict, promise>>
      PROVE  Remote!Report(c) \/ UNCHANGED <<Effect, Outcome>>
  <2>1. CASE Return(c, 500)
    BY <1>1, <2>1, ReturnStep
  <2>2. CASE stage' = [stage EXCEPT ![c] = "rollback"] /\ UNCHANGED status
    BY <1>0, <1>1, <2>2, SilentStep
  <2> QED
    BY <1>1, <2>1, <2>2 DEF Fail
<1>2. CASE CheckEngineStatus(c)
  <2>1. CASE Fail(c) /\ UNCHANGED promise
    BY <1>1, <1>2, <2>1 DEF CheckEngineStatus, engine
  <2>2. CASE /\ stage' = [stage EXCEPT ![c] = "publishing"]
             /\ promise' = [promise EXCEPT ![c] = "pending"]
             /\ UNCHANGED status
    BY <1>0, <1>2, <2>2, SilentStep DEF CheckEngineStatus, engine
  <2> QED
    BY <1>2, <2>1, <2>2 DEF CheckEngineStatus
<1>3. CASE AppendRequest(c)
  BY <1>0, <1>3, SilentStep DEF AppendRequest, handlers
<1>4. CASE PublishRequest(c)
  BY <1>0, <1>4, SilentStep DEF PublishRequest, engine
<1>5. CASE PublicationFails(c)
  BY <1>1, <1>5 DEF PublicationFails, engine
<1>6. CASE TakeAnswer(c)
  <2>0. stage[c] = "waiting" /\ UNCHANGED <<verdict, promise>>
    BY <1>6 DEF TakeAnswer, engine
  <2>1. CASE Fail(c)
    BY <1>1, <2>0, <2>1
  <2>2. CASE promise[c] = "answered" /\ Return(c, 200) /\ answer[c] = "NONE"
    BY <1>0, <2>0, <2>2, ReturnStep
  <2>3. CASE promise[c] = "answered" /\ Return(c, ResponseStatus(kind[c], answer[c]))
    BY <1>0, <2>0, <2>3, ReturnStep, ResponseStatusType, ResponseStatusMeaning
  <2>4. CASE promise[c] = "stopped" /\ Return(c, ResponseStatus(kind[c], "STOPPED"))
    BY <2>0, <2>4, ReturnStep
  <2> QED
    BY <1>6, <2>1, <2>2, <2>3, <2>4 DEF TakeAnswer
<1> QED
  BY <1>2, <1>3, <1>4, <1>5, <1>6 DEF SendRequest

\* A call that begins returns an error of its own, its rows from the database, or
\* goes on: it has no promise yet.
LEMMA BeginStep ==
  ASSUME BackendInv, NEW c \in Calls, stage[c] = "idle",
         UNCHANGED <<verdict, promise>>,
         \/ stage' = [stage EXCEPT ![c] = "status"] /\ UNCHANGED status
         \/ \E code \in Statuses : Return(c, code)
  PROVE  Remote!Report(c) \/ UNCHANGED <<Effect, Outcome>>
<1>1. stage \in [Calls -> Stages] /\ promise[c] = "none"
  BY DEF BackendInv, BackendTypeOK, ControlOK
<1> QED
  BY <1>1, ReturnStep, SilentStep

\* The steps of the subscriber, of the processes and of the timers show nothing:
\* a promise they settle is one whose handler has not returned, or has returned
\* an error because its publication failed.
LEMMA BackgroundStep ==
  ASSUME BackendInv,
         \/ \E s \in Servers : RunLoop(s) \/ Process(s)
         \/ \E c \in Calls : Timeout(c)
  PROVE  UNCHANGED <<Effect, Outcome>>
<1>0. /\ stage \in [Calls -> Stages] /\ promise \in [Calls -> Promises]
      /\ callbacks \subseteq Calls
      /\ \A c \in callbacks : promise[c] = "pending"
  BY DEF BackendInv, BackendTypeOK, WaitersReleased
<1>1. ASSUME NEW s \in Servers, RunLoop(s) PROVE UNCHANGED <<Effect, Outcome>>
  <2>1. CASE ReadQueue(s) \/ ReadFails(s)
    BY <2>1, SilentStep DEF ReadQueue, ReadFails, engine, handlers
  <2>2. ASSUME NEW e \in inbox[s], DispatchAnswer(s, e) \/ DeleteAnswer(s, e)
        PROVE  UNCHANGED <<Effect, Outcome>>
    BY <1>0, <2>2, SilentStep DEF DispatchAnswer, Resolve, DeleteAnswer, engine, handlers
  <2> QED
    BY <1>1, <2>1, <2>2 DEF RunLoop
<1>2. ASSUME NEW s \in Servers, Process(s) PROVE UNCHANGED <<Effect, Outcome>>
  <2>1. CASE Signal(s)
    BY <1>0, <2>1, SilentStep DEF Signal, Stop, engine
  <2>2. CASE Terminate(s)
    BY <1>0, <2>2, SilentStep DEF Terminate, engine
  <2>3. CASE Restart(s)
    BY <2>3, SilentStep DEF Restart, engine, handlers
  <2> QED
    BY <1>2, <2>1, <2>2, <2>3 DEF Process, Exit, Crash
<1>3. ASSUME NEW c \in Calls, Timeout(c) PROVE UNCHANGED <<Effect, Outcome>>
  BY <1>0, <1>3, SilentStep DEF Timeout, UnhandledRejection, engine
<1> QED
  BY <1>1, <1>2, <1>3

\* When the engine applies a request it acts on the call; its answers are not seen.
LEMMA EngineStep ==
  ASSUME BackendInv, Engine
  PROVE  (\E c \in Calls : Remote!Act(c)) \/ UNCHANGED <<Effect, Outcome>>
<1>0. verdict \in [Calls -> SUBSET ErrorCodes]
  BY DEF BackendInv, BackendTypeOK
<1>1. ASSUME NEW c \in Calls, EngineDecides(c) PROVE Remote!Act(c)
  <2>1. PICK error \in ErrorCodes : verdict' = [verdict EXCEPT ![c] = @ \cup {error}]
    BY <1>1 DEF EngineDecides
  <2> DEFINE decision == IF error = "NONE" THEN "done" ELSE "refused"
  <2>2. Effect'[c] = Effect[c] \cup {decision}
    BY <1>0, <2>1 DEF Effect
  <2>3. \A d \in Calls \ {c} : Effect'[d] = Effect[d]
    BY <1>0, <2>1 DEF Effect
  <2>4. Effect' = [Effect EXCEPT ![c] = @ \cup {decision}]
    BY <2>2, <2>3 DEF Effect
  <2>5. Outcome' = Outcome
    BY <1>1 DEF EngineDecides, handlers, Outcome
  <2> QED
    BY <2>4, <2>5 DEF Remote!Act, Remote!Decisions
<1>2. CASE EngineAnswers
  <2>1. UNCHANGED <<verdict, handlers>>
    BY <1>2, Published DEF PublishResponse
  <2> QED
    BY <2>1, SilentStep DEF handlers
<1> QED
  BY <1>1, <1>2 DEF Engine

\* Sign-ups and order calls begin, users sign in.
LEMMA UsersStep ==
  ASSUME BackendInv, Users
  PROVE  (\E c \in Calls : Remote!Report(c)) \/ UNCHANGED <<Effect, Outcome>>
<1>1. ASSUME NEW c \in Signups, NEW s \in Servers, BeginSignup(c, s)
      PROVE  Remote!Report(c) \/ UNCHANGED <<Effect, Outcome>>
  BY <1>1, BeginStep DEF BeginSignup, Invalid, engine, Statuses, Calls
<1>2. ASSUME NEW u \in Signups, SignIn(u) PROVE UNCHANGED <<Effect, Outcome>>
  BY <1>2, SilentStep DEF SignIn, engine, handlers
<1>3. ASSUME NEW c \in Orders, NEW s \in Servers, NEW k \in Kinds, BeginOrder(c, s, k)
      PROVE  Remote!Report(c) \/ UNCHANGED <<Effect, Outcome>>
  BY <1>3, BeginStep DEF BeginOrder, Invalid, GetClosedOrders, engine, Statuses, Calls
<1> QED
  BY <1>1, <1>2, <1>3 DEF Users, Calls

\* The backend implements RemoteCall: over any number of servers, crashes, late
\* or lost answers, failed publications and requests the engine applies again, a
\* caller hears at most one outcome, and "done" or "refused" is what the engine did
\* with his request one of the times it applied it, before he hears it.  That it is
\* what the engine did the first time is not promised, and not so.
THEOREM BackendImplementsRemoteCall == Spec => ImplementsRemoteCall
<1>1. Init => Remote!CallInit
  BY DEF Init, Remote!CallInit, Effect, Outcome
<1>2. BackendInv /\ [Next]_vars => [Remote!CallNext]_<<Effect, Outcome>>
  <2> SUFFICES ASSUME BackendInv, [Next]_vars
               PROVE  Remote!CallNext \/ UNCHANGED <<Effect, Outcome>>
    OBVIOUS
  <2>1. CASE Users
    BY <2>1, UsersStep DEF Remote!CallNext
  <2>2. CASE Engine
    BY <2>2, EngineStep DEF Remote!CallNext
  <2>3. ASSUME NEW c \in Calls, SendRequest(c)
        PROVE  Remote!CallNext \/ UNCHANGED <<Effect, Outcome>>
    BY <2>3, HandlerStep DEF Remote!CallNext
  <2>4. ASSUME NEW c \in Signups, Rollback(c)
        PROVE  Remote!CallNext
    <3>1. Remote!Report(c)
      BY <2>4, ReturnStep DEF Rollback, engine, Calls
    <3> QED
      BY <3>1 DEF Remote!CallNext, Calls
  <2>5. CASE UNCHANGED vars
    BY <2>5 DEF vars, Effect, Outcome
  <2> QED
    BY <2>1, <2>2, <2>3, <2>4, <2>5, BackgroundStep DEF Next
<1> QED
  BY <1>1, <1>2, BackendInvariant, PTL DEF Spec, ImplementsRemoteCall, Remote!CallSpec

-----------------------------------------------------------------------------
\* The subscriber's loop

\* What is on the queue or with a server.
EntriesAt(s) == queue \cup inbox[s]

\* The answers a reader has in hand or has yet to come to.
InReach(s, e) ==
  \/ e \in inbox[s]
  \/ /\ reader[s] # "blocked" /\ e \in queue /\ e.id > lastId[s]
     /\ \A i \in inbox[s] : i.id < e.id

\* What the loop rests on: a call in progress has a server that is not down;
\* identifiers are unique; a batch is in hand while it is dispatched, and no waiter
\* of the server is left for an entry that is being deleted.
LoopOK ==
  /\ \A c \in Calls : stage[c] \notin {"idle", "lost"} => server[c] \in Servers
  /\ \A s \in Servers : \A e, f \in EntriesAt(s) : e.id = f.id => e = f
  /\ \A s \in Servers : reader[s] \in {"idle", "blocked"} <=> inbox[s] = {}
  /\ \A s \in Servers : reader[s] = "deleting" =>
       \A e \in inbox[s] : IsNext(s, e) => e.call \notin callbacks \cap CallsOf(s)
  /\ \A s \in Servers : phase[s] = "down" =>
       /\ reader[s] = "idle"
       /\ \A c \in CallsOf(s) :
            stage[c] \in {"idle", "returned", "lost"} /\ c \notin callbacks

\* A single server whose "$" is resolved either waits under that read, has just
\* taken what it returned, or reads from a position; an answer somebody waits for,
\* if it was added after "$" was resolved, is in its batch or after it.
ReachOK ==
  OneServer =>
    /\ \A s \in Servers : lastId[s] = Latest /\ since[s] # Latest =>
         reader[s] \in {"blocked", "dispatching"} \/ phase[s] = "down"
    /\ \A c \in callbacks : \A id \in sent[c] :
         since[server[c]] # Latest /\ id > since[server[c]] =>
           \E e \in EntriesAt(server[c]) : e.call = c /\ InReach(server[c], e)

ReaderInv == LoopOK /\ ReachOK

\* A step that leaves the queue and the loops alone, gives no waiter to a call that
\* is answered, and brings no process or handler back.
Quiet ==
  /\ UNCHANGED <<queue, lastEntry, lastId, since, reader, inbox, sent>>
  /\ \A c \in Calls : stage'[c] \notin {"idle", "lost"} => server'[c] \in Servers
  /\ \A c \in callbacks' : sent[c] # {} => c \in callbacks /\ server'[c] = server[c]
  /\ \A s \in Servers : phase[s] = "down" <=> phase'[s] = "down"
  /\ \A s \in Servers : phase[s] = "down" =>
       \A c \in Calls : server'[c] = s =>
         stage'[c] \in {"idle", "returned", "lost"} /\ c \notin callbacks'

LEMMA QuietKeepsLoop ==
  ASSUME BackendInv, ReaderInv, Quiet
  PROVE  ReaderInv'
<1>0. /\ callbacks \subseteq Calls
      /\ \A s \in Servers : \A e \in inbox[s] : e.call \in Calls /\ sent[e.call] # {}
  BY DEF BackendInv, BackendTypeOK, ControlOK, Entries
<1>1. LoopOK'
  <2>1. \A s \in Servers : reader[s] = "deleting" =>
          \A e \in inbox[s] : IsNext(s, e) => e.call \notin callbacks' \cap CallsOf(s)'
    BY <1>0 DEF Quiet, ReaderInv, LoopOK, CallsOf
  <2>2. \A s \in Servers : phase'[s] = "down" =>
          /\ reader'[s] = "idle"
          /\ \A c \in CallsOf(s)' :
               stage'[c] \in {"idle", "returned", "lost"} /\ c \notin callbacks'
    BY DEF Quiet, ReaderInv, LoopOK, CallsOf
  <2> QED
    BY <2>1, <2>2 DEF Quiet, ReaderInv, LoopOK, EntriesAt, IsNext
<1>2. ReachOK'
  BY DEF Quiet, ReaderInv, ReachOK, EntriesAt, InReach
<1> QED
  BY <1>1, <1>2 DEF ReaderInv

\* A call that is under way has its server up or stopping.
LEMMA ServerAlive ==
  ASSUME BackendInv, LoopOK, NEW c \in Calls,
         stage[c] \notin {"idle", "returned", "lost"} \/ c \in callbacks
  PROVE  server[c] \in Servers /\ phase[server[c]] # "down"
BY DEF BackendInv, WaitersReleased, LoopOK, CallsOf

\* A call that has not turned to the engine has no waiter and no answer.
LEMMA NotAskedYet ==
  ASSUME BackendInv, LoopOK, NEW c \in Calls, stage[c] \in {"idle", "status"}
  PROVE  c \notin callbacks /\ sent[c] = {}
BY DEF BackendInv, WaitersReleased, ControlOK, LoopOK

\* Calls begin on servers that are up.
LEMMA UsersAreQuiet ==
  ASSUME BackendInv, LoopOK, Users
  PROVE  Quiet
<1>0. stage \in [Calls -> Stages] /\ server \in [Calls -> Servers \cup {"none"}]
  BY DEF BackendInv, BackendTypeOK
<1>1. ASSUME NEW c \in Calls, NEW s \in Servers, stage[c] = "idle", phase[s] = "up",
             server' = [server EXCEPT ![c] = s],
             \/ stage' = [stage EXCEPT ![c] = "status"]
             \/ stage' = [stage EXCEPT ![c] = "returned"],
             UNCHANGED <<queue, lastEntry, lastId, since, reader, inbox, sent,
                         callbacks, phase>>
      PROVE  Quiet
  <2>1. c \notin callbacks
    BY <1>1, NotAskedYet
  <2>2. \A d \in Calls : d # c => server'[d] = server[d] /\ stage'[d] = stage[d]
    BY <1>0, <1>1
  <2>3. server'[c] = s /\ stage'[c] \in {"status", "returned"}
    BY <1>0, <1>1
  <2> QED
    BY <1>1, <2>1, <2>2, <2>3 DEF Quiet, LoopOK, CallsOf
<1>2. ASSUME NEW c \in Signups, NEW s \in Servers, BeginSignup(c, s) PROVE Quiet
  BY <1>1, <1>2 DEF BeginSignup, Return, Fault, Invalid, engine, subscriber, Calls
<1>3. ASSUME NEW u \in Signups, SignIn(u) PROVE Quiet
  BY <1>3 DEF SignIn, engine, subscriber, handlers, counters, Quiet, LoopOK, CallsOf
<1>4. ASSUME NEW c \in Orders, NEW s \in Servers, NEW k \in Kinds, BeginOrder(c, s, k)
      PROVE  Quiet
  BY <1>1, <1>4 DEF BeginOrder, Return, Fault, Invalid, GetClosedOrders, engine,
     subscriber, Calls
<1> QED
  BY <1>2, <1>3, <1>4 DEF Users

\* A handler registers a waiter before its request can have been answered.
LEMMA HandlersAreQuiet ==
  ASSUME BackendInv, LoopOK, NEW c \in Calls,
         SendRequest(c) \/ (c \in Signups /\ Rollback(c))
  PROVE  Quiet
<1>0. stage \in [Calls -> Stages] /\ server[c] \in Servers /\ phase[server[c]] # "down"
  BY ServerAlive DEF BackendInv, BackendTypeOK, SendRequest, CheckEngineStatus,
     AppendRequest, PublishRequest, PublicationFails, TakeAnswer, Rollback
<1>1. /\ \A d \in Calls : d # c => stage'[d] = stage[d]
      /\ callbacks' \subseteq callbacks \cup {c}
      /\ c \in callbacks' => c \in callbacks \/ sent[c] = {}
      /\ stage'[c] # "idle"
      /\ UNCHANGED <<queue, lastEntry, lastId, since, reader, inbox, sent, server,
                     phase>>
  <2>1. CASE CheckEngineStatus(c)
    BY <1>0, <2>1, NotAskedYet DEF CheckEngineStatus, Fail, Return, engine, subscriber,
       counters
  <2>2. CASE AppendRequest(c) \/ PublishRequest(c) \/ PublicationFails(c)
    BY <1>0, <2>2 DEF AppendRequest, PublishRequest, PublicationFails, Fail, Return,
       Fault, engine, subscriber, handlers, counters
  <2>3. CASE TakeAnswer(c) \/ Rollback(c)
    BY <1>0, <2>3 DEF TakeAnswer, Rollback, Fail, Return, engine, subscriber, counters
  <2> QED
    BY <2>1, <2>2, <2>3 DEF SendRequest
<1> QED
  BY <1>0, <1>1 DEF Quiet, LoopOK, CallsOf

\* Timers, signals and decisions of the engine.
LEMMA OthersAreQuiet ==
  ASSUME BackendInv, LoopOK,
         \/ \E c \in Calls : Timeout(c) \/ EngineDecides(c)
         \/ \E s \in Servers : Signal(s)
         \/ UNCHANGED vars
  PROVE  Quiet
<1>0. /\ phase \in [Servers -> {"up", "stopping", "down"}]
      /\ callbacks \subseteq Calls
  BY DEF BackendInv, BackendTypeOK
<1>1. ASSUME NEW c \in Calls, Timeout(c) PROVE Quiet
  <2>1. server[c] \in Servers /\ phase[server[c]] # "down"
    BY <1>1, ServerAlive DEF Timeout
  <2>2. \A s \in Servers : phase[s] = "down" <=> phase'[s] = "down"
    BY <1>0, <1>1, <2>1 DEF Timeout, UnhandledRejection
  <2>3. callbacks' \subseteq callbacks
    BY <1>1 DEF Timeout, UnhandledRejection
  <2> QED
    BY <1>1, <2>2, <2>3 DEF Timeout, Quiet, LoopOK, CallsOf, engine, subscriber, counters
<1>2. ASSUME NEW c \in Calls, EngineDecides(c) PROVE Quiet
  BY <1>0, <1>2 DEF EngineDecides, Quiet, LoopOK, CallsOf, subscriber, handlers, counters
<1>3. ASSUME NEW s \in Servers, Signal(s) PROVE Quiet
  BY <1>0, <1>3 DEF Signal, Stop, Quiet, LoopOK, CallsOf, engine, subscriber
<1>4. CASE UNCHANGED vars
  BY <1>4 DEF vars, Quiet, LoopOK, CallsOf
<1> QED
  BY <1>1, <1>2, <1>3, <1>4

\* The waiters of a single server are its own.
LEMMA OwnWaiters ==
  ASSUME BackendInv, LoopOK, OneServer, NEW s \in Servers, NEW c \in callbacks
  PROVE  c \in Calls /\ server[c] = s /\ c \in CallsOf(s)
BY ServerAlive DEF BackendInv, BackendTypeOK, OneServer, CallsOf

\* XREAD returns every answer after the position, and blocks when there is none.
LEMMA ReadQueueReads ==
  ASSUME BackendInv, ReaderInv, NEW s \in Servers, ReadQueue(s)
  PROVE  ReaderInv'
<1> DEFINE from == IF lastId[s] = Latest THEN lastEntry ELSE lastId[s]
           read == {e \in queue : e.id > from}
<1>0. /\ inbox \in [Servers -> SUBSET Entries]
      /\ reader \in [Servers -> {"idle", "blocked", "dispatching", "deleting"}]
      /\ since \in [Servers -> {Latest} \cup 0..lastEntry]
      /\ sent \in [Calls -> SUBSET (1..lastEntry)] /\ lastEntry \in Nat
      /\ LoopOK /\ ReachOK /\ inbox[s] = {}
      /\ reader[s] = "idle" /\ phase[s] = "up"
  BY DEF BackendInv, BackendTypeOK, ReaderInv, LoopOK, ReadQueue
<1>1. /\ inbox' = [inbox EXCEPT ![s] = read]
      /\ reader' = [reader EXCEPT ![s] = IF read = {} THEN "blocked" ELSE "dispatching"]
      /\ since' = [since EXCEPT ![s] = IF lastId[s] = Latest THEN lastEntry ELSE @]
      /\ UNCHANGED <<engine, handlers, queue, lastEntry, lastId, phase>>
  BY DEF ReadQueue
<1>2. read \subseteq queue
  OBVIOUS
<1> HIDE DEF read
<1>3. LoopOK'
  <2>1. \A t \in Servers : \A e \in inbox'[t] : e \in inbox[t] \/ (t = s /\ e \in queue)
    BY <1>0, <1>1, <1>2
  <2>2. \A t \in Servers : \A e, f \in EntriesAt(t)' : e.id = f.id => e = f
    BY <1>0, <1>1, <2>1 DEF LoopOK, EntriesAt
  <2>3. \A t \in Servers : reader'[t] \in {"idle", "blocked"} <=> inbox'[t] = {}
    BY <1>0, <1>1 DEF LoopOK
  <2>4. \A t \in Servers : reader'[t] = "deleting" => reader[t] = "deleting" /\ t # s
    BY <1>0, <1>1
  <2>5. \A t \in Servers : t # s => inbox'[t] = inbox[t] /\ reader'[t] = reader[t]
    BY <1>0, <1>1
  <2>6. UNCHANGED <<stage, server, callbacks, phase>>
    BY <1>1 DEF engine, handlers
  <2> QED
    BY <1>0, <2>2, <2>3, <2>4, <2>5, <2>6 DEF LoopOK, IsNext, CallsOf
<1>4. ReachOK'
  <2> SUFFICES ASSUME OneServer PROVE
         /\ \A t \in Servers : lastId'[t] = Latest /\ since'[t] # Latest =>
              reader'[t] \in {"blocked", "dispatching"} \/ phase'[t] = "down"
         /\ \A c \in callbacks' : \A id \in sent'[c] :
              since'[server'[c]] # Latest /\ id > since'[server'[c]] =>
                \E e \in EntriesAt(server[c])' : e.call = c /\ InReach(server[c], e)'
    BY DEF ReachOK
  <2>1. reader'[s] \in {"blocked", "dispatching"} /\ \A t \in Servers : t = s
    BY <1>0, <1>1 DEF OneServer
  <2>2. ASSUME NEW c \in callbacks', NEW id \in sent'[c],
               since'[server'[c]] # Latest, id > since'[server'[c]]
        PROVE  \E e \in EntriesAt(server[c])' : e.call = c /\ InReach(server[c], e)'
    <3>0. UNCHANGED <<server, sent, callbacks>>
      BY <1>1 DEF engine, handlers
    <3>1. c \in callbacks /\ c \in Calls /\ server[c] = s /\ id \in sent[c]
      BY <1>0, <2>2, <3>0, OwnWaiters
    <3>2. lastId[s] # Latest
      <4>1. id \leq lastEntry
        BY <1>0, <3>1
      <4> QED
        BY <1>0, <1>1, <2>2, <3>0, <3>1, <4>1
    <3>3. since'[s] = since[s]
      BY <1>0, <1>1, <3>2
    <3>4. PICK e \in EntriesAt(s) : e.call = c /\ InReach(s, e)
      BY <1>0, <2>2, <3>0, <3>1, <3>3 DEF ReachOK
    <3>5. e \in read
      BY <1>0, <3>2, <3>4 DEF InReach, read
    <3>6. server'[c] = s /\ e \in inbox'[s] /\ e.call = c
      BY <1>0, <1>1, <3>0, <3>1, <3>4, <3>5
    <3> QED
      BY <3>6 DEF InReach, EntriesAt
  <2> QED
    BY <2>1, <2>2
<1> QED
  BY <1>3, <1>4 DEF ReaderInv

\* A failed read is repeated from the same position; "$" is resolved anew.
LEMMA ReadFailsReads ==
  ASSUME BackendInv, ReaderInv, NEW s \in Servers, ReadFails(s)
  PROVE  ReaderInv'
<1>1. /\ reader' = [reader EXCEPT ![s] = "idle"] /\ reader[s] = "blocked"
      /\ since' = [since EXCEPT ![s] = IF lastId[s] = Latest THEN Latest ELSE @]
      /\ UNCHANGED <<queue, inbox, lastId, stage, server, callbacks, sent, phase>>
  BY DEF ReadFails, engine, handlers
<1>2. /\ reader \in [Servers -> {"idle", "blocked", "dispatching", "deleting"}]
      /\ since \in [Servers -> {Latest} \cup 0..lastEntry]
      /\ lastId \in [Servers -> {Latest} \cup 1..lastEntry]
      /\ LoopOK /\ ReachOK
  BY DEF BackendInv, BackendTypeOK, ReaderInv
<1>3. LoopOK'
  BY <1>1, <1>2 DEF LoopOK, EntriesAt, IsNext, CallsOf
<1>4. ReachOK'
  <2> SUFFICES ASSUME OneServer PROVE
         /\ \A t \in Servers : lastId[t] = Latest /\ since'[t] # Latest =>
              reader'[t] \in {"blocked", "dispatching"} \/ phase[t] = "down"
         /\ \A c \in callbacks : \A id \in sent[c] :
              since'[server[c]] # Latest /\ id > since'[server[c]] =>
                \E e \in EntriesAt(server[c]) : e.call = c /\ InReach(server[c], e)'
    BY <1>1 DEF ReachOK, EntriesAt
  <2>1. \A t \in Servers : t = s
    BY DEF OneServer
  <2>2. lastId[s] = Latest => since'[s] = Latest
    BY <1>1, <1>2
  <2>3. ASSUME NEW c \in callbacks, NEW id \in sent[c],
               since'[server[c]] # Latest, id > since'[server[c]]
        PROVE  \E e \in EntriesAt(server[c]) : e.call = c /\ InReach(server[c], e)'
    <3>1. server[c] = s
      BY <1>2, OwnWaiters
    <3>2. since'[s] = since[s] /\ lastId[s] # Latest
      BY <1>1, <1>2, <2>2, <2>3, <3>1
    <3>3. PICK e \in EntriesAt(s) : e.call = c /\ InReach(s, e)
      BY <1>2, <2>3, <3>1, <3>2 DEF ReachOK
    <3>4. inbox[s] = {}
      BY <1>1, <1>2 DEF LoopOK
    <3>5. FALSE
      BY <1>1, <3>3, <3>4 DEF InReach
    <3> QED
      BY <3>5
  <2> QED
    BY <2>1, <2>2, <2>3
<1> QED
  BY <1>3, <1>4 DEF ReaderInv

\* The position moves to the oldest answer in hand, and its waiter is released.
LEMMA DispatchReads ==
  ASSUME BackendInv, ReaderInv, NEW s \in Servers, NEW e \in inbox[s],
         DispatchAnswer(s, e)
  PROVE  ReaderInv'
<1>0. /\ inbox \in [Servers -> SUBSET Entries] /\ lastEntry \in Nat
      /\ reader \in [Servers -> {"idle", "blocked", "dispatching", "deleting"}]
      /\ lastId \in [Servers -> {Latest} \cup 1 .. lastEntry]
      /\ queue \subseteq Entries
      /\ LoopOK /\ ReachOK /\ IsNext(s, e) /\ reader[s] = "dispatching"
  BY DEF BackendInv, BackendTypeOK, ReaderInv, DispatchAnswer
<1>1. /\ reader' = [reader EXCEPT ![s] = "deleting"]
      /\ lastId' = [lastId EXCEPT ![s] = e.id]
      /\ callbacks' = callbacks \ ({e.call} \cap CallsOf(s))
      /\ UNCHANGED <<queue, inbox, since, stage, server, sent, phase>>
  BY DEF DispatchAnswer, engine
<1>2. e \in Entries /\ e.id \in Nat \ {0}
  BY <1>0 DEF Entries
<1>3. LoopOK'
  <2>1. \A f \in inbox[s] : IsNext(s, f) => f = e
    <3>1. \A f \in inbox[s] : f.id \in Nat
      BY <1>0 DEF Entries
    <3>2. \A f \in inbox[s] : IsNext(s, f) => f.id = e.id
      BY <1>0, <1>2, <3>1 DEF IsNext
    <3> QED
      BY <1>0, <3>2 DEF LoopOK, EntriesAt
  <2>2. \A t \in Servers : reader'[t] = "deleting" =>
          \A f \in inbox[t] : IsNext(t, f) => f.call \notin callbacks' \cap CallsOf(t)
    BY <1>0, <1>1, <2>1 DEF LoopOK
  <2> QED
    BY <1>0, <1>1, <2>2 DEF LoopOK, EntriesAt, IsNext, CallsOf
<1>4. ReachOK'
  <2> SUFFICES ASSUME OneServer PROVE
         /\ \A t \in Servers : lastId'[t] # Latest
         /\ \A c \in callbacks' : \A id \in sent[c] :
              since[server[c]] # Latest /\ id > since[server[c]] =>
                \E f \in EntriesAt(server[c]) : f.call = c /\ InReach(server[c], f)'
    BY <1>1 DEF ReachOK, EntriesAt
  <2>1. \A t \in Servers : lastId'[t] # Latest
    BY <1>0, <1>1, <1>2 DEF OneServer, Latest
  <2>2. ASSUME NEW c \in callbacks', NEW id \in sent[c],
               since[server[c]] # Latest, id > since[server[c]]
        PROVE  \E f \in EntriesAt(server[c]) : f.call = c /\ InReach(server[c], f)'
    <3>1. c \in callbacks /\ server[c] = s
      BY <1>0, <1>1, OwnWaiters
    <3>2. PICK f \in EntriesAt(s) : f.call = c /\ InReach(s, f)
      BY <1>0, <2>2, <3>1 DEF ReachOK
    <3>3. CASE f \in inbox[s]
      BY <1>1, <3>1, <3>2, <3>3 DEF InReach
    <3>4. CASE f \in queue /\ \A i \in inbox[s] : i.id < f.id
      BY <1>0, <1>1, <3>1, <3>2, <3>4 DEF InReach
    <3> QED
      BY <3>1, <3>2, <3>3, <3>4 DEF InReach
  <2> QED
    BY <2>1, <2>2
<1> QED
  BY <1>3, <1>4 DEF ReaderInv

\* What is deleted is an answer nobody of this server waits for.
LEMMA DeleteReads ==
  ASSUME BackendInv, ReaderInv, NEW s \in Servers, NEW e \in inbox[s],
         DeleteAnswer(s, e)
  PROVE  ReaderInv'
<1>0. /\ inbox \in [Servers -> SUBSET Entries] /\ lastEntry \in Nat
      /\ reader \in [Servers -> {"idle", "blocked", "dispatching", "deleting"}]
      /\ LoopOK /\ ReachOK /\ IsNext(s, e) /\ reader[s] = "deleting"
      /\ queue \subseteq Entries
  BY DEF BackendInv, BackendTypeOK, ReaderInv, DeleteAnswer
<1>1. /\ reader' = [reader EXCEPT ![s] = IF inbox[s] = {e} THEN "idle" ELSE "dispatching"]
      /\ inbox' = [inbox EXCEPT ![s] = @ \ {e}]
      /\ queue' \subseteq queue /\ queue \ {e} \subseteq queue'
      /\ UNCHANGED <<lastId, since, stage, server, callbacks, sent, phase>>
  BY DEF DeleteAnswer, engine, handlers
<1>2. /\ inbox'[s] = inbox[s] \ {e} /\ reader'[s] \in {"idle", "dispatching"}
      /\ reader'[s] = "idle" <=> inbox'[s] = {}
      /\ \A t \in Servers : t # s => inbox'[t] = inbox[t] /\ reader'[t] = reader[t]
  BY <1>0, <1>1
<1>3. LoopOK'
  <2>1. \A t \in Servers : EntriesAt(t)' \subseteq EntriesAt(t)
    BY <1>1, <1>2 DEF EntriesAt
  <2>2. \A t \in Servers : reader'[t] \in {"idle", "blocked"} <=> inbox'[t] = {}
    BY <1>0, <1>2 DEF LoopOK
  <2>3. \A t \in Servers : reader'[t] = "deleting" \/ phase'[t] = "down" => t # s
    BY <1>0, <1>1, <1>2 DEF LoopOK
  <2> QED
    BY <1>0, <1>1, <1>2, <2>1, <2>2, <2>3 DEF LoopOK, IsNext, CallsOf
<1>4. ReachOK'
  <2> SUFFICES ASSUME OneServer PROVE
         /\ \A t \in Servers : lastId[t] = Latest /\ since[t] # Latest =>
              phase[t] = "down"
         /\ \A c \in callbacks : \A id \in sent[c] :
              since[server[c]] # Latest /\ id > since[server[c]] =>
                \E f \in EntriesAt(server[c])' : f.call = c /\ InReach(server[c], f)'
    BY <1>1 DEF ReachOK
  <2>1. \A t \in Servers : lastId[t] = Latest /\ since[t] # Latest =>
          phase[t] = "down"
    BY <1>0 DEF ReachOK, OneServer
  <2>2. ASSUME NEW c \in callbacks, NEW id \in sent[c],
               since[server[c]] # Latest, id > since[server[c]]
        PROVE  \E f \in EntriesAt(server[c])' : f.call = c /\ InReach(server[c], f)'
    <3>1. server[c] = s /\ c \in CallsOf(s)
      BY <1>0, OwnWaiters
    <3>2. PICK f \in EntriesAt(s) : f.call = c /\ InReach(s, f)
      BY <1>0, <2>2, <3>1 DEF ReachOK
    <3>3. f # e
      BY <1>0, <3>1, <3>2 DEF LoopOK
    <3> QED
      BY <1>0, <1>1, <1>2, <3>1, <3>2, <3>3 DEF InReach, EntriesAt
  <2> QED
    BY <2>1, <2>2
<1> QED
  BY <1>3, <1>4 DEF ReaderInv

\* A process ends with its waiters.
LEMMA TerminateReads ==
  ASSUME BackendInv, ReaderInv, NEW s \in Servers, Terminate(s)
  PROVE  ReaderInv'
<1>0. /\ inbox \in [Servers -> SUBSET Entries]
      /\ reader \in [Servers -> {"idle", "blocked", "dispatching", "deleting"}]
      /\ phase \in [Servers -> {"up", "stopping", "down"}]
      /\ stage \in [Calls -> Stages]
      /\ LoopOK /\ ReachOK
  BY DEF BackendInv, BackendTypeOK, ReaderInv
<1>1. /\ phase' = [phase EXCEPT ![s] = "down"]
      /\ reader' = [reader EXCEPT ![s] = "idle"]
      /\ inbox' = [inbox EXCEPT ![s] = {}]
      /\ stage' = [c \in Calls |->
                     IF server[c] = s /\ stage[c] # "returned" THEN "lost" ELSE stage[c]]
      /\ callbacks' = callbacks \ CallsOf(s)
      /\ UNCHANGED <<queue, lastId, since, server, sent>>
  BY DEF Terminate, engine
<1>2. LoopOK'
  <2>1. \A t \in Servers : EntriesAt(t)' \subseteq EntriesAt(t)
    BY <1>0, <1>1 DEF EntriesAt
  <2>2. /\ reader'[s] = "idle" /\ inbox'[s] = {} /\ phase'[s] = "down"
        /\ \A t \in Servers : t # s => /\ inbox'[t] = inbox[t] /\ reader'[t] = reader[t]
                                       /\ phase'[t] = phase[t]
    BY <1>0, <1>1
  <2>3. \A c \in CallsOf(s) : stage'[c] \in {"idle", "returned", "lost"} /\ c \notin callbacks'
    BY <1>1 DEF CallsOf
  <2>4. \A c \in Calls : stage'[c] = stage[c] \/ stage'[c] = "lost"
    BY <1>1
  <2> QED
    BY <1>0, <1>1, <2>1, <2>2, <2>3, <2>4 DEF LoopOK, IsNext, CallsOf
<1>3. ReachOK'
  <2>1. OneServer => callbacks' = {}
    BY <1>0, <1>1, OwnWaiters
  <2>2. OneServer => \A t \in Servers : phase'[t] = "down"
    BY <1>0, <1>1 DEF OneServer
  <2> QED
    BY <2>1, <2>2 DEF ReachOK
<1> QED
  BY <1>2, <1>3 DEF ReaderInv

\* A new process has no waiters.
LEMMA RestartReads ==
  ASSUME BackendInv, ReaderInv, NEW s \in Servers, Restart(s)
  PROVE  ReaderInv'
<1>0. /\ reader \in [Servers -> {"idle", "blocked", "dispatching", "deleting"}]
      /\ phase \in [Servers -> {"up", "stopping", "down"}]
      /\ since \in [Servers -> {Latest} \cup 0 .. lastEntry]
      /\ LoopOK /\ ReachOK /\ phase[s] = "down" /\ inbox[s] = {}
  BY DEF BackendInv, BackendTypeOK, ReaderInv, LoopOK, Restart
<1>1. /\ phase' = [phase EXCEPT ![s] = "up"]
      /\ since' = [since EXCEPT ![s] = Latest]
      /\ UNCHANGED <<queue, reader, inbox, stage, server, callbacks, sent>>
  BY DEF Restart, engine, handlers
<1>2. LoopOK'
  BY <1>0, <1>1 DEF LoopOK, EntriesAt, IsNext, CallsOf
<1>3. ReachOK'
  <2>1. OneServer => callbacks = {}
    BY <1>0, OwnWaiters DEF LoopOK
  <2>2. OneServer => \A t \in Servers : since'[t] = Latest
    BY <1>0, <1>1 DEF OneServer
  <2> QED
    BY <1>1, <2>1, <2>2 DEF ReachOK
<1> QED
  BY <1>2, <1>3 DEF ReaderInv

\* An answer goes to the end of the queue, or to the reader that waits for it.
LEMMA AnswerReads ==
  ASSUME BackendInv, ReaderInv, EngineAnswers
  PROVE  ReaderInv'
<1> PICK entry \in [id : {lastEntry + 1}, call : Calls, error : ErrorCodes] :
      PublishResponse(entry)
  BY Published
<1>0. /\ inbox \in [Servers -> SUBSET Entries] /\ lastEntry \in Nat
      /\ reader \in [Servers -> {"idle", "blocked", "dispatching", "deleting"}]
      /\ lastId \in [Servers -> {Latest} \cup 1 .. lastEntry]
      /\ sent \in [Calls -> SUBSET (1..lastEntry)]
      /\ queue \subseteq Entries /\ callbacks \subseteq Calls
      /\ LoopOK /\ ReachOK
  BY DEF BackendInv, BackendTypeOK, ReaderInv
<1>1. /\ sent' = [sent EXCEPT ![entry.call] = @ \cup {entry.id}]
      /\ queue' = queue \cup {entry}
      /\ inbox' = [s \in Servers |-> IF reader[s] = "blocked" THEN {entry} ELSE inbox[s]]
      /\ reader' = [s \in Servers |-> IF reader[s] = "blocked" THEN "dispatching"
                                      ELSE reader[s]]
      /\ UNCHANGED <<lastId, since, stage, server, callbacks, phase>>
  BY DEF PublishResponse, handlers
<1>2. entry.id = lastEntry + 1 /\ entry.call \in Calls
  OBVIOUS
<1>3. /\ \A e \in queue : e.id \in Nat /\ e.id < entry.id
      /\ \A s \in Servers : \A e \in inbox[s] : e.id \in Nat /\ e.id < entry.id
  BY <1>0, <1>2 DEF Entries
<1>4. /\ \A s \in Servers : reader[s] = "blocked" =>
           inbox'[s] = {entry} /\ reader'[s] = "dispatching" /\ inbox[s] = {}
      /\ \A s \in Servers : reader[s] # "blocked" =>
           inbox'[s] = inbox[s] /\ reader'[s] = reader[s]
  BY <1>0, <1>1 DEF LoopOK
<1>5. LoopOK'
  <2>1. \A s \in Servers : EntriesAt(s)' \subseteq EntriesAt(s) \cup {entry}
    BY <1>1, <1>4 DEF EntriesAt
  <2>2. \A s \in Servers : \A e, f \in EntriesAt(s)' : e.id = f.id => e = f
    <3>1. \A s \in Servers : \A e \in EntriesAt(s) : e.id \in Nat /\ e.id < entry.id
      BY <1>3 DEF EntriesAt
    <3>2. \A s \in Servers : \A e, f \in EntriesAt(s) : e.id = f.id => e = f
      BY <1>0 DEF LoopOK
    <3> QED
      BY <2>1, <3>1, <3>2
  <2>3. \A s \in Servers : reader'[s] \in {"idle", "blocked"} <=> inbox'[s] = {}
    BY <1>0, <1>4 DEF LoopOK
  <2>4. \A s \in Servers : reader'[s] = "deleting" \/ phase'[s] = "down" =>
          reader[s] # "blocked"
    BY <1>0, <1>1, <1>4 DEF LoopOK
  <2> QED
    BY <1>0, <1>1, <1>4, <2>2, <2>3, <2>4 DEF LoopOK, IsNext, CallsOf
<1>6. ReachOK'
  <2> SUFFICES ASSUME OneServer PROVE
         /\ \A s \in Servers : lastId[s] = Latest /\ since[s] # Latest =>
              reader'[s] \in {"blocked", "dispatching"} \/ phase[s] = "down"
         /\ \A d \in callbacks : \A id \in sent'[d] :
              since[server[d]] # Latest /\ id > since[server[d]] =>
                \E e \in EntriesAt(server[d])' : e.call = d /\ InReach(server[d], e)'
    BY <1>1 DEF ReachOK
  <2>1. \A s \in Servers : lastId[s] = Latest /\ since[s] # Latest =>
          reader'[s] \in {"blocked", "dispatching"} \/ phase[s] = "down"
    BY <1>0, <1>4 DEF ReachOK
  <2>2. ASSUME NEW d \in callbacks, NEW id \in sent'[d],
               since[server[d]] # Latest, id > since[server[d]]
        PROVE  \E e \in EntriesAt(server[d])' : e.call = d /\ InReach(server[d], e)'
    <3>1. server[d] \in Servers
      BY <1>0, ServerAlive DEF BackendInv, BackendTypeOK
    <3>2. PICK s \in Servers : server[d] = s
      BY <3>1
    <3>3. CASE d = entry.call
      <4>1. entry \in EntriesAt(s)'
        BY <1>1 DEF EntriesAt
      <4>2. CASE reader[s] = "blocked"
        BY <1>1, <1>2, <1>4, <3>2, <3>3, <4>1, <4>2 DEF InReach
      <4>3. CASE reader[s] # "blocked"
        <5>1. entry.id > lastId[s]
          BY <1>0, <1>2 DEF Latest
        <5>2. /\ entry \in queue' /\ inbox'[s] = inbox[s] /\ reader'[s] = reader[s]
              /\ lastId'[s] = lastId[s] /\ server'[d] = s
          BY <1>1, <1>4, <3>2, <4>3
        <5>3. \A i \in inbox'[s] : i.id < entry.id
          BY <1>3, <5>2
        <5> QED
          BY <1>2, <3>3, <4>1, <4>3, <5>1, <5>2, <5>3 DEF InReach
      <4> QED
        BY <4>2, <4>3
    <3>4. CASE d # entry.call
      <4>1. PICK e \in EntriesAt(s) : e.call = d /\ InReach(s, e)
        BY <1>0, <1>1, <2>2, <3>2, <3>4 DEF ReachOK
      <4>2. reader[s] # "blocked"
        BY <1>4, <4>1 DEF InReach
      <4> QED
        BY <1>1, <1>4, <3>2, <4>1, <4>2 DEF InReach, EntriesAt
    <3> QED
      BY <3>3, <3>4
  <2> QED
    BY <2>1, <2>2
<1> QED
  BY <1>5, <1>6 DEF ReaderInv

\* The readers have not asked yet, and the queue is empty.
LEMMA ReaderInvInit == Init => ReaderInv
BY DEF Init, ReaderInv, LoopOK, ReachOK, EntriesAt, IsNext, CallsOf

\* Every action preserves the invariant of the loop.
LEMMA ReaderInvNext ==
  ASSUME BackendInv, ReaderInv, [Next]_vars
  PROVE  ReaderInv'
<1>0. LoopOK
  BY DEF ReaderInv
<1>1. CASE Users
  BY <1>0, <1>1, UsersAreQuiet, QuietKeepsLoop
<1>2. ASSUME NEW c \in Calls, SendRequest(c) \/ (c \in Signups /\ Rollback(c))
      PROVE  ReaderInv'
  BY <1>0, <1>2, HandlersAreQuiet, QuietKeepsLoop
<1>3. CASE EngineAnswers
  BY <1>3, AnswerReads
<1>4. ASSUME NEW s \in Servers, RunLoop(s)
      PROVE  ReaderInv'
  BY <1>4, ReadQueueReads, ReadFailsReads, DispatchReads, DeleteReads DEF RunLoop
<1>5. ASSUME NEW s \in Servers, Exit(s) \/ Crash(s) \/ Restart(s)
      PROVE  ReaderInv'
  BY <1>5, TerminateReads, RestartReads DEF Exit, Crash
<1>6. ASSUME \/ \E c \in Calls : Timeout(c) \/ EngineDecides(c)
             \/ \E s \in Servers : Signal(s)
             \/ UNCHANGED vars
      PROVE  ReaderInv'
  BY <1>0, <1>6, OthersAreQuiet, QuietKeepsLoop
<1> QED
  BY <1>1, <1>2, <1>3, <1>4, <1>5, <1>6 DEF Next, Engine, Process

\* The invariant of the loop holds in every state.
THEOREM ReaderInvariant == Spec => []ReaderInv
<1>1. BackendInv /\ ReaderInv /\ [Next]_vars => ReaderInv'
  BY ReaderInvNext
<1> QED
  BY <1>1, ReaderInvInit, BackendInvariant, PTL DEF Spec

\* A single server never passes over, and never deletes, an answer that one of its
\* handlers waits for: over timeouts, stops, crashes, failed reads, publications and
\* deletions, and answers published twice.  It says nothing of an answer added before
\* the server's XREAD from "$" has reached Redis, or, when that XREAD fails with
\* nothing read yet, before the next one has; nor of several servers, see ScalesOut.
THEOREM AnswersNeverMissed == Spec => []NoAnswerMissed
<1>1. BackendInv /\ ReaderInv => NoAnswerMissed
  <2> SUFFICES ASSUME BackendInv, ReaderInv, OneServer,
                      NEW c \in callbacks, NEW id \in sent[c],
                      since[server[c]] # Latest, id > since[server[c]]
               PROVE  AnswerInReach(c)
    BY DEF NoAnswerMissed, AnswersInReach
  <2>1. PICK e \in EntriesAt(server[c]) : e.call = c /\ InReach(server[c], e)
    BY DEF ReaderInv, ReachOK
  <2> QED
    BY <2>1 DEF InReach, AnswerInReach
<1> QED
  BY <1>1, BackendInvariant, ReaderInvariant, PTL
=============================================================================
