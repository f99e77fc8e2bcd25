------------------------------ MODULE CallProofs ------------------------------
(***************************************************************************)
(* Proofs about the calls of Cercall, for any set of clients and           *)
(* functions, any bounds and any MaxCallsInProgress: results reach the     *)
(* call they belong to, calls are executed once and in order, the queue    *)
(* strands nothing, and Cercall implements AtMostOnce.                     *)
(***************************************************************************)
EXTENDS CercallProofs, FiniteSetTheorems

------------------------------------------------------------------------------
(***************************************************************************)
(* The inductive invariant: first the threads of the clients.  AcceptOK,   *)
(* of the connections at the service, is in ServiceProofs.                 *)
(***************************************************************************)

\* Client c is in the state in which send_call and dispatch_result work.
Calling(c) == is_open(Cli(c)) /\ pc[c] \in {"idle", "handler"}

\* The thread of a client, its read and its connection.
ThreadOK(c) ==
    /\ pc[c] # "threw"
    /\ up[c] => Calling(c) /\ reading[Cli(c)] # "failed"
    /\ reading[Cli(c)] = "wait" => is_open(Cli(c))
    /\ pc[c] \in {"handler", "errors", "errcall"} => reading[Cli(c)] = "none"
    /\ myState[Cli(c)] = "NEW" =>
          reading[Cli(c)] = "none" /\ pc[c] \in {"idle", "gone"}

------------------------------------------------------------------------------
(***************************************************************************)
(* Then the calls of function f by client c.                               *)
(***************************************************************************)

\* The last call that left the client: those after it wait in the queue.
LastSent(c, f) == issued[c][f] - Len(myCallQueue[c][f])

\* The number of calls executed.
Done(c, f) == Len(executed[c][f])

\* The queue holds the calls that were not sent, in order; the closure in the
\* map belongs to the last call that was, and a call waits behind it only.
QueueOK(c, f) ==
    /\ \A i \in DOMAIN myCallQueue[c][f] :
          myCallQueue[c][f][i] = LastSent(c, f) + i
    /\ f \in InProgress(c) => myClosures[c][f] = LastSent(c, f)
    /\ (is_open(Cli(c)) \/ Receiving(c)) /\ myCallQueue[c][f] # <<>> =>
          f \in InProgress(c)
    /\ f \in OneWay => f \notin InProgress(c) /\ myCallQueue[c][f] = <<>>
    /\ myState[Cli(c)] = "NEW" =>
          issued[c][f] = 0 /\ f \notin InProgress(c) /\ myCallQueue[c][f] = <<>>

\* Calls are executed in order; those on their way come next; the results and
\* the closures of the service belong to executed calls.
ExecutionOK(c, f) ==
    /\ \A i \in DOMAIN executed[c][f] : executed[c][f][i] = i
    /\ Done(c, f) <= LastSent(c, f)
    /\ InSequence(inbox[Srv(c)], f, Done(c, f), LastSent(c, f))
    /\ up[c] => Complete(inbox[Srv(c)], f, Done(c, f), LastSent(c, f))
    /\ ValuesUpTo(inbox[Cli(c)], f, Done(c, f))
    /\ \A h \in Held(c, f) : h.id <= Done(c, f)

\* At most one thing stands for a call of a two-way function; while the client
\* receives it is the one whose closure is in the map, and while the connection is
\* up there is one for that closure.
TokenOK(c, f) ==
    /\ Single(inbox[Srv(c)], f) /\ Single(inbox[Cli(c)], f)
    /\ Absent(inbox[Srv(c)], f) \/ Absent(inbox[Cli(c)], f)
    /\ Held(c, f) # {} => Absent(inbox[Srv(c)], f) /\ Absent(inbox[Cli(c)], f)
    /\ Receiving(c) => /\ AllOf(inbox[Srv(c)], f, myClosures[c][f])
                       /\ AllOf(inbox[Cli(c)], f, myClosures[c][f])
                       /\ \A h \in Held(c, f) : h.id = myClosures[c][f]
    /\ up[c] /\ f \in InProgress(c) =>
          \/ ~Absent(inbox[Srv(c)], f) \/ ~Absent(inbox[Cli(c)], f)
          \/ Held(c, f) # {}

\* The closure of f has not been called by dispatch_connection_error.
Untold(c, f) == pc[c] \in {"errors", "errcall"} => FewFunctions /\ f \in notify[c]

\* What the closures were told.  With FewFunctions the loop calls no closure
\* again, in any case none that has its value.
OutcomeOK(c, f) ==
    /\ \A n \in CallId : /\ n > issued[c][f] => outcome[c][f][n] = "none"
                         /\ outcome[c][f][n] \notin {"wrong", "in_progress"}
                         /\ f \in TwoWay /\ LastSent(c, f) < n /\ n <= issued[c][f]
                               => outcome[c][f][n] = "open"
    /\ \A m, n \in CallId :
          m < n /\ outcome[c][f][n] = "value" => outcome[c][f][m] = "value"
    /\ f \in InProgress(c) =>
          /\ Untold(c, f) => outcome[c][f][myClosures[c][f]] = "open"
          /\ outcome[c][f][myClosures[c][f]] # "value"
    /\ f \in notify[c] /\ pc[c] \in {"errors", "errcall"} => f \in InProgress(c)
    /\ Receiving(c) /\ f \in InProgress(c) =>
          \A m \in CallId : m < myClosures[c][f] => outcome[c][f][m] = "value"
    /\ f \in TwoWay /\ Calling(c) /\ f \notin InProgress(c) =>
          \A m \in CallId : m <= LastSent(c, f) => outcome[c][f][m] = "value"

CallOK(c, f) ==
    /\ QueueOK(c, f) /\ ExecutionOK(c, f) /\ OutcomeOK(c, f)
    /\ f \in TwoWay => TokenOK(c, f)

Inv ==
    /\ TypeOK /\ RegisteredIsOpen /\ PendingMatchesHeld
    /\ \A c \in Clients : ThreadOK(c) /\ AcceptOK(c)
    /\ \A c \in Clients, f \in Funcs : CallOK(c, f)

------------------------------------------------------------------------------
(***************************************************************************)
(* Steps that have nothing to do with the calls of f by c.                 *)
(***************************************************************************)

\* They leave everything about these calls alone ...
CallKept(c, f) ==
    /\ Same(inbox[Srv(c)], inbox'[Srv(c)], f)
    /\ Same(inbox[Cli(c)], inbox'[Cli(c)], f)
    /\ Held(c, f)' = Held(c, f)
    /\ executed'[c][f] = executed[c][f]
    /\ myClosures'[c][f] = myClosures[c][f]
    /\ myCallQueue'[c][f] = myCallQueue[c][f]
    /\ issued'[c][f] = issued[c][f]
    /\ outcome'[c][f] = outcome[c][f]

\* ... in particular in the loop of dispatch_connection_error ...
NotifyKept(c, f) ==
    /\ pc'[c] \in {"errors", "errcall"} /\ f \in notify'[c] => f \in InProgress(c)
    /\ Untold(c, f)' => Untold(c, f)

\* ... and the client does not begin to work: only open() makes it do that.
NoNewWork(c) ==
    /\ up'[c] => up[c]
    /\ Receiving(c)' => Receiving(c)
    /\ Calling(c)' => Calling(c)
    /\ is_open(Cli(c))' => is_open(Cli(c))
    /\ myState'[Cli(c)] = "NEW" => myState[Cli(c)] = "NEW"

\* What the types say about the calls of f by c.
LEMMA CallTypes ==
    ASSUME TypeOK, NEW c \in Clients, NEW f \in Funcs
    PROVE  /\ inbox[Srv(c)] \in Seq(Message) /\ inbox[Cli(c)] \in Seq(Message)
           /\ inbox[Srv(c)] \in Seq(CallMessages)
           /\ Len(executed[c][f]) \in Nat /\ executed[c][f] \in Seq(CallId)
           /\ Len(myCallQueue[c][f]) \in Nat /\ myCallQueue[c][f] \in Seq(CallId)
           /\ issued[c][f] \in Nat /\ issued[c][f] <= MaxCalls
           /\ myClosures[c][f] \in Nat /\ myClosures[c][f] <= MaxCalls
           /\ LastSent(c, f) \in Int /\ LastSent(c, f) <= MaxCalls
           /\ Done(c, f) \in Nat
           /\ outcome[c][f] \in [CallId -> Outcomes]
           /\ \A h \in Held(c, f) : h.id \in CallId
<1>1. inbox[Srv(c)] \in Seq(Message) /\ inbox[Cli(c)] \in Seq(Message)
      /\ inbox[Srv(c)] \in Seq(CallMessages)
    BY Ends DEF TypeOK, TransportTypeOK, Message
<1>2. Len(executed[c][f]) \in Nat /\ executed[c][f] \in Seq(CallId)
    BY DEF TypeOK, ServiceTypeOK
<1>3. /\ Len(myCallQueue[c][f]) \in Nat /\ myCallQueue[c][f] \in Seq(CallId)
      /\ issued[c][f] \in 0..MaxCalls /\ myClosures[c][f] \in 0..MaxCalls
      /\ outcome[c][f] \in [CallId -> Outcomes]
    BY DEF TypeOK, ClientTypeOK
<1>4. \A h \in Held(c, f) : h.id \in CallId
    BY DEF TypeOK, ServiceTypeOK, Held, Closures
<1> QED
    BY <1>1, <1>2, <1>3, <1>4, BoundsAssumption DEF LastSent, Done

\* So they keep the invariant.
LEMMA OtherCall ==
    ASSUME TypeOK, TypeOK', NEW c \in Clients, NEW f \in Funcs, CallOK(c, f),
           CallKept(c, f), NotifyKept(c, f), NoNewWork(c)
    PROVE  CallOK(c, f)'
<1>1. LastSent(c, f)' = LastSent(c, f) /\ Done(c, f)' = Done(c, f)
    BY DEF CallKept, LastSent, Done
<1>2. f \in InProgress(c)' <=> f \in InProgress(c)
    BY DEF CallKept, InProgress
<1>3. /\ inbox[Srv(c)] \in Seq(Message) /\ inbox'[Srv(c)] \in Seq(Message)
      /\ inbox[Cli(c)] \in Seq(Message) /\ inbox'[Cli(c)] \in Seq(Message)
    BY Ends DEF TypeOK, TransportTypeOK, Message
<1>4. LastSent(c, f) \in Int /\ Done(c, f) \in Int
    BY CallTypes
<1>5. QueueOK(c, f)'
    BY <1>1, <1>2 DEF CallOK, QueueOK, CallKept, NoNewWork
<1>6. ExecutionOK(c, f)'
  <2>1. /\ InSequence(inbox'[Srv(c)], f, Done(c, f), LastSent(c, f))
        /\ up[c] => Complete(inbox'[Srv(c)], f, Done(c, f), LastSent(c, f))
        /\ ValuesUpTo(inbox'[Cli(c)], f, Done(c, f))
    BY <1>3, <1>4, SameKeeps DEF CallOK, ExecutionOK, CallKept
  <2> QED
    BY <1>1, <2>1 DEF CallOK, ExecutionOK, CallKept, NoNewWork
<1>7. OutcomeOK(c, f)'
    BY <1>1, <1>2 DEF CallOK, OutcomeOK, Untold, CallKept, NotifyKept, NoNewWork
<1>8. ASSUME f \in TwoWay
      PROVE  TokenOK(c, f)'
  <2>1. TokenOK(c, f)
    BY <1>8 DEF CallOK
  <2>2. /\ Absent(inbox'[Srv(c)], f) <=> Absent(inbox[Srv(c)], f)
        /\ Absent(inbox'[Cli(c)], f) <=> Absent(inbox[Cli(c)], f)
        /\ Single(inbox'[Srv(c)], f) /\ Single(inbox'[Cli(c)], f)
        /\ \A n : AllOf(inbox[Srv(c)], f, n) => AllOf(inbox'[Srv(c)], f, n)
        /\ \A n : AllOf(inbox[Cli(c)], f, n) => AllOf(inbox'[Cli(c)], f, n)
    BY <1>3, <2>1, SameKeeps DEF TokenOK, CallKept
  <2> QED
    BY <1>2, <2>1, <2>2 DEF TokenOK, CallKept, NoNewWork
<1> QED
    BY <1>5, <1>6, <1>7, <1>8 DEF CallOK

------------------------------------------------------------------------------
(***************************************************************************)
(* The steps of a client leave the other clients alone.                    *)
(***************************************************************************)
ClientKept(c) ==
    /\ pc'[c] = pc[c] /\ notify'[c] = notify[c]
    /\ myClosures'[c] = myClosures[c] /\ myCallQueue'[c] = myCallQueue[c]
    /\ issued'[c] = issued[c] /\ outcome'[c] = outcome[c]
    /\ up'[c] = up[c] /\ (c \in backlog' <=> c \in backlog)
    /\ \A e \in {Cli(c), Srv(c)} : /\ myState'[e] = myState[e]
                                  /\ reading'[e] = reading[e]
                                  /\ inbox'[e] = inbox[e]

LEMMA OtherClients ==
    ASSUME TypeOK, NEW d \in Clients, ClientStep(d), NEW c \in Clients, c # d
    PROVE  ClientKept(c)
<1> USE DEF TypeOK, TransportTypeOK
<1>0. /\ Cli(c) # Cli(d) /\ Cli(c) # Srv(d) /\ Srv(c) # Cli(d) /\ Srv(c) # Srv(d)
      /\ Cli(c) \in End /\ Srv(c) \in End /\ Cli(d) \in End /\ Srv(d) \in End
    BY Ends
<1> USE <1>0 DEF ClientKept
<1>1. /\ \A e \in {Cli(c), Srv(c)} : /\ StateClosed({Cli(d)})[e] = myState[e]
                                     /\ ReadsCancelled({Cli(d)})[e] = reading[e]
                                     /\ Consumed(Cli(d))[e] = inbox[e]
      /\ LinksDown({d})[c] = up[c]
    BY DEF StateClosed, ReadsCancelled, LinksDown, Consumed
<1>2. ASSUME NEW ib, NEW S, ib \in [End -> S], NEW m
      PROVE  \A e \in {Cli(c), Srv(c)} : Written(ib, Cli(d), m)[e] = ib[e]
    BY <1>2, Ends DEF Written
<1>3. \A m : \A e \in {Cli(c), Srv(c)} :
          /\ Written(inbox, Cli(d), m)[e] = inbox[e]
          /\ Written(Consumed(Cli(d)), Cli(d), m)[e] = inbox[e]
  <2>1. Consumed(Cli(d)) \in [End -> Seq(Message) \cup {Tail(inbox[Cli(d)])}]
    BY DEF Consumed, Message
  <2> QED
    BY <1>1, <1>2, <2>1 DEF Message
<1>4. CASE Open(d)
    BY <1>4 DEF Open, clientVars
<1>5. CASE Close(d) \/ Destroy(d)
    BY <1>1, <1>5 DEF Close, Destroy, clientVars, ClientTypeOK
<1>6. ASSUME NEW f \in Funcs, SendNow(d, f)
      PROVE  ClientKept(c)
    BY <1>3, <1>6 DEF SendNow, NotifyAdded, CallIssued, ClientTypeOK
<1>7. ASSUME NEW f \in Funcs, SendFails(d, f) \/ SendQueued(d, f)
      PROVE  ClientKept(c)
    BY <1>1, <1>7 DEF SendFails, SendQueued, CallIssued, ClientTypeOK, transportVars
<1>8. ASSUME NEW f \in Funcs, SendOneWay(d, f)
      PROVE  ClientKept(c)
    BY <1>1, <1>3, <1>8 DEF SendOneWay, CallIssued, ClientTypeOK
<1>9. CASE HandleClientHeader(d) \/ HandlerReturns(d)
    BY <1>9
    DEF HandleClientHeader, HandleHeader, HandlerReturns, ReadNextHeader, clientVars,
        ClientTypeOK
<1>10. CASE DispatchEvent(d)
    BY <1>1, <1>10 DEF DispatchEvent, Received, ClientTypeOK
<1>11. CASE HandleClientRecvError(d) \/ HandleClientAborted(d) \/ ClientAssertFails(d)
    BY <1>11
    DEF HandleClientRecvError, HandleClientAborted, ClientAssertFails, Received,
        clientVars, ClientTypeOK
<1>12. CASE ErrorClosureReturns(d) \/ EndErrors(d)
    BY <1>1, <1>12 DEF ErrorClosureReturns, EndErrors, transportVars, ClientTypeOK
<1>13. ASSUME NEW f \in Funcs, DispatchResult(d, f)
       PROVE  ClientKept(c)
    BY <1>1, <1>13 DEF DispatchResult, ClosureErased, Received, ClientTypeOK
<1>14. ASSUME NEW f \in Funcs, DispatchResultAndSendNext(d, f)
       PROVE  ClientKept(c)
    BY <1>1, <1>3, <1>14
    DEF DispatchResultAndSendNext, dequeue_call, Received, ClientTypeOK
<1>15. ASSUME NEW f \in Funcs, DispatchErrorToClosure(d, f)
       PROVE  ClientKept(c)
    BY <1>15 DEF DispatchErrorToClosure, transportVars, ClientTypeOK
<1> QED
    BY <1>4, <1>5, <1>6, <1>7, <1>8, <1>9, <1>10, <1>11, <1>12, <1>13, <1>14, <1>15
    DEF ClientStep, UserStep, ClientLoopStep

\* For them a client's step is as good as no step.
LEMMA KeptOK ==
    ASSUME TypeOK, TypeOK', NEW c \in Clients, ClientKept(c), UNCHANGED serviceVars,
           ThreadOK(c), AcceptOK(c)
    PROVE  /\ ThreadOK(c)' /\ AcceptOK(c)'
           /\ \A f \in Funcs : CallOK(c, f) => CallOK(c, f)'
<1>1. ThreadOK(c)' /\ NoNewWork(c)
    BY DEF ThreadOK, NoNewWork, ClientKept, Calling, Receiving, is_open
<1>2. AcceptOK(c)'
    BY DEF AcceptOK, ClientKept, serviceVars
<1>3. ASSUME NEW f \in Funcs, CallOK(c, f)
      PROVE  CallOK(c, f)'
  <2>1. CallKept(c, f)
    BY CallTypes, SameInbox DEF CallKept, ClientKept, serviceVars, Held
  <2>2. NotifyKept(c, f)
    BY <1>3 DEF NotifyKept, Untold, ClientKept, CallOK, OutcomeOK
  <2> QED
    BY <1>1, <1>3, <2>1, <2>2, OtherCall
<1> QED
    BY <1>1, <1>2, <1>3

------------------------------------------------------------------------------
(***************************************************************************)
(* The thread of the client that takes a step.                             *)
(***************************************************************************)

\* A result that arrives belongs to the closure in the map, and to an executed
\* call; nothing else stands for that call.
LEMMA ResultBelongs ==
    ASSUME TypeOK, NEW c \in Clients, NEW f \in Funcs, CallOK(c, f), ResultArrived(c, f)
    PROVE  /\ f \in TwoWay /\ f \in InProgress(c)
           /\ Head(inbox[Cli(c)]).id = myClosures[c][f]
           /\ Head(inbox[Cli(c)]).body = "value"
           /\ myClosures[c][f] = LastSent(c, f)
           /\ myClosures[c][f] \in CallId /\ myClosures[c][f] <= Done(c, f)
           /\ ValuesUpTo(Tail(inbox[Cli(c)]), f, Done(c, f))
           /\ Absent(Tail(inbox[Cli(c)]), f) /\ Absent(inbox[Srv(c)], f)
           /\ Held(c, f) = {}
<1> DEFINE s == inbox[Cli(c)]
<1>1. /\ s \in Seq(Message) /\ s # <<>> /\ Head(s).func = f
      /\ Receiving(c)
    BY CallTypes, Ends
    DEF ResultArrived, MessageArrived, LoopRuns, Receiving, TypeOK, TransportTypeOK
<1>2. Head(s) \in ResultMessages
  <2>1. Head(s) \in ResultMessages \cup EventMessages
    BY Inboxes DEF TypeOK, ResultArrived, MessageArrived
  <2> QED
    BY <1>1, <2>1 DEF ResultArrived, EventMessages
<1>3. f \in TwoWay /\ Head(s).id \in CallId
    BY <1>1, <1>2 DEF ResultMessages
<1>4. TokenOK(c, f)
    BY <1>3 DEF CallOK
<1> HIDE DEF s
<1>5. /\ ~Absent(s, f) /\ Absent(Tail(s), f)
      /\ Head(s).id = myClosures[c][f]
      /\ Head(s).id <= Done(c, f) /\ Head(s).body = "value"
      /\ ValuesUpTo(Tail(s), f, Done(c, f))
    BY <1>1, <1>4, TakenOwn DEF TokenOK, CallOK, ExecutionOK, s
<1>6. Absent(inbox[Srv(c)], f) /\ Held(c, f) = {}
    BY <1>4, <1>5 DEF TokenOK, s
<1>7. f \in InProgress(c)
    BY <1>3, <1>5, MessageIds DEF InProgress
<1>8. myClosures[c][f] = LastSent(c, f)
    BY <1>7 DEF CallOK, QueueOK
<1> QED
    BY <1>3, <1>5, <1>6, <1>7, <1>8 DEF s

LEMMA OwnThread ==
    ASSUME TypeOK, NEW c \in Clients, ClientStep(c), ThreadOK(c),
           \A f \in Funcs : CallOK(c, f)
    PROVE  ThreadOK(c)' /\ (Open(c) \/ NoNewWork(c))
<1> USE DEF TypeOK, TransportTypeOK, ClientTypeOK
<1>0. Cli(c) \in End
    BY Ends
<1> USE <1>0 DEF ThreadOK, NoNewWork, Calling, Receiving, is_open
<1>1. /\ StateClosed({Cli(c)})[Cli(c)] = IF is_open(Cli(c)) THEN "CLOSED"
                                                            ELSE myState[Cli(c)]
      /\ ReadsCancelled({Cli(c)})[Cli(c)] =
            IF is_open(Cli(c)) /\ reading[Cli(c)] = "wait" THEN "aborted"
                                                           ELSE reading[Cli(c)]
      /\ LinksDown({c})[c] = FALSE
    BY DEF StateClosed, ReadsCancelled, LinksDown
<1>2. WriteMayFail(Cli(c)) => ~up[c]
    BY Ends DEF WriteMayFail
<1>4. CASE Open(c)
    BY <1>4 DEF Open, UserRuns, clientVars
<1>5. CASE Close(c) \/ Destroy(c)
    BY <1>1, <1>5 DEF Close, Destroy, UserRuns, LoopRuns, clientVars
<1>6. ASSUME NEW f \in Funcs, SendNow(c, f) \/ SendQueued(c, f)
      PROVE  ThreadOK(c)' /\ NoNewWork(c)
    BY <1>6 DEF SendNow, SendQueued, transportVars
<1>7. ASSUME NEW f \in Funcs, SendFails(c, f)
      PROVE  ThreadOK(c)' /\ NoNewWork(c)
    BY <1>1, <1>2, <1>7 DEF SendFails, MaySend
<1>8. ASSUME NEW f \in Funcs, SendOneWay(c, f)
      PROVE  ThreadOK(c)' /\ NoNewWork(c)
    BY <1>1, <1>2, <1>8 DEF SendOneWay, MaySend
<1>9. CASE HandleClientHeader(c) \/ HandlerReturns(c)
    BY <1>9
    DEF HandleClientHeader, HandleHeader, HandlerReturns, ReadNextHeader, ReadStarted,
        LoopRuns, clientVars
<1>10. CASE DispatchEvent(c)
    BY <1>10 DEF DispatchEvent, Received, LoopRuns, MessageArrived
<1>11. CASE HandleClientRecvError(c) \/ HandleClientAborted(c) \/ ClientAssertFails(c)
    BY <1>11
    DEF HandleClientRecvError, HandleClientAborted, ClientAssertFails, Received,
        LoopRuns, clientVars
<1>12. CASE ErrorClosureReturns(c) \/ EndErrors(c)
    BY <1>1, <1>12 DEF ErrorClosureReturns, EndErrors, transportVars
<1>13. ASSUME NEW f \in Funcs, DispatchResult(c, f)
       PROVE  ThreadOK(c)' /\ NoNewWork(c)
  <2>1. f \in InProgress(c)
    BY <1>13, ResultBelongs DEF DispatchResult
  <2> QED
    BY <1>13, <2>1 DEF DispatchResult, Received, ResultArrived, LoopRuns, MessageArrived
<1>14. ASSUME NEW f \in Funcs, DispatchResultAndSendNext(c, f)
       PROVE  ThreadOK(c)' /\ NoNewWork(c)
    BY <1>1, <1>2, <1>14
    DEF DispatchResultAndSendNext, dequeue_call, Received, ResultArrived, LoopRuns,
        MessageArrived
<1>15. ASSUME NEW f \in Funcs, DispatchErrorToClosure(c, f)
       PROVE  ThreadOK(c)' /\ NoNewWork(c)
    BY <1>15 DEF DispatchErrorToClosure, transportVars
<1> QED
    BY <1>4, <1>5, <1>6, <1>7, <1>8, <1>9, <1>10, <1>11, <1>12, <1>13, <1>14, <1>15
    DEF ClientStep, UserStep, ClientLoopStep

\* Opening enters the backlog, and no client's step touches the service's end.
LEMMA OwnAccept ==
    ASSUME TypeOK, NEW c \in Clients, ClientNext(c), AcceptOK(c),
           Open(c) \/ NoNewWork(c)
    PROVE  AcceptOK(c)'
<1>1. myState'[Srv(c)] = myState[Srv(c)] /\ reading'[Srv(c)] = reading[Srv(c)]
      /\ (backlog' = backlog \/ Open(c))
      /\ (myState'[Cli(c)] = "NEW" => myState[Cli(c)] = "NEW")
      /\ (myState[Cli(c)] = "NEW" => myState'[Cli(c)] = "NEW" \/ Open(c))
  <2> USE Ends DEF TypeOK, TransportTypeOK
  <2>1. /\ StateClosed({Cli(c)})[Srv(c)] = myState[Srv(c)]
        /\ ReadsCancelled({Cli(c)})[Srv(c)] = reading[Srv(c)]
        /\ StateClosed({Cli(c)})[Cli(c)] = "NEW" <=> myState[Cli(c)] = "NEW"
    BY DEF StateClosed, ReadsCancelled, is_open
  <2>2. Srv(c) \in End /\ Cli(c) \in End /\ Srv(c) # Cli(c)
    OBVIOUS
  <2>3. CASE UserStep(c)
    BY <2>1, <2>2, <2>3
    DEF UserStep, Open, Close, Destroy, SendNow, SendFails, SendQueued, SendOneWay,
        transportVars
  <2>4. CASE ClientLoopStep(c)
    BY <2>1, <2>2, <2>4
    DEF ClientLoopStep, HandleClientHeader, HandleHeader, DispatchEvent, HandlerReturns,
        ReadNextHeader, HandleClientRecvError, ErrorClosureReturns, EndErrors,
        HandleClientAborted, ClientAssertFails, DispatchResult, Received,
        DispatchResultAndSendNext, dequeue_call, DispatchErrorToClosure,
        transportVars
  <2> QED
    BY <2>3, <2>4 DEF ClientNext, ClientStep
<1>2. CASE Open(c)
    BY <1>1, <1>2, Ends
    DEF Open, ClientNext, AcceptOK, serviceVars, TypeOK, TransportTypeOK
<1>3. CASE NoNewWork(c) /\ ~Open(c)
    BY <1>1, <1>3 DEF ClientNext, AcceptOK, serviceVars, NoNewWork
<1> QED
    BY <1>2, <1>3

------------------------------------------------------------------------------
(***************************************************************************)
(* The calls of the client that takes a step: first the steps that are not *)
(* about a call.                                                           *)
(***************************************************************************)
LEMMA QuietClientSteps ==
    ASSUME TypeOK, TypeOK', NEW c \in Clients, NEW f \in Funcs, CallOK(c, f),
           NoNewWork(c), UNCHANGED serviceVars,
           \/ Close(c) \/ Destroy(c) \/ HandleClientHeader(c) \/ DispatchEvent(c)
           \/ HandlerReturns(c) \/ HandleClientRecvError(c) \/ ErrorClosureReturns(c)
           \/ HandleClientAborted(c) \/ ClientAssertFails(c)
    PROVE  CallOK(c, f)'
<1>1. /\ myClosures'[c][f] = myClosures[c][f] /\ myCallQueue'[c][f] = myCallQueue[c][f]
      /\ issued'[c][f] = issued[c][f] /\ outcome'[c][f] = outcome[c][f]
      /\ inbox'[Srv(c)] = inbox[Srv(c)]
      /\ \/ inbox'[Cli(c)] = inbox[Cli(c)]
         \/ DispatchEvent(c) /\ inbox'[Cli(c)] = Tail(inbox[Cli(c)])
  <2>1. CASE DispatchEvent(c)
    BY <2>1, Ends DEF DispatchEvent, Consumed, TypeOK, TransportTypeOK
  <2>2. CASE ~DispatchEvent(c)
    BY <2>2
    DEF Close, Destroy, HandleClientHeader, HandleHeader, HandlerReturns,
        ReadNextHeader, HandleClientRecvError, ErrorClosureReturns, HandleClientAborted,
        ClientAssertFails, clientVars, transportVars
  <2> QED
    BY <2>1, <2>2
<1>2. CallKept(c, f)
  <2>1. DispatchEvent(c) => Same(inbox[Cli(c)], Tail(inbox[Cli(c)]), f)
    BY CallTypes, SameInbox, Ends, FuncsAssumption
    DEF DispatchEvent, MessageArrived, TypeOK, TransportTypeOK
  <2> QED
    BY <1>1, <2>1, CallTypes, SameInbox DEF CallKept, serviceVars, Held
<1>3. NotifyKept(c, f)
  <2>1. CASE HandleClientRecvError(c)
    BY <2>1 DEF HandleClientRecvError, LoopRuns, NotifyKept, Untold, TypeOK, ClientTypeOK
  <2>2. CASE Destroy(c) \/ DispatchEvent(c) \/ HandlerReturns(c) \/ ClientAssertFails(c)
    BY <2>2
    DEF Destroy, DispatchEvent, HandlerReturns, ClientAssertFails, LoopRuns, NotifyKept, Untold,
        TypeOK, ClientTypeOK
  <2>3. CASE \/ Close(c) \/ HandleClientHeader(c) \/ HandleClientAborted(c)
             \/ ErrorClosureReturns(c)
    BY <2>3
    DEF Close, HandleClientHeader, HandleClientAborted, ErrorClosureReturns, clientVars,
        NotifyKept, Untold, TypeOK, ClientTypeOK, CallOK, OutcomeOK
  <2> QED
    BY <2>1, <2>2, <2>3
<1> QED
    BY <1>2, <1>3, OtherCall

\* open(): there was no call before, so nothing stands for one.
LEMMA OpenCalls ==
    ASSUME TypeOK, TypeOK', NEW c \in Clients, NEW f \in Funcs, CallOK(c, f),
           ThreadOK(c), UNCHANGED serviceVars, Open(c)
    PROVE  CallOK(c, f)'
<1>1. /\ issued[c][f] = 0 /\ myClosures[c][f] = 0 /\ myCallQueue[c][f] = <<>>
      /\ myState[Cli(c)] = "NEW" /\ pc[c] = "idle"
    BY DEF Open, UserRuns, CallOK, QueueOK, InProgress, ThreadOK
<1>2. LastSent(c, f) = 0 /\ Done(c, f) = 0
  <2>0. Len(myCallQueue[c][f]) = 0
    BY <1>1
  <2>1. LastSent(c, f) = 0
    BY <1>1, <2>0, 0 - 0 = 0 DEF LastSent
  <2> QED
    BY <2>1, CallTypes DEF CallOK, ExecutionOK
<1>3. /\ Absent(inbox[Srv(c)], f) /\ Absent(inbox[Cli(c)], f) /\ Held(c, f) = {}
  <2>1. /\ \A i \in DOMAIN inbox[Srv(c)] : inbox[Srv(c)][i].id > 0
        /\ \A i \in DOMAIN inbox[Cli(c)] : inbox[Cli(c)][i].id > 0
        /\ \A h \in Held(c, f) : h.id > 0
    BY CallTypes, MessageIds
  <2>2. /\ InSequence(inbox[Srv(c)], f, 0, 0) /\ ValuesUpTo(inbox[Cli(c)], f, 0)
        /\ \A h \in Held(c, f) : h.id <= 0
    BY <1>2 DEF CallOK, ExecutionOK
  <2>3. \A n \in Nat : n > 0 => ~(n <= 0)
    OBVIOUS
  <2>4. Absent(inbox[Srv(c)], f)
    BY <2>1, <2>2, <2>3, CallTypes, MessageIds DEF InSequence, Absent
  <2>5. Absent(inbox[Cli(c)], f)
    BY <2>1, <2>2, <2>3, CallTypes, MessageIds DEF ValuesUpTo, Absent
  <2>6. Held(c, f) = {}
    BY <2>1, <2>2, CallTypes, MessageIds
  <2> QED
    BY <2>4, <2>5, <2>6
<1>4. /\ UNCHANGED <<inbox, issued, myClosures, myCallQueue, outcome, executed, pc, notify>>
      /\ Held(c, f)' = Held(c, f)
      /\ LastSent(c, f)' = LastSent(c, f) /\ Done(c, f)' = Done(c, f)
      /\ f \notin InProgress(c) /\ f \notin InProgress(c)'
      /\ is_open(Cli(c))'
    BY <1>1, Ends
    DEF Open, clientVars, serviceVars, Held, LastSent, Done, InProgress, is_open,
        TypeOK, TransportTypeOK
<1>5. QueueOK(c, f)'
    BY <1>1, <1>4 DEF CallOK, QueueOK, is_open
<1>6. ExecutionOK(c, f)'
  <2>1. Complete(inbox[Srv(c)], f, 0, 0)
    BY MessageIds DEF Complete
  <2> QED
    BY <1>2, <1>4, <2>1 DEF CallOK, ExecutionOK
<1>7. OutcomeOK(c, f)'
  <2>1. \A m \in CallId : ~(m <= 0)
    BY MessageIds
  <2> QED
    BY <1>1, <1>2, <1>4, <2>1 DEF CallOK, OutcomeOK, Untold
<1>8. TokenOK(c, f)'
    BY <1>3, <1>4 DEF TokenOK, Absent, Single, AllOf
<1> QED
    BY <1>5, <1>6, <1>7, <1>8 DEF CallOK

------------------------------------------------------------------------------
(***************************************************************************)
(* send_call.                                                              *)
(***************************************************************************)

\* The number of the next call, and its message.
LEMMA NextCall ==
    ASSUME TypeOK, NEW c \in Clients, NEW f \in Funcs, MaySend(c, f)
    PROVE  /\ issued[c][f] \in Nat /\ NextId(c, f) \in CallId
           /\ NextId(c, f) = issued[c][f] + 1
           /\ serialize_call(f, NextId(c, f)) \in Message
           /\ serialize_call(f, NextId(c, f)).func = f
<1>1. issued[c][f] \in Nat /\ NextId(c, f) \in CallId /\ NextId(c, f) = issued[c][f] + 1
    BY CallTypes, BoundsAssumption DEF MaySend, NextId, CallId
<1> QED
    BY <1>1 DEF serialize_call, Message, CallMessages

\* The outcomes of calls 1..last, after the next one is made.
LEMMA NewOutcome ==
    ASSUME NEW o \in [CallId -> Outcomes], NEW last \in Nat, NEW n \in CallId,
           n = last + 1, NEW told, told # "value", NEW p, p = [o EXCEPT ![n] = told],
           \A k \in CallId : k > last => o[k] = "none",
           \A m, k \in CallId : m < k /\ o[k] = "value" => o[m] = "value"
    PROVE  /\ p[n] = told
           /\ \A k \in CallId : /\ k > n => p[k] = "none"
                                /\ k # n => p[k] = o[k]
                                /\ k < n => k <= last /\ p[k] = o[k]
           /\ \A m, k \in CallId : m < k /\ p[k] = "value" => p[m] = "value"
<1>1. \A k \in CallId : k \in Nat
    BY MessageIds
<1>2. /\ p[n] = told
      /\ \A k \in CallId : k # n => p[k] = o[k]
    OBVIOUS
<1>3. \A k \in CallId : /\ k > n => p[k] = "none"
                        /\ k < n => k <= last /\ p[k] = o[k]
    BY <1>1, <1>2
<1>4. ASSUME NEW m \in CallId, NEW k \in CallId, m < k, p[k] = "value"
      PROVE  p[m] = "value"
  <2>1. k # n /\ o[k] = "value" /\ ~(k > last)
    BY <1>2, <1>4
  <2>2. m # n
    BY <1>1, <1>4, <2>1
  <2> QED
    BY <1>2, <1>4, <2>1, <2>2
<1> QED
    BY <1>2, <1>3, <1>4

\* The same for the next call of f by c.
LEMMA MadeOutcome ==
    ASSUME TypeOK, NEW c \in Clients, NEW f \in Funcs, OutcomeOK(c, f), MaySend(c, f),
           NEW told \in {"open", "error"},
           outcome'[c][f] = [outcome[c][f] EXCEPT ![NextId(c, f)] = told]
    PROVE  /\ outcome'[c][f][NextId(c, f)] = told
           /\ \A k \in CallId :
                 /\ k > NextId(c, f) => outcome'[c][f][k] = "none"
                 /\ outcome'[c][f][k] \notin {"wrong", "in_progress"}
                 /\ k < NextId(c, f) => /\ k <= issued[c][f]
                                        /\ outcome'[c][f][k] = outcome[c][f][k]
           /\ \A m, k \in CallId :
                 m < k /\ outcome'[c][f][k] = "value" => outcome'[c][f][m] = "value"
<1> DEFINE o == outcome[c][f]
           p == outcome'[c][f]
           last == issued[c][f]
           n == NextId(c, f)
<1>1. /\ o \in [CallId -> Outcomes] /\ last \in Nat /\ n \in CallId /\ n = last + 1
      /\ p = [o EXCEPT ![n] = told] /\ told # "value"
    BY CallTypes, NextCall
<1>2. /\ \A k \in CallId : k > last => o[k] = "none"
      /\ \A k \in CallId : o[k] \notin {"wrong", "in_progress"}
      /\ \A m, k \in CallId : m < k /\ o[k] = "value" => o[m] = "value"
    BY DEF OutcomeOK, Untold
<1> HIDE DEF o, p, last, n
<1>3. /\ p[n] = told
      /\ \A k \in CallId : /\ k > n => p[k] = "none"
                           /\ k # n => p[k] = o[k]
                           /\ k < n => k <= last /\ p[k] = o[k]
      /\ \A m, k \in CallId : m < k /\ p[k] = "value" => p[m] = "value"
    BY <1>1, <1>2, NewOutcome
<1>4. \A k \in CallId : p[k] \notin {"wrong", "in_progress"}
    BY <1>2, <1>3
<1> QED
    BY <1>3, <1>4 DEF o, p, last, n

\* What send_call finds: the queue is empty unless a call is in progress, and when
\* none is and the client works, nothing of an earlier call is left.
LEMMA BeforeSend ==
    ASSUME TypeOK, NEW c \in Clients, NEW f \in Funcs, CallOK(c, f), ThreadOK(c),
           MaySend(c, f), f \notin InProgress(c)
    PROVE  /\ myClosures[c][f] = 0 /\ myCallQueue[c][f] = <<>>
           /\ LastSent(c, f) = issued[c][f] /\ issued[c][f] \in Nat
           /\ NextId(c, f) \in CallId /\ NextId(c, f) = issued[c][f] + 1
           /\ up[c] => Calling(c)
           /\ Receiving(c) => Calling(c)
           /\ Calling(c) => Receiving(c)
           /\ Receiving(c) /\ f \in TwoWay =>
                 /\ Absent(inbox[Srv(c)], f) /\ Absent(inbox[Cli(c)], f)
                 /\ Held(c, f) = {}
<1>1. myClosures[c][f] = 0 /\ myCallQueue[c][f] = <<>>
    BY DEF InProgress, MaySend, CallOK, QueueOK
<1>2. issued[c][f] \in Nat /\ NextId(c, f) \in CallId /\ NextId(c, f) = issued[c][f] + 1
    BY CallTypes, BoundsAssumption DEF MaySend, NextId, CallId
<1>3. LastSent(c, f) = issued[c][f]
  <2>1. Len(myCallQueue[c][f]) = 0
    BY <1>1
  <2> QED
    BY <1>2, <2>1 DEF LastSent
<1>4. /\ up[c] => Calling(c)
      /\ Receiving(c) => Calling(c)
      /\ Calling(c) => Receiving(c)
    BY DEF ThreadOK, Receiving, Calling, MaySend
<1>5. ASSUME Receiving(c), f \in TwoWay
      PROVE  /\ Absent(inbox[Srv(c)], f) /\ Absent(inbox[Cli(c)], f)
             /\ Held(c, f) = {}
  <2>1. /\ AllOf(inbox[Srv(c)], f, 0) /\ AllOf(inbox[Cli(c)], f, 0)
        /\ \A h \in Held(c, f) : h.id = 0
    BY <1>1, <1>5 DEF CallOK, TokenOK
  <2>2. Held(c, f) = {}
    BY <2>1, CallTypes, MessageIds
  <2> QED
    BY <2>1, <2>2, CallTypes, Monotone
<1> QED
    BY <1>1, <1>2, <1>3, <1>4, <1>5

\* A call that is written reaches the service over a connection that is up.
LEMMA CallWritten ==
    ASSUME TypeOK, NEW c \in Clients, NEW m
    PROVE  /\ Written(inbox, Cli(c), m)[Cli(c)] = inbox[Cli(c)]
           /\ Written(inbox, Cli(c), m)[Srv(c)] =
                 IF up[c] THEN Append(inbox[Srv(c)], m) ELSE inbox[Srv(c)]
BY Ends DEF Written, TypeOK, TransportTypeOK

\* The call that is written next continues those on their way.
LEMMA CallAppended ==
    ASSUME TypeOK, NEW c \in Clients, NEW f \in Funcs, ExecutionOK(c, f),
           NEW n \in CallId, n = LastSent(c, f) + 1, NEW t,
           t = IF up[c] THEN Append(inbox[Srv(c)], serialize_call(f, n))
                        ELSE inbox[Srv(c)]
    PROVE  /\ InSequence(t, f, Done(c, f), n)
           /\ up[c] => Complete(t, f, Done(c, f), n)
           /\ up[c] => ~Absent(t, f)
           /\ Absent(inbox[Srv(c)], f) => Single(t, f) /\ AllOf(t, f, n)
           /\ ~up[c] => t = inbox[Srv(c)]
<1> DEFINE s == inbox[Srv(c)]
           m == serialize_call(f, n)
<1>1. /\ m \in Message /\ m.func = f /\ m.id = n
      /\ s \in Seq(Message)
    BY CallTypes DEF serialize_call, Message, CallMessages
<1>2. /\ InSequence(s, f, Done(c, f), LastSent(c, f))
      /\ up[c] => Complete(s, f, Done(c, f), LastSent(c, f))
      /\ Done(c, f) <= LastSent(c, f)
      /\ Done(c, f) \in Nat /\ LastSent(c, f) \in Nat
    BY CallTypes DEF ExecutionOK
<1>3. /\ LastSent(c, f) + 1 = n /\ LastSent(c, f) <= n
      /\ n \in Int /\ LastSent(c, f) \in Int /\ Done(c, f) \in Int
    BY <1>2
<1> HIDE DEF m, s
<1>4. CASE up[c]
  <2>1. t = Append(s, m)
    BY <1>4 DEF m, s
  <2>2. InSequence(t, f, Done(c, f), n) /\ Complete(t, f, Done(c, f), n)
    BY <1>1, <1>2, <1>3, <1>4, <2>1, AppendedOwn
  <2>3. /\ ~Absent(t, f)
        /\ Absent(s, f) => Single(t, f) /\ AllOf(t, f, n)
    BY <1>1, <2>1, AppendedOwn
  <2> QED
    BY <1>4, <2>2, <2>3 DEF s
<1>5. CASE ~up[c]
  <2>1. t = s
    BY <1>5 DEF s
  <2>2. InSequence(t, f, Done(c, f), n)
    <3>1. \A done, k, last \in Int :
              InSequence(s, f, done, k) /\ k <= last => InSequence(s, f, done, last)
      BY <1>1, Monotone
    <3> QED
      BY <1>2, <1>3, <2>1, <3>1
  <2>3. Absent(s, f) => Single(t, f) /\ AllOf(t, f, n)
    BY <2>1 DEF Absent, Single, AllOf
  <2> QED
    BY <1>5, <2>1, <2>2, <2>3 DEF s
<1> QED
    BY <1>4, <1>5

\* A closure for g is put into myClosures.  Entries that the loop of
\* dispatch_connection_error stands before are entries of the map; with few
\* functions none of those it has visited is visited again.
LEMMA ClosureAdded ==
    ASSUME TypeOK, NEW c \in Clients, NEW g \in Funcs, SendNow(c, g),
           \A h \in Funcs : CallOK(c, h), NEW f \in Funcs, f # g
    PROVE  NotifyKept(c, f)
<1>1. /\ pc' = pc /\ g \in TwoWay
      /\ \E visited \in IF pc[c] = "errcall" THEN StillVisited(c, g) ELSE {notify[c]} :
            notify'[c] = visited
    BY DEF SendNow, NotifyAdded, TypeOK, ClientTypeOK
<1>2. ASSUME pc[c] \in {"errors", "errcall"}, f \in notify'[c]
      PROVE  f \in InProgress(c)
  <2>1. f \in notify[c] => f \in InProgress(c)
    BY <1>2 DEF CallOK, OutcomeOK
  <2> QED
    BY <1>1, <1>2, <2>1 DEF StillVisited
<1>3. ASSUME FewFunctions
      PROVE  ~MayRehash(c, g)
  <2>1. InProgress(c) \cup {g} \subseteq TwoWay
    BY <1>1 DEF CallOK, QueueOK, InProgress, TwoWay
  <2>2. Cardinality(InProgress(c) \cup {g}) <= Cardinality(TwoWay)
    BY <1>3, <2>1, FS_Subset DEF FewFunctions
  <2>3. /\ Cardinality(TwoWay) \in Nat
        /\ Cardinality(InProgress(c) \cup {g}) \in Nat
    BY <1>3, <2>1, FS_Subset, FS_CardinalityType DEF FewFunctions
  <2> QED
    BY <1>3, <2>2, <2>3 DEF FewFunctions, MayRehash, ClosureBuckets
<1>4. FewFunctions /\ f \in notify'[c] => f \in notify[c]
    BY <1>1, <1>3 DEF StillVisited
<1> QED
    BY <1>1, <1>2, <1>4 DEF NotifyKept, Untold

LEMMA SendNowCalls ==
    ASSUME TypeOK, TypeOK', NEW c \in Clients, NEW g \in Funcs, SendNow(c, g),
           \A h \in Funcs : CallOK(c, h),
           NEW f \in Funcs, CallOK(c, f), ThreadOK(c), NoNewWork(c),
           UNCHANGED serviceVars
    PROVE  CallOK(c, f)'
<1> DEFINE n == NextId(c, g)
<1>1. MaySend(c, g) /\ g \in TwoWay /\ g \notin InProgress(c)
    BY DEF SendNow
<1>2. /\ inbox'[Cli(c)] = inbox[Cli(c)]
      /\ inbox'[Srv(c)] = IF up[c] THEN Append(inbox[Srv(c)], serialize_call(g, n))
                                   ELSE inbox[Srv(c)]
    BY CallWritten DEF SendNow
<1>3. /\ Held(c, f)' = Held(c, f) /\ executed' = executed /\ Done(c, f)' = Done(c, f)
      /\ up' = up /\ pc' = pc /\ myState' = myState /\ reading' = reading
      /\ myCallQueue' = myCallQueue
      /\ Receiving(c)' = Receiving(c) /\ Calling(c)' = Calling(c)
    BY DEF SendNow, serviceVars, Held, Done, Receiving, Calling, is_open
<1>4. CASE f # g
  <2>1. CallKept(c, f)
    <3>1. serialize_call(g, n) \in Message /\ serialize_call(g, n).func = g
      BY <1>1, NextCall
    <3>2. /\ Same(inbox[Srv(c)], inbox'[Srv(c)], f)
          /\ Same(inbox[Cli(c)], inbox'[Cli(c)], f)
      BY <1>2, <1>4, <3>1, CallTypes, SameInbox
    <3> QED
      BY <1>3, <1>4, <3>2 DEF CallKept, SendNow, CallIssued, TypeOK, ClientTypeOK
  <2>2. NotifyKept(c, f)
    BY <1>4, ClosureAdded
  <2> QED
    BY <2>1, <2>2, OtherCall
<1>5. CASE f = g
  <2>1. /\ myClosures[c][f] = 0 /\ myCallQueue[c][f] = <<>>
        /\ LastSent(c, f) = issued[c][f] /\ issued[c][f] \in Nat
        /\ n \in CallId /\ n = issued[c][f] + 1
        /\ up[c] => Calling(c)
        /\ Receiving(c) => Calling(c)
        /\ Calling(c) => Receiving(c)
        /\ Receiving(c) => /\ Absent(inbox[Srv(c)], f) /\ Absent(inbox[Cli(c)], f)
                           /\ Held(c, f) = {}
    BY <1>1, <1>5, BeforeSend
  <2>2. /\ issued'[c][f] = n /\ myClosures'[c][f] = n
        /\ outcome'[c][f] = [outcome[c][f] EXCEPT ![n] = "open"]
        /\ is_open(Cli(c)) /\ is_open(Cli(c))'
    BY <1>1, <1>5, <2>1
    DEF SendNow, CallIssued, MaySend, is_open, TypeOK, ClientTypeOK
  <2> HIDE DEF n
  <2>3. LastSent(c, f)' = n /\ f \in InProgress(c)' /\ n \in Nat /\ n > 0
    <3>1. Len(myCallQueue'[c][f]) = 0
      BY <1>3, <2>1
    <3> QED
      BY <2>1, <2>2, <3>1 DEF LastSent, InProgress
  <2>4. /\ InSequence(inbox'[Srv(c)], f, Done(c, f), n)
        /\ up[c] => Complete(inbox'[Srv(c)], f, Done(c, f), n)
        /\ up[c] => ~Absent(inbox'[Srv(c)], f)
        /\ Absent(inbox[Srv(c)], f) =>
              Single(inbox'[Srv(c)], f) /\ AllOf(inbox'[Srv(c)], f, n)
        /\ ~up[c] => inbox'[Srv(c)] = inbox[Srv(c)]
    BY <1>2, <1>5, <2>1, CallAppended DEF CallOK
  <2>5. QueueOK(c, f)'
    BY <1>1, <1>3, <1>5, <2>1, <2>2, <2>3 DEF QueueOK, is_open, TwoWay
  <2>6. ExecutionOK(c, f)'
    <3>1. Done(c, f) <= n
      BY <2>1, CallTypes DEF CallOK, ExecutionOK
    <3> QED
      BY <1>2, <1>3, <2>3, <2>4, <3>1 DEF CallOK, ExecutionOK
  <2>7. OutcomeOK(c, f)'
    <3>1. Calling(c) => \A m \in CallId : m <= issued[c][f] => outcome[c][f][m] = "value"
      BY <1>1, <1>5, <2>1 DEF CallOK, OutcomeOK, Untold
    <3>3. /\ outcome'[c][f][n] = "open"
          /\ \A k \in CallId : /\ k > n => outcome'[c][f][k] = "none"
                               /\ outcome'[c][f][k] \notin {"wrong", "in_progress"}
                               /\ k < n => /\ k <= issued[c][f]
                                           /\ outcome'[c][f][k] = outcome[c][f][k]
          /\ \A m, k \in CallId :
                m < k /\ outcome'[c][f][k] = "value" => outcome'[c][f][m] = "value"
      BY <1>1, <1>5, <2>2, MadeOutcome DEF CallOK, n
    <3>4. \A k \in CallId : ~(n < k /\ k <= n)
      BY <2>1, MessageIds
    <3>5. Receiving(c) => \A m \in CallId : m < n => outcome'[c][f][m] = "value"
      BY <2>1, <3>1, <3>3
    <3> QED
      BY <1>3, <2>2, <2>3, <3>3, <3>4, <3>5 DEF OutcomeOK, Untold
  <2>8. TokenOK(c, f)'
    <3>1. TokenOK(c, f)
      BY <1>1, <1>5 DEF CallOK
    <3>2. CASE up[c]
      <4>1. Receiving(c) /\ Single(inbox'[Cli(c)], f) /\ AllOf(inbox'[Cli(c)], f, n)
        BY <1>2, <2>1, <3>2 DEF Absent, Single, AllOf
      <4> QED
        BY <1>2, <1>3, <2>1, <2>2, <2>4, <3>2, <4>1 DEF TokenOK
    <3>3. CASE ~up[c]
      <4>1. inbox'[Srv(c)] = inbox[Srv(c)] /\ ~up'[c]
        BY <1>3, <2>4, <3>3
      <4>2. Receiving(c) => AllOf(inbox[Srv(c)], f, n) /\ AllOf(inbox[Cli(c)], f, n)
        BY <2>1 DEF Absent, AllOf
      <4> QED
        BY <1>2, <1>3, <2>1, <2>2, <3>1, <4>1, <4>2 DEF TokenOK
    <3> QED
      BY <3>2, <3>3
  <2> QED
    BY <2>5, <2>6, <2>7, <2>8 DEF CallOK
<1> QED
    BY <1>4, <1>5

LEMMA SendFailsCalls ==
    ASSUME TypeOK, TypeOK', NEW c \in Clients, NEW g \in Funcs, SendFails(c, g),
           NEW f \in Funcs, CallOK(c, f), ThreadOK(c), NoNewWork(c),
           UNCHANGED serviceVars
    PROVE  CallOK(c, f)'
<1> DEFINE n == NextId(c, g)
<1>1. MaySend(c, g) /\ g \in TwoWay /\ g \notin InProgress(c) /\ ~up[c]
    BY Ends DEF SendFails, WriteMayFail
<1>2. /\ Held(c, f)' = Held(c, f) /\ executed' = executed /\ Done(c, f)' = Done(c, f)
      /\ inbox' = inbox /\ up' = up /\ pc' = pc /\ notify' = notify
      /\ myCallQueue' = myCallQueue /\ myClosures' = myClosures
      /\ myState'[Cli(c)] = "CLOSED"
    BY Ends
    DEF SendFails, serviceVars, Held, Done, StateClosed, MaySend
<1>3. CASE f # g
  <2>1. CallKept(c, f)
    BY <1>2, <1>3, CallTypes, SameInbox
    DEF CallKept, SendFails, CallIssued, TypeOK, ClientTypeOK
  <2>2. NotifyKept(c, f)
    BY <1>2 DEF NotifyKept, CallOK, OutcomeOK, Untold
  <2> QED
    BY <2>1, <2>2, OtherCall
<1>4. CASE f = g
  <2>1. /\ myClosures[c][f] = 0 /\ myCallQueue[c][f] = <<>>
        /\ LastSent(c, f) = issued[c][f] /\ issued[c][f] \in Nat
        /\ n \in CallId /\ n = issued[c][f] + 1
    BY <1>1, <1>4, BeforeSend
  <2>2. /\ issued'[c][f] = n
        /\ outcome'[c][f] = [outcome[c][f] EXCEPT ![n] = "error"]
    BY <1>1, <1>4, <2>1 DEF SendFails, CallIssued, TypeOK, ClientTypeOK
  <2>3. LastSent(c, f)' = n /\ f \notin InProgress(c)'
    <3>1. Len(myCallQueue'[c][f]) = 0
      BY <1>2, <2>1
    <3> QED
      BY <1>2, <2>1, <2>2, <3>1 DEF LastSent, InProgress
  <2>4. ~is_open(Cli(c))' /\ ~Calling(c)'
    BY <1>2 DEF Calling, is_open
  <2>5. QueueOK(c, f)'
    BY <1>1, <1>2, <1>4, <2>1, <2>3 DEF QueueOK, TwoWay
  <2>6. ExecutionOK(c, f)'
    <3>1. /\ InSequence(inbox[Srv(c)], f, Done(c, f), n) /\ Done(c, f) <= n
      <4>1. /\ \A done, k, last \in Int : InSequence(inbox[Srv(c)], f, done, k) /\ k <= last
                 => InSequence(inbox[Srv(c)], f, done, last)
        BY CallTypes, Monotone
      <4>2. Done(c, f) \in Int /\ n \in Int /\ LastSent(c, f) \in Int /\ LastSent(c, f) <= n
        BY <2>1, CallTypes
      <4>3. InSequence(inbox[Srv(c)], f, Done(c, f), n)
        BY <4>1, <4>2 DEF CallOK, ExecutionOK
      <4> QED
        BY <4>2, <4>3 DEF CallOK, ExecutionOK
    <3> QED
      BY <1>1, <1>2, <2>3, <3>1 DEF CallOK, ExecutionOK
  <2>7. OutcomeOK(c, f)'
    <3>1. /\ \A k \in CallId : /\ k > n => outcome'[c][f][k] = "none"
                               /\ outcome'[c][f][k] \notin {"wrong", "in_progress"}
          /\ \A m, k \in CallId :
                m < k /\ outcome'[c][f][k] = "value" => outcome'[c][f][m] = "value"
      BY <1>1, <1>4, <2>2, MadeOutcome DEF CallOK
    <3>2. \A k \in CallId : ~(n < k /\ k <= n)
      BY <2>1, MessageIds
    <3>3. ~(f \in notify[c] /\ pc[c] \in {"errors", "errcall"})
      BY <1>1, <1>4 DEF CallOK, OutcomeOK, Untold
    <3> QED
      BY <1>2, <2>2, <2>3, <2>4, <3>1, <3>2, <3>3 DEF OutcomeOK, Untold
  <2>8. TokenOK(c, f)'
    BY <1>1, <1>2, <1>4 DEF CallOK, TokenOK, NoNewWork
  <2> QED
    BY <2>5, <2>6, <2>7, <2>8 DEF CallOK
<1> QED
    BY <1>3, <1>4

LEMMA SendQueuedCalls ==
    ASSUME TypeOK, TypeOK', NEW c \in Clients, NEW g \in Funcs, SendQueued(c, g),
           NEW f \in Funcs, CallOK(c, f), ThreadOK(c), NoNewWork(c),
           UNCHANGED serviceVars
    PROVE  CallOK(c, f)'
<1> DEFINE n == NextId(c, g)
<1>1. MaySend(c, g) /\ g \in TwoWay /\ g \in InProgress(c)
    BY DEF SendQueued
<1>2. /\ Held(c, f)' = Held(c, f) /\ executed' = executed /\ Done(c, f)' = Done(c, f)
      /\ inbox' = inbox /\ up' = up /\ pc' = pc /\ notify' = notify
      /\ myClosures' = myClosures /\ myState' = myState
      /\ Receiving(c)' = Receiving(c) /\ Calling(c)' = Calling(c)
      /\ InProgress(c)' = InProgress(c)
    BY DEF SendQueued, serviceVars, transportVars, Held, Done, Receiving, Calling, is_open,
        InProgress
<1>3. CASE f # g
  <2>1. CallKept(c, f)
    BY <1>2, <1>3, CallTypes, SameInbox
    DEF CallKept, SendQueued, CallIssued, TypeOK, ClientTypeOK
  <2>2. NotifyKept(c, f)
    BY <1>2 DEF NotifyKept, CallOK, OutcomeOK, Untold
  <2> QED
    BY <2>1, <2>2, OtherCall
<1>4. CASE f = g
  <2> DEFINE q == myCallQueue[c][f]
             last == LastSent(c, f)
  <2>1. /\ issued[c][f] \in Nat /\ n \in CallId /\ n = issued[c][f] + 1
        /\ q \in Seq(CallId) /\ Len(q) \in Nat /\ last \in Int
        /\ last + Len(q) = issued[c][f] /\ last < n
    BY <1>1, <1>4, NextCall, CallTypes DEF LastSent
  <2>2. /\ issued'[c][f] = n
        /\ outcome'[c][f] = [outcome[c][f] EXCEPT ![n] = "open"]
        /\ myCallQueue'[c][f] = Append(q, n)
    BY <1>1, <1>4, <2>1
    DEF SendQueued, enqueue_call, CallIssued, TypeOK, ClientTypeOK
  <2>3. myClosures[c][f] = last /\ last \in CallId /\ f \in InProgress(c)
    BY <1>1, <1>4, CallTypes, BoundsAssumption DEF CallOK, QueueOK, InProgress, CallId
  <2> HIDE DEF n
  <2>4. /\ Len(Append(q, n)) = Len(q) + 1 /\ DOMAIN Append(q, n) = 1..(Len(q) + 1)
        /\ \A i \in 1..Len(q) : Append(q, n)[i] = q[i]
        /\ Append(q, n)[Len(q) + 1] = n
        /\ DOMAIN q = 1..Len(q)
    BY <2>1, AppendProperties
  <2> HIDE DEF q, last
  <2>5. LastSent(c, f)' = last
    BY <2>1, <2>2, <2>4 DEF LastSent
  <2>6. QueueOK(c, f)'
    <3>1. \A i \in 1..Len(q) : q[i] = last + i
      BY <2>4 DEF CallOK, QueueOK, q, last
    <3>2. \A i \in DOMAIN Append(q, n) : Append(q, n)[i] = last + i
      BY <2>1, <2>4, <3>1
    <3> QED
      BY <1>1, <1>2, <1>4, <2>2, <2>3, <2>5, <3>2
      DEF QueueOK, MaySend, is_open, TwoWay
  <2>7. ExecutionOK(c, f)'
    BY <1>2, <2>5 DEF CallOK, ExecutionOK, last
  <2>8. OutcomeOK(c, f)'
    <3>1. /\ outcome'[c][f][n] = "open"
          /\ \A k \in CallId : /\ k > n => outcome'[c][f][k] = "none"
                               /\ outcome'[c][f][k] \notin {"wrong", "in_progress"}
                               /\ k < n => /\ k <= issued[c][f]
                                           /\ outcome'[c][f][k] = outcome[c][f][k]
          /\ \A m, k \in CallId :
                m < k /\ outcome'[c][f][k] = "value" => outcome'[c][f][m] = "value"
      BY <1>1, <1>4, <2>2, MadeOutcome DEF CallOK, n
    <3>2. \A k \in CallId : last < k /\ k <= n => outcome'[c][f][k] = "open"
      <4>1. \A k \in CallId : last < k /\ k <= issued[c][f] => outcome[c][f][k] = "open"
        BY <1>1, <1>4 DEF CallOK, OutcomeOK, Untold, last
      <4>2. \A k \in CallId : k <= n => k = n \/ k < n
        BY <2>1, MessageIds
      <4> QED
        BY <3>1, <4>1, <4>2
    <3>3. outcome'[c][f][last] = outcome[c][f][last]
      BY <2>1, <2>3, <3>1
    <3>4. Receiving(c) => \A m \in CallId : m < last => outcome'[c][f][m] = "value"
      <4>0. last \in Int /\ n \in Int /\ last < n /\ \A m \in CallId : m \in Int
        BY <2>1, MessageIds
      <4>1. \A m \in CallId : m < last => m < n
        BY <4>0
      <4>2. Receiving(c) => \A m \in CallId : m < last => outcome[c][f][m] = "value"
        BY <2>3 DEF CallOK, OutcomeOK
      <4> QED
        BY <3>1, <4>1, <4>2
    <3> QED
      BY <1>2, <2>2, <2>3, <2>5, <3>1, <3>2, <3>3, <3>4 DEF CallOK, OutcomeOK, Untold
  <2>9. TokenOK(c, f)'
    BY <1>1, <1>2, <1>4 DEF CallOK, TokenOK
  <2> QED
    BY <2>6, <2>7, <2>8, <2>9 DEF CallOK
<1> QED
    BY <1>3, <1>4

LEMMA SendOneWayCalls ==
    ASSUME TypeOK, TypeOK', NEW c \in Clients, NEW g \in Funcs, SendOneWay(c, g),
           NEW f \in Funcs, CallOK(c, f), ThreadOK(c), NoNewWork(c),
           UNCHANGED serviceVars
    PROVE  CallOK(c, f)'
<1> DEFINE n == NextId(c, g)
<1>1. MaySend(c, g) /\ g \in OneWay
    BY DEF SendOneWay
<1>2. /\ Held(c, f)' = Held(c, f) /\ executed' = executed /\ Done(c, f)' = Done(c, f)
      /\ up' = up /\ pc' = pc /\ notify' = notify /\ outcome' = outcome
      /\ myCallQueue' = myCallQueue /\ myClosures' = myClosures
    BY DEF SendOneWay, serviceVars, Held, Done
<1>3. /\ inbox'[Cli(c)] = inbox[Cli(c)]
      /\ \/ inbox'[Srv(c)] = IF up[c] THEN Append(inbox[Srv(c)], serialize_call(g, n))
                                      ELSE inbox[Srv(c)]
         \/ inbox'[Srv(c)] = inbox[Srv(c)] /\ ~up[c]
  <2>1. CASE inbox' = Written(inbox, Cli(c), serialize_call(g, n))
    BY <2>1, CallWritten
  <2>2. CASE WriteMayFail(Cli(c)) /\ UNCHANGED inbox
    BY <2>2, Ends DEF WriteMayFail
  <2> QED
    BY <2>1, <2>2 DEF SendOneWay
<1>4. CASE f # g
  <2>1. CallKept(c, f)
    <3>1. serialize_call(g, n) \in Message /\ serialize_call(g, n).func = g
      BY <1>1, NextCall
    <3>2. /\ Same(inbox[Srv(c)], inbox'[Srv(c)], f)
          /\ Same(inbox[Cli(c)], inbox'[Cli(c)], f)
      BY <1>3, <1>4, <3>1, CallTypes, SameInbox
    <3> QED
      BY <1>2, <1>4, <3>2 DEF CallKept, SendOneWay, CallIssued, TypeOK, ClientTypeOK
  <2>2. NotifyKept(c, f)
    BY <1>2 DEF NotifyKept, CallOK, OutcomeOK, Untold
  <2> QED
    BY <2>1, <2>2, OtherCall
<1>5. CASE f = g
  <2>1. f \notin InProgress(c) /\ f \notin TwoWay
    BY <1>1, <1>5 DEF CallOK, QueueOK, TwoWay
  <2>2. /\ myClosures[c][f] = 0 /\ myCallQueue[c][f] = <<>>
        /\ LastSent(c, f) = issued[c][f] /\ issued[c][f] \in Nat
        /\ n \in CallId /\ n = issued[c][f] + 1
    BY <1>1, <1>5, <2>1, BeforeSend
  <2>3. issued'[c][f] = n /\ myState[Cli(c)] = "OPEN"
    BY <1>1, <1>5, <2>2 DEF SendOneWay, CallIssued, MaySend, is_open, TypeOK, ClientTypeOK
  <2> HIDE DEF n
  <2>4. LastSent(c, f)' = n /\ f \notin InProgress(c)'
    <3>1. Len(myCallQueue'[c][f]) = 0
      BY <1>2, <2>2
    <3> QED
      BY <1>2, <2>2, <2>3, <3>1 DEF LastSent, InProgress
  <2>5. QueueOK(c, f)'
    BY <1>2, <2>2, <2>3, <2>4 DEF QueueOK, NoNewWork
  <2>6. ExecutionOK(c, f)'
    <3>1. Done(c, f) <= n
      BY <2>2, CallTypes DEF CallOK, ExecutionOK
    <3>2. /\ InSequence(inbox'[Srv(c)], f, Done(c, f), n)
          /\ up[c] => Complete(inbox'[Srv(c)], f, Done(c, f), n)
      BY <1>3, <1>5, <2>2, CallAppended DEF CallOK
    <3> QED
      BY <1>2, <1>3, <2>4, <3>1, <3>2 DEF CallOK, ExecutionOK
  <2>7. OutcomeOK(c, f)'
    <3>1. \A k \in CallId : k > n => k > issued[c][f]
      BY <2>2, MessageIds
    <3>2. ~(f \in notify[c] /\ pc[c] \in {"errors", "errcall"})
      BY <2>1 DEF CallOK, OutcomeOK, Untold
    <3> QED
      BY <1>2, <2>1, <2>3, <2>4, <3>1, <3>2 DEF CallOK, OutcomeOK, Untold
  <2> QED
    BY <2>1, <2>5, <2>6, <2>7 DEF CallOK
<1> QED
    BY <1>4, <1>5

------------------------------------------------------------------------------
(***************************************************************************)
(* dispatch_result and dispatch_connection_error.                          *)
(***************************************************************************)

\* The closure of a call that has no value is given one, or an error.
LEMMA ToldOutcome ==
    ASSUME NEW o \in [CallId -> Outcomes], NEW n \in CallId, o[n] # "value", NEW told, NEW p,
           p = [o EXCEPT ![n] = told],
           \A m, k \in CallId : m < k /\ o[k] = "value" => o[m] = "value",
           \/ told \in {"error", "again"}
           \/ told = "value" /\ \A m \in CallId : m < n => o[m] = "value"
    PROVE  /\ p[n] = told
           /\ \A k \in CallId : k # n => p[k] = o[k]
           /\ \A m, k \in CallId : m < k /\ p[k] = "value" => p[m] = "value"
           /\ told = "value" => \A m \in CallId : m <= n => p[m] = "value"
<1>1. \A k \in CallId : k \in Nat
    BY MessageIds
<1>2. p[n] = told /\ \A k \in CallId : k # n => p[k] = o[k]
    OBVIOUS
<1>3. ASSUME NEW m \in CallId, NEW k \in CallId, m < k, p[k] = "value"
      PROVE  p[m] = "value"
  <2>1. CASE k = n
    BY <1>1, <1>2, <1>3, <2>1
  <2>2. CASE k # n
    BY <1>2, <1>3, <2>2
  <2> QED
    BY <2>1, <2>2
<1>4. ASSUME told = "value", NEW m \in CallId, m <= n
      PROVE  p[m] = "value"
  <2>1. m = n \/ m < n
    BY <1>1, <1>4
  <2> QED
    BY <1>2, <1>4, <2>1
<1> QED
    BY <1>2, <1>3, <1>4

\* The result of the call in progress: its closure learns the value, and so did
\* those of all calls before it.
LEMMA ResultTold ==
    ASSUME TypeOK, NEW c \in Clients, NEW f \in Funcs, CallOK(c, f),
           DispatchResult(c, f) \/ DispatchResultAndSendNext(c, f),
           NEW n, n = myClosures[c][f]
    PROVE  /\ \A k \in CallId : k # n => outcome'[c][f][k] = outcome[c][f][k]
           /\ \A k \in CallId : k <= n => outcome'[c][f][k] = "value"
           /\ \A m, k \in CallId :
                 m < k /\ outcome'[c][f][k] = "value" => outcome'[c][f][m] = "value"
           /\ outcome[c][f][n] = "open"
           /\ \A m \in CallId : m < n => outcome[c][f][m] = "value"
<1> DEFINE o == outcome[c][f]
           p == outcome'[c][f]
<1>0. ResultArrived(c, f)
    BY DEF DispatchResult, DispatchResultAndSendNext
<1>1. /\ n \in CallId /\ f \in InProgress(c)
      /\ Told(Head(inbox[Cli(c)]), n) = "value"
    BY <1>0, ResultBelongs DEF Told
<1>2. o \in [CallId -> Outcomes] /\ p = [o EXCEPT ![n] = "value"]
  <2>1. o \in [CallId -> Outcomes]
    BY CallTypes
  <2>2. outcome' = [outcome EXCEPT ![c][f][n] = "value"]
    BY <1>1 DEF DispatchResult, DispatchResultAndSendNext
  <2>3. outcome \in [Clients -> [Funcs -> [CallId -> Outcomes]]]
    BY DEF TypeOK, ClientTypeOK
  <2> QED
    BY <2>1, <2>2, <2>3
<1>3. /\ o[n] = "open"
      /\ \A m \in CallId : m < n => o[m] = "value"
      /\ \A m, k \in CallId : m < k /\ o[k] = "value" => o[m] = "value"
    BY <1>0, <1>1
    DEF CallOK, OutcomeOK, Untold, ResultArrived, LoopRuns, MessageArrived, Receiving
<1> HIDE DEF o, p
<1>4. /\ \A k \in CallId : k # n => p[k] = o[k]
      /\ \A m, k \in CallId : m < k /\ p[k] = "value" => p[m] = "value"
      /\ \A m \in CallId : m <= n => p[m] = "value"
    BY <1>1, <1>2, <1>3, ToldOutcome
<1> QED
    BY <1>3, <1>4 DEF o, p

LEMMA DispatchResultCalls ==
    ASSUME TypeOK, TypeOK', NEW c \in Clients, NEW g \in Funcs, DispatchResult(c, g),
           NEW f \in Funcs, CallOK(c, f), CallOK(c, g), ThreadOK(c), NoNewWork(c),
           UNCHANGED serviceVars
    PROVE  CallOK(c, f)'
<1>1. ResultArrived(c, g) /\ g \in InProgress(c)
    BY ResultBelongs DEF DispatchResult
<1>2. /\ Held(c, f)' = Held(c, f) /\ executed' = executed /\ Done(c, f)' = Done(c, f)
      /\ inbox'[Srv(c)] = inbox[Srv(c)] /\ inbox'[Cli(c)] = Tail(inbox[Cli(c)])
      /\ up' = up /\ notify' = notify /\ issued' = issued /\ myCallQueue' = myCallQueue
      /\ myState' = myState /\ pc[c] = "idle" /\ pc'[c] = "handler"
      /\ myClosures' = [myClosures EXCEPT ![c][g] = 0]
      /\ outcome' = [outcome EXCEPT ![c][g][myClosures[c][g]] =
                        Told(Head(inbox[Cli(c)]), myClosures[c][g])]
    BY <1>1, Ends
    DEF DispatchResult, ClosureErased, Consumed, serviceVars, Held, Done, ResultArrived,
        LoopRuns, TypeOK, TransportTypeOK, ClientTypeOK
<1>3. inbox[Cli(c)] # <<>> /\ Head(inbox[Cli(c)]).func = g
    BY <1>1, Ends DEF ResultArrived, MessageArrived, TypeOK, TransportTypeOK
<1>4. CASE f # g
  <2>1. CallKept(c, f)
    BY <1>2, <1>3, <1>4, CallTypes, SameInbox DEF CallKept, TypeOK, ClientTypeOK
  <2>2. NotifyKept(c, f)
    BY <1>2 DEF NotifyKept, Untold
  <2> QED
    BY <2>1, <2>2, OtherCall
<1>5. CASE f = g
  <2> DEFINE n == myClosures[c][f]
  <2>1. /\ f \in TwoWay /\ n = LastSent(c, f) /\ n \in CallId
        /\ ValuesUpTo(inbox'[Cli(c)], f, Done(c, f))
        /\ Absent(inbox'[Cli(c)], f) /\ Absent(inbox'[Srv(c)], f) /\ Held(c, f)' = {}
    BY <1>1, <1>2, <1>5, ResultBelongs
  <2>2. /\ myClosures'[c][f] = 0 /\ f \notin InProgress(c)'
        /\ myCallQueue[c][f] = <<>> /\ LastSent(c, f)' = LastSent(c, f)
        /\ outcome'[c][f] = [outcome[c][f] EXCEPT ![n] = Told(Head(inbox[Cli(c)]), n)]
    BY <1>1, <1>2, <1>5
    DEF DispatchResult, NextWaits, is_enqueued, InProgress, LastSent, TypeOK, ClientTypeOK
  <2>3. QueueOK(c, f)'
    BY <1>2, <2>1, <2>2 DEF CallOK, QueueOK, TwoWay
  <2>4. ExecutionOK(c, f)'
    BY <1>2, <2>1, <2>2 DEF CallOK, ExecutionOK
  <2>5. OutcomeOK(c, f)'
    <3>1. /\ \A k \in CallId : k # n => outcome'[c][f][k] = outcome[c][f][k]
          /\ \A k \in CallId : k <= n => outcome'[c][f][k] = "value"
          /\ \A m, k \in CallId :
                m < k /\ outcome'[c][f][k] = "value" => outcome'[c][f][m] = "value"
      BY <1>5, ResultTold
    <3>2. /\ \A k \in CallId : k > issued[c][f] => k # n /\ outcome[c][f][k] = "none"
          /\ \A k \in CallId : n < k /\ k <= issued[c][f] =>
                k # n /\ outcome[c][f][k] = "open"
          /\ \A k \in CallId : outcome[c][f][k] \notin {"wrong", "in_progress"}
      <4>1. n <= issued[c][f]
        BY <2>1, CallTypes DEF LastSent
      <4> QED
        BY <2>1, <4>1, CallTypes, MessageIds DEF CallOK, OutcomeOK, Untold
    <3>3. outcome'[c][f][n] = "value"
      <4>1. n <= n
        BY CallTypes
      <4> QED
        BY <2>1, <3>1, <4>1
    <3>4. \A k \in CallId : outcome'[c][f][k] \notin {"wrong", "in_progress"}
      BY <3>1, <3>2, <3>3
    <3> HIDE DEF n
    <3>5. /\ \A k \in CallId : k > issued[c][f] => outcome'[c][f][k] = "none"
          /\ \A k \in CallId : n < k /\ k <= issued[c][f] => outcome'[c][f][k] = "open"
      BY <3>1, <3>2
    <3> QED
      BY <1>2, <2>1, <2>2, <3>1, <3>4, <3>5 DEF OutcomeOK, Untold
  <2>6. TokenOK(c, f)'
    BY <2>1, <2>2 DEF TokenOK, Absent, Single, AllOf
  <2> QED
    BY <2>3, <2>4, <2>5, <2>6 DEF CallOK
<1> QED
    BY <1>4, <1>5

\* dequeue_call: the result is taken, and the next call is written when the
\* connection is up.
LEMMA NextWritten ==
    ASSUME TypeOK, NEW c \in Clients, NEW g \in Funcs, ThreadOK(c), CallOK(c, g),
           DispatchResultAndSendNext(c, g)
    PROVE  /\ inbox'[Cli(c)] = Tail(inbox[Cli(c)])
           /\ inbox'[Srv(c)] =
                 IF up[c] THEN Append(inbox[Srv(c)],
                                      serialize_call(g, Head(myCallQueue[c][g])))
                          ELSE inbox[Srv(c)]
           /\ Head(myCallQueue[c][g]) \in CallId
           /\ Head(myCallQueue[c][g]) = LastSent(c, g) + 1
           /\ Tail(myCallQueue[c][g]) \in Seq(CallId)
           /\ Len(Tail(myCallQueue[c][g])) = Len(myCallQueue[c][g]) - 1
           /\ \A i \in DOMAIN Tail(myCallQueue[c][g]) :
                 Tail(myCallQueue[c][g])[i] = LastSent(c, g) + 1 + i
           /\ Len(myCallQueue[c][g]) \in Nat /\ Len(myCallQueue[c][g]) > 0
<1> DEFINE q == myCallQueue[c][g]
           m == serialize_call(g, Head(q))
<1>1. q \in Seq(CallId) /\ q # <<>> /\ LastSent(c, g) \in Int
    BY CallTypes DEF DispatchResultAndSendNext, NextWaits, is_enqueued
<1>2. \A i \in DOMAIN q : q[i] = LastSent(c, g) + i
    BY DEF CallOK, QueueOK
<1>3. up[c] => is_open(Cli(c))
    BY DEF ThreadOK, Calling
<1>4. /\ Consumed(Cli(c))[Cli(c)] = Tail(inbox[Cli(c)])
      /\ Consumed(Cli(c))[Srv(c)] = inbox[Srv(c)]
      /\ Consumed(Cli(c)) \in [End -> Seq(Message) \cup {Tail(inbox[Cli(c)])}]
    BY Ends DEF Consumed, TypeOK, TransportTypeOK, Message
<1>5. /\ Written(Consumed(Cli(c)), Cli(c), m)[Cli(c)] = Tail(inbox[Cli(c)])
      /\ Written(Consumed(Cli(c)), Cli(c), m)[Srv(c)] =
            IF up[c] THEN Append(inbox[Srv(c)], m) ELSE inbox[Srv(c)]
  <2> HIDE DEF m
  <2>1. CASE up[c]
    <3>1. Written(Consumed(Cli(c)), Cli(c), m) =
              [Consumed(Cli(c)) EXCEPT ![Srv(c)] = Append(@, m)]
      BY <2>1, Ends DEF Written
    <3> QED
      BY <1>4, <2>1, <3>1, Ends
  <2>2. CASE ~up[c]
    BY <1>4, <2>2, Ends DEF Written
  <2> QED
    BY <2>1, <2>2
<1>6. /\ inbox'[Cli(c)] = Tail(inbox[Cli(c)])
      /\ inbox'[Srv(c)] = IF up[c] THEN Append(inbox[Srv(c)], m) ELSE inbox[Srv(c)]
  <2>1. \/ inbox' = Written(Consumed(Cli(c)), Cli(c), m)
        \/ ~up[c] /\ inbox' = Consumed(Cli(c))
    BY <1>3, Ends DEF DispatchResultAndSendNext, dequeue_call, WriteMayFail
  <2> QED
    BY <1>4, <1>5, <2>1
<1> HIDE DEF q
<1>7. /\ Len(q) \in Nat /\ Len(q) > 0 /\ DOMAIN q = 1..Len(q)
      /\ Head(q) = q[1] /\ Head(q) \in CallId
      /\ Tail(q) \in Seq(CallId) /\ Len(Tail(q)) = Len(q) - 1
      /\ DOMAIN Tail(q) = 1..(Len(q) - 1)
      /\ \A i \in DOMAIN Tail(q) : Tail(q)[i] = q[i + 1]
    BY <1>1, HeadTailProperties
<1>8. Head(q) = LastSent(c, g) + 1
    BY <1>2, <1>7
<1>9. \A i \in DOMAIN Tail(q) : Tail(q)[i] = LastSent(c, g) + 1 + i
    BY <1>1, <1>2, <1>7
<1> QED
    BY <1>6, <1>7, <1>8, <1>9 DEF q

LEMMA SendNextCalls ==
    ASSUME TypeOK, TypeOK', NEW c \in Clients, NEW g \in Funcs,
           DispatchResultAndSendNext(c, g), NEW f \in Funcs, CallOK(c, f), CallOK(c, g),
           ThreadOK(c), NoNewWork(c), UNCHANGED serviceVars
    PROVE  CallOK(c, f)'
<1> DEFINE k == Head(myCallQueue[c][g])
<1>1. ResultArrived(c, g)
    BY DEF DispatchResultAndSendNext
<1>2. /\ Held(c, f)' = Held(c, f) /\ executed' = executed /\ Done(c, f)' = Done(c, f)
      /\ up' = up /\ notify' = notify /\ issued' = issued
      /\ pc[c] = "idle" /\ pc'[c] = "handler"
      /\ myClosures' = [myClosures EXCEPT ![c][g] = k]
      /\ myCallQueue' = [myCallQueue EXCEPT ![c][g] = Tail(@)]
      /\ f # g => outcome'[c][f] = outcome[c][f]
  <2>1. /\ Held(c, f)' = Held(c, f) /\ executed' = executed /\ Done(c, f)' = Done(c, f)
        /\ up' = up /\ notify' = notify /\ issued' = issued
    BY DEF DispatchResultAndSendNext, serviceVars, Held, Done
  <2>2. pc[c] = "idle" /\ pc'[c] = "handler"
    BY <1>1 DEF DispatchResultAndSendNext, ResultArrived, LoopRuns, TypeOK, ClientTypeOK
  <2>3. /\ myClosures' = [myClosures EXCEPT ![c][g] = k]
        /\ myCallQueue' = [myCallQueue EXCEPT ![c][g] = Tail(@)]
    BY DEF DispatchResultAndSendNext, dequeue_call
  <2>4. f # g => outcome'[c][f] = outcome[c][f]
    BY DEF DispatchResultAndSendNext, TypeOK, ClientTypeOK
  <2> QED
    BY <2>1, <2>2, <2>3, <2>4
<1>3. /\ inbox[Cli(c)] # <<>> /\ Head(inbox[Cli(c)]).func = g
      /\ inbox'[Cli(c)] = Tail(inbox[Cli(c)])
      /\ inbox'[Srv(c)] = IF up[c] THEN Append(inbox[Srv(c)], serialize_call(g, k))
                                   ELSE inbox[Srv(c)]
      /\ k \in CallId
    BY <1>1, Ends, NextWritten DEF ResultArrived, MessageArrived, TypeOK, TransportTypeOK
<1>4. CASE f # g
  <2>1. serialize_call(g, k) \in Message /\ serialize_call(g, k).func = g
    BY <1>3 DEF serialize_call, Message, CallMessages
  <2>2. /\ Same(inbox[Srv(c)], inbox'[Srv(c)], f)
        /\ Same(inbox[Cli(c)], inbox'[Cli(c)], f)
    BY <1>3, <1>4, <2>1, CallTypes, SameInbox
  <2>3. CallKept(c, f)
    BY <1>2, <1>4, <2>2 DEF CallKept, TypeOK, ClientTypeOK
  <2>4. NotifyKept(c, f)
    BY <1>2 DEF NotifyKept, Untold
  <2> QED
    BY <2>3, <2>4, OtherCall
<1>5. CASE f = g
  <2> DEFINE n == myClosures[c][f]
  <2>1. /\ f \in TwoWay /\ n = LastSent(c, f) /\ n \in CallId
        /\ ValuesUpTo(inbox'[Cli(c)], f, Done(c, f))
        /\ Absent(inbox'[Cli(c)], f) /\ Absent(inbox[Srv(c)], f) /\ Held(c, f)' = {}
    BY <1>1, <1>2, <1>3, <1>5, ResultBelongs
  <2>2. /\ k = LastSent(c, f) + 1
        /\ Len(Tail(myCallQueue[c][f])) = Len(myCallQueue[c][f]) - 1
        /\ \A i \in DOMAIN Tail(myCallQueue[c][f]) :
              Tail(myCallQueue[c][f])[i] = LastSent(c, f) + 1 + i
        /\ Len(myCallQueue[c][f]) \in Nat /\ Len(myCallQueue[c][f]) > 0
    BY <1>5, NextWritten
  <2>3. /\ myClosures'[c][f] = k /\ myCallQueue'[c][f] = Tail(myCallQueue[c][f])
    BY <1>2, <1>5 DEF TypeOK, ClientTypeOK
  <2> HIDE DEF k
  <2>4. /\ f \in InProgress(c)' /\ LastSent(c, f)' = k /\ k <= issued[c][f]
        /\ k = n + 1 /\ n \in Nat /\ k \in Nat /\ issued[c][f] \in Nat
    <3>1. k \in Nat /\ k > 0 /\ n \in Nat /\ issued[c][f] \in Nat
      BY <1>3, <2>1, CallTypes, MessageIds
    <3>2. f \in InProgress(c)'
      BY <2>3, <3>1 DEF InProgress
    <3>3. LastSent(c, f) = issued[c][f] - Len(myCallQueue[c][f])
      BY DEF LastSent
    <3>4. LastSent(c, f)' = issued[c][f] - Len(Tail(myCallQueue[c][f]))
      BY <1>2, <2>3 DEF LastSent
    <3>5. LastSent(c, f)' = k /\ k <= issued[c][f]
      <4> DEFINE l == Len(myCallQueue[c][f])
                 t == Len(Tail(myCallQueue[c][f]))
      <4>1. k = (issued[c][f] - l) + 1 /\ t = l - 1 /\ l \in Nat /\ l > 0
        BY <2>2, <3>3
      <4> HIDE DEF l, t
      <4>2. issued[c][f] - t = k /\ k <= issued[c][f]
        BY <3>1, <4>1
      <4> QED
        BY <3>4, <4>2 DEF t
    <3> QED
      BY <2>1, <2>2, <3>1, <3>2, <3>5
  <2>5. /\ InSequence(inbox'[Srv(c)], f, Done(c, f), k)
        /\ up[c] => Complete(inbox'[Srv(c)], f, Done(c, f), k)
        /\ up[c] => ~Absent(inbox'[Srv(c)], f)
        /\ Single(inbox'[Srv(c)], f) /\ AllOf(inbox'[Srv(c)], f, k)
    BY <1>3, <1>5, <2>1, <2>2, CallAppended DEF CallOK
  <2>6. QueueOK(c, f)'
    <3>1. \A i \in DOMAIN Tail(myCallQueue[c][f]) : Tail(myCallQueue[c][f])[i] = k + i
      BY <2>2
    <3>2. myState'[Cli(c)] # "NEW" /\ f \notin OneWay
      BY <1>1, <1>2, <2>1, Ends
      DEF NoNewWork, ThreadOK, ResultArrived, MessageArrived, TwoWay
    <3> QED
      BY <2>3, <2>4, <3>1, <3>2 DEF QueueOK
  <2>7. ExecutionOK(c, f)'
    <3>1. Done(c, f) <= k
      BY <2>1, <2>4, CallTypes DEF CallOK, ExecutionOK
    <3> QED
      BY <1>2, <2>1, <2>4, <2>5, <3>1 DEF CallOK, ExecutionOK
  <2>8. OutcomeOK(c, f)'
    <3>1. /\ \A i \in CallId : i # n => outcome'[c][f][i] = outcome[c][f][i]
          /\ \A i \in CallId : i <= n => outcome'[c][f][i] = "value"
          /\ \A m, i \in CallId :
                m < i /\ outcome'[c][f][i] = "value" => outcome'[c][f][m] = "value"
      BY <1>5, ResultTold
    <3>2. /\ \A i \in CallId : i > issued[c][f] => outcome[c][f][i] = "none"
          /\ \A i \in CallId : n < i /\ i <= issued[c][f] => outcome[c][f][i] = "open"
          /\ \A i \in CallId : outcome[c][f][i] \notin {"wrong", "in_progress"}
      BY <2>1 DEF CallOK, OutcomeOK, Untold
    <3> HIDE DEF n
    <3>3. /\ \A i \in CallId : i > issued[c][f] => i # n
          /\ \A i \in CallId : k < i => n < i /\ i # n
          /\ \A i \in CallId : i < k => i <= n
          /\ n < k /\ k # n /\ n <= n
      BY <2>4, MessageIds
    <3>4. \A i \in CallId : outcome'[c][f][i] \notin {"wrong", "in_progress"}
      BY <2>1, <3>1, <3>2, <3>3
    <3>5. /\ \A i \in CallId : i > issued[c][f] => outcome'[c][f][i] = "none"
          /\ \A i \in CallId : k < i /\ i <= issued[c][f] => outcome'[c][f][i] = "open"
          /\ outcome'[c][f][k] = "open"
          /\ \A i \in CallId : i < k => outcome'[c][f][i] = "value"
      BY <1>3, <2>4, <3>1, <3>2, <3>3
    <3> QED
      BY <1>2, <2>1, <2>3, <2>4, <3>1, <3>4, <3>5 DEF OutcomeOK, Untold
  <2>9. TokenOK(c, f)'
    BY <1>2, <2>1, <2>3, <2>4, <2>5 DEF TokenOK, Absent, Single, AllOf
  <2> QED
    BY <2>6, <2>7, <2>8, <2>9 DEF CallOK
<1> QED
    BY <1>4, <1>5

\* dispatch_connection_error calls a closure of the map, with few functions one
\* that waits.
LEMMA ErrorTold ==
    ASSUME TypeOK, NEW c \in Clients, NEW f \in Funcs, CallOK(c, f),
           DispatchErrorToClosure(c, f), NEW n, n = myClosures[c][f]
    PROVE  /\ f \in InProgress(c) /\ n \in CallId /\ n = LastSent(c, f)
           /\ FewFunctions => outcome[c][f][n] = "open"
           /\ outcome'[c][f][n] \in {"error", "again"}
           /\ \A k \in CallId : k # n => outcome'[c][f][k] = outcome[c][f][k]
           /\ \A m, k \in CallId :
                 m < k /\ outcome'[c][f][k] = "value" => outcome'[c][f][m] = "value"
<1> DEFINE o == outcome[c][f]
           p == outcome'[c][f]
<1>1. /\ f \in InProgress(c) /\ n = LastSent(c, f)
      /\ o[n] # "value" /\ (FewFunctions => o[n] = "open")
  <2>1. pc[c] = "errors" /\ f \in notify[c]
    BY DEF DispatchErrorToClosure
  <2>2. f \in InProgress(c)
    BY <2>1 DEF CallOK, OutcomeOK, Untold
  <2>3. o[n] # "value" /\ (FewFunctions => o[n] = "open")
    BY <2>1, <2>2 DEF CallOK, OutcomeOK, Untold
  <2>4. n = LastSent(c, f)
    BY <2>2 DEF CallOK, QueueOK
  <2> QED
    BY <2>2, <2>3, <2>4
<1>2. n \in CallId
  <2>1. n \in Nat /\ n <= MaxCalls
    BY CallTypes
  <2>2. n # 0
    BY <1>1 DEF InProgress
  <2> QED
    BY <2>1, <2>2, BoundsAssumption DEF CallId
<1>3. o \in [CallId -> Outcomes] /\ p = [o EXCEPT ![n] = ErrorOutcome(o[n])]
  <2>1. o \in [CallId -> Outcomes]
    BY CallTypes
  <2>2. outcome' = [outcome EXCEPT ![c][f][n] = ErrorOutcome(@)]
    BY DEF DispatchErrorToClosure
  <2>3. outcome \in [Clients -> [Funcs -> [CallId -> Outcomes]]]
    BY DEF TypeOK, ClientTypeOK
  <2> QED
    BY <2>1, <2>2, <2>3
<1>4. \A m, k \in CallId : m < k /\ o[k] = "value" => o[m] = "value"
    BY DEF CallOK, OutcomeOK, Untold
<1>0. ErrorOutcome(o[n]) \in {"error", "again"}
    BY DEF ErrorOutcome
<1> HIDE DEF o, p
<1>5. /\ p[n] = ErrorOutcome(o[n])
      /\ \A k \in CallId : k # n => p[k] = o[k]
      /\ \A m, k \in CallId : m < k /\ p[k] = "value" => p[m] = "value"
    BY <1>0, <1>1, <1>2, <1>3, <1>4, ToldOutcome
<1> QED
    BY <1>0, <1>1, <1>2, <1>5 DEF o, p

LEMMA ErrorCalls ==
    ASSUME TypeOK, TypeOK', NEW c \in Clients, NEW g \in Funcs,
           DispatchErrorToClosure(c, g), NEW f \in Funcs, CallOK(c, f),
           ThreadOK(c), NoNewWork(c), UNCHANGED serviceVars
    PROVE  CallOK(c, f)'
<1>1. /\ Held(c, f)' = Held(c, f) /\ executed' = executed /\ Done(c, f)' = Done(c, f)
      /\ inbox' = inbox /\ up' = up /\ issued' = issued /\ myState' = myState
      /\ myClosures' = myClosures /\ myCallQueue' = myCallQueue
      /\ InProgress(c)' = InProgress(c) /\ LastSent(c, f)' = LastSent(c, f)
      /\ pc[c] = "errors" /\ pc'[c] = "errcall" /\ notify'[c] = notify[c] \ {g}
      /\ g \in notify[c] /\ (f # g => outcome'[c][f] = outcome[c][f])
    BY DEF DispatchErrorToClosure, transportVars, serviceVars, Held, Done, InProgress,
        LastSent, TypeOK, ClientTypeOK
<1>2. CASE f # g
  <2>1. CallKept(c, f)
    BY <1>1, <1>2, CallTypes, SameInbox DEF CallKept
  <2>2. NotifyKept(c, f)
    BY <1>1, <1>2 DEF NotifyKept, CallOK, OutcomeOK, Untold
  <2> QED
    BY <2>1, <2>2, OtherCall
<1>3. CASE f = g
  <2> DEFINE n == myClosures[c][f]
  <2>1. /\ f \in InProgress(c) /\ n \in CallId /\ n = LastSent(c, f)
        /\ outcome'[c][f][n] \in {"error", "again"}
        /\ \A k \in CallId : k # n => outcome'[c][f][k] = outcome[c][f][k]
        /\ \A m, k \in CallId :
              m < k /\ outcome'[c][f][k] = "value" => outcome'[c][f][m] = "value"
    BY <1>3, ErrorTold
  <2>2. ~Receiving(c)' /\ ~Calling(c)'
    BY <1>1 DEF NoNewWork, Receiving, Calling
  <2>3. QueueOK(c, f)' /\ ExecutionOK(c, f)'
    BY <1>1, <2>2 DEF CallOK, QueueOK, ExecutionOK, is_open
  <2>4. OutcomeOK(c, f)'
    <3>1. \A k \in CallId : /\ k > issued[c][f] => k # n
                            /\ n < k => k # n
      BY <2>1, CallTypes, MessageIds DEF LastSent
    <3>2. /\ \A k \in CallId : k > issued[c][f] => outcome[c][f][k] = "none"
          /\ \A k \in CallId : f \in TwoWay /\ n < k /\ k <= issued[c][f] =>
                outcome[c][f][k] = "open"
          /\ \A k \in CallId : outcome[c][f][k] \notin {"wrong", "in_progress"}
      BY <2>1 DEF CallOK, OutcomeOK
    <3>4. ~Untold(c, f)' /\ outcome'[c][f][myClosures'[c][f]] \in {"error", "again"}
      BY <1>1, <1>3, <2>1 DEF Untold
    <3> HIDE DEF n
    <3>3. /\ \A k \in CallId : k > issued[c][f] => outcome'[c][f][k] = "none"
          /\ \A k \in CallId : f \in TwoWay /\ n < k /\ k <= issued[c][f] =>
                outcome'[c][f][k] = "open"
          /\ \A k \in CallId : outcome'[c][f][k] \notin {"wrong", "in_progress"}
      BY <2>1, <3>1, <3>2
    <3> QED
      BY <1>1, <1>3, <2>1, <2>2, <3>3, <3>4 DEF OutcomeOK
  <2>5. f \in TwoWay => TokenOK(c, f)'
    BY <1>1, <2>2 DEF CallOK, TokenOK
  <2> QED
    BY <2>3, <2>4, <2>5 DEF CallOK
<1> QED
    BY <1>2, <1>3

\* When the loop has visited every closure, the map is cleared and the client
\* does not work any more.
LEMMA EndErrorsCalls ==
    ASSUME TypeOK, TypeOK', NEW c \in Clients, EndErrors(c), NEW f \in Funcs,
           CallOK(c, f), ThreadOK(c), NoNewWork(c), UNCHANGED serviceVars
    PROVE  CallOK(c, f)'
<1>1. /\ Held(c, f)' = Held(c, f) /\ executed' = executed /\ Done(c, f)' = Done(c, f)
      /\ inbox' = inbox /\ issued' = issued /\ outcome' = outcome /\ reading' = reading
      /\ myCallQueue' = myCallQueue /\ LastSent(c, f)' = LastSent(c, f)
      /\ f \notin InProgress(c)' /\ ~up'[c]
      /\ pc[c] = "errors" /\ pc'[c] = "idle"
    BY DEF EndErrors, LinksDown, serviceVars, Held, Done, InProgress, LastSent, TypeOK,
        ClientTypeOK
<1>2. myState'[Cli(c)] # "NEW" /\ ~is_open(Cli(c))' /\ ~Receiving(c)' /\ ~Calling(c)'
    BY <1>1, Ends DEF EndErrors, StateClosed, is_open, ThreadOK, Receiving, Calling
<1>3. QueueOK(c, f)'
    BY <1>1, <1>2 DEF CallOK, QueueOK
<1>4. ExecutionOK(c, f)'
    BY <1>1 DEF CallOK, ExecutionOK
<1>5. OutcomeOK(c, f)'
    BY <1>1, <1>2 DEF CallOK, OutcomeOK, Untold
<1>6. f \in TwoWay => TokenOK(c, f)'
    BY <1>1, <1>2 DEF CallOK, TokenOK
<1> QED
    BY <1>3, <1>4, <1>5, <1>6 DEF CallOK

\* All steps of a client keep the invariant.
LEMMA ClientStepInv ==
    ASSUME Inv, TypeOK', NEW d \in Clients, ClientNext(d)
    PROVE  /\ \A c \in Clients : ThreadOK(c)' /\ AcceptOK(c)'
           /\ \A c \in Clients, f \in Funcs : CallOK(c, f)'
<1>1. /\ TypeOK /\ ClientStep(d) /\ UNCHANGED serviceVars
      /\ \A c \in Clients : ThreadOK(c) /\ AcceptOK(c)
      /\ \A c \in Clients, f \in Funcs : CallOK(c, f)
    BY DEF Inv, ClientNext
<1>2. ASSUME NEW c \in Clients, c # d
      PROVE  /\ ThreadOK(c)' /\ AcceptOK(c)'
             /\ \A f \in Funcs : CallOK(c, f)'
    BY <1>1, <1>2, OtherClients, KeptOK
<1>3. ThreadOK(d)' /\ (Open(d) \/ NoNewWork(d))
    BY <1>1, OwnThread
<1>4. AcceptOK(d)'
    BY <1>1, <1>3, OwnAccept
<1>5. ASSUME NEW f \in Funcs
      PROVE  CallOK(d, f)'
  <2>1. ThreadOK(d) /\ CallOK(d, f)
    BY <1>1
  <2>2. CASE Open(d)
    BY <1>1, <2>1, <2>2, OpenCalls
  <2>3. CASE NoNewWork(d) /\ ~Open(d) /\ UserStep(d)
    BY <1>1, <2>1, <2>3, QuietClientSteps, SendNowCalls, SendFailsCalls,
       SendQueuedCalls, SendOneWayCalls
    DEF UserStep
  <2>4. CASE NoNewWork(d) /\ ClientLoopStep(d)
    BY <1>1, <2>1, <2>4, QuietClientSteps, DispatchResultCalls, SendNextCalls,
       ErrorCalls, EndErrorsCalls
    DEF ClientLoopStep
  <2> QED
    BY <1>1, <1>3, <2>2, <2>3, <2>4 DEF ClientStep
<1> QED
    BY <1>2, <1>3, <1>4, <1>5

------------------------------------------------------------------------------
(***************************************************************************)
(* The service: it does not touch a client's thread or its transport.      *)
(***************************************************************************)
LEMMA ServiceKeepsThreads ==
    ASSUME TypeOK, ServiceNext, NEW c \in Clients, ThreadOK(c)
    PROVE  /\ ThreadOK(c)' /\ NoNewWork(c)
           /\ Receiving(c)' = Receiving(c) /\ Calling(c)' = Calling(c)
<1>1. /\ up'[c] => up[c]
      /\ myState'[Cli(c)] = myState[Cli(c)]
      /\ reading'[Cli(c)] = reading[Cli(c)]
      /\ UNCHANGED clientVars
    BY ServiceKeepsClientEnds DEF ServiceNext, TypeOK
<1> QED
    BY <1>1 DEF NoNewWork, ThreadOK, Receiving, Calling, is_open, clientVars

------------------------------------------------------------------------------
(***************************************************************************)
(* The calls under the service's steps.                                    *)
(***************************************************************************)

\* What is only about the client is kept.
LEMMA ClientSideKept ==
    ASSUME TypeOK, ServiceNext, NEW c \in Clients, NEW f \in Funcs, CallOK(c, f),
           ThreadOK(c)
    PROVE  /\ QueueOK(c, f)' /\ OutcomeOK(c, f)' /\ LastSent(c, f)' = LastSent(c, f)
           /\ NoNewWork(c) /\ NotifyKept(c, f) /\ UNCHANGED clientVars
           /\ Receiving(c)' = Receiving(c) /\ InProgress(c)' = InProgress(c)
           /\ up'[c] => up[c]
<1>1. /\ NoNewWork(c) /\ UNCHANGED clientVars
      /\ Receiving(c)' = Receiving(c) /\ Calling(c)' = Calling(c)
    BY ServiceKeepsThreads DEF ServiceNext
<1>2. LastSent(c, f)' = LastSent(c, f) /\ InProgress(c)' = InProgress(c)
    BY <1>1 DEF LastSent, InProgress, clientVars
<1>3. QueueOK(c, f)'
    BY <1>1, <1>2 DEF CallOK, QueueOK, NoNewWork, clientVars
<1>4. OutcomeOK(c, f)'
    BY <1>1, <1>2 DEF CallOK, OutcomeOK, Untold, clientVars
<1>5. NotifyKept(c, f)
    BY <1>1 DEF CallOK, OutcomeOK, NotifyKept, Untold, clientVars
<1> QED
    BY <1>1, <1>2, <1>3, <1>4, <1>5 DEF NoNewWork

\* Steps without a message for f, and without a closure of f.
LEMMA ServiceKeepsCall ==
    ASSUME TypeOK, TypeOK', ServiceNext, NEW c \in Clients, NEW f \in Funcs, CallOK(c, f),
           ThreadOK(c), Held(c, f)' = Held(c, f), executed'[c][f] = executed[c][f],
           Same(inbox[Srv(c)], inbox'[Srv(c)], f),
           Same(inbox[Cli(c)], inbox'[Cli(c)], f)
    PROVE  CallOK(c, f)'
<1>1. NoNewWork(c) /\ NotifyKept(c, f) /\ UNCHANGED clientVars
    BY ClientSideKept
<1>2. CallKept(c, f)
    BY <1>1 DEF CallKept, clientVars
<1> QED
    BY <1>1, <1>2, OtherCall

\* Steps without any message or closure.
LEMMA QuietServiceSteps ==
    ASSUME TypeOK, TypeOK', ServiceNext, NEW c \in Clients, NEW f \in Funcs, CallOK(c, f),
           ThreadOK(c), UNCHANGED <<inbox, held, executed>>
    PROVE  CallOK(c, f)'
<1>1. Held(c, f)' = Held(c, f)
    BY DEF Held
<1> QED
    BY <1>1, CallTypes, SameInbox, ServiceKeepsCall

\* Events are no results.
LEMMA EventCalls ==
    ASSUME TypeOK, TypeOK', ServiceNext, NEW c \in Clients, NEW f \in Funcs, CallOK(c, f),
           ThreadOK(c), NEW C, EventWritten(C), events < MaxEvents,
           UNCHANGED <<held, executed>>
    PROVE  CallOK(c, f)'
<1>1. Held(c, f)' = Held(c, f)
    BY DEF Held
<1>2. /\ serialize_event(events + 1) \in Message
      /\ serialize_event(events + 1).func # f
  <2>1. events + 1 \in 1..MaxEvents
    BY BoundsAssumption DEF TypeOK, ServiceTypeOK
  <2> QED
    BY <2>1, FuncsAssumption DEF serialize_event, Message, EventMessages
<1>3. /\ inbox'[Srv(c)] = inbox[Srv(c)]
      /\ \/ inbox'[Cli(c)] = inbox[Cli(c)]
         \/ inbox'[Cli(c)] = Append(inbox[Cli(c)], serialize_event(events + 1))
    BY Ends DEF EventWritten
<1> QED
    BY <1>1, <1>2, <1>3, CallTypes, SameInbox, ServiceKeepsCall

\* A call arrives: it is the next one to be executed.
LEMMA CallBelongs ==
    ASSUME TypeOK, NEW c \in Clients, NEW f \in Funcs, CallOK(c, f), CallArrived(c, f)
    PROVE  /\ inbox[Srv(c)] # <<>> /\ Head(inbox[Srv(c)]).func = f
           /\ ~Absent(inbox[Srv(c)], f)
           /\ CallNumber(c) = Done(c, f) + 1 /\ Done(c, f) + 1 <= LastSent(c, f)
           /\ CallNumber(c) \in CallId
           /\ InSequence(Tail(inbox[Srv(c)]), f, Done(c, f) + 1, LastSent(c, f))
           /\ up[c] => Complete(Tail(inbox[Srv(c)]), f, Done(c, f) + 1, LastSent(c, f))
<1> DEFINE s == inbox[Srv(c)]
<1>1. /\ s \in Seq(Message) /\ s # <<>> /\ Head(s).func = f /\ CallNumber(c) = Head(s).id
    BY CallTypes, Ends
    DEF CallArrived, MessageArrived, CallNumber, TypeOK, TransportTypeOK
<1>2. CallNumber(c) \in CallId
    BY Inboxes DEF CallArrived, MessageArrived, CallNumber, TypeOK, CallMessages
<1>3. /\ Done(c, f) \in Nat /\ LastSent(c, f) \in Nat /\ LastSent(c, f) <= MaxCalls
      /\ InSequence(s, f, Done(c, f), LastSent(c, f))
      /\ up[c] => Complete(s, f, Done(c, f), LastSent(c, f))
  <2>1. LastSent(c, f) \in Nat
    BY CallTypes DEF CallOK, ExecutionOK
  <2> QED
    BY <2>1, CallTypes DEF CallOK, ExecutionOK
<1> HIDE DEF s
<1>4. /\ ~Absent(s, f)
      /\ Head(s).id = Done(c, f) + 1 /\ Done(c, f) + 1 <= LastSent(c, f)
      /\ InSequence(Tail(s), f, Done(c, f) + 1, LastSent(c, f))
      /\ up[c] => Complete(Tail(s), f, Done(c, f) + 1, LastSent(c, f))
    BY <1>1, <1>3, TakenOwn
<1> QED
    BY <1>1, <1>2, <1>4 DEF s

\* Its execution, whether one-way or not.
LEMMA CallExecuted ==
    ASSUME TypeOK, TypeOK', ServiceNext, NEW c \in Clients, NEW f \in Funcs, CallOK(c, f),
           ThreadOK(c), CallArrived(c, f), FuncCalled(c, f),
           \A h \in Held(c, f)' : h \in Held(c, f) \/ h.id = CallNumber(c)
    PROVE  /\ ExecutionOK(c, f)'
           /\ inbox'[Srv(c)] = Tail(inbox[Srv(c)]) /\ inbox'[Cli(c)] = inbox[Cli(c)]
           /\ executed'[c][f] = Append(executed[c][f], CallNumber(c))
<1> DEFINE n == Done(c, f)
<1>1. /\ inbox'[Srv(c)] = Tail(inbox[Srv(c)]) /\ inbox'[Cli(c)] = inbox[Cli(c)]
      /\ executed'[c][f] = Append(executed[c][f], CallNumber(c))
    BY Ends DEF FuncCalled, Consumed, TypeOK, TransportTypeOK, ServiceTypeOK
<1>2. /\ CallNumber(c) = n + 1 /\ n + 1 <= LastSent(c, f)
      /\ InSequence(inbox'[Srv(c)], f, n + 1, LastSent(c, f))
      /\ up[c] => Complete(inbox'[Srv(c)], f, n + 1, LastSent(c, f))
      /\ n \in Nat /\ LastSent(c, f)' = LastSent(c, f)
      /\ up'[c] => up[c]
    BY <1>1, CallBelongs, CallTypes, ClientSideKept
<1>3. /\ Done(c, f)' = n + 1
      /\ \A i \in DOMAIN executed'[c][f] : executed'[c][f][i] = i
  <2> DEFINE x == executed[c][f]
  <2>1. x \in Seq(CallId) /\ n = Len(x) /\ CallNumber(c) \in CallId
    BY CallTypes, CallBelongs DEF Done
  <2>2. \A i \in DOMAIN x : x[i] = i
    BY DEF CallOK, ExecutionOK
  <2> HIDE DEF x, n
  <2>3. /\ Len(Append(x, CallNumber(c))) = Len(x) + 1
        /\ DOMAIN Append(x, CallNumber(c)) = 1..(Len(x) + 1) /\ DOMAIN x = 1..Len(x)
        /\ \A i \in 1..Len(x) : Append(x, CallNumber(c))[i] = x[i]
        /\ Append(x, CallNumber(c))[Len(x) + 1] = CallNumber(c)
    BY <2>1, AppendProperties
  <2>4. \A i \in DOMAIN Append(x, CallNumber(c)) : Append(x, CallNumber(c))[i] = i
    BY <1>2, <2>1, <2>2, <2>3
  <2> QED
    BY <1>1, <2>1, <2>3, <2>4 DEF Done, x
<1>4. ValuesUpTo(inbox'[Cli(c)], f, n + 1)
  <2>1. /\ \A m, k \in Int : ValuesUpTo(inbox[Cli(c)], f, m) /\ m <= k
                                => ValuesUpTo(inbox[Cli(c)], f, k)
    BY CallTypes, Monotone
  <2>2. n \in Int /\ n + 1 \in Int /\ n <= n + 1
    BY <1>2
  <2>3. ValuesUpTo(inbox[Cli(c)], f, n)
    BY DEF CallOK, ExecutionOK
  <2> QED
    BY <1>1, <2>1, <2>2, <2>3
<1>5. \A h \in Held(c, f)' : h.id <= n + 1
  <2>1. \A h \in Held(c, f) : h.id <= n /\ h.id \in Nat
    BY CallTypes, MessageIds DEF CallOK, ExecutionOK
  <2> QED
    BY <1>2, <2>1
<1> QED
    BY <1>1, <1>2, <1>3, <1>4, <1>5 DEF ExecutionOK

\* The execution of a call of another client or function.
LEMMA OtherExecuted ==
    ASSUME TypeOK, TypeOK', ServiceNext, NEW d \in Clients, NEW g \in Funcs,
           CallArrived(d, g), FuncCalled(d, g), NEW c \in Clients, NEW f \in Funcs,
           c # d \/ f # g, CallOK(c, f), ThreadOK(c), Held(c, f)' = Held(c, f)
    PROVE  CallOK(c, f)'
<1>1. executed'[c][f] = executed[c][f]
    BY DEF FuncCalled, TypeOK, ServiceTypeOK
<1>2. inbox'[Cli(c)] = inbox[Cli(c)]
    BY Ends DEF FuncCalled, Consumed, TypeOK, TransportTypeOK
<1>3. Same(inbox[Srv(c)], inbox'[Srv(c)], f)
  <2>1. CASE c # d
    <3>1. inbox'[Srv(c)] = inbox[Srv(c)]
      BY <2>1, Ends DEF FuncCalled, Consumed, TypeOK, TransportTypeOK
    <3> QED
      BY <3>1, CallTypes, SameInbox
  <2>2. CASE c = d
    <3>1. /\ inbox'[Srv(c)] = Tail(inbox[Srv(c)]) /\ inbox[Srv(c)] # <<>>
          /\ Head(inbox[Srv(c)]).func # f
      BY <2>2, Ends
      DEF FuncCalled, Consumed, CallArrived, MessageArrived, TypeOK, TransportTypeOK
    <3> QED
      BY <3>1, CallTypes, SameInbox
  <2> QED
    BY <2>1, <2>2
<1> QED
    BY <1>1, <1>2, <1>3, CallTypes, SameInbox, ServiceKeepsCall

LEMMA DispatchOneWayCalls ==
    ASSUME TypeOK, TypeOK', ServiceNext, NEW d \in Clients, NEW g \in Funcs,
           DispatchOneWay(d, g), NEW c \in Clients, NEW f \in Funcs, CallOK(c, f),
           ThreadOK(c)
    PROVE  CallOK(c, f)'
<1>1. CallArrived(d, g) /\ FuncCalled(d, g) /\ Held(c, f)' = Held(c, f) /\ g \notin TwoWay
    BY DEF DispatchOneWay, Held, TwoWay
<1>2. CASE c # d \/ f # g
    BY <1>1, <1>2, OtherExecuted
<1>3. CASE c = d /\ f = g
  <2>1. CallArrived(c, f) /\ FuncCalled(c, f)
    BY <1>1, <1>3
  <2>2. ExecutionOK(c, f)'
    BY <1>1, <2>1, CallExecuted
  <2> QED
    BY <1>1, <1>3, <2>2, ClientSideKept DEF CallOK
<1> QED
    BY <1>2, <1>3

\* The closure given to the service function now stands for the call.
LEMMA DispatchFuncCalls ==
    ASSUME TypeOK, TypeOK', ServiceNext, NEW d \in Clients, NEW g \in Funcs,
           DispatchFunc(d, g), NEW c \in Clients, NEW f \in Funcs, CallOK(c, f),
           ThreadOK(c)
    PROVE  CallOK(c, f)'
<1> DEFINE h == [client |-> d, func |-> g, id |-> CallNumber(d)]
<1>1. CallArrived(d, g) /\ FuncCalled(d, g) /\ g \in TwoWay /\ held' = held \cup {h}
    BY DEF DispatchFunc
<1>2. CASE c # d \/ f # g
  <2>1. Held(c, f)' = Held(c, f)
    BY <1>1, <1>2 DEF Held
  <2> QED
    BY <1>1, <1>2, <2>1, OtherExecuted
<1>3. CASE c = d /\ f = g
  <2>1. CallArrived(c, f) /\ FuncCalled(c, f) /\ f \in TwoWay
    BY <1>1, <1>3
  <2>2. TokenOK(c, f) /\ ~Absent(inbox[Srv(c)], f)
    BY <2>1, CallBelongs DEF CallOK
  <2>3. Held(c, f) = {} /\ Absent(inbox[Cli(c)], f)
    BY <2>2 DEF TokenOK
  <2>4. h.client = c /\ h.func = f /\ h.id = CallNumber(c)
    BY <1>3
  <2> HIDE DEF h
  <2>5. Held(c, f)' = {h}
    BY <1>1, <2>3, <2>4 DEF Held
  <2>6. /\ ExecutionOK(c, f)'
        /\ inbox'[Srv(c)] = Tail(inbox[Srv(c)]) /\ inbox'[Cli(c)] = inbox[Cli(c)]
    BY <2>1, <2>4, <2>5, CallExecuted
  <2>7. /\ QueueOK(c, f)' /\ OutcomeOK(c, f)' /\ UNCHANGED clientVars
        /\ Receiving(c)' = Receiving(c)
    BY ClientSideKept
  <2> DEFINE s == inbox[Srv(c)]
  <2>8. /\ s \in Seq(Message) /\ s # <<>> /\ Head(s).func = f
        /\ Head(s).id = CallNumber(c)
    BY <2>1, CallTypes, Ends
    DEF CallArrived, MessageArrived, CallNumber, TypeOK, TransportTypeOK
  <2>9. Single(s, f) /\ (Receiving(c) => AllOf(s, f, myClosures[c][f]))
    BY <2>2 DEF TokenOK
  <2> HIDE DEF s
  <2>10. /\ Single(s, f) => Absent(Tail(s), f)
        /\ \A n : AllOf(s, f, n) => Head(s).id = n
    BY <2>8, TakenOwn
  <2>11. Absent(inbox'[Srv(c)], f) /\ Absent(inbox'[Cli(c)], f)
    BY <2>3, <2>6, <2>9, <2>10 DEF s
  <2>12. Receiving(c) => h.id = myClosures[c][f]
    BY <2>4, <2>8, <2>9, <2>10
  <2>13. TokenOK(c, f)'
    BY <2>5, <2>7, <2>11, <2>12 DEF TokenOK, Absent, Single, AllOf, clientVars
  <2> QED
    BY <2>6, <2>7, <2>13 DEF CallOK
<1> QED
    BY <1>2, <1>3

\* No call is refused: while the service holds a closure of f, no call of f is on
\* its way.
LEMMA NeverRefused ==
    ASSUME TypeOK, PendingMatchesHeld, NEW c \in Clients, NEW f \in Funcs, CallOK(c, f)
    PROVE  ~DispatchRefused(c, f)
<1> SUFFICES ASSUME DispatchRefused(c, f)
             PROVE  FALSE
    OBVIOUS
<1>1. CallArrived(c, f) /\ f \in TwoWay /\ myPendingCalls[c][f] > 0
    BY DEF DispatchRefused, find_pending_call
<1>2. Held(c, f) # {}
  <2>1. myPendingCalls[c][f] \in {0, 1}
    BY DEF PendingMatchesHeld
  <2>2. myPendingCalls[c][f] = 1
    BY <1>1, <2>1
  <2> QED
    BY <2>2 DEF PendingMatchesHeld
<1>3. ~Absent(inbox[Srv(c)], f)
    BY <1>1, CallBelongs
<1> QED
    BY <1>1, <1>2, <1>3 DEF CallOK, TokenOK

\* A closure is called: afterwards none is held for the call, and a result stands
\* for it if the connection is up.
LEMMA ResultCalls ==
    ASSUME TypeOK, TypeOK', PendingMatchesHeld, ServiceNext, NEW h \in held,
           ResultSent(h), NEW c \in Clients, NEW f \in Funcs, CallOK(c, f), ThreadOK(c),
           inbox'[Srv(c)] = inbox[Srv(c)],
           \/ inbox'[Cli(c)] = inbox[Cli(c)] /\ (c = h.client => ~up[c])
           \/ /\ c = h.client
              /\ inbox'[Cli(c)] = Append(inbox[Cli(c)],
                                         serialize_call_result(h.func, h.id, "value"))
    PROVE  CallOK(c, f)'
<1> DEFINE m == serialize_call_result(h.func, h.id, "value")
<1>1. /\ h.client \in Clients /\ h.func \in TwoWay /\ h.id \in CallId
      /\ m \in Message /\ m.func = h.func /\ m.id = h.id /\ m.body = "value"
  <2>1. h.client \in Clients /\ h.func \in TwoWay /\ h.id \in CallId
    BY DEF TypeOK, ServiceTypeOK, Closures
  <2> QED
    BY <2>1 DEF serialize_call_result, Message, ResultMessages
<1> HIDE DEF m
<1>2. held' = held \ {h} /\ executed' = executed
    BY DEF ResultSent
<1>3. CASE c # h.client \/ f # h.func
  <2>1. Held(c, f)' = Held(c, f)
    BY <1>2, <1>3 DEF Held
  <2>2. Same(inbox[Srv(c)], inbox'[Srv(c)], f)
    BY CallTypes, SameInbox
  <2>3. Same(inbox[Cli(c)], inbox'[Cli(c)], f)
    BY <1>1, <1>3, CallTypes, SameInbox DEF m
  <2> QED
    BY <1>2, <2>1, <2>2, <2>3, ServiceKeepsCall
<1>4. CASE c = h.client /\ f = h.func
  <2>1. h \in Held(c, f) /\ f \in TwoWay
    BY <1>1, <1>4 DEF Held
  <2>2. /\ Held(c, f)' = {}
    BY <1>2, <2>1 DEF Held, PendingMatchesHeld
  <2>3. TokenOK(c, f)
    BY <2>1 DEF CallOK
  <2>4. Absent(inbox[Srv(c)], f) /\ Absent(inbox[Cli(c)], f)
    BY <2>1, <2>3 DEF TokenOK
  <2>5. /\ QueueOK(c, f)' /\ OutcomeOK(c, f)' /\ UNCHANGED clientVars
        /\ Receiving(c)' = Receiving(c) /\ LastSent(c, f)' = LastSent(c, f)
        /\ up'[c] => up[c]
    BY ClientSideKept
  <2>6. Receiving(c) => h.id = myClosures[c][f]
    BY <2>1, <2>3 DEF TokenOK
  <2>7. h.id <= Done(c, f) /\ Done(c, f)' = Done(c, f)
    BY <1>2, <2>1 DEF CallOK, ExecutionOK, Done
  <2>8. /\ ValuesUpTo(inbox'[Cli(c)], f, Done(c, f))
        /\ Single(inbox'[Cli(c)], f)
        /\ Receiving(c) => AllOf(inbox'[Cli(c)], f, myClosures[c][f])
        /\ up'[c] => ~Absent(inbox'[Cli(c)], f)
    <3>1. ValuesUpTo(inbox[Cli(c)], f, Done(c, f))
      BY DEF CallOK, ExecutionOK
    <3>2. CASE inbox'[Cli(c)] = inbox[Cli(c)] /\ ~up[c]
      BY <2>4, <2>5, <3>1, <3>2 DEF Absent, Single, AllOf
    <3>3. CASE inbox'[Cli(c)] = Append(inbox[Cli(c)], m)
      BY <1>1, <1>4, <2>4, <2>6, <2>7, <3>1, <3>3, CallTypes, AppendedOwn
    <3> QED
      BY <1>4, <3>2, <3>3 DEF m
  <2>9. ExecutionOK(c, f)'
    BY <1>2, <2>2, <2>5, <2>7, <2>8 DEF CallOK, ExecutionOK
  <2>10. TokenOK(c, f)'
    BY <2>2, <2>4, <2>5, <2>8 DEF TokenOK, Absent, Single, AllOf, clientVars
  <2> QED
    BY <2>5, <2>9, <2>10 DEF CallOK
<1> QED
    BY <1>3, <1>4

LEMMA ClosureStepCalls ==
    ASSUME TypeOK, TypeOK', RegisteredIsOpen, PendingMatchesHeld, ServiceNext,
           NEW h \in held, SendResult(h) \/ SendResultFails(h) \/ SendResultDisconnected(h),
           NEW c \in Clients, NEW f \in Funcs, CallOK(c, f), ThreadOK(c), AcceptOK(c)
    PROVE  CallOK(c, f)'
<1>0. h.client \in Clients
    BY DEF TypeOK, ServiceTypeOK, Closures
<1>1. CASE SendResult(h)
  <2> DEFINE m == serialize_call_result(h.func, h.id, "value")
  <2>1. ResultSent(h) /\ inbox' = Written(inbox, Srv(h.client), m)
    BY <1>1 DEF SendResult
  <2>2. CASE up[h.client]
    <3>1. inbox' = [inbox EXCEPT ![Cli(h.client)] = Append(@, m)]
      BY <1>0, <2>1, <2>2, Ends DEF Written
    <3> HIDE DEF m
    <3>2. /\ inbox'[Srv(c)] = inbox[Srv(c)]
          /\ c # h.client => inbox'[Cli(c)] = inbox[Cli(c)]
          /\ c = h.client => inbox'[Cli(c)] = Append(inbox[Cli(c)], m)
      BY <1>0, <3>1, Ends DEF TypeOK, TransportTypeOK
    <3> QED
      BY <2>1, <3>2, ResultCalls DEF m
  <2>3. CASE ~up[h.client]
    <3>1. inbox' = inbox
      BY <1>0, <2>1, <2>3, Ends DEF Written
    <3> QED
      BY <2>1, <2>3, <3>1, ResultCalls
  <2> QED
    BY <2>2, <2>3
<1>2. CASE SendResultFails(h)
  <2>1. ResultSent(h) /\ inbox' = inbox /\ ~up[h.client]
    BY <1>0, <1>2, Ends DEF SendResultFails, WriteMayFail
  <2> QED
    BY <2>1, ResultCalls
<1>3. CASE SendResultDisconnected(h) /\ ResultSent(h)
  <2>1. inbox' = inbox /\ h.client \notin myClients
    BY <1>3 DEF SendResultDisconnected, Crash
  <2>2. c = h.client => ~up[c]
    BY <1>0, <2>1, Ends
    DEF AcceptOK, RegisteredIsOpen, is_open, TypeOK, TransportTypeOK
  <2> QED
    BY <1>3, <2>1, <2>2, ResultCalls
<1>4. CASE Crash("archive")
    BY <1>4, QuietServiceSteps DEF Crash
<1> QED
    BY <1>1, <1>2, <1>3, <1>4 DEF SendResultDisconnected

\* All steps of the service keep the invariant.
LEMMA ServiceStepInv ==
    ASSUME Inv, TypeOK', ServiceNext
    PROVE  /\ \A c \in Clients : ThreadOK(c)' /\ AcceptOK(c)'
           /\ \A c \in Clients, f \in Funcs : CallOK(c, f)'
<1>1. /\ TypeOK /\ RegisteredIsOpen /\ PendingMatchesHeld
      /\ \A c \in Clients : ThreadOK(c) /\ AcceptOK(c)
      /\ \A c \in Clients, f \in Funcs : CallOK(c, f)
    BY DEF Inv
<1>2. \A c \in Clients : ThreadOK(c)' /\ AcceptOK(c)'
    BY <1>1, ServiceKeepsThreads, ServiceAccept DEF ServiceNext, TypeOK
<1>3. ASSUME NEW c \in Clients, NEW f \in Funcs
      PROVE  CallOK(c, f)'
  <2>0. CallOK(c, f) /\ ThreadOK(c) /\ AcceptOK(c)
    BY <1>1
  <2>1. CASE UNCHANGED <<inbox, held, executed>>
    BY <1>1, <2>0, <2>1, QuietServiceSteps
  <2>2. CASE Start \/ Stop \/ HandleAcceptAborted
    BY <2>1, <2>2 DEF Start, Stop, HandleAcceptAborted, Crash, transportVars
  <2>3. CASE Broadcast
    BY <1>1, <2>0, <2>3, EventCalls DEF Broadcast
  <2>4. ASSUME NEW bad, NEW reached, BroadcastFails(bad, reached)
        PROVE  CallOK(c, f)'
    BY <1>1, <2>0, <2>1, <2>4, EventCalls DEF BroadcastFails, Crash
  <2>5. CASE ClosureStep
    BY <1>1, <2>0, <2>5, ClosureStepCalls DEF ClosureStep
  <2>6. ASSUME NEW d \in Clients, ServiceLoopStep(d)
        PROVE  CallOK(c, f)'
    <3>1. CASE \/ OnClientAccepted(d) \/ AcceptedTooLate(d) \/ HandleServiceRecvError(d)
               \/ ServiceAssertFails(d) \/ HandleServiceHeader(d) \/ FuncReturns(d)
      BY <2>1, <3>1
      DEF OnClientAccepted, AcceptedTooLate, HandleServiceRecvError, ServiceAssertFails,
          HandleServiceHeader, HandleHeader, FuncReturns, ReadNextHeader, Crash, serviceVars
    <3>2. ASSUME NEW g \in Funcs, DispatchOneWay(d, g) \/ DispatchFunc(d, g)
          PROVE  CallOK(c, f)'
      BY <1>1, <2>0, <3>2, DispatchOneWayCalls, DispatchFuncCalls
    <3>3. ASSUME NEW g \in Funcs
          PROVE  ~DispatchRefused(d, g)
      BY <1>1, NeverRefused
    <3> QED
      BY <2>6, <3>1, <3>2, <3>3 DEF ServiceLoopStep
  <2> QED
    BY <2>2, <2>3, <2>4, <2>5, <2>6 DEF ServiceNext, ServiceStep, ServiceCodeStep
<1> QED
    BY <1>2, <1>3

------------------------------------------------------------------------------
(***************************************************************************)
(* The operating system.                                                   *)
(***************************************************************************)
LEMMA SystemStepInv ==
    ASSUME Inv, TypeOK', SystemNext \/ UNCHANGED vars
    PROVE  /\ \A c \in Clients : ThreadOK(c)' /\ AcceptOK(c)'
           /\ \A c \in Clients, f \in Funcs : CallOK(c, f)'
<1>1. /\ TypeOK
      /\ \A c \in Clients : ThreadOK(c) /\ AcceptOK(c)
      /\ \A c \in Clients, f \in Funcs : CallOK(c, f)
    BY DEF Inv
<1>2. UNCHANGED <<clientVars, serviceVars, myState, inbox, backlog>>
    BY DEF SystemNext, vars, transportVars, ReadCompletes, ReadFails, LinkBreaks
<1>3. ASSUME NEW c \in Clients
      PROVE  ThreadOK(c)' /\ AcceptOK(c)' /\ NoNewWork(c)
  <2>0. ThreadOK(c) /\ AcceptOK(c) /\ Cli(c) \in End /\ Srv(c) \in End
    BY <1>1, Ends
  <2>1. up'[c] => up[c]
    BY DEF SystemNext, vars, transportVars, ReadCompletes, ReadFails, LinkBreaks, LinksDown
  <2>2. ASSUME NEW e \in End, e[1] = c
        PROVE  \/ reading'[e] = reading[e]
               \/ reading[e] = "wait" /\ reading'[e] = "ready"
               \/ reading[e] = "wait" /\ reading'[e] = "failed" /\ ~up[c]
    <3>1. CASE reading' = reading
      BY <3>1
    <3>2. ASSUME NEW x \in End, ReadCompletes(x) \/ ReadFails(x)
          PROVE  \/ reading'[e] = reading[e]
                 \/ reading[e] = "wait" /\ reading'[e] = "ready"
                 \/ reading[e] = "wait" /\ reading'[e] = "failed" /\ ~up[c]
      BY <1>1, <2>2, <3>2 DEF ReadCompletes, ReadFails, TypeOK, TransportTypeOK
    <3> QED
      BY <3>1, <3>2 DEF SystemNext, vars, transportVars, LinkBreaks
  <2>3. \A e \in {Cli(c), Srv(c)} :
            \/ reading'[e] = reading[e]
            \/ reading[e] = "wait" /\ reading'[e] = "ready"
            \/ reading[e] = "wait" /\ reading'[e] = "failed" /\ ~up[c]
    BY <2>0, <2>2, Ends
  <2>4. ThreadOK(c)' /\ NoNewWork(c)
    BY <1>2, <2>0, <2>1, <2>3
    DEF ThreadOK, NoNewWork, Receiving, Calling, is_open, clientVars
  <2>5. AcceptOK(c)'
    BY <1>2, <2>0, <2>1, <2>3 DEF AcceptOK, serviceVars
  <2> QED
    BY <2>4, <2>5
<1>4. ASSUME NEW c \in Clients, NEW f \in Funcs
      PROVE  CallOK(c, f)'
  <2>1. CallKept(c, f)
    BY <1>1, <1>2, CallTypes, SameInbox DEF CallKept, clientVars, serviceVars, Held
  <2>2. NotifyKept(c, f)
    BY <1>1, <1>2 DEF NotifyKept, Untold, clientVars, CallOK, OutcomeOK
  <2> QED
    BY <1>1, <1>3, <2>1, <2>2, OtherCall
<1> QED
    BY <1>3, <1>4

------------------------------------------------------------------------------
(***************************************************************************)
(* The theorems.                                                           *)
(***************************************************************************)
LEMMA InitInv ==
    ASSUME Init
    PROVE  /\ \A c \in Clients : ThreadOK(c) /\ AcceptOK(c)
           /\ \A c \in Clients, f \in Funcs : CallOK(c, f)
<1> USE DEF Init, TransportInit, ClientInit, ServiceInit
<1>1. ASSUME NEW c \in Clients
      PROVE  ThreadOK(c) /\ AcceptOK(c)
    BY Ends DEF ThreadOK, AcceptOK, Calling
<1>2. ASSUME NEW c \in Clients, NEW f \in Funcs
      PROVE  CallOK(c, f)
  <2>1. /\ inbox[Srv(c)] = <<>> /\ inbox[Cli(c)] = <<>> /\ Held(c, f) = {}
        /\ executed[c][f] = <<>> /\ myClosures[c][f] = 0 /\ myCallQueue[c][f] = <<>>
        /\ issued[c][f] = 0 /\ f \notin InProgress(c) /\ ~up[c] /\ notify[c] = {}
        /\ \A n \in CallId : outcome[c][f][n] = "none"
        /\ ~is_open(Cli(c)) /\ ~Receiving(c) /\ ~Calling(c)
    BY Ends DEF Held, InProgress, is_open, Receiving, Calling
  <2>2. /\ LastSent(c, f) = 0 /\ Done(c, f) = 0
        /\ DOMAIN <<>> = {}
        /\ \A n \in CallId : n \in Nat /\ n > 0
    <3>1. Len(myCallQueue[c][f]) = 0 /\ Len(executed[c][f]) = 0
      BY <2>1
    <3> QED
      BY <2>1, <3>1, MessageIds, 0 - 0 = 0 DEF LastSent, Done
  <2>3. QueueOK(c, f)
    BY <2>1, <2>2 DEF QueueOK
  <2>4. ExecutionOK(c, f)
    <3>1. /\ \A i \in DOMAIN executed[c][f] : executed[c][f][i] = i
          /\ ValuesUpTo(inbox[Cli(c)], f, Done(c, f))
      BY <2>1, <2>2 DEF ValuesUpTo
    <3>2. InSequence(inbox[Srv(c)], f, Done(c, f), LastSent(c, f))
      BY <2>1, <2>2 DEF InSequence
    <3>3. Done(c, f) <= LastSent(c, f)
      BY <2>2
    <3> QED
      BY <2>1, <3>1, <3>2, <3>3 DEF ExecutionOK
  <2>5. TokenOK(c, f)
    BY <2>1, <2>2 DEF TokenOK, Absent, Single
  <2>6. OutcomeOK(c, f)
    BY <2>1, <2>2 DEF OutcomeOK, Untold
  <2> QED
    BY <2>3, <2>4, <2>5, <2>6 DEF CallOK
<1> QED
    BY <1>1, <1>2

\* Inv is inductive.  It is stronger than what the properties say: it also says
\* where the calls are that no closure waits for any more, and what is left of
\* them after close() and after a connection error.
THEOREM CallsCorrect == Spec => []Inv
<1>1. Init => /\ \A c \in Clients : ThreadOK(c) /\ AcceptOK(c)
              /\ \A c \in Clients, f \in Funcs : CallOK(c, f)
    BY InitInv
<1>2. /\ Inv /\ [Next]_vars /\ TypeOK' /\ RegisteredIsOpen' /\ PendingMatchesHeld'
      => Inv'
  <2> SUFFICES ASSUME Inv, [Next]_vars, TypeOK', RegisteredIsOpen', PendingMatchesHeld'
               PROVE  Inv'
    OBVIOUS
  <2>1. /\ \A c \in Clients : ThreadOK(c)' /\ AcceptOK(c)'
        /\ \A c \in Clients, f \in Funcs : CallOK(c, f)'
    BY ClientStepInv, ServiceStepInv, SystemStepInv DEF Next
  <2> QED
    BY <2>1 DEF Inv
<1>3. TypeOK /\ RegisteredIsOpen /\ PendingMatchesHeld /\ Init => Inv
    BY <1>1 DEF Inv
<1> QED
    BY <1>2, <1>3, TypeCorrect, RegisteredCorrect, PendingCorrect, PTL DEF Spec

\* The messages of a function as the properties of Cercall name them.
LEMMA SentMessages ==
    ASSUME NEW c \in Clients, NEW f \in Funcs
    PROVE  /\ CallsSent(c, f) = {} <=> Absent(inbox[Srv(c)], f)
           /\ ResultsSent(c, f) = {} <=> Absent(inbox[Cli(c)], f)
           /\ \A i \in CallsSent(c, f) :
                 /\ Single(inbox[Srv(c)], f) => CallsSent(c, f) = {i}
                 /\ \A n : AllOf(inbox[Srv(c)], f, n) => inbox[Srv(c)][i].id = n
           /\ \A i \in ResultsSent(c, f) :
                 /\ Single(inbox[Cli(c)], f) => ResultsSent(c, f) = {i}
                 /\ \A n : AllOf(inbox[Cli(c)], f, n) => inbox[Cli(c)][i].id = n
BY DEF CallsSent, ResultsSent, Absent, Single, AllOf

(***************************************************************************)
(* dispatch_result matches a result to a closure by the function's name    *)
(* alone; for any number of clients, functions and calls no closure is     *)
(* given the result of another call or an EINPROGRESS refusal, and "closure *)
(* not found for function result" is never thrown.                         *)
(***************************************************************************)
THEOREM ResultsMatchCorrect == Spec => []ResultsMatchCalls
<1>1. Inv => ResultsMatchCalls
    BY DEF Inv, ThreadOK, CallOK, OutcomeOK, Untold, ResultsMatchCalls
<1> QED
    BY <1>1, CallsCorrect, PTL

(***************************************************************************)
(* While a client dispatches messages, one thing at most stands for its    *)
(* call of a function - the message of send_call, the closure of the       *)
(* service function, or the message of send_result - and it belongs to the *)
(* closure in myClosures.                                                  *)
(***************************************************************************)
THEOREM OneTokenCorrect == Spec => []OneTokenPerCall
<1>1. Inv => OneTokenPerCall
  <2> SUFFICES ASSUME Inv, NEW c \in Clients, NEW f \in TwoWay, Receiving(c)
               PROVE  /\ \A i \in CallsSent(c, f) :
                            /\ inbox[Srv(c)][i].id = myClosures[c][f]
                            /\ CallsSent(c, f) = {i} /\ ResultsSent(c, f) = {}
                            /\ Held(c, f) = {}
                      /\ \A h \in Held(c, f) :
                            /\ h.id = myClosures[c][f]
                            /\ ResultsSent(c, f) = {} /\ Held(c, f) = {h}
                      /\ \A i \in ResultsSent(c, f) :
                            /\ inbox[Cli(c)][i].id = myClosures[c][f]
                            /\ ResultsSent(c, f) = {i}
    BY DEF OneTokenPerCall
  <2>1. f \in Funcs /\ TokenOK(c, f) /\ \A g, h \in Held(c, f) : g = h
    BY DEF Inv, CallOK, TwoWay, PendingMatchesHeld
  <2>2. ASSUME NEW i \in CallsSent(c, f)
        PROVE  /\ inbox[Srv(c)][i].id = myClosures[c][f]
               /\ CallsSent(c, f) = {i} /\ ResultsSent(c, f) = {} /\ Held(c, f) = {}
    BY <2>1, SentMessages DEF TokenOK
  <2>3. ASSUME NEW h \in Held(c, f)
        PROVE  /\ h.id = myClosures[c][f]
               /\ ResultsSent(c, f) = {} /\ Held(c, f) = {h}
    BY <2>1, SentMessages DEF TokenOK
  <2>4. ASSUME NEW i \in ResultsSent(c, f)
        PROVE  inbox[Cli(c)][i].id = myClosures[c][f] /\ ResultsSent(c, f) = {i}
    BY <2>1, SentMessages DEF TokenOK
  <2> QED
    BY <2>2, <2>3, <2>4
<1> QED
    BY <1>1, CallsCorrect, PTL

(***************************************************************************)
(* No call is lost: while the connection is up, a closure in myClosures    *)
(* has its call, its result, or the closure of the service function.       *)
(***************************************************************************)
THEOREM NoCallLostCorrect == Spec => []NoCallLost
<1>1. Inv => NoCallLost
  <2> SUFFICES ASSUME Inv, NEW c \in Clients, NEW f \in TwoWay, up[c], f \in InProgress(c)
               PROVE  CallsSent(c, f) \cup ResultsSent(c, f) \cup Held(c, f) # {}
    BY DEF NoCallLost
  <2>1. f \in Funcs /\ TokenOK(c, f)
    BY DEF Inv, CallOK, TwoWay
  <2>2. CallsSent(c, f) # {} \/ ResultsSent(c, f) # {} \/ Held(c, f) # {}
    BY <2>1, SentMessages DEF TokenOK
  <2> QED
    BY <2>2
<1> QED
    BY <1>1, CallsCorrect, PTL

(***************************************************************************)
(* myCallQueue strands no call of a working client: calls wait only behind *)
(* one in progress, and are the ones made right after it, in order, for    *)
(* every MaxCallsInProgress.                                               *)
(***************************************************************************)
THEOREM QueueCorrect == Spec => []QueueFollowsCall
<1>1. Inv => QueueFollowsCall
  <2> SUFFICES ASSUME Inv, NEW c \in Clients, NEW f \in TwoWay, Receiving(c),
                      myCallQueue[c][f] # <<>>
               PROVE  /\ f \in InProgress(c)
                      /\ \A i \in DOMAIN myCallQueue[c][f] :
                            myCallQueue[c][f][i] = myClosures[c][f] + i
    BY DEF QueueFollowsCall
  <2>1. QueueOK(c, f)
    BY DEF Inv, CallOK, TwoWay
  <2> QED
    BY <2>1 DEF QueueOK
<1> QED
    BY <1>1, CallsCorrect, PTL

\* The closures of one function are given their values in the order of the calls,
\* also when some of the calls waited in myCallQueue.
THEOREM ResultsOrderCorrect == Spec => []ResultsInOrder
<1>1. Inv => ResultsInOrder
    BY DEF Inv, CallOK, OutcomeOK, Untold, ResultsInOrder, TwoWay
<1> QED
    BY <1>1, CallsCorrect, PTL

\* dispatch_func and the one-way dispatch execute the calls of a function once
\* each, in the order of send_call and without gaps.
THEOREM ExecutionCorrect == Spec => []ExecutedOnceInOrder
<1>1. Inv => ExecutedOnceInOrder
    BY DEF Inv, CallOK, ExecutionOK, ExecutedOnceInOrder
<1> QED
    BY <1>1, CallsCorrect, PTL

------------------------------------------------------------------------------
(***************************************************************************)
(* Cercall implements AtMostOnce.                                          *)
(***************************************************************************)
promiseVars == <<issued, executed, outcome>>

\* The four outcomes of send_call are calls.
LEMMA SendRefines ==
    ASSUME TypeOK, NEW c \in Clients, NEW f \in Funcs, CallOK(c, f),
           \/ SendNow(c, f) \/ SendFails(c, f) \/ SendQueued(c, f) \/ SendOneWay(c, f),
           UNCHANGED serviceVars
    PROVE  Promise!Call(c, f)
<1>1. MaySend(c, f) /\ CallIssued(c, f)
    BY DEF SendNow, SendFails, SendQueued, SendOneWay
<1>2. /\ issued[c][f] < MaxCalls /\ issued' = [issued EXCEPT ![c][f] = @ + 1]
      /\ executed' = executed
    BY <1>1 DEF MaySend, CallIssued, serviceVars
<1>3. CASE f \in TwoWay
  <2>1. f \notin OneWay /\ ~SendOneWay(c, f)
    BY <1>3 DEF TwoWay, SendOneWay
  <2>2. \E told \in {"open", "error"} :
            outcome' = [outcome EXCEPT ![c][f][issued[c][f] + 1] = told]
    BY <2>1 DEF SendNow, SendFails, SendQueued, NextId
  <2> QED
    BY <1>2, <2>1, <2>2 DEF Promise!Call
<1>4. CASE f \in OneWay
  <2>1. outcome' = outcome
    BY <1>4 DEF SendOneWay, SendNow, SendFails, SendQueued, TwoWay
  <2>2. /\ issued[c][f] + 1 \in CallId
        /\ outcome[c][f][issued[c][f] + 1] = "none"
        /\ outcome \in [Clients -> [Funcs -> [CallId -> Outcomes]]]
    <3>1. NextId(c, f) \in CallId /\ NextId(c, f) = issued[c][f] + 1 /\ issued[c][f] \in Nat
      BY <1>1, NextCall
    <3> QED
      BY <3>1 DEF CallOK, OutcomeOK, Untold, TypeOK, ClientTypeOK
  <2>3. outcome = [outcome EXCEPT ![c][f][issued[c][f] + 1] = "none"]
    BY <2>2
  <2> QED
    BY <1>2, <1>4, <2>1, <2>3 DEF Promise!Call
<1> QED
    BY <1>3, <1>4 DEF TwoWay

\* dispatch_func executes the first call that is not executed.
LEMMA ExecuteRefines ==
    ASSUME TypeOK, NEW c \in Clients, NEW f \in Funcs, CallOK(c, f),
           DispatchOneWay(c, f) \/ DispatchFunc(c, f), UNCHANGED clientVars
    PROVE  Promise!Execute(c, f)
<1>1. CallArrived(c, f) /\ FuncCalled(c, f)
    BY DEF DispatchOneWay, DispatchFunc
<1>2. /\ CallNumber(c) = Len(executed[c][f]) + 1
      /\ Len(executed[c][f]) + 1 <= LastSent(c, f)
    BY <1>1, CallBelongs DEF Done
<1>3. Len(executed[c][f]) < issued[c][f]
  <2>1. /\ LastSent(c, f) <= issued[c][f] /\ LastSent(c, f) \in Int
        /\ Len(executed[c][f]) \in Nat /\ issued[c][f] \in Nat
    BY CallTypes DEF LastSent
  <2> QED
    BY <1>2, <2>1
<1>4. executed' = [executed EXCEPT ![c][f] = Append(@, Len(@) + 1)]
    BY <1>1, <1>2 DEF FuncCalled
<1> QED
    BY <1>3, <1>4 DEF Promise!Execute, clientVars

\* dispatch_result answers the first call that waits.
LEMMA ResultRefines ==
    ASSUME TypeOK, NEW c \in Clients, NEW f \in Funcs, CallOK(c, f),
           DispatchResult(c, f) \/ DispatchResultAndSendNext(c, f), UNCHANGED serviceVars
    PROVE  \E n \in 1..MaxCalls : Promise!Answer(c, f, n)
<1> DEFINE n == myClosures[c][f]
<1>1. ResultArrived(c, f) /\ issued' = issued
    BY DEF DispatchResult, DispatchResultAndSendNext
<1>2. /\ n \in CallId /\ n <= Len(executed[c][f]) /\ f \in InProgress(c)
      /\ Told(Head(inbox[Cli(c)]), n) = "value"
    BY <1>1, ResultBelongs DEF Done, Told
<1>3. outcome' = [outcome EXCEPT ![c][f][n] = "value"]
    BY <1>2 DEF DispatchResult, DispatchResultAndSendNext
<1>4. outcome[c][f][n] = "open" /\ \A m \in CallId : m < n => outcome[c][f][m] = "value"
    BY ResultTold
<1>5. n \in 1..MaxCalls /\ \A m \in 1..(n-1) : m \in CallId /\ m < n
    BY <1>2, BoundsAssumption DEF CallId
<1>6. executed' = executed
    BY DEF serviceVars
<1> HIDE DEF n
<1>7. Promise!Answer(c, f, n)
    BY <1>1, <1>2, <1>3, <1>4, <1>5, <1>6 DEF Promise!Answer
<1> QED
    BY <1>5, <1>7

\* dispatch_connection_error gives the error to a closure that waits.
LEMMA ErrorRefines ==
    ASSUME TypeOK, NEW c \in Clients, NEW f \in Funcs, CallOK(c, f),
           DispatchErrorToClosure(c, f), UNCHANGED serviceVars, FewFunctions
    PROVE  \E n \in 1..MaxCalls : Promise!Fail(c, f, n)
<1> DEFINE n == myClosures[c][f]
<1>1. n \in CallId /\ outcome[c][f][n] = "open"
    BY ErrorTold
<1>2. /\ outcome' = [outcome EXCEPT ![c][f][n] = "error"]
      /\ issued' = issued /\ executed' = executed
    BY <1>1 DEF DispatchErrorToClosure, ErrorOutcome, serviceVars
<1> HIDE DEF n
<1> QED
    BY <1>1, <1>2 DEF Promise!Fail, CallId

(***************************************************************************)
(* Seen from the user, a service and its clients are AtMostOnce, for any   *)
(* number of clients and calls: send_call is Call, dispatch_func Execute,  *)
(* dispatch_result Answer, dispatch_connection_error Fail, and no other    *)
(* step of clients, service and operating system can be seen.  The         *)
(* interface has no more two-way functions than fit into myClosures: with  *)
(* more of them a call made by an error closure may rehash the map in the  *)
(* loop of dispatch_connection_error, which then calls closures again.     *)
(***************************************************************************)
THEOREM PromiseKept ==
    ASSUME FewFunctions
    PROVE  Spec => ImplementsAtMostOnce
<1>1. Init => Promise!Init
    BY DEF Init, ClientInit, ServiceInit, Promise!Init, CallId
<1>2. Inv /\ [Next]_vars => [Promise!Next]_promiseVars
  <2> SUFFICES ASSUME Inv, [Next]_vars
               PROVE  Promise!Next \/ UNCHANGED promiseVars
    BY DEF promiseVars
  <2>0. /\ TypeOK /\ PendingMatchesHeld
        /\ \A c \in Clients, f \in Funcs : CallOK(c, f)
    BY DEF Inv
  <2>1. CASE SystemNext \/ UNCHANGED vars
    BY <2>1 DEF SystemNext, vars, clientVars, serviceVars, promiseVars
  <2>2. ASSUME NEW c \in Clients, ClientNext(c)
        PROVE  Promise!Next \/ UNCHANGED promiseVars
    <3>0. UNCHANGED serviceVars /\ (UserStep(c) \/ ClientLoopStep(c))
      BY <2>2 DEF ClientNext, ClientStep
    <3>1. CASE \/ Open(c) \/ Close(c) \/ Destroy(c) \/ HandleClientHeader(c)
               \/ DispatchEvent(c) \/ HandlerReturns(c) \/ HandleClientRecvError(c)
               \/ ErrorClosureReturns(c) \/ EndErrors(c) \/ HandleClientAborted(c)
               \/ ClientAssertFails(c)
      BY <3>0, <3>1
      DEF Open, Close, Destroy, HandleClientHeader, DispatchEvent, HandlerReturns,
          HandleClientRecvError, ErrorClosureReturns, EndErrors, HandleClientAborted,
          ClientAssertFails, clientVars, serviceVars, promiseVars
    <3>2. ASSUME NEW f \in Funcs,
                 SendNow(c, f) \/ SendFails(c, f) \/ SendQueued(c, f) \/ SendOneWay(c, f)
          PROVE  Promise!Next
      BY <2>0, <3>0, <3>2, SendRefines DEF Promise!Next
    <3>3. ASSUME NEW f \in Funcs, DispatchResult(c, f) \/ DispatchResultAndSendNext(c, f)
          PROVE  Promise!Next
      BY <2>0, <3>0, <3>3, ResultRefines DEF Promise!Next
    <3>4. ASSUME NEW f \in Funcs, DispatchErrorToClosure(c, f)
          PROVE  Promise!Next
      BY <2>0, <3>0, <3>4, ErrorRefines DEF Promise!Next
    <3> QED
      BY <3>0, <3>1, <3>2, <3>3, <3>4 DEF UserStep, ClientLoopStep
  <2>3. CASE ServiceNext
    <3>0. UNCHANGED clientVars /\ ServiceStep
      BY <2>3 DEF ServiceNext
    <3>1. CASE executed' = executed
      BY <3>0, <3>1 DEF clientVars, promiseVars
    <3>2. CASE ServiceCodeStep \/ HandleAcceptAborted
      BY <3>1, <3>2
      DEF ServiceCodeStep, HandleAcceptAborted, Start, Stop, Broadcast, BroadcastFails, Crash
    <3>3. CASE ClosureStep
      BY <3>1, <3>3
      DEF ClosureStep, SendResult, SendResultFails, SendResultDisconnected, ResultSent, Crash
    <3>4. ASSUME NEW c \in Clients, ServiceLoopStep(c)
          PROVE  Promise!Next \/ UNCHANGED promiseVars
      <4>1. CASE \/ OnClientAccepted(c) \/ AcceptedTooLate(c) \/ HandleServiceRecvError(c)
                 \/ ServiceAssertFails(c) \/ HandleServiceHeader(c) \/ FuncReturns(c)
        BY <3>1, <4>1
        DEF OnClientAccepted, AcceptedTooLate, HandleServiceRecvError, ServiceAssertFails,
            HandleServiceHeader, FuncReturns, Crash, serviceVars
      <4>2. ASSUME NEW f \in Funcs, DispatchOneWay(c, f) \/ DispatchFunc(c, f)
            PROVE  Promise!Next
        BY <2>0, <3>0, <4>2, ExecuteRefines DEF Promise!Next
      <4>3. ASSUME NEW f \in Funcs
            PROVE  ~DispatchRefused(c, f)
        BY <2>0, NeverRefused
      <4> QED
        BY <3>4, <4>1, <4>2, <4>3 DEF ServiceLoopStep
    <3> QED
      BY <3>0, <3>2, <3>3, <3>4 DEF ServiceStep
  <2> QED
    BY <2>1, <2>2, <2>3 DEF Next
<1> QED
    BY <1>1, <1>2, CallsCorrect, PTL DEF Spec, ImplementsAtMostOnce, Promise!Spec, promiseVars
==============================================================================
