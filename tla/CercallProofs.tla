---------------------------- MODULE CercallProofs ----------------------------
(***************************************************************************)
(* Proofs about Cercall for any set of clients and functions, any bounds   *)
(* and any MaxCallsInProgress.  The steps of the service are in            *)
(* ServiceProofs, the steps of the clients here.                           *)
(***************************************************************************)
EXTENDS Cercall, ServiceProofs

------------------------------------------------------------------------------
(***************************************************************************)
(* Type correctness.                                                       *)
(***************************************************************************)

\* The user's calls keep the types.
LEMMA UserStepType ==
    ASSUME TransportTypeOK, ClientTypeOK, NEW c \in Clients, UserStep(c)
    PROVE  TransportTypeOK' /\ ClientTypeOK'
<1>0. InboxOK(inbox)
    BY DEF TransportTypeOK, InboxOK
<1>1. CASE Open(c)
    BY <1>1, Ends DEF Open, TransportTypeOK, ClientTypeOK, clientVars
<1>2. CASE Close(c)
    BY <1>2, Closing DEF Close, TransportTypeOK, ClientTypeOK, clientVars
<1>3. CASE Destroy(c)
    BY <1>3, Closing, Ends DEF Destroy, TransportTypeOK, ClientTypeOK
<1>4. ASSUME NEW f \in Funcs, MaySend(c, f)
      PROVE  /\ NextId(c, f) \in CallId
             /\ serialize_call(f, NextId(c, f)) \in CallMessages
             /\ CallIssued(c, f) => issued' \in [Clients -> [Funcs -> 0..MaxCalls]]
  <2>1. NextId(c, f) \in CallId /\ issued[c][f] + 1 \in 0..MaxCalls
    BY <1>4, BoundsAssumption DEF MaySend, NextId, CallId, ClientTypeOK
  <2>2. serialize_call(f, NextId(c, f)) \in CallMessages
    BY <2>1 DEF serialize_call, CallMessages
  <2>3. CallIssued(c, f) => issued' \in [Clients -> [Funcs -> 0..MaxCalls]]
    BY <2>1 DEF CallIssued, ClientTypeOK
  <2> QED
    BY <2>1, <2>2, <2>3
<1>5. ASSUME NEW f \in Funcs, SendNow(c, f)
      PROVE  TransportTypeOK' /\ ClientTypeOK'
  <2>0. MaySend(c, f)
    BY <1>5 DEF SendNow
  <2>1. TransportTypeOK'
    <3>1. /\ InboxOK(inbox')
          /\ \A e \in End : inbox[e] # <<>> => inbox'[e] # <<>>
      BY <1>0, <1>4, <1>5, <2>0, WrittenOK DEF SendNow
    <3> QED
      BY <1>5, <3>1, TransportTypeByParts DEF SendNow, TransportTypeOK
  <2>2. myClosures' \in [Clients -> [Funcs -> 0..MaxCalls]]
    BY <1>4, <1>5 DEF SendNow, ClientTypeOK, CallId
  <2>3. outcome' \in [Clients -> [Funcs -> [CallId -> Outcomes]]]
    BY <1>4, <1>5 DEF SendNow, ClientTypeOK, Outcomes
  <2>4. notify' \in [Clients -> SUBSET Funcs]
    <3>1. notify \in [Clients -> SUBSET Funcs]
      BY DEF ClientTypeOK
    <3>2. notify[c] \in SUBSET Funcs /\ StillVisited(c, f) \subseteq SUBSET Funcs
      BY <1>5, <3>1 DEF StillVisited, InProgress
    <3>3. \E visited \in SUBSET Funcs : notify' = [notify EXCEPT ![c] = visited]
      BY <1>5, <3>2 DEF SendNow, NotifyAdded
    <3> QED
      BY <3>1, <3>3
  <2> QED
    BY <1>4, <1>5, <2>1, <2>2, <2>3, <2>4 DEF SendNow, ClientTypeOK
<1>6. ASSUME NEW f \in Funcs, SendFails(c, f)
      PROVE  TransportTypeOK' /\ ClientTypeOK'
  <2>1. TransportTypeOK'
    BY <1>6, Closing DEF SendFails, TransportTypeOK
  <2>3. outcome' \in [Clients -> [Funcs -> [CallId -> Outcomes]]]
    BY <1>4, <1>6 DEF SendFails, ClientTypeOK, Outcomes
  <2> QED
    BY <1>4, <1>6, <2>1, <2>3 DEF SendFails, ClientTypeOK
<1>7. ASSUME NEW f \in Funcs, SendQueued(c, f)
      PROVE  TransportTypeOK' /\ ClientTypeOK'
  <2>1. TransportTypeOK'
    BY <1>7 DEF SendQueued, TransportTypeOK, transportVars
  <2>2. outcome' \in [Clients -> [Funcs -> [CallId -> Outcomes]]]
    BY <1>4, <1>7 DEF SendQueued, ClientTypeOK, Outcomes
  <2>3. /\ Append(myCallQueue[c][f], NextId(c, f)) \in Seq(CallId)
        /\ Len(Append(myCallQueue[c][f], NextId(c, f))) = Len(myCallQueue[c][f]) + 1
        /\ Len(myCallQueue[c][f]) \in Nat
    BY <1>4, <1>7, AppendProperties DEF SendQueued, ClientTypeOK
  <2>4. myCallQueue' \in [Clients -> [Funcs -> Seq(CallId)]]
    BY <1>7, <2>3 DEF SendQueued, enqueue_call, ClientTypeOK
  <2>5. \A d \in Clients, g \in Funcs :
            Len(myCallQueue'[d][g]) <= MaxCallsInProgress - 1
    BY <1>7, <2>3, ClientAssumption DEF SendQueued, enqueue_call, can_enqueue, ClientTypeOK
  <2> QED
    BY <1>4, <1>7, <2>1, <2>2, <2>4, <2>5 DEF SendQueued, ClientTypeOK
<1>8. ASSUME NEW f \in Funcs, SendOneWay(c, f)
      PROVE  TransportTypeOK' /\ ClientTypeOK'
  <2>1. TransportTypeOK'
    <3>1. CASE inbox' = Written(inbox, Cli(c), serialize_call(f, NextId(c, f)))
               /\ UNCHANGED <<myState, reading>>
      <4>1. /\ InboxOK(inbox')
            /\ \A e \in End : inbox[e] # <<>> => inbox'[e] # <<>>
        BY <1>0, <1>4, <1>8, <3>1, WrittenOK DEF SendOneWay
      <4> QED
        BY <1>8, <3>1, <4>1, TransportTypeByParts DEF SendOneWay, TransportTypeOK
    <3>2. CASE /\ myState' = StateClosed({Cli(c)})
               /\ reading' = ReadsCancelled({Cli(c)})
               /\ UNCHANGED inbox
      BY <1>8, <3>2, Closing DEF SendOneWay, TransportTypeOK
    <3> QED
      BY <1>8, <3>1, <3>2 DEF SendOneWay
  <2> QED
    BY <1>4, <1>8, <2>1 DEF SendOneWay, ClientTypeOK
<1> QED
    BY <1>1, <1>2, <1>3, <1>5, <1>6, <1>7, <1>8 DEF UserStep

\* The handlers of a client's event loop keep the types.
LEMMA ClientLoopStepType ==
    ASSUME TransportTypeOK, ClientTypeOK, NEW c \in Clients, ClientLoopStep(c)
    PROVE  TransportTypeOK' /\ ClientTypeOK'
<1>1. CASE HandleClientHeader(c)
    BY <1>1, Ends
    DEF HandleClientHeader, HandleHeader, ReadStarted, TransportTypeOK, ClientTypeOK,
        clientVars
<1>2. CASE DispatchEvent(c)
  <2>1. /\ InboxOK(inbox')
        /\ \A d \in End : d # Cli(c) /\ inbox[d] # <<>> => inbox'[d] # <<>>
    BY <1>2, ConsumedOK, Ends DEF DispatchEvent, MessageArrived
  <2>2. /\ reading' \in [End -> {"none", "wait", "ready", "failed", "aborted"}]
        /\ \A d \in End : reading'[d] = "ready" => inbox'[d] # <<>>
    BY <1>2, <2>1, ReadHandled, Ends DEF DispatchEvent, Received
  <2> QED
    BY <1>2, <2>1, <2>2, TransportTypeByParts DEF DispatchEvent, TransportTypeOK, ClientTypeOK
<1>3. CASE HandlerReturns(c)
    BY <1>3, Ends
    DEF HandlerReturns, ReadNextHeader, ReadStarted, TransportTypeOK, ClientTypeOK
<1>4. CASE HandleClientRecvError(c)
    BY <1>4, Ends
    DEF HandleClientRecvError, Received, InProgress, TransportTypeOK, ClientTypeOK
<1>5. CASE ErrorClosureReturns(c)
    BY <1>5 DEF ErrorClosureReturns, TransportTypeOK, ClientTypeOK, transportVars
<1>6. CASE EndErrors(c)
    BY <1>6, Closing, BoundsAssumption DEF EndErrors, TransportTypeOK, ClientTypeOK
<1>7. CASE HandleClientAborted(c)
    BY <1>7, Ends
    DEF HandleClientAborted, Received, TransportTypeOK, ClientTypeOK, clientVars
<1>8. CASE ClientAssertFails(c)
    BY <1>8, Ends DEF ClientAssertFails, Received, TransportTypeOK, ClientTypeOK
<1>9. ASSUME NEW f \in Funcs, ResultArrived(c, f)
      PROVE  /\ Head(inbox[Cli(c)]) \in ResultMessages
             /\ \A n : Told(Head(inbox[Cli(c)]), n) \in Outcomes
  <2>1. Head(inbox[Cli(c)]) \in ResultMessages \cup EventMessages
    BY <1>9, Inboxes DEF ResultArrived, MessageArrived
  <2>2. Head(inbox[Cli(c)]) \notin EventMessages
    BY <1>9 DEF ResultArrived, EventMessages
  <2> QED
    BY <2>1, <2>2 DEF ResultMessages, Told, Outcomes
<1>10. ASSUME NEW f \in Funcs, DispatchResult(c, f)
       PROVE  TransportTypeOK' /\ ClientTypeOK'
  <2>1. ResultArrived(c, f) /\ reading[Cli(c)] = "ready"
    BY <1>10 DEF DispatchResult, ResultArrived, MessageArrived
  <2>2. /\ InboxOK(inbox')
        /\ \A d \in End : d # Cli(c) /\ inbox[d] # <<>> => inbox'[d] # <<>>
    BY <1>10, <2>1, ConsumedOK, Ends DEF DispatchResult
  <2>3. TransportTypeOK'
    <3>1. /\ reading' \in [End -> {"none", "wait", "ready", "failed", "aborted"}]
          /\ \A d \in End : reading'[d] = "ready" => inbox'[d] # <<>>
      BY <1>10, <2>2, ReadHandled, Ends DEF DispatchResult, Received
    <3> QED
      BY <1>10, <2>2, <3>1, TransportTypeByParts DEF DispatchResult, TransportTypeOK
  <2>4. outcome' \in [Clients -> [Funcs -> [CallId -> Outcomes]]]
    BY <1>9, <1>10, <2>1 DEF DispatchResult, ClientTypeOK
  <2>5. myClosures' \in [Clients -> [Funcs -> 0..MaxCalls]]
    BY <1>10, BoundsAssumption DEF DispatchResult, ClosureErased, ClientTypeOK
  <2> QED
    BY <1>10, <2>3, <2>4, <2>5 DEF DispatchResult, ClientTypeOK
<1>11. ASSUME NEW f \in Funcs, DispatchResultAndSendNext(c, f)
       PROVE  TransportTypeOK' /\ ClientTypeOK'
  <2>1. ResultArrived(c, f) /\ reading[Cli(c)] = "ready"
    BY <1>11 DEF DispatchResultAndSendNext, dequeue_call, ResultArrived, MessageArrived
  <2>2. /\ Head(myCallQueue[c][f]) \in CallId
        /\ Tail(myCallQueue[c][f]) \in Seq(CallId)
        /\ Len(Tail(myCallQueue[c][f])) <= MaxCallsInProgress - 1
    BY <1>11, ClientAssumption, HeadTailProperties
    DEF DispatchResultAndSendNext, dequeue_call, NextWaits, is_enqueued, ClientTypeOK
  <2>3. myCallQueue' \in [Clients -> [Funcs -> Seq(CallId)]]
    BY <1>11, <2>2 DEF DispatchResultAndSendNext, dequeue_call, ClientTypeOK
  <2>4. \A d \in Clients, g \in Funcs :
            Len(myCallQueue'[d][g]) <= MaxCallsInProgress - 1
    BY <1>11, <2>2 DEF DispatchResultAndSendNext, dequeue_call, ClientTypeOK
  <2>5. outcome' \in [Clients -> [Funcs -> [CallId -> Outcomes]]]
    BY <1>9, <1>11, <2>1 DEF DispatchResultAndSendNext, dequeue_call, ClientTypeOK
  <2>6. myClosures' \in [Clients -> [Funcs -> 0..MaxCalls]]
    BY <1>11, <2>2 DEF DispatchResultAndSendNext, dequeue_call, ClientTypeOK, CallId
  <2>7. ClientTypeOK'
    BY <1>11, <2>3, <2>4, <2>5, <2>6 DEF DispatchResultAndSendNext, dequeue_call, ClientTypeOK
  <2>8. /\ InboxOK(Consumed(Cli(c)))
        /\ \A d \in End : d # Cli(c) /\ inbox[d] # <<>> => Consumed(Cli(c))[d] # <<>>
    BY <2>1, ConsumedOK, Ends
  <2>9. serialize_call(f, Head(myCallQueue[c][f])) \in CallMessages
    BY <2>2 DEF serialize_call, CallMessages
  <2>10. /\ InboxOK(inbox')
         /\ \A d \in End : d # Cli(c) /\ inbox[d] # <<>> => inbox'[d] # <<>>
    <3>1. CASE inbox' = Consumed(Cli(c))
      BY <2>8, <3>1
    <3>2. CASE inbox' = Written(Consumed(Cli(c)), Cli(c),
                                serialize_call(f, Head(myCallQueue[c][f])))
      BY <2>8, <2>9, <3>2, WrittenOK
    <3> QED
      BY <1>11, <3>1, <3>2 DEF DispatchResultAndSendNext, dequeue_call
  <2>11. myState' \in [End -> {"NEW", "OPEN", "CLOSED"}]
    <3>1. StateClosed({Cli(c)}) \in [End -> {"NEW", "OPEN", "CLOSED"}]
      BY Closing
    <3>2. myState' = myState \/ myState' = StateClosed({Cli(c)})
      BY <1>11 DEF DispatchResultAndSendNext, dequeue_call
    <3> QED
      BY <3>1, <3>2 DEF TransportTypeOK
  <2>12. TransportTypeOK'
    <3>1. /\ reading' \in [End -> {"none", "wait", "ready", "failed", "aborted"}]
          /\ \A d \in End : reading'[d] = "ready" => inbox'[d] # <<>>
      BY <1>11, <2>10, ReadHandled, Ends DEF DispatchResultAndSendNext, dequeue_call, Received
    <3> QED
      BY <1>11, <2>10, <2>11, <3>1, TransportTypeByParts
      DEF DispatchResultAndSendNext, dequeue_call, TransportTypeOK
  <2> QED
    BY <2>7, <2>12
<1>12. ASSUME NEW f \in Funcs, DispatchErrorToClosure(c, f)
       PROVE  TransportTypeOK' /\ ClientTypeOK'
  <2>0. \A before : ErrorOutcome(before) \in Outcomes
    BY DEF ErrorOutcome, Outcomes
  <2>1. outcome' \in [Clients -> [Funcs -> [CallId -> Outcomes]]]
    BY <1>12, <2>0 DEF DispatchErrorToClosure, ClientTypeOK
  <2> QED
    BY <1>12, <2>1
    DEF DispatchErrorToClosure, TransportTypeOK, ClientTypeOK, transportVars
<1> QED
    BY <1>1, <1>2, <1>3, <1>4, <1>5, <1>6, <1>7, <1>8, <1>10, <1>11, <1>12
    DEF ClientLoopStep

(***************************************************************************)
(* Every state variable keeps its type: in particular no result or event   *)
(* reaches the service and no call a client, a completed read always finds *)
(* its message in the inbox, and a function's queue of waiting calls is    *)
(* never longer than MaxCallsInProgress - 1.                               *)
(***************************************************************************)
THEOREM TypeCorrect == Spec => []TypeOK
<1>1. Init => TypeOK
  <2> SUFFICES ASSUME Init PROVE TypeOK
    OBVIOUS
  <2>0. ASSUME NEW S PROVE <<>> \in Seq(S) /\ Len(<<>>) = 0
    OBVIOUS
  <2>1. TransportTypeOK /\ ServiceTypeOK
    BY ServiceInitType DEF Init
  <2>2. ClientTypeOK
    <3>1. myCallQueue \in [Clients -> [Funcs -> Seq(CallId)]]
      BY <2>0 DEF Init, ClientInit
    <3>2. \A c \in Clients, f \in Funcs : Len(myCallQueue[c][f]) <= MaxCallsInProgress - 1
      BY <2>0, ClientAssumption DEF Init, ClientInit
    <3>3. outcome \in [Clients -> [Funcs -> [CallId -> Outcomes]]]
      BY DEF Init, ClientInit, Outcomes
    <3> QED
      BY <3>1, <3>2, <3>3, BoundsAssumption DEF Init, ClientInit, ClientTypeOK
  <2> QED
    BY <2>1, <2>2 DEF TypeOK
<1>2. TypeOK /\ [Next]_vars => TypeOK'
  <2> SUFFICES ASSUME TypeOK, [Next]_vars
               PROVE  TypeOK'
    OBVIOUS
  <2>1. TransportTypeOK /\ ClientTypeOK /\ ServiceTypeOK
    BY DEF TypeOK
  <2>2. ASSUME NEW c \in Clients, ClientNext(c)
        PROVE  TypeOK'
    <3>1. TransportTypeOK' /\ ClientTypeOK'
      BY <2>1, <2>2, UserStepType, ClientLoopStepType DEF ClientNext, ClientStep
    <3> QED
      BY <2>1, <2>2, <3>1 DEF ClientNext, serviceVars, TypeOK, ServiceTypeOK
  <2>3. CASE ServiceNext
    <3>1. TransportTypeOK' /\ ServiceTypeOK'
      BY <2>1, <2>3, ServiceStepType DEF ServiceNext
    <3> QED
      BY <2>1, <2>3, <3>1 DEF ServiceNext, clientVars, TypeOK, ClientTypeOK
  <2>4. CASE SystemNext
    <3>1. TransportTypeOK'
      BY <2>1, <2>4, SystemStepType DEF SystemNext
    <3> QED
      BY <2>1, <2>4, <3>1
      DEF SystemNext, clientVars, serviceVars, TypeOK, ClientTypeOK, ServiceTypeOK
  <2>5. CASE UNCHANGED vars
    BY <2>1, <2>5
    DEF vars, transportVars, clientVars, serviceVars, TypeOK, TransportTypeOK,
        ClientTypeOK, ServiceTypeOK
  <2> QED
    BY <2>2, <2>3, <2>4, <2>5 DEF Next
<1> QED
    BY <1>1, <1>2, PTL DEF Spec

------------------------------------------------------------------------------
(***************************************************************************)
(* The service's connections.                                              *)
(***************************************************************************)

\* A client touches only its own end of its connection.
LEMMA ClientKeepsServiceEnds ==
    ASSUME TransportTypeOK, NEW c \in Clients, ClientStep(c)
    PROVE  \A d \in Clients : /\ is_open(Srv(d))' <=> is_open(Srv(d))
                             /\ myListener'[Srv(d)] = myListener[Srv(d)]
<1> DEFINE KeepsServiceEnds ==
        \A d \in Clients : /\ is_open(Srv(d))' <=> is_open(Srv(d))
                          /\ myListener'[Srv(d)] = myListener[Srv(d)]
<1>1. ASSUME \/ UNCHANGED myState
             \/ myState' = StateClosed({Cli(c)})
             \/ myState' = [myState EXCEPT ![Cli(c)] = "OPEN"],
             \/ UNCHANGED myListener
             \/ myListener' = [myListener EXCEPT ![Cli(c)] = FALSE]
      PROVE  KeepsServiceEnds
    BY <1>1, Ends, ClosedStates DEF is_open, TransportTypeOK
<1>2. CASE UserStep(c)
    BY <1>1, <1>2
    DEF UserStep, Open, Close, Destroy, SendNow, SendFails, SendQueued, SendOneWay,
        transportVars
<1>3. CASE ClientLoopStep(c)
    BY <1>1, <1>3
    DEF ClientLoopStep, HandleClientHeader, HandleHeader, DispatchEvent, HandlerReturns,
        ReadNextHeader, HandleClientRecvError, ErrorClosureReturns, EndErrors,
        HandleClientAborted, ClientAssertFails, DispatchResult,
        DispatchResultAndSendNext, dequeue_call, DispatchErrorToClosure,
        transportVars
<1> QED
    BY <1>2, <1>3 DEF ClientStep

(***************************************************************************)
(* The map myClients holds exactly the open connections with a listener:   *)
(* the o_asserts that look a client up cannot fail, and the loop of stop() *)
(* ends.                                                                   *)
(***************************************************************************)
THEOREM RegisteredCorrect == Spec => []RegisteredIsOpen
<1>1. Init => RegisteredIsOpen
    BY Ends DEF Init, TransportInit, ServiceInit, RegisteredIsOpen, is_open
<1>2. TypeOK /\ RegisteredIsOpen /\ [Next]_vars => RegisteredIsOpen'
  <2> SUFFICES ASSUME TypeOK, RegisteredIsOpen, [Next]_vars
               PROVE  RegisteredIsOpen'
    OBVIOUS
  <2>1. TransportTypeOK
    BY DEF TypeOK
  <2>2. ASSUME UNCHANGED <<myState, myListener, myClients>>
        PROVE  RegisteredIsOpen'
    BY <2>2 DEF RegisteredIsOpen, is_open
  <2>3. ASSUME NEW c \in Clients, ClientNext(c)
        PROVE  RegisteredIsOpen'
    BY <2>1, <2>3, ClientKeepsServiceEnds DEF ClientNext, serviceVars, RegisteredIsOpen
  <2>4. CASE ServiceNext
    BY <2>1, <2>4, ServiceStepRegistered DEF ServiceNext
  <2>5. CASE SystemNext
    BY <2>2, <2>5 DEF SystemNext, ReadCompletes, ReadFails, LinkBreaks, serviceVars
  <2>6. CASE UNCHANGED vars
    BY <2>2, <2>6 DEF vars, transportVars, serviceVars
  <2> QED
    BY <2>3, <2>4, <2>5, <2>6 DEF Next
<1> QED
    BY <1>1, <1>2, TypeCorrect, PTL DEF Spec

(***************************************************************************)
(* myPendingCalls and the closures the service functions hold agree, for   *)
(* any number of clients, functions and calls: a closure called once never *)
(* makes send_result throw, disconnected or not, and the find_pending_call *)
(* of dispatch_func refuses exactly the calls that are still pending.      *)
(***************************************************************************)
THEOREM PendingCorrect == Spec => []PendingMatchesHeld
<1>1. Init => PendingMatchesHeld
    BY DEF Init, ServiceInit, PendingMatchesHeld, Held
<1>2. TypeOK /\ PendingMatchesHeld /\ [Next]_vars => PendingMatchesHeld'
  <2> SUFFICES ASSUME TypeOK, PendingMatchesHeld, [Next]_vars
               PROVE  PendingMatchesHeld'
    OBVIOUS
  <2>1. ASSUME UNCHANGED <<myPendingCalls, held>>
        PROVE  PendingMatchesHeld'
    BY <2>1 DEF PendingMatchesHeld, Held
  <2>2. CASE (\E c \in Clients : ClientNext(c)) \/ SystemNext \/ UNCHANGED vars
    BY <2>1, <2>2 DEF ClientNext, SystemNext, vars, serviceVars
  <2>3. CASE ServiceNext
    BY <2>3, ServiceStepPending DEF ServiceNext, TypeOK
  <2> QED
    BY <2>2, <2>3 DEF Next
<1> QED
    BY <1>1, <1>2, TypeCorrect, PTL DEF Spec
==============================================================================
