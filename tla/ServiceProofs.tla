---------------------------- MODULE ServiceProofs ----------------------------
(***************************************************************************)
(* What every step of the service keeps, whoever is at the other end of    *)
(* its connections: the types, the map of the clients and the map of the   *)
(* pending calls; and what becomes of the messages of one function in an   *)
(* inbox.  CercallProofs and CallProofs use these lemmas for Client        *)
(* objects, RawPeersProofs for peers that write call messages themselves.  *)
(***************************************************************************)
EXTENDS Service, SequenceTheorems, TLAPS

------------------------------------------------------------------------------
(***************************************************************************)
(* The ends of the connections, and the effect of closing some of them.    *)
(***************************************************************************)

\* Cli and Srv name the two ends of a connection, and nothing else does.
LEMMA Ends ==
    /\ \A c \in Clients : Cli(c) \in End /\ Srv(c) \in End
    /\ \A c, d \in Clients : Cli(c) # Srv(d)
    /\ \A c, d \in Clients : Cli(c) = Cli(d) => c = d
    /\ \A c, d \in Clients : Srv(c) = Srv(d) => c = d
    /\ \A e \in End : e[1] \in Clients /\ (e = Cli(e[1]) \/ e = Srv(e[1]))
    /\ \A c \in Clients : Cli(c)[1] = c /\ Srv(c)[1] = c
    /\ \A c \in Clients : Cli(c)[2] = "cli" /\ Srv(c)[2] = "srv"
    /\ \A c \in Clients : Peer(Cli(c)) = Srv(c) /\ Peer(Srv(c)) = Cli(c)
BY DEF Cli, Srv, End, Peer

\* Closing keeps the types, and completes no read.
LEMMA Closing ==
    ASSUME TransportTypeOK, NEW E, NEW C
    PROVE  /\ StateClosed(E) \in [End -> {"NEW", "OPEN", "CLOSED"}]
           /\ ReadsCancelled(E) \in
                 [End -> {"none", "wait", "ready", "failed", "aborted"}]
           /\ \A e \in End : ReadsCancelled(E)[e] = "ready" => reading[e] = "ready"
           /\ LinksDown(C) \in [Clients -> BOOLEAN]
BY DEF TransportTypeOK, StateClosed, ReadsCancelled, LinksDown

\* What the inboxes hold.
LEMMA Inboxes ==
    ASSUME TransportTypeOK, NEW c \in Clients
    PROVE  /\ inbox[Cli(c)] \in Seq(ResultMessages \cup EventMessages)
           /\ inbox[Srv(c)] \in Seq(CallMessages)
           /\ reading[Cli(c)] = "ready" =>
                 /\ Head(inbox[Cli(c)]) \in ResultMessages \cup EventMessages
                 /\ Tail(inbox[Cli(c)]) \in Seq(ResultMessages \cup EventMessages)
           /\ reading[Srv(c)] = "ready" =>
                 /\ Head(inbox[Srv(c)]) \in CallMessages
                 /\ Tail(inbox[Srv(c)]) \in Seq(CallMessages)
<1>1. /\ inbox[Cli(c)] \in Seq(ResultMessages \cup EventMessages)
      /\ inbox[Srv(c)] \in Seq(CallMessages)
    BY DEF TransportTypeOK
<1>2. /\ reading[Cli(c)] = "ready" => inbox[Cli(c)] # <<>>
      /\ reading[Srv(c)] = "ready" => inbox[Srv(c)] # <<>>
    BY Ends DEF TransportTypeOK
<1> QED
    BY <1>1, <1>2, HeadTailProperties

\* The part of TransportTypeOK about the contents of the inboxes.
InboxOK(ib) ==
    /\ ib \in [End -> Seq(CallMessages \cup ResultMessages \cup EventMessages)]
    /\ \A c \in Clients : /\ ib[Srv(c)] \in Seq(CallMessages)
                          /\ ib[Cli(c)] \in Seq(ResultMessages \cup EventMessages)

\* It is enough to look at the ends of every connection.
LEMMA InboxTyped ==
    ASSUME NEW ib, NEW S, ib \in [End -> S],
           \A c \in Clients : /\ ib[Srv(c)] \in Seq(CallMessages)
                              /\ ib[Cli(c)] \in Seq(ResultMessages \cup EventMessages)
    PROVE  InboxOK(ib)
<1>1. /\ Seq(CallMessages) \subseteq
             Seq(CallMessages \cup ResultMessages \cup EventMessages)
      /\ Seq(ResultMessages \cup EventMessages) \subseteq
             Seq(CallMessages \cup ResultMessages \cup EventMessages)
    OBVIOUS
<1>2. \A e \in End : ib[e] \in Seq(CallMessages \cup ResultMessages \cup EventMessages)
    BY <1>1, Ends
<1> QED
    BY <1>2 DEF InboxOK

\* A client writes calls, the service writes results.
LEMMA WrittenOK ==
    ASSUME NEW ib, InboxOK(ib), NEW c \in Clients
    PROVE  /\ \A m \in CallMessages :
                 /\ InboxOK(Written(ib, Cli(c), m))
                 /\ \A e \in End : ib[e] # <<>> => Written(ib, Cli(c), m)[e] # <<>>
           /\ \A m \in ResultMessages :
                 /\ InboxOK(Written(ib, Srv(c), m))
                 /\ \A e \in End : ib[e] # <<>> => Written(ib, Srv(c), m)[e] # <<>>
<1>1. ASSUME NEW m \in CallMessages
      PROVE  /\ InboxOK(Written(ib, Cli(c), m))
             /\ \A e \in End : ib[e] # <<>> => Written(ib, Cli(c), m)[e] # <<>>
  <2>1. /\ Append(ib[Srv(c)], m) \in Seq(CallMessages)
        /\ Append(ib[Srv(c)], m) # <<>>
    BY <1>1, AppendProperties DEF InboxOK
  <2>2. Append(ib[Srv(c)], m)
            \in Seq(CallMessages \cup ResultMessages \cup EventMessages)
    BY <2>1
  <2>3. CASE up[c]
    <3>1. Written(ib, Cli(c), m) = [ib EXCEPT ![Srv(c)] = Append(@, m)]
      BY <2>3, Ends DEF Written
    <3> QED
      BY <2>1, <2>2, <3>1, Ends DEF InboxOK
  <2>4. CASE ~up[c]
    BY <2>4, Ends DEF Written
  <2> QED
    BY <2>3, <2>4
<1>2. ASSUME NEW m \in ResultMessages
      PROVE  /\ InboxOK(Written(ib, Srv(c), m))
             /\ \A e \in End : ib[e] # <<>> => Written(ib, Srv(c), m)[e] # <<>>
  <2>0. /\ ib[Cli(c)] \in Seq(ResultMessages \cup EventMessages)
        /\ m \in ResultMessages \cup EventMessages
    BY <1>2 DEF InboxOK
  <2>1. /\ Append(ib[Cli(c)], m) \in Seq(ResultMessages \cup EventMessages)
        /\ Append(ib[Cli(c)], m) # <<>>
    BY <2>0, AppendProperties
  <2>2. Append(ib[Cli(c)], m)
            \in Seq(CallMessages \cup ResultMessages \cup EventMessages)
    BY <2>1
  <2>3. CASE up[c]
    <3>1. Written(ib, Srv(c), m) = [ib EXCEPT ![Cli(c)] = Append(@, m)]
      BY <2>3, Ends DEF Written
    <3> QED
      BY <2>1, <2>2, <3>1, Ends DEF InboxOK
  <2>4. CASE ~up[c]
    BY <2>4, Ends DEF Written
  <2> QED
    BY <2>3, <2>4
<1> QED
    BY <1>1, <1>2

\* Handling a message changes only its own inbox.
LEMMA ConsumedOK ==
    ASSUME TransportTypeOK, NEW e \in End, reading[e] = "ready"
    PROVE  /\ InboxOK(Consumed(e))
           /\ \A d \in End : d # e /\ inbox[d] # <<>> => Consumed(e)[d] # <<>>
<1>0. InboxOK(inbox)
    BY DEF TransportTypeOK, InboxOK
<1>1. CASE e = Cli(e[1])
    BY <1>0, <1>1, Ends, Inboxes DEF InboxOK, Consumed
<1>2. CASE e = Srv(e[1])
    BY <1>0, <1>2, Ends, Inboxes DEF InboxOK, Consumed
<1> QED
    BY <1>1, <1>2, Ends

------------------------------------------------------------------------------
(***************************************************************************)
(* Type correctness.                                                       *)
(***************************************************************************)

\* The conjuncts of TransportTypeOK about the inboxes and the reads.
LEMMA TransportTypeByParts ==
    ASSUME myState' \in [End -> {"NEW", "OPEN", "CLOSED"}],
           myListener' \in [End -> BOOLEAN],
           reading' \in [End -> {"none", "wait", "ready", "failed", "aborted"}],
           myReceiveState' \in [End -> {"HEADER", "MESSAGE"}],
           InboxOK(inbox)',
           \A e \in End : reading'[e] = "ready" => inbox'[e] # <<>>,
           up' \in [Clients -> BOOLEAN],
           listening' \in BOOLEAN,
           backlog' \subseteq Clients
    PROVE  TransportTypeOK'
BY DEF TransportTypeOK, InboxOK

\* handle_recv of end e takes the completed read.
LEMMA ReadHandled ==
    ASSUME TransportTypeOK, NEW e \in End,
           reading' = [reading EXCEPT ![e] = "none"],
           \A d \in End : d # e /\ inbox[d] # <<>> => inbox'[d] # <<>>
    PROVE  /\ reading' \in [End -> {"none", "wait", "ready", "failed", "aborted"}]
           /\ \A d \in End : reading'[d] = "ready" => inbox'[d] # <<>>
BY DEF TransportTypeOK

\* The kinds of run-time failure.
Faults == {"assert", "messenger", "archive", "broadcast", "restart", "accept"}

\* The end of the service's process keeps the types.
LEMMA CrashType ==
    ASSUME TransportTypeOK, ServiceTypeOK, NEW kind \in Faults, Crash(kind)
    PROVE  TransportTypeOK' /\ ServiceTypeOK'
BY Closing DEF Crash, Faults, TransportTypeOK, ServiceTypeOK

\* Closing connections on the service's side keeps the types.
LEMMA DisconnectType ==
    ASSUME TransportTypeOK, ServiceTypeOK, NEW C, Disconnect(C)
    PROVE  /\ myState' \in [End -> {"NEW", "OPEN", "CLOSED"}]
           /\ reading' \in [End -> {"none", "wait", "ready", "failed", "aborted"}]
           /\ \A e \in End : reading'[e] = "ready" => reading[e] = "ready"
           /\ myListener' \in [End -> BOOLEAN]
           /\ myClients' \subseteq Clients
BY Closing DEF Disconnect, Unregistered, TransportTypeOK, ServiceTypeOK

\* Calling a closure keeps the types of the service's own state.
LEMMA ResultSentType ==
    ASSUME ServiceTypeOK, NEW h \in held, ResultSent(h),
           find_pending_call(h.client, h.func), myClients' \subseteq Clients
    PROVE  ServiceTypeOK'
<1>1. h.client \in Clients /\ h.func \in Funcs
    BY DEF ServiceTypeOK, Closures, TwoWay
<1>2. myPendingCalls[h.client][h.func] - 1 \in Nat
    BY <1>1 DEF find_pending_call, ServiceTypeOK
<1>3. myPendingCalls' \in [Clients -> [Funcs -> Nat]]
    BY <1>1, <1>2 DEF ResultSent, ServiceTypeOK
<1> QED
    BY <1>3 DEF ResultSent, ServiceTypeOK

\* The connection handling of the service keeps the types.
LEMMA ConnectionStepType ==
    ASSUME TransportTypeOK, ServiceTypeOK,
           \/ Start \/ Stop \/ HandleAcceptAborted
           \/ \E c \in Clients : \/ OnClientAccepted(c) \/ AcceptedTooLate(c)
                                 \/ HandleServiceRecvError(c)
                                 \/ ServiceAssertFails(c) \/ HandleServiceHeader(c)
    PROVE  TransportTypeOK' /\ ServiceTypeOK'
<1>1. CASE Start
    BY <1>1, ServiceAssumption DEF Start, TransportTypeOK, ServiceTypeOK
<1>2. CASE Stop
  <2>1. up' \in [Clients -> BOOLEAN]
    <3>1. ASSUME NEW C, up' = LinksDown(C)
          PROVE  up' \in [Clients -> BOOLEAN]
      BY <3>1, Closing
    <3> QED
      BY <1>2, <3>1 DEF Stop
  <2>2. acceptAborted' \in BOOLEAN /\ acceptDone' \subseteq Clients
    BY <1>2 DEF Stop, TransportTypeOK, ServiceTypeOK
  <2> QED
    BY <1>2, <2>1, <2>2, DisconnectType DEF Stop, TransportTypeOK, ServiceTypeOK
<1>3. CASE HandleAcceptAborted
  <2>1. CASE Crash("restart")
    BY <2>1, CrashType DEF Faults
  <2>2. CASE ~Crash("restart")
    BY <1>3, <2>2
    DEF HandleAcceptAborted, transportVars, TransportTypeOK, ServiceTypeOK
  <2> QED
    BY <2>1, <2>2
<1>4. ASSUME NEW c \in Clients, OnClientAccepted(c)
      PROVE  TransportTypeOK' /\ ServiceTypeOK'
    BY <1>4, Ends DEF OnClientAccepted, TransportTypeOK, ServiceTypeOK
<1>5. ASSUME NEW c \in Clients, HandleServiceRecvError(c)
      PROVE  TransportTypeOK' /\ ServiceTypeOK'
    BY <1>5, Ends, Closing
    DEF HandleServiceRecvError, Unregistered, TransportTypeOK, ServiceTypeOK
<1>6. ASSUME NEW c \in Clients, AcceptedTooLate(c) \/ ServiceAssertFails(c)
      PROVE  TransportTypeOK' /\ ServiceTypeOK'
    BY <1>6, CrashType DEF AcceptedTooLate, ServiceAssertFails, Faults
<1>7. ASSUME NEW c \in Clients, HandleServiceHeader(c)
      PROVE  TransportTypeOK' /\ ServiceTypeOK'
    BY <1>7, Ends
    DEF HandleServiceHeader, HandleHeader, ReadStarted, TransportTypeOK, ServiceTypeOK,
        serviceVars
<1> QED
    BY <1>1, <1>2, <1>3, <1>4, <1>5, <1>6, <1>7

\* Dispatching calls keeps the types.
LEMMA CallStepType ==
    ASSUME TransportTypeOK, ServiceTypeOK, NEW c \in Clients, NEW f \in Funcs,
           DispatchOneWay(c, f) \/ DispatchFunc(c, f) \/ DispatchRefused(c, f)
    PROVE  TransportTypeOK' /\ ServiceTypeOK'
<1>1. MessageArrived(Srv(c))
    BY DEF DispatchOneWay, DispatchFunc, DispatchRefused, CallArrived
<1>2. /\ reading[Srv(c)] = "ready"
      /\ InboxOK(Consumed(Srv(c)))
      /\ \A d \in End : d # Srv(c) /\ inbox[d] # <<>> => Consumed(Srv(c))[d] # <<>>
      /\ CallNumber(c) \in CallId
    BY <1>1, Ends, ConsumedOK, Inboxes DEF MessageArrived, CallNumber, CallMessages
<1>3. ASSUME FuncCalled(c, f)
      PROVE  /\ TransportTypeOK'
             /\ executed' \in [Clients -> [Funcs -> Seq(CallId)]]
             /\ serving' \in [Clients -> {"none", "func", "reply"}]
  <2>1. /\ reading' \in [End -> {"none", "wait", "ready", "failed", "aborted"}]
        /\ \A d \in End : reading'[d] = "ready" => inbox'[d] # <<>>
    BY <1>2, <1>3, ReadHandled, Ends DEF FuncCalled
  <2>2. TransportTypeOK'
    BY <1>2, <1>3, <2>1, TransportTypeByParts DEF FuncCalled, TransportTypeOK
  <2>3. Append(executed[c][f], CallNumber(c)) \in Seq(CallId)
    BY <1>2, AppendProperties DEF ServiceTypeOK
  <2> QED
    BY <1>3, <2>2, <2>3 DEF FuncCalled, ServiceTypeOK
<1>4. CASE DispatchOneWay(c, f)
    BY <1>3, <1>4 DEF DispatchOneWay, FuncCalled, ServiceTypeOK
<1>5. CASE DispatchFunc(c, f)
  <2>1. [client |-> c, func |-> f, id |-> CallNumber(c)] \in Closures
    BY <1>2, <1>5 DEF DispatchFunc, Closures
  <2>2. myPendingCalls' \in [Clients -> [Funcs -> Nat]]
    BY <1>5 DEF DispatchFunc, ServiceTypeOK
  <2> QED
    BY <1>3, <1>5, <2>1, <2>2 DEF DispatchFunc, FuncCalled, ServiceTypeOK
<1>6. CASE DispatchRefused(c, f)
  <2>1. serialize_call_result(f, CallNumber(c), "in_progress") \in ResultMessages
    BY <1>2, <1>6 DEF DispatchRefused, serialize_call_result, ResultMessages
  <2>2. /\ InboxOK(inbox')
        /\ \A d \in End : d # Srv(c) /\ inbox[d] # <<>> => inbox'[d] # <<>>
    <3>1. CASE inbox' = Consumed(Srv(c))
      BY <1>2, <3>1
    <3>2. CASE inbox' = Written(Consumed(Srv(c)), Srv(c),
                            serialize_call_result(f, CallNumber(c), "in_progress"))
      BY <1>2, <2>1, <3>2, WrittenOK
    <3> QED
      BY <1>6, <3>1, <3>2 DEF DispatchRefused
  <2>3. /\ reading' \in [End -> {"none", "wait", "ready", "failed", "aborted"}]
        /\ \A d \in End : reading'[d] = "ready" => inbox'[d] # <<>>
    BY <1>6, <2>2, ReadHandled, Ends DEF DispatchRefused
  <2>4. /\ myState' \in [End -> {"NEW", "OPEN", "CLOSED"}]
        /\ myListener' \in [End -> BOOLEAN]
        /\ myClients' \subseteq Clients
    <3>1. CASE UNCHANGED <<myState, myListener, myClients>>
      BY <3>1 DEF TransportTypeOK, ServiceTypeOK
    <3>2. CASE /\ myState' = StateClosed({Srv(c)})
               /\ myListener' = [myListener EXCEPT ![Srv(c)] = FALSE]
               /\ myClients' = Unregistered({c})
      BY <3>2, Ends, Closing DEF Unregistered, TransportTypeOK, ServiceTypeOK
    <3> QED
      BY <1>6, <3>1, <3>2 DEF DispatchRefused
  <2>5. TransportTypeOK'
    BY <1>6, <2>2, <2>3, <2>4, TransportTypeByParts DEF DispatchRefused, TransportTypeOK
  <2> QED
    BY <1>6, <2>4, <2>5 DEF DispatchRefused, ServiceTypeOK
<1> QED
    BY <1>4, <1>5, <1>6

\* Service functions returning, and their closures, keep the types.
LEMMA ResultStepType ==
    ASSUME TransportTypeOK, ServiceTypeOK,
           (\E c \in Clients : FuncReturns(c)) \/ ClosureStep
    PROVE  TransportTypeOK' /\ ServiceTypeOK'
<1>0. InboxOK(inbox)
    BY DEF TransportTypeOK, InboxOK
<1>1. ASSUME NEW c \in Clients, FuncReturns(c)
      PROVE  TransportTypeOK' /\ ServiceTypeOK'
  <2>1. CASE Crash("messenger")
    BY <2>1, CrashType DEF Faults
  <2>2. CASE ~Crash("messenger")
    <3>1. /\ serving' = [serving EXCEPT ![c] = "none"]
          /\ ReadNextHeader(Srv(c))
          /\ UNCHANGED <<myClients, myPendingCalls, held, acceptAborted, acceptDone, fault,
                         starts, events, executed>>
      BY <1>1, <2>2 DEF FuncReturns
    <3>2. ServiceTypeOK'
      BY <3>1 DEF ServiceTypeOK
    <3> QED
      BY <3>1, <3>2, Ends DEF ReadNextHeader, ReadStarted, TransportTypeOK
  <2> QED
    BY <2>1, <2>2
<1>2. ASSUME NEW h \in held
      PROVE  /\ h.client \in Clients
             /\ serialize_call_result(h.func, h.id, "value") \in ResultMessages
    BY <1>2 DEF ServiceTypeOK, Closures, serialize_call_result, ResultMessages
<1>3. ASSUME NEW h \in held, SendResult(h)
      PROVE  TransportTypeOK' /\ ServiceTypeOK'
  <2>1. /\ InboxOK(inbox')
        /\ \A e \in End : inbox[e] # <<>> => inbox'[e] # <<>>
    BY <1>0, <1>2, <1>3, WrittenOK DEF SendResult
  <2>2. TransportTypeOK'
    BY <1>3, <2>1, TransportTypeByParts DEF SendResult, ResultSent, TransportTypeOK
  <2>3. myClients' \subseteq Clients
    BY <1>3 DEF SendResult, ServiceTypeOK
  <2> QED
    BY <1>3, <2>2, <2>3, ResultSentType DEF SendResult
<1>4. ASSUME NEW h \in held, SendResultFails(h)
      PROVE  TransportTypeOK' /\ ServiceTypeOK'
  <2>1. TransportTypeOK' /\ myClients' \subseteq Clients
    BY <1>4, DisconnectType DEF SendResultFails, ResultSent, TransportTypeOK
  <2> QED
    BY <1>4, <2>1, ResultSentType DEF SendResultFails
<1>5. ASSUME NEW h \in held, SendResultDisconnected(h)
      PROVE  TransportTypeOK' /\ ServiceTypeOK'
  <2>1. CASE Crash("archive")
    BY <2>1, CrashType DEF Faults
  <2>2. CASE ResultSent(h) /\ UNCHANGED <<myState, myListener, reading, inbox, up, myClients>>
    <3>1. TransportTypeOK' /\ myClients' \subseteq Clients
      BY <2>2 DEF ResultSent, TransportTypeOK, ServiceTypeOK
    <3> QED
      BY <1>5, <2>2, <3>1, ResultSentType DEF SendResultDisconnected
  <2> QED
    BY <1>5, <2>1, <2>2 DEF SendResultDisconnected
<1> QED
    BY <1>1, <1>3, <1>4, <1>5 DEF ClosureStep

\* Broadcasting keeps the types.
LEMMA BroadcastStepType ==
    ASSUME TransportTypeOK, ServiceTypeOK,
           Broadcast \/ \E bad, reached \in SUBSET myClients : BroadcastFails(bad, reached)
    PROVE  TransportTypeOK' /\ ServiceTypeOK'
<1>1. ASSUME NEW C, EventWritten(C), events < MaxEvents
      PROVE  /\ InboxOK(inbox')
             /\ \A e \in End : inbox[e] # <<>> => inbox'[e] # <<>>
  <2>1. serialize_event(events + 1) \in EventMessages
    BY <1>1, BoundsAssumption DEF serialize_event, EventMessages, ServiceTypeOK
  <2>2. ASSUME NEW c \in Clients
        PROVE  /\ Append(inbox[Cli(c)], serialize_event(events + 1))
                      \in Seq(ResultMessages \cup EventMessages)
               /\ Append(inbox[Cli(c)], serialize_event(events + 1)) # <<>>
    BY <2>1, Inboxes, AppendProperties
  <2>3. \A c \in Clients :
            /\ inbox'[Srv(c)] = inbox[Srv(c)]
            /\ inbox'[Cli(c)] \in {inbox[Cli(c)],
                                  Append(inbox[Cli(c)], serialize_event(events + 1))}
    BY <1>1, Ends DEF EventWritten
  <2>4. \A c \in Clients : /\ inbox'[Srv(c)] \in Seq(CallMessages)
                           /\ inbox'[Cli(c)] \in Seq(ResultMessages \cup EventMessages)
    BY <2>2, <2>3, Inboxes
  <2>5. \A e \in End : inbox[e] # <<>> => inbox'[e] # <<>>
    BY <2>2, <2>3, Ends
  <2>6. inbox' \in [End -> {inbox'[e] : e \in End}]
    BY <1>1 DEF EventWritten
  <2> QED
    BY <2>4, <2>5, <2>6, InboxTyped
<1>2. CASE Broadcast
  <2>1. TransportTypeOK'
    BY <1>1, <1>2, TransportTypeByParts DEF Broadcast, TransportTypeOK
  <2> QED
    BY <1>2, <2>1, BoundsAssumption DEF Broadcast, ServiceTypeOK
<1>3. ASSUME NEW bad \in SUBSET myClients, NEW reached \in SUBSET myClients,
             BroadcastFails(bad, reached)
      PROVE  TransportTypeOK' /\ ServiceTypeOK'
  <2>1. CASE Crash("broadcast")
    BY <2>1, CrashType DEF Faults
  <2>2. CASE ~Crash("broadcast")
    <3>1. /\ events < MaxEvents /\ events' = events + 1
          /\ EventWritten(reached) /\ Disconnect(bad)
          /\ UNCHANGED <<myReceiveState, up, listening, backlog, myPendingCalls, held,
                         serving, acceptAborted, acceptDone, fault, starts, executed>>
      BY <1>3, <2>2 DEF BroadcastFails
    <3>2. TransportTypeOK'
      BY <1>1, <3>1, DisconnectType, TransportTypeByParts DEF TransportTypeOK
    <3> QED
      BY <3>1, <3>2, DisconnectType, BoundsAssumption DEF ServiceTypeOK
  <2> QED
    BY <2>1, <2>2
<1> QED
    BY <1>2, <1>3

\* The operating system's steps keep the types.
LEMMA SystemStepType ==
    ASSUME TransportTypeOK,
           \/ \E e \in End : ReadCompletes(e) \/ ReadFails(e)
           \/ \E c \in Clients : LinkBreaks(c)
    PROVE  TransportTypeOK'
<1>1. ASSUME NEW e \in End, ReadCompletes(e) \/ ReadFails(e)
      PROVE  TransportTypeOK'
    BY <1>1 DEF ReadCompletes, ReadFails, TransportTypeOK
<1>2. ASSUME NEW c \in Clients, LinkBreaks(c)
      PROVE  TransportTypeOK'
    BY <1>2, Closing DEF LinkBreaks, TransportTypeOK
<1> QED
    BY <1>1, <1>2

\* The initial values have their types.
LEMMA ServiceInitType ==
    ASSUME TransportInit, ServiceInit
    PROVE  TransportTypeOK /\ ServiceTypeOK
<1>0. ASSUME NEW S PROVE <<>> \in Seq(S)
    OBVIOUS
<1>1. TransportTypeOK
    BY <1>0, Ends DEF TransportInit, TransportTypeOK
<1>2. executed \in [Clients -> [Funcs -> Seq(CallId)]]
    BY <1>0 DEF ServiceInit
<1>3. myPendingCalls \in [Clients -> [Funcs -> Nat]]
    BY DEF ServiceInit
<1>4. starts \in 0..MaxStarts /\ events \in 0..MaxEvents
    BY BoundsAssumption, ServiceAssumption DEF ServiceInit
<1>5. /\ myClients \subseteq Clients /\ held \subseteq Closures
      /\ serving \in [Clients -> {"none", "func", "reply"}]
      /\ acceptAborted \in BOOLEAN /\ acceptDone \subseteq Clients /\ fault = "none"
    BY DEF ServiceInit
<1> QED
    BY <1>1, <1>2, <1>3, <1>4, <1>5 DEF ServiceTypeOK

\* Every step of the service keeps the types.
LEMMA ServiceStepType ==
    ASSUME TransportTypeOK, ServiceTypeOK, ServiceStep
    PROVE  TransportTypeOK' /\ ServiceTypeOK'
<1>1. CASE ServiceCodeStep \/ HandleAcceptAborted
    BY <1>1, ConnectionStepType, BroadcastStepType DEF ServiceCodeStep
<1>2. CASE ClosureStep
    BY <1>2, ResultStepType
<1>3. ASSUME NEW c \in Clients, ServiceLoopStep(c)
      PROVE  TransportTypeOK' /\ ServiceTypeOK'
    BY <1>3, ConnectionStepType, CallStepType, ResultStepType DEF ServiceLoopStep
<1> QED
    BY <1>1, <1>2, <1>3 DEF ServiceStep

------------------------------------------------------------------------------
(***************************************************************************)
(* The service's connections.                                              *)
(***************************************************************************)

\* Closing some ends leaves the states of all others alone.
LEMMA ClosedStates ==
    ASSUME TransportTypeOK, NEW E, NEW e \in End
    PROVE  StateClosed(E)[e] = "OPEN" <=> myState[e] = "OPEN" /\ e \notin E
BY DEF StateClosed, is_open, TransportTypeOK

\* Closing connections on the service's side keeps map, states and listeners in step.
LEMMA DisconnectRegistered ==
    ASSUME TransportTypeOK, RegisteredIsOpen, NEW C, Disconnect(C)
    PROVE  RegisteredIsOpen'
<1> SUFFICES ASSUME NEW c \in Clients
             PROVE  /\ c \in myClients' <=> myState'[Srv(c)] = "OPEN"
                    /\ c \in myClients' <=> myListener'[Srv(c)]
    BY DEF RegisteredIsOpen, is_open
<1>1. Srv(c) \in {Srv(d) : d \in C} <=> c \in C
    BY DEF Srv
<1>2. myState'[Srv(c)] = "OPEN" <=> myState[Srv(c)] = "OPEN" /\ c \notin C
    BY <1>1, Ends, ClosedStates DEF Disconnect
<1>3. myListener'[Srv(c)] <=> myListener[Srv(c)] /\ c \notin C
    BY <1>1, Ends DEF Disconnect, TransportTypeOK
<1>4. c \in myClients' <=> c \in myClients /\ c \notin C
    BY DEF Disconnect, Unregistered
<1> QED
    BY <1>2, <1>3, <1>4 DEF RegisteredIsOpen, is_open

\* Every step of the service keeps the map, the states and the listeners in step.
LEMMA ServiceStepRegistered ==
    ASSUME TransportTypeOK, RegisteredIsOpen, ServiceStep
    PROVE  RegisteredIsOpen'
<1>0. ASSUME UNCHANGED <<myState, myListener, myClients>>
      PROVE  RegisteredIsOpen'
    BY <1>0 DEF RegisteredIsOpen, is_open
<1>1. CASE Start \/ Broadcast
    BY <1>0, <1>1 DEF Start, Broadcast
<1>2. CASE Stop
    BY <1>2, DisconnectRegistered DEF Stop
<1>3. CASE HandleAcceptAborted
    BY <1>0, <1>3 DEF HandleAcceptAborted, Crash, transportVars
<1>4. ASSUME NEW bad, NEW reached, BroadcastFails(bad, reached)
      PROVE  RegisteredIsOpen'
    BY <1>0, <1>4, DisconnectRegistered DEF BroadcastFails, Crash
<1>5. CASE ClosureStep
    BY <1>0, <1>5, DisconnectRegistered
    DEF ClosureStep, SendResult, SendResultFails, SendResultDisconnected, Crash
<1>6. ASSUME NEW c \in Clients, OnClientAccepted(c)
      PROVE  RegisteredIsOpen'
  <2> SUFFICES ASSUME NEW d \in Clients
               PROVE  /\ d \in myClients' <=> myState'[Srv(d)] = "OPEN"
                      /\ d \in myClients' <=> myListener'[Srv(d)]
    BY DEF RegisteredIsOpen, is_open
  <2>1. CASE d = c
    BY <1>6, <2>1, Ends DEF OnClientAccepted, TransportTypeOK
  <2>2. CASE d # c
    <3>1. Srv(d) # Srv(c)
      BY <2>2 DEF Srv
    <3>2. /\ myState'[Srv(d)] = myState[Srv(d)]
          /\ myListener'[Srv(d)] = myListener[Srv(d)]
          /\ d \in myClients' <=> d \in myClients
      BY <1>6, <2>2, <3>1, Ends DEF OnClientAccepted, TransportTypeOK
    <3> QED
      BY <3>2 DEF RegisteredIsOpen, is_open
  <2> QED
    BY <2>1, <2>2
<1>7. ASSUME NEW c \in Clients, HandleServiceRecvError(c)
       PROVE  RegisteredIsOpen'
    BY <1>7, Ends, ClosedStates
    DEF HandleServiceRecvError, Unregistered, RegisteredIsOpen, is_open,
        TransportTypeOK
<1>8. ASSUME NEW c \in Clients,
             \/ AcceptedTooLate(c) \/ ServiceAssertFails(c)
             \/ HandleServiceHeader(c) \/ FuncReturns(c)
      PROVE  RegisteredIsOpen'
    BY <1>0, <1>8
    DEF AcceptedTooLate, ServiceAssertFails, HandleServiceHeader, HandleHeader,
        FuncReturns, ReadNextHeader, Crash, serviceVars
<1>9. ASSUME NEW c \in Clients, NEW f \in Funcs,
             DispatchOneWay(c, f) \/ DispatchFunc(c, f)
      PROVE  RegisteredIsOpen'
    BY <1>0, <1>9 DEF DispatchOneWay, DispatchFunc, FuncCalled
<1>10. ASSUME NEW c \in Clients, NEW f \in Funcs, DispatchRefused(c, f)
      PROVE  RegisteredIsOpen'
  <2>1. CASE UNCHANGED <<myState, myListener, myClients>>
    BY <1>0, <2>1
  <2>2. CASE /\ myState' = StateClosed({Srv(c)})
             /\ myListener' = [myListener EXCEPT ![Srv(c)] = FALSE]
             /\ myClients' = Unregistered({c})
    BY <2>2, Ends, ClosedStates
    DEF Unregistered, RegisteredIsOpen, is_open, TransportTypeOK
  <2> QED
    BY <1>10, <2>1, <2>2 DEF DispatchRefused
<1> QED
    BY <1>1, <1>2, <1>3, <1>4, <1>5, <1>6, <1>7, <1>8, <1>9, <1>10
    DEF ServiceStep, ServiceCodeStep, ServiceLoopStep

\* The service does not touch the other end of a connection, or make one.
LEMMA ServiceKeepsClientEnds ==
    ASSUME TransportTypeOK, ServiceTypeOK, ServiceStep, NEW c \in Clients
    PROVE  /\ up'[c] => up[c]
           /\ myState'[Cli(c)] = myState[Cli(c)]
           /\ reading'[Cli(c)] = reading[Cli(c)]
<1> DEFINE Kept == /\ up'[c] => up[c]
                   /\ myState'[Cli(c)] = myState[Cli(c)]
                   /\ reading'[Cli(c)] = reading[Cli(c)]
<1> USE DEF TransportTypeOK
<1>1. \A C : LinksDown(C)[c] => up[c]
    BY DEF LinksDown
<1>2. ASSUME NEW C, \A d \in C : d \in Clients
      PROVE  /\ StateClosed({Srv(d) : d \in C})[Cli(c)] = myState[Cli(c)]
             /\ ReadsCancelled({Srv(d) : d \in C})[Cli(c)] = reading[Cli(c)]
    BY <1>2, Ends DEF StateClosed, ReadsCancelled
<1>3. \A d \in Clients : StateClosed({Srv(d)})[Cli(c)] = myState[Cli(c)]
    BY Ends DEF StateClosed
<1>4. \A k : Crash(k) => Kept
    BY <1>1 DEF Crash
<1>5. CASE Start \/ Broadcast
    BY <1>5 DEF Start, Broadcast
<1>6. CASE Stop
  <2>1. \A d \in myClients : d \in Clients
    BY DEF ServiceTypeOK
  <2>2. /\ myState' = StateClosed({Srv(d) : d \in myClients})
        /\ reading' = ReadsCancelled({Srv(d) : d \in myClients})
    BY <1>6 DEF Stop, Disconnect
  <2>3. up'[c] => up[c]
    BY <1>1, <1>6 DEF Stop
  <2> QED
    BY <1>2, <2>1, <2>2, <2>3
<1>7. CASE HandleAcceptAborted
    BY <1>4, <1>7 DEF HandleAcceptAborted, transportVars
<1>8. ASSUME NEW bad \in SUBSET myClients, NEW reached, BroadcastFails(bad, reached)
      PROVE  Kept
    BY <1>1, <1>2, <1>4, <1>8 DEF BroadcastFails, Disconnect, ServiceTypeOK
<1>9. ASSUME NEW h \in held, SendResult(h) \/ SendResultDisconnected(h)
      PROVE  Kept
    BY <1>4, <1>9 DEF SendResult, SendResultDisconnected
<1>10. ASSUME NEW h \in held, SendResultFails(h)
       PROVE  Kept
  <2>1. \A d \in {h.client} : d \in Clients
    BY DEF ServiceTypeOK, Closures
  <2> QED
    BY <1>2, <1>10, <2>1 DEF SendResultFails, Disconnect
<1>11. ASSUME NEW d \in Clients, ServiceLoopStep(d)
       PROVE  Kept
  <2>0. Srv(d) # Cli(c) /\ Srv(d) \in End /\ Cli(c) \in End
    BY Ends
  <2>1. CASE OnClientAccepted(d)
    BY <2>0, <2>1 DEF OnClientAccepted
  <2>2. CASE AcceptedTooLate(d) \/ ServiceAssertFails(d)
    BY <1>4, <2>2 DEF AcceptedTooLate, ServiceAssertFails
  <2>3. CASE HandleServiceRecvError(d)
    BY <1>1, <1>3, <2>0, <2>3 DEF HandleServiceRecvError
  <2>4. CASE HandleServiceHeader(d)
    BY <2>0, <2>4 DEF HandleServiceHeader, HandleHeader
  <2>5. CASE FuncReturns(d)
    BY <1>4, <2>0, <2>5 DEF FuncReturns, ReadNextHeader
  <2>6. ASSUME NEW g \in Funcs, DispatchOneWay(d, g) \/ DispatchFunc(d, g)
        PROVE  Kept
    BY <2>0, <2>6 DEF DispatchOneWay, DispatchFunc, FuncCalled
  <2>7. ASSUME NEW g \in Funcs, DispatchRefused(d, g)
        PROVE  Kept
    BY <1>3, <2>0, <2>7 DEF DispatchRefused
  <2> QED
    BY <1>11, <2>1, <2>2, <2>3, <2>4, <2>5, <2>6, <2>7 DEF ServiceLoopStep
<1> QED
    BY <1>5, <1>6, <1>7, <1>8, <1>9, <1>10, <1>11
    DEF ServiceStep, ServiceCodeStep, ClosureStep

\* The service's end of the connection, and what there is before it is accepted.
AcceptOK(c) ==
    /\ up[c] => myState[Srv(c)] # "CLOSED"
    /\ myState[Cli(c)] = "NEW" => myState[Srv(c)] = "NEW"
    /\ c \in backlog \cup acceptDone =>
          myState[Srv(c)] = "NEW" /\ myState[Cli(c)] # "NEW"
    /\ myState[Srv(c)] = "NEW" => /\ reading[Srv(c)] = "none"
                                  /\ serving[c] = "none"
                                  /\ \A h \in held : h.client # c

\* Every step of the service keeps that.
LEMMA ServiceAccept ==
    ASSUME TransportTypeOK, ServiceTypeOK, RegisteredIsOpen, ServiceStep,
           NEW c \in Clients, AcceptOK(c)
    PROVE  AcceptOK(c)'
<1> USE DEF TransportTypeOK, ServiceTypeOK
<1>0. /\ up'[c] => up[c]
      /\ myState'[Cli(c)] = myState[Cli(c)]
    BY ServiceKeepsClientEnds
<1>1. /\ Srv(c) \in End
      /\ \A C : LinksDown(C)[c] <=> up[c] /\ c \notin C
      /\ \A d \in Clients : Srv(c) = Srv(d) <=> c = d
      /\ \A C \in SUBSET Clients : Srv(c) \in {Srv(d) : d \in C} <=> c \in C
      /\ \A d : WriteMayFail(Srv(d)) => ~up[d]
  <2>1. /\ Srv(c) \in End
        /\ \A C : LinksDown(C)[c] <=> up[c] /\ c \notin C
    BY Ends DEF LinksDown
  <2>2. \A d : Srv(c) = Srv(d) <=> c = d
    BY DEF Srv
  <2>3. \A d : WriteMayFail(Srv(d)) => ~up[d]
    BY DEF WriteMayFail, Srv
  <2> QED
    BY <2>1, <2>2, <2>3
<1>2. \A E : /\ StateClosed(E)[Srv(c)] = IF Srv(c) \in E /\ is_open(Srv(c)) THEN "CLOSED"
                                                                     ELSE myState[Srv(c)]
             /\ reading[Srv(c)] = "none" => ReadsCancelled(E)[Srv(c)] = "none"
    BY <1>1 DEF StateClosed, ReadsCancelled
<1> USE DEF AcceptOK
<1>3. \A k : Crash(k) => AcceptOK(c)'
    BY <1>0, <1>1 DEF Crash
<1>4. CASE Start \/ Broadcast
    BY <1>0, <1>4 DEF Start, Broadcast
<1>5. CASE Stop
  <2>1. myClients \subseteq Clients /\ backlog \subseteq Clients
    OBVIOUS
  <2>2. /\ myState'[Srv(c)] = IF c \in myClients /\ is_open(Srv(c)) THEN "CLOSED"
                                                                  ELSE myState[Srv(c)]
        /\ reading[Srv(c)] = "none" => reading'[Srv(c)] = "none"
    BY <1>1, <1>2, <1>5, <2>1 DEF Stop, Disconnect
  <2>3. /\ up'[c] => c \notin myClients
        /\ c \in backlog' \cup acceptDone' => c \in backlog \cup acceptDone
        /\ serving' = serving /\ held' = held
    BY <1>1, <1>5 DEF Stop
  <2> QED
    BY <1>0, <2>2, <2>3 DEF is_open
<1>6. CASE HandleAcceptAborted
    BY <1>0, <1>3, <1>6 DEF HandleAcceptAborted, transportVars
<1>7. ASSUME NEW C \in SUBSET Clients, Disconnect(C), \A d \in C : ~up[d],
             UNCHANGED <<backlog, acceptDone, serving>>, held' \subseteq held
      PROVE  AcceptOK(c)'
  <2>1. /\ myState'[Srv(c)] = IF c \in C /\ is_open(Srv(c)) THEN "CLOSED"
                                                           ELSE myState[Srv(c)]
        /\ reading[Srv(c)] = "none" => reading'[Srv(c)] = "none"
    BY <1>1, <1>2, <1>7 DEF Disconnect
  <2> QED
    BY <1>0, <1>7, <2>1 DEF is_open
<1>8. ASSUME NEW bad \in SUBSET myClients, NEW reached, BroadcastFails(bad, reached)
      PROVE  AcceptOK(c)'
  <2>1. bad \in SUBSET Clients
    BY <1>8
  <2> QED
    BY <1>1, <1>3, <1>7, <1>8, <2>1 DEF BroadcastFails
<1>9. ASSUME NEW h \in held, SendResult(h) \/ SendResultDisconnected(h)
      PROVE  AcceptOK(c)'
    BY <1>0, <1>3, <1>9 DEF SendResult, SendResultDisconnected, ResultSent
<1>10. ASSUME NEW h \in held, SendResultFails(h)
       PROVE  AcceptOK(c)'
  <2>1. {h.client} \in SUBSET Clients /\ ~up[h.client]
    BY <1>1, <1>10 DEF SendResultFails, Closures
  <2> QED
    BY <1>7, <1>10, <2>1 DEF SendResultFails, ResultSent
<1>11. ASSUME NEW d \in Clients, ServiceLoopStep(d)
       PROVE  AcceptOK(c)'
  <2>1. CASE OnClientAccepted(d)
    BY <1>0, <1>1, <2>1 DEF OnClientAccepted
  <2>2. CASE AcceptedTooLate(d) \/ ServiceAssertFails(d)
    BY <1>3, <2>2 DEF AcceptedTooLate, ServiceAssertFails
  <2>3. CASE HandleServiceRecvError(d)
    BY <1>0, <1>1, <1>2, <2>3 DEF HandleServiceRecvError, is_open
  <2>4. CASE HandleServiceHeader(d)
    BY <1>0, <1>1, <2>4 DEF HandleServiceHeader, HandleHeader, serviceVars
  <2>5. CASE FuncReturns(d)
    BY <1>0, <1>1, <1>3, <2>5 DEF FuncReturns, ReadNextHeader
  <2>6. ASSUME NEW g \in Funcs, DispatchOneWay(d, g) \/ DispatchFunc(d, g)
        PROVE  AcceptOK(c)'
    BY <1>0, <1>1, <2>6
    DEF DispatchOneWay, DispatchFunc, FuncCalled, CallArrived, MessageArrived
  <2>7. ASSUME NEW g \in Funcs, DispatchRefused(d, g)
        PROVE  AcceptOK(c)'
    BY <1>0, <1>1, <1>2, <2>7
    DEF DispatchRefused, CallArrived, MessageArrived, is_open
  <2> QED
    BY <1>11, <2>1, <2>2, <2>3, <2>4, <2>5, <2>6, <2>7 DEF ServiceLoopStep
<1> QED
    BY <1>4, <1>5, <1>6, <1>8, <1>9, <1>10, <1>11
    DEF ServiceStep, ServiceCodeStep, ClosureStep

------------------------------------------------------------------------------
(***************************************************************************)
(* The pending calls.                                                      *)
(***************************************************************************)

\* A held closure found among those of c and f.
LEMMA HeldMembers ==
    ASSUME NEW c, NEW f, NEW h
    PROVE  h \in Held(c, f) <=> h \in held /\ h.client = c /\ h.func = f
BY DEF Held

\* send_result erases the entry of the one closure it was called for, whatever
\* became of the connection.
LEMMA ResultSentPending ==
    ASSUME ServiceTypeOK, PendingMatchesHeld, NEW h \in held, ResultSent(h)
    PROVE  PendingMatchesHeld'
<1>1. h.client \in Clients /\ h.func \in Funcs
    BY DEF ServiceTypeOK, Closures, TwoWay
<1> SUFFICES ASSUME NEW c \in Clients, NEW f \in Funcs
             PROVE  /\ myPendingCalls'[c][f] \in {0, 1}
                    /\ myPendingCalls'[c][f] = 1 <=> Held(c, f)' # {}
                    /\ \A g, k \in Held(c, f)' : g = k
    BY DEF PendingMatchesHeld
<1>2. Held(c, f)' = Held(c, f) \ {h}
    BY DEF Held, ResultSent
<1>3. /\ myPendingCalls[c][f] \in {0, 1}
      /\ myPendingCalls[c][f] = 1 <=> Held(c, f) # {}
      /\ \A g, k \in Held(c, f) : g = k
    BY DEF PendingMatchesHeld
<1>4. CASE c = h.client /\ f = h.func
  <2>1. h \in Held(c, f)
    BY <1>4, HeldMembers
  <2>2. Held(c, f)' = {}
    BY <1>2, <1>3, <2>1
  <2>3. myPendingCalls[c][f] = 1
    BY <1>3, <2>1
  <2>4. myPendingCalls'[c][f] = myPendingCalls[c][f] - 1
    BY <1>1, <1>4 DEF ServiceTypeOK, ResultSent
  <2> QED
    BY <2>2, <2>3, <2>4
<1>5. CASE ~(c = h.client /\ f = h.func)
  <2>1. Held(c, f)' = Held(c, f)
    BY <1>2, <1>5 DEF Held
  <2>2. myPendingCalls'[c][f] = myPendingCalls[c][f]
    BY <1>1, <1>5 DEF ServiceTypeOK, ResultSent
  <2> QED
    BY <1>3, <2>1, <2>2
<1> QED
    BY <1>4, <1>5

\* dispatch_func adds an entry and a closure for a function that had none.
LEMMA DispatchFuncPending ==
    ASSUME ServiceTypeOK, PendingMatchesHeld, NEW d \in Clients, NEW g \in Funcs,
           DispatchFunc(d, g)
    PROVE  PendingMatchesHeld'
<1> DEFINE h == [client |-> d, func |-> g, id |-> CallNumber(d)]
<1> SUFFICES ASSUME NEW c \in Clients, NEW f \in Funcs
             PROVE  /\ myPendingCalls'[c][f] \in {0, 1}
                    /\ myPendingCalls'[c][f] = 1 <=> Held(c, f)' # {}
                    /\ \A j, k \in Held(c, f)' : j = k
    BY DEF PendingMatchesHeld
<1>1. held' = held \cup {h}
    BY DEF DispatchFunc
<1>2. h.client = d /\ h.func = g
    OBVIOUS
<1>3. /\ myPendingCalls[c][f] \in {0, 1}
      /\ myPendingCalls[c][f] = 1 <=> Held(c, f) # {}
      /\ \A j, k \in Held(c, f) : j = k
    BY DEF PendingMatchesHeld
<1> HIDE DEF h
<1>4. CASE c = d /\ f = g
  <2>1. myPendingCalls[c][f] = 0
    BY <1>3, <1>4 DEF DispatchFunc, find_pending_call
  <2>2. Held(c, f)' = {h}
    BY <1>1, <1>2, <1>3, <1>4, <2>1 DEF Held
  <2>3. myPendingCalls'[c][f] = myPendingCalls[c][f] + 1
    BY <1>4 DEF ServiceTypeOK, DispatchFunc
  <2> QED
    BY <2>1, <2>2, <2>3
<1>5. CASE ~(c = d /\ f = g)
  <2>1. Held(c, f)' = Held(c, f)
    BY <1>1, <1>2, <1>5 DEF Held
  <2>2. myPendingCalls'[c][f] = myPendingCalls[c][f]
    BY <1>5 DEF ServiceTypeOK, DispatchFunc
  <2> QED
    BY <1>3, <2>1, <2>2
<1> QED
    BY <1>4, <1>5

\* Every step of the service keeps one entry per closure that was not called.
LEMMA ServiceStepPending ==
    ASSUME ServiceTypeOK, PendingMatchesHeld, ServiceStep
    PROVE  PendingMatchesHeld'
<1>0. ASSUME UNCHANGED <<myPendingCalls, held>>
      PROVE  PendingMatchesHeld'
    BY <1>0 DEF PendingMatchesHeld, Held
<1>1. CASE Start \/ Stop \/ Broadcast \/ HandleAcceptAborted
    BY <1>0, <1>1 DEF Start, Stop, Broadcast, HandleAcceptAborted, Crash
<1>2. ASSUME NEW bad, NEW reached, BroadcastFails(bad, reached)
      PROVE  PendingMatchesHeld'
    BY <1>0, <1>2 DEF BroadcastFails, Crash
<1>3. CASE ClosureStep
    BY <1>0, <1>3, ResultSentPending
    DEF ClosureStep, SendResult, SendResultFails, SendResultDisconnected, Crash
<1>4. ASSUME NEW c \in Clients,
             \/ OnClientAccepted(c) \/ AcceptedTooLate(c)
             \/ HandleServiceRecvError(c)
             \/ ServiceAssertFails(c) \/ HandleServiceHeader(c)
             \/ FuncReturns(c)
      PROVE  PendingMatchesHeld'
    BY <1>0, <1>4
    DEF OnClientAccepted, AcceptedTooLate, HandleServiceRecvError, ServiceAssertFails,
        HandleServiceHeader, FuncReturns, Crash, serviceVars
<1>5. ASSUME NEW c \in Clients, NEW f \in Funcs,
             DispatchOneWay(c, f) \/ DispatchRefused(c, f)
      PROVE  PendingMatchesHeld'
    BY <1>0, <1>5 DEF DispatchOneWay, DispatchRefused
<1> QED
    BY <1>1, <1>2, <1>3, <1>4, <1>5, DispatchFuncPending
    DEF ServiceStep, ServiceCodeStep, ServiceLoopStep

------------------------------------------------------------------------------
(***************************************************************************)
(* The messages of one function in an inbox s.                             *)
(***************************************************************************)

\* There is none.
Absent(s, f) == \A i \in DOMAIN s : s[i].func # f

\* There is at most one.
Single(s, f) == \A i, j \in DOMAIN s : s[i].func = f /\ s[j].func = f => i = j

\* They all belong to call n.
AllOf(s, f, n) == \A i \in DOMAIN s : s[i].func = f => s[i].id = n

\* They belong to calls up to n, and none is a refusal.
ValuesUpTo(s, f, n) ==
    \A i \in DOMAIN s : s[i].func = f => s[i].id <= n /\ s[i].body = "value"

\* Call n is among them.
Has(s, f, n) == \E i \in DOMAIN s : s[i].func = f /\ s[i].id = n

\* They are the calls after call `done`, in order and without a gap, and none is
\* later than call `last`.
InSequence(s, f, done, last) ==
    \A i \in DOMAIN s : s[i].func = f =>
        /\ done < s[i].id /\ s[i].id <= last
        /\ \A j \in DOMAIN s : i < j /\ s[j].func = f => s[i].id < s[j].id
        /\ \A n \in CallId : done < n /\ n <= s[i].id => Has(s, f, n)

\* They reach as far as call `last`.
Complete(s, f, done, last) == \A n \in CallId : done < n /\ n <= last => Has(s, f, n)

\* t has the same messages of function f as s, moved to the front by one place or
\* not at all: the inboxes before and after a step that has nothing to do with f.
Same(s, t, f) ==
    \E k \in {0, 1} :
        /\ \A i \in DOMAIN t :
              t[i].func = f => i + k \in DOMAIN s /\ s[i + k] = t[i]
        /\ \A i \in DOMAIN s :
              s[i].func = f => i - k \in DOMAIN t /\ t[i - k] = s[i]

Message == CallMessages \cup ResultMessages \cup EventMessages

\* The numbers of messages are positive.
LEMMA MessageIds ==
    /\ \A m \in Message : m.id \in Nat /\ m.id > 0
    /\ \A s \in Seq(Message) :
          /\ DOMAIN s = 1..Len(s) /\ Len(s) \in Nat
          /\ \A i \in DOMAIN s : s[i] \in Message /\ s[i].id \in Nat /\ s[i].id > 0
    /\ \A n \in CallId : n \in Nat /\ n > 0
BY BoundsAssumption DEF Message, CallMessages, ResultMessages, EventMessages, CallId

\* Inboxes that did not change, to which a message of another function was
\* appended, or whose first message was taken and belongs to another function.
LEMMA SameInbox ==
    ASSUME NEW s \in Seq(Message), NEW f
    PROVE  /\ Same(s, s, f)
           /\ \A m \in Message : m.func # f => Same(s, Append(s, m), f)
           /\ s # <<>> /\ Head(s).func # f => Same(s, Tail(s), f)
<1>1. Same(s, s, f)
  <2>1. \A i \in DOMAIN s : i + 0 = i /\ i - 0 = i
    BY MessageIds
  <2> QED
    BY <2>1 DEF Same
<1>2. ASSUME NEW m \in Message, m.func # f
      PROVE  Same(s, Append(s, m), f)
  <2> DEFINE t == Append(s, m)
  <2>1. /\ DOMAIN t = 1..(Len(s) + 1) /\ DOMAIN s = 1..Len(s) /\ Len(s) \in Nat
        /\ \A i \in DOMAIN s : t[i] = s[i]
        /\ t[Len(s) + 1] = m
    BY MessageIds, AppendProperties
  <2> HIDE DEF t
  <2>2. /\ \A i \in DOMAIN t : t[i].func = f => i + 0 \in DOMAIN s /\ s[i + 0] = t[i]
        /\ \A i \in DOMAIN s : s[i].func = f => i - 0 \in DOMAIN t /\ t[i - 0] = s[i]
    BY <1>2, <2>1
  <2> QED
    BY <2>2 DEF Same, t
<1>3. ASSUME s # <<>>, Head(s).func # f
      PROVE  Same(s, Tail(s), f)
  <2> DEFINE t == Tail(s)
  <2>1. /\ DOMAIN t = 1..(Len(s) - 1) /\ DOMAIN s = 1..Len(s) /\ Len(s) \in Nat
        /\ \A i \in DOMAIN t : t[i] = s[i + 1]
        /\ s[1] = Head(s)
    BY <1>3, MessageIds, HeadTailProperties
  <2> HIDE DEF t
  <2>2. /\ \A i \in DOMAIN t : t[i].func = f => i + 1 \in DOMAIN s /\ s[i + 1] = t[i]
        /\ \A i \in DOMAIN s : s[i].func = f => i - 1 \in DOMAIN t /\ t[i - 1] = s[i]
    BY <1>3, <2>1
  <2> QED
    BY <2>2 DEF Same, t
<1> QED
    BY <1>1, <1>2, <1>3

\* Such a step keeps what is said about the messages of f.
LEMMA SameKeeps ==
    ASSUME NEW s \in Seq(Message), NEW t \in Seq(Message), NEW f, Same(s, t, f)
    PROVE  /\ Absent(s, f) <=> Absent(t, f)
           /\ Single(s, f) => Single(t, f)
           /\ \A n : AllOf(s, f, n) => AllOf(t, f, n)
           /\ \A n : ValuesUpTo(s, f, n) => ValuesUpTo(t, f, n)
           /\ \A done, last \in Int :
                 InSequence(s, f, done, last) => InSequence(t, f, done, last)
           /\ \A done, last \in Int :
                 Complete(s, f, done, last) => Complete(t, f, done, last)
<1>1. PICK k \in {0, 1} :
          /\ \A i \in DOMAIN t :
                t[i].func = f => i + k \in DOMAIN s /\ s[i + k] = t[i]
          /\ \A i \in DOMAIN s :
                s[i].func = f => i - k \in DOMAIN t /\ t[i - k] = s[i]
    BY DEF Same
<1>2. \A i : i \in DOMAIN s \/ i \in DOMAIN t => i \in Int
    BY MessageIds
<1>3. Absent(s, f) <=> Absent(t, f)
    BY <1>1 DEF Absent
<1>4. Single(s, f) => Single(t, f)
    BY <1>1, <1>2 DEF Single
<1>5. \A n : AllOf(s, f, n) => AllOf(t, f, n)
    BY <1>1 DEF AllOf
<1>6. \A n : ValuesUpTo(s, f, n) => ValuesUpTo(t, f, n)
    BY <1>1 DEF ValuesUpTo
<1>7. \A n : Has(s, f, n) => Has(t, f, n)
    BY <1>1 DEF Has
<1>8. \A done, last \in Int :
          InSequence(s, f, done, last) => InSequence(t, f, done, last)
  <2> SUFFICES ASSUME NEW done \in Int, NEW last \in Int, InSequence(s, f, done, last),
                      NEW i \in DOMAIN t, t[i].func = f
               PROVE  /\ done < t[i].id /\ t[i].id <= last
                      /\ \A j \in DOMAIN t : i < j /\ t[j].func = f => t[i].id < t[j].id
                      /\ \A n \in CallId : done < n /\ n <= t[i].id => Has(t, f, n)
    BY DEF InSequence
  <2>1. i + k \in DOMAIN s /\ s[i + k] = t[i]
    BY <1>1
  <2>2. /\ done < t[i].id /\ t[i].id <= last
        /\ \A n \in CallId : done < n /\ n <= t[i].id => Has(t, f, n)
    BY <1>7, <2>1 DEF InSequence
  <2>3. ASSUME NEW j \in DOMAIN t, i < j, t[j].func = f
        PROVE  t[i].id < t[j].id
    <3>1. j + k \in DOMAIN s /\ s[j + k] = t[j] /\ i + k < j + k
      BY <1>1, <1>2, <2>3
    <3> QED
      BY <2>1, <2>3, <3>1 DEF InSequence
  <2> QED
    BY <2>2, <2>3
<1>9. \A done, last \in Int :
          Complete(s, f, done, last) => Complete(t, f, done, last)
    BY <1>7 DEF Complete
<1> QED
    BY <1>3, <1>4, <1>5, <1>6, <1>8, <1>9

\* A message of f is appended, of the call after those that were sent.
LEMMA AppendedOwn ==
    ASSUME NEW s \in Seq(Message), NEW m \in Message
    PROVE  /\ ~Absent(Append(s, m), m.func)
           /\ Absent(s, m.func) => Single(Append(s, m), m.func)
           /\ \A n : Absent(s, m.func) /\ m.id = n => AllOf(Append(s, m), m.func, n)
           /\ \A n : ValuesUpTo(s, m.func, n) /\ m.id <= n /\ m.body = "value"
                        => ValuesUpTo(Append(s, m), m.func, n)
           /\ \A done, last \in Nat :
                 /\ done <= last /\ m.id = last + 1
                 /\ InSequence(s, m.func, done, last)
                 /\ Complete(s, m.func, done, last)
                 => /\ InSequence(Append(s, m), m.func, done, last + 1)
                    /\ Complete(Append(s, m), m.func, done, last + 1)
<1> DEFINE t == Append(s, m)
           f == m.func
<1>1. /\ DOMAIN t = 1..(Len(s) + 1) /\ DOMAIN s = 1..Len(s) /\ Len(s) \in Nat
      /\ \A i \in DOMAIN s : t[i] = s[i]
      /\ t[Len(s) + 1] = m
    BY MessageIds, AppendProperties
<1>2. /\ m.id \in Nat
      /\ \A i \in DOMAIN s : s[i].id \in Nat
      /\ \A n \in CallId : n \in Nat
    BY MessageIds
<1>3. \A i \in DOMAIN t : i \in DOMAIN s \/ i = Len(s) + 1
    BY <1>1
<1>4. Len(s) + 1 \in DOMAIN t /\ \A i \in DOMAIN s : i \in DOMAIN t
    BY <1>1
<1> HIDE DEF t
<1>5. ~Absent(t, f)
    BY <1>1, <1>4 DEF Absent
<1>6. Absent(s, f) => Single(t, f)
    BY <1>1, <1>3 DEF Absent, Single
<1>7. \A n : Absent(s, f) /\ m.id = n => AllOf(t, f, n)
    BY <1>1, <1>3 DEF Absent, AllOf
<1>8. \A n : ValuesUpTo(s, f, n) /\ m.id <= n /\ m.body = "value" => ValuesUpTo(t, f, n)
    BY <1>1, <1>3 DEF ValuesUpTo
<1>9. ASSUME NEW done \in Nat, NEW last \in Nat, done <= last, m.id = last + 1,
             InSequence(s, f, done, last), Complete(s, f, done, last)
      PROVE  InSequence(t, f, done, last + 1) /\ Complete(t, f, done, last + 1)
  <2>1. \A n : Has(s, f, n) => Has(t, f, n)
    BY <1>1, <1>4 DEF Has
  <2>2. Has(t, f, last + 1)
    BY <1>1, <1>4, <1>9 DEF Has
  <2>3. Complete(t, f, done, last + 1)
    <3> SUFFICES ASSUME NEW n \in CallId, done < n, n <= last + 1
                 PROVE  Has(t, f, n)
      BY DEF Complete
    <3>1. CASE n <= last
      BY <1>9, <2>1, <3>1 DEF Complete
    <3>2. CASE n = last + 1
      BY <2>2, <3>2
    <3> QED
      BY <1>2, <3>1, <3>2
  <2>4. ASSUME NEW i \in DOMAIN t, t[i].func = f
        PROVE  /\ done < t[i].id /\ t[i].id <= last + 1
               /\ \A j \in DOMAIN t : i < j /\ t[j].func = f => t[i].id < t[j].id
               /\ \A n \in CallId : done < n /\ n <= t[i].id => Has(t, f, n)
    <3>1. CASE i \in DOMAIN s
      <4>1. /\ done < s[i].id /\ s[i].id <= last
            /\ \A j \in DOMAIN s : i < j /\ s[j].func = f => s[i].id < s[j].id
            /\ \A n \in CallId : done < n /\ n <= s[i].id => Has(s, f, n)
        BY <1>1, <1>9, <2>4, <3>1 DEF InSequence
      <4>2. t[i] = s[i]
        BY <1>1, <3>1
      <4>3. \A j \in DOMAIN t : i < j /\ t[j].func = f => t[i].id < t[j].id
        BY <1>1, <1>2, <1>3, <1>9, <3>1, <4>1, <4>2
      <4>4. t[i].id <= last + 1
        BY <1>2, <3>1, <4>1, <4>2
      <4> QED
        BY <2>1, <4>1, <4>2, <4>3, <4>4
    <3>2. CASE i = Len(s) + 1
      <4>1. t[i].id = last + 1
        BY <1>1, <1>9, <3>2
      <4>2. \A j \in DOMAIN t : ~(i < j)
        BY <1>1, <3>2
      <4> QED
        BY <1>9, <2>3, <4>1, <4>2 DEF Complete
    <3> QED
      BY <1>3, <2>4, <3>1, <3>2
  <2> QED
    BY <2>3, <2>4 DEF InSequence
<1> QED
    BY <1>5, <1>6, <1>7, <1>8, <1>9 DEF t

\* The first message is one of f and is taken: it is the next call after those
\* that are done.
LEMMA TakenOwn ==
    ASSUME NEW s \in Seq(Message), s # <<>>, NEW f, Head(s).func = f
    PROVE  /\ ~Absent(s, f)
           /\ Single(s, f) => Absent(Tail(s), f)
           /\ \A n : AllOf(s, f, n) => Head(s).id = n
           /\ \A n : ValuesUpTo(s, f, n) =>
                 Head(s).id <= n /\ Head(s).body = "value" /\ ValuesUpTo(Tail(s), f, n)
           /\ \A done, last \in Nat : InSequence(s, f, done, last) /\ last <= MaxCalls =>
                 /\ Head(s).id = done + 1 /\ done + 1 <= last
                 /\ InSequence(Tail(s), f, done + 1, last)
                 /\ Complete(s, f, done, last) => Complete(Tail(s), f, done + 1, last)
<1> DEFINE t == Tail(s)
<1>1. /\ DOMAIN t = 1..(Len(s) - 1) /\ DOMAIN s = 1..Len(s) /\ Len(s) \in Nat
      /\ \A i \in DOMAIN t : t[i] = s[i + 1]
      /\ s[1] = Head(s)
      /\ Len(s) > 0
    BY MessageIds, HeadTailProperties
<1>2. /\ \A i \in DOMAIN s : s[i].id \in Nat
      /\ \A n \in CallId : n \in Nat
    BY MessageIds
<1>3. /\ 1 \in DOMAIN s
      /\ \A i \in DOMAIN t : i + 1 \in DOMAIN s /\ 1 < i + 1 /\ i \in Int
      /\ \A i \in DOMAIN s : i = 1 \/ (i - 1 \in DOMAIN t /\ (i - 1) + 1 = i)
    BY <1>1
<1> HIDE DEF t
<1>4. ~Absent(s, f)
    BY <1>1, <1>3 DEF Absent
<1>5. Single(s, f) => Absent(t, f)
    BY <1>1, <1>3 DEF Absent, Single
<1>6. \A n : AllOf(s, f, n) => Head(s).id = n
    BY <1>1, <1>3 DEF AllOf
<1>7. \A n : ValuesUpTo(s, f, n) =>
          Head(s).id <= n /\ Head(s).body = "value" /\ ValuesUpTo(t, f, n)
    BY <1>1, <1>3 DEF ValuesUpTo
<1>8. ASSUME NEW done \in Nat, NEW last \in Nat, InSequence(s, f, done, last),
             last <= MaxCalls
      PROVE  /\ Head(s).id = done + 1 /\ done + 1 <= last
             /\ InSequence(t, f, done + 1, last)
             /\ Complete(s, f, done, last) => Complete(t, f, done + 1, last)
  <2>1. /\ done < s[1].id /\ s[1].id <= last
        /\ \A j \in DOMAIN s : 1 < j /\ s[j].func = f => s[1].id < s[j].id
        /\ \A n \in CallId : done < n /\ n <= s[1].id => Has(s, f, n)
    BY <1>1, <1>3, <1>8 DEF InSequence
  <2>2. done + 1 \in CallId /\ done < done + 1 /\ done + 1 <= s[1].id
    BY <1>2, <1>3, <1>8, <2>1, BoundsAssumption DEF CallId
  <2>3. PICK p \in DOMAIN s : s[p].func = f /\ s[p].id = done + 1
    BY <2>1, <2>2 DEF Has
  <2>4. s[1].id = done + 1
    BY <1>1, <1>2, <1>3, <2>1, <2>2, <2>3
  <2>5. \A n : Has(s, f, n) /\ n # done + 1 => Has(t, f, n)
    BY <1>1, <1>3, <2>4 DEF Has
  <2>6. ASSUME NEW i \in DOMAIN t, t[i].func = f
        PROVE  /\ done + 1 < t[i].id /\ t[i].id <= last
               /\ \A j \in DOMAIN t : i < j /\ t[j].func = f => t[i].id < t[j].id
               /\ \A n \in CallId : done + 1 < n /\ n <= t[i].id => Has(t, f, n)
    <3>1. i + 1 \in DOMAIN s /\ 1 < i + 1 /\ s[i + 1] = t[i] /\ s[i + 1].func = f
      BY <1>1, <1>3, <2>6
    <3>2. /\ s[i + 1].id <= last
          /\ \A j \in DOMAIN s : i + 1 < j /\ s[j].func = f => s[i + 1].id < s[j].id
          /\ \A n \in CallId : done < n /\ n <= s[i + 1].id => Has(s, f, n)
      BY <1>8, <3>1 DEF InSequence
    <3>3. done + 1 < t[i].id
      BY <2>1, <2>4, <3>1
    <3>4. \A j \in DOMAIN t : i < j /\ t[j].func = f => t[i].id < t[j].id
      BY <1>1, <1>3, <3>1, <3>2
    <3>5. \A n \in CallId : done + 1 < n /\ n <= t[i].id => Has(t, f, n)
      BY <1>2, <2>5, <3>1, <3>2
    <3> QED
      BY <3>1, <3>2, <3>3, <3>4, <3>5
  <2>7. InSequence(t, f, done + 1, last)
    BY <2>6 DEF InSequence
  <2>8. Complete(s, f, done, last) => Complete(t, f, done + 1, last)
    BY <1>2, <2>5 DEF Complete
  <2> QED
    BY <1>1, <2>1, <2>2, <2>4, <2>7, <2>8
<1> QED
    BY <1>4, <1>5, <1>6, <1>7, <1>8 DEF t

\* Later calls and executed calls disturb nothing.
LEMMA Monotone ==
    ASSUME NEW s \in Seq(Message), NEW f
    PROVE  /\ \A m, n \in Int : ValuesUpTo(s, f, m) /\ m <= n => ValuesUpTo(s, f, n)
           /\ \A done, m, n \in Int :
                 InSequence(s, f, done, m) /\ m <= n => InSequence(s, f, done, n)
           /\ AllOf(s, f, 0) => Absent(s, f)
           /\ Absent(s, f) => \A n : AllOf(s, f, n)
BY MessageIds DEF ValuesUpTo, InSequence, AllOf, Absent

------------------------------------------------------------------------------
(***************************************************************************)
(* Messages that need not be the only ones of their function: what is said *)
(* of them in the invariant of RawPeersProofs.                             *)
(***************************************************************************)

\* The messages of f come in the order of their calls.
Rising(s, f) ==
    \A i, j \in DOMAIN s : i < j /\ s[i].func = f /\ s[j].func = f => s[i].id < s[j].id

\* No two messages of f belong to the same call.
Distinct(s, f) ==
    \A i, j \in DOMAIN s :
        s[i].func = f /\ s[j].func = f /\ s[i].id = s[j].id => i = j

\* Call n is refused by one of them.
Refuses(s, f, n) ==
    \E i \in DOMAIN s : s[i].func = f /\ s[i].id = n /\ s[i].body = "in_progress"

\* A step that has nothing to do with f.
LEMMA SameHas ==
    ASSUME NEW s \in Seq(Message), NEW t \in Seq(Message), NEW f, Same(s, t, f)
    PROVE  /\ \A n : Has(s, f, n) <=> Has(t, f, n)
           /\ \A n : Refuses(s, f, n) <=> Refuses(t, f, n)
           /\ Rising(s, f) => Rising(t, f)
           /\ Distinct(s, f) => Distinct(t, f)
<1>1. PICK k \in {0, 1} :
          /\ \A i \in DOMAIN t :
                t[i].func = f => i + k \in DOMAIN s /\ s[i + k] = t[i]
          /\ \A i \in DOMAIN s :
                s[i].func = f => i - k \in DOMAIN t /\ t[i - k] = s[i]
    BY DEF Same
<1>2. \A i : i \in DOMAIN s \/ i \in DOMAIN t => i \in Int
    BY MessageIds
<1>3. \A n : Has(s, f, n) <=> Has(t, f, n)
    BY <1>1 DEF Has
<1>4. \A n : Refuses(s, f, n) <=> Refuses(t, f, n)
    BY <1>1 DEF Refuses
<1>5. ASSUME Rising(s, f), NEW i \in DOMAIN t, NEW j \in DOMAIN t, i < j,
             t[i].func = f, t[j].func = f
      PROVE  t[i].id < t[j].id
  <2>1. /\ i + k \in DOMAIN s /\ s[i + k] = t[i]
        /\ j + k \in DOMAIN s /\ s[j + k] = t[j]
    BY <1>1, <1>5
  <2>2. i + k < j + k
    BY <1>2, <1>5
  <2> QED
    BY <1>5, <2>1, <2>2 DEF Rising
<1>6. Distinct(s, f) => Distinct(t, f)
    BY <1>1, <1>2 DEF Distinct
<1> QED
    BY <1>3, <1>4, <1>5, <1>6 DEF Rising

\* A message of f is appended.
LEMMA AppendedHas ==
    ASSUME NEW s \in Seq(Message), NEW m \in Message
    PROVE  /\ \A n : Has(Append(s, m), m.func, n) <=> Has(s, m.func, n) \/ n = m.id
           /\ \A n : Refuses(Append(s, m), m.func, n) <=>
                 Refuses(s, m.func, n) \/ (n = m.id /\ m.body = "in_progress")
           /\ Rising(s, m.func) /\ (\A n \in Nat : Has(s, m.func, n) => n < m.id)
                 => Rising(Append(s, m), m.func)
           /\ Distinct(s, m.func) /\ ~Has(s, m.func, m.id)
                 => Distinct(Append(s, m), m.func)
<1> DEFINE t == Append(s, m)
           f == m.func
<1>1. /\ DOMAIN t = 1..(Len(s) + 1) /\ DOMAIN s = 1..Len(s) /\ Len(s) \in Nat
      /\ \A i \in DOMAIN s : t[i] = s[i]
      /\ t[Len(s) + 1] = m
    BY MessageIds, AppendProperties
<1>2. \A i \in DOMAIN t : i \in Nat /\ (i \in DOMAIN s \/ i = Len(s) + 1)
    BY <1>1
<1>3. /\ Len(s) + 1 \in DOMAIN t
      /\ \A i \in DOMAIN s : i \in DOMAIN t /\ i < Len(s) + 1 /\ s[i].id \in Nat
    BY <1>1, MessageIds
<1> HIDE DEF t, f
<1>4. \A n : Has(t, f, n) <=> Has(s, f, n) \/ n = m.id
    BY <1>1, <1>2, <1>3 DEF Has, f
<1>5. \A n : Refuses(t, f, n) <=> Refuses(s, f, n) \/ (n = m.id /\ m.body = "in_progress")
    BY <1>1, <1>2, <1>3 DEF Refuses, f
<1>6. ASSUME Rising(s, f), \A n \in Nat : Has(s, f, n) => n < m.id
      PROVE  Rising(t, f)
  <2> SUFFICES ASSUME NEW i \in DOMAIN t, NEW j \in DOMAIN t, i < j,
                      t[i].func = f, t[j].func = f
               PROVE  t[i].id < t[j].id
    BY DEF Rising
  <2>1. i \in DOMAIN s /\ t[i] = s[i]
    BY <1>1, <1>2, <1>3
  <2>2. CASE j \in DOMAIN s
    BY <1>1, <1>6, <2>1, <2>2 DEF Rising
  <2>3. CASE j = Len(s) + 1
    <3>1. Has(s, f, s[i].id) /\ s[i].id \in Nat
      BY <1>3, <2>1 DEF Has
    <3> QED
      BY <1>1, <1>6, <2>1, <2>3, <3>1
  <2> QED
    BY <1>2, <2>2, <2>3
<1>7. Distinct(s, f) /\ ~Has(s, f, m.id) => Distinct(t, f)
    BY <1>1, <1>2 DEF Distinct, Has
<1> QED
    BY <1>4, <1>5, <1>6, <1>7 DEF t, f

\* The first message is one of f and is taken.
LEMMA TakenHas ==
    ASSUME NEW s \in Seq(Message), s # <<>>, NEW f, Head(s).func = f
    PROVE  /\ \A n : Has(s, f, n) <=> Has(Tail(s), f, n) \/ n = Head(s).id
           /\ \A n : Refuses(s, f, n) <=>
                 \/ Refuses(Tail(s), f, n)
                 \/ n = Head(s).id /\ Head(s).body = "in_progress"
           /\ Rising(s, f) => /\ Rising(Tail(s), f)
                              /\ \A n : Has(Tail(s), f, n) => Head(s).id < n
           /\ Distinct(s, f) => Distinct(Tail(s), f) /\ ~Has(Tail(s), f, Head(s).id)
<1> DEFINE t == Tail(s)
<1>1. /\ DOMAIN t = 1..(Len(s) - 1) /\ DOMAIN s = 1..Len(s) /\ Len(s) \in Nat
      /\ \A i \in DOMAIN t : t[i] = s[i + 1]
      /\ s[1] = Head(s)
      /\ Len(s) > 0
    BY MessageIds, HeadTailProperties
<1>2. /\ 1 \in DOMAIN s
      /\ \A i \in DOMAIN t : i + 1 \in DOMAIN s /\ 1 < i + 1 /\ i \in Int
      /\ \A i \in DOMAIN s : i = 1 \/ (i - 1 \in DOMAIN t /\ (i - 1) + 1 = i)
    BY <1>1
<1> HIDE DEF t
<1>3. \A n : Has(s, f, n) <=> Has(t, f, n) \/ n = Head(s).id
    BY <1>1, <1>2 DEF Has
<1>4. \A n : Refuses(s, f, n) <=>
                 Refuses(t, f, n) \/ (n = Head(s).id /\ Head(s).body = "in_progress")
    BY <1>1, <1>2 DEF Refuses
<1>5. ASSUME Rising(s, f)
      PROVE  Rising(t, f) /\ \A n : Has(t, f, n) => Head(s).id < n
  <2>1. Rising(t, f)
    BY <1>1, <1>2, <1>5 DEF Rising
  <2>2. \A n : Has(t, f, n) => Head(s).id < n
    BY <1>1, <1>2, <1>5 DEF Rising, Has
  <2> QED
    BY <2>1, <2>2
<1>6. ASSUME Distinct(s, f)
      PROVE  Distinct(t, f) /\ ~Has(t, f, Head(s).id)
  <2>1. Distinct(t, f)
    BY <1>1, <1>2, <1>6 DEF Distinct
  <2>2. \A i \in DOMAIN t : t[i].func = f => t[i].id # Head(s).id
    BY <1>1, <1>2, <1>6 DEF Distinct
  <2> QED
    BY <2>1, <2>2 DEF Has
<1> QED
    BY <1>3, <1>4, <1>5, <1>6 DEF t
==============================================================================
