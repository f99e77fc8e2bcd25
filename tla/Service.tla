------------------------------- MODULE Service -------------------------------
(***************************************************************************)
(* cercall::Service with its acceptor: client connections, the dispatching *)
(* of calls to the service's functions, results, broadcasts, start/stop.   *)
(*                                                                         *)
(* The service is one thread.  serving[c] says whether a message of client *)
(* c is being handled: "func" while the service function runs (it may call *)
(* closures, broadcast or stop the service), "reply" after the reply to a  *)
(* refused call, before Messenger::read goes on.                           *)
(*                                                                         *)
(* What goes wrong at run time ends the process (nothing in the library    *)
(* catches it) and is recorded in fault:                                   *)
(*                                                                         *)
(*   "assert"     handle_recv found no listener                            *)
(*   "messenger"  the Messenger whose read() is on the stack was destroyed *)
(*   "archive"    a closure used the archive of a destroyed ClientState    *)
(*   "broadcast"  the map was changed under the loop of broadcast          *)
(*   "restart"    on_accept_error threw: an aborted accept found the       *)
(*                acceptor open again                                      *)
(*   "accept"     on_accept_error threw: a successful accept found the     *)
(*                acceptor closed                                          *)
(*                                                                         *)
(* "messenger", "archive" and "broadcast" are undefined behaviour: the     *)
(* model also has the outcome in which the program happens to go on.       *)
(***************************************************************************)
EXTENDS StreamTransport

CONSTANTS
    ReusableArchive,  \* Serialization::REUSABLE_ARCHIVE
    ServiceStops,     \* whether the implementation ever calls stop()
    MaxStarts         \* bound: calls of start()

ASSUME ServiceAssumption == /\ ReusableArchive \in BOOLEAN
                            /\ ServiceStops \in BOOLEAN
                            /\ MaxStarts \in Nat

VARIABLES
    myClients,       \* SUBSET Clients: connections in the map myClients
    myPendingCalls,  \* [Clients -> [Funcs -> Nat]]: entries in the multimap
    held,            \* closures the service functions have not called yet
    serving,         \* [Clients -> {"none", "func", "reply"}]
    acceptAborted,   \* an accept handler is queued with operation_aborted
    acceptDone,      \* SUBSET Clients: connections whose accept handler was
                     \* queued, with success, when stop() closed the acceptor
    fault,           \* see above, "none" while the process runs
    starts,          \* number of start() calls
    events,          \* number of broadcasts
    executed         \* ghost: [Clients -> [Funcs -> Seq(CallId)]], the calls
                     \* a service function was run for

serviceVars == <<myClients, myPendingCalls, held, serving, acceptAborted,
                 acceptDone, fault, starts, events, executed>>

Closures == [client : Clients, func : TwoWay, id : CallId]

ServiceTypeOK ==
    /\ myClients \subseteq Clients
    /\ myPendingCalls \in [Clients -> [Funcs -> Nat]]
    /\ held \subseteq Closures
    /\ serving \in [Clients -> {"none", "func", "reply"}]
    /\ acceptAborted \in BOOLEAN
    /\ acceptDone \subseteq Clients
    /\ fault \in {"none", "assert", "messenger", "archive", "broadcast",
                  "restart", "accept"}
    /\ starts \in 0..MaxStarts
    /\ events \in 0..MaxEvents
    /\ executed \in [Clients -> [Funcs -> Seq(CallId)]]

ServiceInit ==
    /\ myClients = {}
    /\ myPendingCalls = [c \in Clients |-> [f \in Funcs |-> 0]]
    /\ held = {}
    /\ serving = [c \in Clients |-> "none"]
    /\ acceptAborted = FALSE
    /\ acceptDone = {}
    /\ fault = "none"
    /\ starts = 0
    /\ events = 0
    /\ executed = [c \in Clients |-> [f \in Funcs |-> <<>>]]

\* The event loop runs the next handler.
ServiceLoopRuns == fault = "none" /\ \A c \in Clients : serving[c] = "none"

\* Code of the service implementation runs: a service function, or a handler
\* of its own (a timer) called by the event loop.
ServiceCodeRuns == fault = "none" /\ \A c \in Clients : serving[c] # "reply"

\* The process ends, and with it all its sockets.
Crash(kind) ==
    /\ fault' = kind
    /\ up' = LinksDown(Clients)
    /\ listening' = FALSE
    /\ backlog' = {}
    /\ UNCHANGED <<myState, myListener, reading, myReceiveState, inbox,
                   myClients, myPendingCalls, held, serving, acceptAborted,
                   acceptDone, starts, events, executed>>

\* Mutant of Unregistered: the erase is missing.
StillRegistered(C) == myClients

\* myClients.erase for the clients of C.
Unregistered(C) == myClients \ C

\* close() of the service's ends of C, with Service::on_disconnected.
Disconnect(C) ==
    /\ myState' = StateClosed({Srv(c) : c \in C})
    /\ reading' = ReadsCancelled({Srv(c) : c \in C})
    /\ myListener' = [e \in End |-> IF e \in {Srv(c) : c \in C} THEN FALSE
                                                              ELSE myListener[e]]
    /\ myClients' = Unregistered(C)

------------------------------------------------------------------------------
(***************************************************************************)
(* Connections.                                                            *)
(***************************************************************************)

\* start(): open the acceptor, start to accept.
Start ==
    /\ ServiceCodeRuns
    /\ ~listening
    /\ starts < MaxStarts
    /\ starts' = starts + 1
    /\ listening' = TRUE
    /\ UNCHANGED <<myState, myListener, reading, myReceiveState, inbox, up,
                   backlog, myClients, myPendingCalls, held, serving,
                   acceptAborted, acceptDone, fault, events, executed>>

\* stop(): close the acceptor, which aborts the accept and resets connections
\* not accepted, then close every client connection.  The accept may have
\* completed already, its handler is then queued with success.
Stop ==
    /\ ServiceStops
    /\ ServiceCodeRuns
    /\ listening
    /\ listening' = FALSE
    /\ \/ /\ acceptAborted' = TRUE
          /\ up' = LinksDown(myClients \cup backlog)
          /\ UNCHANGED acceptDone
       \/ \E c \in backlog : /\ acceptDone' = acceptDone \cup {c}
                             /\ up' = LinksDown(myClients \cup (backlog \ {c}))
                             /\ UNCHANGED acceptAborted
    /\ backlog' = {}
    /\ Disconnect(myClients)
    /\ UNCHANGED <<myReceiveState, inbox, myPendingCalls, held, serving, fault,
                   starts, events, executed>>

\* The accept handler with operation_aborted: silent, unless the acceptor was
\* opened again before the handler ran.
HandleAcceptAborted ==
    /\ ServiceLoopRuns
    /\ acceptAborted
    /\ \/ /\ ~listening
          /\ acceptAborted' = FALSE
          /\ UNCHANGED transportVars
          /\ UNCHANGED <<myClients, myPendingCalls, held, serving, acceptDone,
                         fault, starts, events, executed>>
       \/ listening /\ Crash("restart")

\* on_client_accepted: a new transport, registered, open and reading.
OnClientAccepted(c) ==
    /\ ServiceLoopRuns
    /\ listening
    /\ c \in backlog \cup acceptDone
    /\ backlog' = backlog \ {c}
    /\ acceptDone' = acceptDone \ {c}
    /\ myClients' = myClients \cup {c}
    /\ myListener' = [myListener EXCEPT ![Srv(c)] = TRUE]
    /\ myState' = [myState EXCEPT ![Srv(c)] = "OPEN"]
    /\ reading' = [reading EXCEPT ![Srv(c)] = "wait"]
    /\ UNCHANGED <<myReceiveState, inbox, up, listening, myPendingCalls, held,
                   serving, acceptAborted, fault, starts, events, executed>>

\* The accept handler with success on a closed acceptor: the condition of the
\* error branch only exempts operation_aborted.
AcceptedTooLate(c) ==
    /\ ServiceLoopRuns
    /\ c \in acceptDone
    /\ ~listening
    /\ Crash("accept")

\* handle_recv with an error: on_connection_error does nothing, close() of an
\* OPEN transport leads to on_disconnected.
HandleServiceRecvError(c) ==
    /\ ServiceLoopRuns
    /\ reading[Srv(c)] \in {"failed", "aborted"}
    /\ myState' = StateClosed({Srv(c)})
    /\ reading' = [reading EXCEPT ![Srv(c)] = "none"]
    /\ myListener' = [myListener EXCEPT ![Srv(c)] = FALSE]
    /\ myClients' = Unregistered({c})
    /\ up' = LinksDown({c})
    /\ UNCHANGED <<myReceiveState, inbox, listening, backlog, myPendingCalls,
                   held, serving, acceptAborted, acceptDone, fault, starts,
                   events, executed>>

\* handle_recv with success after close(): o_assert(myListener != nullptr).
ServiceAssertFails(c) ==
    /\ ServiceLoopRuns
    /\ reading[Srv(c)] = "ready"
    /\ ~myListener[Srv(c)]
    /\ Crash("assert")

HandleServiceHeader(c) ==
    /\ ServiceLoopRuns
    /\ HandleHeader(Srv(c))
    /\ UNCHANGED serviceVars

------------------------------------------------------------------------------
(***************************************************************************)
(* Calls.                                                                  *)
(***************************************************************************)

\* The next message is a call of function f.
CallArrived(c, f) ==
    /\ ServiceLoopRuns
    /\ MessageArrived(Srv(c))
    /\ f = Head(inbox[Srv(c)]).func

CallNumber(c) == Head(inbox[Srv(c)]).id

\* handle_recv is on the stack, the message is consumed, the function runs.
FuncCalled(c, f) ==
    /\ reading' = [reading EXCEPT ![Srv(c)] = "none"]
    /\ inbox' = Consumed(Srv(c))
    /\ serving' = [serving EXCEPT ![c] = "func"]
    /\ executed' = [executed EXCEPT ![c][f] = Append(@, CallNumber(c))]
    /\ UNCHANGED <<myState, myListener, myReceiveState, up, listening,
                   backlog, myClients, acceptAborted, acceptDone, fault,
                   starts, events>>

\* dispatch_func of a one-way function.
DispatchOneWay(c, f) ==
    /\ CallArrived(c, f)
    /\ f \in OneWay
    /\ FuncCalled(c, f)
    /\ UNCHANGED <<myPendingCalls, held>>

\* Mutant of find_pending_call: it compares the function name only.
pending_call_of_anyone(c, f) == \E d \in Clients : myPendingCalls[d][f] > 0

find_pending_call(c, f) == myPendingCalls[c][f] > 0

\* dispatch_func: no call of f by this client is pending; the function runs
\* with a closure it may call or keep.
DispatchFunc(c, f) ==
    /\ CallArrived(c, f)
    /\ f \in TwoWay
    /\ ~find_pending_call(c, f)
    /\ myPendingCalls' = [myPendingCalls EXCEPT ![c][f] = @ + 1]
    /\ held' = held \cup {[client |-> c, func |-> f, id |-> CallNumber(c)]}
    /\ FuncCalled(c, f)

\* Mutant of DispatchRefused: the return after the reply is missing.
DispatchRefusedAndCalled(c, f) ==
    /\ CallArrived(c, f)
    /\ f \in TwoWay
    /\ find_pending_call(c, f)
    /\ serving' = [serving EXCEPT ![c] = "func"]
    /\ reading' = [reading EXCEPT ![Srv(c)] = "none"]
    /\ inbox' = Written(Consumed(Srv(c)), Srv(c),
                    serialize_call_result(f, CallNumber(c), "in_progress"))
    /\ myPendingCalls' = [myPendingCalls EXCEPT ![c][f] = @ + 1]
    /\ held' = held \cup {[client |-> c, func |-> f, id |-> CallNumber(c)]}
    /\ executed' = [executed EXCEPT ![c][f] = Append(@, CallNumber(c))]
    /\ UNCHANGED <<myState, myListener, myClients, myReceiveState, up,
                   listening, backlog, acceptAborted, acceptDone, fault,
                   starts, events>>

\* dispatch_func: the previous call is pending; operation_in_progress is
\* written, and a write error closes the connection.
DispatchRefused(c, f) ==
    /\ CallArrived(c, f)
    /\ f \in TwoWay
    /\ find_pending_call(c, f)
    /\ serving' = [serving EXCEPT ![c] = "reply"]
    /\ reading' = [reading EXCEPT ![Srv(c)] = "none"]
    /\ \/ /\ inbox' = Written(Consumed(Srv(c)), Srv(c),
                    serialize_call_result(f, CallNumber(c), "in_progress"))
          /\ UNCHANGED <<myState, myListener, myClients>>
       \/ /\ WriteMayFail(Srv(c))
          /\ inbox' = Consumed(Srv(c))
          /\ myState' = StateClosed({Srv(c)})
          /\ myListener' = [myListener EXCEPT ![Srv(c)] = FALSE]
          /\ myClients' = Unregistered({c})
    /\ UNCHANGED <<myReceiveState, up, listening, backlog, myPendingCalls,
                   held, acceptAborted, acceptDone, fault, starts, events,
                   executed>>

\* Back in Messenger::read.  When the connection was closed meanwhile, the
\* Messenger is gone with its ClientState.
FuncReturns(c) ==
    /\ fault = "none"
    /\ serving[c] # "none"
    /\ \/ /\ serving' = [serving EXCEPT ![c] = "none"]
          /\ ReadNextHeader(Srv(c))
          /\ UNCHANGED <<myClients, myPendingCalls, held, acceptAborted,
                         acceptDone, fault, starts, events, executed>>
       \/ c \notin myClients /\ Crash("messenger")

\* Mutant of ResultSent: the entry stays in myPendingCalls.
ResultSentStillPending(h) ==
    /\ held' = held \ {h}
    /\ UNCHANGED <<myPendingCalls, myReceiveState, listening, backlog, serving,
                   acceptAborted, acceptDone, fault, starts, events, executed>>

\* The entry that find_pending_call found is erased, the closure is used up.
ResultSent(h) ==
    /\ myPendingCalls' = [myPendingCalls EXCEPT ![h.client][h.func] = @ - 1]
    /\ held' = held \ {h}
    /\ UNCHANGED <<myReceiveState, listening, backlog, serving, acceptAborted,
                   acceptDone, fault, starts, events, executed>>

\* A service function, or a later handler, calls a closure: send_result.
\* send_result throws when the call is not pending.
SendResult(h) ==
    /\ ServiceCodeRuns
    /\ h \in held
    /\ find_pending_call(h.client, h.func)
    /\ h.client \in myClients
    /\ inbox' = Written(inbox, Srv(h.client),
                        serialize_call_result(h.func, h.id, "value"))
    /\ ResultSent(h)
    /\ UNCHANGED <<myState, myListener, reading, up, myClients>>

\* send_result: the write fails and closes the connection.
SendResultFails(h) ==
    /\ ServiceCodeRuns
    /\ h \in held
    /\ find_pending_call(h.client, h.func)
    /\ h.client \in myClients
    /\ WriteMayFail(Srv(h.client))
    /\ Disconnect({h.client})
    /\ ResultSent(h)
    /\ UNCHANGED <<inbox, up>>

\* The client has disconnected.  The closure still serializes the result, into
\* the archive the ClientState owned if archives are reused.
SendResultDisconnected(h) ==
    /\ ServiceCodeRuns
    /\ h \in held
    /\ find_pending_call(h.client, h.func)
    /\ h.client \notin myClients
    /\ \/ /\ ResultSent(h)
          /\ UNCHANGED <<myState, myListener, reading, inbox, up, myClients>>
       \/ ReusableArchive /\ Crash("archive")

------------------------------------------------------------------------------
(***************************************************************************)
(* Events.                                                                 *)
(***************************************************************************)

\* The event is appended to the connections of C that are up.
EventWritten(C) ==
    inbox' = [e \in End |->
                IF e[2] = "cli" /\ e[1] \in C /\ up[e[1]]
                THEN Append(inbox[e], serialize_event(events + 1)) ELSE inbox[e]]

\* broadcast: every write succeeds.
Broadcast ==
    /\ ServiceCodeRuns
    /\ events < MaxEvents
    /\ events' = events + 1
    /\ EventWritten(myClients)
    /\ UNCHANGED <<myState, myListener, reading, myReceiveState, up, listening,
                   backlog, myClients, myPendingCalls, held, serving,
                   acceptAborted, acceptDone, fault, starts, executed>>

\* broadcast: the writes to the clients of bad fail.  Closing the connection
\* erases the element the loop stands on, so which of the others the loop
\* still comes to, and whether it ends, is undefined.
BroadcastFails(bad, reached) ==
    /\ ServiceCodeRuns
    /\ events < MaxEvents
    /\ bad # {}
    /\ \A c \in bad : WriteMayFail(Srv(c))
    /\ \/ /\ events' = events + 1
          /\ EventWritten(reached)
          /\ Disconnect(bad)
          /\ UNCHANGED <<myReceiveState, up, listening, backlog,
                         myPendingCalls, held, serving, acceptAborted,
                         acceptDone, fault, starts, executed>>
       \/ Crash("broadcast")

------------------------------------------------------------------------------
\* What the service implementation does of its own accord.
ServiceCodeStep ==
    \/ Start \/ Stop \/ Broadcast
    \/ \E bad \in SUBSET myClients :
         \E reached \in SUBSET (myClients \ bad) : BroadcastFails(bad, reached)

\* Calling the closures: the duty of every service function.
ClosureStep ==
    \E h \in held : \/ SendResult(h) \/ SendResultFails(h)
                    \/ SendResultDisconnected(h)

\* Handlers of the event loop, and service functions returning to them.
ServiceLoopStep(c) ==
    \/ OnClientAccepted(c) \/ AcceptedTooLate(c) \/ HandleServiceRecvError(c)
    \/ ServiceAssertFails(c) \/ HandleServiceHeader(c) \/ FuncReturns(c)
    \/ \E f \in Funcs : \/ DispatchOneWay(c, f) \/ DispatchFunc(c, f)
                        \/ DispatchRefused(c, f)

ServiceStep ==
    \/ ServiceCodeStep \/ ClosureStep \/ HandleAcceptAborted
    \/ \E c \in Clients : ServiceLoopStep(c)

------------------------------------------------------------------------------
\* The closures the service holds for calls of f by client c.
Held(c, f) == {h \in held : h.client = c /\ h.func = f}

(***************************************************************************)
(* myPendingCalls has exactly the calls whose closure was not called: one  *)
(* entry per held closure, at most one per client and function.  So        *)
(* send_result never throws "method results already delivered".            *)
(***************************************************************************)
PendingMatchesHeld ==
    \A c \in Clients, f \in Funcs :
        /\ myPendingCalls[c][f] \in {0, 1}
        /\ myPendingCalls[c][f] = 1 <=> Held(c, f) # {}
        /\ \A g, h \in Held(c, f) : g = h

(***************************************************************************)
(* The map myClients, the transports' states and their listeners agree:    *)
(* handlers with a listener find their ClientState (the o_asserts of       *)
(* on_client_accepted and on_incoming_data), and the loop of stop(), which *)
(* closes the first client until the map is empty, ends because closing a  *)
(* registered transport always removes it.                                 *)
(***************************************************************************)
RegisteredIsOpen ==
    \A c \in Clients :
        /\ c \in myClients <=> is_open(Srv(c))
        /\ c \in myClients <=> myListener[Srv(c)]

(***************************************************************************)
(* The service forgets a client whose connection broke, also when stop()   *)
(* and a new start() come between the break and the handlers.              *)
(***************************************************************************)
BrokenClientRemoved ==
    \A c \in Clients :
        (c \in myClients /\ ~up[c]) ~> (c \notin myClients \/ fault # "none")
==============================================================================
