-------------------------------- MODULE Client --------------------------------
(***************************************************************************)
(* cercall::Client: the calls in progress, the queue of waiting calls, and *)
(* the dispatching of results, events and connection errors.               *)
(*                                                                         *)
(* A client is one thread: a handler runs to its end, except that the user *)
(* code it calls (a closure, an event listener) may itself call the client.*)
(* pc[c] is where the thread of client c is:                               *)
(*                                                                         *)
(*   "idle"     in the event loop, or in user code outside any handler     *)
(*   "handler"  in a closure or listener called from Messenger::read       *)
(*   "errors"   in the loop of dispatch_connection_error                   *)
(*   "errcall"  in a closure called from that loop                         *)
(*   "threw"    an exception of dispatch_result left the event loop        *)
(*   "gone"     the Client was destroyed                                   *)
(*   "assert"   handle_recv found no listener                              *)
(*                                                                         *)
(* Calls are numbered per client and function in the order of send_call.   *)
(***************************************************************************)
EXTENDS StreamTransport, FiniteSets

CONSTANTS
    MaxCallsInProgress,  \* template parameter: calls of one function at once
    UserCloses           \* whether the user calls close() or destroys clients

ASSUME ClientAssumption == /\ MaxCallsInProgress \in Nat \ {0}
                           /\ UserCloses \in BOOLEAN

VARIABLES
    myClosures,   \* [Clients -> [Funcs -> 0..MaxCalls]]: the call whose
                  \* closure is in the map, 0 for no entry
    myCallQueue,  \* [Clients -> [Funcs -> Seq(CallId)]]: the waiting calls
    pc,           \* [Clients -> ...]: see above
    notify,       \* [Clients -> SUBSET Funcs]: entries of myClosures that
                  \* dispatch_connection_error has still to visit
    issued,       \* ghost: [Clients -> [Funcs -> 0..MaxCalls]], calls made
    outcome       \* ghost: [Clients -> [Funcs -> [CallId -> ...]]], what the
                  \* closure of the call was told, "open" while it waits,
                  \* "again" when it was called a second time

clientVars == <<myClosures, myCallQueue, pc, notify, issued, outcome>>

Outcomes == {"none", "open", "value", "in_progress", "error", "wrong", "again"}

ClientTypeOK ==
    /\ myClosures \in [Clients -> [Funcs -> 0..MaxCalls]]
    /\ myCallQueue \in [Clients -> [Funcs -> Seq(CallId)]]
    /\ \A c \in Clients, f \in Funcs :
          Len(myCallQueue[c][f]) <= MaxCallsInProgress - 1
    /\ pc \in [Clients -> {"idle", "handler", "errors", "errcall", "threw",
                           "gone", "assert"}]
    /\ notify \in [Clients -> SUBSET Funcs]
    /\ issued \in [Clients -> [Funcs -> 0..MaxCalls]]
    /\ outcome \in [Clients -> [Funcs -> [CallId -> Outcomes]]]

ClientInit ==
    /\ myClosures = [c \in Clients |-> [f \in Funcs |-> 0]]
    /\ myCallQueue = [c \in Clients |-> [f \in Funcs |-> <<>>]]
    /\ pc = [c \in Clients |-> "idle"]
    /\ notify = [c \in Clients |-> {}]
    /\ issued = [c \in Clients |-> [f \in Funcs |-> 0]]
    /\ outcome = [c \in Clients |-> [f \in Funcs |-> [n \in CallId |-> "none"]]]

\* The user's code has control and may call the client.
UserRuns(c) == pc[c] \in {"idle", "handler", "errcall"}

\* The event loop has control and runs the next handler.
LoopRuns(c) == pc[c] = "idle"

\* Mutant of InProgress: the closure in the map is not found.
NothingInProgress(c) == {}

\* Functions whose closure is in myClosures.
InProgress(c) == {f \in Funcs : myClosures[c][f] # 0}

\* Mutant of can_enqueue: off by one.
can_enqueue_one_more(c, f) == Len(myCallQueue[c][f]) <= MaxCallsInProgress - 1

can_enqueue(c, f) == Len(myCallQueue[c][f]) < MaxCallsInProgress - 1

\* Mutant of enqueue_call: push_front for push_back.
enqueue_call_in_front(q, n) == <<n>> \o q

enqueue_call(q, n) == Append(q, n)

------------------------------------------------------------------------------
(***************************************************************************)
(* What the user calls.                                                    *)
(***************************************************************************)

\* Client::open(), blocking: connect, then on_connected starts to read.
Open(c) ==
    /\ UserRuns(c)
    /\ myState[Cli(c)] = "NEW"
    /\ listening
    /\ myState' = [myState EXCEPT ![Cli(c)] = "OPEN"]
    /\ reading' = [reading EXCEPT ![Cli(c)] = "wait"]
    /\ up' = [up EXCEPT ![c] = TRUE]
    /\ backlog' = backlog \cup {c}
    /\ UNCHANGED <<myListener, myReceiveState, inbox, listening>>
    /\ UNCHANGED clientVars

\* The preconditions of every send_call (prepare_call_message throws to the
\* caller when the transport is not open).
MaySend(c, f) ==
    /\ UserRuns(c)
    /\ is_open(Cli(c))
    /\ issued[c][f] < MaxCalls

NextId(c, f) == issued[c][f] + 1

CallIssued(c, f) == issued' = [issued EXCEPT ![c][f] = @ + 1]

\* myClosures{4}: so many entries fit into the map before an insertion may
\* rehash it.
ClosureBuckets == 4

\* The insertion of f into myClosures rehashes it.
MayRehash(c, f) == Cardinality(InProgress(c) \cup {f}) > ClosureBuckets

\* The entries that dispatch_connection_error still visits after f was added to
\* the map it iterates over.  The iteration may or may not come to the new entry;
\* a rehash moves the other entries too, before it (they are called again) or
\* behind it (they are skipped).
StillVisited(c, f) ==
    {notify[c], notify[c] \cup {f}}
    \cup (IF MayRehash(c, f) THEN SUBSET (InProgress(c) \cup {f}) ELSE {})

\* f is added to myClosures, which the loop may stand in.
NotifyAdded(c, f) ==
    \E visited \in IF pc[c] = "errcall" THEN StillVisited(c, f) ELSE {notify[c]} :
        notify' = [notify EXCEPT ![c] = visited]

\* send_call: no call of f in progress, the message is written.
SendNow(c, f) ==
    /\ MaySend(c, f)
    /\ f \in TwoWay
    /\ f \notin InProgress(c)
    /\ inbox' = Written(inbox, Cli(c), serialize_call(f, NextId(c, f)))
    /\ myClosures' = [myClosures EXCEPT ![c][f] = NextId(c, f)]
    /\ outcome' = [outcome EXCEPT ![c][f][NextId(c, f)] = "open"]
    /\ NotifyAdded(c, f)
    /\ CallIssued(c, f)
    /\ UNCHANGED <<myState, myListener, reading, myReceiveState, up, listening,
                   backlog, myCallQueue, pc>>

\* send_call: the write fails, which closes the transport; the closure gets
\* the error at once.
SendFails(c, f) ==
    /\ MaySend(c, f)
    /\ f \in TwoWay
    /\ f \notin InProgress(c)
    /\ WriteMayFail(Cli(c))
    /\ myState' = StateClosed({Cli(c)})
    /\ reading' = ReadsCancelled({Cli(c)})
    /\ outcome' = [outcome EXCEPT ![c][f][NextId(c, f)] = "error"]
    /\ CallIssued(c, f)
    /\ UNCHANGED <<myListener, myReceiveState, inbox, up, listening, backlog,
                   myClosures, myCallQueue, pc, notify>>

\* send_call: a call of f is in progress, the new one waits in the queue.
\* (A full queue throws to the caller and changes nothing.)
SendQueued(c, f) ==
    /\ MaySend(c, f)
    /\ f \in TwoWay
    /\ f \in InProgress(c)
    /\ can_enqueue(c, f)
    /\ myCallQueue' = [myCallQueue EXCEPT ![c][f] = enqueue_call(@, NextId(c, f))]
    /\ outcome' = [outcome EXCEPT ![c][f][NextId(c, f)] = "open"]
    /\ CallIssued(c, f)
    /\ UNCHANGED transportVars
    /\ UNCHANGED <<myClosures, pc, notify>>

\* The one-way send_call: written, a write error only closes the transport.
SendOneWay(c, f) ==
    /\ MaySend(c, f)
    /\ f \in OneWay
    /\ CallIssued(c, f)
    /\ \/ /\ inbox' = Written(inbox, Cli(c), serialize_call(f, NextId(c, f)))
          /\ UNCHANGED <<myState, reading>>
       \/ /\ WriteMayFail(Cli(c))
          /\ myState' = StateClosed({Cli(c)})
          /\ reading' = ReadsCancelled({Cli(c)})
          /\ UNCHANGED inbox
    /\ UNCHANGED <<myListener, myReceiveState, up, listening, backlog,
                   myClosures, myCallQueue, pc, notify, outcome>>

Close(c) ==
    /\ UserCloses
    /\ UserRuns(c)
    /\ is_open(Cli(c))
    /\ myState' = StateClosed({Cli(c)})
    /\ reading' = ReadsCancelled({Cli(c)})
    /\ up' = LinksDown({c})
    /\ UNCHANGED <<myListener, myReceiveState, inbox, listening, backlog>>
    /\ UNCHANGED clientVars

\* ~Client: close, clear_listener.  The handler that is still queued keeps the
\* transport alive.
Destroy(c) ==
    /\ UserCloses
    /\ LoopRuns(c)
    /\ myState' = StateClosed({Cli(c)})
    /\ reading' = ReadsCancelled({Cli(c)})
    /\ up' = LinksDown({c})
    /\ myListener' = [myListener EXCEPT ![Cli(c)] = FALSE]
    /\ pc' = [pc EXCEPT ![c] = "gone"]
    /\ UNCHANGED <<myReceiveState, inbox, listening, backlog, myClosures,
                   myCallQueue, notify, issued, outcome>>

------------------------------------------------------------------------------
(***************************************************************************)
(* What the event loop calls: BasicStreamTransport::handle_recv.           *)
(***************************************************************************)

HandleClientHeader(c) ==
    /\ LoopRuns(c)
    /\ HandleHeader(Cli(c))
    /\ UNCHANGED clientVars

\* What the closure of call n learns from a result message of its function.
Told(m, n) == IF m.id = n THEN m.body ELSE "wrong"

\* The next message is a result of function f.
ResultArrived(c, f) ==
    /\ LoopRuns(c)
    /\ MessageArrived(Cli(c))
    /\ f = Head(inbox[Cli(c)]).func
    /\ f # BroadcastFunc

\* handle_recv is on the stack.
Received(c) == reading' = [reading EXCEPT ![Cli(c)] = "none"]

\* Mutant of is_enqueued: waiting calls are not noticed.
never_enqueued(c, f) == FALSE

is_enqueued(c, f) == myCallQueue[c][f] # <<>>

\* A call of f waits behind the one whose result arrived.
NextWaits(c, f) == f \in InProgress(c) /\ is_enqueued(c, f)

\* Mutant of ClosureErased: the erase is missing.
ClosureNotErased(c, f) == myClosures

\* myClosures.erase(closureIt).
ClosureErased(c, f) == [myClosures EXCEPT ![c][f] = 0]

\* dispatch_result, no call waits: the closure leaves the map and runs.  When
\* there is none an exception is thrown, and nothing catches it.
DispatchResult(c, f) ==
    /\ ResultArrived(c, f)
    /\ ~NextWaits(c, f)
    /\ outcome' = IF f \in InProgress(c)
                  THEN [outcome EXCEPT ![c][f][myClosures[c][f]] =
                           Told(Head(inbox[Cli(c)]), myClosures[c][f])]
                  ELSE outcome
    /\ myClosures' = ClosureErased(c, f)
    /\ pc' = [pc EXCEPT ![c] = IF f \in InProgress(c) THEN "handler"
                                                      ELSE "threw"]
    /\ Received(c)
    /\ inbox' = Consumed(Cli(c))
    /\ UNCHANGED <<myState, myListener, myReceiveState, up, listening, backlog,
                   myCallQueue, notify, issued>>

\* dequeue_call writes the message of the call that waits longest, puts its
\* closure into the map whatever the write returned, and pops it.
dequeue_call(c, f) ==
    /\ myClosures' = [myClosures EXCEPT ![c][f] = Head(myCallQueue[c][f])]
    /\ myCallQueue' = [myCallQueue EXCEPT ![c][f] = Tail(@)]
    /\ LET call == serialize_call(f, Head(myCallQueue[c][f]))
       IN \/ /\ is_open(Cli(c))
             /\ inbox' = Written(Consumed(Cli(c)), Cli(c), call)
             /\ UNCHANGED myState
          \/ /\ WriteMayFail(Cli(c))
             /\ inbox' = Consumed(Cli(c))
             /\ myState' = StateClosed({Cli(c)})
          \/ /\ ~is_open(Cli(c))
             /\ inbox' = Consumed(Cli(c))
             /\ UNCHANGED myState

\* dispatch_result with a waiting call, which is sent before the closure of the
\* finished call runs.
DispatchResultAndSendNext(c, f) ==
    /\ ResultArrived(c, f)
    /\ NextWaits(c, f)
    /\ outcome' = [outcome EXCEPT ![c][f][myClosures[c][f]] =
                        Told(Head(inbox[Cli(c)]), myClosures[c][f])]
    /\ dequeue_call(c, f)
    /\ pc' = [pc EXCEPT ![c] = "handler"]
    /\ Received(c)
    /\ UNCHANGED <<myListener, myReceiveState, up, listening, backlog, notify,
                   issued>>

\* dispatch_event: the listeners run.
DispatchEvent(c) ==
    /\ LoopRuns(c)
    /\ MessageArrived(Cli(c))
    /\ Head(inbox[Cli(c)]).func = BroadcastFunc
    /\ pc' = [pc EXCEPT ![c] = "handler"]
    /\ Received(c)
    /\ inbox' = Consumed(Cli(c))
    /\ UNCHANGED <<myState, myListener, myReceiveState, up, listening, backlog,
                   myClosures, myCallQueue, notify, issued, outcome>>

\* The closure or listener returned, Messenger::read goes on.
HandlerReturns(c) ==
    /\ pc[c] = "handler"
    /\ pc' = [pc EXCEPT ![c] = "idle"]
    /\ ReadNextHeader(Cli(c))
    /\ UNCHANGED <<myClosures, myCallQueue, notify, issued, outcome>>

\* handle_recv with an error: on_connection_error starts the loop of
\* dispatch_connection_error.
HandleClientRecvError(c) ==
    /\ LoopRuns(c)
    /\ reading[Cli(c)] = "failed"
    /\ pc' = [pc EXCEPT ![c] = "errors"]
    /\ notify' = [notify EXCEPT ![c] = InProgress(c)]
    /\ Received(c)
    /\ UNCHANGED <<myState, myListener, myReceiveState, inbox, up, listening,
                   backlog, myClosures, myCallQueue, issued, outcome>>

\* What is known of a closure that is called with an error.
ErrorOutcome(before) == IF before = "open" THEN "error" ELSE "again"

\* The loop calls the closure of one function with the error.
DispatchErrorToClosure(c, f) ==
    /\ pc[c] = "errors"
    /\ f \in notify[c]
    /\ outcome' = [outcome EXCEPT ![c][f][myClosures[c][f]] = ErrorOutcome(@)]
    /\ notify' = [notify EXCEPT ![c] = @ \ {f}]
    /\ pc' = [pc EXCEPT ![c] = "errcall"]
    /\ UNCHANGED transportVars
    /\ UNCHANGED <<myClosures, myCallQueue, issued>>

ErrorClosureReturns(c) ==
    /\ pc[c] = "errcall"
    /\ pc' = [pc EXCEPT ![c] = "errors"]
    /\ UNCHANGED transportVars
    /\ UNCHANGED <<myClosures, myCallQueue, notify, issued, outcome>>

\* Mutant of EndErrors: the loop is left after the first closure.
EndErrorsEarly(c) ==
    /\ pc[c] = "errors"
    /\ notify[c] = {} \/ notify[c] # InProgress(c)
    /\ myClosures' = [myClosures EXCEPT ![c] = [f \in Funcs |-> 0]]
    /\ notify' = [notify EXCEPT ![c] = {}]
    /\ pc' = [pc EXCEPT ![c] = "idle"]
    /\ myState' = StateClosed({Cli(c)})
    /\ up' = LinksDown({c})
    /\ UNCHANGED <<myListener, reading, myReceiveState, inbox, listening,
                   backlog, myCallQueue, issued, outcome>>

\* The loop is done: myClosures.clear(), then handle_recv closes the transport.
\* No new read is started.
EndErrors(c) ==
    /\ pc[c] = "errors"
    /\ notify[c] = {}
    /\ myClosures' = [myClosures EXCEPT ![c] = [f \in Funcs |-> 0]]
    /\ pc' = [pc EXCEPT ![c] = "idle"]
    /\ myState' = StateClosed({Cli(c)})
    /\ up' = LinksDown({c})
    /\ UNCHANGED <<myListener, reading, myReceiveState, inbox, listening,
                   backlog, myCallQueue, notify, issued, outcome>>

\* handle_recv with operation_aborted in state CLOSED notifies nobody; so does
\* any error once the listener is gone.
HandleClientAborted(c) ==
    /\ pc[c] \in {"idle", "gone"}
    /\ reading[Cli(c)] \in {"aborted", "failed"}
    /\ pc[c] = "idle" => reading[Cli(c)] = "aborted"
    /\ Received(c)
    /\ UNCHANGED <<myState, myListener, myReceiveState, inbox, up, listening,
                   backlog>>
    /\ UNCHANGED clientVars

\* handle_recv with success after ~Client: o_assert(myListener != nullptr).
ClientAssertFails(c) ==
    /\ pc[c] = "gone"
    /\ reading[Cli(c)] = "ready"
    /\ pc' = [pc EXCEPT ![c] = "assert"]
    /\ Received(c)
    /\ UNCHANGED <<myState, myListener, myReceiveState, inbox, up, listening,
                   backlog, myClosures, myCallQueue, notify, issued, outcome>>

------------------------------------------------------------------------------
UserStep(c) ==
    \/ Open(c) \/ Close(c) \/ Destroy(c)
    \/ \E f \in Funcs : \/ SendNow(c, f) \/ SendFails(c, f)
                        \/ SendQueued(c, f) \/ SendOneWay(c, f)

\* Handlers of the event loop, and the user's callbacks returning to them.
ClientLoopStep(c) ==
    \/ HandleClientHeader(c) \/ DispatchEvent(c) \/ HandlerReturns(c)
    \/ HandleClientRecvError(c) \/ ErrorClosureReturns(c) \/ EndErrors(c)
    \/ HandleClientAborted(c) \/ ClientAssertFails(c)
    \/ \E f \in Funcs : \/ DispatchResult(c, f)
                        \/ DispatchResultAndSendNext(c, f)
                        \/ DispatchErrorToClosure(c, f)

ClientStep(c) == UserStep(c) \/ ClientLoopStep(c)
==============================================================================
