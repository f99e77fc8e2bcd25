# A formal model of CerCall

CerCall is a headers-only C++ library for remote function calls: a `Client` and
a `Service` share an interface, a call is serialized, sent over a stream
transport, dispatched to a service function, and its result comes back to a
closure. This directory holds TLA+ modules that model the library, its event
test services and its clock example, TLC configurations that check them, and
TLAPS proofs.

Paths below are relative to `src/include/cercall/` unless they start with
`src/`.

## The system

| Component | State | Operations | Interacts with |
|---|---|---|---|
| `asio/basicstreamtransport.h` | `myState` (NEW, OPEN, CLOSED), `myListener`, one outstanding `async_read`, the read buffer | `open`, `close`, `read`, `write`, `handle_recv` | calls its listener (a Client or a Service) from `handle_recv` and `close` |
| `details/messenger.h` | `myReceiveState` (HEADER, MESSAGE), the size of the message being read | `init_transport`, `read`, `write_message_with_header` | calls a message handler, then starts the next read |
| `client.h` | `myClosures` (function name to closure), `myCallQueue`, event listeners, archives | `open`, `close`, `send_call`, `on_incoming_data`, `on_connection_error`, `dispatch_*` | user closures and listeners, which may call the client again |
| `details/callqueue.h` | per function a list of waiting calls | `can_enqueue`, `enqueue_call`, `is_enqueued`, `dequeue_call` | used by Client |
| `service.h` | `myClients` (transport to ClientState with Messenger and archives), `myPendingCalls` (multimap function to transport) | `start`, `stop`, `broadcast_event`, `on_client_accepted`, `on_disconnected`, `dispatch_func`, `send_result` | service functions, which call closures at once or later |
| `details/functiondict.h` | function name to caller and one-way flag | `call_function`, `is_one_way` | builds the closure given to a service function |
| `asio/basicstreamacceptor.h` | the acceptor socket, one outstanding `async_accept` | `open`, `close`, accept handler | calls the Service |
| `asio/clienttcptransport.h` | resolver, `myState` | blocking and asynchronous `open` | calls the Client |
| `cereal/`, `boost/` | thread-local string streams, reusable archives | `serialize_*`, `deserialize_*` | used by Client, Service, FunctionDict |
| `src/unittests/eventstestserver.cpp` | the enabled event, a timer | `trigger_single_broadcast`, `tickTimer` | two services that broadcast simple and polymorphic events |
| `src/examples/cerclock/` | tick timer, list of alarms; the programs' stop alarm | `set_tick_interval`, `set_alarm`, `cancel_alarm`, `close_service`, timer handlers | a C++ and a Python program that end by their own alarm |

The library is single-threaded per process. What is hard in it:

- a read, an accept, a connect or a timer that has completed stays queued in the
  event loop while other handlers close its transport, clear its listener, stop
  the service or cancel it;
- every callback (closure, listener, service function) runs in the middle of a
  library function and may call the library again, or throw;
- a failing write closes the connection from deep inside other functions;
- results are matched to calls by function name only;
- objects captured by raw pointer or reference (archive, Messenger, map
  iterator) may be destroyed by a disconnection;
- a reusable archive describes a class once in its life, so its reader depends
  on every message written before.

What makes the components correct: a result reaches the call it belongs to; each
call runs once and each closure is called once, in order; no call waits for ever
without the connection being broken; the service's maps agree with its
connections and closures; messages survive being cut into bytes; what one
archive writes the other can read; an open is answered and a connection
accepted.

## The modules

    RpcMessages --- StreamTransport --+-- Client ----+
                                      |              +-- Cercall      implements AtMostOnce
                                      +-- Service ---+      |
                                            |               +-- MCCercall --------------+
                                            |               +-- CercallProofs -- CallProofs
                                            |                        |                  |
                                            +-- ServiceProofs -------+            MCCallProofs
                                            |         |
                                            +-- RawPeers -- RawPeersProofs -- MCRawPeers

    Messenger -- MCMessenger, MessengerProofs    implements MessageChannel
    Archives -- ArchivesProofs -- MCArchives
    Connect -- MCConnect, ConnectProofs          Clock -- MCClock, ClockProofs

`Messenger`, `Archives`, `Connect` and `Clock` are components seen more closely than the
composed model can afford. Each keeps the variables it is about and takes the
rest from the composed model: `Messenger` justifies the whole messages of
`StreamTransport`; `Connect` refines how a connection comes about, which
`Client` and `Service` take in one step each; `Archives` looks into the messages,
on connections that deliver them in order; `Clock` is an application on top of
calls that behave as `AtMostOnce` says.

**RpcMessages** - the constants of a deployment and the messages. A message
carries the function name and an abstract content: arguments, a value, the
`operation_in_progress` error, an event. The field `id`, which call of the
function the message belongs to, is not on the wire; no guard reads it. It lets
properties ask whether matching by name went wrong.

**StreamTransport** - `BasicStreamTransport` and the receive state of
`Messenger`, for both ends `<<c, "cli">>` and `<<c, "srv">>` of each
connection. `reading[e]` is the outstanding read: `"wait"` until asio completes
it, then `"ready"`, `"failed"` or `"aborted"` until its handler runs. A closed
socket aborts a read that waits, and leaves one that has completed. The
operators (`StateClosed`, `ReadsCancelled`, `Written`, ...) give the values the
transport's functions assign; the actions `ReadCompletes`, `ReadFails` and
`LinkBreaks` are the operating system and are external. A write on a connection
that is gone may succeed (the bytes are lost) or fail. A message travels
as a whole; the header and its body are two reads.

**Client** - `Client` with its `CallQueue`. `pc[c]` says where the client's
thread is, so that a closure or listener can call the client while a handler is
on the stack. `send_call` is four actions: `SendNow`, `SendFails`,
`SendQueued`, `SendOneWay`. `dispatch_result` is two, with and without a waiting
call. The loop of `dispatch_connection_error` is `HandleClientRecvError`,
`DispatchErrorToClosure`, `ErrorClosureReturns`, `EndErrors`; `notify[c]` are
the map entries the loop has still to visit. An entry inserted meanwhile may or
may not be visited; when the map holds more entries than `ClosureBuckets` the
insertion may rehash it, and then any entries may be visited again or skipped
(`NotifyAdded`). A closure called a second time has the outcome `"again"`. A call
on a transport that is not open and a full queue throw to the caller and change
nothing, so they are no actions.
`issued` and `outcome` are ghost variables.

**Service** - `Service`, the acceptor and the closure of `FunctionCaller`.
`serving[c]` is set while a message of c is being handled; during a service
function (`"func"`) closures may be called, events broadcast, the service
stopped. `held` are the closures functions have not called. A run-time failure
ends the process and is recorded in `fault`; where the C++ code has undefined
behaviour (a destroyed Messenger, archive or map element is used) the model has
both that outcome and the one in which the program happens to go on.
`acceptAborted` and `acceptDone` are accept handlers queued when `stop()` closed
the acceptor. `executed` is a ghost variable.

**Cercall** - the clients, the service and the operating system interleaved,
the fairness, and the properties that relate client and service.

**AtMostOnce** - what Cercall promises its user, with nothing but `issued`,
`executed` and `outcome`: calls of a function are executed at most once and in
order; a closure is called at most once, with the value of its own, executed
call and in order, or with an error. `Cercall` implements it by the identity
mapping of its ghost variables: `ImplementsAtMostOnce`. An interface with more
two-way functions than `ClosureBuckets` does not (`FewFunctions`; see
"Known behaviour").

**RawPeers** - the service with peers that write calls without a Client, as the
unit test `test_double_call_on_service` does. It is how a second call of a pending
function reaches the service at all.

**Messenger** - `details::Messenger` over `BasicStreamTransport::read`, byte by
byte. A byte is a digit below `Base`, so that the sizes around the largest one
can be reached; `Encoded` and `Decoded` are the copies of the size into the
header and out of it, and `Weight[i]` is what byte i counts for; `wire` and `arrived` are the bytes on either side of TCP, `loop`
is `dataLenInBuffer` while `Messenger::read` runs. The message handler may throw
(`thrown`), a raw peer may announce a message of size zero.

**MessageChannel** - a queue of whole messages that may end. `Messenger`
implements it, `ended` standing for a thrown exception or a broken connection
without a complete message left in hand: `ImplementsChannel`, and with the
channel's fairness `EveryMessageHandled`.

**Connect** - `ClientTcpTransport::open` in both forms and
`BasicStreamAcceptor`. `stage[c][i]` follows the i-th `open(closure)` of client
c through `handle_resolve` and `handle_connect`; while it is under way the
transport is still NEW, so `Close` does nothing and `Destroy` clears the
listener. `Start` may fail in `open`, `bind` or `listen` and leaves the acceptor
as far as it got; `HandleAccepted`, `HandleAcceptError` and
`HandleAcceptAborted` are the three cases of the accept handler. `misused` is a
ghost variable: two opens overlapped, or the client was destroyed during one.

**Archives** - what the archives of both ends know. A message is the sequence of
its class-typed parts, each with or without the class description;
`Serialized` and `Readable` say what each adapter writes and expects. The
service is the one of `eventstestserver.cpp` with its timer, plus two-way
functions that answer at once; calls are queued as in `client.h`. `offered`,
`unheard` and `waiting` are ghost variables: the events that clients have triggered,
whether the enabled event is still to be broadcast, and the clients that
triggered and have heard nothing since. The service promises less than one
broadcast for each trigger: a later trigger replaces an event that was not
broadcast, and two handlers queued one behind the other broadcast the same event
twice. `EventsBroadcast` says what remains: nothing but triggered events, each in
its class, and none forgotten. The class versions that cereal writes beside the
names are left out: they follow the same order and change no result.

**Clock** - `ClockService`, `clockclient.cpp`, `clockclient.py` and other
programs that may switch ticks and cancel any alarm. A timer that waits may expire
at any moment, and calls may be served between the expiry and its handler.

**CercallProofs, CallProofs, RawPeersProofs, MessengerProofs, ArchivesProofs,
ConnectProofs, ClockProofs** - the proofs, described below. **ServiceProofs** holds
the lemmas about `Service` and about inboxes that the first three share.

**MC... modules** - the values of the constants for TLC.

Operators whose comment starts with "Mutant of" are not used by the
specifications. Each is a plausible bug in the definition it names; substituting
it makes TLC find a property violated, which shows that the property depends on
that code.

## The runs

Passing runs. All states are explored; the bounds are the constants whose comment
says "bound" (`MaxCalls`, `MaxEvents`, `MaxStarts`, `MaxMessages`, `MaxOpens`,
`MaxTicks`, `MaxTriggers`) and the sets of clients and functions. Deadlock is not
checked: a closed client is never opened again, programs end, and the bounds end
every behaviour.

| Run | Instance | Properties |
|---|---|---|
| `calls` (fair) | 1 client, 2 two-way functions, 2 calls each, queue of 1, reusable archive, closes | `ResultsMatchCalls`, `OneTokenPerCall`, `NoCallLost`, `ImplementsAtMostOnce`, `InProgressNotified`, `CallAnswered` |
| `clients` | 2 clients (symmetric), a two-way function, 1 call each, 1 event, stop | `PendingMatchesHeld`, `RegisteredIsOpen`, `ResultsMatchCalls` |
| `queue` | 1 client, a two-way and a one-way function, 4 calls each, queue of 2, closes, stop | `TypeOK`, `QueueFollowsCall`, `ResultsInOrder`, `ExecutedOnceInOrder`, `Inv` (of `CallProofs`) |
| `rawpeers` (fair) | 1 peer, 1 function, 3 calls, closes, stop and restart | `EachCallHasOneReply`, `RefusedNotExecuted`, `Inv` (of `RawPeersProofs`), `EveryCallReplied`, `BrokenClientRemoved` |
| `framing` (fair) | header of 2 digits of base 3, messages of 1, 2, 4 and 9 bytes and of size zero, 3 messages | `TypeOK`, `OneReadOutstanding`, `SizeAgrees`, `ImplementsChannel`, `EveryMessageHandled` |
| `connect` (fair) | 1 client, 2 asynchronous and any blocking opens, 2 starts | `TypeOK`, `OnlyMisuseFails`, `NotDeafSilently`, `OpenClosureTruthful`, `OpenAnswered`, `ConnectionAccepted` |
| `archives` (fair) | 2 clients, cereal binary (reusable) and boost text (not), simple and polymorphic events, 3 calls, queue of 1, 2 triggers | `TypeOK`, `EveryMessageReadable`, `EventsBroadcast`, `TriggerHeard` |
| `clock` (fair) | a C++, a Python and another program, 1 call of the latter, 1 expiry of the tick timer | `TypeOK`, `OneTickChain`, `AlarmIdKnownFirst`, `AlarmPurgedByHandler`, `AlarmPurged`, `ProgramEnds` |

Why these bounds: two calls of a function make a result ambiguous, the second
one waits in the queue, and it is dequeued while the closure of the first runs.
Two functions are needed for the loop over `myClosures` to be interrupted between
two closures, and for it to leave one out; two cannot rehash the map. Four calls
with room for three fill the queue, overflow it and use it again; so many, one-way
ones among them, can be executed out of order, twice, or with a gap. Two clients are needed for one of them to disturb the other; the
functions of the service only compare clients for equality. Three raw calls give
one pending, one refused and one after the refusal. Two starts let a handler of
the first acceptor run under the second; two opens overlap. Three messages let
the first two arrive together while the third is cut; with two digits of base 3 the
longest message that is accepted has 4 bytes, and one of 9 would wrap to size 0.
Two triggers let one replace the other before and after the timer expires. One
expiry of the tick timer, with one call to race it, is every order of a
pending wait, a queued handler and a change of the interval.

What they show: although results carry no call identifier, none is ever
delivered to the wrong call and the exception "closure not found for function
result" is unreachable, because at each moment exactly one message or closure in
the system stands for a call in progress (`OneTokenPerCall`). A client never
meets `EINPROGRESS`. The queue keeps its order and strands nothing while the
client receives. The service answers each call of any peer exactly once.
Messages survive every way of cutting them; the one way in which a connection
goes deaf without being closed is an exception out of a handler. The asserts of
`open` can fail only when two opens overlap or a client is destroyed during one.
When no call with a polymorphic parameter is queued, what a reused archive writes
is readable, connection errors with cereal included.

### Fairness

`Cercall!FairSpec` assumes that the reactor completes a read that can complete,
that the event loops run queued handlers and callbacks return (an `io_service`
runs its handlers in turn), and that a service function calls its closure
eventually (`src/README.md`: it "has to call the closure, or save it to be called
later"). `Messenger`: TCP delivers bytes, the loop goes on. `Connect`: resolver
and operating system answer an asynchronous operation, with success or an error;
the service's user runs the event loop again after an exception.
`Archives` and `Clock`: timers expire (the tick timer, which is bounded, need
not), loops run. All of it is weak fairness; nothing is assumed of users, `start`,
`stop`, `broadcast`, signals or the network. `CallAnswered` and
`EveryCallReplied` are therefore conditional on the connection staying up,
`ConnectionAccepted` on the service neither being stopped nor having thrown, and
`ProgramEnds` on nobody else ending the service or cancelling the alarm.

### Findings

Runs that TLC finishes with a counterexample: a comment, a doc or an assertion of
the repository says one thing, the code does another.

| Run | Property | What the code does |
|---|---|---|
| `outstanding` | `AllOutstandingNotified` | a connection error is reported to `myClosures` only; queued calls, and calls made by an error closure, are dropped (`client.h:293`) |
| `listener` | `HandleRecvFindsListener` | a completed read outlives `close()` and fails the assertion of `handle_recv` (`asio/basicstreamtransport.h:161`) |
| `broadcast` | `BroadcastReachesAll` | a failing write erases the element the broadcast loop stands on (`service.h:319`) |
| `polyqueue` | `EveryMessageReadable` | `send_call` serializes before it queues (`client.h:180`): with a reusable archive the description of a polymorphic class waits in the queue while a call that relies on it is sent |

`AllOutstandingNotified` and `BroadcastReachesAll` are action properties: the
counterexample is a finite one, and needs no fairness.

### Known behaviour

The models contain the following behaviours of the code, and the properties are
stated so that they hold in spite of them.

- A failed write closes the transport without `on_connection_error`
  (`asio/basicstreamtransport.h:94`); the aborted read is not reported either, so
  calls of other functions in progress are not notified.
- `dispatch_connection_error` calls closures inside a range-for over `myClosures`,
  an `unordered_map` made with 4 buckets (`client.h:270`, `300`). A closure that calls
  the client again inserts into the map; with more entries than buckets that
  may rehash it, and the loop goes on with an invalid iterator: closures are called
  again or skipped (`StillVisited`). The standard allows it from five two-way functions
  on; libstdc++, which makes 5 buckets out of 4, does it at the sixth. `PromiseKept`
  excludes it by `FewFunctions`, no other theorem does.
- A failed open calls `on_connection_error` and leaves the transport NEW
  (`asio/clienttcptransport.h:87`, `100`, and `49` for the blocking one), where
  `transport.h:47` says "The transport is closed by the implementation after it calls
  this notification." `OpenClosureTruthful` asks only that it is not open and
  that nothing is under way that could open it.
- A closure saved by a service function and called after its client
  disconnected serializes into the archive of the erased ClientState
  (`details/functiondict.h:79`, with reusable archives): `fault` becomes
  `"archive"`, or the program goes on.
- A result that cannot be written destroys the Messenger whose `read` called the
  service function (`details/messenger.h:92`): `fault` becomes `"messenger"`, or
  the program goes on.
- An accept that completed before `stop()` throws from its handler with the code
  for success, and an aborted one throws when the acceptor was opened again
  (`asio/basicstreamacceptor.h:118`).
- After a failed `bind` or `listen` the acceptor is open; a second `start()` does
  nothing and says nothing (`asio/basicstreamacceptor.h:65`).
- With `boost::Binary` the client cannot read the connection error it writes
  itself: a `Result<void>` whose class is described is read by an archive
  that already knows, or does not expect, the class (`client.h:296`). `archives`
  therefore runs with `boost::Text` and `cereal::Binary`; adding
  `"boost::Binary"` to `Formats` gives the counterexample.
- A second listener of a polymorphic event is given a moved-from, null pointer
  (`client.h:361`).
- The Python program ends at the alarm of any program, because it compares tags
  (`StopsPy` in `Clock`); the C++ program whose service is closed by somebody
  else, with no call in progress, runs on for ever (`"orphaned"`).

## The proofs

The theorems hold for any sets of clients, functions and programs, any bounds and
any `MaxCallsInProgress > 0`; two have a condition of their own, `PromiseKept` on
the number of functions and the last ones of `ArchivesProofs` on the adapter. They rest on the assumptions named in the modules
and on nothing else: the bounds are natural numbers, the flags are Booleans, one-way
functions are functions, the tag of a broadcast and (in `Archives`)
`trigger_single_broadcast` are not names of two-way functions, and - in `Clock`,
whose alarm ids are counted - the programs that set alarms are finitely many; in
`Messenger` a byte has at least two values, a header at least one byte, and a
text is not empty. TLC evaluates each of them on its runs.

### Calls: CercallProofs and CallProofs

What a step of the service does to the types, to its map of clients, to its
pending calls and to the connections it accepts does not depend on who is at the
other end: `ServiceProofs` proves it once, for `Cercall` and `RawPeers`.

`CercallProofs` proves what is inductive by itself or relative to the types:

- `TypeCorrect`: `Spec => []TypeOK`. `TypeOK` is inductive once it says that a
  completed read has a message to deliver (otherwise `Head` and `Tail` of the
  inbox mean nothing) and that a queue is bounded; both are conjuncts of it. The
  proof has one lemma per group of actions; the facts about inboxes are kept
  folded in lemmas (`WrittenOK`, `ConsumedOK`, `ReadHandled`) because the
  provers handle sequences badly inside large steps.
- `RegisteredCorrect`: `Spec => []RegisteredIsOpen`. Clients never touch the
  service's ends (`ClientKeepsServiceEnds`), and the service closes, unlistens
  and unregisters together (`DisconnectRegistered`).
- `PendingCorrect`: `Spec => []PendingMatchesHeld`. `dispatch_func` adds an
  entry and a closure only for a function that has none (`DispatchFuncPending`),
  `send_result` removes both (`ResultSentPending`), and no disconnection touches
  either.

`CallProofs` proves everything Cercall promises about calls from one inductive
invariant, `Inv` (`CallsCorrect`; the run `queue` checks it on an instance).
The properties are not inductive: a result that is delivered to its own call now was
once a call in another inbox, then a closure of the service, and the client may
have closed, lost its connection or filled its queue meanwhile. So `Inv` says, for
every client and function,

- `QueueOK`: the queue holds exactly the calls made after the last one sent, and
  the closure in `myClosures` belongs to that last one;
- `ExecutionOK`: calls are executed without gaps; those on the wire are the next
  ones in order, all of them while the link is up; results and held closures
  belong to executed calls;
- `TokenOK`: at most one message or held closure stands for a call of a
  two-way function, it is the one in `myClosures` while the client receives, and
  while the link is up there is one;
- `OutcomeOK`: what closures were told, also in the middle of the loop of
  `dispatch_connection_error`, whose closures may call the client again and rehash
  the map; with `FewFunctions` no closure in the loop's way was told before;
- `ThreadOK` and `AcceptOK`: how `pc`, the transport's state, the outstanding read
  and the connection's two ends fit together.

One lemma per action shows which of these it can disturb; `ServiceProofs` says what
appending or consuming a message does to the messages of one function, so that the
steps never look into a sequence. From `Inv` follow `ResultsMatchCorrect`,
`OneTokenCorrect`, `NoCallLostCorrect`, `QueueCorrect`, `ResultsOrderCorrect` and
`ExecutionCorrect`, the properties of the runs `calls`, `clients` and `queue`, and

- `PromiseKept`: `FewFunctions` implies `Spec => ImplementsAtMostOnce`, the
  refinement of the abstract specification. The condition is the code's: with
  more functions the map may be rehashed under the loop, and a closure called
  again. The other theorems hold without it. The mapping is the identity on
  `issued`, `executed` and `outcome`. `send_call` is a `Call`, a dispatch an `Execute`, `dispatch_result`
  an `Answer`, each closure told of an error a `Fail`; `Inv` supplies their guards
  (the result is of an executed call, earlier calls have their values).

### Peers that do not wait: RawPeersProofs

A raw peer may have several calls of a function on the wire, so `TokenOK` is false
for it, and the invariant is another one (`Inv`, proved as `PeersCorrect` and
checked by the run `rawpeers`). For each peer and function it says where the calls
1, 2, ... are:

- `InOrder`: the calls on the wire are in order and come after every call that was
  executed, held, refused or replied to - without it, nothing would tell a refused call
  from one that is executed later;
- `RepliedOnce`: replies under way, closures held and replies received are of
  different calls, and a call that was refused, or whose refusal is under way, was
  not executed;
- `Accounted`: while the connection is up, every call written is somewhere;
- with the types, `RegisteredIsOpen`, `PendingMatchesHeld` and `AcceptOK`, which say
  when the service refuses a call and when it still has a connection to reply on.

From it `OneReplyCorrect` and `RefusedCorrect`.

### Messages out of bytes: MessengerProofs

The header first. That `Decoded(Encoded(n)) = n` for every `n` up to `MaxSize` is an
induction over the bytes, for which the library's induction theorems, which take
an operator, cannot be used. `AllNumbers` replaces them: a set of numbers with 0 and with the successor of
each of its members is `Nat`, because otherwise it would lack a least one
(`WFMin`). With the set of the `n` of which a claim holds this gives the claim for
all n: that the recursive definition of `Weight` defines a function (`WeightDef`),
and that two sizes with the same bytes are equal (`HeadersDiffer`), by which the choice in
`Decoded` is the size that was written (`HeaderRead`).

Then the stream. The invariant (`StreamCorrect`) says that there is a log: the
concatenation `L` of the frames of all messages written, with the position
`pos[i]` of each frame in it; that the bytes arrived and on the wire are what is
left of `L` from some offset `o` (all of it, until the connection breaks:
`Whole`); and that the receiver is in one of six phases, which fix `o`: it awaits a header or has it, awaits a message or has it, has
refused a size, or its handler threw. The log is needed because nothing in the
state says where in the bytes a message begins; the phases, because
`myReceiveState`, `loop`, `reads` and the buffer agree in these combinations only.
From it follow `TypeCorrect`, `OneReadCorrect`, `SizeCorrect`, and

- `ChannelKept`: `Spec => ImplementsChannel`. Writing is `Send`, the call of the
  handler is `Deliver` - the bytes it is given are the next frame of the log - and a
  break without a whole message in hand, or an exception, is `End`; the
  proof that nothing else changes `ended` looks at whether the next message can
  be read from what has arrived, before and after each step.

TLC cannot evaluate the existence of a log; the invariant with the log
computed from `sent` holds in all states of the run `framing`.

### Archives and events: ArchivesProofs

Two invariants. `EventInv` (`EventsInvariant`) has the types, `EventsBroadcast`,
`TriggersOffered`, and `TriggersCounted`: every trigger on its way to the service has a ticket of its
own out of `1..triggers`, and the waits on the timer and the handlers queued are
no more than the tickets of triggers that were read. The tickets are there
because a handler is queued for a trigger that is in no variable any more;
they bound `timerQueued`, and so make `TypeOK` inductive (`TypeCorrect`).
`TriggersOffered` follows an event from the client that triggers it over the
message to `myEnabledEvent`; with it, and once `Recast` is known to give every event
its own class, `EventsBroadcast` is inductive (`EventsCorrect`).

`ReadInv` (`ArchivesAgree`; TLC finds it true of all states of the run `archives`,
when it is added to `archives.cfg`) is about `Sound` adapters: not `boost::Binary`, and with a reused archive of cereal no
polymorphic parameters. Both conditions are the code's, not the proof's: see
`polyqueue` and "Known behaviour". For each client it says

- `Flow`, in each direction while the connection is up: a class that a message
  does not describe is known to the reader or named in a message before it
  (`Ordered`), and a class that the writer will not describe again is known to the
  reader or named in a message on the way (`Covered`) - the first is what reading
  needs, the second what keeps it true when the next message is written;
- that after a break nothing is written any more and what the client has
  received is still `Ordered`, although `Covered` is lost with the messages;
- that a result names no class, since `dispatch_result` learns nothing from it,
  and that a queued call neither names nor lacks one, since it is written
  later than it was serialized;
- that without reuse an archive knows nothing.

From it `MessagesReadable`, that is, `failed = {}` for ever.

### Connections: ConnectProofs

`Inv` (`ConnectCorrect`) adds two facts to the types and to `NotDeafSilently`.
`AcceptsBounded`: accepts outstanding and accept handlers queued, of whatever kind,
are together no more than the calls of `start()` - this bounds the counters, and
needs the cardinality of `accepted`. `OpenOK`: until a client is misused, at
most one `open` is under way, and the transport is NEW and has its listener
meanwhile - this is why the asserts of `handle_connect` hold. From them
`TypeCorrect`, `MisuseCorrect`, `AcceptorCorrect` and the action property
`ClosureCorrect`.

### The clock: ClockProofs

`TickCorrect` needs the types of the counters only, and `PurgeCorrect`, an action
property, the states of the alarms. `TypeCorrect` and `AlarmIdCorrect` need an
invariant (`ClockCorrect`) that follows the alarms through the system:

- `CountOK`: the ids given and the programs that will still set an alarm
  (`WillSet`: new, or with the call on its way) are together no more than the
  programs; a program leaves `WillSet` in the step that serves its call, which is
  why `nextAlarmId` stays in range;
- `OwnersOK`: each id in use has an owner that is not in `WillSet`, and no two
  have the same, so that a program that learns an id never loses an older one;
- `InboxOK`: each alarm of a connected program is in its `stopAlarm`, or its
  id is in the inbox (`ToldOK`), ahead of the alarm's event (`HeardOK`). `ToldOK`
  is what makes it inductive: it says that the id was sent before the timer's
  handler can run.

### Only model-checked

- Liveness (`CallAnswered`, `InProgressNotified`, `BrokenClientRemoved`,
  `EveryCallReplied`, `OpenAnswered`, `ConnectionAccepted`, `TriggerHeard`,
  `EveryMessageHandled`, `AlarmPurged`, `ProgramEnds`): out of the prover's reach.
- Nothing else: every safety property of a passing run is stated by a
  theorem, `EveryMessageReadable` for the adapters that are `Sound`.

## Not modelled

The byte formats of the archives, which belong to the external libraries;
`cereal/xml.h`, which leaves out a template argument of `Serialization` that has
no default, and so cannot be instantiated; which event listeners there are;
exceptions thrown by callbacks, outside `Messenger`; read errors the transport
calls recoverable (`async_read` does not report them); calls of functions the
dictionary does not know (the interface is shared, the Client cannot make them);
use from several threads, which the library forbids. The save and load functions
of single types, the compile-time helpers, logging, the test drivers and their
process handling have no state of their own to model.

## Plan

The models and the proofs of safety are complete in the sense above. What could
be added: the listeners of `dispatch_event` as user code that changes their list, and a
closer model of the failing write whose transport nobody reports (see "Known
behaviour"), once the code says what it wants to promise there.
