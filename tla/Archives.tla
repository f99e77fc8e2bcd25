-------------------------------- MODULE Archives --------------------------------
(***************************************************************************)
(* What the archives of a connection write and read, for every adapter of  *)
(* cercall/cereal and cercall/boost, and how events reach the clients.     *)
(* The service is the event source of the unit tests, with the two-way     *)
(* functions of the calculator.                                            *)
(*                                                                         *)
(* A reusable archive writes the description of a class (its name, or its  *)
(* version) once in its life.  The reader at the other end must therefore  *)
(* see every message that was written, in the order in which it was        *)
(* written.  A message is the sequence of its class-typed parts, each with *)
(* or without its description; values that have no class are left out.     *)
(* Connections are TCP connections: nothing is lost or reordered on them.  *)
(***************************************************************************)
EXTENDS Integers, Sequences, FiniteSets, Functions

CONSTANTS
    Clients,
    Formats,        \* adapters to check
    EventKinds,     \* "simple", "poly": EventType of the interface
    Funcs,          \* two-way functions
    PolyFuncs,      \* those with a polymorphic parameter
    Callers,        \* clients that call two-way functions
    Triggered,      \* events that clients trigger
    MaxCallsInProgress,  \* template parameter of Client
    MaxCalls,       \* bound: two-way calls of a client
    MaxTriggers     \* bound: calls of trigger_single_broadcast

Adapters == {"cereal::Binary", "cereal::Json", "boost::Binary", "boost::Text"}
EventClass == {"One", "Two", "Three"}
NoEvent == "none"

ASSUME ArchivesAssumption ==
    /\ Formats \subseteq Adapters /\ EventKinds \subseteq {"simple", "poly"}
    /\ PolyFuncs \subseteq Funcs /\ Callers \subseteq Clients
    /\ Funcs \cap {"trigger_single_broadcast", "broadcast_event"} = {}
    /\ Triggered \subseteq EventClass \cup {NoEvent}
    /\ MaxCallsInProgress \in Nat \ {0}
    /\ MaxCalls \in Nat /\ MaxTriggers \in Nat

VARIABLES
    format, kind,    \* the adapter and the kind of events in use
    conn,            \* [Clients -> {"no", "up", "broken", "closed"}]
    outArch, inArch, \* [Ends -> SUBSET Class]: the classes an archive knows
    up, down,        \* [Clients -> Seq(Message)], to and from the service
    myClosures,      \* [Clients -> SUBSET Funcs]
    myCallQueue,     \* [Clients -> [Funcs -> Seq(Call)]]
    made,            \* [Clients -> 0..MaxCalls]
    offered,         \* SUBSET EventClass: ghost, events that clients have triggered
    unheard,         \* ghost: myEnabledEvent was not broadcast since it was set
    waiting,         \* SUBSET Clients: ghost, triggered and heard nothing since
    triggers,        \* calls of trigger_single_broadcast
    myEnabledEvent,
    timerWaits, timerQueued,  \* waits on myEventTimer, handlers queued
    failed           \* who could not read a message

archiveVars == <<outArch, inArch>>
serviceVars == <<myEnabledEvent, timerWaits, timerQueued>>
callVars == <<myClosures, myCallQueue, made>>
vars == <<format, kind, conn, archiveVars, up, down, callVars, offered,
          unheard, waiting, triggers, serviceVars, failed>>

\* An end of a connection, with its pair of archives.
Ends == {"client", "service"} \X Clients
At(c) == <<"client", c>>
For(c) == <<"service", c>>

Class == EventClass \cup {"Result<int32_t>", "Result<void>", "Error"}
Part == [class : Class, described : BOOLEAN]
Message == [func : Funcs \cup {"trigger_single_broadcast", "broadcast_event"},
            value : EventClass \cup {NoEvent}, parts : Seq(Part)]
Call == [func : Funcs, value : {NoEvent}, parts : Seq(Part)]

TypeOK ==
    /\ format \in Formats /\ kind \in EventKinds
    /\ conn \in [Clients -> {"no", "up", "broken", "closed"}]
    /\ outArch \in [Ends -> SUBSET Class] /\ inArch \in [Ends -> SUBSET Class]
    /\ up \in [Clients -> Seq(Message)] /\ down \in [Clients -> Seq(Message)]
    /\ myClosures \in [Clients -> SUBSET Funcs]
    /\ myCallQueue \in [Clients -> [Funcs -> Seq(Call)]]
    /\ \A c \in Clients, f \in Funcs :
          Len(myCallQueue[c][f]) <= MaxCallsInProgress - 1
    /\ made \in [Clients -> 0..MaxCalls] /\ triggers \in 0..MaxTriggers
    /\ offered \subseteq EventClass /\ unheard \in BOOLEAN
    /\ waiting \subseteq Clients
    /\ myEnabledEvent \in EventClass \cup {NoEvent}
    /\ timerWaits \in 0..1 /\ timerQueued \in 0..MaxTriggers
    /\ failed \subseteq Clients \cup {"service"}

Init ==
    /\ format \in Formats /\ kind \in EventKinds
    /\ conn = [c \in Clients |-> "no"]
    /\ outArch = [e \in Ends |-> {}] /\ inArch = [e \in Ends |-> {}]
    /\ up = [c \in Clients |-> <<>>] /\ down = [c \in Clients |-> <<>>]
    /\ myClosures = [c \in Clients |-> {}]
    /\ myCallQueue = [c \in Clients |-> [f \in Funcs |-> <<>>]]
    /\ made = [c \in Clients |-> 0]
    /\ offered = {} /\ unheard = FALSE
    /\ waiting = {} /\ triggers = 0
    /\ myEnabledEvent = NoEvent /\ timerWaits = 0 /\ timerQueued = 0
    /\ failed = {}

------------------------------------------------------------------------------
(***************************************************************************)
(* Archives.                                                               *)
(***************************************************************************)

REUSABLE_ARCHIVE == format \in {"cereal::Binary", "boost::Binary"}

\* The classes that an archive of the library describes: cereal names those of
\* polymorphic pointers, boost describes every class.  (cereal also writes the
\* version of an event's class with its first object, without a mark.  It is left
\* out: the reader expects it with the first object it reads of the class, as it
\* expects the name, and Result and Error of cercall/cereal have no version.)
Describes(class) == format \in {"boost::Binary", "boost::Text"} \/ class \in EventClass

\* What an archive knows that has known `known` and now meets `classes`; without
\* reuse every message has an archive of its own.
Learnt(known, classes) ==
    IF REUSABLE_ARCHIVE THEN known \cup {x \in Range(classes) : Describes(x)} ELSE {}

\* Mutant of Serialized: one output archive serves every connection.
SerializedForAll(known, classes) ==
    [i \in DOMAIN classes |->
        [class |-> classes[i],
         described |-> Describes(classes[i]) /\ \A e \in Ends : classes[i] \notin outArch[e]]]

\* serialize_call, serialize_call_result, serialize_event.
Serialized(known, classes) ==
    [i \in DOMAIN classes |->
        [class |-> classes[i],
         described |-> Describes(classes[i]) /\ classes[i] \notin known]]

\* deserialize_call, deserialize_arg, deserialize_result, deserialize_event: the
\* reader expects `classes`.  cereal marks in the message whether a name follows;
\* boost expects a description exactly for the classes it has not met.
Readable(known, parts, classes) ==
    \A i \in DOMAIN parts :
        IF format \in {"cereal::Binary", "cereal::Json"}
        THEN Describes(parts[i].class) => parts[i].described \/ parts[i].class \in known
        ELSE parts[i].described <=> classes[i] \notin known

Classes(parts) == [i \in DOMAIN parts |-> parts[i].class]

\* The class-typed parts of an event or of a parameter, of a result, and of the
\* error that both ends write as a Result<void>.
EventParts(ev) == IF kind = "poly" /\ ev # NoEvent THEN <<ev>> ELSE <<>>
ResultParts == <<"Result<int32_t>", "Error">>
ErrorParts == <<"Result<void>", "Error">>

\* The message that end e writes.
MessageOf(e, func, value, classes) ==
    [func |-> func, value |-> value, parts |-> Serialized(outArch[e], classes)]

------------------------------------------------------------------------------
(***************************************************************************)
(* The client.                                                             *)
(***************************************************************************)
Running(c) == conn[c] = "up" /\ c \notin failed
ServiceRuns == "service" \notin failed

\* on_connected and Service::on_client_accepted: both ends have new archives.
Connect(c) ==
    /\ conn[c] = "no"
    /\ ServiceRuns
    /\ conn' = [conn EXCEPT ![c] = "up"]
    /\ UNCHANGED <<format, kind, archiveVars, up, down, callVars, offered, unheard,
                   waiting, triggers, serviceVars, failed>>

\* The classes a parameter of f can have, and the parts it makes.
ArgClasses(f) == IF f \in PolyFuncs THEN EventClass ELSE {NoEvent}
ArgParts(arg) == IF arg = NoEvent THEN <<>> ELSE <<arg>>

\* send_call: the message is serialized first, then written, queued or - when the
\* queue is full and send_call throws - dropped.
send_call(c, f, arg) ==
    /\ Running(c)
    /\ made[c] < MaxCalls
    /\ made' = [made EXCEPT ![c] = @ + 1]
    /\ outArch' = [outArch EXCEPT ![At(c)] = Learnt(@, ArgParts(arg))]
    /\ LET msg == MessageOf(At(c), f, NoEvent, ArgParts(arg))
       IN \/ /\ f \notin myClosures[c]
             /\ up' = [up EXCEPT ![c] = Append(@, msg)]
             /\ myClosures' = [myClosures EXCEPT ![c] = @ \cup {f}]
             /\ UNCHANGED myCallQueue
          \/ /\ f \in myClosures[c]
             /\ Len(myCallQueue[c][f]) < MaxCallsInProgress - 1
             /\ myCallQueue' = [myCallQueue EXCEPT ![c][f] = Append(@, msg)]
             /\ UNCHANGED <<up, myClosures>>
          \/ /\ f \in myClosures[c]
             /\ Len(myCallQueue[c][f]) = MaxCallsInProgress - 1
             /\ UNCHANGED <<up, myClosures, myCallQueue>>
    /\ UNCHANGED <<format, kind, conn, inArch, down, offered, unheard, waiting,
                   triggers, serviceVars, failed>>

\* What the tests do: after a trigger the client waits for gotEvent, which its
\* listener sets.
Awaits(c, ev) == IF ev = NoEvent THEN waiting ELSE waiting \cup {c}
GotEvent(c) == waiting \ {c}

\* trigger_single_broadcast of the clients, a one-way call.
send_trigger(c, ev) ==
    /\ Running(c)
    /\ triggers < MaxTriggers
    /\ triggers' = triggers + 1
    /\ outArch' = [outArch EXCEPT ![At(c)] = Learnt(@, EventParts(ev))]
    /\ up' = [up EXCEPT ![c] = Append(@,
                MessageOf(At(c), "trigger_single_broadcast", ev, EventParts(ev)))]
    /\ waiting' = Awaits(c, ev)
    /\ offered' = offered \cup ({ev} \ {NoEvent})
    /\ UNCHANGED <<format, kind, conn, inArch, down, callVars, unheard, serviceVars, failed>>

\* The message handler of client c has read msg as `classes`, or has thrown.
ReadByClient(c, classes) ==
    LET msg == Head(down[c])
    IN /\ c \notin failed
       /\ down' = [down EXCEPT ![c] = Tail(@)]
       /\ inArch' = [inArch EXCEPT ![At(c)] = Learnt(@, classes)]
       /\ failed' = IF Readable(inArch[At(c)], msg.parts, classes) THEN failed
                    ELSE failed \cup {c}

\* dispatch_result: the next queued call is sent before the closure is called.
dispatch_result(c) ==
    /\ down[c] # <<>>
    /\ LET f == Head(down[c]).func
       IN /\ f \in Funcs
          /\ ReadByClient(c, ResultParts)
          /\ IF myCallQueue[c][f] = <<>>
             THEN /\ myClosures' = [myClosures EXCEPT ![c] = @ \ {f}]
                  /\ UNCHANGED <<up, myCallQueue>>
             ELSE /\ up' = IF conn[c] = "up"
                           THEN [up EXCEPT ![c] = Append(@, Head(myCallQueue[c][f]))]
                           ELSE up
                  /\ myCallQueue' = [myCallQueue EXCEPT ![c][f] = Tail(@)]
                  /\ UNCHANGED myClosures
    /\ UNCHANGED <<format, kind, conn, outArch, made, offered, unheard, waiting,
                   triggers, serviceVars>>

\* dispatch_event: the listeners are called, if there are any.
dispatch_event(c) ==
    /\ down[c] # <<>>
    /\ Head(down[c]).func = "broadcast_event"
    /\ ReadByClient(c, Classes(Head(down[c]).parts))
    /\ waiting' = GotEvent(c)
    /\ UNCHANGED <<format, kind, conn, outArch, up, callVars, offered, unheard,
                   triggers, serviceVars>>

\* The connection breaks: what the client has not received may be lost.
Break(c) ==
    /\ conn[c] = "up"
    /\ conn' = [conn EXCEPT ![c] = "broken"]
    /\ up' = [up EXCEPT ![c] = <<>>]
    /\ UNCHANGED down \/ down' = [down EXCEPT ![c] = <<>>]
    /\ waiting' = waiting \ {c}
    /\ UNCHANGED <<format, kind, archiveVars, callVars, offered, unheard, triggers,
                   serviceVars, failed>>

\* dispatch_connection_error: the client writes a Result<void> with its output
\* archive, and every closure in progress reads the same message, as the result
\* it waits for, from the input archive.
dispatch_connection_error(c) ==
    /\ conn[c] = "broken"
    /\ down[c] = <<>>
    /\ c \notin failed
    /\ conn' = [conn EXCEPT ![c] = "closed"]
    /\ outArch' = [outArch EXCEPT ![At(c)] = Learnt(@, ErrorParts)]
    /\ LET parts == Serialized(outArch[At(c)], ErrorParts)
           known == inArch[At(c)]
           n == Cardinality(myClosures[c])
           ok == /\ n > 0 => Readable(known, parts, ResultParts)
                 /\ n > 1 => Readable(Learnt(known, ResultParts), parts, ResultParts)
       IN /\ inArch' = IF n > 0 THEN [inArch EXCEPT ![At(c)] = Learnt(@, ResultParts)]
                                ELSE inArch
          /\ failed' = IF ok THEN failed ELSE failed \cup {c}
          /\ myClosures' = IF ok THEN [myClosures EXCEPT ![c] = {}] ELSE myClosures
    /\ UNCHANGED <<format, kind, up, down, myCallQueue, made, offered, unheard, waiting,
                   triggers, serviceVars>>

------------------------------------------------------------------------------
(***************************************************************************)
(* The service.                                                            *)
(***************************************************************************)

\* The message handler of the service has read the next message of c, or thrown.
ReadByService(c) ==
    LET msg == Head(up[c])
    IN /\ ServiceRuns
       /\ up[c] # <<>>
       /\ up' = [up EXCEPT ![c] = Tail(@)]
       /\ inArch' = [inArch EXCEPT ![For(c)] = Learnt(@, Classes(msg.parts))]
       /\ failed' = IF Readable(inArch[For(c)], msg.parts, Classes(msg.parts))
                    THEN failed ELSE failed \cup {"service"}

\* A two-way function, which calls its closure at once.
CallFunction(c) ==
    /\ ReadByService(c)
    /\ Head(up[c]).func \in Funcs
    /\ outArch' = [outArch EXCEPT ![For(c)] = Learnt(@, ResultParts)]
    /\ down' = [down EXCEPT ![c] = Append(@,
                    MessageOf(For(c), Head(up[c]).func, NoEvent, ResultParts))]
    /\ UNCHANGED <<format, kind, conn, callVars, offered, unheard,
                   waiting, triggers,
                   serviceVars>>

\* Mutant of TimerArmed: a pending wait is cancelled, and none is started.
TimerArmedOrCancelled == IF timerWaits > 0 THEN 0 ELSE 1

\* Mutant of TimerArmed: the pending wait is not cancelled.
TimerArmedAgain == timerWaits + 1

\* expires_from_now cancels a pending wait, async_wait starts one.
TimerArmed == 1

\* A client that waits and still hears an event although events are switched off:
\* its trigger comes later, or an event is on its way to it.
StillHears(d) ==
    \/ \E m \in Range(up[d]) : m.func = "trigger_single_broadcast" /\ m.value # NoEvent
    \/ \E m \in Range(down[d]) : m.func = "broadcast_event"

trigger_single_broadcast(c) ==
    /\ ReadByService(c)
    /\ LET msg == Head(up[c])
       IN /\ msg.func = "trigger_single_broadcast"
          /\ myEnabledEvent' = msg.value
          /\ timerWaits' = IF msg.value # NoEvent THEN TimerArmed ELSE timerWaits
          /\ unheard' = (msg.value # NoEvent)
          /\ UNCHANGED down
          /\ waiting' = IF msg.value = NoEvent THEN {d \in waiting : StillHears(d)'}
                                               ELSE waiting
    /\ UNCHANGED <<format, kind, conn, outArch, callVars, offered, triggers, timerQueued>>

TimerExpires ==
    /\ timerWaits > 0
    /\ timerWaits' = 0
    /\ timerQueued' = timerQueued + timerWaits
    /\ UNCHANGED <<format, kind, conn, archiveVars, up, down, callVars, offered, unheard,
                   waiting, triggers, myEnabledEvent, failed>>

\* get_as<T>() of an event: RealEventClassThree is derived from RealEventClassTwo.
get_as(class, ev) == ev = class \/ (class = "Two" /\ ev = "Three")

\* Mutant of Recast: RealEventClassTwo is tried first.
RecastTwoFirst(ev) ==
    IF get_as("One", ev) THEN "One" ELSE IF get_as("Two", ev) THEN "Two" ELSE "Three"

\* The class in which tickTimer of PolyEventSourceService makes the event anew.
Recast(ev) ==
    IF get_as("One", ev) THEN "One" ELSE IF get_as("Three", ev) THEN "Three" ELSE "Two"

\* tickTimer: the event is written with the archive of each client.
tickTimer ==
    /\ ServiceRuns
    /\ timerQueued > 0
    /\ timerQueued' = timerQueued - 1
    /\ LET ev == IF kind = "poly" THEN Recast(myEnabledEvent) ELSE myEnabledEvent
           to == IF myEnabledEvent = NoEvent THEN {} ELSE {c \in Clients : conn[c] = "up"}
       IN /\ down' = [c \in Clients |-> IF c \notin to THEN down[c] ELSE
                Append(down[c], MessageOf(For(c), "broadcast_event", ev, EventParts(ev)))]
          /\ outArch' = [e \in Ends |-> IF e \in {For(c) : c \in to}
                                        THEN Learnt(outArch[e], EventParts(ev)) ELSE outArch[e]]
    /\ unheard' = FALSE
    /\ UNCHANGED <<format, kind, conn, inArch, up, callVars, offered, waiting,
                   triggers, myEnabledEvent, timerWaits, failed>>

------------------------------------------------------------------------------
Receives(c) == \/ dispatch_result(c) \/ dispatch_event(c)
               \/ dispatch_connection_error(c)
Serves(c) == CallFunction(c) \/ trigger_single_broadcast(c)

Next ==
    \/ \E c \in Clients : \/ Connect(c) \/ Break(c) \/ Receives(c) \/ Serves(c)
                          \/ \E f \in Funcs : \E arg \in ArgClasses(f) :
                                c \in Callers /\ send_call(c, f, arg)
                          \/ \E ev \in Triggered : send_trigger(c, ev)
    \/ TimerExpires
    \/ tickTimer

Spec == Init /\ [][Next]_vars

(***************************************************************************)
(* Fairness: both event loops run their handlers, and the timer expires.   *)
(***************************************************************************)
FairSpec == /\ Spec
            /\ \A c \in Clients : WF_vars(Receives(c)) /\ WF_vars(Serves(c))
            /\ WF_vars(TimerExpires) /\ WF_vars(tickTimer)

------------------------------------------------------------------------------
(***************************************************************************)
(* Every message can be read at the other end, and every closure can read  *)
(* the error of a broken connection, although descriptions are written     *)
(* once: README.md, "Reusing binary archives for better performance" and   *)
(* "Polymorphic types of parameters and events can be used".               *)
(***************************************************************************)
EveryMessageReadable == failed = {}

\* Every event on its way to a client was triggered by a client, in this class,
\* although PolyEventSourceService makes it anew.
OnlyTriggeredEvents ==
    \A c \in Clients : \A i \in DOMAIN down[c] :
        down[c][i].func = "broadcast_event" => down[c][i].value \in offered

\* An event that was enabled and not broadcast yet has a wait or a handler of
\* myEventTimer to broadcast it.
NoEventForgotten == unheard => timerWaits + timerQueued > 0

(***************************************************************************)
(* eventstestserver.cpp: clients get events of the classes triggered       *)
(* (eventstest.cpp expects each in its own class), and an enabled event is *)
(* never left without a wait or a handler to broadcast it, whatever call   *)
(* comes between the start of a wait, its expiry and its handler.  No more *)
(* is promised: a later trigger replaces an event that was not broadcast,  *)
(* and two handlers queued one behind the other broadcast the same event   *)
(* twice.                                                                  *)
(***************************************************************************)
EventsBroadcast == OnlyTriggeredEvents /\ NoEventForgotten

(***************************************************************************)
(* A client that triggers an event hears one, as the tests of              *)
(* eventstest.cpp wait for, unless it is disconnected or a later call      *)
(* switches the events off before any event was sent to it - also when a   *)
(* call comes between the expiry of the timer and its handler.             *)
(***************************************************************************)
TriggerHeard ==
    \A c \in Clients : c \in waiting ~> c \notin waiting \/ conn[c] # "up"
==============================================================================
