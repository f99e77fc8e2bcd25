---------------------------- MODULE ArchivesProofs ----------------------------
(***************************************************************************)
(* Proofs about Archives, for any number of clients, calls and triggers:   *)
(* clients get events that were triggered and none is forgotten (EventInv),*)
(* and with the adapters that are sound every message can be read at the   *)
(* other end (ReadInv).  The first invariant carries the types; the second one   *)
(* relates the archives at the two ends of a connection and the messages   *)
(* between them.                                                           *)
(***************************************************************************)
EXTENDS Archives, SequenceTheorems, FiniteSetTheorems, TLAPS

------------------------------------------------------------------------------
(***************************************************************************)
(* The values that the messages of a kind carry, to or from all clients.   *)
(***************************************************************************)
Values(u, func, V) ==
    \A c \in Clients : \A i \in DOMAIN u[c] : u[c][i].func = func => u[c][i].value \in V

\* A message is written.
LEMMA ValuesWritten ==
    ASSUME NEW u \in [Clients -> Seq(Message)], NEW func, NEW V, Values(u, func, V),
           NEW c \in Clients, NEW m \in Message, m.func = func => m.value \in V
    PROVE  Values([u EXCEPT ![c] = Append(@, m)], func, V)
<1> DEFINE u2 == [u EXCEPT ![c] = Append(@, m)]
<1>1. ASSUME NEW d \in Clients, NEW i \in DOMAIN u2[d]
      PROVE  u2[d][i] = m \/ (i \in DOMAIN u[d] /\ u2[d][i] = u[d][i])
  <2>1. u[c] \in Seq(Message)
    OBVIOUS
  <2>2. \A j \in DOMAIN Append(u[c], m) :
           Append(u[c], m)[j] = m \/ (j \in DOMAIN u[c] /\ Append(u[c], m)[j] = u[c][j])
    BY <2>1
  <2>3. CASE d = c
    BY <2>2, <2>3
  <2>4. CASE d # c
    BY <2>4
  <2> QED
    BY <2>3, <2>4
<1> HIDE DEF u2
<1>2. Values(u2, func, V)
    BY <1>1 DEF Values
<1> QED
    BY <1>2 DEF u2

\* The first message of a client is read.
LEMMA ValuesRead ==
    ASSUME NEW u \in [Clients -> Seq(Message)], NEW func, NEW V, Values(u, func, V),
           NEW c \in Clients, u[c] # <<>>
    PROVE  /\ Values([u EXCEPT ![c] = Tail(@)], func, V)
           /\ Head(u[c]).func = func => Head(u[c]).value \in V
<1> DEFINE u2 == [u EXCEPT ![c] = Tail(@)]
<1>1. u[c] \in Seq(Message) /\ 1 \in DOMAIN u[c] /\ Head(u[c]) = u[c][1]
    OBVIOUS
<1>2. \A j \in DOMAIN Tail(u[c]) : j + 1 \in DOMAIN u[c] /\ Tail(u[c])[j] = u[c][j + 1]
    BY <1>1
<1>3. ASSUME NEW d \in Clients, NEW i \in DOMAIN u2[d]
      PROVE  \E j \in DOMAIN u[d] : u2[d][i] = u[d][j]
  <2>1. CASE d = c
    BY <1>2, <2>1
  <2>2. CASE d # c
    BY <2>2
  <2> QED
    BY <2>1, <2>2
<1> HIDE DEF u2
<1>4. Values(u2, func, V)
    BY <1>3 DEF Values
<1>5. Head(u[c]).func = func => Head(u[c]).value \in V
    BY <1>1 DEF Values
<1> QED
    BY <1>4, <1>5 DEF u2

\* The messages of a client are lost.
LEMMA ValuesLost ==
    ASSUME NEW u \in [Clients -> Seq(Message)], NEW func, NEW V, Values(u, func, V),
           NEW c \in Clients
    PROVE  Values([u EXCEPT ![c] = <<>>], func, V)
<1>1. DOMAIN <<>> = {}
    OBVIOUS
<1> QED
    BY <1>1 DEF Values

------------------------------------------------------------------------------
(***************************************************************************)
(* The triggers.  Every call of trigger_single_broadcast under way has a   *)
(* ticket of its own, and so has every wait on the timer and every handler *)
(* of it that is queued: there are no more of them than there were calls.  *)
(***************************************************************************)
Trigger(m) == m.func = "trigger_single_broadcast"

\* The calls under way in u have the tickets `ticket`, out of 1..n, and Q are
\* tickets of calls that were read.
Tickets(u, ticket, Q, n) ==
    /\ Q \in SUBSET (1..n)
    /\ \A c \in Clients : \A i \in DOMAIN u[c] :
          Trigger(u[c][i]) => ticket[c][i] \in 1..n /\ ticket[c][i] \notin Q
    /\ \A c, d \in Clients : \A i \in DOMAIN u[c], j \in DOMAIN u[d] :
          Trigger(u[c][i]) /\ Trigger(u[d][j]) /\ ticket[c][i] = ticket[d][j] => c = d /\ i = j

\* Another call is written, or a call in the queue of the client is.
LEMMA TicketsOther ==
    ASSUME NEW u \in [Clients -> Seq(Message)], NEW ticket, NEW Q, NEW n \in Nat,
           Tickets(u, ticket, Q, n), NEW c \in Clients, NEW m \in Message, ~Trigger(m)
    PROVE  Tickets([u EXCEPT ![c] = Append(@, m)], ticket, Q, n)
<1> DEFINE u2 == [u EXCEPT ![c] = Append(@, m)]
<1>1. \A d \in Clients : \A i \in DOMAIN u2[d] :
         Trigger(u2[d][i]) => i \in DOMAIN u[d] /\ u2[d][i] = u[d][i]
  <2> TAKE d \in Clients
  <2> TAKE i \in DOMAIN u2[d]
  <2> HAVE Trigger(u2[d][i])
  <2>1. CASE d # c
    BY <2>1
  <2>2. CASE d = c
    <3>1. u2[d] = Append(u[d], m)
      BY <2>2
    <3>2. i \in 1..(Len(u[d]) + 1) /\ Append(u[d], m)[Len(u[d]) + 1] = m
          /\ \A k \in 1..Len(u[d]) : Append(u[d], m)[k] = u[d][k]
      BY <3>1
    <3>3. i # Len(u[d]) + 1
      BY <3>1, <3>2
    <3> QED
      BY <3>1, <3>2, <3>3
  <2> QED
    BY <2>1, <2>2
<1> HIDE DEF u2
<1>2. Tickets(u2, ticket, Q, n)
    BY <1>1 DEF Tickets
<1> QED
    BY <1>2 DEF u2

\* A trigger is written: it has the next ticket.
LEMMA TicketsTrigger ==
    ASSUME NEW u \in [Clients -> Seq(Message)], NEW ticket, NEW Q, NEW n \in Nat,
           Tickets(u, ticket, Q, n), NEW c \in Clients, NEW m \in Message
    PROVE  \E t2 : Tickets([u EXCEPT ![c] = Append(@, m)], t2, Q, n + 1)
<1> DEFINE u2 == [u EXCEPT ![c] = Append(@, m)]
           New(d, i) == d = c /\ i = Len(u[c]) + 1
           t2 == [d \in Clients |-> [i \in Nat |-> IF New(d, i) THEN n + 1 ELSE ticket[d][i]]]
<1>1. \A d \in Clients : \A i \in DOMAIN u2[d] :
         i \in Nat /\ (New(d, i) \/ (~New(d, i) /\ i \in DOMAIN u[d] /\ u2[d][i] = u[d][i]))
  <2> TAKE d \in Clients
  <2> TAKE i \in DOMAIN u2[d]
  <2>1. CASE d # c
    BY <2>1
  <2>2. CASE d = c
    <3>1. u2[d] = Append(u[d], m)
      BY <2>2
    <3>2. i \in 1..(Len(u[d]) + 1)
          /\ \A k \in 1..Len(u[d]) : Append(u[d], m)[k] = u[d][k]
      BY <3>1
    <3> QED
      BY <2>2, <3>1, <3>2
  <2> QED
    BY <2>1, <2>2
<1>2. \A d \in Clients, i \in Nat : t2[d][i] = IF New(d, i) THEN n + 1 ELSE ticket[d][i]
    OBVIOUS
<1> HIDE DEF u2, t2
<1>3. Q \in SUBSET (1..(n + 1)) /\ n + 1 \notin Q
    BY DEF Tickets
<1>4. \A x \in 1..n : x \in 1..(n + 1) /\ x # n + 1
    OBVIOUS
<1>5. n + 1 \in 1..(n + 1)
    OBVIOUS
<1>6. ASSUME NEW d \in Clients, NEW i \in DOMAIN u2[d], Trigger(u2[d][i])
      PROVE  t2[d][i] \in 1..(n + 1) /\ t2[d][i] \notin Q
    BY <1>1, <1>2, <1>3, <1>4, <1>5, <1>6 DEF Tickets
<1>7. ASSUME NEW d \in Clients, NEW e \in Clients, NEW i \in DOMAIN u2[d], NEW j \in DOMAIN u2[e],
             Trigger(u2[d][i]), Trigger(u2[e][j]), t2[d][i] = t2[e][j]
      PROVE  d = e /\ i = j
  <2>1. CASE New(d, i) /\ New(e, j)
    BY <2>1
  <2>2. CASE ~New(d, i) /\ ~New(e, j)
    <3>1. ticket[d][i] = ticket[e][j]
      BY <1>1, <1>2, <1>7, <2>2
    <3> QED
      BY <1>1, <1>7, <2>2, <3>1 DEF Tickets
  <2>3. CASE New(d, i) /\ ~New(e, j)
    <3>1. ticket[e][j] = n + 1 /\ ticket[e][j] \in 1..n
      BY <1>1, <1>2, <1>7, <2>3 DEF Tickets
    <3> QED
      BY <1>4, <3>1
  <2>4. CASE ~New(d, i) /\ New(e, j)
    <3>1. ticket[d][i] = n + 1 /\ ticket[d][i] \in 1..n
      BY <1>1, <1>2, <1>7, <2>4 DEF Tickets
    <3> QED
      BY <1>4, <3>1
  <2> QED
    BY <2>1, <2>2, <2>3, <2>4
<1>8. Tickets(u2, t2, Q, n + 1)
    BY <1>3, <1>6, <1>7 DEF Tickets
<1> QED
    BY <1>8 DEF u2

OneMore(Q, Q2) == Cardinality(Q2) = Cardinality(Q) + 1

\* The service reads a message; the ticket of a trigger is free then.
LEMMA TicketsRead ==
    ASSUME NEW u \in [Clients -> Seq(Message)], NEW ticket, NEW Q, NEW n \in Nat,
           Tickets(u, ticket, Q, n), NEW c \in Clients, u[c] # <<>>
    PROVE  /\ \E t2 : Tickets([u EXCEPT ![c] = Tail(@)], t2, Q, n)
           /\ Trigger(Head(u[c])) =>
                \E t2, Q2 : /\ Tickets([u EXCEPT ![c] = Tail(@)], t2, Q2, n)
                            /\ OneMore(Q, Q2)
<1> DEFINE u2 == [u EXCEPT ![c] = Tail(@)]
           Old(d, i) == IF d = c THEN i + 1 ELSE i
           t2 == [d \in Clients |-> [i \in Nat |-> ticket[d][Old(d, i)]]]
<1>1. ASSUME NEW d \in Clients, NEW i \in DOMAIN u2[d]
      PROVE  i \in Nat /\ i > 0 /\ Old(d, i) \in DOMAIN u[d] /\ u2[d][i] = u[d][Old(d, i)]
  <2>1. CASE d # c
    BY <2>1
  <2>2. CASE d = c
    <3>1. u2[d] = Tail(u[d]) /\ u[d] \in Seq(Message) /\ u[d] # <<>>
      BY <2>2
    <3>2. i \in 1..(Len(u[d]) - 1) /\ Tail(u[d])[i] = u[d][i + 1] /\ i + 1 \in 1..Len(u[d])
      BY <3>1
    <3> QED
      BY <2>2, <3>1, <3>2
  <2> QED
    BY <2>1, <2>2
<1>2. \A d \in Clients, i \in Nat : t2[d][i] = ticket[d][Old(d, i)]
    OBVIOUS
<1>3. \A d \in Clients, i, j \in Nat : Old(d, i) = Old(d, j) => i = j
    OBVIOUS
<1>4. u[c] \in Seq(Message) /\ 1 \in DOMAIN u[c] /\ u[c][1] = Head(u[c])
    OBVIOUS
<1>5. \A i \in Nat : i > 0 => Old(c, i) # 1
    OBVIOUS
<1> HIDE DEF u2, t2, Old
<1>6. ASSUME NEW d \in Clients, NEW e \in Clients, NEW i \in DOMAIN u2[d], NEW j \in DOMAIN u2[e],
             Trigger(u2[d][i]), Trigger(u2[e][j]), t2[d][i] = t2[e][j]
      PROVE  d = e /\ i = j
  <2>1. ticket[d][Old(d, i)] = ticket[e][Old(e, j)]
    BY <1>1, <1>2, <1>6
  <2>2. d = e /\ Old(d, i) = Old(e, j)
    BY <1>1, <1>6, <2>1 DEF Tickets
  <2> QED
    BY <1>1, <1>3, <2>2
<1>7. ASSUME NEW d \in Clients, NEW i \in DOMAIN u2[d], Trigger(u2[d][i])
      PROVE  t2[d][i] \in 1..n /\ t2[d][i] \notin Q
  <2>1. Old(d, i) \in DOMAIN u[d] /\ Trigger(u[d][Old(d, i)])
    BY <1>1, <1>7
  <2>2. t2[d][i] = ticket[d][Old(d, i)]
    BY <1>1, <1>2
  <2>3. ticket[d][Old(d, i)] \in 1..n /\ ticket[d][Old(d, i)] \notin Q
    BY <2>1 DEF Tickets
  <2> QED
    BY <2>2, <2>3
<1>8. Tickets(u2, t2, Q, n)
    BY <1>6, <1>7 DEF Tickets
<1>9. ASSUME Trigger(Head(u[c]))
      PROVE  \E Q2 : Tickets(u2, t2, Q2, n) /\ OneMore(Q, Q2)
  <2> DEFINE x == ticket[c][1]
             Q2 == Q \cup {x}
  <2>1. x \in 1..n /\ x \notin Q
    BY <1>4, <1>9 DEF Tickets
  <2>2. ASSUME NEW d \in Clients, NEW i \in DOMAIN u2[d], Trigger(u2[d][i])
        PROVE  t2[d][i] # x
    <3> SUFFICES ASSUME t2[d][i] = x
                 PROVE  FALSE
      OBVIOUS
    <3>1. ticket[d][Old(d, i)] = ticket[c][1]
      BY <1>1, <1>2
    <3>2. d = c /\ Old(d, i) = 1
      BY <1>1, <1>4, <1>9, <2>2, <3>1 DEF Tickets
    <3> QED
      BY <1>1, <1>5, <3>2
  <2>3. Q \in SUBSET (1..n) /\ IsFiniteSet(Q)
    <3>1. IsFiniteSet(1..n)
      BY FS_Interval
    <3>2. Q \in SUBSET (1..n)
      BY DEF Tickets
    <3> QED
      BY <3>1, <3>2, FS_Subset
  <2>4. Cardinality(Q2) = Cardinality(Q) + 1
    BY <2>1, <2>3, FS_AddElement
  <2>5. Q2 \in SUBSET (1..n)
    BY <2>1, <2>3
  <2>6. Tickets(u2, t2, Q2, n)
    BY <1>6, <1>7, <2>2, <2>5 DEF Tickets
  <2> QED
    BY <2>4, <2>6 DEF OneMore
<1> QED
    BY <1>8, <1>9 DEF u2

\* The calls under way of a client are lost.
LEMMA TicketsLost ==
    ASSUME NEW u \in [Clients -> Seq(Message)], NEW ticket, NEW Q, NEW n \in Nat,
           Tickets(u, ticket, Q, n), NEW c \in Clients
    PROVE  Tickets([u EXCEPT ![c] = <<>>], ticket, Q, n)
<1> DEFINE u2 == [u EXCEPT ![c] = <<>>]
<1>1. \A d \in Clients : \A i \in DOMAIN u2[d] : i \in DOMAIN u[d] /\ u2[d][i] = u[d][i]
  <2>1. DOMAIN <<>> = {}
    OBVIOUS
  <2> QED
    BY <2>1
<1> HIDE DEF u2
<1>2. Tickets(u2, ticket, Q, n)
    BY <1>1 DEF Tickets
<1> QED
    BY <1>2 DEF u2

------------------------------------------------------------------------------
(***************************************************************************)
(* The first invariant: the types, the triggers and the events.            *)
(***************************************************************************)

\* The timer waits, and handlers of it are queued, at most once for every
\* trigger that was read.
TriggersCounted ==
    \E ticket, Q : /\ Tickets(up, ticket, Q, triggers)
                   /\ timerWaits + timerQueued <= Cardinality(Q)

\* The triggers under way and the enabled event are events that clients triggered.
TriggersOffered ==
    /\ Values(up, "trigger_single_broadcast", offered \cup {NoEvent})
    /\ myEnabledEvent \in offered \cup {NoEvent}

EventInv == TypeOK /\ TriggersCounted /\ TriggersOffered /\ EventsBroadcast

\* The parts of the invariant that are about events.
LEMMA EventFacts ==
    /\ OnlyTriggeredEvents <=> Values(down, "broadcast_event", offered)
    /\ EventInv => /\ TypeOK /\ TriggersOffered /\ NoEventForgotten
                   /\ Values(down, "broadcast_event", offered)
BY DEF EventInv, EventsBroadcast, OnlyTriggeredEvents, Values

\* The ends of the connections.
LEMMA EndsOfClients ==
    /\ \A c \in Clients : At(c) \in Ends /\ For(c) \in Ends
    /\ \A c, d \in Clients : At(c) # For(d)
    /\ \A c, d \in Clients : At(c) = At(d) => c = d
    /\ \A c, d \in Clients : For(c) = For(d) => c = d
BY DEF At, For, Ends

\* What is written is a message.
LEMMA MessageType ==
    ASSUME NEW known, NEW classes \in Seq(Class),
           NEW func \in Funcs \cup {"trigger_single_broadcast", "broadcast_event"},
           NEW value \in EventClass \cup {NoEvent}
    PROVE  [func |-> func, value |-> value, parts |-> Serialized(known, classes)] \in Message
<1>1. \A i \in DOMAIN classes :
         [class |-> classes[i],
          described |-> Describes(classes[i]) /\ classes[i] \notin known] \in Part
  <2> TAKE i \in DOMAIN classes
  <2>1. classes[i] \in Class
    OBVIOUS
  <2>2. (Describes(classes[i]) /\ classes[i] \notin known) \in BOOLEAN
    BY DEF Describes
  <2> QED
    BY <2>1, <2>2 DEF Part
<1>2. DOMAIN classes = 1..Len(classes) /\ Len(classes) \in Nat
    OBVIOUS
<1>3. Serialized(known, classes) \in [1..Len(classes) -> Part]
    BY <1>1, <1>2 DEF Serialized
<1>4. Serialized(known, classes) \in Seq(Part)
    BY <1>2, <1>3
<1> QED
    BY <1>4 DEF Message

\* The lists of classes.
LEMMA PartLists ==
    /\ ResultParts \in Seq(Class) /\ ErrorParts \in Seq(Class)
    /\ \A ev \in EventClass \cup {NoEvent} : EventParts(ev) \in Seq(Class)
    /\ \A ev \in EventClass \cup {NoEvent} : ArgParts(ev) \in Seq(Class)
    /\ \A f \in Funcs : ArgClasses(f) \subseteq EventClass \cup {NoEvent}
<1>1. ResultParts \in Seq(Class) /\ ErrorParts \in Seq(Class)
    BY DEF ResultParts, ErrorParts, Class
<1>2. ASSUME NEW ev \in EventClass \cup {NoEvent}, ev # NoEvent
      PROVE  <<ev>> \in Seq(Class)
  <2>1. ev \in Class
    BY <1>2 DEF Class
  <2> QED
    BY <2>1
<1>3. <<>> \in Seq(Class)
    OBVIOUS
<1> QED
    BY <1>1, <1>2, <1>3 DEF EventParts, ArgParts, ArgClasses

\* An archive knows classes.
LEMMA LearntType ==
    ASSUME NEW known \in SUBSET Class, NEW classes \in Seq(Class)
    PROVE  Learnt(known, classes) \in SUBSET Class
<1>1. Range(classes) \subseteq Class
    BY DEF Range
<1> QED
    BY <1>1 DEF Learnt

LEMMA ClassesType ==
    ASSUME NEW m \in Message
    PROVE  Classes(m.parts) \in Seq(Class)
<1>1. PICK s \in Seq(Part) : s = m.parts
    BY DEF Message
<1>2. DOMAIN s = 1..Len(s) /\ Len(s) \in Nat /\ \A i \in 1..Len(s) : s[i] \in Part
    OBVIOUS
<1>3. \A p \in Part : p.class \in Class
    BY DEF Part
<1>4. \A i \in 1..Len(s) : s[i].class \in Class
    BY <1>2, <1>3
<1>5. Classes(s) \in [1..Len(s) -> Class]
    BY <1>2, <1>4 DEF Classes
<1>6. Classes(s) \in Seq(Class)
    BY <1>2, <1>5
<1> QED
    BY <1>1, <1>6

\* The queued handlers are no more than the triggers.
LEMMA QueuedBound ==
    ASSUME NEW waits \in Nat, NEW queued \in Nat, NEW n \in 0..MaxTriggers,
           NEW u, NEW ticket, NEW Q, Tickets(u, ticket, Q, n),
           waits + queued <= Cardinality(Q)
    PROVE  queued \in 0..MaxTriggers
<1>1. MaxTriggers \in Nat /\ n \in Nat
    BY ArchivesAssumption
<1>2. IsFiniteSet(1..n) /\ Cardinality(1..n) = n
    BY <1>1, FS_Interval
<1>3. Q \in SUBSET (1..n)
    BY DEF Tickets
<1>4. Cardinality(Q) \in Nat /\ Cardinality(Q) <= n
    BY <1>2, <1>3, FS_Subset, FS_CardinalityType
<1> QED
    BY <1>1, <1>4

LEMMA InitEvents == ASSUME Init PROVE EventInv
<1>1. TypeOK
  <2>1. MaxCallsInProgress - 1 \in Nat /\ MaxCalls \in Nat /\ MaxTriggers \in Nat
    BY ArchivesAssumption
  <2>2. /\ \A c \in Clients, f \in Funcs : Len(myCallQueue[c][f]) <= MaxCallsInProgress - 1
    BY <2>1 DEF Init
  <2>3. /\ format \in Formats /\ kind \in EventKinds
        /\ conn \in [Clients -> {"no", "up", "broken", "closed"}]
        /\ outArch \in [Ends -> SUBSET Class] /\ inArch \in [Ends -> SUBSET Class]
        /\ up \in [Clients -> Seq(Message)] /\ down \in [Clients -> Seq(Message)]
        /\ myClosures \in [Clients -> SUBSET Funcs]
        /\ myCallQueue \in [Clients -> [Funcs -> Seq(Call)]]
        /\ offered \subseteq EventClass /\ waiting \subseteq Clients
        /\ failed \subseteq Clients \cup {"service"}
        /\ myEnabledEvent \in EventClass \cup {NoEvent}
    BY DEF Init
  <2>4. made \in [Clients -> 0..MaxCalls] /\ triggers \in 0..MaxTriggers
        /\ timerWaits \in 0..1 /\ timerQueued \in 0..MaxTriggers
    BY <2>1 DEF Init
  <2>5. unheard \in BOOLEAN
    BY DEF Init
  <2> QED
    BY <2>2, <2>3, <2>4, <2>5 DEF TypeOK
<1>2. TriggersCounted
  <2>1. \A c \in Clients : up[c] = <<>>
    BY DEF Init
  <2>2. Tickets(up, 0, {}, triggers)
    BY <2>1 DEF Tickets
  <2>3. timerWaits + timerQueued <= Cardinality({})
    BY FS_EmptySet DEF Init
  <2> QED
    BY <2>2, <2>3 DEF TriggersCounted
<1>3. TriggersOffered /\ EventsBroadcast
  <2>1. \A c \in Clients : up[c] = <<>> /\ down[c] = <<>>
    BY DEF Init
  <2>2. DOMAIN <<>> = {}
    OBVIOUS
  <2>3. TriggersOffered
    BY <2>1, <2>2 DEF TriggersOffered, Values, Init
  <2> QED
    BY <2>1, <2>2, <2>3 DEF EventsBroadcast, OnlyTriggeredEvents, NoEventForgotten, Init
<1> QED
    BY <1>1, <1>2, <1>3 DEF EventInv

LEMMA ConnectEvents ==
    ASSUME EventInv, NEW c \in Clients, Connect(c)
    PROVE  EventInv'
<1>1. TypeOK'
    BY DEF EventInv, TypeOK, Connect, archiveVars, callVars, serviceVars
<1>2. TriggersCounted'
    BY DEF EventInv, TriggersCounted, Connect, serviceVars
<1>3. TriggersOffered' /\ EventsBroadcast'
    BY DEF EventInv, TriggersOffered, Values, EventsBroadcast, OnlyTriggeredEvents,
           NoEventForgotten, Connect, serviceVars
<1> QED
    BY <1>1, <1>2, <1>3 DEF EventInv

LEMMA CallEvents ==
    ASSUME EventInv, NEW c \in Clients, NEW f \in Funcs, NEW arg \in ArgClasses(f),
           send_call(c, f, arg)
    PROVE  EventInv'
<1> DEFINE msg == MessageOf(At(c), f, NoEvent, ArgParts(arg))
<1>1. TypeOK /\ arg \in EventClass \cup {NoEvent} /\ ArgParts(arg) \in Seq(Class)
    BY PartLists DEF EventInv
<1>2. msg \in Message /\ msg \in Call /\ msg.func = f
    BY <1>1, MessageType DEF MessageOf, Message, Call
<1> HIDE DEF msg
<1>3. UNCHANGED <<format, kind, conn, inArch, down, offered, unheard, waiting, triggers, failed>>
      /\ UNCHANGED serviceVars
    BY DEF send_call
<1>4. outArch' \in [Ends -> SUBSET Class]
  <2>1. outArch[At(c)] \in SUBSET Class
    BY <1>1, EndsOfClients DEF TypeOK
  <2>2. Learnt(outArch[At(c)], ArgParts(arg)) \in SUBSET Class
    BY <1>1, <2>1, LearntType
  <2> QED
    BY <1>1, <2>2 DEF TypeOK, send_call
<1>5. made' \in [Clients -> 0..MaxCalls]
  <2>1. made[c] \in 0..MaxCalls /\ made[c] < MaxCalls
    BY <1>1 DEF TypeOK, send_call
  <2>2. made[c] + 1 \in 0..MaxCalls
    BY <2>1, ArchivesAssumption
  <2>3. made \in [Clients -> 0..MaxCalls] /\ made' = [made EXCEPT ![c] = made[c] + 1]
    BY <1>1 DEF TypeOK, send_call
  <2> QED
    BY <2>2, <2>3
<1>6. \/ /\ up' = [up EXCEPT ![c] = Append(@, msg)]
         /\ myClosures' = [myClosures EXCEPT ![c] = @ \cup {f}] /\ myCallQueue' = myCallQueue
      \/ /\ Len(myCallQueue[c][f]) < MaxCallsInProgress - 1
         /\ myCallQueue' = [myCallQueue EXCEPT ![c][f] = Append(@, msg)]
         /\ up' = up /\ myClosures' = myClosures
      \/ up' = up /\ myClosures' = myClosures /\ myCallQueue' = myCallQueue
    BY DEF send_call, msg
<1>7. /\ up' \in [Clients -> Seq(Message)] /\ myClosures' \in [Clients -> SUBSET Funcs]
      /\ myCallQueue' \in [Clients -> [Funcs -> Seq(Call)]]
  <2>1. /\ up \in [Clients -> Seq(Message)] /\ myClosures \in [Clients -> SUBSET Funcs]
        /\ myCallQueue \in [Clients -> [Funcs -> Seq(Call)]]
    BY <1>1 DEF TypeOK
  <2>2. Append(up[c], msg) \in Seq(Message) /\ Append(myCallQueue[c][f], msg) \in Seq(Call)
    BY <1>2, <2>1
  <2>3. [up EXCEPT ![c] = Append(@, msg)] \in [Clients -> Seq(Message)]
    BY <2>1, <2>2
  <2>4. [myClosures EXCEPT ![c] = @ \cup {f}] \in [Clients -> SUBSET Funcs]
    BY <2>1
  <2>5. [myCallQueue EXCEPT ![c][f] = Append(@, msg)] \in [Clients -> [Funcs -> Seq(Call)]]
    BY <2>1, <2>2
  <2> QED
    BY <1>6, <2>1, <2>3, <2>4, <2>5
<1>8. \A d \in Clients, g \in Funcs : Len(myCallQueue'[d][g]) <= MaxCallsInProgress - 1
  <2>1. CASE myCallQueue' = myCallQueue
    BY <1>1, <2>1 DEF TypeOK
  <2>2. CASE /\ Len(myCallQueue[c][f]) < MaxCallsInProgress - 1
             /\ myCallQueue' = [myCallQueue EXCEPT ![c][f] = Append(@, msg)]
    <3> TAKE d \in Clients, g \in Funcs
    <3>1. myCallQueue[c][f] \in Seq(Call)
      BY <1>1 DEF TypeOK
    <3>2. Len(Append(myCallQueue[c][f], msg)) <= MaxCallsInProgress - 1
      BY <1>2, <2>2, <3>1, ArchivesAssumption
    <3>3. CASE d = c /\ g = f
      <4>1. myCallQueue'[d][g] = Append(myCallQueue[c][f], msg)
        BY <1>1, <2>2, <3>3 DEF TypeOK
      <4> QED
        BY <3>2, <4>1
    <3>4. CASE ~(d = c /\ g = f)
      <4>1. myCallQueue'[d][g] = myCallQueue[d][g]
        BY <1>1, <2>2, <3>4 DEF TypeOK
      <4> QED
        BY <1>1, <4>1 DEF TypeOK
    <3> QED
      BY <3>3, <3>4
  <2> QED
    BY <1>6, <2>1, <2>2
<1>9. TypeOK'
    BY <1>1, <1>3, <1>4, <1>5, <1>7, <1>8 DEF TypeOK, serviceVars
<1>10. TriggersCounted'
  <2>1. PICK ticket, Q : /\ Tickets(up, ticket, Q, triggers)
                         /\ timerWaits + timerQueued <= Cardinality(Q)
    BY DEF EventInv, TriggersCounted
  <2>2. ~Trigger(msg) /\ triggers \in Nat
    BY <1>1, <1>2, ArchivesAssumption DEF Trigger, TypeOK
  <2>3. Tickets([up EXCEPT ![c] = Append(@, msg)], ticket, Q, triggers)
    BY <1>1, <1>2, <2>1, <2>2, TicketsOther DEF TypeOK
  <2>4. Tickets(up', ticket, Q, triggers)
    <3>1. up' = up \/ up' = [up EXCEPT ![c] = Append(@, msg)]
      BY <1>6
    <3> QED
      BY <2>1, <2>3, <3>1
  <2> QED
    BY <1>3, <2>1, <2>4 DEF TriggersCounted, serviceVars
<1>11. TriggersOffered'
  <2>1. /\ up \in [Clients -> Seq(Message)]
        /\ Values(up, "trigger_single_broadcast", offered \cup {NoEvent})
        /\ msg.func # "trigger_single_broadcast"
    BY <1>1, <1>2, EventFacts, ArchivesAssumption DEF TypeOK, TriggersOffered
  <2>2. Values([up EXCEPT ![c] = Append(@, msg)], "trigger_single_broadcast", offered \cup {NoEvent})
    BY <1>2, <2>1, ValuesWritten
  <2>3. up' = up \/ up' = [up EXCEPT ![c] = Append(@, msg)]
    BY <1>6
  <2>4. Values(up', "trigger_single_broadcast", offered \cup {NoEvent})
    BY <2>1, <2>2, <2>3
  <2> QED
    BY <1>3, <2>4, EventFacts DEF TriggersOffered, serviceVars
<1>12. EventsBroadcast'
    BY <1>3 DEF EventInv, EventsBroadcast, OnlyTriggeredEvents, NoEventForgotten, serviceVars
<1> QED
    BY <1>9, <1>10, <1>11, <1>12 DEF EventInv

LEMMA TriggerEvents ==
    ASSUME EventInv, NEW c \in Clients, NEW ev \in Triggered, send_trigger(c, ev)
    PROVE  EventInv'
<1> DEFINE msg == MessageOf(At(c), "trigger_single_broadcast", ev, EventParts(ev))
<1>1. TypeOK /\ ev \in EventClass \cup {NoEvent} /\ EventParts(ev) \in Seq(Class)
    BY PartLists, ArchivesAssumption DEF EventInv
<1>2. msg \in Message
    BY <1>1, MessageType DEF MessageOf
<1>3. /\ UNCHANGED <<format, kind, conn, inArch, down, unheard, failed>>
      /\ UNCHANGED callVars /\ UNCHANGED serviceVars
      /\ up' = [up EXCEPT ![c] = Append(@, msg)]
      /\ triggers < MaxTriggers /\ triggers' = triggers + 1
      /\ offered' = offered \cup ({ev} \ {NoEvent})
      /\ msg.func = "trigger_single_broadcast" /\ msg.value = ev
    BY DEF send_trigger, MessageOf
<1> HIDE DEF msg
<1>4. outArch' \in [Ends -> SUBSET Class]
  <2>1. outArch[At(c)] \in SUBSET Class
    BY <1>1, EndsOfClients DEF TypeOK
  <2>2. Learnt(outArch[At(c)], EventParts(ev)) \in SUBSET Class
    BY <1>1, <2>1, LearntType
  <2> QED
    BY <1>1, <2>2 DEF TypeOK, send_trigger
<1>5. up' \in [Clients -> Seq(Message)]
    BY <1>1, <1>2, <1>3 DEF TypeOK
<1>6. triggers \in Nat /\ triggers' \in 0..MaxTriggers
  <2>1. triggers \in 0..MaxTriggers /\ MaxTriggers \in Nat
    BY <1>1, ArchivesAssumption DEF TypeOK
  <2> QED
    BY <1>3, <2>1
<1>7. waiting' \subseteq Clients /\ offered' \subseteq EventClass
    BY <1>1 DEF TypeOK, send_trigger, Awaits
<1>8. TypeOK'
    BY <1>1, <1>3, <1>4, <1>5, <1>6, <1>7 DEF TypeOK, callVars, serviceVars
<1>9. TriggersCounted'
  <2>1. PICK ticket, Q : /\ Tickets(up, ticket, Q, triggers)
                         /\ timerWaits + timerQueued <= Cardinality(Q)
    BY DEF EventInv, TriggersCounted
  <2>2. PICK t2 : Tickets([up EXCEPT ![c] = Append(@, msg)], t2, Q, triggers + 1)
    BY <1>1, <1>2, <1>6, <2>1, TicketsTrigger DEF TypeOK
  <2>3. Tickets(up', t2, Q, triggers')
    BY <1>3, <2>2
  <2> QED
    BY <1>3, <2>1, <2>3 DEF TriggersCounted, serviceVars
<1>10. TriggersOffered'
  <2>1. offered \subseteq offered' /\ ev \in offered' \cup {NoEvent}
    BY <1>3
  <2>2. Values(up, "trigger_single_broadcast", offered' \cup {NoEvent})
    BY <2>1, EventFacts DEF TriggersOffered, Values
  <2>3. Values([up EXCEPT ![c] = Append(@, msg)], "trigger_single_broadcast", offered' \cup {NoEvent})
    BY <1>1, <1>2, <1>3, <2>1, <2>2, ValuesWritten DEF TypeOK
  <2>4. Values(up', "trigger_single_broadcast", offered' \cup {NoEvent})
    BY <1>3, <2>3
  <2> QED
    BY <1>3, <2>1, <2>4, EventFacts DEF TriggersOffered, serviceVars
<1>11. EventsBroadcast'
    BY <1>3 DEF EventInv, EventsBroadcast, OnlyTriggeredEvents, NoEventForgotten, serviceVars
<1> QED
    BY <1>8, <1>9, <1>10, <1>11 DEF EventInv

\* What a client reads.
LEMMA ClientReads ==
    ASSUME TypeOK, NEW c \in Clients, down[c] # <<>>,
           NEW classes \in Seq(Class), ReadByClient(c, classes)
    PROVE  /\ down' \in [Clients -> Seq(Message)] /\ down' = [down EXCEPT ![c] = Tail(@)]
           /\ inArch' \in [Ends -> SUBSET Class]
           /\ failed' \subseteq Clients \cup {"service"}
<1>1. down[c] \in Seq(Message) /\ Tail(down[c]) \in Seq(Message)
    BY DEF TypeOK
<1>2. down' = [down EXCEPT ![c] = Tail(@)]
    BY DEF ReadByClient
<1>3. down' \in [Clients -> Seq(Message)]
    BY <1>1, <1>2 DEF TypeOK
<1>4. inArch[At(c)] \in SUBSET Class
    BY EndsOfClients DEF TypeOK
<1>5. Learnt(inArch[At(c)], classes) \in SUBSET Class
    BY <1>4, LearntType
<1>6. inArch' \in [Ends -> SUBSET Class]
    BY <1>5 DEF TypeOK, ReadByClient
<1>7. failed' = failed \/ failed' = failed \cup {c}
    BY DEF ReadByClient
<1>8. failed' \subseteq Clients \cup {"service"}
    BY <1>7 DEF TypeOK
<1> QED
    BY <1>2, <1>3, <1>6, <1>8

LEMMA ResultEvents ==
    ASSUME EventInv, NEW c \in Clients, dispatch_result(c)
    PROVE  EventInv'
<1> DEFINE f == Head(down[c]).func
           msg == Head(myCallQueue[c][f])
<1>1. TypeOK /\ f \in Funcs /\ down[c] # <<>> /\ ReadByClient(c, ResultParts)
    BY DEF EventInv, dispatch_result
<1>2. /\ UNCHANGED <<format, kind, conn, outArch, made, offered, unheard, waiting, triggers>>
      /\ UNCHANGED serviceVars
    BY DEF dispatch_result
<1>3. /\ down' \in [Clients -> Seq(Message)] /\ down' = [down EXCEPT ![c] = Tail(@)]
      /\ inArch' \in [Ends -> SUBSET Class]
      /\ failed' \subseteq Clients \cup {"service"}
    BY <1>1, ClientReads, PartLists
<1>4. \/ /\ myClosures' = [myClosures EXCEPT ![c] = @ \ {f}]
         /\ up' = up /\ myCallQueue' = myCallQueue
      \/ /\ myCallQueue[c][f] # <<>>
         /\ up' = up \/ up' = [up EXCEPT ![c] = Append(@, msg)]
         /\ myCallQueue' = [myCallQueue EXCEPT ![c][f] = Tail(@)]
         /\ myClosures' = myClosures
    BY DEF dispatch_result
<1> HIDE DEF f
<1>5. /\ up \in [Clients -> Seq(Message)] /\ myClosures \in [Clients -> SUBSET Funcs]
      /\ myCallQueue \in [Clients -> [Funcs -> Seq(Call)]]
      /\ myCallQueue[c][f] \in Seq(Call)
    BY <1>1 DEF TypeOK
<1>6. /\ up' \in [Clients -> Seq(Message)]
      /\ \/ up' = up
         \/ up' = [up EXCEPT ![c] = Append(@, msg)] /\ msg \in Message /\ ~Trigger(msg)
  <2>1. CASE up' = up
    BY <1>5, <2>1
  <2>2. CASE myCallQueue[c][f] # <<>> /\ up' = [up EXCEPT ![c] = Append(@, msg)]
    <3>1. msg \in Call
      BY <1>5, <2>2
    <3>2. msg \in Message /\ ~Trigger(msg)
      BY <3>1, ArchivesAssumption DEF Call, Message, Trigger
    <3> QED
      BY <1>5, <2>2, <3>2
  <2> QED
    BY <1>4, <2>1, <2>2
<1>7. myClosures' \in [Clients -> SUBSET Funcs] /\ myCallQueue' \in [Clients -> [Funcs -> Seq(Call)]]
  <2>1. CASE myCallQueue' = myCallQueue /\ myClosures' = [myClosures EXCEPT ![c] = @ \ {f}]
    BY <1>5, <2>1
  <2>2. CASE /\ myCallQueue[c][f] # <<>> /\ myClosures' = myClosures
             /\ myCallQueue' = [myCallQueue EXCEPT ![c][f] = Tail(@)]
    <3>1. Tail(myCallQueue[c][f]) \in Seq(Call)
      BY <1>5, <2>2
    <3> QED
      BY <1>1, <1>5, <2>2, <3>1
  <2> QED
    BY <1>4, <2>1, <2>2
<1>8. \A d \in Clients, g \in Funcs : Len(myCallQueue'[d][g]) <= MaxCallsInProgress - 1
  <2>1. CASE myCallQueue' = myCallQueue
    BY <1>1, <2>1 DEF TypeOK
  <2>2. CASE /\ myCallQueue[c][f] # <<>>
             /\ myCallQueue' = [myCallQueue EXCEPT ![c][f] = Tail(@)]
    <3> TAKE d \in Clients, g \in Funcs
    <3>1. Len(myCallQueue[c][f]) <= MaxCallsInProgress - 1 /\ MaxCallsInProgress \in Nat
      BY <1>1, ArchivesAssumption DEF TypeOK
    <3>2. Len(Tail(myCallQueue[c][f])) <= MaxCallsInProgress - 1
      BY <1>5, <2>2, <3>1
    <3>3. CASE d = c /\ g = f
      <4>1. myCallQueue'[d][g] = Tail(myCallQueue[c][f])
        BY <1>1, <1>5, <2>2, <3>3
      <4> QED
        BY <3>2, <4>1
    <3>4. CASE ~(d = c /\ g = f)
      <4>1. myCallQueue'[d][g] = myCallQueue[d][g]
        BY <1>5, <2>2, <3>4
      <4> QED
        BY <1>1, <4>1 DEF TypeOK
    <3> QED
      BY <3>3, <3>4
  <2> QED
    BY <1>4, <2>1, <2>2
<1>9. TypeOK'
    BY <1>1, <1>2, <1>3, <1>6, <1>7, <1>8 DEF TypeOK, serviceVars
<1>10. TriggersCounted'
  <2>1. PICK ticket, Q : /\ Tickets(up, ticket, Q, triggers)
                         /\ timerWaits + timerQueued <= Cardinality(Q)
    BY DEF EventInv, TriggersCounted
  <2>2. triggers \in Nat
    BY <1>1, ArchivesAssumption DEF TypeOK
  <2>3. Tickets(up', ticket, Q, triggers)
    <3>1. CASE up' = up
      BY <2>1, <3>1
    <3>2. CASE up' = [up EXCEPT ![c] = Append(@, msg)] /\ msg \in Message /\ ~Trigger(msg)
      BY <1>5, <2>1, <2>2, <3>2, TicketsOther
    <3> QED
      BY <1>6, <3>1, <3>2
  <2> QED
    BY <1>2, <2>1, <2>3 DEF TriggersCounted, serviceVars
<1>11. TriggersOffered'
  <2>1. Values(up, "trigger_single_broadcast", offered \cup {NoEvent})
    BY EventFacts DEF TriggersOffered
  <2>2. Values(up', "trigger_single_broadcast", offered \cup {NoEvent})
    <3>1. CASE up' = up
      BY <2>1, <3>1
    <3>2. CASE up' = [up EXCEPT ![c] = Append(@, msg)] /\ msg \in Message /\ ~Trigger(msg)
      BY <1>5, <2>1, <3>2, ValuesWritten DEF Trigger
    <3> QED
      BY <1>6, <3>1, <3>2
  <2> QED
    BY <1>2, <2>2, EventFacts DEF TriggersOffered, serviceVars
<1>12. EventsBroadcast'
  <2>1. Values([down EXCEPT ![c] = Tail(@)], "broadcast_event", offered)
    BY <1>1, EventFacts, ValuesRead DEF TypeOK
  <2>2. Values(down', "broadcast_event", offered')
    BY <1>2, <1>3, <2>1
  <2> QED
    BY <1>2, <2>2, EventFacts
    DEF EventsBroadcast, OnlyTriggeredEvents, Values, NoEventForgotten, serviceVars
<1> QED
    BY <1>9, <1>10, <1>11, <1>12 DEF EventInv

LEMMA EventEvents ==
    ASSUME EventInv, NEW c \in Clients, dispatch_event(c)
    PROVE  EventInv'
<1> DEFINE msg == Head(down[c])
<1>1. TypeOK /\ down[c] # <<>> /\ msg.func = "broadcast_event"
      /\ ReadByClient(c, Classes(msg.parts))
    BY DEF EventInv, dispatch_event
<1>2. /\ UNCHANGED <<format, kind, conn, outArch, up, offered, unheard, triggers>>
      /\ UNCHANGED serviceVars /\ UNCHANGED callVars
    BY DEF dispatch_event
<1>3. Classes(msg.parts) \in Seq(Class)
  <2>1. msg \in Message
    BY <1>1 DEF TypeOK
  <2> QED
    BY <2>1, ClassesType
<1>4. /\ down' \in [Clients -> Seq(Message)] /\ down' = [down EXCEPT ![c] = Tail(@)]
      /\ inArch' \in [Ends -> SUBSET Class]
      /\ failed' \subseteq Clients \cup {"service"}
    BY <1>1, <1>3, ClientReads
<1>5. waiting' \subseteq Clients
    BY <1>1 DEF TypeOK, dispatch_event, GotEvent
<1>6. TypeOK'
    BY <1>1, <1>2, <1>4, <1>5 DEF TypeOK, serviceVars, callVars
<1>7. TriggersCounted' /\ TriggersOffered'
    BY <1>2 DEF EventInv, TriggersCounted, TriggersOffered, Values, serviceVars
<1>8. EventsBroadcast'
  <2>1. Values([down EXCEPT ![c] = Tail(@)], "broadcast_event", offered)
    BY <1>1, EventFacts, ValuesRead DEF TypeOK
  <2>2. Values(down', "broadcast_event", offered')
    BY <1>2, <1>4, <2>1
  <2> QED
    BY <1>2, <2>2, EventFacts
    DEF EventsBroadcast, OnlyTriggeredEvents, Values, NoEventForgotten, serviceVars
<1> QED
    BY <1>6, <1>7, <1>8 DEF EventInv

LEMMA BreakEvents ==
    ASSUME EventInv, NEW c \in Clients, Break(c)
    PROVE  EventInv'
<1>1. TypeOK /\ <<>> \in Seq(Message)
    BY DEF EventInv
<1>2. /\ UNCHANGED <<format, kind, offered, unheard, triggers, failed>> /\ UNCHANGED archiveVars
      /\ UNCHANGED serviceVars /\ UNCHANGED callVars
      /\ up' = [up EXCEPT ![c] = <<>>]
      /\ down' = down \/ down' = [down EXCEPT ![c] = <<>>]
    BY DEF Break
<1>3. /\ up' \in [Clients -> Seq(Message)] /\ down' \in [Clients -> Seq(Message)]
  <2>1. /\ up \in [Clients -> Seq(Message)] /\ down \in [Clients -> Seq(Message)]
    BY <1>1 DEF TypeOK
  <2>2. [up EXCEPT ![c] = <<>>] \in [Clients -> Seq(Message)]
    BY <1>1, <2>1
  <2>3. [down EXCEPT ![c] = <<>>] \in [Clients -> Seq(Message)]
    BY <1>1, <2>1
  <2> QED
    BY <1>2, <2>1, <2>2, <2>3
<1>4. conn' \in [Clients -> {"no", "up", "broken", "closed"}] /\ waiting' \subseteq Clients
    BY <1>1 DEF TypeOK, Break
<1>5. TypeOK'
    BY <1>1, <1>2, <1>3, <1>4 DEF TypeOK, archiveVars, serviceVars, callVars
<1>6. TriggersCounted'
  <2>1. PICK ticket, Q : /\ Tickets(up, ticket, Q, triggers)
                         /\ timerWaits + timerQueued <= Cardinality(Q)
    BY DEF EventInv, TriggersCounted
  <2>2. triggers \in Nat
    BY <1>1, ArchivesAssumption DEF TypeOK
  <2>3. Tickets(up', ticket, Q, triggers)
    BY <1>1, <1>2, <2>1, <2>2, TicketsLost DEF TypeOK
  <2> QED
    BY <1>2, <2>1, <2>3 DEF TriggersCounted, serviceVars
<1>7. TriggersOffered'
  <2>1. Values([up EXCEPT ![c] = <<>>], "trigger_single_broadcast", offered \cup {NoEvent})
    BY <1>1, EventFacts, ValuesLost DEF TypeOK, TriggersOffered
  <2>2. Values(up', "trigger_single_broadcast", offered \cup {NoEvent})
    BY <1>2, <2>1
  <2> QED
    BY <1>2, <2>2, EventFacts DEF TriggersOffered, serviceVars
<1>8. EventsBroadcast'
  <2>1. Values([down EXCEPT ![c] = <<>>], "broadcast_event", offered)
    BY <1>1, EventFacts, ValuesLost DEF TypeOK
  <2>2. Values(down', "broadcast_event", offered')
    BY <1>2, <2>1, EventFacts
  <2> QED
    BY <1>2, <2>2, EventFacts
    DEF EventsBroadcast, OnlyTriggeredEvents, Values, NoEventForgotten, serviceVars
<1> QED
    BY <1>5, <1>6, <1>7, <1>8 DEF EventInv

LEMMA ErrorEvents ==
    ASSUME EventInv, NEW c \in Clients, dispatch_connection_error(c)
    PROVE  EventInv'
<1>1. TypeOK
    BY DEF EventInv
<1>2. /\ UNCHANGED <<format, kind, up, down, myCallQueue, made, offered, unheard, waiting,
                      triggers>>
      /\ UNCHANGED serviceVars
      /\ failed' = failed \/ failed' = failed \cup {c}
      /\ myClosures' = myClosures \/ myClosures' = [myClosures EXCEPT ![c] = {}]
      /\ inArch' = inArch \/ inArch' = [inArch EXCEPT ![At(c)] = Learnt(@, ResultParts)]
      /\ conn' = [conn EXCEPT ![c] = "closed"]
      /\ outArch' = [outArch EXCEPT ![At(c)] = Learnt(@, ErrorParts)]
    BY DEF dispatch_connection_error
<1>3. inArch[At(c)] \in SUBSET Class /\ outArch[At(c)] \in SUBSET Class
    BY <1>1, EndsOfClients DEF TypeOK
<1>4. /\ Learnt(inArch[At(c)], ResultParts) \in SUBSET Class
      /\ Learnt(outArch[At(c)], ErrorParts) \in SUBSET Class
    BY <1>3, LearntType, PartLists
<1>5. inArch' \in [Ends -> SUBSET Class] /\ outArch' \in [Ends -> SUBSET Class]
  <2>1. inArch \in [Ends -> SUBSET Class] /\ outArch \in [Ends -> SUBSET Class]
    BY <1>1 DEF TypeOK
  <2>2. [inArch EXCEPT ![At(c)] = Learnt(@, ResultParts)] \in [Ends -> SUBSET Class]
    BY <1>4, <2>1
  <2>3. [outArch EXCEPT ![At(c)] = Learnt(@, ErrorParts)] \in [Ends -> SUBSET Class]
    BY <1>4, <2>1
  <2> QED
    BY <1>2, <2>1, <2>2, <2>3
<1>6. /\ myClosures' \in [Clients -> SUBSET Funcs] /\ failed' \subseteq Clients \cup {"service"}
      /\ conn' \in [Clients -> {"no", "up", "broken", "closed"}]
  <2>1. /\ myClosures \in [Clients -> SUBSET Funcs] /\ failed \subseteq Clients \cup {"service"}
        /\ conn \in [Clients -> {"no", "up", "broken", "closed"}]
    BY <1>1 DEF TypeOK
  <2>2. [myClosures EXCEPT ![c] = {}] \in [Clients -> SUBSET Funcs]
    BY <2>1
  <2>3. failed \cup {c} \subseteq Clients \cup {"service"}
    BY <2>1
  <2>4. conn' \in [Clients -> {"no", "up", "broken", "closed"}]
    BY <1>2, <2>1
  <2> QED
    BY <1>2, <2>1, <2>2, <2>3, <2>4
<1>7. TypeOK'
    BY <1>1, <1>2, <1>5, <1>6 DEF TypeOK, serviceVars
<1>8. TriggersCounted' /\ TriggersOffered'
    BY <1>2 DEF EventInv, TriggersCounted, TriggersOffered, Values, serviceVars
<1>9. EventsBroadcast'
    BY <1>2 DEF EventInv, EventsBroadcast, OnlyTriggeredEvents, NoEventForgotten, serviceVars
<1> QED
    BY <1>7, <1>8, <1>9 DEF EventInv

\* What the service reads.
LEMMA ServiceReads ==
    ASSUME TypeOK, NEW c \in Clients, ReadByService(c)
    PROVE  /\ up' \in [Clients -> Seq(Message)] /\ up' = [up EXCEPT ![c] = Tail(@)]
           /\ up[c] # <<>> /\ Head(up[c]) \in Message
           /\ inArch' \in [Ends -> SUBSET Class]
           /\ failed' \subseteq Clients \cup {"service"}
<1>1. up[c] # <<>> /\ up' = [up EXCEPT ![c] = Tail(@)]
    BY DEF ReadByService
<1>2. up[c] \in Seq(Message) /\ Tail(up[c]) \in Seq(Message) /\ Head(up[c]) \in Message
    BY <1>1 DEF TypeOK
<1>3. up' \in [Clients -> Seq(Message)]
    BY <1>1, <1>2 DEF TypeOK
<1>4. inArch[For(c)] \in SUBSET Class
    BY EndsOfClients DEF TypeOK
<1>5. Learnt(inArch[For(c)], Classes(Head(up[c]).parts)) \in SUBSET Class
    BY <1>2, <1>4, LearntType, ClassesType
<1>6. inArch' \in [Ends -> SUBSET Class]
    BY <1>5 DEF TypeOK, ReadByService
<1>7. failed' = failed \/ failed' = failed \cup {"service"}
    BY DEF ReadByService
<1>8. failed' \subseteq Clients \cup {"service"}
    BY <1>7 DEF TypeOK
<1> QED
    BY <1>1, <1>2, <1>3, <1>6, <1>8

LEMMA CallFunctionEvents ==
    ASSUME EventInv, NEW c \in Clients, CallFunction(c)
    PROVE  EventInv'
<1> DEFINE f == Head(up[c]).func
           msg == MessageOf(For(c), f, NoEvent, ResultParts)
<1>1. TypeOK /\ ReadByService(c) /\ f \in Funcs
    BY DEF EventInv, CallFunction
<1>2. /\ UNCHANGED <<format, kind, conn, offered, unheard, waiting, triggers>>
      /\ UNCHANGED serviceVars /\ UNCHANGED callVars
      /\ down' = [down EXCEPT ![c] = Append(@, msg)]
      /\ outArch' = [outArch EXCEPT ![For(c)] = Learnt(@, ResultParts)]
    BY DEF CallFunction
<1>3. /\ up' \in [Clients -> Seq(Message)] /\ up' = [up EXCEPT ![c] = Tail(@)]
      /\ up[c] # <<>>
      /\ inArch' \in [Ends -> SUBSET Class]
      /\ failed' \subseteq Clients \cup {"service"}
    BY <1>1, ServiceReads
<1> HIDE DEF f
<1>4. msg \in Message /\ msg.func # "broadcast_event"
    BY <1>1, MessageType, PartLists, ArchivesAssumption DEF MessageOf
<1> HIDE DEF msg
<1>5. outArch' \in [Ends -> SUBSET Class]
  <2>1. outArch[For(c)] \in SUBSET Class
    BY <1>1, EndsOfClients DEF TypeOK
  <2>2. Learnt(outArch[For(c)], ResultParts) \in SUBSET Class
    BY <2>1, LearntType, PartLists
  <2> QED
    BY <1>1, <1>2, <2>2 DEF TypeOK
<1>6. down' \in [Clients -> Seq(Message)]
    BY <1>1, <1>2, <1>4 DEF TypeOK
<1>7. TypeOK'
    BY <1>1, <1>2, <1>3, <1>5, <1>6 DEF TypeOK, serviceVars, callVars
<1>8. TriggersCounted'
  <2>1. PICK ticket, Q : /\ Tickets(up, ticket, Q, triggers)
                         /\ timerWaits + timerQueued <= Cardinality(Q)
    BY DEF EventInv, TriggersCounted
  <2>2. triggers \in Nat
    BY <1>1, ArchivesAssumption DEF TypeOK
  <2>3. PICK t2 : Tickets([up EXCEPT ![c] = Tail(@)], t2, Q, triggers)
    BY <1>1, <1>3, <2>1, <2>2, TicketsRead DEF TypeOK
  <2> QED
    BY <1>2, <1>3, <2>1, <2>3 DEF TriggersCounted, serviceVars
<1>9. TriggersOffered'
  <2>1. Values([up EXCEPT ![c] = Tail(@)], "trigger_single_broadcast", offered \cup {NoEvent})
    BY <1>1, <1>3, EventFacts, ValuesRead DEF TypeOK, TriggersOffered
  <2>2. Values(up', "trigger_single_broadcast", offered \cup {NoEvent})
    BY <1>3, <2>1
  <2> QED
    BY <1>2, <2>2, EventFacts DEF TriggersOffered, serviceVars
<1>10. EventsBroadcast'
  <2>1. Values([down EXCEPT ![c] = Append(@, msg)], "broadcast_event", offered)
    BY <1>1, <1>4, EventFacts, ValuesWritten DEF TypeOK
  <2>2. Values(down', "broadcast_event", offered')
    BY <1>2, <2>1
  <2> QED
    BY <1>2, <2>2, EventFacts
    DEF EventsBroadcast, OnlyTriggeredEvents, Values, NoEventForgotten, serviceVars
<1> QED
    BY <1>7, <1>8, <1>9, <1>10 DEF EventInv

LEMMA BroadcastEvents ==
    ASSUME EventInv, NEW c \in Clients, trigger_single_broadcast(c)
    PROVE  EventInv'
<1> DEFINE msg == Head(up[c])
<1>1. TypeOK /\ ReadByService(c) /\ Trigger(msg)
    BY DEF EventInv, trigger_single_broadcast, Trigger
<1>2. /\ UNCHANGED <<format, kind, conn, outArch, down, offered, triggers, timerQueued>>
      /\ UNCHANGED callVars
      /\ myEnabledEvent' = msg.value
      /\ timerWaits' = IF msg.value # NoEvent THEN 1 ELSE timerWaits
      /\ unheard' = (msg.value # NoEvent)
      /\ waiting' \subseteq waiting
    BY DEF trigger_single_broadcast, TimerArmed
<1>3. /\ up' \in [Clients -> Seq(Message)] /\ up' = [up EXCEPT ![c] = Tail(@)]
      /\ up[c] # <<>> /\ msg \in Message
      /\ inArch' \in [Ends -> SUBSET Class]
      /\ failed' \subseteq Clients \cup {"service"}
    BY <1>1, ServiceReads
<1>4. msg.value \in EventClass \cup {NoEvent}
    BY <1>3 DEF Message
<1>5. timerWaits \in 0..1 /\ timerWaits' \in 0..1 /\ waiting' \subseteq Clients
    BY <1>1, <1>2 DEF TypeOK
<1>6. TypeOK'
    BY <1>1, <1>2, <1>3, <1>4, <1>5 DEF TypeOK, callVars
<1>7. TriggersCounted'
  <2>1. PICK ticket, Q : /\ Tickets(up, ticket, Q, triggers)
                         /\ timerWaits + timerQueued <= Cardinality(Q)
    BY DEF EventInv, TriggersCounted
  <2>2. triggers \in Nat /\ timerQueued \in Nat
    BY <1>1, ArchivesAssumption DEF TypeOK
  <2>3. PICK t2, Q2 : /\ Tickets([up EXCEPT ![c] = Tail(@)], t2, Q2, triggers)
                      /\ OneMore(Q, Q2)
    <3>1. /\ up \in [Clients -> Seq(Message)] /\ up[c] # <<>> /\ Trigger(Head(up[c]))
          /\ Tickets(up, ticket, Q, triggers) /\ triggers \in Nat
      BY <1>1, <1>3, <2>1, <2>2 DEF TypeOK
    <3>2. Trigger(Head(up[c])) =>
             \E t2, Q2 : /\ Tickets([up EXCEPT ![c] = Tail(@)], t2, Q2, triggers)
                         /\ OneMore(Q, Q2)
      BY <3>1, TicketsRead
    <3> QED
      BY <3>1, <3>2
  <2>4. IsFiniteSet(Q)
    <3>1. Q \in SUBSET (1..triggers) /\ IsFiniteSet(1..triggers)
      BY <2>1, <2>2, FS_Interval DEF Tickets
    <3> QED
      BY <3>1, FS_Subset
  <2>5. Cardinality(Q) \in Nat
    BY <2>4, FS_CardinalityType
  <2>6. timerWaits' + timerQueued <= Cardinality(Q2)
    BY <1>5, <2>1, <2>2, <2>3, <2>5 DEF OneMore
  <2> QED
    BY <1>2, <1>3, <2>3, <2>6 DEF TriggersCounted
<1>8. TriggersOffered'
  <2>1. /\ Values([up EXCEPT ![c] = Tail(@)], "trigger_single_broadcast", offered \cup {NoEvent})
        /\ msg.value \in offered \cup {NoEvent}
    BY <1>1, <1>3, EventFacts, ValuesRead DEF TypeOK, TriggersOffered, Trigger
  <2>2. Values(up', "trigger_single_broadcast", offered \cup {NoEvent})
    BY <1>3, <2>1
  <2> QED
    BY <1>2, <2>1, <2>2 DEF TriggersOffered
<1>9. EventsBroadcast'
  <2>1. NoEventForgotten'
    <3>1. timerQueued \in Nat
      BY <1>1, ArchivesAssumption DEF TypeOK
    <3>2. unheard' => timerWaits' = 1
      BY <1>2
    <3>3. timerWaits' = 1 => timerWaits' + timerQueued' > 0
      BY <1>2, <3>1
    <3> QED
      BY <3>2, <3>3 DEF NoEventForgotten
  <2> QED
    BY <1>2, <2>1 DEF EventInv, EventsBroadcast, OnlyTriggeredEvents
<1> QED
    BY <1>6, <1>7, <1>8, <1>9 DEF EventInv

LEMMA ExpiresEvents ==
    ASSUME EventInv, TimerExpires
    PROVE  EventInv'
<1>1. TypeOK
    BY DEF EventInv
<1>2. /\ UNCHANGED <<format, kind, conn, up, down, offered, unheard, waiting, triggers,
                      myEnabledEvent, failed>>
      /\ UNCHANGED archiveVars /\ UNCHANGED callVars
      /\ timerWaits' = 0 /\ timerQueued' = timerQueued + timerWaits
    BY DEF TimerExpires
<1>3. /\ triggers \in 0..MaxTriggers /\ timerWaits \in Nat /\ timerQueued \in Nat
      /\ MaxTriggers \in Nat
    BY <1>1, ArchivesAssumption DEF TypeOK
<1>4. PICK ticket, Q : /\ Tickets(up, ticket, Q, triggers)
                       /\ timerWaits + timerQueued <= Cardinality(Q)
    BY DEF EventInv, TriggersCounted
<1>5. timerWaits' \in 0..1 /\ timerQueued' \in Nat /\ timerWaits' + timerQueued' = timerWaits + timerQueued
    BY <1>2, <1>3
<1>6. 0 + (timerWaits + timerQueued) <= Cardinality(Q) /\ timerWaits + timerQueued \in Nat
    BY <1>3, <1>4
<1>7. timerWaits + timerQueued \in 0..MaxTriggers
    BY <1>3, <1>4, <1>6, QueuedBound
<1>8. timerQueued' \in 0..MaxTriggers
    BY <1>2, <1>3, <1>7
<1>9. TypeOK'
    BY <1>1, <1>2, <1>5, <1>8 DEF TypeOK, archiveVars, callVars
<1>10. TriggersCounted'
    BY <1>2, <1>4, <1>5 DEF TriggersCounted
<1>11. TriggersOffered'
    BY <1>2 DEF EventInv, TriggersOffered, Values
<1>12. EventsBroadcast'
    BY <1>2, <1>5 DEF EventInv, EventsBroadcast, OnlyTriggeredEvents, NoEventForgotten
<1> QED
    BY <1>9, <1>10, <1>11, <1>12 DEF EventInv

\* tickTimer makes the event in its own class again.
LEMMA RecastSame == \A ev \in EventClass : Recast(ev) = ev
BY DEF Recast, get_as, EventClass

LEMMA TickEvents ==
    ASSUME EventInv, tickTimer
    PROVE  EventInv'
<1> DEFINE ev == IF kind = "poly" THEN Recast(myEnabledEvent) ELSE myEnabledEvent
           to == IF myEnabledEvent = NoEvent THEN {} ELSE {c \in Clients : conn[c] = "up"}
           Msg(c) == MessageOf(For(c), "broadcast_event", ev, EventParts(ev))
<1>1. TypeOK
    BY DEF EventInv
<1>2. /\ UNCHANGED <<format, kind, conn, inArch, up, offered, waiting, triggers,
                      myEnabledEvent, timerWaits, failed>>
      /\ UNCHANGED callVars /\ unheard' = FALSE
      /\ timerQueued > 0 /\ timerQueued' = timerQueued - 1
    BY DEF tickTimer
<1>3. down' = [c \in Clients |-> IF c \notin to THEN down[c] ELSE Append(down[c], Msg(c))]
    BY DEF tickTimer
<1>4. outArch' = [e \in Ends |-> IF e \in {For(c) : c \in to}
                                 THEN Learnt(outArch[e], EventParts(ev)) ELSE outArch[e]]
    BY DEF tickTimer
<1>6. ASSUME NEW c \in to
      PROVE  c \in Clients /\ myEnabledEvent \in EventClass /\ ev = myEnabledEvent
  <2>1. c \in Clients /\ myEnabledEvent \in EventClass
    BY <1>1 DEF TypeOK
  <2> QED
    BY <2>1, RecastSame
<1> HIDE DEF to
<1>7. ASSUME NEW c \in to
      PROVE  /\ c \in Clients /\ Msg(c) \in Message
             /\ Msg(c).func = "broadcast_event" /\ Msg(c).value = myEnabledEvent
             /\ myEnabledEvent \in EventClass
             /\ EventParts(ev) \in Seq(Class)
  <2>1. c \in Clients /\ ev \in EventClass /\ ev = myEnabledEvent
    BY <1>6
  <2>2. EventParts(ev) \in Seq(Class)
    BY <2>1, PartLists
  <2> HIDE DEF ev
  <2>3. Msg(c) \in Message
    BY <2>1, <2>2, MessageType DEF MessageOf
  <2>4. Msg(c).func = "broadcast_event" /\ Msg(c).value = ev
    BY DEF MessageOf
  <2> QED
    BY <1>6, <2>1, <2>2, <2>3, <2>4
<1> HIDE DEF ev, Msg
<1>8. outArch' \in [Ends -> SUBSET Class]
  <2>1. ASSUME NEW e \in Ends, e \in {For(c) : c \in to}
        PROVE  Learnt(outArch[e], EventParts(ev)) \in SUBSET Class
    <3>1. outArch[e] \in SUBSET Class
      BY <1>1 DEF TypeOK
    <3>2. EventParts(ev) \in Seq(Class)
      BY <1>7, <2>1
    <3> QED
      BY <3>1, <3>2, LearntType
  <2> QED
    BY <1>1, <1>4, <2>1 DEF TypeOK
<1>9. down' \in [Clients -> Seq(Message)]
  <2>1. down \in [Clients -> Seq(Message)]
    BY <1>1 DEF TypeOK
  <2>2. \A c \in to : Append(down[c], Msg(c)) \in Seq(Message)
    BY <1>7, <2>1
  <2> QED
    BY <1>3, <2>1, <2>2
<1>10. timerQueued \in 0..MaxTriggers /\ timerQueued' \in 0..MaxTriggers /\ MaxTriggers \in Nat
       /\ timerWaits \in 0..1
  <2>1. timerQueued \in 0..MaxTriggers /\ MaxTriggers \in Nat /\ timerWaits \in 0..1
    BY <1>1, ArchivesAssumption DEF TypeOK
  <2> QED
    BY <1>2, <2>1
<1>11. TypeOK'
    BY <1>1, <1>2, <1>8, <1>9, <1>10 DEF TypeOK, callVars
<1>12. TriggersCounted'
  <2>1. PICK ticket, Q : /\ Tickets(up, ticket, Q, triggers)
                         /\ timerWaits + timerQueued <= Cardinality(Q)
    BY DEF EventInv, TriggersCounted
  <2>2. triggers \in Nat
    BY <1>1, ArchivesAssumption DEF TypeOK
  <2>3. IsFiniteSet(Q)
    <3>1. Q \in SUBSET (1..triggers) /\ IsFiniteSet(1..triggers)
      BY <2>1, <2>2, FS_Interval DEF Tickets
    <3> QED
      BY <3>1, FS_Subset
  <2>4. Cardinality(Q) \in Nat
    BY <2>3, FS_CardinalityType
  <2>5. timerWaits' + timerQueued' <= Cardinality(Q)
    BY <1>2, <1>10, <2>1, <2>4
  <2> QED
    BY <1>2, <2>1, <2>5 DEF TriggersCounted
<1>13. TriggersOffered'
    BY <1>2 DEF EventInv, TriggersOffered, Values
<1>14. Values(down', "broadcast_event", offered)
  <2> SUFFICES ASSUME NEW c \in Clients, NEW i \in DOMAIN down'[c],
                      down'[c][i].func = "broadcast_event"
               PROVE  down'[c][i].value \in offered
    BY DEF Values
  <2>1. Values(down, "broadcast_event", offered) /\ down[c] \in Seq(Message)
    BY <1>1, EventFacts DEF TypeOK
  <2>2. CASE c \in to
    <3>1. Msg(c) \in Message /\ Msg(c).value \in offered
      BY <1>7, <2>2, EventFacts DEF TriggersOffered, EventClass, NoEvent
    <3>2. down'[c] = Append(down[c], Msg(c))
      BY <1>3, <2>2
    <3>3. down'[c][i] = Msg(c) \/ (i \in DOMAIN down[c] /\ down'[c][i] = down[c][i])
      BY <2>1, <3>1, <3>2
    <3> QED
      BY <2>1, <3>1, <3>3 DEF Values
  <2>3. CASE c \notin to
    <3>1. down'[c] = down[c]
      BY <1>3, <2>3
    <3> QED
      BY <2>1, <3>1 DEF Values
  <2> QED
    BY <2>2, <2>3
<1>15. EventsBroadcast'
    BY <1>2, <1>14 DEF EventsBroadcast, OnlyTriggeredEvents, Values, NoEventForgotten
<1> QED
    BY <1>11, <1>12, <1>13, <1>15 DEF EventInv

\* Every step.
LEMMA NextEvents ==
    ASSUME EventInv, [Next]_vars
    PROVE  EventInv'
<1>1. CASE UNCHANGED vars
  <2>1. UNCHANGED <<format, kind, conn, up, down, offered, unheard, waiting, triggers, failed>>
        /\ UNCHANGED archiveVars /\ UNCHANGED callVars /\ UNCHANGED serviceVars
    BY <1>1 DEF vars
  <2>2. TypeOK'
    BY <2>1 DEF EventInv, TypeOK, archiveVars, callVars, serviceVars
  <2>3. TriggersCounted' /\ TriggersOffered'
    BY <2>1 DEF EventInv, TriggersCounted, TriggersOffered, Values, serviceVars
  <2>4. EventsBroadcast'
    BY <2>1 DEF EventInv, EventsBroadcast, OnlyTriggeredEvents, NoEventForgotten, serviceVars
  <2> QED
    BY <2>2, <2>3, <2>4 DEF EventInv
<1>2. CASE Next
    BY <1>2, ConnectEvents, BreakEvents, ResultEvents, EventEvents, ErrorEvents,
       CallFunctionEvents, BroadcastEvents, CallEvents, TriggerEvents, ExpiresEvents,
       TickEvents DEF Next, Receives, Serves
<1> QED
    BY <1>1, <1>2

(***************************************************************************)
(* The timer waits, and handlers of tickTimer are queued, at most once for *)
(* every call of trigger_single_broadcast that was read; the calls under   *)
(* way, the enabled event and the events under way are ones that clients   *)
(* triggered; and an enabled event not broadcast yet has a wait or handler.*)
(***************************************************************************)
THEOREM EventsInvariant == Spec => []EventInv
<1>1. Init => EventInv
    BY InitEvents
<1>2. EventInv /\ [Next]_vars => EventInv'
    BY NextEvents
<1> QED
    BY <1>1, <1>2, PTL DEF Spec

\* The variables keep their types: no client queues more calls than
\* MaxCallsInProgress allows, and no wait on myEventTimer is started beside
\* another one.
THEOREM TypeCorrect == Spec => []TypeOK
<1>1. EventInv => TypeOK
    BY DEF EventInv
<1> QED
    BY <1>1, EventsInvariant, PTL

\* A client gets only events that a client triggered, in the class in which it was
\* triggered, and an enabled event that was not broadcast yet is never without a
\* wait on myEventTimer or a queued handler that broadcasts it.
THEOREM EventsCorrect == Spec => []EventsBroadcast
<1>1. EventInv => EventsBroadcast
    BY DEF EventInv
<1> QED
    BY <1>1, EventsInvariant, PTL

------------------------------------------------------------------------------
(***************************************************************************)
(* Messages and the archives that read them.                               *)
(***************************************************************************)

\* The adapters that serve an interface: the archives of boost::Binary cannot
\* read the error of a broken connection, and with a reusable archive the
\* parameter of a queued call must not be polymorphic (the run polyqueue).
Sound == \/ format \in {"cereal::Json", "boost::Text"}
         \/ format = "cereal::Binary" /\ PolyFuncs = {}

\* Describes, for the sound adapters.
Described(fm, x) == fm = "boost::Text" \/ x \in EventClass

\* The classes in m that have no description, and those that a reusable archive
\* learns from m.
Bare(fm, m) == {x \in Class : /\ Described(fm, x)
                              /\ \E k \in DOMAIN m.parts : m.parts[k].class = x /\ ~m.parts[k].described}
Named(fm, m) == IF fm = "cereal::Binary"
                THEN {x \in EventClass : \E k \in DOMAIN m.parts : m.parts[k].class = x}
                ELSE {}

\* A class without description in s is known to the reader, or named in an
\* earlier message.
Ordered(fm, known, s) ==
    \A i \in DOMAIN s : \A x \in Bare(fm, s[i]) :
        x \in known \/ \E j \in DOMAIN s : j < i /\ x \in Named(fm, s[j])

\* What the writer will not describe again, the reader knows or will learn.
Covered(fm, out, known, s) ==
    \A x \in out : x \in known \/ \E j \in DOMAIN s : x \in Named(fm, s[j])

Flow(fm, out, known, s) == Ordered(fm, known, s) /\ Covered(fm, out, known, s)

LEMMA FlowEmpty ==
    ASSUME NEW fm, NEW known PROVE Flow(fm, {}, known, <<>>)
BY DEF Flow, Ordered, Covered

\* The message m is written.
LEMMA FlowWrite ==
    ASSUME NEW fm, NEW out, NEW known, NEW s \in Seq(Message), Flow(fm, out, known, s),
           NEW m \in Message, Bare(fm, m) \subseteq out
    PROVE  Flow(fm, out \cup Named(fm, m), known, Append(s, m))
<1> DEFINE s2 == Append(s, m)
<1>1. /\ Len(s) \in Nat /\ DOMAIN s = 1..Len(s) /\ DOMAIN s2 = 1..(Len(s) + 1)
      /\ \A i \in 1..Len(s) : s2[i] = s[i]
      /\ s2[Len(s) + 1] = m
    OBVIOUS
<1> HIDE DEF s2
<1>2. \A i \in DOMAIN s : i \in DOMAIN s2 /\ s2[i] = s[i]
    BY <1>1
<1>3. ASSUME NEW i \in DOMAIN s2, NEW x \in Bare(fm, s2[i])
      PROVE  x \in known \/ \E j \in DOMAIN s2 : j < i /\ x \in Named(fm, s2[j])
  <2>1. CASE i \in DOMAIN s
    <3>1. x \in known \/ \E j \in DOMAIN s : j < i /\ x \in Named(fm, s[j])
      BY <1>2, <1>3, <2>1 DEF Flow, Ordered
    <3> QED
      BY <1>2, <3>1
  <2>2. CASE i = Len(s) + 1
    <3>1. x \in known \/ \E j \in DOMAIN s : x \in Named(fm, s[j])
      BY <1>1, <1>3, <2>2 DEF Flow, Covered
    <3>2. \A j \in DOMAIN s : j < i
      BY <1>1, <2>2
    <3> QED
      BY <1>2, <3>1, <3>2
  <2> QED
    BY <1>1, <2>1, <2>2
<1>4. ASSUME NEW x \in out \cup Named(fm, m)
      PROVE  x \in known \/ \E j \in DOMAIN s2 : x \in Named(fm, s2[j])
  <2>1. CASE x \in Named(fm, m)
    <3>1. Len(s) + 1 \in DOMAIN s2
      BY <1>1
    <3> QED
      BY <1>1, <2>1, <3>1
  <2>2. CASE x \in out
    <3>1. x \in known \/ \E j \in DOMAIN s : x \in Named(fm, s[j])
      BY <2>2 DEF Flow, Covered
    <3> QED
      BY <1>2, <3>1
  <2> QED
    BY <2>1, <2>2
<1> QED
    BY <1>3, <1>4 DEF Flow, Ordered, Covered, s2

\* The first message of s is read.
LEMMA OrderedRead ==
    ASSUME NEW fm, NEW known, NEW s \in Seq(Message), Ordered(fm, known, s), s # <<>>
    PROVE  /\ Bare(fm, Head(s)) \subseteq known
           /\ Ordered(fm, known \cup Named(fm, Head(s)), Tail(s))
<1> DEFINE s2 == Tail(s)
<1>1. /\ Len(s) \in Nat /\ Len(s) > 0 /\ DOMAIN s = 1..Len(s) /\ DOMAIN s2 = 1..(Len(s) - 1)
      /\ \A i \in 1..(Len(s) - 1) : s2[i] = s[i + 1]
      /\ s[1] = Head(s)
    OBVIOUS
<1> HIDE DEF s2
<1>2. ASSUME NEW x \in Bare(fm, Head(s))
      PROVE  x \in known
  <2>1. 1 \in DOMAIN s /\ \A j \in DOMAIN s : ~(j < 1)
    BY <1>1
  <2> QED
    BY <1>1, <1>2, <2>1 DEF Ordered
<1>3. ASSUME NEW i \in DOMAIN s2, NEW x \in Bare(fm, s2[i])
      PROVE  x \in known \cup Named(fm, Head(s)) \/ \E j \in DOMAIN s2 : j < i /\ x \in Named(fm, s2[j])
  <2>1. i + 1 \in DOMAIN s /\ s2[i] = s[i + 1] /\ i \in Nat
    BY <1>1
  <2>2. x \in known \/ \E j \in DOMAIN s : j < i + 1 /\ x \in Named(fm, s[j])
    BY <1>3, <2>1 DEF Ordered
  <2>3. ASSUME NEW j \in DOMAIN s, j < i + 1, x \in Named(fm, s[j]), j # 1
        PROVE  j - 1 \in DOMAIN s2 /\ j - 1 < i /\ s2[j - 1] = s[j]
    <3>1. j - 1 \in 1..(Len(s) - 1) /\ (j - 1) + 1 = j
      BY <1>1, <2>3
    <3>2. j - 1 < i
      BY <1>1, <2>1, <2>3
    <3> QED
      BY <1>1, <3>1, <3>2
  <2> QED
    BY <1>1, <2>2, <2>3
<1> QED
    BY <1>2, <1>3 DEF Ordered, s2

LEMMA FlowRead ==
    ASSUME NEW fm, NEW out, NEW known, NEW s \in Seq(Message), Flow(fm, out, known, s), s # <<>>
    PROVE  /\ Bare(fm, Head(s)) \subseteq known
           /\ Flow(fm, out, known \cup Named(fm, Head(s)), Tail(s))
<1> DEFINE s2 == Tail(s)
<1>1. /\ Len(s) \in Nat /\ Len(s) > 0 /\ DOMAIN s = 1..Len(s) /\ DOMAIN s2 = 1..(Len(s) - 1)
      /\ \A i \in 1..(Len(s) - 1) : s2[i] = s[i + 1]
      /\ s[1] = Head(s)
    OBVIOUS
<1>2. /\ Bare(fm, Head(s)) \subseteq known
      /\ Ordered(fm, known \cup Named(fm, Head(s)), s2)
    BY OrderedRead DEF Flow
<1> HIDE DEF s2
<1>3. ASSUME NEW x \in out
      PROVE  x \in known \cup Named(fm, Head(s)) \/ \E j \in DOMAIN s2 : x \in Named(fm, s2[j])
  <2>1. x \in known \/ \E j \in DOMAIN s : x \in Named(fm, s[j])
    BY DEF Flow, Covered
  <2>2. ASSUME NEW j \in DOMAIN s, j # 1
        PROVE  j - 1 \in DOMAIN s2 /\ s2[j - 1] = s[j]
    <3>1. j - 1 \in 1..(Len(s) - 1) /\ (j - 1) + 1 = j
      BY <1>1, <2>2
    <3> QED
      BY <1>1, <3>1
  <2> QED
    BY <1>1, <2>1, <2>2
<1> QED
    BY <1>2, <1>3 DEF Flow, Covered, s2

------------------------------------------------------------------------------
(***************************************************************************)
(* The second invariant: what is on the way can be read.                   *)
(***************************************************************************)

\* Without reuse an archive knows nothing when it meets a message.
Fresh(fm, known) == fm # "cereal::Binary" => known = {}

\* A result names no class, and a queued call neither names nor lacks one.
PlainResult(fm, m) == m.func \in Funcs => Named(fm, m) = {}
PlainCall(fm, m) == Named(fm, m) = {} /\ Bare(fm, m) = {}

\* What holds of a client and its connection: once the connection is broken
\* nothing is written on it, and the client reads what it has received.
Kept(fm, state, clientOut, serviceIn, serviceOut, clientIn, u, d, queue) ==
    /\ Fresh(fm, clientOut) /\ Fresh(fm, serviceIn)
    /\ Fresh(fm, serviceOut) /\ Fresh(fm, clientIn)
    /\ \A i \in DOMAIN d : PlainResult(fm, d[i])
    /\ \A f \in Funcs : \A i \in DOMAIN queue[f] : PlainCall(fm, queue[f][i])
    /\ state \in {"no", "up"} => /\ Flow(fm, clientOut, serviceIn, u)
                                 /\ Flow(fm, serviceOut, clientIn, d)
    /\ state \notin {"no", "up"} => u = <<>> /\ Ordered(fm, clientIn, d)

\* What holds of client c in the state.
KeptOf(c) == Kept(format, conn[c], outArch[At(c)], inArch[For(c)], outArch[For(c)], inArch[At(c)],
                  up[c], down[c], myCallQueue[c])

(***************************************************************************)
(* A class that an output archive will not describe again is known at the  *)
(* other end, or is named in a message on the way there, and the messages  *)
(* on the way name a class before they rely on it; no call waits in a      *)
(* queue with a class that later messages rely on.  So every message can   *)
(* be read.                                                                *)
(***************************************************************************)
ReadInv ==
    /\ Sound
    /\ \A c \in Clients : KeptOf(c)
    /\ failed = {}

\* The sound adapters.
LEMMA SoundAdapters ==
    ASSUME Sound
    PROVE  /\ REUSABLE_ARCHIVE <=> format = "cereal::Binary"
           /\ \A x : Describes(x) <=> Described(format, x)
           /\ format \in {"cereal::Binary", "cereal::Json"} \/ format = "boost::Text"
BY DEF Sound, REUSABLE_ARCHIVE, Describes, Described

\* What an archive that meets `classes` learns.
LEMMA Learns ==
    ASSUME Sound, NEW known, Fresh(format, known), NEW classes \in Seq(Class)
    PROVE  Learnt(known, classes) =
               known \cup (IF format = "cereal::Binary"
                          THEN {x \in EventClass : \E k \in DOMAIN classes : classes[k] = x}
                          ELSE {})
<1>1. CASE format = "cereal::Binary"
  <2>1. \A x : Describes(x) <=> x \in EventClass
    BY <1>1, SoundAdapters DEF Described
  <2>2. {x \in Range(classes) : Describes(x)} =
            {x \in EventClass : \E k \in DOMAIN classes : classes[k] = x}
    BY <2>1 DEF Range
  <2> QED
    BY <1>1, <2>2, SoundAdapters DEF Learnt
<1>2. CASE format # "cereal::Binary"
  <2>1. known = {}
    BY <1>2 DEF Fresh
  <2> QED
    BY <1>2, <2>1, SoundAdapters DEF Learnt
<1> QED
    BY <1>1, <1>2

\* What is written lacks only descriptions that were written before.
LEMMA WrittenMessage ==
    ASSUME Sound, NEW out, Fresh(format, out), NEW classes \in Seq(Class),
           NEW func, NEW value, NEW m,
           m = [func |-> func, value |-> value, parts |-> Serialized(out, classes)]
    PROVE  /\ Bare(format, m) \subseteq out
           /\ Learnt(out, classes) = out \cup Named(format, m)
           /\ (\A k \in DOMAIN classes : classes[k] \notin EventClass) => Named(format, m) = {}
<1>1. m.parts = Serialized(out, classes)
    OBVIOUS
<1>2. DOMAIN m.parts = DOMAIN classes
    BY <1>1 DEF Serialized
<1>3. \A k \in DOMAIN classes :
         /\ m.parts[k].class = classes[k]
         /\ m.parts[k].described <=> (Describes(classes[k]) /\ classes[k] \notin out)
    BY <1>1 DEF Serialized
<1>4. Bare(format, m) \subseteq out
    BY <1>2, <1>3, SoundAdapters DEF Bare
<1>5. Named(format, m) = IF format = "cereal::Binary"
                         THEN {x \in EventClass : \E k \in DOMAIN classes : classes[k] = x}
                         ELSE {}
  <2>1. \A x : (\E k \in DOMAIN m.parts : m.parts[k].class = x)
                   <=> \E k \in DOMAIN classes : classes[k] = x
    BY <1>2, <1>3
  <2> QED
    BY <2>1 DEF Named
<1>6. Learnt(out, classes) = out \cup Named(format, m)
    BY <1>5, Learns
<1> QED
    BY <1>4, <1>5, <1>6

\* What is read when the reader knows the classes without description.
LEMMA ReadMessage ==
    ASSUME Sound, NEW known, Fresh(format, known), NEW m \in Message,
           Bare(format, m) \subseteq known
    PROVE  /\ \A classes : Readable(known, m.parts, classes)
           /\ Learnt(known, Classes(m.parts)) = known \cup Named(format, m)
<1>1. PICK s \in Seq(Part) : s = m.parts
    BY DEF Message
<1>2. \A p \in Part : p.class \in Class /\ p.described \in BOOLEAN
    BY DEF Part
<1>3. \A i \in DOMAIN s : s[i] \in Part
    OBVIOUS
<1>4. \A i \in DOMAIN s : Described(format, s[i].class) => s[i].described \/ s[i].class \in known
    BY <1>1, <1>2, <1>3 DEF Bare
<1>5. ASSUME NEW classes
      PROVE  Readable(known, s, classes)
  <2>1. CASE format \in {"cereal::Binary", "cereal::Json"}
    BY <1>4, <2>1, SoundAdapters DEF Readable
  <2>2. CASE format = "boost::Text"
    <3>1. known = {}
      BY <2>2 DEF Fresh
    <3>2. \A i \in DOMAIN s : s[i].described
      BY <1>4, <2>2, <3>1 DEF Described
    <3> QED
      BY <2>2, <3>1, <3>2 DEF Readable
  <2> QED
    BY <2>1, <2>2, SoundAdapters
<1>6. Classes(s) \in Seq(Class) /\ DOMAIN Classes(s) = DOMAIN s
      /\ \A k \in DOMAIN s : Classes(s)[k] = s[k].class
    BY <1>1, ClassesType DEF Classes
<1>7. Named(format, m) = IF format = "cereal::Binary"
                         THEN {x \in EventClass : \E k \in DOMAIN Classes(s) : Classes(s)[k] = x}
                         ELSE {}
    BY <1>1, <1>6 DEF Named
<1>8. Learnt(known, Classes(s)) = known \cup Named(format, m)
    BY <1>6, <1>7, Learns
<1> QED
    BY <1>1, <1>5, <1>8

\* No archive learns from a result or an error.
LEMMA LearnsNoResult ==
    ASSUME Sound, NEW known, Fresh(format, known)
    PROVE  Learnt(known, ResultParts) = known /\ Learnt(known, ErrorParts) = known
<1>1. /\ ResultParts \in Seq(Class) /\ ErrorParts \in Seq(Class)
      /\ \A k \in DOMAIN ResultParts : ResultParts[k] \notin EventClass
      /\ \A k \in DOMAIN ErrorParts : ErrorParts[k] \notin EventClass
    BY PartLists DEF ResultParts, ErrorParts, EventClass
<1>2. ASSUME NEW classes \in Seq(Class), \A k \in DOMAIN classes : classes[k] \notin EventClass
      PROVE  Learnt(known, classes) = known
  <2>1. {x \in EventClass : \E k \in DOMAIN classes : classes[k] = x} = {}
    BY <1>2
  <2>2. Learnt(known, classes) =
            known \cup (IF format = "cereal::Binary"
                       THEN {x \in EventClass : \E k \in DOMAIN classes : classes[k] = x}
                       ELSE {})
    BY <1>2, Learns
  <2>3. Learnt(known, classes) = known \cup {}
    BY <2>1, <2>2
  <2> QED
    BY <2>3
<1> QED
    BY <1>1, <1>2

LEMMA NamedFresh ==
    ASSUME NEW fm, NEW known, Fresh(fm, known), NEW m
    PROVE  Fresh(fm, known \cup Named(fm, m))
BY DEF Fresh, Named

\* The client writes m.
LEMMA KeptClientWrites ==
    ASSUME NEW fm, NEW state \in {"no", "up"}, NEW co, NEW si, NEW so, NEW ci,
           NEW u \in Seq(Message), NEW d, NEW q,
           Kept(fm, state, co, si, so, ci, u, d, q), NEW m \in Message, Bare(fm, m) \subseteq co
    PROVE  Kept(fm, state, co \cup Named(fm, m), si, so, ci, Append(u, m), d, q)
<1>1. Flow(fm, co \cup Named(fm, m), si, Append(u, m))
    BY FlowWrite DEF Kept
<1>2. Fresh(fm, co \cup Named(fm, m))
    BY NamedFresh DEF Kept
<1> QED
    BY <1>1, <1>2 DEF Kept

\* The service writes m.
LEMMA KeptServiceWrites ==
    ASSUME NEW fm, NEW state \in {"no", "up"}, NEW co, NEW si, NEW so, NEW ci,
           NEW u, NEW d \in Seq(Message), NEW q,
           Kept(fm, state, co, si, so, ci, u, d, q), NEW m \in Message, Bare(fm, m) \subseteq so,
           PlainResult(fm, m)
    PROVE  Kept(fm, state, co, si, so \cup Named(fm, m), ci, u, Append(d, m), q)
<1>1. Flow(fm, so \cup Named(fm, m), ci, Append(d, m))
    BY FlowWrite DEF Kept
<1>2. Fresh(fm, so \cup Named(fm, m))
    BY NamedFresh DEF Kept
<1>3. ASSUME NEW i \in DOMAIN Append(d, m)
      PROVE  PlainResult(fm, Append(d, m)[i])
  <2>1. /\ i = Len(d) + 1 \/ i \in DOMAIN d
        /\ Append(d, m)[Len(d) + 1] = m
        /\ \A j \in DOMAIN d : Append(d, m)[j] = d[j]
    OBVIOUS
  <2> QED
    BY <2>1 DEF Kept
<1> QED
    BY <1>1, <1>2, <1>3 DEF Kept

\* The service reads.
LEMMA KeptServiceReads ==
    ASSUME NEW fm, NEW state, NEW co, NEW si, NEW so, NEW ci,
           NEW u \in Seq(Message), NEW d, NEW q,
           Kept(fm, state, co, si, so, ci, u, d, q), u # <<>>
    PROVE  /\ state \in {"no", "up"} /\ Bare(fm, Head(u)) \subseteq si
           /\ Kept(fm, state, co, si \cup Named(fm, Head(u)), so, ci, Tail(u), d, q)
<1>1. state \in {"no", "up"}
    BY DEF Kept
<1>2. /\ Bare(fm, Head(u)) \subseteq si
      /\ Flow(fm, co, si \cup Named(fm, Head(u)), Tail(u))
    BY <1>1, FlowRead DEF Kept
<1>3. Fresh(fm, si \cup Named(fm, Head(u)))
    BY NamedFresh DEF Kept
<1> QED
    BY <1>1, <1>2, <1>3 DEF Kept

\* The client reads.
LEMMA KeptClientReads ==
    ASSUME NEW fm, NEW state, NEW co, NEW si, NEW so, NEW ci,
           NEW u, NEW d \in Seq(Message), NEW q,
           Kept(fm, state, co, si, so, ci, u, d, q), d # <<>>
    PROVE  /\ Bare(fm, Head(d)) \subseteq ci
           /\ Head(d).func \in Funcs => Named(fm, Head(d)) = {}
           /\ Kept(fm, state, co, si, so, ci \cup Named(fm, Head(d)), u, Tail(d), q)
<1>1. Fresh(fm, ci \cup Named(fm, Head(d)))
    BY NamedFresh DEF Kept
<1>2. /\ 1 \in DOMAIN d /\ Head(d) = d[1]
      /\ \A i \in DOMAIN Tail(d) : i + 1 \in DOMAIN d /\ Tail(d)[i] = d[i + 1]
    OBVIOUS
<1>3. Head(d).func \in Funcs => Named(fm, Head(d)) = {}
    BY <1>2 DEF Kept, PlainResult
<1>4. \A i \in DOMAIN Tail(d) : PlainResult(fm, Tail(d)[i])
    BY <1>2 DEF Kept
<1>5. CASE state \in {"no", "up"}
  <2>1. /\ Bare(fm, Head(d)) \subseteq ci
        /\ Flow(fm, so, ci \cup Named(fm, Head(d)), Tail(d))
    BY <1>5, FlowRead DEF Kept
  <2> QED
    BY <1>1, <1>3, <1>4, <1>5, <2>1 DEF Kept
<1>6. CASE state \notin {"no", "up"}
  <2>1. /\ Bare(fm, Head(d)) \subseteq ci
        /\ Ordered(fm, ci \cup Named(fm, Head(d)), Tail(d))
    BY <1>6, OrderedRead DEF Kept
  <2> QED
    BY <1>1, <1>3, <1>4, <1>6, <2>1 DEF Kept
<1> QED
    BY <1>5, <1>6

\* A call is queued.
LEMMA KeptQueued ==
    ASSUME NEW fm, NEW state, NEW co, NEW si, NEW so, NEW ci, NEW u, NEW d,
           NEW q \in [Funcs -> Seq(Call)],
           Kept(fm, state, co, si, so, ci, u, d, q), NEW f \in Funcs,
           NEW m \in Call, PlainCall(fm, m)
    PROVE  Kept(fm, state, co, si, so, ci, u, d, [q EXCEPT ![f] = Append(@, m)])
<1> DEFINE q2 == [q EXCEPT ![f] = Append(@, m)]
<1>1. ASSUME NEW g \in Funcs, NEW i \in DOMAIN q2[g]
      PROVE  PlainCall(fm, q2[g][i])
  <2>1. CASE g # f
    <3>1. q2[g] = q[g]
      BY <2>1
    <3> QED
      BY <1>1, <3>1 DEF Kept
  <2>2. CASE g = f
    <3>1. q2[g] = Append(q[f], m) /\ q[f] \in Seq(Call)
      BY <2>2
    <3>2. /\ i = Len(q[f]) + 1 \/ i \in DOMAIN q[f]
          /\ q2[g][Len(q[f]) + 1] = m
          /\ \A j \in DOMAIN q[f] : q2[g][j] = q[f][j]
      BY <1>1, <3>1
    <3> QED
      BY <3>2 DEF Kept
  <2> QED
    BY <2>1, <2>2
<1> HIDE DEF q2
<1>2. Kept(fm, state, co, si, so, ci, u, d, q2)
    BY <1>1 DEF Kept
<1> QED
    BY <1>2 DEF q2

\* The first call of a queue is taken from it.
LEMMA KeptTaken ==
    ASSUME NEW fm, NEW state, NEW co, NEW si, NEW so, NEW ci, NEW u, NEW d,
           NEW q \in [Funcs -> Seq(Call)],
           Kept(fm, state, co, si, so, ci, u, d, q), NEW f \in Funcs, q[f] # <<>>
    PROVE  /\ PlainCall(fm, Head(q[f]))
           /\ Kept(fm, state, co, si, so, ci, u, d, [q EXCEPT ![f] = Tail(@)])
<1> DEFINE q2 == [q EXCEPT ![f] = Tail(@)]
<1>1. /\ q[f] \in Seq(Call) /\ 1 \in DOMAIN q[f] /\ Head(q[f]) = q[f][1]
      /\ \A i \in DOMAIN Tail(q[f]) : i + 1 \in DOMAIN q[f] /\ Tail(q[f])[i] = q[f][i + 1]
    OBVIOUS
<1>2. PlainCall(fm, Head(q[f]))
    BY <1>1 DEF Kept
<1>3. ASSUME NEW g \in Funcs, NEW i \in DOMAIN q2[g]
      PROVE  PlainCall(fm, q2[g][i])
  <2>1. CASE g # f
    <3>1. q2[g] = q[g]
      BY <2>1
    <3> QED
      BY <1>3, <3>1 DEF Kept
  <2>2. CASE g = f
    <3>1. q2[g] = Tail(q[f])
      BY <2>2
    <3> QED
      BY <1>1, <1>3, <3>1 DEF Kept
  <2> QED
    BY <2>1, <2>2
<1> HIDE DEF q2
<1>4. Kept(fm, state, co, si, so, ci, u, d, q2)
    BY <1>3 DEF Kept
<1> QED
    BY <1>2, <1>4 DEF q2

\* The connection breaks.
LEMMA KeptBroken ==
    ASSUME NEW fm, NEW co, NEW si, NEW so, NEW ci, NEW u, NEW d, NEW q,
           Kept(fm, "up", co, si, so, ci, u, d, q)
    PROVE  /\ Kept(fm, "broken", co, si, so, ci, <<>>, d, q)
           /\ Kept(fm, "broken", co, si, so, ci, <<>>, <<>>, q)
BY DEF Kept, Flow, Ordered

\* A step that leaves client d alone.
LeftAlone(d) ==
    /\ conn'[d] = conn[d] /\ up'[d] = up[d] /\ down'[d] = down[d]
    /\ myCallQueue'[d] = myCallQueue[d]
    /\ outArch'[At(d)] = outArch[At(d)] /\ outArch'[For(d)] = outArch[For(d)]
    /\ inArch'[At(d)] = inArch[At(d)] /\ inArch'[For(d)] = inArch[For(d)]

LEMMA OneClientSteps ==
    ASSUME ReadInv, NEW c \in Clients, format' = format, failed' = failed,
           \A d \in Clients : d # c => LeftAlone(d),
           KeptOf(c)'
    PROVE  ReadInv'
<1>1. ASSUME NEW d \in Clients
      PROVE  KeptOf(d)'
  <2>1. CASE d = c
    BY <2>1
  <2>2. CASE d # c
    <3>1. LeftAlone(d) /\ KeptOf(d)
      BY <2>2 DEF ReadInv, KeptOf
    <3> QED
      BY <3>1 DEF KeptOf, LeftAlone
  <2> QED
    BY <2>1, <2>2
<1>2. Sound' /\ failed' = {}
    BY DEF ReadInv, Sound
<1> QED
    BY <1>1, <1>2 DEF ReadInv, KeptOf

\* The state has its types, for client c.
LEMMA TypesOf ==
    ASSUME TypeOK, NEW c \in Clients
    PROVE  /\ up[c] \in Seq(Message) /\ down[c] \in Seq(Message)
           /\ myCallQueue[c] \in [Funcs -> Seq(Call)]
           /\ At(c) \in Ends /\ For(c) \in Ends
           /\ outArch[At(c)] \in SUBSET Class /\ outArch[For(c)] \in SUBSET Class
           /\ inArch[At(c)] \in SUBSET Class /\ inArch[For(c)] \in SUBSET Class
BY EndsOfClients DEF TypeOK

LEMMA ConnectReads ==
    ASSUME TypeOK, ReadInv, NEW c \in Clients, Connect(c)
    PROVE  ReadInv'
<1>1. /\ UNCHANGED <<format, up, down, failed>> /\ UNCHANGED archiveVars /\ UNCHANGED callVars
      /\ conn[c] = "no" /\ conn' = [conn EXCEPT ![c] = "up"]
    BY DEF Connect
<1>2. conn'[c] = "up" /\ \A d \in Clients : d # c => LeftAlone(d)
    BY <1>1 DEF TypeOK, LeftAlone, archiveVars, callVars
<1>3. KeptOf(c)
    BY DEF ReadInv, KeptOf
<1>4. Kept(format, "up", outArch[At(c)], inArch[For(c)], outArch[For(c)], inArch[At(c)],
           up[c], down[c], myCallQueue[c])
    BY <1>1, <1>3 DEF KeptOf, Kept
<1>5. KeptOf(c)'
    BY <1>1, <1>2, <1>4 DEF KeptOf, archiveVars, callVars
<1> QED
    BY <1>1, <1>2, <1>5, OneClientSteps

\* A call neither names a class nor lacks a description.
LEMMA CallsPlain ==
    ASSUME TypeOK, ReadInv, NEW c \in Clients, NEW f \in Funcs, NEW arg \in ArgClasses(f)
    PROVE  LET m == MessageOf(At(c), f, NoEvent, ArgParts(arg))
           IN  /\ m \in Call /\ m \in Message /\ PlainCall(format, m)
               /\ Learnt(outArch[At(c)], ArgParts(arg)) = outArch[At(c)]
<1> DEFINE out == outArch[At(c)]
           m == MessageOf(At(c), f, NoEvent, ArgParts(arg))
<1>1. Sound /\ Fresh(format, out)
    BY DEF ReadInv, KeptOf, Kept
<1>2. arg \in EventClass \cup {NoEvent} /\ ArgParts(arg) \in Seq(Class)
    BY PartLists
<1>3. m \in Message /\ m \in Call
    BY <1>2, MessageType DEF MessageOf, Message, Call
<1>4. m = [func |-> f, value |-> NoEvent, parts |-> Serialized(out, ArgParts(arg))]
    BY DEF MessageOf
<1> HIDE DEF m, out
<1>5. /\ Bare(format, m) \subseteq out
      /\ Learnt(out, ArgParts(arg)) = out \cup Named(format, m)
    BY <1>1, <1>2, <1>4, WrittenMessage
<1>6. PlainCall(format, m)
  <2>1. CASE format = "cereal::Binary"
    <3>1. PolyFuncs = {}
      BY <1>1, <2>1 DEF Sound
    <3>2. ArgParts(arg) = <<>>
      BY <3>1 DEF ArgClasses, ArgParts
    <3>3. DOMAIN m.parts = {}
      BY <1>4, <3>2 DEF Serialized
    <3> QED
      BY <3>3 DEF PlainCall, Named, Bare
  <2>2. CASE format # "cereal::Binary"
    BY <1>1, <1>5, <2>2 DEF Fresh, PlainCall, Named
  <2> QED
    BY <2>1, <2>2
<1>7. Learnt(out, ArgParts(arg)) = out
    BY <1>5, <1>6 DEF PlainCall
<1> QED
    BY <1>3, <1>6, <1>7 DEF m, out

LEMMA CallReads ==
    ASSUME TypeOK, ReadInv, NEW c \in Clients, NEW f \in Funcs, NEW arg \in ArgClasses(f),
           send_call(c, f, arg)
    PROVE  ReadInv'
<1> DEFINE m == MessageOf(At(c), f, NoEvent, ArgParts(arg))
<1>1. /\ m \in Call /\ m \in Message /\ PlainCall(format, m)
      /\ Learnt(outArch[At(c)], ArgParts(arg)) = outArch[At(c)]
    BY CallsPlain
<1>2. UNCHANGED <<format, conn, inArch, down, failed>> /\ conn[c] = "up"
      /\ outArch' = [outArch EXCEPT ![At(c)] = Learnt(@, ArgParts(arg))]
    BY DEF send_call, Running
<1>3. \/ up' = [up EXCEPT ![c] = Append(@, m)] /\ myCallQueue' = myCallQueue
      \/ up' = up /\ myCallQueue' = [myCallQueue EXCEPT ![c][f] = Append(@, m)]
      \/ up' = up /\ myCallQueue' = myCallQueue
    BY DEF send_call
<1> HIDE DEF m
<1>4. outArch' = outArch
    BY <1>1, <1>2 DEF TypeOK
<1>5. \A d \in Clients : d # c => LeftAlone(d)
  <2>1. \A d \in Clients : d # c => up'[d] = up[d] /\ myCallQueue'[d] = myCallQueue[d]
    BY <1>3 DEF TypeOK
  <2> QED
    BY <1>2, <1>4, <2>1 DEF LeftAlone
<1>6. KeptOf(c) /\ up[c] \in Seq(Message) /\ myCallQueue[c] \in [Funcs -> Seq(Call)]
    BY TypesOf DEF ReadInv, KeptOf
<1>7. conn[c] \in {"no", "up"}
    BY <1>2
<1>8. KeptOf(c)'
  <2>1. CASE up' = [up EXCEPT ![c] = Append(@, m)] /\ myCallQueue' = myCallQueue
    <3>1. up'[c] = Append(up[c], m)
      BY <2>1 DEF TypeOK
    <3>2. /\ Bare(format, m) \subseteq outArch[At(c)]
          /\ outArch[At(c)] \cup Named(format, m) = outArch[At(c)]
      BY <1>1 DEF PlainCall
    <3>3. Kept(format, conn[c], outArch[At(c)] \cup Named(format, m), inArch[For(c)], outArch[For(c)],
               inArch[At(c)], Append(up[c], m), down[c], myCallQueue[c])
      BY <1>1, <1>6, <1>7, <3>2, KeptClientWrites DEF KeptOf
    <3> QED
      BY <1>2, <1>4, <2>1, <3>1, <3>2, <3>3 DEF KeptOf
  <2>2. CASE up' = up /\ myCallQueue' = [myCallQueue EXCEPT ![c][f] = Append(@, m)]
    <3>1. myCallQueue'[c] = [myCallQueue[c] EXCEPT ![f] = Append(@, m)]
      BY <2>2 DEF TypeOK
    <3>2. Kept(format, conn[c], outArch[At(c)], inArch[For(c)], outArch[For(c)],
               inArch[At(c)], up[c], down[c], [myCallQueue[c] EXCEPT ![f] = Append(@, m)])
      BY <1>1, <1>6, KeptQueued DEF KeptOf
    <3> QED
      BY <1>2, <1>4, <2>2, <3>1, <3>2 DEF KeptOf
  <2>3. CASE up' = up /\ myCallQueue' = myCallQueue
    BY <1>2, <1>4, <1>6, <2>3 DEF KeptOf
  <2> QED
    BY <1>3, <2>1, <2>2, <2>3
<1> QED
    BY <1>2, <1>5, <1>8, OneClientSteps

LEMMA TriggerReads ==
    ASSUME TypeOK, ReadInv, NEW c \in Clients, NEW ev \in Triggered, send_trigger(c, ev)
    PROVE  ReadInv'
<1> DEFINE m == MessageOf(At(c), "trigger_single_broadcast", ev, EventParts(ev))
           out == outArch[At(c)]
<1>1. UNCHANGED <<format, conn, inArch, down, failed, myCallQueue>> /\ conn[c] = "up"
      /\ outArch' = [outArch EXCEPT ![At(c)] = Learnt(@, EventParts(ev))]
      /\ up' = [up EXCEPT ![c] = Append(@, m)]
    BY DEF send_trigger, Running, callVars
<1>2. ev \in EventClass \cup {NoEvent} /\ EventParts(ev) \in Seq(Class)
    BY PartLists, ArchivesAssumption
<1>3. m \in Message
    BY <1>2, MessageType DEF MessageOf
<1>4. m = [func |-> "trigger_single_broadcast", value |-> ev, parts |-> Serialized(out, EventParts(ev))]
    BY DEF MessageOf
<1> HIDE DEF m
<1>5. KeptOf(c) /\ Sound /\ Fresh(format, out) /\ up[c] \in Seq(Message)
    BY TypesOf DEF ReadInv, KeptOf, Kept
<1>6. /\ Bare(format, m) \subseteq out
      /\ Learnt(out, EventParts(ev)) = out \cup Named(format, m)
    BY <1>2, <1>4, <1>5, WrittenMessage
<1>7. Kept(format, conn[c], out \cup Named(format, m), inArch[For(c)], outArch[For(c)],
           inArch[At(c)], Append(up[c], m), down[c], myCallQueue[c])
  <2>1. conn[c] \in {"no", "up"}
    BY <1>1
  <2> QED
    BY <1>3, <1>5, <1>6, <2>1, KeptClientWrites DEF KeptOf
<1>8. /\ outArch'[At(c)] = out \cup Named(format, m) /\ outArch'[For(c)] = outArch[For(c)]
      /\ up'[c] = Append(up[c], m)
    BY <1>1, <1>6, EndsOfClients DEF TypeOK
<1>9. KeptOf(c)'
    BY <1>1, <1>7, <1>8 DEF KeptOf
<1>10. \A d \in Clients : d # c => LeftAlone(d)
    BY <1>1, EndsOfClients DEF TypeOK, LeftAlone
<1> QED
    BY <1>1, <1>9, <1>10, OneClientSteps

LEMMA ResultReads ==
    ASSUME TypeOK, ReadInv, NEW c \in Clients, dispatch_result(c)
    PROVE  ReadInv'
<1> DEFINE f == Head(down[c]).func
           q == myCallQueue[c]
           m == Head(q[f])
           q2 == [q EXCEPT ![f] = Tail(@)]
           in == inArch[At(c)]
<1>1. f \in Funcs /\ down[c] # <<>> /\ ReadByClient(c, ResultParts)
      /\ UNCHANGED <<format, conn, outArch>>
    BY DEF dispatch_result
<1>2. \/ up' = up /\ myCallQueue' = myCallQueue
      \/ /\ q[f] # <<>> /\ myCallQueue' = [myCallQueue EXCEPT ![c][f] = Tail(@)]
         /\ \/ up' = up
            \/ conn[c] = "up" /\ up' = [up EXCEPT ![c] = Append(@, m)]
    BY DEF dispatch_result
<1>3. /\ KeptOf(c) /\ Sound /\ Fresh(format, in) /\ up[c] \in Seq(Message)
      /\ down[c] \in Seq(Message) /\ q \in [Funcs -> Seq(Call)]
    BY TypesOf DEF ReadInv, KeptOf, Kept
<1> DEFINE Is(u, k) == Kept(format, conn[c], outArch[At(c)], inArch[For(c)], outArch[For(c)],
                            in, u, Tail(down[c]), k)
<1>4. /\ Bare(format, Head(down[c])) \subseteq in
      /\ Named(format, Head(down[c])) = {}
      /\ Is(up[c], q)
  <2>1. /\ Bare(format, Head(down[c])) \subseteq in
        /\ f \in Funcs => Named(format, Head(down[c])) = {}
        /\ Kept(format, conn[c], outArch[At(c)], inArch[For(c)], outArch[For(c)],
                in \cup Named(format, Head(down[c])), up[c], Tail(down[c]), q)
    BY <1>1, <1>3, KeptClientReads DEF KeptOf
  <2>2. in \cup Named(format, Head(down[c])) = in
    BY <1>1, <2>1
  <2> QED
    BY <1>1, <2>1, <2>2
<1>5. Head(down[c]) \in Message
    BY <1>1, <1>3
<1>6. failed' = failed /\ down' = [down EXCEPT ![c] = Tail(@)]
      /\ inArch' = [inArch EXCEPT ![At(c)] = Learnt(@, ResultParts)]
  <2>1. Readable(in, Head(down[c]).parts, ResultParts)
    BY <1>3, <1>4, <1>5, ReadMessage
  <2> QED
    BY <1>1, <2>1 DEF ReadByClient
<1>7. inArch' = inArch /\ down'[c] = Tail(down[c])
  <2>1. Learnt(in, ResultParts) = in
    BY <1>3, LearnsNoResult
  <2> QED
    BY <1>6, <2>1 DEF TypeOK
<1> HIDE DEF f
<1>8. \A d \in Clients : d # c => LeftAlone(d)
  <2>1. \A d \in Clients : d # c => up'[d] = up[d] /\ myCallQueue'[d] = myCallQueue[d]
    BY <1>2 DEF TypeOK
  <2> QED
    BY <1>1, <1>6, <1>7, <2>1 DEF LeftAlone, TypeOK
<1>9. Is(up'[c], myCallQueue'[c])
  <2>1. CASE up' = up /\ myCallQueue' = myCallQueue
    BY <1>4, <2>1
  <2>2. CASE q[f] # <<>> /\ myCallQueue' = [myCallQueue EXCEPT ![c][f] = Tail(@)]
    <3>1. myCallQueue'[c] = q2
      BY <1>1, <2>2 DEF TypeOK
    <3>2. PlainCall(format, m) /\ Is(up[c], q2)
      BY <1>1, <1>3, <1>4, <2>2, KeptTaken
    <3>3. CASE up' = up
      BY <3>1, <3>2, <3>3
    <3>4. CASE conn[c] = "up" /\ up' = [up EXCEPT ![c] = Append(@, m)]
      <4>1. m \in Call
        BY <1>1, <1>3, <2>2
      <4>2. m \in Message
        BY <4>1 DEF Call, Message
      <4>3. up'[c] = Append(up[c], m) /\ conn[c] \in {"no", "up"}
        BY <3>4 DEF TypeOK
      <4>4. /\ Bare(format, m) \subseteq outArch[At(c)]
            /\ outArch[At(c)] \cup Named(format, m) = outArch[At(c)]
        BY <3>2 DEF PlainCall
      <4> HIDE DEF m, q2
      <4>5. Kept(format, conn[c], outArch[At(c)] \cup Named(format, m), inArch[For(c)],
                 outArch[For(c)], in, Append(up[c], m), Tail(down[c]), q2)
        BY <1>3, <3>2, <4>2, <4>3, <4>4, KeptClientWrites
      <4> QED
        BY <3>1, <4>3, <4>4, <4>5
    <3> QED
      BY <1>2, <3>3, <3>4
  <2> QED
    BY <1>2, <2>1, <2>2
<1>10. KeptOf(c)'
    BY <1>1, <1>7, <1>9 DEF KeptOf
<1> QED
    BY <1>1, <1>6, <1>8, <1>10, OneClientSteps

LEMMA EventReads ==
    ASSUME TypeOK, ReadInv, NEW c \in Clients, dispatch_event(c)
    PROVE  ReadInv'
<1> DEFINE m == Head(down[c])
           in == inArch[At(c)]
<1>1. down[c] # <<>> /\ ReadByClient(c, Classes(m.parts))
      /\ UNCHANGED <<format, conn, outArch, up, myCallQueue>>
    BY DEF dispatch_event, callVars
<1>2. KeptOf(c) /\ Sound /\ Fresh(format, in) /\ down[c] \in Seq(Message)
    BY TypesOf DEF ReadInv, KeptOf, Kept
<1>3. m \in Message
    BY <1>1, <1>2
<1>4. /\ Bare(format, m) \subseteq in
      /\ Kept(format, conn[c], outArch[At(c)], inArch[For(c)], outArch[For(c)],
              in \cup Named(format, m), up[c], Tail(down[c]), myCallQueue[c])
    BY <1>1, <1>2, KeptClientReads DEF KeptOf
<1>5. /\ Readable(in, m.parts, Classes(m.parts))
      /\ Learnt(in, Classes(m.parts)) = in \cup Named(format, m)
    BY <1>2, <1>3, <1>4, ReadMessage
<1>6. failed' = failed /\ down' = [down EXCEPT ![c] = Tail(@)]
      /\ inArch' = [inArch EXCEPT ![At(c)] = Learnt(@, Classes(m.parts))]
    BY <1>1, <1>5 DEF ReadByClient
<1> HIDE DEF m
<1>7. /\ down'[c] = Tail(down[c]) /\ inArch'[At(c)] = in \cup Named(format, m)
      /\ inArch'[For(c)] = inArch[For(c)]
    BY <1>5, <1>6, EndsOfClients DEF TypeOK
<1>8. KeptOf(c)'
    BY <1>1, <1>4, <1>7 DEF KeptOf
<1>9. \A d \in Clients : d # c => LeftAlone(d)
    BY <1>1, <1>6, EndsOfClients DEF TypeOK, LeftAlone
<1> QED
    BY <1>1, <1>6, <1>8, <1>9, OneClientSteps

LEMMA BreakReads ==
    ASSUME TypeOK, ReadInv, NEW c \in Clients, Break(c)
    PROVE  ReadInv'
<1>1. /\ UNCHANGED <<format, failed, myCallQueue, outArch, inArch>>
      /\ conn[c] = "up" /\ conn' = [conn EXCEPT ![c] = "broken"]
      /\ up' = [up EXCEPT ![c] = <<>>]
      /\ down' = down \/ down' = [down EXCEPT ![c] = <<>>]
    BY DEF Break, archiveVars, callVars
<1>2. /\ conn'[c] = "broken" /\ up'[c] = <<>>
      /\ down'[c] = down[c] \/ down'[c] = <<>>
    BY <1>1 DEF TypeOK
<1>3. \A d \in Clients : d # c => LeftAlone(d)
    BY <1>1 DEF TypeOK, LeftAlone
<1>4. KeptOf(c)
    BY DEF ReadInv, KeptOf
<1>5. /\ Kept(format, "broken", outArch[At(c)], inArch[For(c)], outArch[For(c)], inArch[At(c)],
              <<>>, down[c], myCallQueue[c])
      /\ Kept(format, "broken", outArch[At(c)], inArch[For(c)], outArch[For(c)], inArch[At(c)],
              <<>>, <<>>, myCallQueue[c])
    BY <1>1, <1>4, KeptBroken DEF KeptOf
<1>6. KeptOf(c)'
    BY <1>1, <1>2, <1>5 DEF KeptOf
<1> QED
    BY <1>1, <1>3, <1>6, OneClientSteps

LEMMA ErrorReads ==
    ASSUME TypeOK, ReadInv, NEW c \in Clients, dispatch_connection_error(c)
    PROVE  ReadInv'
<1> DEFINE out == outArch[At(c)]
           in == inArch[At(c)]
           parts == Serialized(out, ErrorParts)
           m == [func |-> "broadcast_event", value |-> NoEvent, parts |-> parts]
<1>1. KeptOf(c) /\ Sound /\ Fresh(format, in) /\ Fresh(format, out)
    BY DEF ReadInv, KeptOf, Kept
<1>2. m \in Message
    BY MessageType, PartLists
<1>3. Bare(format, m) \subseteq in
  <2>1. /\ ErrorParts \in Seq(Class)
        /\ \A k \in DOMAIN ErrorParts : ErrorParts[k] \notin EventClass
    BY PartLists DEF ErrorParts, EventClass
  <2>2. Bare(format, m) \subseteq out
    BY <1>1, <2>1, WrittenMessage
  <2>3. CASE format = "cereal::Binary"
    <3>1. /\ m.parts = parts /\ DOMAIN parts = DOMAIN ErrorParts
          /\ \A k \in DOMAIN ErrorParts : parts[k].class = ErrorParts[k]
      BY DEF Serialized
    <3>2. \A k \in DOMAIN m.parts : m.parts[k].class \notin EventClass
      BY <2>1, <3>1
    <3>3. Bare(format, m) = {}
      BY <2>3, <3>2 DEF Bare, Described
    <3> QED
      BY <3>3
  <2>4. CASE format # "cereal::Binary"
    BY <1>1, <2>2, <2>4 DEF Fresh
  <2> QED
    BY <2>3, <2>4
<1>4. Readable(in, parts, ResultParts)
  <2>1. Readable(in, m.parts, ResultParts)
    BY <1>1, <1>2, <1>3, ReadMessage
  <2> QED
    BY <2>1
<1> HIDE DEF m
<1>5. Learnt(in, ResultParts) = in /\ Learnt(out, ErrorParts) = out
    BY <1>1, LearnsNoResult
<1>6. Readable(Learnt(in, ResultParts), parts, ResultParts)
    BY <1>4, <1>5
<1> HIDE DEF parts
<1>7. failed' = failed
    BY <1>4, <1>6 DEF dispatch_connection_error, parts
<1>8. /\ UNCHANGED <<format, up, down, myCallQueue>>
      /\ conn[c] = "broken" /\ conn' = [conn EXCEPT ![c] = "closed"]
      /\ outArch' = [outArch EXCEPT ![At(c)] = Learnt(@, ErrorParts)]
      /\ inArch' = inArch \/ inArch' = [inArch EXCEPT ![At(c)] = Learnt(@, ResultParts)]
    BY DEF dispatch_connection_error
<1>9. outArch' = outArch /\ inArch' = inArch /\ conn'[c] = "closed"
    BY <1>5, <1>8 DEF TypeOK
<1>10. Kept(format, "closed", out, inArch[For(c)], outArch[For(c)], in,
            up[c], down[c], myCallQueue[c])
    BY <1>1, <1>8 DEF KeptOf, Kept
<1>11. KeptOf(c)'
    BY <1>8, <1>9, <1>10 DEF KeptOf
<1>12. \A d \in Clients : d # c => LeftAlone(d)
    BY <1>8, <1>9 DEF TypeOK, LeftAlone
<1> QED
    BY <1>7, <1>8, <1>11, <1>12, OneClientSteps

\* The service reads a message of client c.
LEMMA ServiceReadsMessage ==
    ASSUME TypeOK, ReadInv, NEW c \in Clients, ReadByService(c), format' = format
    PROVE  LET m == Head(up[c])
               in == inArch[For(c)] \cup Named(format, m)
           IN  /\ failed' = failed /\ conn[c] \in {"no", "up"}
               /\ up'[c] = Tail(up[c]) /\ inArch'[For(c)] = in /\ inArch'[At(c)] = inArch[At(c)]
               /\ \A d \in Clients : d # c => /\ up'[d] = up[d] /\ inArch'[At(d)] = inArch[At(d)]
                                              /\ inArch'[For(d)] = inArch[For(d)]
               /\ Kept(format, conn[c], outArch[At(c)], in, outArch[For(c)], inArch[At(c)],
                       Tail(up[c]), down[c], myCallQueue[c])
<1> DEFINE m == Head(up[c])
           known == inArch[For(c)]
<1>1. up[c] # <<>>
    BY DEF ReadByService
<1>2. KeptOf(c) /\ Sound /\ Fresh(format, known) /\ up[c] \in Seq(Message)
    BY TypesOf DEF ReadInv, KeptOf, Kept
<1>3. m \in Message
    BY <1>1, <1>2
<1>4. /\ conn[c] \in {"no", "up"} /\ Bare(format, m) \subseteq known
      /\ Kept(format, conn[c], outArch[At(c)], known \cup Named(format, m), outArch[For(c)],
              inArch[At(c)], Tail(up[c]), down[c], myCallQueue[c])
    BY <1>1, <1>2, KeptServiceReads DEF KeptOf
<1>5. /\ Readable(known, m.parts, Classes(m.parts))
      /\ Learnt(known, Classes(m.parts)) = known \cup Named(format, m)
    BY <1>2, <1>3, <1>4, ReadMessage
<1>6. failed' = failed /\ up' = [up EXCEPT ![c] = Tail(@)]
      /\ inArch' = [inArch EXCEPT ![For(c)] = Learnt(@, Classes(m.parts))]
    BY <1>5 DEF ReadByService
<1> HIDE DEF m
<1>7. /\ up'[c] = Tail(up[c]) /\ inArch'[For(c)] = known \cup Named(format, m)
      /\ inArch'[At(c)] = inArch[At(c)]
    BY <1>5, <1>6, EndsOfClients DEF TypeOK
<1>8. \A d \in Clients : d # c => /\ up'[d] = up[d] /\ inArch'[At(d)] = inArch[At(d)]
                                  /\ inArch'[For(d)] = inArch[For(d)]
    BY <1>6, EndsOfClients DEF TypeOK
<1> QED
    BY <1>4, <1>6, <1>7, <1>8 DEF m

LEMMA CallFunctionReads ==
    ASSUME TypeOK, ReadInv, NEW c \in Clients, CallFunction(c)
    PROVE  ReadInv'
<1> DEFINE f == Head(up[c]).func
           m == MessageOf(For(c), f, NoEvent, ResultParts)
           out == outArch[For(c)]
           in == inArch[For(c)] \cup Named(format, Head(up[c]))
<1>1. /\ UNCHANGED <<format, conn, myCallQueue>> /\ ReadByService(c) /\ f \in Funcs
      /\ outArch' = [outArch EXCEPT ![For(c)] = Learnt(@, ResultParts)]
      /\ down' = [down EXCEPT ![c] = Append(@, m)]
    BY DEF CallFunction, callVars
<1>2. /\ failed' = failed /\ conn[c] \in {"no", "up"}
      /\ up'[c] = Tail(up[c]) /\ inArch'[For(c)] = in /\ inArch'[At(c)] = inArch[At(c)]
      /\ \A d \in Clients : d # c => /\ up'[d] = up[d] /\ inArch'[At(d)] = inArch[At(d)]
                                     /\ inArch'[For(d)] = inArch[For(d)]
      /\ Kept(format, conn[c], outArch[At(c)], in, outArch[For(c)], inArch[At(c)],
              Tail(up[c]), down[c], myCallQueue[c])
    BY <1>1, ServiceReadsMessage
<1> HIDE DEF f, in
<1>3. m \in Message
    BY <1>1, MessageType, PartLists DEF MessageOf
<1>4. m = [func |-> f, value |-> NoEvent, parts |-> Serialized(out, ResultParts)]
    BY DEF MessageOf
<1> HIDE DEF m
<1>5. Sound /\ Fresh(format, out) /\ down[c] \in Seq(Message)
    BY TypesOf DEF ReadInv, KeptOf, Kept
<1>6. Bare(format, m) \subseteq out /\ Named(format, m) = {}
  <2>1. /\ ResultParts \in Seq(Class)
        /\ \A k \in DOMAIN ResultParts : ResultParts[k] \notin EventClass
    BY PartLists DEF ResultParts, EventClass
  <2> QED
    BY <1>4, <1>5, <2>1, WrittenMessage
<1>7. Learnt(out, ResultParts) = out
    BY <1>5, LearnsNoResult
<1>8. outArch' = outArch /\ down'[c] = Append(down[c], m)
    BY <1>1, <1>7 DEF TypeOK
<1>9. Kept(format, conn[c], outArch[At(c)], in, out \cup Named(format, m), inArch[At(c)],
           Tail(up[c]), Append(down[c], m), myCallQueue[c])
    BY <1>2, <1>3, <1>5, <1>6, KeptServiceWrites DEF PlainResult
<1>10. out \cup Named(format, m) = out
    BY <1>6
<1>11. KeptOf(c)'
    BY <1>1, <1>2, <1>8, <1>9, <1>10 DEF KeptOf
<1>12. \A d \in Clients : d # c => LeftAlone(d)
    BY <1>1, <1>2, <1>8 DEF TypeOK, LeftAlone
<1> QED
    BY <1>1, <1>2, <1>11, <1>12, OneClientSteps

LEMMA BroadcastReads ==
    ASSUME TypeOK, ReadInv, NEW c \in Clients, trigger_single_broadcast(c)
    PROVE  ReadInv'
<1> DEFINE in == inArch[For(c)] \cup Named(format, Head(up[c]))
<1>1. UNCHANGED <<format, conn, outArch, down, myCallQueue>> /\ ReadByService(c)
    BY DEF trigger_single_broadcast, callVars
<1>2. /\ failed' = failed
      /\ up'[c] = Tail(up[c]) /\ inArch'[For(c)] = in /\ inArch'[At(c)] = inArch[At(c)]
      /\ \A d \in Clients : d # c => /\ up'[d] = up[d] /\ inArch'[At(d)] = inArch[At(d)]
                                     /\ inArch'[For(d)] = inArch[For(d)]
      /\ Kept(format, conn[c], outArch[At(c)], in, outArch[For(c)], inArch[At(c)],
              Tail(up[c]), down[c], myCallQueue[c])
    BY <1>1, ServiceReadsMessage
<1> HIDE DEF in
<1>3. KeptOf(c)'
    BY <1>1, <1>2 DEF KeptOf
<1>4. \A d \in Clients : d # c => LeftAlone(d)
    BY <1>1, <1>2 DEF LeftAlone
<1> QED
    BY <1>1, <1>2, <1>3, <1>4, OneClientSteps

LEMMA TickReads ==
    ASSUME TypeOK, ReadInv, tickTimer
    PROVE  ReadInv'
<1> DEFINE ev == IF kind = "poly" THEN Recast(myEnabledEvent) ELSE myEnabledEvent
           to == IF myEnabledEvent = NoEvent THEN {} ELSE {c \in Clients : conn[c] = "up"}
           Msg(c) == MessageOf(For(c), "broadcast_event", ev, EventParts(ev))
<1>1. UNCHANGED <<format, conn, inArch, up, myCallQueue, failed>>
    BY DEF tickTimer, callVars
<1>2. down' = [c \in Clients |-> IF c \notin to THEN down[c] ELSE Append(down[c], Msg(c))]
    BY DEF tickTimer
<1>3. outArch' = [e \in Ends |-> IF e \in {For(c) : c \in to}
                                 THEN Learnt(outArch[e], EventParts(ev)) ELSE outArch[e]]
    BY DEF tickTimer
<1>4. to \subseteq Clients /\ (\A c \in to : conn[c] \in {"no", "up"})
      /\ (to # {} => ev \in EventClass)
  <2>1. to # {} => myEnabledEvent \in EventClass
    BY DEF TypeOK
  <2> QED
    BY <2>1, RecastSame
<1> HIDE DEF to, ev
<1>5. ASSUME NEW c \in Clients
      PROVE  KeptOf(c)'
  <2>1. /\ KeptOf(c) /\ Sound /\ Fresh(format, outArch[For(c)]) /\ down[c] \in Seq(Message)
        /\ At(c) \in Ends /\ For(c) \in Ends
    BY TypesOf DEF ReadInv, KeptOf, Kept
  <2>2. At(c) \notin {For(d) : d \in to} /\ (For(c) \in {For(d) : d \in to} <=> c \in to)
    BY <1>4, EndsOfClients
  <2>3. outArch'[At(c)] = outArch[At(c)]
    BY <1>3, <2>1, <2>2
  <2>4. CASE c \notin to
    <3>1. down'[c] = down[c] /\ outArch'[For(c)] = outArch[For(c)]
      BY <1>2, <1>3, <2>1, <2>2, <2>4
    <3> QED
      BY <1>1, <2>1, <2>3, <3>1 DEF KeptOf
  <2>5. CASE c \in to
    <3> DEFINE m == Msg(c)
               out == outArch[For(c)]
    <3>1. down'[c] = Append(down[c], m) /\ outArch'[For(c)] = Learnt(out, EventParts(ev))
      BY <1>2, <1>3, <2>1, <2>2, <2>5
    <3>2. ev \in EventClass /\ conn[c] \in {"no", "up"}
      BY <1>4, <2>5
    <3>3. EventParts(ev) \in Seq(Class)
      BY <3>2, PartLists
    <3>4. m \in Message
      BY <3>2, <3>3, MessageType DEF MessageOf
    <3>5. m = [func |-> "broadcast_event", value |-> ev, parts |-> Serialized(out, EventParts(ev))]
      BY DEF MessageOf
    <3>6. m.func \notin Funcs
      BY <3>5, ArchivesAssumption
    <3> HIDE DEF m
    <3>7. Bare(format, m) \subseteq out /\ Learnt(out, EventParts(ev)) = out \cup Named(format, m)
      BY <2>1, <3>3, <3>5, WrittenMessage
    <3>8. Kept(format, conn[c], outArch[At(c)], inArch[For(c)], out \cup Named(format, m),
               inArch[At(c)], up[c], Append(down[c], m), myCallQueue[c])
      BY <2>1, <3>2, <3>4, <3>6, <3>7, KeptServiceWrites DEF KeptOf, PlainResult
    <3> QED
      BY <1>1, <2>3, <3>1, <3>7, <3>8 DEF KeptOf
  <2> QED
    BY <2>4, <2>5
<1>6. Sound' /\ failed' = {}
    BY <1>1 DEF ReadInv, Sound
<1> QED
    BY <1>5, <1>6 DEF ReadInv, KeptOf

LEMMA NextReads ==
    ASSUME TypeOK, ReadInv, [Next]_vars
    PROVE  ReadInv'
<1>1. CASE UNCHANGED vars \/ TimerExpires
  <2>1. UNCHANGED <<format, conn, outArch, inArch, up, down, myCallQueue, failed>>
    BY <1>1 DEF vars, TimerExpires, archiveVars, callVars
  <2> QED
    BY <2>1 DEF ReadInv, KeptOf, Sound
<1>2. CASE Next
    BY <1>1, <1>2, ConnectReads, BreakReads, ResultReads, EventReads, ErrorReads,
       CallFunctionReads, BroadcastReads, CallReads, TriggerReads, TickReads
       DEF Next, Receives, Serves
<1> QED
    BY <1>1, <1>2

LEMMA InitReads == ASSUME Init, Sound PROVE ReadInv
<1>1. ASSUME NEW c \in Clients
      PROVE  KeptOf(c)
  <2>1. /\ outArch[At(c)] = {} /\ outArch[For(c)] = {} /\ inArch[At(c)] = {} /\ inArch[For(c)] = {}
        /\ up[c] = <<>> /\ down[c] = <<>> /\ conn[c] = "no"
        /\ \A f \in Funcs : myCallQueue[c][f] = <<>>
    BY EndsOfClients DEF Init
  <2>2. Flow(format, {}, {}, <<>>)
    BY FlowEmpty
  <2>3. DOMAIN <<>> = {}
    OBVIOUS
  <2> QED
    BY <2>1, <2>2, <2>3 DEF KeptOf, Kept, Fresh
<1>2. failed = {}
    BY DEF Init
<1> QED
    BY <1>1, <1>2 DEF ReadInv, KeptOf

(***************************************************************************)
(* With a sound adapter, an archive that will not describe a class again   *)
(* has described it in a message that its reader has read or will read     *)
(* first, whatever breaks and whoever writes in between.                   *)
(***************************************************************************)
THEOREM ArchivesAgree == Spec /\ Sound => []ReadInv
<1>1. Init /\ Sound => ReadInv
    BY InitReads
<1>2. TypeOK /\ ReadInv /\ [Next]_vars => ReadInv'
    BY NextReads
<1> QED
    BY <1>1, <1>2, TypeCorrect, PTL DEF Spec

\* With a sound adapter no handler throws because it cannot read a message.
THEOREM MessagesReadable == Spec /\ Sound => []EveryMessageReadable
<1>1. ReadInv => EveryMessageReadable
    BY DEF ReadInv, EveryMessageReadable
<1> QED
    BY <1>1, ArchivesAgree, PTL
==============================================================================
