----------------------------- MODULE ClockProofs -----------------------------
(***************************************************************************)
(* Proofs about the clock example, for any set of client programs and any  *)
(* number of calls and ticks: the chain of ticks, the list of alarms and   *)
(* the ids of the alarms.                                                  *)
(***************************************************************************)
EXTENDS Clock, SequenceTheorems, FiniteSetTheorems, TLAPS

------------------------------------------------------------------------------
(***************************************************************************)
(* What each step of the system may do to the state of the service.        *)
(***************************************************************************)

\* Steps that leave the timers and the alarms alone.
Quiet == UNCHANGED <<stopper, alarm, owner, nextAlarmId, ticking, tickWaits, tickQueued>>

\* A call of the service, with its effect on the timers and the alarms.
Served(p) ==
    \/ Quiet
    \/ \E on : set_tick_interval(p, on)
    \/ set_alarm(p)
    \/ \E a : cancel_alarm(p, a)
    \/ ServiceEnds(p)

LEMMA Steps ==
    ASSUME [Next]_vars
    PROVE  \/ Quiet
           \/ Running /\ \E p \in Programs : Served(p)
           \/ TickExpires \/ tickTimer
           \/ \E a \in AlarmId : AlarmExpires(a) \/ HandleAlarm(a)
           \/ Running /\ ServiceEnds("signal")
<1>1. CASE UNCHANGED vars
    BY <1>1 DEF vars, serviceVars, Quiet
<1>2. ASSUME NEW p \in Programs,
             \/ MainCpp(p) \/ MainPy(p) \/ OtherCall(p) \/ ProgramStep(p)
      PROVE  Quiet
    BY <1>2
    DEF MainCpp, MainPy, OtherCall, ProgramStep, SetClockTick, HandleResult, HandleEventCpp,
        HandleEventPy, HandleEof, serviceVars, Quiet
<1>3. ASSUME NEW p \in Programs, Serve(p)
      PROVE  Running /\ Served(p)
    BY <1>3 DEF Serve, Served, get_time, close_service, serviceVars, Quiet
<1> QED
    BY <1>1, <1>2, <1>3 DEF Next, AlarmStep, signal_handler

------------------------------------------------------------------------------
(***************************************************************************)
(* The chain of ticks.                                                     *)
(***************************************************************************)
TickInv == tickWaits \in Nat /\ tickQueued \in Nat /\ ticking \in BOOLEAN /\ OneTickChain

\* However set_tick_interval, the expiry of myTickTimer and the queued tickTimer
\* interleave, one wait at most is pending, none when the ticks are off, and one, or
\* a handler that will start one, when they are on.
THEOREM TickCorrect == Spec => []OneTickChain
<1>1. Init => TickInv
  <2> SUFFICES ASSUME Init
               PROVE  TickInv
    OBVIOUS
  <2>1. tickWaits = 0 /\ tickQueued = 0
    BY DEF Init
  <2>2. ticking \in BOOLEAN /\ ~ticking
    BY DEF Init
  <2>3. tickWaits <= 1
    BY <2>1
  <2> QED
    BY <2>1, <2>2, <2>3 DEF TickInv, OneTickChain
<1>2. TickInv /\ [Next]_vars => TickInv'
  <2> SUFFICES ASSUME TickInv, [Next]_vars
               PROVE  TickInv'
    OBVIOUS
  <2> USE DEF TickInv, OneTickChain, Running
  <2>1. CASE Quiet
    BY <2>1 DEF Quiet
  <2>2. ASSUME NEW who, ServiceEnds(who)
        PROVE  TickInv'
    <3>1. tickWaits' = 0 /\ tickQueued' = 0 /\ ticking' \in BOOLEAN /\ ~ticking'
      BY <2>2 DEF ServiceEnds
    <3>2. tickWaits' <= 1
      BY <3>1
    <3> QED
      BY <3>1, <3>2
  <2>3. ASSUME NEW p \in Programs, Running, Served(p)
        PROVE  TickInv'
    <3>1. ASSUME NEW on, set_tick_interval(p, on)
          PROVE  TickInv'
      <4>1. ticking' \in BOOLEAN /\ (ticking' <=> on # 0) /\ tickQueued' = tickQueued
        BY <3>1 DEF set_tick_interval
      <4>2. tickWaits' = IF on # 0 THEN 0 + 1 ELSE 0
        BY <3>1 DEF set_tick_interval, WaitsCancelled
      <4>3. tickWaits' \in Nat /\ tickWaits' <= 1 /\ tickWaits' = IF on # 0 THEN 1 ELSE 0
        BY <4>2
      <4> QED
        BY <4>1, <4>3
    <3>2. CASE set_alarm(p) \/ \E a : cancel_alarm(p, a)
      BY <3>2 DEF set_alarm, cancel_alarm
    <3>3. CASE ServiceEnds(p)
      BY <2>2, <3>3
    <3> QED
      BY <2>1, <2>3, <3>1, <3>2, <3>3 DEF Served
  <2>4. CASE TickExpires
    BY <2>4 DEF TickExpires
  <2>5. CASE tickTimer
    BY <2>5 DEF tickTimer, TickRearmed, WaitsCancelled
  <2>6. ASSUME NEW a, AlarmExpires(a) \/ HandleAlarm(a)
        PROVE  TickInv'
    BY <2>6 DEF AlarmExpires, HandleAlarm
  <2> QED
    BY <2>1, <2>2, <2>3, <2>4, <2>5, <2>6, Steps
<1>3. TickInv => OneTickChain
    BY DEF TickInv
<1> QED
    BY <1>1, <1>2, <1>3, PTL DEF Spec

------------------------------------------------------------------------------
(***************************************************************************)
(* The list of alarms.                                                     *)
(***************************************************************************)
AlarmStates == {"unset", "waiting", "expired", "aborted", "purged", "cancelled"}

LEMMA AlarmStatesKept ==
    ASSUME alarm \in [AlarmId -> AlarmStates], [Next]_vars
    PROVE  /\ alarm' \in [AlarmId -> AlarmStates]
           /\ \A a \in AlarmId : ~Purged(a) /\ Purged(a)' =>
                 alarm[a] \in {"expired", "aborted"}
<1> USE DEF AlarmStates, Purged
<1> DEFINE Goal == /\ alarm' \in [AlarmId -> AlarmStates]
                   /\ \A a \in AlarmId : ~Purged(a) /\ Purged(a)' =>
                         alarm[a] \in {"expired", "aborted"}
<1>1. CASE alarm' = alarm
    BY <1>1
<1>2. ASSUME NEW p \in Programs, Served(p)
      PROVE  Goal
  <2>1. CASE set_alarm(p)
    BY <2>1 DEF set_alarm
  <2>2. ASSUME NEW b, cancel_alarm(p, b)
        PROVE  Goal
    <3>1. alarm' = [alarm EXCEPT ![b] = AlarmCancelled(b)]
      BY <2>2 DEF cancel_alarm
    <3>2. b \in AlarmId => /\ AlarmCancelled(b) \in AlarmStates
                           /\ AlarmCancelled(b) \in {"aborted", alarm[b]}
      BY DEF AlarmCancelled
    <3> HIDE DEF AlarmStates
    <3>3. alarm' \in [AlarmId -> AlarmStates]
      BY <3>1, <3>2
    <3>4. \A a \in AlarmId : alarm'[a] \in {"aborted", alarm[a]}
      BY <3>1, <3>2
    <3> QED
      BY <3>3, <3>4
  <2>3. CASE ServiceEnds(p)
    BY <2>3 DEF ServiceEnds
  <2> QED
    BY <1>1, <1>2, <2>1, <2>2, <2>3 DEF Served, Quiet, set_tick_interval
<1>3. ASSUME NEW b \in AlarmId, AlarmExpires(b) \/ HandleAlarm(b)
      PROVE  Goal
    BY <1>3 DEF AlarmExpires, HandleAlarm
<1>4. CASE ServiceEnds("signal")
    BY <1>4 DEF ServiceEnds
<1> QED
    BY <1>1, <1>2, <1>3, <1>4, Steps DEF Quiet, TickExpires, tickTimer

\* An alarm leaves the list only in its own handler, however cancel_alarm, the expiry
\* and the handler interleave.
THEOREM PurgeCorrect == Spec => AlarmPurgedByHandler
<1> DEFINE Typed == alarm \in [AlarmId -> AlarmStates]
<1>1. Init => Typed
    BY DEF Init, AlarmStates
<1>2. Typed /\ [Next]_vars => Typed'
    BY AlarmStatesKept
<1>3. Typed /\ [Next]_vars =>
          [\A a \in AlarmId : ~Purged(a) /\ Purged(a)' =>
              alarm[a] \in {"expired", "aborted"}]_vars
    BY AlarmStatesKept
<1> QED
    BY <1>1, <1>2, <1>3, PTL DEF Spec, AlarmPurgedByHandler

------------------------------------------------------------------------------
(***************************************************************************)
(* The ids of the alarms.  A program of Setters sets one alarm; until then *)
(* it is new, or the call is on its way.                                   *)
(***************************************************************************)
Setters == CppClients \cup PyClients

HasAlarmCall(s) == \E i \in DOMAIN s : s[i].func = "set_alarm"
OneAlarmCall(s) ==
    \A i, j \in DOMAIN s : s[i].func = "set_alarm" /\ s[j].func = "set_alarm" => i = j

WillSet == {p \in Setters : program[p] = "new" \/ HasAlarmCall(calls[p])}

CallMessages == [func : Functions, arg : Nat]
ClientMessages == [func : Functions \cup {"tick", "alarm"}, arg : Nat]

MessagesOK ==
    /\ calls \in [Programs -> Seq(CallMessages)]
    /\ inbox \in [Programs -> Seq(ClientMessages)]
    /\ DOMAIN owner = AlarmId

\* Who has set an alarm sets no other, so the ids suffice.
CountOK ==
    /\ nextAlarmId \in Nat \ {0}
    /\ nextAlarmId - 1 + Cardinality(WillSet) <= Cardinality(Setters)
    /\ \A p \in Programs :
          /\ OneAlarmCall(calls[p])
          /\ HasAlarmCall(calls[p]) => p \in Setters /\ program[p] # "new"

\* The alarms in use have owners, each its own.
OwnersOK ==
    /\ \A a \in AlarmId : IF a < nextAlarmId THEN owner[a] \in Setters \ WillSet
                                             ELSE alarm[a] = "unset"
    /\ \A a, b \in AlarmId :
          a < nextAlarmId /\ b < nextAlarmId /\ owner[a] = owner[b] => a = b

\* A program with inbox s and stopAlarm stop knows alarm a before it reads place i.
Known(s, stop, i, a) ==
    stop = a \/ \E j \in DOMAIN s : j < i /\ s[j] = Result("set_alarm", a)

\* What has arrived at program p: events of alarms that are in use, and the id of its
\* own alarm, first.
HeardOK(s, stop, own, next, p) ==
    \A i \in DOMAIN s : s[i].func \in {"alarm", "set_alarm"} =>
        /\ s[i].arg \in AlarmId /\ s[i].arg < next
        /\ s[i].func = "set_alarm" => own[s[i].arg] = p
        /\ s[i].func = "alarm" /\ own[s[i].arg] = p => Known(s, stop, i, s[i].arg)

\* A program that is connected knows the alarms it has set when it has read its inbox.
ToldOK(s, stop, own, next, p) ==
    \A a \in AlarmId : a < next /\ own[a] = p => Known(s, stop, Len(s) + 1, a)

InboxOK(p) ==
    /\ inbox[p] # <<>> => Connected(p)
    /\ HeardOK(inbox[p], stopAlarm[p], owner, nextAlarmId, p)
    /\ Connected(p) => ToldOK(inbox[p], stopAlarm[p], owner, nextAlarmId, p)

Inv == TypeOK /\ MessagesOK /\ CountOK /\ OwnersOK /\ \A p \in Programs : InboxOK(p)

------------------------------------------------------------------------------
(***************************************************************************)
(* Sequences of calls and of messages.                                     *)
(***************************************************************************)

LEMMA CallsAppended ==
    ASSUME NEW s \in Seq(CallMessages), NEW c \in CallMessages, c.func # "set_alarm"
    PROVE  /\ s \o <<c>> \in Seq(CallMessages)
           /\ HasAlarmCall(s \o <<c>>) => HasAlarmCall(s)
           /\ OneAlarmCall(s) => OneAlarmCall(s \o <<c>>)
<1> DEFINE t == s \o <<c>>
<1>1. t \in Seq(CallMessages) /\ Len(t) = Len(s) + 1 /\ DOMAIN t = 1..Len(t)
    OBVIOUS
<1>2. \A i \in DOMAIN t : IF i \in DOMAIN s THEN t[i] = s[i] ELSE t[i] = c
    OBVIOUS
<1> HIDE DEF t
<1>3. \A i \in DOMAIN t : t[i].func = "set_alarm" => i \in DOMAIN s /\ s[i].func = "set_alarm"
    BY <1>2
<1>4. t \in Seq(CallMessages) /\ (HasAlarmCall(t) => HasAlarmCall(s))
    BY <1>1, <1>3 DEF HasAlarmCall
<1>5. OneAlarmCall(s) => OneAlarmCall(t)
    BY <1>3 DEF OneAlarmCall
<1> QED
    BY <1>4, <1>5 DEF t

LEMMA CallTaken ==
    ASSUME NEW s \in Seq(CallMessages), s # <<>>, OneAlarmCall(s)
    PROVE  /\ Tail(s) \in Seq(CallMessages) /\ OneAlarmCall(Tail(s))
           /\ HasAlarmCall(Tail(s)) => HasAlarmCall(s)
           /\ Head(s).func = "set_alarm" => HasAlarmCall(s) /\ ~HasAlarmCall(Tail(s))
<1> DEFINE t == Tail(s)
<1>1. t \in Seq(CallMessages) /\ DOMAIN t = 1..(Len(s) - 1) /\ Len(s) \in Nat \ {0}
    BY HeadTailProperties, EmptySeq, LenProperties
<1>2. \A i \in DOMAIN t : t[i] = s[i + 1] /\ i + 1 \in DOMAIN s /\ i \in Nat \ {0}
    BY <1>1
<1>3. Head(s) = s[1] /\ 1 \in DOMAIN s
    BY <1>1
<1> HIDE DEF t
<1>4. OneAlarmCall(t)
  <2> SUFFICES ASSUME NEW i \in DOMAIN t, NEW j \in DOMAIN t,
                      t[i].func = "set_alarm", t[j].func = "set_alarm"
               PROVE  i = j
    BY DEF OneAlarmCall
  <2>1. i + 1 = j + 1
    BY <1>2 DEF OneAlarmCall
  <2> QED
    BY <1>2, <2>1
<1>5. HasAlarmCall(t) => HasAlarmCall(s)
    BY <1>2 DEF HasAlarmCall
<1>6. ASSUME Head(s).func = "set_alarm"
      PROVE  HasAlarmCall(s) /\ ~HasAlarmCall(t)
  <2>1. HasAlarmCall(s)
    BY <1>3, <1>6 DEF HasAlarmCall
  <2>2. ASSUME NEW i \in DOMAIN t, t[i].func = "set_alarm"
        PROVE  FALSE
    <3>1. i + 1 = 1
      BY <1>2, <1>3, <1>6, <2>2 DEF OneAlarmCall
    <3> QED
      BY <1>2, <3>1
  <2> QED
    BY <2>1, <2>2 DEF HasAlarmCall
<1> QED
    BY <1>1, <1>4, <1>5, <1>6 DEF t

LEMMA NoCalls == /\ <<>> \in Seq(CallMessages)
                 /\ ~HasAlarmCall(<<>>) /\ OneAlarmCall(<<>>)
    BY DEF HasAlarmCall, OneAlarmCall

\* What a program has read ahead of a new message stays as it was.
LEMMA MessageAppended ==
    ASSUME NEW s \in Seq(ClientMessages), NEW m \in ClientMessages,
           NEW stop, NEW own, NEW next \in Nat, NEW p,
           HeardOK(s, stop, own, next, p), ToldOK(s, stop, own, next, p),
           m.func # "set_alarm",
           m.func = "alarm" => m.arg \in AlarmId /\ m.arg < next
    PROVE  /\ Append(s, m) \in Seq(ClientMessages)
           /\ HeardOK(Append(s, m), stop, own, next, p)
           /\ ToldOK(Append(s, m), stop, own, next, p)
<1> DEFINE t == Append(s, m)
<1>1. /\ t \in Seq(ClientMessages) /\ Len(t) = Len(s) + 1 /\ Len(s) \in Nat
      /\ DOMAIN s = 1..Len(s) /\ DOMAIN t = 1..(Len(s) + 1)
    BY AppendProperties, LenProperties
<1>2. /\ \A i \in DOMAIN s : i \in DOMAIN t /\ t[i] = s[i] /\ i < Len(s) + 1
      /\ t[Len(s) + 1] = m
      /\ \A i \in DOMAIN t : i \in DOMAIN s \/ i = Len(s) + 1
    BY <1>1
<1> HIDE DEF t
<1>3. \A i, a : Known(s, stop, i, a) => Known(t, stop, i, a)
    BY <1>2 DEF Known
<1>4. \A a : Known(t, stop, Len(s) + 1, a) => Known(t, stop, Len(s) + 2, a)
    BY <1>1 DEF Known
<1>5. HeardOK(t, stop, own, next, p)
  <2> SUFFICES ASSUME NEW i \in DOMAIN t, t[i].func \in {"alarm", "set_alarm"}
               PROVE  /\ t[i].arg \in AlarmId /\ t[i].arg < next
                      /\ t[i].func = "set_alarm" => own[t[i].arg] = p
                      /\ t[i].func = "alarm" /\ own[t[i].arg] = p =>
                            Known(t, stop, i, t[i].arg)
    BY DEF HeardOK
  <2>1. CASE i \in DOMAIN s
    BY <1>2, <1>3, <2>1 DEF HeardOK
  <2>2. CASE i = Len(s) + 1
    BY <1>2, <1>3, <2>2 DEF ToldOK
  <2> QED
    BY <1>2, <2>1, <2>2
<1>6. ToldOK(t, stop, own, next, p)
  <2>1. Len(t) + 1 = Len(s) + 2
    BY <1>1
  <2> QED
    BY <1>3, <1>4, <2>1 DEF ToldOK
<1> QED
    BY <1>1, <1>5, <1>6 DEF t

\* set_alarm gives alarm next to p.  What the programs have heard stays right.
LEMMA AlarmGiven ==
    ASSUME NEW s, NEW stop, NEW own, NEW next \in AlarmId, NEW p, NEW q,
           DOMAIN own = AlarmId
    PROVE  LET own2 == [own EXCEPT ![next] = p]
           IN /\ HeardOK(s, stop, own, next, q) => HeardOK(s, stop, own2, next + 1, q)
              /\ ToldOK(s, stop, own, next, q) /\ q # p => ToldOK(s, stop, own2, next + 1, q)
<1> DEFINE own2 == [own EXCEPT ![next] = p]
<1>1. \A a \in AlarmId : /\ a < next => own2[a] = own[a]
                         /\ a < next => a < next + 1
                         /\ a < next + 1 => a < next \/ a = next
    BY DEF AlarmId
<1>2. own2[next] = p
    OBVIOUS
<1> HIDE DEF own2
<1>3. HeardOK(s, stop, own, next, q) => HeardOK(s, stop, own2, next + 1, q)
    BY <1>1 DEF HeardOK
<1>4. ToldOK(s, stop, own, next, q) /\ q # p => ToldOK(s, stop, own2, next + 1, q)
    BY <1>1, <1>2 DEF ToldOK
<1> QED
    BY <1>3, <1>4 DEF own2

\* The id of the alarm follows what p has heard.
LEMMA AlarmTold ==
    ASSUME NEW s \in Seq(ClientMessages), NEW stop, NEW own, NEW next \in AlarmId, NEW p,
           DOMAIN own = AlarmId, HeardOK(s, stop, own, next, p),
           \A a \in AlarmId : a < next => own[a] # p
    PROVE  LET own2 == [own EXCEPT ![next] = p]
               t == Append(s, Result("set_alarm", next))
           IN /\ t \in Seq(ClientMessages)
              /\ HeardOK(t, stop, own2, next + 1, p)
              /\ ToldOK(t, stop, own2, next + 1, p)
<1> DEFINE own2 == [own EXCEPT ![next] = p]
           m == Result("set_alarm", next)
           t == Append(s, m)
<1>1. next \in Nat /\ next < next + 1 /\ \A a \in AlarmId : a < next + 1 => a < next \/ a = next
    BY DEF AlarmId
<1>2. m \in ClientMessages /\ m.func = "set_alarm" /\ m.arg = next
    BY <1>1 DEF Result, ClientMessages, Functions
<1>3. HeardOK(s, stop, own2, next + 1, p)
    BY AlarmGiven
<1>4. /\ own2[next] = p
      /\ \A a \in AlarmId : a < next => own2[a] # p
    BY <1>1
<1> HIDE DEF own2, m
<1>5. /\ t \in Seq(ClientMessages) /\ Len(t) = Len(s) + 1 /\ Len(s) \in Nat
      /\ DOMAIN s = 1..Len(s) /\ DOMAIN t = 1..(Len(s) + 1)
    BY <1>2, AppendProperties, LenProperties
<1>6. /\ \A i \in DOMAIN s : i \in DOMAIN t /\ t[i] = s[i] /\ i < Len(s) + 1
      /\ t[Len(s) + 1] = m /\ Len(s) + 1 < Len(t) + 1 /\ Len(s) + 1 \in DOMAIN t
      /\ \A i \in DOMAIN t : i \in DOMAIN s \/ i = Len(s) + 1
    BY <1>2, <1>5
<1> HIDE DEF t
<1>7. HeardOK(t, stop, own2, next + 1, p)
  <2> SUFFICES ASSUME NEW i \in DOMAIN t, t[i].func \in {"alarm", "set_alarm"}
               PROVE  /\ t[i].arg \in AlarmId /\ t[i].arg < next + 1
                      /\ t[i].func = "set_alarm" => own2[t[i].arg] = p
                      /\ t[i].func = "alarm" /\ own2[t[i].arg] = p =>
                            Known(t, stop, i, t[i].arg)
    BY DEF HeardOK
  <2>1. CASE i \in DOMAIN s
    BY <1>3, <1>6, <2>1 DEF HeardOK, Known
  <2>2. CASE i = Len(s) + 1
    BY <1>1, <1>2, <1>4, <1>6, <2>2
  <2> QED
    BY <1>6, <2>1, <2>2
<1>8. ToldOK(t, stop, own2, next + 1, p)
  <2>1. Known(t, stop, Len(t) + 1, next)
    BY <1>6 DEF Known, m
  <2> QED
    BY <1>1, <1>4, <2>1 DEF ToldOK
<1> QED
    BY <1>5, <1>7, <1>8 DEF own2, m, t

\* The client reads a message; the id of its alarm goes to stopAlarm.
LEMMA MessageRead ==
    ASSUME NEW s \in Seq(ClientMessages), s # <<>>,
           NEW stop, NEW stop2, NEW own, NEW next \in Nat, NEW p,
           HeardOK(s, stop, own, next, p), ToldOK(s, stop, own, next, p),
           \A a, b \in AlarmId : a < next /\ b < next /\ own[a] = own[b] => a = b,
           stop2 = IF Head(s).func = "set_alarm" THEN Head(s).arg ELSE stop
    PROVE  /\ Tail(s) \in Seq(ClientMessages)
           /\ HeardOK(Tail(s), stop2, own, next, p)
           /\ ToldOK(Tail(s), stop2, own, next, p)
<1> DEFINE t == Tail(s)
<1>1. /\ t \in Seq(ClientMessages) /\ Len(s) \in Nat \ {0} /\ Len(t) = Len(s) - 1
      /\ DOMAIN s = 1..Len(s) /\ DOMAIN t = 1..(Len(s) - 1)
    BY HeadTailProperties, EmptySeq, LenProperties
<1>2. /\ \A i \in DOMAIN t : t[i] = s[i + 1] /\ i + 1 \in DOMAIN s /\ i \in Nat
      /\ \A j \in DOMAIN s : j # 1 => j - 1 \in DOMAIN t /\ t[j - 1] = s[j] /\ j \in Nat
      /\ Head(s) = s[1] /\ 1 \in DOMAIN s
    BY <1>1
<1> HIDE DEF t
<1>3. ASSUME NEW a \in AlarmId, NEW i \in Nat, a < next, own[a] = p, Known(s, stop, i + 1, a)
      PROVE  Known(t, stop2, i, a)
  <2>1. CASE stop = a
    <3>1. stop2 = a
      BY <1>2, <1>3, <2>1 DEF HeardOK
    <3> QED
      BY <3>1 DEF Known
  <2>2. ASSUME NEW j \in DOMAIN s, j < i + 1, s[j] = Result("set_alarm", a)
        PROVE  Known(t, stop2, i, a)
    <3>1. CASE j = 1
      <4>1. stop2 = a
        BY <1>2, <2>2, <3>1 DEF Result
      <4> QED
        BY <4>1 DEF Known
    <3>2. CASE j # 1
      <4>1. j - 1 \in DOMAIN t /\ t[j - 1] = s[j] /\ j - 1 < i
        BY <1>2, <2>2, <3>2
      <4> QED
        BY <2>2, <4>1 DEF Known
    <3> QED
      BY <3>1, <3>2
  <2> QED
    BY <1>3, <2>1, <2>2 DEF Known
<1>4. HeardOK(t, stop2, own, next, p)
  <2> SUFFICES ASSUME NEW i \in DOMAIN t, t[i].func \in {"alarm", "set_alarm"}
               PROVE  /\ t[i].arg \in AlarmId /\ t[i].arg < next
                      /\ t[i].func = "set_alarm" => own[t[i].arg] = p
                      /\ t[i].func = "alarm" /\ own[t[i].arg] = p =>
                            Known(t, stop2, i, t[i].arg)
    BY DEF HeardOK
  <2>1. t[i] = s[i + 1] /\ i + 1 \in DOMAIN s /\ i \in Nat
    BY <1>2
  <2>2. /\ t[i].arg \in AlarmId /\ t[i].arg < next
        /\ t[i].func = "set_alarm" => own[t[i].arg] = p
        /\ t[i].func = "alarm" /\ own[t[i].arg] = p => Known(s, stop, i + 1, t[i].arg)
    BY <2>1 DEF HeardOK
  <2> QED
    BY <1>3, <2>1, <2>2
<1>5. ToldOK(t, stop2, own, next, p)
  <2>1. Len(t) + 1 \in Nat /\ Len(s) + 1 = (Len(t) + 1) + 1
    BY <1>1
  <2> QED
    BY <1>3, <2>1 DEF ToldOK
<1> QED
    BY <1>1, <1>4, <1>5 DEF t

------------------------------------------------------------------------------
(***************************************************************************)
(* The calls.                                                              *)
(***************************************************************************)

LEMMA ProgramSets ==
    /\ IsFiniteSet(Setters) /\ Setters \subseteq Programs /\ Cardinality(Setters) \in Nat
    /\ AlarmId = 1..Cardinality(Setters)
    /\ IsFiniteSet(WillSet) /\ WillSet \subseteq Setters /\ Cardinality(WillSet) \in Nat
<1>1. IsFiniteSet(Setters) /\ Setters \subseteq Programs /\ AlarmId = 1..Cardinality(Setters)
    BY ClockAssumption DEF Setters, Programs, AlarmId
<1>2. WillSet \subseteq Setters
    BY DEF WillSet
<1>3. IsFiniteSet(WillSet)
    BY <1>1, <1>2, FS_Subset
<1> QED
    BY <1>1, <1>2, <1>3, FS_CardinalityType

\* What a step may do to the calls of q that are on their way: only main, once, calls
\* set_alarm.
CallsChange(q) ==
    \/ calls'[q] \in {calls[q], <<>>}
    \/ calls[q] # <<>> /\ calls'[q] = Tail(calls[q])
    \/ \E c \in CallMessages : c.func # "set_alarm" /\ calls'[q] = calls[q] \o <<c>>
    \/ /\ program[q] = "new" /\ program'[q] # "new" /\ q \in Setters
       /\ calls'[q] \in Seq(CallMessages) /\ OneAlarmCall(calls'[q])

LEMMA MainCalls ==
    /\ LET cs == <<Call("get_time", 0), Call("set_alarm", 0)>>
       IN /\ cs \in Seq(CallMessages)
          /\ {c.func : c \in ToSet(cs)} = {"get_time", "set_alarm"}
          /\ \A s \in Seq(CallMessages) : ~HasAlarmCall(s) =>
                s \o cs \in Seq(CallMessages) /\ OneAlarmCall(s \o cs)
    /\ LET cs == <<Call("get_time", 0), Call("set_tick_interval", 1), Call("set_alarm", 0)>>
       IN /\ cs \in Seq(CallMessages)
          /\ {c.func : c \in ToSet(cs)} = {"get_time", "set_tick_interval", "set_alarm"}
          /\ \A s \in Seq(CallMessages) : ~HasAlarmCall(s) =>
                s \o cs \in Seq(CallMessages) /\ OneAlarmCall(s \o cs)
<1>1. ASSUME NEW cs \in Seq(CallMessages), OneAlarmCall(cs),
             NEW s \in Seq(CallMessages), ~HasAlarmCall(s)
      PROVE  s \o cs \in Seq(CallMessages) /\ OneAlarmCall(s \o cs)
  <2> DEFINE t == s \o cs
  <2>1. /\ t \in Seq(CallMessages) /\ DOMAIN t = 1..(Len(s) + Len(cs))
        /\ Len(s) \in Nat /\ Len(cs) \in Nat /\ DOMAIN cs = 1..Len(cs) /\ DOMAIN s = 1..Len(s)
    OBVIOUS
  <2>2. \A i \in DOMAIN t : IF i \in DOMAIN s THEN t[i] = s[i]
                            ELSE i - Len(s) \in DOMAIN cs /\ t[i] = cs[i - Len(s)] /\ i \in Nat
    BY <2>1
  <2> HIDE DEF t
  <2>3. OneAlarmCall(t)
    <3> SUFFICES ASSUME NEW i \in DOMAIN t, NEW j \in DOMAIN t,
                        t[i].func = "set_alarm", t[j].func = "set_alarm"
                 PROVE  i = j
      BY DEF OneAlarmCall
    <3>1. i \notin DOMAIN s /\ j \notin DOMAIN s
      BY <1>1, <2>2 DEF HasAlarmCall
    <3>2. i - Len(s) = j - Len(s)
      BY <1>1, <2>2, <3>1 DEF OneAlarmCall
    <3> QED
      BY <2>1, <2>2, <3>1, <3>2
  <2> QED
    BY <2>1, <2>3 DEF t
<1>2. LET cs == <<Call("get_time", 0), Call("set_alarm", 0)>>
      IN /\ cs \in Seq(CallMessages) /\ OneAlarmCall(cs)
         /\ {c.func : c \in ToSet(cs)} = {"get_time", "set_alarm"}
  <2> DEFINE cs == <<Call("get_time", 0), Call("set_alarm", 0)>>
  <2>1. Call("get_time", 0) \in CallMessages /\ Call("set_alarm", 0) \in CallMessages
    BY DEF Call, CallMessages, Functions
  <2>2. cs \in Seq(CallMessages)
    BY <2>1
  <2>3. DOMAIN cs = {1, 2} /\ cs[1].func = "get_time" /\ cs[2].func = "set_alarm"
    BY DEF Call
  <2> HIDE DEF cs
  <2>4. OneAlarmCall(cs)
    BY <2>3 DEF OneAlarmCall
  <2>5. {c.func : c \in ToSet(cs)} = {"get_time", "set_alarm"}
    BY <2>3 DEF ToSet
  <2> QED
    BY <2>2, <2>4, <2>5 DEF cs
<1>3. LET cs == <<Call("get_time", 0), Call("set_tick_interval", 1), Call("set_alarm", 0)>>
      IN /\ cs \in Seq(CallMessages) /\ OneAlarmCall(cs)
         /\ {c.func : c \in ToSet(cs)} = {"get_time", "set_tick_interval", "set_alarm"}
  <2> DEFINE cs == <<Call("get_time", 0), Call("set_tick_interval", 1), Call("set_alarm", 0)>>
  <2>1. /\ Call("get_time", 0) \in CallMessages /\ Call("set_alarm", 0) \in CallMessages
        /\ Call("set_tick_interval", 1) \in CallMessages
    BY DEF Call, CallMessages, Functions
  <2>2. cs \in Seq(CallMessages)
    BY <2>1
  <2>3. /\ DOMAIN cs = {1, 2, 3} /\ cs[1].func = "get_time"
        /\ cs[2].func = "set_tick_interval" /\ cs[3].func = "set_alarm"
    BY DEF Call
  <2> HIDE DEF cs
  <2>4. OneAlarmCall(cs)
    BY <2>3 DEF OneAlarmCall
  <2>5. {c.func : c \in ToSet(cs)} = {"get_time", "set_tick_interval", "set_alarm"}
    BY <2>3 DEF ToSet
  <2> QED
    BY <2>2, <2>4, <2>5 DEF cs
<1> QED
    BY <1>1, <1>2, <1>3

\* A client calls one function after main.
LEMMA OneCall ==
    ASSUME NEW f \in Functions \ {"set_alarm"}, NEW arg \in Nat
    PROVE  /\ Call(f, arg) \in CallMessages /\ Call(f, arg).func = f
           /\ {c.func : c \in ToSet(<<Call(f, arg)>>)} = {f}
<1>1. Call(f, arg) \in CallMessages /\ Call(f, arg).func = f
    BY DEF Call, CallMessages
<1>2. ToSet(<<Call(f, arg)>>) = {Call(f, arg)}
    BY DEF ToSet
<1> QED
    BY <1>1, <1>2

LEMMA CallSent ==
    ASSUME Inv, NEW p \in Programs, NEW f \in Functions \ {"set_alarm"}, NEW arg \in Nat,
           Calls(p, <<Call(f, arg)>>)
    PROVE  /\ calls' \in [Programs -> Seq(CallMessages)] /\ \A q \in Programs : CallsChange(q)
           /\ inProgress' \in [Programs -> SUBSET Functions]
<1> DEFINE c == Call(f, arg)
<1>1. /\ calls \in [Programs -> Seq(CallMessages)]
      /\ inProgress \in [Programs -> SUBSET Functions]
    BY DEF Inv, MessagesOK, TypeOK
<1>2. c \in CallMessages /\ c.func # "set_alarm"
    BY OneCall
<1>3. inProgress' = [inProgress EXCEPT ![p] = @ \cup {f}]
    BY OneCall DEF Calls
<1>4. calls' = calls \/ calls' = [calls EXCEPT ![p] = @ \o <<c>>]
    BY DEF Calls
<1> HIDE DEF c
<1>5. calls[p] \o <<c>> \in Seq(CallMessages)
    BY <1>1, <1>2
<1>6. calls' \in [Programs -> Seq(CallMessages)]
    BY <1>1, <1>4, <1>5
<1>7. \A q \in Programs : calls'[q] = calls[q] \/ calls'[q] = calls[q] \o <<c>>
    BY <1>1, <1>4
<1>8. inProgress' \in [Programs -> SUBSET Functions]
    BY <1>1, <1>3
<1> QED
    BY <1>2, <1>6, <1>7, <1>8 DEF CallsChange

LEMMA MainStep ==
    ASSUME Inv, NEW p \in Programs, MainCpp(p) \/ MainPy(p)
    PROVE  /\ calls' \in [Programs -> Seq(CallMessages)] /\ \A q \in Programs : CallsChange(q)
           /\ inProgress' \in [Programs -> SUBSET Functions]
           /\ program' = [program EXCEPT ![p] = "running"] /\ program[p] = "new"
           /\ p \in WillSet
<1>1. /\ calls \in [Programs -> Seq(CallMessages)] /\ DOMAIN program = Programs
      /\ inProgress \in [Programs -> SUBSET Functions]
    BY DEF Inv, MessagesOK, TypeOK
<1>2. /\ program[p] = "new" /\ p \in Setters /\ program' = [program EXCEPT ![p] = "running"]
      /\ Running
    BY DEF MainCpp, MainPy, Setters
<1>3. ~HasAlarmCall(calls[p]) /\ calls[p] \in Seq(CallMessages)
    BY <1>1, <1>2 DEF Inv, CountOK
<1>4. PICK cs : /\ Calls(p, cs) /\ {c.func : c \in ToSet(cs)} \subseteq Functions
                /\ calls[p] \o cs \in Seq(CallMessages) /\ OneAlarmCall(calls[p] \o cs)
  <2>1. CASE MainCpp(p)
    BY <1>3, <2>1, MainCalls DEF MainCpp, Functions
  <2>2. CASE MainPy(p)
    BY <1>3, <2>2, MainCalls DEF MainPy, Functions
  <2> QED
    BY <2>1, <2>2
<1>5. /\ calls' = [calls EXCEPT ![p] = @ \o cs]
      /\ inProgress' \in [Programs -> SUBSET Functions]
    BY <1>1, <1>2, <1>4 DEF Calls
<1>6. calls' \in [Programs -> Seq(CallMessages)]
    BY <1>1, <1>4, <1>5
<1>7. calls'[p] = calls[p] \o cs /\ \A q \in Programs \ {p} : calls'[q] = calls[q]
    BY <1>1, <1>5
<1>8. program'[p] # "new"
    BY <1>1, <1>2
<1> QED
    BY <1>1, <1>2, <1>4, <1>5, <1>6, <1>7, <1>8 DEF CallsChange, WillSet

LEMMA CallsStep ==
    ASSUME Inv, [Next]_vars
    PROVE  /\ calls' \in [Programs -> Seq(CallMessages)] /\ \A q \in Programs : CallsChange(q)
           /\ inProgress' \in [Programs -> SUBSET Functions]
           /\ \A q \in Programs : program'[q] = "new" => program[q] = "new"
<1> DEFINE Goal == /\ calls' \in [Programs -> Seq(CallMessages)]
                   /\ \A q \in Programs : CallsChange(q)
                   /\ inProgress' \in [Programs -> SUBSET Functions]
                   /\ \A q \in Programs : program'[q] = "new" => program[q] = "new"
<1>1. /\ calls \in [Programs -> Seq(CallMessages)] /\ DOMAIN program = Programs
      /\ inProgress \in [Programs -> SUBSET Functions]
    BY DEF Inv, MessagesOK, TypeOK
<1>2. CASE UNCHANGED <<calls, inProgress, program>>
    BY <1>1, <1>2 DEF CallsChange
<1>3. ASSUME NEW p \in Programs, MainCpp(p) \/ MainPy(p)
      PROVE  Goal
  <2>1. program' = [program EXCEPT ![p] = "running"]
    BY <1>3, MainStep
  <2>2. \A q \in Programs : program'[q] = "new" => program[q] = "new"
    BY <1>1, <2>1
  <2> QED
    BY <1>3, <2>2, MainStep
<1>4. ASSUME NEW p \in Programs, SetClockTick(p) \/ HandleEventCpp(p)
      PROVE  Goal
  <2>1. UNCHANGED program
    BY <1>4 DEF SetClockTick, HandleEventCpp, LoopContinues
  <2>2. \/ UNCHANGED <<calls, inProgress>>
        \/ \E f \in Functions \ {"set_alarm"}, arg \in Nat : Calls(p, <<Call(f, arg)>>)
    BY <1>4 DEF SetClockTick, HandleEventCpp, Functions
  <2> QED
    BY <1>2, <2>1, <2>2, CallSent
<1>5. ASSUME NEW p \in Programs, OtherCall(p)
      PROVE  Goal
  <2>1. PICK c \in CallMessages : /\ c.func # "set_alarm" /\ calls' = [calls EXCEPT ![p] = <<c>>]
                                  /\ calls[p] = <<>>
    <3>1. \A a \in 1..(nextAlarmId - 1) : a \in Nat
      BY DEF Inv, CountOK
    <3>2. PICK c \in {Call("set_tick_interval", on) : on \in {0, 1}} \cup
                        {Call("cancel_alarm", a) : a \in 1..(nextAlarmId - 1)} :
             calls' = [calls EXCEPT ![p] = <<c>>]
      BY <1>5 DEF OtherCall
    <3>3. PICK f \in {"set_tick_interval", "cancel_alarm"}, arg \in Nat : c = Call(f, arg)
      BY <3>1
    <3>4. f \in Functions \ {"set_alarm"}
      BY DEF Functions
    <3>5. c \in CallMessages /\ c.func # "set_alarm"
      BY <3>3, <3>4, OneCall
    <3> QED
      BY <1>5, <3>2, <3>5 DEF OtherCall
  <2>2. <<c>> \in Seq(CallMessages) /\ <<>> \o <<c>> = <<c>>
    OBVIOUS
  <2>3. calls'[p] = calls[p] \o <<c>> /\ \A q \in Programs \ {p} : calls'[q] = calls[q]
    BY <1>1, <2>1, <2>2
  <2>4. calls' \in [Programs -> Seq(CallMessages)]
    BY <1>1, <2>1, <2>2
  <2>5. UNCHANGED <<inProgress, program>>
    BY <1>5 DEF OtherCall
  <2> QED
    BY <1>1, <2>1, <2>3, <2>4, <2>5 DEF CallsChange
<1>6. ASSUME NEW p \in Programs, HandleResult(p) \/ HandleEventPy(p) \/ HandleEof(p)
      PROVE  Goal
  <2>1. UNCHANGED calls
    BY <1>6 DEF HandleResult, HandleEventPy, HandleEof
  <2>2. inProgress' \in [Programs -> SUBSET Functions]
    BY <1>1, <1>6 DEF HandleResult, HandleEventPy, HandleEof
  <2>3. \A q \in Programs : program'[q] = "new" => program[q] = "new"
    BY <1>1, <1>6
    DEF HandleResult, HandleEventPy, HandleEof, LoopContinues, LoopEnds
  <2> QED
    BY <1>1, <2>1, <2>2, <2>3 DEF CallsChange
<1>7. ASSUME calls' = [p \in Programs |-> <<>>], UNCHANGED <<inProgress, program>>
      PROVE  Goal
    BY <1>1, <1>7, NoCalls DEF CallsChange
<1>8. ASSUME NEW p \in Programs, Serve(p)
      PROVE  Goal
  <2>1. UNCHANGED <<inProgress, program>>
    BY <1>8 DEF Serve, programVars
  <2>2. CASE calls' = [calls EXCEPT ![p] = Tail(@)]
    <3>1. calls[p] \in Seq(CallMessages) /\ calls[p] # <<>> /\ OneAlarmCall(calls[p])
      BY <1>1, <1>8 DEF Serve, Inv, CountOK
    <3>2. Tail(calls[p]) \in Seq(CallMessages)
      BY <3>1, CallTaken
    <3>3. calls' \in [Programs -> Seq(CallMessages)]
      BY <1>1, <2>2, <3>2
    <3>4. calls'[p] = Tail(calls[p]) /\ \A q \in Programs \ {p} : calls'[q] = calls[q]
      BY <1>1, <2>2
    <3> QED
      BY <1>1, <2>1, <3>1, <3>3, <3>4 DEF CallsChange
  <2>3. CASE close_service(p)
    BY <1>7, <2>1, <2>3 DEF close_service, ServiceEnds
  <2> QED
    BY <1>8, <2>2, <2>3 DEF Serve
<1>9. CASE \/ TickExpires \/ tickTimer \/ UNCHANGED vars
           \/ \E a \in AlarmId : AlarmExpires(a) \/ HandleAlarm(a)
    BY <1>2, <1>9 DEF TickExpires, tickTimer, AlarmExpires, HandleAlarm, vars, programVars
<1>10. CASE signal_handler
    BY <1>7, <1>10 DEF signal_handler, ServiceEnds, programVars
<1> QED
    BY <1>3, <1>4, <1>5, <1>6, <1>8, <1>9, <1>10 DEF Next, ProgramStep, AlarmStep

------------------------------------------------------------------------------
(***************************************************************************)
(* The alarms that are in use, and who set them.                           *)
(***************************************************************************)

LEMMA WillSetStep ==
    ASSUME Inv, [Next]_vars
    PROVE  /\ \A q \in Programs :
                 /\ OneAlarmCall(calls'[q])
                 /\ HasAlarmCall(calls'[q]) => q \in Setters /\ program'[q] # "new"
           /\ WillSet' \subseteq WillSet
<1>1. ASSUME NEW q \in Programs
      PROVE  /\ OneAlarmCall(calls'[q])
             /\ HasAlarmCall(calls'[q]) =>
                   \/ HasAlarmCall(calls[q])
                   \/ program[q] = "new" /\ program'[q] # "new" /\ q \in Setters
  <2>1. calls[q] \in Seq(CallMessages) /\ OneAlarmCall(calls[q])
    BY DEF Inv, MessagesOK, CountOK
  <2>2. CASE calls'[q] \in {calls[q], <<>>}
    BY <2>1, <2>2, NoCalls
  <2>3. CASE calls[q] # <<>> /\ calls'[q] = Tail(calls[q])
    BY <2>1, <2>3, CallTaken
  <2>4. ASSUME NEW c \in CallMessages, c.func # "set_alarm", calls'[q] = calls[q] \o <<c>>
        PROVE  OneAlarmCall(calls'[q]) /\ (HasAlarmCall(calls'[q]) => HasAlarmCall(calls[q]))
    BY <2>1, <2>4, CallsAppended
  <2>5. CallsChange(q)
    BY CallsStep
  <2> QED
    BY <2>2, <2>3, <2>4, <2>5 DEF CallsChange
<1>2. \A q \in Programs : program'[q] = "new" => program[q] = "new"
    BY CallsStep
<1>3. \A q \in Programs : HasAlarmCall(calls[q]) => q \in Setters /\ program[q] # "new"
    BY DEF Inv, CountOK
<1>4. WillSet' \subseteq WillSet
    BY <1>1, <1>2, ProgramSets DEF WillSet
<1> QED
    BY <1>1, <1>2, <1>3, <1>4

\* A program whose set_alarm is served was in WillSet and leaves it; the id is free.
LEMMA SetAlarmStep ==
    ASSUME Inv, [Next]_vars, NEW p \in Programs, set_alarm(p), calls[p] # <<>>,
           Head(calls[p]).func = "set_alarm", calls' = [calls EXCEPT ![p] = Tail(@)],
           UNCHANGED program
    PROVE  /\ p \in WillSet /\ WillSet' \subseteq WillSet \ {p}
           /\ nextAlarmId \in AlarmId
           /\ nextAlarmId' - 1 + Cardinality(WillSet') <= Cardinality(Setters)
<1>1. calls[p] \in Seq(CallMessages) /\ OneAlarmCall(calls[p])
    BY DEF Inv, MessagesOK, CountOK
<1>2. HasAlarmCall(calls[p]) /\ ~HasAlarmCall(Tail(calls[p]))
    BY <1>1, CallTaken
<1>3. p \in WillSet /\ program[p] # "new"
    BY <1>2 DEF Inv, CountOK, WillSet
<1>4. calls'[p] = Tail(calls[p])
    BY DEF Inv, MessagesOK
<1>5. p \notin WillSet'
    BY <1>2, <1>3, <1>4 DEF WillSet
<1>6. WillSet' \subseteq WillSet \ {p}
    BY <1>5, WillSetStep
<1>7. /\ Cardinality(WillSet \ {p}) = Cardinality(WillSet) - 1
      /\ IsFiniteSet(WillSet \ {p})
    BY <1>3, ProgramSets, FS_RemoveElement
<1>8. /\ Cardinality(WillSet') \in Nat /\ Cardinality(WillSet') <= Cardinality(WillSet) - 1
      /\ Cardinality(WillSet) \in Nat
    BY <1>6, <1>7, ProgramSets, FS_Subset, FS_CardinalityType
<1>9. /\ nextAlarmId \in Nat \ {0} /\ nextAlarmId' = nextAlarmId + 1
      /\ nextAlarmId - 1 + Cardinality(WillSet) <= Cardinality(Setters)
      /\ Cardinality(Setters) \in Nat
    BY ProgramSets DEF Inv, CountOK, set_alarm
<1>10. nextAlarmId \in 1..Cardinality(Setters)
    BY <1>8, <1>9
<1>11. nextAlarmId' - 1 + Cardinality(WillSet') <= Cardinality(Setters)
    BY <1>8, <1>9
<1> QED
    BY <1>3, <1>6, <1>10, <1>11, ProgramSets

\* What a step may do to the owners of the alarms.
LEMMA OwnerStep ==
    ASSUME Inv, [Next]_vars
    PROVE  \/ UNCHANGED <<owner, nextAlarmId>>
           \/ \E p \in Programs :
                 /\ set_alarm(p) /\ calls[p] # <<>> /\ Head(calls[p]).func = "set_alarm"
                 /\ calls' = [calls EXCEPT ![p] = Tail(@)] /\ UNCHANGED programVars
<1>1. ASSUME NEW p \in Programs, Serve(p)
      PROVE  \/ UNCHANGED <<owner, nextAlarmId>>
             \/ /\ set_alarm(p) /\ calls[p] # <<>> /\ Head(calls[p]).func = "set_alarm"
                /\ calls' = [calls EXCEPT ![p] = Tail(@)] /\ UNCHANGED programVars
    BY <1>1
    DEF Serve, get_time, set_tick_interval, cancel_alarm, close_service, ServiceEnds,
        serviceVars
<1>2. ASSUME NEW p \in Programs,
             \/ MainCpp(p) \/ MainPy(p) \/ OtherCall(p) \/ ProgramStep(p)
      PROVE  UNCHANGED <<owner, nextAlarmId>>
    BY <1>2
    DEF MainCpp, MainPy, OtherCall, ProgramStep, SetClockTick, HandleResult, HandleEventCpp,
        HandleEventPy, HandleEof, serviceVars
<1>3. CASE UNCHANGED vars
    BY <1>3 DEF vars, serviceVars
<1> QED
    BY <1>1, <1>2, <1>3
    DEF Next, TickExpires, tickTimer, AlarmStep, AlarmExpires, HandleAlarm, signal_handler,
        ServiceEnds

LEMMA CountStep ==
    ASSUME Inv, [Next]_vars
    PROVE  CountOK'
<1>1. nextAlarmId \in Nat \ {0} /\ nextAlarmId - 1 + Cardinality(WillSet) <= Cardinality(Setters)
    BY DEF Inv, CountOK
<1>2. CASE UNCHANGED <<owner, nextAlarmId>>
  <2>1. Cardinality(WillSet') \in Nat /\ Cardinality(WillSet') <= Cardinality(WillSet)
    BY WillSetStep, ProgramSets, FS_Subset, FS_CardinalityType
  <2>2. /\ nextAlarmId' \in Nat \ {0}
        /\ nextAlarmId' - 1 + Cardinality(WillSet') <= Cardinality(Setters)
    BY <1>1, <1>2, <2>1, ProgramSets
  <2> QED
    BY <2>2, WillSetStep DEF CountOK
<1>3. ASSUME NEW p \in Programs, set_alarm(p), calls[p] # <<>>,
             Head(calls[p]).func = "set_alarm", calls' = [calls EXCEPT ![p] = Tail(@)],
             UNCHANGED programVars
      PROVE  CountOK'
  <2>1. nextAlarmId' \in Nat \ {0}
    BY <1>1, <1>3 DEF set_alarm
  <2>2. nextAlarmId' - 1 + Cardinality(WillSet') <= Cardinality(Setters)
    BY <1>3, SetAlarmStep DEF programVars
  <2> QED
    BY <2>1, <2>2, WillSetStep DEF CountOK
<1> QED
    BY <1>2, <1>3, OwnerStep

LEMMA OwnersStep ==
    ASSUME Inv, [Next]_vars
    PROVE  OwnersOK' /\ DOMAIN owner' = AlarmId
<1>1. /\ DOMAIN owner = AlarmId /\ alarm \in [AlarmId -> AlarmStates]
      /\ nextAlarmId \in Nat
    BY DEF Inv, MessagesOK, TypeOK, AlarmStates, CountOK
<1>2. OwnersOK
    BY DEF Inv
<1>3. WillSet' \subseteq WillSet
    BY WillSetStep
<1>4. CASE UNCHANGED <<owner, nextAlarmId>>
  <2>1. ASSUME NEW a \in AlarmId, ~(a < nextAlarmId)
        PROVE  alarm'[a] = "unset"
    <3>1. alarm[a] = "unset"
      BY <1>2, <2>1 DEF OwnersOK
    <3>2. CASE \E p : set_alarm(p)
      BY <1>1, <1>4, <3>2 DEF set_alarm
    <3>3. ASSUME NEW p, NEW b, cancel_alarm(p, b)
          PROVE  alarm'[a] = "unset"
      BY <1>1, <3>1, <3>3 DEF cancel_alarm, AlarmCancelled
    <3>4. ASSUME NEW b \in AlarmId, AlarmExpires(b) \/ HandleAlarm(b)
          PROVE  alarm'[a] = "unset"
      BY <1>1, <3>1, <3>4 DEF AlarmExpires, HandleAlarm
    <3>5. ASSUME NEW who, ServiceEnds(who)
          PROVE  alarm'[a] = "unset"
      BY <3>5 DEF ServiceEnds
    <3> QED
      BY <3>1, <3>2, <3>3, <3>4, <3>5, Steps
      DEF Quiet, Served, set_tick_interval, TickExpires, tickTimer
  <2> QED
    BY <1>1, <1>2, <1>3, <1>4, <2>1 DEF OwnersOK, Setters
<1>5. ASSUME NEW p \in Programs, set_alarm(p), calls[p] # <<>>,
             Head(calls[p]).func = "set_alarm", calls' = [calls EXCEPT ![p] = Tail(@)],
             UNCHANGED programVars
      PROVE  OwnersOK' /\ DOMAIN owner' = AlarmId
  <2>1. p \in WillSet /\ WillSet' \subseteq WillSet \ {p} /\ nextAlarmId \in AlarmId
    BY <1>5, SetAlarmStep DEF programVars
  <2>2. /\ nextAlarmId' = nextAlarmId + 1
        /\ owner' = [owner EXCEPT ![nextAlarmId] = p]
        /\ alarm' = [alarm EXCEPT ![nextAlarmId] = "waiting"]
    BY <1>5 DEF set_alarm
  <2>3. \A a \in AlarmId : /\ a < nextAlarmId => a < nextAlarmId' /\ a # nextAlarmId
                           /\ a < nextAlarmId' => a < nextAlarmId \/ a = nextAlarmId
                           /\ nextAlarmId < nextAlarmId'
    BY <1>1, <2>2 DEF AlarmId
  <2>4. /\ owner'[nextAlarmId] = p /\ DOMAIN owner' = AlarmId
        /\ \A a \in AlarmId \ {nextAlarmId} : owner'[a] = owner[a] /\ alarm'[a] = alarm[a]
    BY <1>1, <2>1, <2>2
  <2>5. p \in Setters \ WillSet'
    BY <2>1, ProgramSets
  <2>6. \A a \in AlarmId : a < nextAlarmId => owner[a] \in Setters \ WillSet
    BY <1>2 DEF OwnersOK
  <2>7. ASSUME NEW a \in AlarmId
        PROVE  IF a < nextAlarmId' THEN owner'[a] \in Setters \ WillSet'
                                   ELSE alarm'[a] = "unset"
    BY <1>2, <1>3, <2>3, <2>4, <2>5, <2>6 DEF OwnersOK
  <2>8. ASSUME NEW a \in AlarmId, NEW b \in AlarmId, a < nextAlarmId', b < nextAlarmId',
               owner'[a] = owner'[b]
        PROVE  a = b
    BY <1>2, <2>1, <2>3, <2>4, <2>6, <2>8 DEF OwnersOK
  <2> QED
    BY <2>4, <2>7, <2>8 DEF OwnersOK, Setters
<1> QED
    BY <1>4, <1>5, OwnerStep

------------------------------------------------------------------------------
(***************************************************************************)
(* The inboxes of the programs.                                            *)
(***************************************************************************)
InboxTyped == inbox \in [Programs -> Seq(ClientMessages)]

\* An answer other than that of set_alarm, or an event, reaches the programs of to.
LEMMA InboxSent ==
    ASSUME Inv, NEW m \in ClientMessages, NEW to, m.func # "set_alarm",
           m.func = "alarm" => m.arg \in AlarmId /\ m.arg < nextAlarmId,
           \A q \in to : Connected(q),
           inbox' = [q \in Programs |-> IF q \in to THEN Append(inbox[q], m) ELSE inbox[q]],
           UNCHANGED <<program, stopAlarm, owner, nextAlarmId>>
    PROVE  InboxTyped' /\ \A q \in Programs : InboxOK(q)'
<1>1. ASSUME NEW q \in Programs
      PROVE  inbox'[q] \in Seq(ClientMessages) /\ InboxOK(q)'
  <2>1. inbox[q] \in Seq(ClientMessages) /\ InboxOK(q) /\ nextAlarmId \in Nat
    BY DEF Inv, MessagesOK, CountOK
  <2>2. Connected(q)' <=> Connected(q)
    BY DEF Connected
  <2>3. CASE q \in to
    <3>1. inbox'[q] = Append(inbox[q], m) /\ Connected(q)
      BY <2>3
    <3>2. /\ HeardOK(inbox[q], stopAlarm[q], owner, nextAlarmId, q)
          /\ ToldOK(inbox[q], stopAlarm[q], owner, nextAlarmId, q)
      BY <2>1, <3>1 DEF InboxOK
    <3>3. /\ Append(inbox[q], m) \in Seq(ClientMessages)
          /\ HeardOK(Append(inbox[q], m), stopAlarm[q], owner, nextAlarmId, q)
          /\ ToldOK(Append(inbox[q], m), stopAlarm[q], owner, nextAlarmId, q)
      BY <2>1, <3>2, MessageAppended
    <3> QED
      BY <2>2, <3>1, <3>3 DEF InboxOK
  <2>4. CASE q \notin to
    <3>1. inbox'[q] = inbox[q]
      BY <2>4
    <3> QED
      BY <2>1, <2>2, <3>1 DEF InboxOK
  <2> QED
    BY <2>3, <2>4
<1> QED
    BY <1>1 DEF InboxTyped

LEMMA InboxAnswered ==
    ASSUME Inv, NEW p \in Programs, NEW f \in Functions \ {"set_alarm"}, NEW v \in Nat,
           Answer(p, f, v), UNCHANGED <<program, stopAlarm, owner, nextAlarmId>>
    PROVE  InboxTyped' /\ \A q \in Programs : InboxOK(q)'
<1> DEFINE m == Result(f, v)
           to == {q \in {p} : Connected(q)}
<1>1. m \in ClientMessages /\ m.func # "set_alarm" /\ m.func # "alarm"
    BY DEF Result, ClientMessages, Functions
<1>2. inbox \in [Programs -> Seq(ClientMessages)]
    BY DEF Inv, MessagesOK
<1>3. inbox' = [q \in Programs |-> IF q \in to THEN Append(inbox[q], m) ELSE inbox[q]]
    BY <1>2 DEF Answer
<1>4. \A q \in to : Connected(q)
    OBVIOUS
<1> HIDE DEF m, to
<1> QED
    BY <1>1, <1>3, <1>4, InboxSent

LEMMA InboxBroadcast ==
    ASSUME Inv, NEW m \in ClientMessages, m.func # "set_alarm",
           m.func = "alarm" => m.arg \in AlarmId /\ m.arg < nextAlarmId,
           broadcast_event(m), UNCHANGED <<program, stopAlarm, owner, nextAlarmId>>
    PROVE  InboxTyped' /\ \A q \in Programs : InboxOK(q)'
<1> DEFINE to == {q \in Programs : Connected(q)}
<1>1. inbox' = [q \in Programs |-> IF q \in to THEN Append(inbox[q], m) ELSE inbox[q]]
    BY DEF broadcast_event
<1>2. \A q \in to : Connected(q)
    OBVIOUS
<1> HIDE DEF to
<1> QED
    BY <1>1, <1>2, InboxSent

LEMMA InboxSetAlarm ==
    ASSUME Inv, [Next]_vars, NEW p \in Programs, set_alarm(p), calls[p] # <<>>,
           Head(calls[p]).func = "set_alarm", calls' = [calls EXCEPT ![p] = Tail(@)],
           UNCHANGED programVars
    PROVE  InboxTyped' /\ \A q \in Programs : InboxOK(q)'
<1>1. UNCHANGED <<program, stopAlarm>>
    BY DEF programVars
<1>2. nextAlarmId \in AlarmId /\ p \in WillSet
    BY <1>1, SetAlarmStep
<1>3. /\ nextAlarmId' = nextAlarmId + 1 /\ owner' = [owner EXCEPT ![nextAlarmId] = p]
      /\ DOMAIN owner = AlarmId /\ inbox \in [Programs -> Seq(ClientMessages)]
    BY DEF set_alarm, Inv, MessagesOK
<1>4. \A a \in AlarmId : a < nextAlarmId => owner[a] # p
    BY <1>2 DEF Inv, OwnersOK
<1>5. inbox' = IF Connected(p)
               THEN [inbox EXCEPT ![p] = Append(@, Result("set_alarm", nextAlarmId))]
               ELSE inbox
    BY DEF set_alarm, Answer, AlarmIdTold
<1>6. ASSUME NEW q \in Programs
      PROVE  inbox'[q] \in Seq(ClientMessages) /\ InboxOK(q)'
  <2>1. inbox[q] \in Seq(ClientMessages) /\ InboxOK(q)
    BY <1>3 DEF Inv
  <2>2. Connected(q)' <=> Connected(q)
    BY <1>1 DEF Connected
  <2>3. HeardOK(inbox[q], stopAlarm[q], owner', nextAlarmId', q)
    BY <1>2, <1>3, <2>1, AlarmGiven DEF InboxOK
  <2>4. CASE q = p /\ Connected(p)
    <3> DEFINE t == Append(inbox[p], Result("set_alarm", nextAlarmId))
    <3>1. inbox'[p] = t
      BY <1>3, <1>5, <2>4
    <3>2. /\ t \in Seq(ClientMessages)
          /\ HeardOK(t, stopAlarm[p], owner', nextAlarmId', p)
          /\ ToldOK(t, stopAlarm[p], owner', nextAlarmId', p)
      <4>1. /\ inbox[p] \in Seq(ClientMessages)
            /\ HeardOK(inbox[p], stopAlarm[p], owner, nextAlarmId, p)
        BY <2>1, <2>4 DEF InboxOK
      <4>2. /\ t \in Seq(ClientMessages)
            /\ HeardOK(t, stopAlarm[p], [owner EXCEPT ![nextAlarmId] = p], nextAlarmId + 1, p)
            /\ ToldOK(t, stopAlarm[p], [owner EXCEPT ![nextAlarmId] = p], nextAlarmId + 1, p)
        BY <1>2, <1>3, <1>4, <4>1, AlarmTold
      <4> QED
        BY <1>3, <4>2
    <3> HIDE DEF t
    <3> QED
      BY <1>1, <2>2, <2>4, <3>1, <3>2 DEF InboxOK
  <2>5. CASE q = p /\ ~Connected(p)
    <3>1. inbox'[q] = inbox[q]
      BY <1>5, <2>5
    <3> QED
      BY <1>1, <2>1, <2>2, <2>3, <2>5, <3>1 DEF InboxOK
  <2>6. CASE q # p
    <3>1. inbox'[q] = inbox[q]
      BY <1>3, <1>5, <2>6
    <3>2. ToldOK(inbox[q], stopAlarm[q], owner, nextAlarmId, q) =>
             ToldOK(inbox[q], stopAlarm[q], owner', nextAlarmId', q)
      BY <1>2, <1>3, <2>6, AlarmGiven
    <3> QED
      BY <1>1, <2>1, <2>2, <2>3, <3>1, <3>2 DEF InboxOK
  <2> QED
    BY <2>4, <2>5, <2>6
<1>7. inbox' = [q \in Programs |-> inbox'[q]]
    BY <1>3, <1>5
<1> QED
    BY <1>6, <1>7 DEF InboxTyped

LEMMA InboxRead ==
    ASSUME Inv, NEW p \in Programs, Arrived(p), LoopContinues(p) \/ LoopEnds(p),
           stopAlarm' = StopAlarmSet(p, Head(inbox[p])), UNCHANGED <<owner, nextAlarmId>>
    PROVE  InboxTyped' /\ \A q \in Programs : InboxOK(q)'
<1>1. /\ inbox \in [Programs -> Seq(ClientMessages)] /\ inbox[p] # <<>>
      /\ DOMAIN program = Programs /\ DOMAIN stopAlarm = Programs /\ nextAlarmId \in Nat
      /\ <<>> \in Seq(ClientMessages)
    BY DEF Inv, MessagesOK, TypeOK, CountOK, Arrived
<1>2. /\ Connected(p) /\ HeardOK(inbox[p], stopAlarm[p], owner, nextAlarmId, p)
      /\ ToldOK(inbox[p], stopAlarm[p], owner, nextAlarmId, p)
    BY <1>1 DEF Inv, InboxOK
<1>3. stopAlarm'[p] = IF Head(inbox[p]).func = "set_alarm" THEN Head(inbox[p]).arg
                                                           ELSE stopAlarm[p]
    BY <1>1 DEF StopAlarmSet
<1>4. /\ Tail(inbox[p]) \in Seq(ClientMessages)
      /\ HeardOK(Tail(inbox[p]), stopAlarm'[p], owner, nextAlarmId, p)
      /\ ToldOK(Tail(inbox[p]), stopAlarm'[p], owner, nextAlarmId, p)
  <2>1. \A a, b \in AlarmId :
           a < nextAlarmId /\ b < nextAlarmId /\ owner[a] = owner[b] => a = b
    BY DEF Inv, OwnersOK
  <2> QED
    BY <1>1, <1>2, <1>3, <2>1, MessageRead
<1>5. inbox'[p] \in Seq(ClientMessages) /\ InboxOK(p)'
  <2>1. CASE LoopContinues(p)
    <3>1. inbox'[p] = Tail(inbox[p]) /\ Connected(p)'
      BY <1>1, <1>2, <2>1 DEF LoopContinues, Connected
    <3> QED
      BY <1>4, <3>1 DEF InboxOK
  <2>2. CASE LoopEnds(p)
    <3>1. inbox'[p] = <<>> /\ ~Connected(p)'
      BY <1>1, <2>2 DEF LoopEnds, Connected
    <3>2. HeardOK(<<>>, stopAlarm'[p], owner', nextAlarmId', p)
      BY DEF HeardOK
    <3> QED
      BY <1>1, <3>1, <3>2 DEF InboxOK
  <2> QED
    BY <2>1, <2>2
<1>6. ASSUME NEW q \in Programs, q # p
      PROVE  inbox'[q] \in Seq(ClientMessages) /\ InboxOK(q)'
  <2>1. inbox'[q] = inbox[q] /\ stopAlarm'[q] = stopAlarm[q] /\ program'[q] = program[q]
    BY <1>1, <1>6 DEF LoopContinues, LoopEnds, StopAlarmSet
  <2> QED
    BY <1>1, <1>6, <2>1 DEF InboxOK, Connected, Inv
<1>7. inbox' = [q \in Programs |-> inbox'[q]]
    BY <1>1 DEF LoopContinues, LoopEnds
<1> QED
    BY <1>5, <1>6, <1>7 DEF InboxTyped

\* The inboxes stay, and p alone may change its state: it starts, or leaves an empty
\* inbox.
LEMMA InboxKept ==
    ASSUME Inv, UNCHANGED <<inbox, stopAlarm, owner, nextAlarmId>>,
           NEW p \in Programs, \A q \in Programs \ {p} : program'[q] = program[q],
           \/ program'[p] = program[p]
           \/ p \in WillSet /\ program[p] = "new"
           \/ inbox[p] = <<>> /\ program'[p] # "running"
    PROVE  InboxTyped' /\ \A q \in Programs : InboxOK(q)'
<1>1. ASSUME NEW q \in Programs
      PROVE  InboxOK(q)'
  <2>1. InboxOK(q)
    BY DEF Inv
  <2>2. CASE program'[q] = program[q]
    BY <2>1, <2>2 DEF InboxOK, Connected
  <2>3. CASE q = p /\ p \in WillSet /\ program[p] = "new"
    <3>1. ~Connected(p) /\ inbox[p] = <<>>
      BY <2>1, <2>3 DEF InboxOK, Connected
    <3>2. ToldOK(inbox[p], stopAlarm[p], owner, nextAlarmId, p)
      BY <2>3 DEF ToldOK, Inv, OwnersOK
    <3> QED
      BY <2>1, <2>3, <3>1, <3>2 DEF InboxOK
  <2>4. CASE q = p /\ inbox[p] = <<>> /\ program'[p] # "running"
    BY <2>1, <2>4 DEF InboxOK, Connected
  <2> QED
    BY <2>2, <2>3, <2>4
<1> QED
    BY <1>1 DEF InboxTyped, Inv, MessagesOK

LEMMA InboxSame ==
    ASSUME Inv, UNCHANGED <<inbox, program, stopAlarm, owner, nextAlarmId>>
    PROVE  InboxTyped' /\ \A q \in Programs : InboxOK(q)'
    BY DEF Inv, MessagesOK, InboxTyped, InboxOK, Connected

LEMMA InboxStep ==
    ASSUME Inv, [Next]_vars
    PROVE  InboxTyped' /\ \A q \in Programs : InboxOK(q)'
<1> DEFINE Goal == InboxTyped' /\ \A q \in Programs : InboxOK(q)'
<1>1. DOMAIN program = Programs
    BY DEF Inv, TypeOK
<1>2. CASE UNCHANGED vars
    BY <1>2, InboxSame DEF vars, serviceVars, programVars
<1>3. ASSUME NEW p \in Programs, MainCpp(p) \/ MainPy(p)
      PROVE  Goal
  <2>1. UNCHANGED <<inbox, stopAlarm, owner, nextAlarmId>>
    BY <1>3 DEF MainCpp, MainPy, serviceVars
  <2>2. program' = [program EXCEPT ![p] = "running"] /\ program[p] = "new" /\ p \in WillSet
    BY <1>3, MainStep
  <2>3. \A q \in Programs \ {p} : program'[q] = program[q]
    BY <1>1, <2>2
  <2> QED
    BY <2>1, <2>2, <2>3, InboxKept
<1>4. ASSUME NEW p \in Programs, OtherCall(p) \/ SetClockTick(p)
      PROVE  Goal
  <2>1. UNCHANGED <<inbox, program, stopAlarm, owner, nextAlarmId>>
    BY <1>4 DEF OtherCall, SetClockTick, serviceVars
  <2> QED
    BY <2>1, InboxSame
<1>5. ASSUME NEW p \in Programs, HandleEof(p)
      PROVE  Goal
  <2>1. UNCHANGED <<inbox, stopAlarm, owner, nextAlarmId>> /\ inbox[p] = <<>>
    BY <1>5 DEF HandleEof, serviceVars
  <2>2. program'[p] # "running" /\ \A q \in Programs \ {p} : program'[q] = program[q]
    BY <1>1, <1>5 DEF HandleEof
  <2> QED
    BY <2>1, <2>2, InboxKept
<1>6. ASSUME NEW p \in Programs, HandleResult(p) \/ HandleEventCpp(p) \/ HandleEventPy(p)
      PROVE  Goal
  <2>1. /\ Arrived(p) /\ UNCHANGED <<owner, nextAlarmId>>
        /\ LoopContinues(p) \/ LoopEnds(p)
    BY <1>6 DEF HandleResult, HandleEventCpp, HandleEventPy, serviceVars
  <2>2. stopAlarm' = StopAlarmSet(p, Head(inbox[p]))
    BY <1>6 DEF HandleResult, HandleEventCpp, HandleEventPy, StopAlarmSet
  <2> QED
    BY <2>1, <2>2, InboxRead
<1>7. ASSUME NEW p \in Programs, Serve(p)
      PROVE  Goal
  <2>1. UNCHANGED <<program, stopAlarm>>
    BY <1>7 DEF Serve, programVars
  <2>2. CASE UNCHANGED <<owner, nextAlarmId>>
    <3>1. \E f \in Functions \ {"set_alarm"} : Answer(p, f, 0)
      <4>1. ~set_alarm(p)
        BY <2>2 DEF set_alarm, Inv, CountOK
      <4> QED
        BY <1>7, <4>1
        DEF Serve, get_time, set_tick_interval, cancel_alarm, close_service, Functions
    <3> QED
      BY <2>1, <2>2, <3>1, InboxAnswered
  <2>3. CASE /\ set_alarm(p) /\ calls[p] # <<>> /\ Head(calls[p]).func = "set_alarm"
             /\ calls' = [calls EXCEPT ![p] = Tail(@)] /\ UNCHANGED programVars
    BY <2>3, InboxSetAlarm
  <2> QED
    BY <1>7, <2>2, <2>3
    DEF Serve, get_time, set_tick_interval, cancel_alarm, close_service, ServiceEnds,
        serviceVars
<1>8. CASE tickTimer
  <2>1. ClockTickEvent \in ClientMessages /\ ClockTickEvent.func = "tick"
    BY DEF ClockTickEvent, ClientMessages
  <2>2. broadcast_event(ClockTickEvent) /\ UNCHANGED <<program, stopAlarm, owner, nextAlarmId>>
    BY <1>8 DEF tickTimer, programVars
  <2> QED
    BY <2>1, <2>2, InboxBroadcast
<1>9. ASSUME NEW a \in AlarmId, HandleAlarm(a)
      PROVE  Goal
  <2>1. UNCHANGED <<program, stopAlarm, owner, nextAlarmId>>
    BY <1>9 DEF HandleAlarm, programVars
  <2>2. CASE alarm[a] = "expired" /\ broadcast_event(ClockAlarmEvent(a))
    <3>1. /\ ClockAlarmEvent(a) \in ClientMessages
          /\ ClockAlarmEvent(a).func = "alarm" /\ ClockAlarmEvent(a).arg = a
      BY DEF ClockAlarmEvent, ClientMessages, AlarmId
    <3>2. a < nextAlarmId
      BY <2>2 DEF Inv, OwnersOK
    <3> QED
      BY <2>1, <2>2, <3>1, <3>2, InboxBroadcast
  <2>3. CASE UNCHANGED inbox
    BY <2>1, <2>3, InboxSame
  <2> QED
    BY <1>9, <2>2, <2>3 DEF HandleAlarm
<1>10. CASE TickExpires \/ signal_handler \/ \E a \in AlarmId : AlarmExpires(a)
    BY <1>10, InboxSame
    DEF TickExpires, AlarmExpires, signal_handler, ServiceEnds, programVars
<1> QED
    BY <1>2, <1>3, <1>4, <1>5, <1>6, <1>7, <1>8, <1>9, <1>10 DEF Next, ProgramStep, AlarmStep

------------------------------------------------------------------------------
(***************************************************************************)
(* The types of the variables.                                             *)
(***************************************************************************)
ProgramStates == {"new", "running", "finished", "failed", "orphaned"}

LEMMA ServiceTypeStep ==
    ASSUME Inv, [Next]_vars
    PROVE  /\ stopper' \in Programs \cup {"nobody", "signal"}
           /\ ticking' \in BOOLEAN
           /\ tickWaits' \in Nat /\ tickQueued' \in Nat /\ ticks' \in 0..MaxTicks
<1>1. /\ stopper \in Programs \cup {"nobody", "signal"} /\ ticking \in BOOLEAN
      /\ tickWaits \in Nat /\ tickQueued \in Nat /\ ticks \in 0..MaxTicks
    BY DEF Inv, TypeOK
<1>2. stopper' \in Programs \cup {"nobody", "signal"} /\ ticking' \in BOOLEAN
    BY <1>1, Steps
    DEF Quiet, Served, set_tick_interval, set_alarm, cancel_alarm, ServiceEnds, TickExpires,
        tickTimer, AlarmExpires, HandleAlarm
<1>3. tickWaits' \in Nat /\ tickQueued' \in Nat
  <2>1. CASE UNCHANGED <<tickWaits, tickQueued>>
    BY <1>1, <2>1
  <2>2. ASSUME NEW p, NEW on, set_tick_interval(p, on)
        PROVE  tickWaits' \in Nat /\ tickQueued' \in Nat
    BY <1>1, <2>2 DEF set_tick_interval, WaitsCancelled
  <2>3. CASE TickExpires
    BY <1>1, <2>3 DEF TickExpires
  <2>4. CASE tickTimer
    BY <1>1, <2>4 DEF tickTimer, TickRearmed, WaitsCancelled
  <2>5. ASSUME NEW who, ServiceEnds(who)
        PROVE  tickWaits' \in Nat /\ tickQueued' \in Nat
    BY <2>5 DEF ServiceEnds
  <2> QED
    BY <2>1, <2>2, <2>3, <2>4, <2>5, Steps
    DEF Quiet, Served, set_alarm, cancel_alarm, AlarmExpires, HandleAlarm
<1>4. ticks' \in 0..MaxTicks
  <2>1. CASE TickExpires
    BY <1>1, <2>1, ClockAssumption DEF TickExpires
  <2>2. ticks' = ticks \/ TickExpires
    <3>1. ASSUME NEW p \in Programs, Serve(p)
          PROVE  ticks' = ticks
      BY <3>1
      DEF Serve, get_time, set_tick_interval, set_alarm, cancel_alarm, close_service,
          ServiceEnds, serviceVars
    <3>2. ASSUME NEW p \in Programs,
                 \/ MainCpp(p) \/ MainPy(p) \/ OtherCall(p) \/ ProgramStep(p)
          PROVE  ticks' = ticks
      BY <3>2
      DEF MainCpp, MainPy, OtherCall, ProgramStep, SetClockTick, HandleResult,
          HandleEventCpp, HandleEventPy, HandleEof, serviceVars
    <3> QED
      BY <3>1, <3>2
      DEF Next, vars, serviceVars, tickTimer, AlarmStep, AlarmExpires, HandleAlarm,
          signal_handler, ServiceEnds
  <2> QED
    BY <1>1, <2>1, <2>2
<1> QED
    BY <1>1, <1>2, <1>3, <1>4

LEMMA ProgramTypeStep ==
    ASSUME Inv, [Next]_vars
    PROVE  /\ program' \in [Programs -> ProgramStates]
           /\ posted' \in [Programs -> BOOLEAN]
           /\ stopAlarm' \in [Programs -> AlarmId \cup {0}]
           /\ made' \in [Programs -> 0..MaxCalls]
<1> DEFINE Goal == /\ program' \in [Programs -> ProgramStates]
                   /\ posted' \in [Programs -> BOOLEAN]
                   /\ stopAlarm' \in [Programs -> AlarmId \cup {0}]
                   /\ made' \in [Programs -> 0..MaxCalls]
<1>1. /\ program \in [Programs -> ProgramStates]
      /\ posted \in [Programs -> BOOLEAN]
      /\ stopAlarm \in [Programs -> AlarmId \cup {0}]
      /\ made \in [Programs -> 0..MaxCalls]
    BY DEF Inv, TypeOK, ProgramStates
<1>2. CASE UNCHANGED <<program, posted, stopAlarm, made>>
    BY <1>1, <1>2
<1>3. ASSUME NEW p \in Programs, MainCpp(p) \/ MainPy(p) \/ SetClockTick(p)
      PROVE  Goal
  <2>1. program' \in [Programs -> ProgramStates]
    BY <1>1, <1>3 DEF MainCpp, MainPy, SetClockTick, ProgramStates
  <2>2. posted' \in [Programs -> BOOLEAN]
    BY <1>1, <1>3 DEF MainCpp, MainPy, SetClockTick
  <2>3. UNCHANGED <<stopAlarm, made>>
    BY <1>3 DEF MainCpp, MainPy, SetClockTick
  <2> QED
    BY <1>1, <2>1, <2>2, <2>3
<1>4. ASSUME NEW p \in Programs, OtherCall(p)
      PROVE  Goal
  <2>1. UNCHANGED <<program, posted, stopAlarm>>
    BY <1>4 DEF OtherCall
  <2>2. made' = [made EXCEPT ![p] = @ + 1] /\ made[p] < MaxCalls /\ made[p] \in 0..MaxCalls
    BY <1>1, <1>4 DEF OtherCall
  <2>3. made[p] + 1 \in 0..MaxCalls
    BY <2>2, ClockAssumption
  <2>4. made' \in [Programs -> 0..MaxCalls]
    BY <1>1, <2>2, <2>3
  <2> QED
    BY <1>1, <2>1, <2>4
<1>5. ASSUME NEW p \in Programs,
             HandleResult(p) \/ HandleEventCpp(p) \/ HandleEventPy(p) \/ HandleEof(p)
      PROVE  Goal
  <2>1. UNCHANGED <<posted, made>>
    BY <1>5 DEF HandleResult, HandleEventCpp, HandleEventPy, HandleEof
  <2>2. program' \in [Programs -> ProgramStates]
    BY <1>1, <1>5
    DEF HandleResult, HandleEventCpp, HandleEventPy, HandleEof, LoopContinues, LoopEnds,
        ProgramStates
  <2>3. stopAlarm' = stopAlarm \/ HandleResult(p)
    BY <1>5 DEF HandleEventCpp, HandleEventPy, HandleEof
  <2>4. CASE HandleResult(p)
    <3>1. inbox[p] \in Seq(ClientMessages) /\ inbox[p] # <<>>
      BY <2>4 DEF HandleResult, Arrived, Inv, MessagesOK
    <3>2. 1 \in DOMAIN inbox[p] /\ Head(inbox[p]) = inbox[p][1]
      BY <3>1, EmptySeq, LenProperties
    <3>3. HeardOK(inbox[p], stopAlarm[p], owner, nextAlarmId, p)
      BY DEF Inv, InboxOK
    <3>4. Head(inbox[p]).func = "set_alarm" => Head(inbox[p]).arg \in AlarmId
      BY <3>2, <3>3 DEF HeardOK
    <3>5. stopAlarm' \in [Programs -> AlarmId \cup {0}]
      BY <1>1, <2>4, <3>4 DEF HandleResult, StopAlarmSet
    <3> QED
      BY <1>1, <2>1, <2>2, <3>5
  <2> QED
    BY <1>1, <2>1, <2>2, <2>3, <2>4
<1>6. ASSUME NEW p \in Programs, Serve(p)
      PROVE  UNCHANGED <<program, posted, stopAlarm, made>>
    BY <1>6 DEF Serve, programVars
<1>7. CASE UNCHANGED vars
    BY <1>2, <1>7 DEF vars, programVars
<1> QED
    BY <1>2, <1>3, <1>4, <1>5, <1>6, <1>7
    DEF Next, ProgramStep, TickExpires, tickTimer, AlarmStep, AlarmExpires, HandleAlarm,
        signal_handler, programVars

LEMMA TypeStep ==
    ASSUME Inv, [Next]_vars
    PROVE  TypeOK'
<1>1. nextAlarmId' - 1 \in AlarmId \cup {0}
  <2>1. /\ nextAlarmId' \in Nat \ {0} /\ Cardinality(WillSet') \in Nat
        /\ nextAlarmId' - 1 + Cardinality(WillSet') <= Cardinality(Setters)
        /\ Cardinality(Setters) \in Nat
    <3>1. WillSet' \subseteq WillSet
      BY WillSetStep
    <3>2. Cardinality(WillSet') \in Nat
      BY <3>1, ProgramSets, FS_Subset, FS_CardinalityType
    <3> QED
      BY <3>2, CountStep, ProgramSets DEF CountOK, Setters
  <2>2. \A n, k, m \in Nat : n # 0 /\ n - 1 + k <= m => n - 1 = 0 \/ n - 1 \in 1..m
    OBVIOUS
  <2>3. nextAlarmId' - 1 \in (1..Cardinality(Setters)) \cup {0}
    BY <2>1, <2>2
  <2> QED
    BY <2>3, ProgramSets
<1>2. alarm' \in [AlarmId -> AlarmStates]
    BY AlarmStatesKept DEF Inv, TypeOK, AlarmStates
<1>3. inProgress' \in [Programs -> SUBSET Functions]
    BY CallsStep
<1> QED
    BY <1>1, <1>2, <1>3, ServiceTypeStep, ProgramTypeStep DEF TypeOK, AlarmStates, ProgramStates

------------------------------------------------------------------------------
(***************************************************************************)
(* The invariant and what follows.                                         *)
(***************************************************************************)

LEMMA InvInit == Init => Inv
<1> SUFFICES ASSUME Init
             PROVE  Inv
    OBVIOUS
<1>1. <<>> \in Seq(CallMessages) /\ <<>> \in Seq(ClientMessages)
    OBVIOUS
<1>2. MessagesOK
    BY <1>1 DEF Init, MessagesOK
<1>3. TypeOK
  <2>1. 0 \in 0..MaxTicks /\ 0 \in 0..MaxCalls /\ nextAlarmId - 1 = 0
    BY ClockAssumption DEF Init
  <2>2. /\ ticks \in 0..MaxTicks /\ made \in [Programs -> 0..MaxCalls]
        /\ tickWaits \in Nat /\ tickQueued \in Nat /\ nextAlarmId - 1 \in AlarmId \cup {0}
        /\ stopAlarm \in [Programs -> AlarmId \cup {0}]
    BY <2>1 DEF Init
  <2>3. /\ stopper \in Programs \cup {"nobody", "signal"} /\ ticking \in BOOLEAN
        /\ posted \in [Programs -> BOOLEAN]
    BY DEF Init
  <2>4. /\ alarm \in [AlarmId -> {"unset", "waiting", "expired", "aborted", "purged",
                                  "cancelled"}]
        /\ program \in [Programs -> {"new", "running", "finished", "failed", "orphaned"}]
        /\ inProgress \in [Programs -> SUBSET Functions]
    BY DEF Init
  <2> QED
    BY <2>2, <2>3, <2>4 DEF TypeOK
<1>4. CountOK
  <2>1. \A p \in Programs : calls[p] = <<>> /\ program[p] = "new"
    BY DEF Init
  <2>2. WillSet = Setters
    BY <2>1, ProgramSets DEF WillSet
  <2>3. nextAlarmId = 1 /\ 1 \in Nat \ {0} /\ 1 - 1 + Cardinality(Setters) <= Cardinality(Setters)
    BY ProgramSets DEF Init
  <2> QED
    BY <2>1, <2>2, <2>3, NoCalls DEF CountOK
<1>5. OwnersOK
  <2>1. \A a \in AlarmId : ~(a < nextAlarmId) /\ alarm[a] = "unset"
    BY DEF Init, AlarmId
  <2> QED
    BY <2>1 DEF OwnersOK
<1>6. ASSUME NEW p \in Programs
      PROVE  InboxOK(p)
  <2>1. inbox[p] = <<>> /\ ~Connected(p)
    BY DEF Init, Connected
  <2> QED
    BY <2>1 DEF InboxOK, HeardOK
<1> QED
    BY <1>2, <1>3, <1>4, <1>5, <1>6 DEF Inv

LEMMA InvNext == Inv /\ [Next]_vars => Inv'
<1> SUFFICES ASSUME Inv, [Next]_vars
             PROVE  Inv'
    OBVIOUS
<1>1. MessagesOK'
    BY CallsStep, InboxStep, OwnersStep DEF MessagesOK, InboxTyped
<1> QED
    BY <1>1, TypeStep, CountStep, OwnersStep, InboxStep DEF Inv

\* The messages, the count of the alarms, their owners and what each client knows stay
\* consistent in every run of the clock example.
THEOREM ClockCorrect == Spec => []Inv
    BY InvInit, InvNext, PTL DEF Spec

\* Every variable of the clock example keeps its type: also nextAlarmId, for no program
\* sets two alarms, and stopAlarm, which takes its value from a message.
THEOREM TypeCorrect == Spec => []TypeOK
<1>1. Inv => TypeOK
    BY DEF Inv
<1> QED
    BY <1>1, ClockCorrect, PTL

\* set_alarm starts the timer before it calls its closure, and the alarm may expire at
\* once; still its event never overtakes the id on the way to the client that set it.
THEOREM AlarmIdCorrect == Spec => []AlarmIdKnownFirst
<1>1. Inv => AlarmIdKnownFirst
  <2> SUFFICES ASSUME Inv, NEW p \in Programs, NEW i \in DOMAIN inbox[p],
                      inbox[p][i].func = "alarm", owner[inbox[p][i].arg] = p
               PROVE  \/ stopAlarm[p] = inbox[p][i].arg
                      \/ \E j \in 1..(i - 1) :
                            inbox[p][j] = Result("set_alarm", inbox[p][i].arg)
    BY DEF AlarmIdKnownFirst
  <2>1. Known(inbox[p], stopAlarm[p], i, inbox[p][i].arg)
    BY DEF Inv, InboxOK, HeardOK
  <2>2. DOMAIN inbox[p] = 1..Len(inbox[p]) /\ Len(inbox[p]) \in Nat
    BY LenProperties DEF Inv, MessagesOK
  <2>3. \A j \in DOMAIN inbox[p] : j < i => j \in 1..(i - 1)
    BY <2>2
  <2> QED
    BY <2>1, <2>3 DEF Known
<1> QED
    BY <1>1, ClockCorrect, PTL
==============================================================================
