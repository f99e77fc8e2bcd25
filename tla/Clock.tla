--------------------------------- MODULE Clock ---------------------------------
(***************************************************************************)
(* The clock example: ClockService with its tick timer and its alarms, the *)
(* C++ client program, the Python client program, and other users of       *)
(* ClockClient.  The cercall library between them is what Cercall shows it *)
(* to be: calls are served once and in order, the results and events of    *)
(* one connection arrive in the order in which they were written.          *)
(*                                                                         *)
(* Time is abstract: a timer that waits may expire at any moment, and its  *)
(* handler is queued behind others, so that calls are served between the   *)
(* expiry and the handler.  A cancelled wait has its handler queued too;   *)
(* for the tick timer that handler does nothing, and it is left out.       *)
(***************************************************************************)
EXTENDS Integers, Sequences, FiniteSets, SequencesExt

CONSTANTS
    CppClients,  \* instances of clockclient.cpp
    PyClients,   \* instances of clockclient.py
    Others,      \* other programs with a ClockClient; what reaches them changes
                 \* nothing, and is left out
    MaxCalls,    \* bound: calls by one of the Others
    MaxTicks     \* bound: expiries of the tick timer

ASSUME ClockAssumption == /\ MaxCalls \in Nat /\ MaxTicks \in Nat
                          /\ IsFiniteSet(CppClients \cup PyClients)

Programs == CppClients \cup PyClients \cup Others

\* ClockAlarmId: every C++ and Python program sets one alarm.  0 is the initial
\* value of stopAlarm.
AlarmId == 1..Cardinality(CppClients \cup PyClients)

VARIABLES
    stopper,      \* who ended the service: "nobody", a client, or "signal"
    alarm,        \* [AlarmId -> ...]: "unset", "waiting" in the list with its
                  \* timer running, "expired" or "aborted" with its handler
                  \* queued, "purged" or "cancelled" when it has run
    owner,        \* [AlarmId -> Programs]: ghost, who set the alarm
    nextAlarmId,
    ticking,      \* myTickInterval is not zero
    tickWaits,    \* waits on myTickTimer that are pending
    tickQueued,   \* tickTimer handlers queued without an error
    ticks,        \* expiries of the tick timer
    calls,        \* [Programs -> Seq]: calls on their way to the service
    inbox,        \* [Programs -> Seq]: results and events on their way
    program,      \* [Programs -> ...]: "new", "running", "finished", "failed"
                  \* (an exception ended main) or "orphaned" (its loop runs on,
                  \* and nothing will ever end it)
    posted,       \* [Programs -> BOOLEAN]: set_clock_tick's handler is posted
    inProgress,   \* [Programs -> SUBSET functions]: closures waiting
    stopAlarm,    \* [Programs -> AlarmId or 0]; of a Python program only a ghost
    made          \* [Programs -> Nat]: calls made by the Others

serviceVars == <<stopper, alarm, owner, nextAlarmId, ticking, tickWaits,
                 tickQueued, ticks>>
programVars == <<program, posted, inProgress, stopAlarm, made>>
vars == <<serviceVars, calls, inbox, programVars>>

Call(f, arg) == [func |-> f, arg |-> arg]
Result(f, value) == [func |-> f, arg |-> value]
ClockTickEvent == [func |-> "tick", arg |-> 0]
ClockAlarmEvent(id) == [func |-> "alarm", arg |-> id]
Functions == {"get_time", "set_tick_interval", "set_alarm", "cancel_alarm",
              "close_service"}

Running == stopper = "nobody"
Connected(p) == program[p] = "running" /\ p \notin Others
Purged(a) == alarm[a] \in {"purged", "cancelled"}

TypeOK ==
    /\ stopper \in Programs \cup {"nobody", "signal"}
    /\ alarm \in [AlarmId -> {"unset", "waiting", "expired", "aborted", "purged",
                           "cancelled"}]
    /\ nextAlarmId - 1 \in AlarmId \cup {0}
    /\ ticking \in BOOLEAN
    /\ tickWaits \in Nat /\ tickQueued \in Nat /\ ticks \in 0..MaxTicks
    /\ program \in [Programs -> {"new", "running", "finished", "failed",
                                 "orphaned"}]
    /\ posted \in [Programs -> BOOLEAN]
    /\ inProgress \in [Programs -> SUBSET Functions]
    /\ stopAlarm \in [Programs -> AlarmId \cup {0}]
    /\ made \in [Programs -> 0..MaxCalls]

Init ==
    /\ stopper = "nobody"
    /\ alarm = [a \in AlarmId |-> "unset"]
    /\ owner = [a \in AlarmId |-> "nobody"]
    /\ nextAlarmId = 1
    /\ ticking = FALSE /\ tickWaits = 0 /\ tickQueued = 0 /\ ticks = 0
    /\ calls = [p \in Programs |-> <<>>]
    /\ inbox = [p \in Programs |-> <<>>]
    /\ program = [p \in Programs |-> "new"]
    /\ posted = [p \in Programs |-> FALSE]
    /\ inProgress = [p \in Programs |-> {}]
    /\ stopAlarm = [p \in Programs |-> 0]
    /\ made = [p \in Programs |-> 0]

------------------------------------------------------------------------------
(***************************************************************************)
(* The service.                                                            *)
(***************************************************************************)

\* The closure of p's call is called: send_result.
Answer(p, f, value) ==
    inbox' = IF Connected(p) THEN [inbox EXCEPT ![p] = Append(@, Result(f, value))]
                             ELSE inbox

broadcast_event(ev) ==
    inbox' = [p \in Programs |-> IF Connected(p) THEN Append(inbox[p], ev)
                                                 ELSE inbox[p]]

get_time(p) ==
    /\ Answer(p, "get_time", 0)
    /\ UNCHANGED serviceVars

\* Mutant of WaitsCancelled: the pending wait is kept.
WaitsKept == tickWaits

\* timer.cancel(), and expires_from_now() and expires_at(), which imply it: no
\* wait is pending any more.  A handler that is queued stays queued.
WaitsCancelled == 0

set_tick_interval(p, on) ==
    /\ ticking' = (on # 0)
    /\ tickWaits' = IF on # 0 THEN WaitsCancelled + 1 ELSE WaitsCancelled
    /\ Answer(p, "set_tick_interval", 0)
    /\ UNCHANGED <<stopper, alarm, owner, nextAlarmId, tickQueued, ticks>>

\* Mutant of AlarmIdTold: the counter after nextAlarmId++.
AlarmIdIncremented == nextAlarmId + 1

\* theAlarm.myId.
AlarmIdTold == nextAlarmId

\* The alarm joins the list, its wait is started, then the closure is called.
set_alarm(p) ==
    /\ alarm' = [alarm EXCEPT ![nextAlarmId] = "waiting"]
    /\ owner' = [owner EXCEPT ![nextAlarmId] = p]
    /\ nextAlarmId' = nextAlarmId + 1
    /\ Answer(p, "set_alarm", AlarmIdTold)
    /\ UNCHANGED <<stopper, ticking, tickWaits, tickQueued, ticks>>

\* Mutant of AlarmCancelled: the alarm leaves the list at once.
AlarmErased(a) == IF alarm[a] = "unset" THEN "unset" ELSE "purged"

\* cancel() of alarm a's timer has an effect only while the wait is pending.
AlarmCancelled(a) == IF alarm[a] = "waiting" THEN "aborted" ELSE alarm[a]

cancel_alarm(p, a) ==
    /\ alarm' = [alarm EXCEPT ![a] = AlarmCancelled(a)]
    /\ Answer(p, "cancel_alarm", 0)
    /\ UNCHANGED <<stopper, owner, nextAlarmId, ticking, tickWaits, tickQueued,
                   ticks>>

\* iosWork.reset(), ioService.stop(): main ends, and with it the timers, the list
\* of alarms and the calls not read.
ServiceEnds(who) ==
    /\ stopper' = who
    /\ alarm' = [a \in AlarmId |-> "unset"]
    /\ ticking' = FALSE /\ tickWaits' = 0 /\ tickQueued' = 0
    /\ calls' = [p \in Programs |-> <<>>]
    /\ UNCHANGED <<owner, nextAlarmId, ticks>>

\* ioService.stop() lets the running handler end, so closure(0) is still sent.
close_service(p) ==
    /\ ServiceEnds(p)
    /\ Answer(p, "close_service", 0)

\* The service handles the next call of p.
Serve(p) ==
    /\ Running
    /\ calls[p] # <<>>
    /\ LET call == Head(calls[p])
       IN \/ /\ \/ call.func = "get_time" /\ get_time(p)
                \/ call.func = "set_tick_interval" /\ set_tick_interval(p, call.arg)
                \/ call.func = "set_alarm" /\ set_alarm(p)
                \/ call.func = "cancel_alarm" /\ cancel_alarm(p, call.arg)
             /\ calls' = [calls EXCEPT ![p] = Tail(@)]
          \/ call.func = "close_service" /\ close_service(p)
    /\ UNCHANGED programVars

TickExpires ==
    /\ Running
    /\ tickWaits > 0
    /\ ticks < MaxTicks
    /\ ticks' = ticks + 1
    /\ tickQueued' = tickQueued + tickWaits
    /\ tickWaits' = 0
    /\ UNCHANGED <<stopper, alarm, owner, nextAlarmId, ticking, calls, inbox>>
    /\ UNCHANGED programVars

\* Mutant of TickRearmed: the timer is not armed again.
TickNotRearmed == tickWaits

\* The waits after tickTimer: expires_at cancels, async_wait adds one.
TickRearmed == IF ticking THEN WaitsCancelled + 1 ELSE tickWaits

\* tickTimer without an error.
tickTimer ==
    /\ Running
    /\ tickQueued > 0
    /\ tickQueued' = tickQueued - 1
    /\ broadcast_event(ClockTickEvent)
    /\ tickWaits' = TickRearmed
    /\ UNCHANGED <<stopper, alarm, owner, nextAlarmId, ticking, ticks, calls>>
    /\ UNCHANGED programVars

AlarmExpires(a) ==
    /\ Running
    /\ alarm[a] = "waiting"
    /\ alarm' = [alarm EXCEPT ![a] = "expired"]
    /\ UNCHANGED <<stopper, owner, nextAlarmId, ticking, tickWaits, tickQueued,
                   ticks, calls, inbox>>
    /\ UNCHANGED programVars

\* Mutant of HandleAlarm: a cancelled alarm is not purged.
HandleAlarmExpired(a) ==
    /\ Running
    /\ alarm[a] = "expired"
    /\ broadcast_event(ClockAlarmEvent(a))
    /\ alarm' = [alarm EXCEPT ![a] = "purged"]
    /\ UNCHANGED <<stopper, owner, nextAlarmId, ticking, tickWaits, tickQueued,
                   ticks, calls>>
    /\ UNCHANGED programVars

\* The alarm's handler: broadcast unless cancelled, then purge the alarm.
HandleAlarm(a) ==
    /\ Running
    /\ \/ /\ alarm[a] = "expired"
          /\ broadcast_event(ClockAlarmEvent(a))
          /\ alarm' = [alarm EXCEPT ![a] = "purged"]
       \/ /\ alarm[a] = "aborted"
          /\ alarm' = [alarm EXCEPT ![a] = "cancelled"]
          /\ UNCHANGED inbox
    /\ UNCHANGED <<stopper, owner, nextAlarmId, ticking, tickWaits, tickQueued,
                   ticks, calls>>
    /\ UNCHANGED programVars

\* SIGINT or SIGTERM.
signal_handler ==
    /\ Running
    /\ ServiceEnds("signal")
    /\ UNCHANGED <<inbox, programVars>>

------------------------------------------------------------------------------
(***************************************************************************)
(* The client programs.                                                    *)
(***************************************************************************)

\* The calls cs of program p are written; a service that has ended gets none.
Calls(p, cs) ==
    /\ calls' = IF Running THEN [calls EXCEPT ![p] = @ \o cs] ELSE calls
    /\ inProgress' = [inProgress EXCEPT ![p] = @ \cup {c.func : c \in ToSet(cs)}]

\* main up to ioService.run(): open, get_time, set_stop_alarm, and the handler
\* of set_clock_tick is posted.
MainCpp(p) ==
    /\ program[p] = "new"
    /\ p \in CppClients
    /\ Running
    /\ Calls(p, <<Call("get_time", 0), Call("set_alarm", 0)>>)
    /\ program' = [program EXCEPT ![p] = "running"]
    /\ posted' = [posted EXCEPT ![p] = TRUE]
    /\ UNCHANGED <<inbox, stopAlarm, made>>
    /\ UNCHANGED serviceVars

\* The posted handler, which the loop runs before any other.
SetClockTick(p) ==
    /\ posted[p]
    /\ Calls(p, <<Call("set_tick_interval", 1)>>)
    /\ posted' = [posted EXCEPT ![p] = FALSE]
    /\ UNCHANGED <<inbox, program, stopAlarm, made>>
    /\ UNCHANGED serviceVars

\* clockclient.py up to its loop of poll__io.
MainPy(p) ==
    /\ program[p] = "new"
    /\ p \in PyClients
    /\ Running
    /\ Calls(p, <<Call("get_time", 0), Call("set_tick_interval", 1),
                  Call("set_alarm", 0)>>)
    /\ program' = [program EXCEPT ![p] = "running"]
    /\ UNCHANGED <<inbox, posted, stopAlarm, made>>
    /\ UNCHANGED serviceVars

\* Another program switches the ticks or cancels any alarm.
OtherCall(p) ==
    /\ p \in Others
    /\ Running
    /\ calls[p] = <<>>
    /\ made[p] < MaxCalls
    /\ \E call \in {Call("set_tick_interval", on) : on \in {0, 1}} \cup
                    {Call("cancel_alarm", a) : a \in 1..(nextAlarmId - 1)} :
          calls' = [calls EXCEPT ![p] = <<call>>]
    /\ made' = [made EXCEPT ![p] = @ + 1]
    /\ UNCHANGED <<inbox, program, posted, inProgress, stopAlarm>>
    /\ UNCHANGED serviceVars

Arrived(p) ==
    /\ program[p] = "running"
    /\ ~posted[p]
    /\ inbox[p] # <<>>

\* The handler of the message of p returns to the loop; or it has ended the
\* program, which reads no more.
LoopContinues(p) ==
    /\ inbox' = [inbox EXCEPT ![p] = Tail(@)]
    /\ UNCHANGED program

LoopEnds(p) ==
    /\ inbox' = [inbox EXCEPT ![p] = <<>>]
    /\ program' = [program EXCEPT ![p] = "finished"]

\* Mutant of StopAlarmSet: the closure does not keep the id.
StopAlarmNotSet(p, res) == stopAlarm

\* The closure of set_alarm keeps the id of the alarm.
StopAlarmSet(p, res) ==
    IF res.func = "set_alarm" THEN [stopAlarm EXCEPT ![p] = res.arg] ELSE stopAlarm

\* The closure of a finished call.
HandleResult(p) ==
    /\ Arrived(p)
    /\ LET res == Head(inbox[p])
       IN /\ res.func \in Functions
          /\ inProgress' = [inProgress EXCEPT ![p] = @ \ {res.func}]
          /\ stopAlarm' = StopAlarmSet(p, res)
          /\ IF res.func = "close_service" THEN LoopEnds(p) ELSE LoopContinues(p)
    /\ UNCHANGED <<calls, posted, made>>
    /\ UNCHANGED serviceVars

\* on_service_event of the C++ program: its stop alarm closes the service.
HandleEventCpp(p) ==
    /\ p \in CppClients
    /\ Arrived(p)
    /\ Head(inbox[p]).func \in {"alarm", "tick"}
    /\ IF Head(inbox[p]) = ClockAlarmEvent(stopAlarm[p])
       THEN Calls(p, <<Call("close_service", 0)>>)
       ELSE UNCHANGED <<calls, inProgress>>
    /\ LoopContinues(p)
    /\ UNCHANGED <<posted, stopAlarm, made>>
    /\ UNCHANGED serviceVars

\* The Python program tells its alarm by the tag, which every program uses.
StopsPy(ev) == ev.func = "alarm"

\* on_service_event of the Python program: it ends without closing the service.
HandleEventPy(p) ==
    /\ p \in PyClients
    /\ Arrived(p)
    /\ Head(inbox[p]).func \in {"alarm", "tick"}
    /\ IF StopsPy(Head(inbox[p])) THEN LoopEnds(p) ELSE LoopContinues(p)
    /\ UNCHANGED <<calls, posted, inProgress, stopAlarm, made>>
    /\ UNCHANGED serviceVars

\* The service is gone: closures in progress are called with the error.  That of
\* close_service finishes the program, any other throws out of the loop; with
\* none in progress nothing happens, and nothing ends the program.
HandleEof(p) ==
    /\ program[p] = "running"
    /\ ~posted[p]
    /\ ~Running
    /\ inbox[p] = <<>>
    /\ program' = [program EXCEPT ![p] =
            IF inProgress[p] = {} THEN "orphaned"
            ELSE IF inProgress[p] = {"close_service"} THEN "finished" ELSE "failed"]
    /\ inProgress' = [inProgress EXCEPT ![p] = {}]
    /\ UNCHANGED <<calls, inbox, posted, stopAlarm, made>>
    /\ UNCHANGED serviceVars

------------------------------------------------------------------------------
ProgramStep(p) ==
    \/ SetClockTick(p) \/ HandleResult(p) \/ HandleEventCpp(p)
    \/ HandleEventPy(p) \/ HandleEof(p)

AlarmStep(a) == AlarmExpires(a) \/ HandleAlarm(a)

Next ==
    \/ \E p \in Programs : \/ MainCpp(p) \/ MainPy(p) \/ OtherCall(p)
                           \/ ProgramStep(p) \/ Serve(p)
    \/ TickExpires \/ tickTimer
    \/ \E a \in AlarmId : AlarmStep(a)
    \/ signal_handler

Spec == Init /\ [][Next]_vars

(***************************************************************************)
(* Fairness: timers expire, the event loops run, the service serves.       *)
(* Nobody need start a program, and no signal need come.                   *)
(***************************************************************************)
FairSpec == /\ Spec
            /\ \A p \in Programs \ Others : WF_vars(ProgramStep(p))
            /\ \A p \in Programs : WF_vars(Serve(p))
            /\ \A a \in AlarmId : WF_vars(AlarmStep(a))
            /\ WF_vars(tickTimer)

------------------------------------------------------------------------------
(***************************************************************************)
(* The chain of ticks neither dies nor doubles, however set_tick_interval, *)
(* the expiry of the timer and the handler tickTimer interleave: at most   *)
(* one wait is pending, none when the ticks are off, and one - or a        *)
(* handler that will start one - when they are on.                         *)
(***************************************************************************)
OneTickChain ==
    Running => /\ tickWaits <= 1
               /\ ticking => tickWaits = 1 \/ tickQueued > 0
               /\ ~ticking => tickWaits = 0

(***************************************************************************)
(* set_alarm starts the timer before it calls its closure; still a client  *)
(* always learns the id of its alarm before the alarm's event reaches it,  *)
(* so that comparing with stopAlarm is safe.                               *)
(***************************************************************************)
AlarmIdKnownFirst ==
    \A p \in Programs : \A i \in DOMAIN inbox[p] :
        LET ev == inbox[p][i]
        IN ev.func = "alarm" /\ owner[ev.arg] = p =>
              \/ stopAlarm[p] = ev.arg
              \/ \E j \in 1..(i - 1) : inbox[p][j] = Result("set_alarm", ev.arg)

(***************************************************************************)
(* Every alarm is purged in the end, also a cancelled one: the list of     *)
(* alarms does not grow for ever.                                          *)
(***************************************************************************)
AlarmPurged ==
    \A a \in AlarmId : alarm[a] # "unset" ~> Purged(a) \/ ~Running

(***************************************************************************)
(* An alarm leaves the list only in its own handler, however cancel_alarm  *)
(* and the expiry interleave: the assert in the handler finds it, and the  *)
(* reference theAlarm of the handler stays valid.                          *)
(***************************************************************************)
AlarmPurgedByHandler ==
    [][\A a \in AlarmId : ~Purged(a) /\ Purged(a)' =>
          alarm[a] \in {"expired", "aborted"}]_vars

(***************************************************************************)
(* A client program ends, whichever of its own alarm, the end of the       *)
(* service and other programs' calls comes first, unless its alarm is      *)
(* cancelled or somebody else ends the service before - the cases in which *)
(* its loop runs on for ever.                                              *)
(***************************************************************************)
ProgramEnds ==
    \A p \in CppClients \cup PyClients :
        program[p] = "running" ~>
            \/ program[p] \in {"finished", "failed"}
            \/ stopper \notin {"nobody", p}
            \/ \E a \in AlarmId : owner[a] = p /\ alarm[a] \in {"aborted", "cancelled"}
==============================================================================
