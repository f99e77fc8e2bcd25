------------------------------- MODULE Cercall -------------------------------
(***************************************************************************)
(* Clients and their service over stream transports: cercall::Client and   *)
(* cercall::Service composed.  Every client is a thread of its own, the    *)
(* service is one, and the operating system completes their reads.         *)
(***************************************************************************)
EXTENDS Client, Service

vars == <<transportVars, clientVars, serviceVars>>

TypeOK == TransportTypeOK /\ ClientTypeOK /\ ServiceTypeOK

Init == TransportInit /\ ClientInit /\ ServiceInit

ClientNext(c) == ClientStep(c) /\ UNCHANGED serviceVars

ServiceNext == ServiceStep /\ UNCHANGED clientVars

SystemNext ==
    /\ \/ \E e \in End : ReadCompletes(e) \/ ReadFails(e)
       \/ \E c \in Clients : LinkBreaks(c)
    /\ UNCHANGED <<clientVars, serviceVars>>

Next == \/ \E c \in Clients : ClientNext(c)
        \/ ServiceNext
        \/ SystemNext

Spec == Init /\ [][Next]_vars

(***************************************************************************)
(* Fairness.  The reactor completes a read that can complete.  The event   *)
(* loops run queued handlers, callbacks return.  A service function "has   *)
(* to call the closure, or save it" and call it later (README).  Nothing   *)
(* is assumed of users, of start, stop and broadcast, or of the network.   *)
(***************************************************************************)
Fairness ==
    /\ \A e \in End : WF_vars((ReadCompletes(e) \/ ReadFails(e))
                              /\ UNCHANGED <<clientVars, serviceVars>>)
    /\ \A c \in Clients : /\ WF_vars(ClientLoopStep(c) /\ UNCHANGED serviceVars)
                          /\ WF_vars(ServiceLoopStep(c) /\ UNCHANGED clientVars)
    /\ WF_vars(ClosureStep /\ UNCHANGED clientVars)

FairSpec == Spec /\ Fairness

------------------------------------------------------------------------------
(***************************************************************************)
(* The traces one call of f leaves behind while it is not answered.        *)
(***************************************************************************)
CallsSent(c, f) == {i \in DOMAIN inbox[Srv(c)] : inbox[Srv(c)][i].func = f}
ResultsSent(c, f) == {i \in DOMAIN inbox[Cli(c)] : inbox[Cli(c)][i].func = f}

\* Messages that arrive at client c are still dispatched.
Receiving(c) ==
    \/ reading[Cli(c)] = "ready" /\ pc[c] = "idle"
    \/ is_open(Cli(c)) /\ pc[c] \in {"idle", "handler"}

(***************************************************************************)
(* Results are matched to calls by function name alone (client.h,          *)
(* dispatch_result).  Nevertheless no closure is ever given the result of  *)
(* another call of its function or an EINPROGRESS refusal, and no result   *)
(* arrives for which there is no closure: the exception "closure not found *)
(* for function result" is never thrown.                                   *)
(***************************************************************************)
ResultsMatchCalls ==
    \A c \in Clients :
        /\ pc[c] # "threw"
        /\ \A f \in Funcs, n \in CallId :
              outcome[c][f][n] \notin {"wrong", "in_progress"}

(***************************************************************************)
(* The reason: between the moment send_call writes a call and the moment   *)
(* its closure runs, exactly one thing in the system stands for it - the   *)
(* call on its way, the service's closure, or the result on its way - and  *)
(* it belongs to the very call whose closure is in myClosures.             *)
(***************************************************************************)
OneTokenPerCall ==
    \A c \in Clients, f \in TwoWay : Receiving(c) =>
        /\ \A i \in CallsSent(c, f) :
              /\ inbox[Srv(c)][i].id = myClosures[c][f]
              /\ CallsSent(c, f) = {i} /\ ResultsSent(c, f) = {}
              /\ Held(c, f) = {}
        /\ \A h \in Held(c, f) :
              /\ h.id = myClosures[c][f]
              /\ ResultsSent(c, f) = {} /\ Held(c, f) = {h}
        /\ \A i \in ResultsSent(c, f) :
              /\ inbox[Cli(c)][i].id = myClosures[c][f]
              /\ ResultsSent(c, f) = {i}

(***************************************************************************)
(* No call is lost: as long as the connection is up, a closure waiting in  *)
(* myClosures has a call, a held closure or a result somewhere.            *)
(***************************************************************************)
NoCallLost ==
    \A c \in Clients, f \in TwoWay :
        up[c] /\ f \in InProgress(c) =>
            CallsSent(c, f) \cup ResultsSent(c, f) \cup Held(c, f) # {}

(***************************************************************************)
(* A waiting call is never stranded behind nothing: on a working client    *)
(* myCallQueue of a function is empty unless a call of it is in progress,  *)
(* and then it holds the calls directly following that one, in order.      *)
(***************************************************************************)
QueueFollowsCall ==
    \A c \in Clients, f \in TwoWay :
        LET q == myCallQueue[c][f]
        IN Receiving(c) /\ q # <<>> =>
              /\ f \in InProgress(c)
              /\ \A i \in DOMAIN q : q[i] = myClosures[c][f] + i

(***************************************************************************)
(* Closures of one function are called in the order of the calls: none is  *)
(* given a value while an earlier one still waits.                         *)
(***************************************************************************)
ResultsInOrder ==
    \A c \in Clients, f \in TwoWay, n \in CallId, m \in CallId :
        m < n /\ outcome[c][f][n] = "value" => outcome[c][f][m] = "value"

\* The interface has so few two-way functions that their closures fit into
\* myClosures, which is then never rehashed.
FewFunctions == IsFiniteSet(TwoWay) /\ Cardinality(TwoWay) <= ClosureBuckets

(***************************************************************************)
(* Seen from the user, clients and service together are AtMostOnce: no     *)
(* interleaving of sends, queued sends, connection errors, close() and     *)
(* restarts calls a closure twice, or with a value of a call that was not  *)
(* executed, or out of order, or executes a call twice.  It needs          *)
(* FewFunctions: a call made by an error closure may otherwise rehash the  *)
(* map in the loop of dispatch_connection_error, which then calls closures *)
(* again or skips them (StillVisited).                                     *)
(***************************************************************************)
Promise == INSTANCE AtMostOnce

ImplementsAtMostOnce == Promise!Spec

(***************************************************************************)
(* Calls of a function are executed once each and in the order in which    *)
(* the client made them, without gaps, one-way calls included.             *)
(***************************************************************************)
ExecutedOnceInOrder ==
    \A c \in Clients, f \in Funcs :
        \A i \in DOMAIN executed[c][f] : executed[c][f][i] = i

------------------------------------------------------------------------------
(***************************************************************************)
(* While the connection stays up every call is answered: also a queued     *)
(* one, also one whose result arrives while the user is busy in another    *)
(* closure.                                                                *)
(***************************************************************************)
CallAnswered ==
    \A c \in Clients, f \in TwoWay, n \in CallId :
        outcome[c][f][n] = "open" ~> outcome[c][f][n] # "open" \/ ~up[c]

(***************************************************************************)
(* After a connection error every call in progress learns of it.           *)
(***************************************************************************)
InProgressNotified ==
    \A c \in Clients, f \in TwoWay, n \in CallId :
        (myClosures[c][f] = n /\ reading[Cli(c)] = "failed")
            ~> (outcome[c][f][n] # "open" \/ pc[c] = "gone")

------------------------------------------------------------------------------
(***************************************************************************)
(* What comments, documentation and assertions of the code say, and the    *)
(* code does not keep (see the findings in README.md).                     *)
(***************************************************************************)

(***************************************************************************)
(* client.h, on_connection_error: "call all outstanding call closures with *)
(* the error that has occurred".  When the notification ends, no call of   *)
(* the client is left waiting.                                             *)
(***************************************************************************)
AllOutstandingNotified ==
    [][\A c \in Clients : pc[c] = "errors" /\ pc'[c] = "idle" =>
          \A f \in Funcs, n \in CallId : outcome'[c][f][n] # "open"]_vars

(***************************************************************************)
(* basicstreamtransport.h, handle_recv: o_assert(myListener != nullptr).   *)
(***************************************************************************)
HandleRecvFindsListener ==
    fault # "assert" /\ \A c \in Clients : pc[c] # "assert"

(***************************************************************************)
(* service.h, broadcast_event: "Broadcast ... event to each connected      *)
(* client".  The failure of one connection costs no other one the event.   *)
(***************************************************************************)
BroadcastReachesAll ==
    [][events' = events + 1 =>
          \A c \in myClients : up[c] =>
              inbox'[Cli(c)] = Append(inbox[Cli(c)],
                                      serialize_event(events'))]_vars
==============================================================================
