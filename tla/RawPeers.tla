------------------------------- MODULE RawPeers -------------------------------
(***************************************************************************)
(* The service facing peers that do not use the Client class but write     *)
(* call messages straight to a transport, as the unit test                 *)
(* test_double_call_on_service does.  Such a peer may send a call while    *)
(* the previous call of the same function is pending.                      *)
(***************************************************************************)
EXTENDS Service

VARIABLES
    calls,  \* [Clients -> [Funcs -> 0..MaxCalls]]: calls written
    reply   \* [Clients -> [Funcs -> [CallId -> ...]]]: what came back

peerVars == <<calls, reply>>

vars == <<transportVars, serviceVars, peerVars>>

PeerTypeOK ==
    /\ calls \in [Clients -> [Funcs -> 0..MaxCalls]]
    /\ reply \in [Clients -> [Funcs -> [CallId ->
                     {"none", "value", "in_progress", "twice"}]]]

TypeOK == TransportTypeOK /\ ServiceTypeOK /\ PeerTypeOK

Init ==
    /\ TransportInit
    /\ ServiceInit
    /\ calls = [c \in Clients |-> [f \in Funcs |-> 0]]
    /\ reply = [c \in Clients |-> [f \in Funcs |-> [n \in CallId |-> "none"]]]

\* ClientMock::open.
PeerOpen(c) ==
    /\ myState[Cli(c)] = "NEW"
    /\ listening
    /\ myState' = [myState EXCEPT ![Cli(c)] = "OPEN"]
    /\ reading' = [reading EXCEPT ![Cli(c)] = "wait"]
    /\ up' = [up EXCEPT ![c] = TRUE]
    /\ backlog' = backlog \cup {c}
    /\ UNCHANGED <<myListener, myReceiveState, inbox, listening>>
    /\ UNCHANGED peerVars

\* write_message_with_header on the open transport.
PeerCalls(c, f) ==
    /\ is_open(Cli(c))
    /\ calls[c][f] < MaxCalls
    /\ calls' = [calls EXCEPT ![c][f] = @ + 1]
    /\ \/ /\ inbox' = Written(inbox, Cli(c), serialize_call(f, calls[c][f] + 1))
          /\ UNCHANGED <<myState, reading>>
       \/ /\ WriteMayFail(Cli(c))
          /\ myState' = StateClosed({Cli(c)})
          /\ reading' = ReadsCancelled({Cli(c)})
          /\ UNCHANGED inbox
    /\ UNCHANGED <<myListener, myReceiveState, up, listening, backlog, reply>>

PeerHandlesHeader(c) ==
    /\ HandleHeader(Cli(c))
    /\ UNCHANGED peerVars

\* ClientMock's message handler looks at the result and returns.
PeerReceives(c) ==
    /\ MessageArrived(Cli(c))
    /\ LET m == Head(inbox[Cli(c)])
       IN reply' = IF m.func = BroadcastFunc THEN reply
                   ELSE [reply EXCEPT ![c][m.func][m.id] =
                            IF @ = "none" THEN m.body ELSE "twice"]
    /\ inbox' = Consumed(Cli(c))
    /\ myReceiveState' = [myReceiveState EXCEPT ![Cli(c)] = "HEADER"]
    /\ reading' = [reading EXCEPT ![Cli(c)] = ReadStarted(Cli(c))]
    /\ UNCHANGED <<myState, myListener, up, listening, backlog, calls>>

PeerCloses(c) ==
    /\ is_open(Cli(c))
    /\ myState' = StateClosed({Cli(c)})
    /\ reading' = ReadsCancelled({Cli(c)})
    /\ up' = LinksDown({c})
    /\ UNCHANGED <<myListener, myReceiveState, inbox, listening, backlog>>
    /\ UNCHANGED peerVars

\* handle_recv with an error: ClientMock only logs, the transport closes.
PeerRecvError(c) ==
    /\ reading[Cli(c)] \in {"failed", "aborted"}
    /\ reading' = [reading EXCEPT ![Cli(c)] = "none"]
    /\ myState' = StateClosed({Cli(c)})
    /\ up' = LinksDown({c})
    /\ UNCHANGED <<myListener, myReceiveState, inbox, listening, backlog>>
    /\ UNCHANGED peerVars

PeerLoopStep(c) ==
    PeerHandlesHeader(c) \/ PeerReceives(c) \/ PeerRecvError(c)

PeerStep(c) ==
    \/ PeerOpen(c) \/ PeerCloses(c) \/ PeerLoopStep(c)
    \/ \E f \in Funcs : PeerCalls(c, f)

Next ==
    \/ \E c \in Clients : PeerStep(c) /\ UNCHANGED serviceVars
    \/ ServiceStep /\ UNCHANGED peerVars
    \/ /\ \/ \E e \in End : ReadCompletes(e) \/ ReadFails(e)
          \/ \E c \in Clients : LinkBreaks(c)
       /\ UNCHANGED <<serviceVars, peerVars>>

Spec == Init /\ [][Next]_vars

\* The fairness of Cercall.
Fairness ==
    /\ \A e \in End : WF_vars((ReadCompletes(e) \/ ReadFails(e))
                              /\ UNCHANGED <<serviceVars, peerVars>>)
    /\ \A c \in Clients : /\ WF_vars(PeerLoopStep(c) /\ UNCHANGED serviceVars)
                          /\ WF_vars(ServiceLoopStep(c) /\ UNCHANGED peerVars)
    /\ WF_vars(ClosureStep /\ UNCHANGED peerVars)

FairSpec == Spec /\ Fairness

------------------------------------------------------------------------------
\* The places a call of a two-way function can be while the link is up.
CallOnItsWay(c, f, n) == \E i \in DOMAIN inbox[Srv(c)] :
                             inbox[Srv(c)][i] = serialize_call(f, n)
CallHeld(c, f, n) == [client |-> c, func |-> f, id |-> n] \in held
ReplyOnItsWay(c, f, n) == \E i \in DOMAIN inbox[Cli(c)] :
                              /\ inbox[Cli(c)][i].func = f
                              /\ inbox[Cli(c)][i].id = n

(***************************************************************************)
(* Whatever a peer sends, each call of a two-way function is answered by   *)
(* exactly one message, a value or a refusal: a call is at one place only, *)
(* no reply comes twice, and over a working connection none disappears.    *)
(***************************************************************************)
EachCallHasOneReply ==
    \A c \in Clients, f \in TwoWay, n \in CallId :
        LET places == <<CallOnItsWay(c, f, n), CallHeld(c, f, n),
                        ReplyOnItsWay(c, f, n), reply[c][f][n] # "none">>
        IN /\ \A i, j \in 1..4 : places[i] /\ places[j] => i = j
           /\ reply[c][f][n] # "twice"
           /\ up[c] /\ n <= calls[c][f] => \E i \in 1..4 : places[i]

(***************************************************************************)
(* A call refused with operation_in_progress is never executed as well,    *)
(* and no call is executed twice.                                          *)
(***************************************************************************)
RefusedNotExecuted ==
    \A c \in Clients, f \in Funcs :
        \A i \in DOMAIN executed[c][f] :
            /\ reply[c][f][executed[c][f][i]] # "in_progress"
            /\ \A j \in 1..i-1 : executed[c][f][j] < executed[c][f][i]

(***************************************************************************)
(* Over a connection that stays up every call is replied to in the end.    *)
(***************************************************************************)
EveryCallReplied ==
    \A c \in Clients, f \in TwoWay, n \in CallId :
        n <= calls[c][f] ~> reply[c][f][n] # "none" \/ ~up[c]
==============================================================================
