-------------------------------- MODULE Connect --------------------------------
(***************************************************************************)
(* How a connection comes about: ClientTcpTransport::open, blocking and    *)
(* asynchronous, against BasicStreamAcceptor and Service::start/stop, with *)
(* every error either side can meet on the way.                            *)
(*                                                                         *)
(* An asynchronous open is numbered per client; stage[c][i] is             *)
(*   "none"        not called                                              *)
(*   "resolving"   async_resolve is outstanding                            *)
(*   "resolved", "unresolved"     handle_resolve is queued, without or     *)
(*                                with an error                            *)
(*   "connecting"  async_connect is outstanding                            *)
(*   "connected", "refused"       handle_connect is queued, without or     *)
(*                                with an error                            *)
(*   "done"        its closure was called                                  *)
(* The transport stays NEW until handle_connect, so close(), ~Client and   *)
(* further calls of open() can come in between.                            *)
(***************************************************************************)
EXTENDS Integers, FiniteSets

CONSTANTS
    Clients,
    MaxOpens,   \* bound: calls of open(closure) per client
    MaxStarts   \* bound: calls of Service::start

ASSUME ConnectAssumption == MaxOpens \in Nat \ {0} /\ MaxStarts \in Nat

VARIABLES
    myState,      \* [Clients -> {"NEW", "OPEN", "CLOSED"}]
    myListener,   \* [Clients -> BOOLEAN], FALSE once the Client is destroyed
    stage,        \* [Clients -> [Opens -> ...]], see above
    told,         \* [Clients -> [Opens -> ...]]: what the closure was told
    misused,      \* ghost: open() was called while another open() was in
                  \* progress, or the Client was destroyed meanwhile
    fault,        \* [Clients -> ...]: how the client program ended
    acceptor,     \* "closed", "opened", "bound" or "listening"
    accepting,    \* outstanding async_accepts
    accepted,     \* connections whose accept handler is queued with success
    failed,       \* accept handlers queued with an error (ECONNABORTED, EMFILE)
    aborted,      \* accept handlers queued with operation_aborted
    backlog,      \* connections the service has still to accept
    myClients,    \* connections registered with the service
    threw,        \* an exception left start() or the event loop since the
                  \* acceptor was opened
    starts

clientVars == <<myState, myListener, stage, told, misused, fault>>
acceptVars == <<acceptor, accepting, accepted, failed, aborted, myClients,
                threw, starts>>
vars == <<clientVars, acceptVars, backlog>>

Opens == 1..MaxOpens
\* A connection is named by the open() that made it, 0 for a blocking one.
Connections == Clients \X (0..MaxOpens)
Pending(c) == {i \in Opens : stage[c][i] \notin {"none", "done"}}

TypeOK ==
    /\ myState \in [Clients -> {"NEW", "OPEN", "CLOSED"}]
    /\ myListener \in [Clients -> BOOLEAN]
    /\ stage \in [Clients -> [Opens -> {"none", "resolving", "resolved",
                    "unresolved", "connecting", "connected", "refused", "done"}]]
    /\ told \in [Clients -> [Opens -> {"none", "true", "error", "already"}]]
    /\ misused \in [Clients -> BOOLEAN]
    /\ fault \in [Clients -> {"none", "assert", "null"}]
    /\ acceptor \in {"closed", "opened", "bound", "listening"}
    /\ accepting \in 0..MaxStarts
    /\ accepted \subseteq Connections
    /\ failed \in 0..MaxStarts /\ aborted \in 0..MaxStarts
    /\ backlog \subseteq Connections /\ myClients \subseteq Connections
    /\ threw \in BOOLEAN
    /\ starts \in 0..MaxStarts

Init ==
    /\ myState = [c \in Clients |-> "NEW"]
    /\ myListener = [c \in Clients |-> TRUE]
    /\ stage = [c \in Clients |-> [i \in Opens |-> "none"]]
    /\ told = [c \in Clients |-> [i \in Opens |-> "none"]]
    /\ misused = [c \in Clients |-> FALSE]
    /\ fault = [c \in Clients |-> "none"]
    /\ acceptor = "closed" /\ accepting = 0 /\ accepted = {}
    /\ failed = 0 /\ aborted = 0
    /\ backlog = {} /\ myClients = {}
    /\ threw = FALSE /\ starts = 0
------------------------------------------------------------------------------
(***************************************************************************)
(* The client's side.                                                      *)
(***************************************************************************)

\* The user's code may use the Client.
UserRuns(c) == fault[c] = "none" /\ myListener[c]

At(i, c, s) == fault[c] = "none" /\ stage[c][i] = s

\* The stages of c once its socket is closed or used for another connect: an
\* async_connect still outstanding on it fails.
ConnectsAborted(c) ==
    [i \in Opens |-> IF stage[c][i] = "connecting" THEN "refused" ELSE stage[c][i]]

\* Open i of client c calls its closure.
ClosureTold(c, i, res) ==
    /\ told' = [told EXCEPT ![c][i] = res]
    /\ stage' = [stage EXCEPT ![c][i] = "done"]

\* The first open() not called yet.
NextOpen(c, i) == stage[c][i] = "none" /\ \A j \in 1..(i - 1) : stage[c][j] # "none"

\* Mutant of MayOpen: a closed transport is opened once more.
MayOpenUnlessOpen(c) == myState[c] # "OPEN"

\* Only a transport that was never open is opened.
MayOpen(c) == myState[c] = "NEW"

\* open(closure) of a NEW transport starts to resolve the name.
OpenAsync(c, i) ==
    /\ UserRuns(c)
    /\ NextOpen(c, i)
    /\ MayOpen(c)
    /\ stage' = [stage EXCEPT ![c][i] = "resolving"]
    /\ misused' = [misused EXCEPT ![c] = @ \/ Pending(c) # {}]
    /\ UNCHANGED <<myState, myListener, told, fault, backlog>>
    /\ UNCHANGED acceptVars

\* open(closure) in any other state: already_connected, at once.
OpenAlready(c, i) ==
    /\ UserRuns(c)
    /\ NextOpen(c, i)
    /\ ~MayOpen(c)
    /\ ClosureTold(c, i, "already")
    /\ UNCHANGED <<myState, myListener, misused, fault, backlog>>
    /\ UNCHANGED acceptVars

\* The resolver answers.
Resolve(c, i) ==
    /\ At(i, c, "resolving")
    /\ \E s \in {"resolved", "unresolved"} : stage' = [stage EXCEPT ![c][i] = s]
    /\ UNCHANGED <<myState, myListener, told, misused, fault, backlog>>
    /\ UNCHANGED acceptVars

\* handle_resolve: asio::async_connect closes the socket before it connects.
HandleResolve(c, i) ==
    /\ At(i, c, "resolved")
    /\ stage' = [stage EXCEPT ![c] = [ConnectsAborted(c) EXCEPT ![i] = "connecting"]]
    /\ UNCHANGED <<myState, myListener, told, misused, fault, backlog>>
    /\ UNCHANGED acceptVars

\* The operating system connects to a listening acceptor, or does not.
Connected(c, i) ==
    /\ At(i, c, "connecting")
    /\ acceptor = "listening"
    /\ stage' = [stage EXCEPT ![c][i] = "connected"]
    /\ backlog' = backlog \cup {<<c, i>>}
    /\ UNCHANGED <<myState, myListener, told, misused, fault>>
    /\ UNCHANGED acceptVars

ConnectFails(c, i) ==
    /\ At(i, c, "connecting")
    /\ stage' = [stage EXCEPT ![c][i] = "refused"]
    /\ UNCHANGED <<myState, myListener, told, misused, fault, backlog>>
    /\ UNCHANGED acceptVars

\* The program ends in a failed o_assert, or in a call through a null pointer.
Fault(c, kind) ==
    /\ fault' = [fault EXCEPT ![c] = kind]
    /\ UNCHANGED <<myState, stage, told>>

\* Mutant of OpenFailed: the next address is tried after the closure was told.
OpenFailedAndRetried(c, i) ==
    IF myListener[c] THEN /\ told' = [told EXCEPT ![c][i] = "error"]
                          /\ stage' = [stage EXCEPT ![c][i] = "connecting"]
                          /\ UNCHANGED <<myState, fault>>
                     ELSE Fault(c, "null")

\* Mutant of OpenFailed: the listener is notified, the closure is not.
OpenFailedUntold(c, i) ==
    IF myListener[c] THEN /\ stage' = [stage EXCEPT ![c][i] = "done"]
                          /\ UNCHANGED <<myState, told, fault>>
                     ELSE Fault(c, "null")

\* handle_resolve and handle_connect with an error: the listener is notified
\* (the client has no calls in progress), then the closure.
OpenFailed(c, i) ==
    IF myListener[c] THEN ClosureTold(c, i, "error") /\ UNCHANGED <<myState, fault>>
                     ELSE Fault(c, "null")

HandleOpenError(c, i) ==
    /\ At(i, c, "unresolved") \/ At(i, c, "refused")
    /\ OpenFailed(c, i)
    /\ UNCHANGED <<myListener, misused, backlog>>
    /\ UNCHANGED acceptVars

\* handle_connect without an error: BasicStreamTransport::open with its asserts.
HandleConnect(c, i) ==
    /\ At(i, c, "connected")
    /\ IF myListener[c] /\ myState[c] = "NEW"
       THEN /\ myState' = [myState EXCEPT ![c] = "OPEN"]
            /\ ClosureTold(c, i, "true")
            /\ UNCHANGED fault
       ELSE Fault(c, "assert")
    /\ UNCHANGED <<myListener, misused, backlog>>
    /\ UNCHANGED acceptVars

\* The blocking open() of a NEW transport connects, or returns false.  (It throws
\* when the name is not resolved, and then changes nothing.)
Open(c) ==
    /\ UserRuns(c)
    /\ MayOpen(c)
    /\ misused' = [misused EXCEPT ![c] = @ \/ Pending(c) # {}]
    /\ stage' = [stage EXCEPT ![c] = ConnectsAborted(c)]
    /\ \/ /\ acceptor = "listening"
          /\ myState' = [myState EXCEPT ![c] = "OPEN"]
          /\ backlog' = backlog \cup {<<c, 0>>}
       \/ UNCHANGED <<myState, backlog>>
    /\ UNCHANGED <<myListener, told, fault>>
    /\ UNCHANGED acceptVars

\* Client::close, or a read error of the connection: only an OPEN transport is
\* closed, and its socket with it.
Close(c) ==
    /\ UserRuns(c)
    /\ myState[c] = "OPEN"
    /\ myState' = [myState EXCEPT ![c] = "CLOSED"]
    /\ stage' = [stage EXCEPT ![c] = ConnectsAborted(c)]
    /\ UNCHANGED <<myListener, told, misused, fault, backlog>>
    /\ UNCHANGED acceptVars

\* ~Client: close, clear_listener.
Destroy(c) ==
    /\ UserRuns(c)
    /\ myListener' = [myListener EXCEPT ![c] = FALSE]
    /\ misused' = [misused EXCEPT ![c] = @ \/ Pending(c) # {}]
    /\ myState' = [myState EXCEPT ![c] = IF @ = "OPEN" THEN "CLOSED" ELSE @]
    /\ stage' = [stage EXCEPT ![c] = IF myState[c] = "OPEN" THEN ConnectsAborted(c)
                                                            ELSE @]
    /\ UNCHANGED <<told, fault, backlog>>
    /\ UNCHANGED acceptVars

------------------------------------------------------------------------------
(***************************************************************************)
(* The service's side.                                                     *)
(***************************************************************************)

is_open == acceptor # "closed"

\* start() on a closed acceptor: open, bind, listen, and start_accept.  A step
\* that fails leaves the acceptor as it is, and on_accept_error throws out of
\* start().
Start ==
    /\ ~is_open
    /\ starts < MaxStarts
    /\ starts' = starts + 1
    /\ \/ /\ acceptor' = "listening"
          /\ accepting' = accepting + 1
          /\ UNCHANGED threw
       \/ /\ acceptor' \in {"closed", "opened", "bound"}
          /\ threw' = TRUE
          /\ UNCHANGED accepting
    /\ UNCHANGED <<accepted, failed, aborted, backlog, myClients>>
    /\ UNCHANGED clientVars

\* start() on an open acceptor returns without doing anything.
StartAgain ==
    /\ is_open
    /\ starts < MaxStarts
    /\ starts' = starts + 1
    /\ UNCHANGED <<acceptor, accepting, accepted, failed, aborted, backlog,
                   myClients, threw>>
    /\ UNCHANGED clientVars

\* stop(): close the acceptor, then every client connection.
Stop ==
    /\ is_open
    /\ acceptor' = "closed"
    /\ aborted' = aborted + accepting
    /\ accepting' = 0
    /\ backlog' = {}
    /\ myClients' = {}
    /\ threw' = FALSE
    /\ UNCHANGED <<accepted, failed, starts>>
    /\ UNCHANGED clientVars

\* An async_accept completes with a connection, or fails.
AcceptCompletes ==
    /\ accepting > 0
    /\ accepting' = accepting - 1
    /\ \/ \E n \in backlog : /\ accepted' = accepted \cup {n}
                             /\ backlog' = backlog \ {n}
                             /\ UNCHANGED failed
       \/ /\ failed' = failed + 1
          /\ UNCHANGED <<accepted, backlog>>
    /\ UNCHANGED <<acceptor, aborted, myClients, threw, starts>>
    /\ UNCHANGED clientVars

\* Mutant of Rearmed: the next accept is started twice.
RearmedTwice == accepting + 2

\* Mutant of Rearmed: the handler does not start the next accept.
NotRearmed == accepting

\* The last statement of the accept handler: start_accept.
Rearmed == accepting + 1

\* The accept handler with success: on an open acceptor the client is
\* registered and the next accept started, on a closed one it throws.
HandleAccepted(n) ==
    /\ n \in accepted
    /\ accepted' = accepted \ {n}
    /\ \/ /\ is_open
          /\ myClients' = myClients \cup {n}
          /\ accepting' = Rearmed
       \/ /\ ~is_open
          /\ UNCHANGED <<myClients, accepting>>
    /\ UNCHANGED <<acceptor, failed, aborted, backlog, threw, starts>>
    /\ UNCHANGED clientVars

\* The accept handler with an error: on_accept_error throws, whether or not the
\* acceptor was closed meanwhile, and no accept is started.
HandleAcceptError ==
    /\ failed > 0
    /\ failed' = failed - 1
    /\ threw' = (threw \/ is_open)
    /\ UNCHANGED <<acceptor, accepting, accepted, aborted, backlog, myClients,
                   starts>>
    /\ UNCHANGED clientVars

\* The accept handler with operation_aborted throws only if the acceptor was
\* opened again.
HandleAcceptAborted ==
    /\ aborted > 0
    /\ aborted' = aborted - 1
    /\ threw' = (threw \/ is_open)
    /\ UNCHANGED <<acceptor, accepting, accepted, failed, backlog, myClients,
                   starts>>
    /\ UNCHANGED clientVars

------------------------------------------------------------------------------
OpenStep(c, i) ==
    \/ Resolve(c, i) \/ HandleResolve(c, i) \/ Connected(c, i)
    \/ ConnectFails(c, i) \/ HandleOpenError(c, i) \/ HandleConnect(c, i)

AcceptStep == \/ AcceptCompletes \/ HandleAcceptError \/ HandleAcceptAborted
              \/ \E n \in accepted : HandleAccepted(n)

Next ==
    \/ \E c \in Clients : \/ Open(c) \/ Close(c) \/ Destroy(c)
                          \/ \E i \in Opens : \/ OpenAsync(c, i)
                                              \/ OpenAlready(c, i)
                                              \/ OpenStep(c, i)
    \/ Start \/ StartAgain \/ Stop \/ AcceptStep

Spec == Init /\ [][Next]_vars

(***************************************************************************)
(* Fairness: resolver and operating system answer, both event loops run    *)
(* their handlers (the service's again after an exception has left it).    *)
(* Nothing is assumed of the users of Client and Service.                  *)
(***************************************************************************)
FairSpec == /\ Spec
            /\ \A c \in Clients, i \in Opens : WF_vars(OpenStep(c, i))
            /\ WF_vars(AcceptStep)

------------------------------------------------------------------------------
(***************************************************************************)
(* clienttcptransport.h: what the closure of open() is told is true and    *)
(* final.  It is called at most once; it is told true only in the step     *)
(* that opens the transport; and when it is told of an error (no misuse),  *)
(* the transport is not open and nothing is under way, not even of another *)
(* open(), that could still open it.  (transport.h says more of the error  *)
(* notification, that the transport is closed after it; after a failed     *)
(* open it stays NEW, see README.md.)                                      *)
(***************************************************************************)
OpenClosureTruthful ==
    [][\A c \in Clients, i \in Opens : told'[c][i] # told[c][i] =>
          /\ told[c][i] = "none"
          /\ told'[c][i] = "true" => myState[c] = "NEW" /\ myState'[c] = "OPEN"
          /\ told'[c][i] = "error" /\ ~misused[c] =>
                myState'[c] # "OPEN" /\ Pending(c)' = {}]_vars

(***************************************************************************)
(* The asserts of BasicStreamTransport::open and the unchecked myListener  *)
(* of handle_resolve and handle_connect: the client program can fail on    *)
(* them only if open() was called again, or the Client destroyed, before   *)
(* the closure of the first open() was called.                             *)
(***************************************************************************)
OnlyMisuseFails == \A c \in Clients : fault[c] # "none" => misused[c]

(***************************************************************************)
(* basicstreamacceptor.h: an acceptor that is open accepts - it listens    *)
(* and an async_accept is outstanding or its handler queued - unless an    *)
(* exception has told the user of the service that it does not.            *)
(***************************************************************************)
NotDeafSilently ==
    is_open /\ ~threw => /\ acceptor = "listening"
                         /\ accepting + Cardinality(accepted) + failed > 0

(***************************************************************************)
(* Every asynchronous open() is answered, unless the program fails.        *)
(***************************************************************************)
OpenAnswered ==
    \A c \in Clients, i \in Opens :
        stage[c][i] # "none" ~> told[c][i] # "none" \/ fault[c] # "none"

(***************************************************************************)
(* Every connection made is accepted, unless the service is stopped or has *)
(* thrown.                                                                 *)
(***************************************************************************)
ConnectionAccepted ==
    \A n \in Connections :
        n \in backlog ~> n \in myClients \/ ~is_open \/ threw
==============================================================================
