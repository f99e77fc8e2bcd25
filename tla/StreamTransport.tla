--------------------------- MODULE StreamTransport ---------------------------
(***************************************************************************)
(* cercall::asio::BasicStreamTransport with the receive state of the       *)
(* Messenger on top of it, for both ends of every connection, and what     *)
(* asio and TCP do between them.                                           *)
(*                                                                         *)
(* An end is <<c, "cli">> (the transport a Client owns) or <<c, "srv">>    *)
(* (the transport the acceptor makes for the same connection).  At most    *)
(* one asynchronous read is outstanding per end:                           *)
(*                                                                         *)
(*   "none"     no read started (or handle_recv is on the stack)           *)
(*   "wait"     the read waits for data                                    *)
(*   "ready"    it completed, handle_recv is queued with success           *)
(*   "failed"   handle_recv is queued with an error (eof, reset, or        *)
(*              bad_descriptor for a read started on a closed socket)      *)
(*   "aborted"  the socket was closed under the read, handle_recv is       *)
(*              queued with operation_aborted                              *)
(*                                                                         *)
(* A completed read stays queued while other handlers of the same thread   *)
(* run, so a close() can come between completion and handle_recv.          *)
(***************************************************************************)
EXTENDS RpcMessages

VARIABLES
    myState,         \* [End -> {"NEW", "OPEN", "CLOSED"}]
    myListener,      \* [End -> BOOLEAN]: myListener != nullptr
    reading,         \* [End -> ...]: the outstanding async_read
    myReceiveState,  \* [End -> {"HEADER", "MESSAGE"}]
    inbox,           \* [End -> Seq(...)]: messages to this end, not handled
    up,              \* [Clients -> BOOLEAN]: the TCP connection exists
    listening,       \* the service's acceptor socket is open
    backlog          \* connections made, not accepted yet

transportVars == <<myState, myListener, reading, myReceiveState, inbox, up,
                   listening, backlog>>

Cli(c) == <<c, "cli">>
Srv(c) == <<c, "srv">>
End == Clients \X {"cli", "srv"}
Peer(e) == IF e[2] = "cli" THEN Srv(e[1]) ELSE Cli(e[1])

TransportTypeOK ==
    /\ myState \in [End -> {"NEW", "OPEN", "CLOSED"}]
    /\ myListener \in [End -> BOOLEAN]
    /\ reading \in [End -> {"none", "wait", "ready", "failed", "aborted"}]
    /\ myReceiveState \in [End -> {"HEADER", "MESSAGE"}]
    /\ inbox \in [End -> Seq(CallMessages \cup ResultMessages \cup EventMessages)]
    /\ \A c \in Clients : /\ inbox[Srv(c)] \in Seq(CallMessages)
                          /\ inbox[Cli(c)] \in Seq(ResultMessages \cup EventMessages)
    /\ \A e \in End : reading[e] = "ready" => inbox[e] # <<>>
    /\ up \in [Clients -> BOOLEAN]
    /\ listening \in BOOLEAN
    /\ backlog \subseteq Clients

\* A Client sets itself as listener in its constructor; the service's ends do
\* not exist before their connection is accepted.
TransportInit ==
    /\ myState = [e \in End |-> "NEW"]
    /\ myListener = [e \in End |-> e[2] = "cli"]
    /\ reading = [e \in End |-> "none"]
    /\ myReceiveState = [e \in End |-> "HEADER"]
    /\ inbox = [e \in End |-> <<>>]
    /\ up = [c \in Clients |-> FALSE]
    /\ listening = FALSE
    /\ backlog = {}

------------------------------------------------------------------------------
(***************************************************************************)
(* The transport's operations, as the values they give to its variables.   *)
(***************************************************************************)

is_open(e) == myState[e] = "OPEN"

\* Mutant of ReadStarted: the next read is not started.
ReadNotStarted(e) == "none"

\* async_read on an open socket waits; on a closed one it fails at once.
ReadStarted(e) == IF is_open(e) THEN "wait" ELSE "failed"

\* close() of the ends E: only an OPEN transport is closed.
StateClosed(E) == [e \in End |-> IF e \in E /\ is_open(e) THEN "CLOSED"
                                                          ELSE myState[e]]

\* Closing the socket cancels a read that waits; a completed one stays queued.
ReadsCancelled(E) ==
    [e \in End |-> IF e \in E /\ is_open(e) /\ reading[e] = "wait"
                   THEN "aborted" ELSE reading[e]]

\* Mutant of LinksDown: close() without shutdown.
LinksLeftUp(C) == up

\* shutdown_both and close take the connection down for the peer too.
LinksDown(C) == [c \in Clients |-> up[c] /\ c \notin C]

\* The inboxes, ib before, after a successful write by end e.  The bytes reach
\* the peer only over a link that is up: the first write after the peer is gone
\* succeeds locally.
Written(ib, e, m) == IF up[e[1]] THEN [ib EXCEPT ![Peer(e)] = Append(@, m)]
                                 ELSE ib

\* Mutant of Consumed: the message is read again.
NotConsumed(e) == inbox

\* The first message of end e is taken out of the read buffer.
Consumed(e) == [inbox EXCEPT ![e] = Tail(@)]

\* asio::write reports an error only on a broken connection.
WriteMayFail(e) == is_open(e) /\ ~up[e[1]]

------------------------------------------------------------------------------
(***************************************************************************)
(* The operating system: reads complete or fail, connections break.        *)
(***************************************************************************)

ReadCompletes(e) ==
    /\ reading[e] = "wait"
    /\ inbox[e] # <<>>
    /\ reading' = [reading EXCEPT ![e] = "ready"]
    /\ UNCHANGED <<myState, myListener, myReceiveState, inbox, up, listening,
                   backlog>>

\* eof or connection_reset; unread data may or may not have been lost.
ReadFails(e) ==
    /\ reading[e] = "wait"
    /\ ~up[e[1]]
    /\ reading' = [reading EXCEPT ![e] = "failed"]
    /\ UNCHANGED <<myState, myListener, myReceiveState, inbox, up, listening,
                   backlog>>

LinkBreaks(c) ==
    /\ up[c]
    /\ up' = LinksDown({c})
    /\ UNCHANGED <<myState, myListener, reading, myReceiveState, inbox,
                   listening, backlog>>

------------------------------------------------------------------------------
(***************************************************************************)
(* handle_recv with success, as far as it is common to both ends.          *)
(***************************************************************************)

\* Messenger::read in state HEADER: take the size, read the message.
HandleHeader(e) ==
    /\ reading[e] = "ready"
    /\ myListener[e]
    /\ myReceiveState[e] = "HEADER"
    /\ myReceiveState' = [myReceiveState EXCEPT ![e] = "MESSAGE"]
    /\ reading' = [reading EXCEPT ![e] = ReadStarted(e)]
    /\ UNCHANGED <<myState, myListener, inbox, up, listening, backlog>>

\* Messenger::read in state MESSAGE is about to call the message handler.
MessageArrived(e) ==
    /\ reading[e] = "ready"
    /\ myListener[e]
    /\ myReceiveState[e] = "MESSAGE"

\* The message handler returned to Messenger::read.
ReadNextHeader(e) ==
    /\ myReceiveState' = [myReceiveState EXCEPT ![e] = "HEADER"]
    /\ reading' = [reading EXCEPT ![e] = ReadStarted(e)]
    /\ UNCHANGED <<myState, myListener, inbox, up, listening, backlog>>
==============================================================================
