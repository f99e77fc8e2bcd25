----------------------------- MODULE RpcMessages -----------------------------
(***************************************************************************)
(* The constants of a CerCall deployment - one service and its clients -   *)
(* and the messages the serialization layer puts on a connection.          *)
(*                                                                         *)
(* Every message carries the full function name and an archive.  The       *)
(* archive is abstracted to what the receivers tell apart: the arguments   *)
(* of a call, a result value, the operation_in_progress error, an event.   *)
(* The field id is not on the wire.  It records which call of the function *)
(* (or which broadcast) the message belongs to, so that properties can ask *)
(* whether results that are matched by name alone reach the right call.    *)
(***************************************************************************)
EXTENDS Integers, Sequences

CONSTANTS
    Clients,        \* the Client objects, one connection each
    Funcs,          \* the functions of the service interface
    OneWay,         \* the functions without a Closure parameter
    BroadcastFunc,  \* the name "<Interface>::broadcast_event"
    MaxCalls,       \* bound: calls of one function by one client
    MaxEvents       \* bound: broadcasts of the service

ASSUME FuncsAssumption == OneWay \subseteq Funcs /\ BroadcastFunc \notin Funcs
ASSUME BoundsAssumption == MaxCalls \in Nat \ {0} /\ MaxEvents \in Nat

\* The functions that answer through a Closure.
TwoWay == Funcs \ OneWay

CallId == 1..MaxCalls

\* What a service and a client receive.
CallMessages == [func : Funcs, id : CallId, body : {"args"}]
ResultMessages == [func : TwoWay, id : CallId, body : {"value", "in_progress"}]
EventMessages == [func : {BroadcastFunc}, id : 1..MaxEvents, body : {"event"}]

serialize_call(f, n) == [func |-> f, id |-> n, body |-> "args"]

serialize_call_result(f, n, res) == [func |-> f, id |-> n, body |-> res]

serialize_event(n) == [func |-> BroadcastFunc, id |-> n, body |-> "event"]
==============================================================================
