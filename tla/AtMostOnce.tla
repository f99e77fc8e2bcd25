------------------------------ MODULE AtMostOnce ------------------------------
(***************************************************************************)
(* What Cercall promises its user, without transports, queues or           *)
(* messages: the calls of one function by one client are executed in the   *)
(* order in which they were made, each at most once; the closure of a call *)
(* is called at most once, with the value of that very call after its      *)
(* execution and in the order of the calls, or with an error, which leaves *)
(* open whether the call is executed.                                      *)
(***************************************************************************)
EXTENDS Naturals, Sequences

CONSTANTS Clients, Funcs, OneWay, MaxCalls

VARIABLES
    issued,    \* [Clients -> [Funcs -> 0..MaxCalls]]: calls made
    executed,  \* [Clients -> [Funcs -> Seq(Nat)]]: calls executed, in order
    outcome    \* [Clients -> [Funcs -> [1..MaxCalls -> ...]]]: "none" before
               \* the call and for a one-way call, "open" until the closure
               \* is called, then what it was told

Init ==
    /\ issued = [c \in Clients |-> [f \in Funcs |-> 0]]
    /\ executed = [c \in Clients |-> [f \in Funcs |-> <<>>]]
    /\ outcome = [c \in Clients |->
                    [f \in Funcs |-> [n \in 1..MaxCalls |-> "none"]]]

\* A call is made; a one-way call has no closure.
Call(c, f) ==
    /\ issued[c][f] < MaxCalls
    /\ issued' = [issued EXCEPT ![c][f] = @ + 1]
    /\ \E told \in IF f \in OneWay THEN {"none"} ELSE {"open", "error"} :
          outcome' = [outcome EXCEPT ![c][f][issued[c][f] + 1] = told]
    /\ UNCHANGED executed

\* The service executes the first call it has not executed yet.
Execute(c, f) ==
    /\ Len(executed[c][f]) < issued[c][f]
    /\ executed' = [executed EXCEPT ![c][f] = Append(@, Len(@) + 1)]
    /\ UNCHANGED <<issued, outcome>>

\* The closure of the first call that waits is given the value.
Answer(c, f, n) ==
    /\ outcome[c][f][n] = "open"
    /\ n <= Len(executed[c][f])
    /\ \A m \in 1..n-1 : outcome[c][f][m] = "value"
    /\ outcome' = [outcome EXCEPT ![c][f][n] = "value"]
    /\ UNCHANGED <<issued, executed>>

\* The closure of a call that waits is given an error.
Fail(c, f, n) ==
    /\ outcome[c][f][n] = "open"
    /\ outcome' = [outcome EXCEPT ![c][f][n] = "error"]
    /\ UNCHANGED <<issued, executed>>

Next ==
    \E c \in Clients, f \in Funcs :
        \/ Call(c, f) \/ Execute(c, f)
        \/ \E n \in 1..MaxCalls : Answer(c, f, n) \/ Fail(c, f, n)

Spec == Init /\ [][Next]_<<issued, executed, outcome>>
==============================================================================
