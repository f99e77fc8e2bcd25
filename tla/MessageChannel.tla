---------------------------- MODULE MessageChannel ----------------------------
(***************************************************************************)
(* What Messenger promises its users: a channel of whole messages.  The    *)
(* receiver's handler is given the messages that were written, each once,  *)
(* unchanged and in order, until the channel ends.                         *)
(***************************************************************************)
EXTENDS Naturals, Sequences

CONSTANT Messages  \* what can be written

VARIABLES
    sent,      \* the messages accepted by write_message_with_header
    received,  \* the messages given to the message handler
    ended      \* the channel delivers nothing any more

channelVars == <<sent, received, ended>>

Init == sent = <<>> /\ received = <<>> /\ ended = FALSE

Send(m) ==
    /\ sent' = Append(sent, m)
    /\ UNCHANGED <<received, ended>>

\* The handler may throw, which ends the channel.
Deliver ==
    /\ ~ended
    /\ Len(received) < Len(sent)
    /\ received' = Append(received, sent[Len(received) + 1])
    /\ ended' \in BOOLEAN
    /\ UNCHANGED sent

End ==
    /\ ended' = TRUE
    /\ UNCHANGED <<sent, received>>

Next == Deliver \/ End \/ \E m \in Messages : Send(m)

Spec == Init /\ [][Next]_channelVars

\* What is sent is delivered, unless the channel ends.
Fairness == WF_channelVars(Deliver)
==============================================================================
