------------------------------- MODULE Messenger -------------------------------
(***************************************************************************)
(* details::Messenger byte by byte, on top of BasicStreamTransport::read:  *)
(* the size header, the receive loop, and what happens when the handler    *)
(* throws or a peer announces a message of size zero.                      *)
(*                                                                         *)
(* A byte is a digit 0 .. Base-1 and the header has HEADER_SIZE of them,   *)
(* least significant first, so that the largest size is                    *)
(* Base^HEADER_SIZE - 1 (2^32 - 1 in the code).  A message is the sequence *)
(* of its bytes without the header.                                        *)
(***************************************************************************)
EXTENDS Integers, Sequences

CONSTANTS
    Base, HEADER_SIZE,
    Texts,        \* messages the sending side tries to write
    MaxMessages,  \* bound: messages written
    ZeroSizes     \* whether the sender may be a peer that writes a header of
                  \* zeros (Messenger itself never does, a message has a name)

ASSUME MessengerAssumption ==
    /\ Base \in Nat \ {0, 1} /\ HEADER_SIZE \in Nat \ {0}
    /\ MaxMessages \in Nat /\ ZeroSizes \in BOOLEAN
    /\ \A m \in Texts : m \in Seq(0..(Base - 1)) /\ m # <<>>

VARIABLES
    wire,               \* bytes written, not received by this host
    arrived,            \* bytes in the receive buffer of the socket
    reads,              \* lengths of the outstanding async_reads, oldest first
    myBuffer,           \* BasicStreamTransport::myBuffer
    myReceiveState,     \* "HEADER" or "MESSAGE"
    myIncomingMsgSize,
    loop,               \* dataLenInBuffer while Messenger::read runs, else -1
    thrown,             \* "no", or who threw out of Messenger::read
    broken,             \* the connection is broken
    sent, received      \* ghosts: messages written, messages handled

vars == <<wire, arrived, reads, myBuffer, myReceiveState, myIncomingMsgSize,
          loop, thrown, broken, sent, received>>

\* What a byte of the header counts for: Weight[i] is Base^i.
Weight[i \in Nat] == IF i = 0 THEN 1 ELSE Base * Weight[i - 1]

Byte == 0..(Base - 1)
MaxSize == Weight[HEADER_SIZE] - 1
Zeros(n) == [i \in 1..n |-> 0]

TypeOK ==
    /\ wire \in Seq(Byte) /\ arrived \in Seq(Byte)
    /\ reads \in Seq(0..MaxSize)
    /\ myBuffer \in Seq(Byte)
    /\ myReceiveState \in {"HEADER", "MESSAGE"}
    /\ myIncomingMsgSize \in 0..MaxSize
    /\ loop \in Int
    /\ thrown \in {"no", "size", "handler"}
    /\ broken \in BOOLEAN
    /\ sent \in Seq(Seq(Byte)) /\ received \in Seq(Seq(Byte))

\* Mutant of Encoded: the digits are not reduced.
EncodedUnreduced(n) == [i \in 1..HEADER_SIZE |-> n \div Weight[i - 1]]

\* The memcpy of the size into the header.
Encoded(n) == [i \in 1..HEADER_SIZE |-> (n \div Weight[i - 1]) % Base]

\* The copy_n out of the buffer: the size whose bytes are the first ones there.
Decoded(h) == CHOOSE n \in 0..MaxSize :
                  \A i \in 1..HEADER_SIZE : Encoded(n)[i] = h[i]

\* init_transport has started the first read.
Init ==
    /\ wire = <<>> /\ arrived = <<>>
    /\ reads = <<HEADER_SIZE>>
    /\ myBuffer = Zeros(HEADER_SIZE)
    /\ myReceiveState = "HEADER" /\ myIncomingMsgSize = 0
    /\ loop = -1 /\ thrown = "no" /\ broken = FALSE
    /\ sent = <<>> /\ received = <<>>

receiverVars == <<reads, myBuffer, myReceiveState, myIncomingMsgSize, loop,
                  thrown, received>>

------------------------------------------------------------------------------
(***************************************************************************)
(* The sending side.                                                       *)
(***************************************************************************)

\* Mutant of TooLong: the check of the length is missing.
NeverTooLong(m) == FALSE

\* A message whose length, with its header, is more than the largest size less
\* a header is refused: "message too long".
TooLong(m) == HEADER_SIZE + Len(m) > MaxSize - HEADER_SIZE

\* The size in the header excludes the header.
write_message_with_header(m) ==
    /\ ~broken
    /\ Len(sent) < MaxMessages
    /\ ~TooLong(m)
    /\ wire' = wire \o Encoded(Len(m) % (MaxSize + 1)) \o m
    /\ sent' = Append(sent, m)
    /\ UNCHANGED <<arrived, broken>>
    /\ UNCHANGED receiverVars

\* A peer that does not use Messenger announces an empty message.
WriteZeroSize ==
    /\ ZeroSizes
    /\ ~broken
    /\ Len(sent) < MaxMessages
    /\ wire' = wire \o Encoded(0)
    /\ sent' = Append(sent, <<>>)
    /\ UNCHANGED <<arrived, broken>>
    /\ UNCHANGED receiverVars

------------------------------------------------------------------------------
(***************************************************************************)
(* TCP: any number of bytes arrives at a time; the connection may break.   *)
(***************************************************************************)
BytesArrive(k) ==
    /\ k \in 1..Len(wire)
    /\ arrived' = arrived \o SubSeq(wire, 1, k)
    /\ wire' = SubSeq(wire, k + 1, Len(wire))
    /\ UNCHANGED <<broken, sent>>
    /\ UNCHANGED receiverVars

\* Bytes on their way are lost, and those that arrived may be (a reset).
ConnectionBreaks ==
    /\ ~broken
    /\ broken' = TRUE
    /\ wire' = <<>>
    /\ arrived' \in {arrived, <<>>}
    /\ UNCHANGED sent
    /\ UNCHANGED receiverVars

------------------------------------------------------------------------------
(***************************************************************************)
(* The receiving side.                                                     *)
(***************************************************************************)

\* BasicStreamTransport::read: myBuffer.resize(len), async_read.
StartRead(len) ==
    /\ reads' = Append(reads, len)
    /\ myBuffer' = SubSeq(myBuffer \o Zeros(len), 1, len)

\* async_read has all its bytes: handle_recv enters Messenger::read.
HandleRecv ==
    /\ loop = -1
    /\ reads # <<>>
    /\ Len(arrived) >= Head(reads)
    /\ myBuffer' = SubSeq(arrived, 1, Head(reads))
                       \o SubSeq(myBuffer, Head(reads) + 1, Len(myBuffer))
    /\ arrived' = SubSeq(arrived, Head(reads) + 1, Len(arrived))
    /\ reads' = Tail(reads)
    /\ loop' = Head(reads)
    /\ UNCHANGED <<wire, myReceiveState, myIncomingMsgSize, thrown, broken,
                   sent, received>>

\* Mutant of SizeValid: the check of the size is missing.
AnySizeValid(n) == TRUE

SizeValid(n) == n # 0

\* The loop in state HEADER with a header in the buffer.
LoopHeader ==
    /\ loop >= HEADER_SIZE
    /\ myReceiveState = "HEADER"
    /\ myIncomingMsgSize' = Decoded(myBuffer)
    /\ IF SizeValid(myIncomingMsgSize')
       THEN /\ myReceiveState' = "MESSAGE"
            /\ StartRead(myIncomingMsgSize')
            /\ loop' = loop - HEADER_SIZE
            /\ UNCHANGED thrown
       ELSE /\ thrown' = "size"
            /\ loop' = -1
            /\ UNCHANGED <<myReceiveState, reads, myBuffer>>
    /\ UNCHANGED <<wire, arrived, broken, sent, received>>

\* Mutant of NextReceiveState: the state is not set back.
StaysInMessage == "MESSAGE"

\* The receive state after the handler returned.
NextReceiveState == "HEADER"

\* The loop in state MESSAGE with the message in the buffer: the handler runs,
\* and returns or throws.
LoopMessage ==
    /\ loop >= myIncomingMsgSize
    /\ myReceiveState = "MESSAGE"
    /\ received' = Append(received, myBuffer)
    /\ \/ /\ myReceiveState' = NextReceiveState
          /\ StartRead(HEADER_SIZE)
          /\ loop' = loop - myIncomingMsgSize
          /\ UNCHANGED thrown
       \/ /\ thrown' = "handler"
          /\ loop' = -1
          /\ UNCHANGED <<myReceiveState, reads, myBuffer>>
    /\ UNCHANGED <<wire, arrived, myIncomingMsgSize, broken, sent>>

\* Mutant of LoopEnds: hasMoreData is not set, and the loop goes on.
LoopGoesOn == loop >= 0 /\ UNCHANGED vars

\* hasMoreData is false: Messenger::read returns.
LoopEnds ==
    /\ loop >= 0
    /\ loop < IF myReceiveState = "HEADER" THEN HEADER_SIZE
                                           ELSE myIncomingMsgSize
    /\ loop' = -1
    /\ UNCHANGED <<wire, arrived, reads, myBuffer, myReceiveState,
                   myIncomingMsgSize, thrown, broken, sent, received>>

------------------------------------------------------------------------------
Receive == HandleRecv \/ LoopHeader \/ LoopMessage \/ LoopEnds

Next ==
    \/ \E m \in Texts : write_message_with_header(m)
    \/ WriteZeroSize
    \/ \E k \in 1..Len(wire) : BytesArrive(k)
    \/ ConnectionBreaks
    \/ Receive

Spec == Init /\ [][Next]_vars

(***************************************************************************)
(* Fairness: TCP delivers what is written, the event loop runs handlers.   *)
(***************************************************************************)
FairSpec == /\ Spec
            /\ WF_vars(\E k \in 1..Len(wire) : BytesArrive(k))
            /\ WF_vars(Receive)

------------------------------------------------------------------------------
(***************************************************************************)
(* At most one async_read is outstanding, and none while the loop still    *)
(* has data of the previous one: two reads would share myBuffer.  When     *)
(* none is outstanding and the loop has ended, an exception of the handler *)
(* or of the size check left Messenger::read before its tr.read() - the    *)
(* one way in which a connection goes deaf without being closed.           *)
(***************************************************************************)
OneReadOutstanding ==
    /\ Len(reads) <= 1
    /\ reads # <<>> => Len(myBuffer) = Head(reads)
    /\ loop = -1 => (reads = <<>> <=> thrown # "no")

(***************************************************************************)
(* write_message_with_header accepts only messages whose size the header   *)
(* can carry, so a receiver's size always equals the length of the message *)
(* that follows; only a header of zeros is refused.                        *)
(***************************************************************************)
SizeAgrees ==
    /\ thrown = "size" => sent[Len(received) + 1] = <<>>
    /\ myReceiveState = "MESSAGE" /\ thrown = "no" =>
          myIncomingMsgSize = Len(sent[Len(received) + 1])

------------------------------------------------------------------------------
\* The bytes of the next message are all on the receiving side.
MessageInHand ==
    \/ /\ myReceiveState = "MESSAGE"
       /\ loop >= myIncomingMsgSize \/ Len(arrived) >= myIncomingMsgSize
    \/ /\ myReceiveState = "HEADER"
       /\ loop >= HEADER_SIZE
       /\ Len(arrived) >= Decoded(myBuffer)
    \/ /\ myReceiveState = "HEADER"
       /\ loop < HEADER_SIZE
       /\ Len(arrived) >= HEADER_SIZE
       /\ Len(arrived) >= HEADER_SIZE + Decoded(arrived)

\* The channel ends when the handler throws, when the size is refused, and when
\* the connection breaks, unless the next message came through.
Ended == thrown # "no" \/ (broken /\ ~MessageInHand)

\* Messenger implements the channel of messages.
Channel == INSTANCE MessageChannel
    WITH Messages <- Texts \cup {<<>>}, ended <- Ended

(***************************************************************************)
(* The message handler is given exactly the messages written at the other  *)
(* end, whole, in order and once each, however TCP cuts the bytes, and     *)
(* none after the connection broke under a message or an exception was     *)
(* thrown out of Messenger::read.                                          *)
(***************************************************************************)
ImplementsChannel == Channel!Spec

(***************************************************************************)
(* It is given all of them, unless the connection breaks or an exception   *)
(* is thrown: Messenger::read always comes back to wait for the next read. *)
(***************************************************************************)
EveryMessageHandled == Channel!Fairness
==============================================================================
