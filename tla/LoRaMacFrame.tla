----------------------------- MODULE LoRaMacFrame -----------------------------
(***************************************************************************)
(* The LoRa MAC frames of the nodes and of the gateway: how a message is   *)
(* written into its Buffer and read back.                                  *)
(*                                                                         *)
(* A message is a LoRaMacMessageData_t. Each program keeps one for all its *)
(* frames, so what a function leaves alone is still there from an earlier  *)
(* frame. DevAddr is the sequence of its four bytes, the lowest first:     *)
(* TLC's integers have no room for a word of 32 bits.                      *)
(***************************************************************************)
EXTENDS Integers, Sequences

Byte    == 0 .. 255
Word    == 0 .. 65535
Address == [1 .. 4 -> Byte]

HeaderSize     == 9       \* MHDR, DevAddr, FCtrl, FCnt and FLen in a frame
FLenFieldSize  == 2       \* LORAMAC_FHDR_F_LEN_FIELD_SIZE; FLen takes one byte
Unconfirmed    == 2 * 32  \* MHDR.Bits.MType, FRAME_TYPE_DATA_UNCONFIRMED
Ack            == 128     \* FCtrl.Bits.Ack

\* The sequence old, its first elements replaced by those of new.
Overlay(new, old) == [i \in 1 .. Len(old) |-> IF i <= Len(new) THEN new[i] ELSE old[i]]

\* A message after "= {0}", with b bytes of Buffer and p bytes of FRMPayload.
ZeroMessage(b, p) ==
    [Buffer |-> [i \in 1 .. b |-> 0], BufSize |-> 0, MHDR |-> 0,
     DevAddr |-> [i \in 1 .. 4 |-> 0], FCtrl |-> 0, FCnt |-> 0, FLen |-> 0, FPort |-> 0,
     FRMPayload |-> [i \in 1 .. p |-> 0], FRMPayloadSize |-> 0]

Header(msg) ==
    <<msg.MHDR, msg.DevAddr[1], msg.DevAddr[2], msg.DevAddr[3], msg.DevAddr[4],
      msg.FCtrl, msg.FCnt % 256, msg.FCnt \div 256, msg.FLen % 256, msg.FPort>>

\* A message without a payload ends before FPort.
FrameSize(msg) == IF msg.FRMPayloadSize > 0 THEN HeaderSize + 1 + msg.FRMPayloadSize
                                            ELSE HeaderSize

\* Variation: the shift of FCnt's high byte is missing.
FrameUnshifted(msg) == [i \in 1 .. FrameSize(msg) |->
                  CASE i = 8 -> Header(msg)[7]
                    [] i > HeaderSize + 1 -> msg.FRMPayload[i - (HeaderSize + 1)]
                    [] OTHER -> Header(msg)[i]]

\* The bytes of a message as they are transmitted.
Frame(msg) == [i \in 1 .. FrameSize(msg) |->
                  IF i <= HeaderSize + 1 THEN Header(msg)[i]
                                         ELSE msg.FRMPayload[i - (HeaderSize + 1)]]

\* LoRaMac_SerializePacket: nothing is written if the frame, taken for one byte
\* longer than it is, does not fit BufSize. (The node's leaves BufSize alone if
\* there is no payload, but the node sends no such frame.)
SerializePacket(msg) ==
    IF msg.BufSize < FrameSize(msg) + FLenFieldSize - 1
    THEN msg
    ELSE [msg EXCEPT !.Buffer = Overlay(Frame(msg), @), !.BufSize = FrameSize(msg)]

\* Both programs allow 255 bytes before they write a frame.
Unsized(msg, addr, cnt) ==
    [msg EXCEPT !.MHDR = Unconfirmed + (@ % 32), !.BufSize = 255, !.DevAddr = addr,
                !.FCnt = cnt]

\* LoRaMac_SetUpDataMessage of the node, as LoRa_MainProcess calls it.
SetUpDataMessage(msg, addr, cnt, data) ==
    SerializePacket(
        [Unsized(msg, addr, cnt) EXCEPT !.FLen = Len(data), !.FPort = 0,
            !.FRMPayload = Overlay(data, @), !.FRMPayloadSize = Len(data)])

\* LoRaMac_SetUpACKMessage of the gateway, which never has a command for the node.
SetUpACKMessage(msg, addr, cnt) ==
    SerializePacket(
        [Unsized(msg, addr, cnt) EXCEPT !.FCtrl = Ack + (@ % 128), !.FLen = 0, !.FPort = 0,
            !.FRMPayloadSize = 0])

\* The part of a message's Buffer that is transmitted.
OnAirBytes(msg) == [i \in 1 .. msg.BufSize |-> msg.Buffer[i]]

\* A received packet is copied over the Buffer of the last one.
Received(msg, bytes) == [msg EXCEPT !.Buffer = Overlay(bytes, @), !.BufSize = Len(bytes)]

ParseHeader(msg) ==
    [msg EXCEPT !.MHDR = msg.Buffer[1],
                !.DevAddr = [i \in 1 .. 4 |-> msg.Buffer[i + 1]],
                !.FCtrl = msg.Buffer[6],
                !.FCnt = msg.Buffer[7] + 256 * msg.Buffer[8],
                !.FLen = msg.Buffer[9],
                !.FPort = 0, !.FRMPayloadSize = 0]

\* What follows the header and FPort.
Rest(msg) == [i \in 1 .. msg.BufSize - (HeaderSize + 1) |-> msg.Buffer[i + HeaderSize + 1]]

HasPort(msg)  == msg.BufSize > HeaderSize
\* The header is read from the Buffer however short the packet; the length of the
\* payload is tested only if there is one.
ParseFails(msg) == HasPort(msg) /\ Len(Rest(msg)) # msg.Buffer[9]

\* Variation: the payload is not copied out.
ParseNoCopy(msg) ==
    IF ~HasPort(msg) THEN ParseHeader(msg)
    ELSE [ParseHeader(msg) EXCEPT !.FPort = msg.Buffer[10],
             !.FRMPayloadSize = Len(Rest(msg))]

\* LoRaMac_ParserData: FRMPayload keeps what is beyond the new payload, and all of
\* it if there is none or its length is wrong.
Parse(msg) ==
    IF ~HasPort(msg) THEN ParseHeader(msg)
    ELSE [ParseHeader(msg) EXCEPT !.FPort = msg.Buffer[10],
             !.FRMPayloadSize = Len(Rest(msg)),
             !.FRMPayload = IF ParseFails(msg) THEN @ ELSE Overlay(Rest(msg), @)]
===============================================================================
