-------------------------- MODULE LoRaMacFrame_proofs --------------------------
(***************************************************************************)
(* Proofs about LoRaMacFrame: what the other end parses is what was set    *)
(* up, for every address, counter and payload, whatever the two messages   *)
(* held before.                                                            *)
(***************************************************************************)
EXTENDS LoRaMacFrame, TLAPS

\* A sequence of n bytes.
Bytes(n) == [1 .. n -> Int]

\* A message between two frames, with b bytes of Buffer and p of FRMPayload: 256 and
\* 245 in a LoRaMacMessageData_t. Nothing depends on its bytes being less than 256.
Message(b, p) ==
    [Buffer : Bytes(b), BufSize : Int, MHDR : Int,
     DevAddr : Bytes(4), FCtrl : Int, FCnt : Int, FLen : Int, FPort : Int,
     FRMPayload : Bytes(p), FRMPayloadSize : Int]

\* The Buffer has room for the header, FPort and a full FRMPayload.
Room(b, p) == b \in Nat /\ p \in Nat /\ p + HeaderSize + 1 <= b

\* A message that is set up: its payload fits FRMPayload and the 255 bytes allowed,
\* and its length says so.
Ready(f, b, p) == /\ f \in Message(b, p) /\ f.BufSize = 255
                  /\ f.FRMPayloadSize \in 0 .. p /\ f.FRMPayloadSize <= 244
                  /\ f.FLen = f.FRMPayloadSize

\* The two bytes of a word make it up.
LEMMA WordBytes ==
    ASSUME NEW w \in Int
    PROVE  /\ w % 256 \in Int /\ w \div 256 \in Int
           /\ (w % 256) + 256 * (w \div 256) = w
OBVIOUS

\* The length of a sequence of n bytes is n.
LEMMA LenOfBytes ==
    ASSUME NEW n \in Nat, NEW bytes \in Bytes(n)
    PROVE  Len(bytes) = n
BY DEF Bytes

\* Overlaying keeps the length, shows the new elements and the old ones beyond them.
LEMMA OverlayOnto ==
    ASSUME NEW N \in Nat, NEW old \in Bytes(N),
           NEW k \in Nat, NEW new \in Bytes(k)
    PROVE  /\ Overlay(new, old) \in Bytes(N)
           /\ \A i \in 1 .. N : i <= k => Overlay(new, old)[i] = new[i]
           /\ \A i \in 1 .. N : ~(i <= k) => Overlay(new, old)[i] = old[i]
<1>1. Len(old) = N /\ Len(new) = k
    BY DEF Bytes
<1>. QED
    BY <1>1 DEF Overlay, Bytes

\* The fields of a message that is set up.
LEMMA ReadyFields ==
    ASSUME NEW b, NEW p, Room(b, p), NEW f, Ready(f, b, p)
    PROVE  /\ b \in Nat /\ p \in Nat /\ p + 10 <= b
           /\ f.FRMPayloadSize \in 0 .. p /\ f.FRMPayloadSize <= 244
           /\ f.FLen = f.FRMPayloadSize /\ f.BufSize = 255
           /\ f.FCnt \in Int /\ f.FLen \in Int
           /\ f.MHDR \in Int /\ f.FCtrl \in Int /\ f.FPort \in Int
           /\ f.DevAddr \in Bytes(4)
           /\ f.Buffer \in Bytes(b) /\ f.FRMPayload \in Bytes(p)
<1>1. b \in Nat /\ p \in Nat /\ p + 10 <= b
    BY DEF Room, HeaderSize
<1>. QED
    BY <1>1 DEF Ready, Message

LEMMA SizeType ==
    ASSUME NEW b, NEW p, Room(b, p), NEW f, Ready(f, b, p)
    PROVE  /\ FrameSize(f) \in 9 .. 254 /\ FrameSize(f) \in 0 .. b
           /\ f.FRMPayloadSize > 0 => FrameSize(f) = 10 + f.FRMPayloadSize
           /\ f.FRMPayloadSize = 0 => FrameSize(f) = 9
<1>1. /\ f.FRMPayloadSize \in 0 .. p /\ f.FRMPayloadSize <= 244
      /\ b \in Nat /\ p \in Nat /\ p + 10 <= b
    BY ReadyFields
<1>. QED
    BY <1>1 DEF FrameSize, HeaderSize

LEMMA HeaderType ==
    ASSUME NEW f, f.MHDR \in Int, f.FCtrl \in Int, f.FPort \in Int, f.FCnt \in Int,
           f.FLen \in Int, f.DevAddr \in Bytes(4)
    PROVE  Header(f) \in Bytes(10)
<1>1. f.FCnt % 256 \in Int /\ f.FCnt \div 256 \in Int /\ f.FLen % 256 \in Int
    BY WordBytes
<1>. QED
    BY <1>1 DEF Header, Bytes

LEMMA FrameType ==
    ASSUME NEW b, NEW p, Room(b, p), NEW f, Ready(f, b, p)
    PROVE  Frame(f) \in Bytes(FrameSize(f))
<1>1. ASSUME NEW i \in 1 .. FrameSize(f)
      PROVE  (IF i <= HeaderSize + 1 THEN Header(f)[i] ELSE f.FRMPayload[i - (HeaderSize + 1)])
                 \in Int
    <2>1. CASE i <= 10
        <3>1. i \in 1 .. 10
            BY <2>1, SizeType
        <3>2. Header(f) \in Bytes(10)
            BY HeaderType, ReadyFields
        <3>. QED
            BY <2>1, <3>1, <3>2 DEF HeaderSize, Bytes
    <2>2. CASE i > 10
        <3>1. /\ FrameSize(f) \in 9 .. 254 /\ f.FRMPayloadSize \in 0 .. p
              /\ f.FRMPayloadSize > 0 => FrameSize(f) = 10 + f.FRMPayloadSize
              /\ f.FRMPayloadSize = 0 => FrameSize(f) = 9
            BY SizeType, ReadyFields
        <3>2. f.FRMPayload \in Bytes(p) /\ p \in Nat
            BY ReadyFields
        <3>3. i - 10 \in 1 .. p /\ ~(i <= 10)
            BY <2>2, <3>1, <3>2
        <3>. QED
            BY <3>2, <3>3 DEF HeaderSize, Bytes
    <2>. QED
        BY <2>1, <2>2, SizeType
<1>. QED
    BY <1>1 DEF Frame, Bytes

\* A message keeps its type when a field is given a value of the field's type.
LEMMA NumberField ==
    ASSUME NEW b, NEW p, NEW msg \in Message(b, p), NEW x \in Int
    PROVE  /\ [msg EXCEPT !.MHDR = x] \in Message(b, p)
           /\ [msg EXCEPT !.BufSize = x] \in Message(b, p)
           /\ [msg EXCEPT !.FCtrl = x] \in Message(b, p)
           /\ [msg EXCEPT !.FCnt = x] \in Message(b, p)
           /\ [msg EXCEPT !.FLen = x] \in Message(b, p)
           /\ [msg EXCEPT !.FPort = x] \in Message(b, p)
           /\ [msg EXCEPT !.FRMPayloadSize = x] \in Message(b, p)
BY DEF Message

LEMMA BytesField ==
    ASSUME NEW b, NEW p, NEW msg \in Message(b, p)
    PROVE  /\ \A x \in Bytes(b) : [msg EXCEPT !.Buffer = x] \in Message(b, p)
           /\ \A x \in Bytes(4) : [msg EXCEPT !.DevAddr = x] \in Message(b, p)
           /\ \A x \in Bytes(p) : [msg EXCEPT !.FRMPayload = x] \in Message(b, p)
BY DEF Message

LEMMA BufferField ==
    ASSUME NEW b, NEW p, NEW msg \in Message(b, p), NEW x \in Bytes(b), NEW y \in Int
    PROVE  [msg EXCEPT !.Buffer = x, !.BufSize = y] \in Message(b, p)
BY DEF Message

LEMMA HeaderNumbers ==
    /\ \A addr \in Address : addr \in Bytes(4)
    /\ \A cnt \in Word : cnt \in Int
<1>1. \A addr \in Address : addr \in Bytes(4)
    BY DEF Address, Byte, Bytes
<1>2. \A cnt \in Word : cnt \in Int
    BY DEF Word
<1>. QED
    BY <1>1, <1>2

LEMMA Literals == 0 \in Int /\ 255 \in Int
OBVIOUS

\* The bytes on the air are the frame, whatever the Buffer held before.
LEMMA OnAirIsFrame ==
    ASSUME NEW b, NEW p, Room(b, p), NEW f, Ready(f, b, p)
    PROVE  /\ SerializePacket(f) \in Message(b, p)
           /\ OnAirBytes(SerializePacket(f)) = Frame(f)
<1>1. f.Buffer \in Bytes(b) /\ f.BufSize = 255 /\ b \in Nat
    BY ReadyFields
<1> DEFINE n == FrameSize(f)
<1>2. n \in 9 .. 254 /\ n \in 0 .. b /\ n \in Int
    BY SizeType
<1>3. ~(f.BufSize < n + FLenFieldSize - 1)
    <2>1. n <= 254
        BY <1>2
    <2> HIDE DEF n
    <2>. QED
        BY <1>1, <1>2, <2>1 DEF FLenFieldSize
<1> DEFINE g == SerializePacket(f)
           buffer == Overlay(Frame(f), f.Buffer)
<1>4. g = [f EXCEPT !.Buffer = buffer, !.BufSize = n]
    BY <1>3 DEF SerializePacket
<1>5. Frame(f) \in Bytes(n)
    BY FrameType
<1>6. /\ buffer \in Bytes(b)
      /\ \A i \in 1 .. b : i <= n => buffer[i] = Frame(f)[i]
    <2>1. n \in Nat
        BY <1>2
    <2> HIDE DEF n
    <2>. QED
        <3>1. f.Buffer \in Bytes(b) /\ b \in Nat
            BY <1>1
        <3>. QED
            BY <1>5, <2>1, <3>1, OverlayOnto, Zenon
<1>7. f \in Message(b, p)
    BY DEF Ready
<1>8. g \in Message(b, p)
    <2> HIDE DEF buffer, g, n
    <2>1. [f EXCEPT !.Buffer = buffer] \in Message(b, p)
        BY <1>6, <1>7, BytesField
    <2>. QED
        BY <1>2, <1>4, <2>1, NumberField
<1>9. g.Buffer = buffer /\ g.BufSize = n
    <2> HIDE DEF buffer, g, n
    <2>. QED
        BY <1>4, <1>7 DEF Message
<1>10. OnAirBytes(g) = [i \in 1 .. n |-> Frame(f)[i]]
    <2>1. \A i \in 1 .. n : i \in 1 .. b /\ i <= n
        BY <1>1, <1>2
    <2> HIDE DEF buffer, g, n
    <2>. QED
        BY <1>6, <1>9, <2>1 DEF OnAirBytes
<1>11. [i \in 1 .. n |-> Frame(f)[i]] = Frame(f)
    <2> HIDE DEF n
    <2>. QED
        BY <1>5 DEF Bytes
<1>. QED
    BY <1>8, <1>10, <1>11

\* A message that has received a packet has its bytes in front of what it had.
LEMMA ReceivedBytes ==
    ASSUME NEW b, NEW p, Room(b, p), NEW old \in Message(b, p),
           NEW k \in Nat, k <= b, NEW bytes \in Bytes(k),
           NEW in, in = Received(old, bytes)
    PROVE  /\ in \in Message(b, p) /\ in.BufSize = k /\ in.FRMPayload = old.FRMPayload
           /\ \A i \in 1 .. b : i <= k => in.Buffer[i] = bytes[i]
           /\ \A i \in 1 .. b : ~(i <= k) => in.Buffer[i] = old.Buffer[i]
<1>1. Len(bytes) = k
    BY LenOfBytes
<1> DEFINE buffer == Overlay(bytes, old.Buffer)
<1>2. in = [old EXCEPT !.Buffer = buffer, !.BufSize = k]
    BY <1>1 DEF Received
<1>3. old.Buffer \in Bytes(b)
    BY DEF Message
<1>4. /\ buffer \in Bytes(b)
      /\ \A i \in 1 .. b : i <= k => buffer[i] = bytes[i]
      /\ \A i \in 1 .. b : ~(i <= k) => buffer[i] = old.Buffer[i]
    <2>1. b \in Nat
        BY DEF Room
    <2>. QED
        BY <1>3, <2>1, OverlayOnto, Zenon
<1> HIDE DEF buffer
<1>5. in \in Message(b, p)
    <2>1. in = [old EXCEPT !.Buffer = buffer, !.BufSize = Len(bytes)]
        BY DEF Received, buffer
    <2>2. Len(bytes) \in Int
        BY <1>1
    <2>3. buffer \in Bytes(b)
        BY <1>4
    <2>4. [old EXCEPT !.Buffer = buffer, !.BufSize = Len(bytes)] \in Message(b, p)
        BY <2>2, <2>3, BufferField
    <2>. QED
        BY <2>1, <2>4, Zenon
<1>6. in.BufSize = k /\ in.FRMPayload = old.FRMPayload /\ in.Buffer = buffer
    BY <1>2 DEF Message
<1>. QED
    BY <1>4, <1>5, <1>6

\* What is parsed from any packet: the header is what the Buffer's first bytes say,
\* and the payload is what follows them, or remains if nothing does.
LEMMA ParseShape ==
    ASSUME NEW b, NEW p, Room(b, p),
           NEW in \in Message(b, p), in.BufSize \in 0 .. b, NEW got, got = Parse(in)
    PROVE  /\ got \in Message(b, p) /\ got.Buffer = in.Buffer /\ got.BufSize = in.BufSize
           /\ \A i \in 1 .. 4 : got.DevAddr[i] = in.Buffer[i + 1]
           /\ got.FCtrl = in.Buffer[6]
           /\ got.FCnt = in.Buffer[7] + 256 * in.Buffer[8]
           /\ ~HasPort(in) => ~ParseFails(in) /\ got.FRMPayload = in.FRMPayload
                                             /\ got.FRMPayloadSize = 0
           /\ HasPort(in) =>
                 /\ ParseFails(in) <=> in.Buffer[9] # in.BufSize - 10
                 /\ got.FRMPayloadSize = in.BufSize - 10
                 /\ ~ParseFails(in) => \A i \in 1 .. p :
                        i <= in.BufSize - 10 => got.FRMPayload[i] = in.Buffer[i + 10]
<1> DEFINE h    == ParseHeader(in)
           addr == [i \in 1 .. 4 |-> in.Buffer[i + 1]]
           cnt  == in.Buffer[7] + 256 * in.Buffer[8]
<1>1. /\ b \in Nat /\ p \in Nat /\ p + 10 <= b
      /\ in.Buffer \in Bytes(b) /\ in.FRMPayload \in Bytes(p)
    <2>1. b \in Nat /\ p \in Nat /\ p + 10 <= b
        BY DEF Room, HeaderSize
    <2>2. in.Buffer \in Bytes(b) /\ in.FRMPayload \in Bytes(p)
        BY DEF Message
    <2>. QED
        BY <2>1, <2>2
<1>2. /\ \A i \in 1 .. 10 : in.Buffer[i] \in Int
      /\ addr \in Bytes(4) /\ cnt \in Int
      /\ \A i \in 1 .. 4 : addr[i] = in.Buffer[i + 1]
    BY <1>1 DEF Bytes
<1>3. h = [in EXCEPT !.MHDR = in.Buffer[1], !.DevAddr = addr, !.FCtrl = in.Buffer[6],
                     !.FCnt = cnt, !.FLen = in.Buffer[9], !.FPort = 0, !.FRMPayloadSize = 0]
    BY DEF ParseHeader
<1>4. in.Buffer[1] \in Int /\ in.Buffer[6] \in Int /\ in.Buffer[9] \in Int /\ in.Buffer[10] \in Int
    BY <1>2
<1> HIDE DEF h, addr, cnt
<1>5. h \in Message(b, p)
    <2>1. [in EXCEPT !.MHDR = in.Buffer[1]] \in Message(b, p)
        BY <1>4, Literals, NumberField
    <2>2. [in EXCEPT !.MHDR = in.Buffer[1], !.DevAddr = addr] \in Message(b, p)
        BY <1>2, <2>1, BytesField
    <2>3. [in EXCEPT !.MHDR = in.Buffer[1], !.DevAddr = addr, !.FCtrl = in.Buffer[6]]
              \in Message(b, p)
        BY <1>4, <2>2, Literals, NumberField
    <2>4. [in EXCEPT !.MHDR = in.Buffer[1], !.DevAddr = addr, !.FCtrl = in.Buffer[6],
                     !.FCnt = cnt] \in Message(b, p)
        BY <1>2, <2>3, Literals, NumberField
    <2>5. [in EXCEPT !.MHDR = in.Buffer[1], !.DevAddr = addr, !.FCtrl = in.Buffer[6],
                     !.FCnt = cnt, !.FLen = in.Buffer[9]] \in Message(b, p)
        BY <1>4, <2>4, Literals, NumberField
    <2>6. [in EXCEPT !.MHDR = in.Buffer[1], !.DevAddr = addr, !.FCtrl = in.Buffer[6],
                     !.FCnt = cnt, !.FLen = in.Buffer[9], !.FPort = 0] \in Message(b, p)
        BY <2>5, Literals, NumberField
    <2>. QED
        BY <1>3, <2>6, Literals, NumberField
<1>6. /\ h.Buffer = in.Buffer /\ h.BufSize = in.BufSize /\ h.DevAddr = addr
      /\ h.FCtrl = in.Buffer[6] /\ h.FCnt = cnt
      /\ h.FRMPayload = in.FRMPayload /\ h.FRMPayloadSize = 0
    BY <1>3 DEF Message
<1>7. CASE ~HasPort(in)
    <2>1. ~ParseFails(in) /\ got = h
        BY <1>7 DEF Parse, ParseFails, h
    <2>. QED
        BY <1>2, <1>5, <1>6, <1>7, <2>1 DEF cnt
<1>8. CASE HasPort(in)
    <2> DEFINE k == in.BufSize - 10
    <2>1. k \in Nat /\ k + 10 <= b
        BY <1>8 DEF HasPort, HeaderSize
    <2>2. Rest(in) = [i \in 1 .. k |-> in.Buffer[i + 10]]
        BY DEF Rest, HeaderSize
    <2>3. \A i \in 1 .. k : in.Buffer[i + 10] \in Int
        BY <1>1, <2>1 DEF Bytes
    <2> HIDE DEF k
    <2>4. Rest(in) \in Bytes(k)
        BY <2>2, <2>3 DEF Bytes
    <2>5. Len(Rest(in)) = k
        BY <2>1, <2>4, LenOfBytes
    <2>6. ParseFails(in) <=> in.Buffer[9] # k
        BY <1>8, <2>5 DEF ParseFails
    <2> DEFINE text == IF ParseFails(in) THEN h.FRMPayload ELSE Overlay(Rest(in), h.FRMPayload)
    <2>7. got = [h EXCEPT !.FPort = in.Buffer[10], !.FRMPayloadSize = k, !.FRMPayload = text]
        BY <1>8, <2>5 DEF Parse, h
    <2>8. /\ Overlay(Rest(in), in.FRMPayload) \in Bytes(p)
          /\ \A i \in 1 .. p : i <= k => Overlay(Rest(in), in.FRMPayload)[i] = Rest(in)[i]
        BY <1>1, <2>1, <2>4, OverlayOnto, Zenon
    <2>9. text \in Bytes(p)
        BY <1>1, <1>6, <2>8
    <2>10. ~ParseFails(in) => \A i \in 1 .. p : i <= k => text[i] = in.Buffer[i + 10]
        <3>1. SUFFICES ASSUME ~ParseFails(in), NEW i \in 1 .. p, i <= k
                       PROVE  text[i] = in.Buffer[i + 10]
            OBVIOUS
        <3>2. text[i] = Rest(in)[i]
            BY <1>6, <2>8, <3>1
        <3>3. i \in 1 .. k
            BY <3>1, <2>1
        <3>. QED
            BY <2>2, <3>2, <3>3
    <2> HIDE DEF text
    <2>11. got \in Message(b, p)
        <3>1. k \in Int
            BY <2>1
        <3>2. [h EXCEPT !.FPort = in.Buffer[10]] \in Message(b, p)
            BY <1>4, <1>5, Literals, NumberField
        <3>3. [h EXCEPT !.FPort = in.Buffer[10], !.FRMPayloadSize = k] \in Message(b, p)
            BY <3>1, <3>2, Literals, NumberField
        <3>4. [h EXCEPT !.FPort = in.Buffer[10], !.FRMPayloadSize = k, !.FRMPayload = text]
                  \in Message(b, p)
            BY <2>9, <3>3, BytesField
        <3>. QED
            BY <2>7, <3>4, Zenon
    <2>12. /\ got.Buffer = h.Buffer /\ got.BufSize = h.BufSize /\ got.DevAddr = h.DevAddr
           /\ got.FCtrl = h.FCtrl /\ got.FCnt = h.FCnt
           /\ got.FRMPayloadSize = k /\ got.FRMPayload = text
        BY <1>5, <2>7 DEF Message
    <2>. QED
        BY <1>2, <1>6, <1>8, <2>6, <2>10, <2>11, <2>12 DEF k, cnt
<1>. QED
    BY <1>7, <1>8

\* What LoRaMac_ParserData makes of a frame, whatever the message held.
LEMMA ParseFrame ==
    ASSUME NEW b, NEW p, Room(b, p), NEW f, Ready(f, b, p), NEW old \in Message(b, p),
           NEW in, in = Received(old, Frame(f)),
           NEW got, got = Parse(in)
    PROVE  /\ ~ParseFails(in) /\ got \in Message(b, p) /\ got.Buffer = in.Buffer
           /\ got.DevAddr = f.DevAddr /\ got.FCtrl = f.FCtrl /\ got.FCnt = f.FCnt
           /\ got.FRMPayloadSize = f.FRMPayloadSize
           /\ \A i \in 1 .. f.FRMPayloadSize : got.FRMPayload[i] = f.FRMPayload[i]
<1> DEFINE n == FrameSize(f)
           k == f.FRMPayloadSize
<1>1. /\ b \in Nat /\ p \in Nat /\ p + 10 <= b /\ k \in 0 .. p /\ k <= 244 /\ f.FLen = k
      /\ f.DevAddr \in Bytes(4) /\ f.FCnt \in Int
    BY ReadyFields
<1>2. /\ n \in 9 .. 254 /\ n \in 0 .. b /\ n \in Nat /\ n <= b
      /\ k > 0 => n = 10 + k
      /\ k = 0 => n = 9
    BY SizeType
<1>3. Frame(f) \in Bytes(n)
    BY FrameType
<1>4. /\ in \in Message(b, p) /\ in.BufSize = n
      /\ \A i \in 1 .. b : i <= n => in.Buffer[i] = Frame(f)[i]
    <2> HIDE DEF n
    <2>. QED
        BY <1>1, <1>2, <1>3, ReceivedBytes
<1>5. \A i \in 1 .. 9 : in.Buffer[i] = Header(f)[i]
    <2> TAKE i \in 1 .. 9
    <2>1. i \in 1 .. b /\ i <= n /\ i \in 1 .. n /\ i <= 10
        BY <1>1, <1>2
    <2>2. Frame(f)[i] = Header(f)[i]
        BY <2>1 DEF Frame, HeaderSize
    <2>3. in.Buffer[i] = Frame(f)[i]
        BY <1>4, <2>1
    <2>. QED
        BY <2>2, <2>3
<1>6. /\ in.Buffer[2] = f.DevAddr[1] /\ in.Buffer[3] = f.DevAddr[2]
      /\ in.Buffer[4] = f.DevAddr[3] /\ in.Buffer[5] = f.DevAddr[4]
      /\ in.Buffer[6] = f.FCtrl
      /\ in.Buffer[7] = f.FCnt % 256 /\ in.Buffer[8] = f.FCnt \div 256
      /\ in.Buffer[9] = f.FLen % 256
    BY <1>5 DEF Header
<1>7. in.BufSize \in 0 .. b
    BY <1>2, <1>4
<1> HIDE DEF n, k
<1>8. /\ got \in Message(b, p) /\ got.Buffer = in.Buffer
      /\ \A i \in 1 .. 4 : got.DevAddr[i] = in.Buffer[i + 1]
      /\ got.FCtrl = in.Buffer[6]
      /\ got.FCnt = in.Buffer[7] + 256 * in.Buffer[8]
      /\ ~HasPort(in) => ~ParseFails(in) /\ got.FRMPayload = in.FRMPayload
                                        /\ got.FRMPayloadSize = 0
      /\ HasPort(in) =>
            /\ ParseFails(in) <=> in.Buffer[9] # in.BufSize - 10
            /\ got.FRMPayloadSize = in.BufSize - 10
            /\ ~ParseFails(in) => \A i \in 1 .. p :
                   i <= in.BufSize - 10 => got.FRMPayload[i] = in.Buffer[i + 10]
    BY <1>4, <1>7, ParseShape
<1>9. got.DevAddr = f.DevAddr
    <2>1. got.DevAddr \in Bytes(4)
        BY <1>8 DEF Message
    <2>2. \A i \in 1 .. 4 : got.DevAddr[i] = f.DevAddr[i]
        BY <1>6, <1>8
    <2>. QED
        BY <1>1, <2>1, <2>2 DEF Bytes
<1>10. got.FCnt = f.FCnt
    BY <1>1, <1>6, <1>8, WordBytes
<1>11. in.Buffer[9] = k
    <2>1. \A j \in 0 .. 244 : j % 256 = j
        OBVIOUS
    <2>2. k \in 0 .. 244
        BY <1>1
    <2>. QED
        BY <1>1, <1>6, <2>1, <2>2
<1>12. CASE k = 0
    <2>1. ~HasPort(in)
        BY <1>2, <1>4, <1>12 DEF HasPort, HeaderSize
    <2>2. \A i \in 1 .. k : got.FRMPayload[i] = f.FRMPayload[i]
        BY <1>12
    <2>. QED
        BY <1>6, <1>8, <1>9, <1>10, <1>12, <2>1, <2>2 DEF k
<1>13. CASE k > 0
    <2>1. n = 10 + k /\ HasPort(in) /\ in.BufSize - 10 = k
        BY <1>1, <1>2, <1>4, <1>13 DEF HasPort, HeaderSize
    <2>2. ~ParseFails(in)
        BY <1>8, <1>11, <2>1
    <2>3. ASSUME NEW i \in 1 .. k
          PROVE  got.FRMPayload[i] = f.FRMPayload[i]
        <3>1. /\ i \in 1 .. p /\ i <= k /\ i + 10 \in 1 .. b /\ i + 10 <= n
              /\ i + 10 \in 1 .. n /\ ~(i + 10 <= 10) /\ (i + 10) - 10 = i
            BY <1>1, <2>1
        <3>2. got.FRMPayload[i] = in.Buffer[i + 10]
            BY <1>8, <2>1, <2>2, <3>1
        <3>3. in.Buffer[i + 10] = Frame(f)[i + 10]
            BY <1>4, <3>1
        <3>4. Frame(f)[i + 10] = f.FRMPayload[(i + 10) - 10]
            BY <3>1 DEF Frame, HeaderSize, n
        <3>. QED
            BY <3>1, <3>2, <3>3, <3>4
    <2>. QED
        BY <1>6, <1>8, <1>9, <1>10, <2>1, <2>2, <2>3 DEF k
<1>. QED
    BY <1>1, <1>12, <1>13

\* A message being set up, before it is written.
LEMMA UnsizedFields ==
    ASSUME NEW b, NEW p, NEW msg \in Message(b, p),
           NEW addr \in Bytes(4), NEW cnt \in Int
    PROVE  /\ Unsized(msg, addr, cnt) \in Message(b, p)
           /\ Unsized(msg, addr, cnt).BufSize = 255
           /\ Unsized(msg, addr, cnt).DevAddr = addr
           /\ Unsized(msg, addr, cnt).FCnt = cnt
<1> DEFINE m == Unconfirmed + (msg.MHDR % 32)
           u == [msg EXCEPT !.MHDR = m, !.BufSize = 255, !.DevAddr = addr, !.FCnt = cnt]
<1>1. Unsized(msg, addr, cnt) = u
    BY DEF Unsized
<1>2. msg.MHDR \in Int
    BY DEF Message
<1>3. m \in Int
    BY <1>2 DEF Unconfirmed
<1> HIDE DEF m
<1>4. u \in Message(b, p)
    <2>1. [msg EXCEPT !.MHDR = m] \in Message(b, p)
        BY <1>3, Literals, NumberField
    <2>2. [msg EXCEPT !.MHDR = m, !.BufSize = 255] \in Message(b, p)
        BY <2>1, Literals, NumberField
    <2>3. [msg EXCEPT !.MHDR = m, !.BufSize = 255, !.DevAddr = addr] \in Message(b, p)
        BY <2>2, BytesField
    <2>. QED
        BY <2>3, Literals, NumberField
<1>5. u.BufSize = 255 /\ u.DevAddr = addr /\ u.FCnt = cnt
    BY DEF Message
<1>. QED
    BY <1>1, <1>4, <1>5

\* LoRaMac_SetUpDataMessage writes a message that is ready.
LEMMA DataIsReady ==
    ASSUME NEW b, NEW p, Room(b, p), NEW msg \in Message(b, p),
           NEW addr \in Bytes(4), NEW cnt \in Int,
           NEW k \in Nat, k > 0, k <= 244, k <= p, NEW data \in Bytes(k)
    PROVE  \E f : /\ Ready(f, b, p)
                  /\ SetUpDataMessage(msg, addr, cnt, data) = SerializePacket(f)
                  /\ f.DevAddr = addr /\ f.FCnt = cnt /\ f.FRMPayloadSize = k
                  /\ \A i \in 1 .. k : f.FRMPayload[i] = data[i]
<1>1. Len(data) = k
    BY LenOfBytes
<1> DEFINE u == Unsized(msg, addr, cnt)
           text == Overlay(data, u.FRMPayload)
           f == [u EXCEPT !.FLen = Len(data), !.FPort = 0, !.FRMPayload = text,
                          !.FRMPayloadSize = Len(data)]
<1>2. u \in Message(b, p) /\ u.BufSize = 255 /\ u.DevAddr = addr /\ u.FCnt = cnt
    <2> HIDE DEF text, f
    <2>. QED
        BY UnsizedFields
<1>3. SetUpDataMessage(msg, addr, cnt, data) = SerializePacket(f)
    BY DEF SetUpDataMessage
<1> HIDE DEF u
<1>4. p \in Nat /\ u.FRMPayload \in Bytes(p)
    BY <1>2 DEF Room, Message
<1>5. /\ text \in Bytes(p)
      /\ \A i \in 1 .. p : i <= k => text[i] = data[i]
    BY <1>4, OverlayOnto, Zenon
<1>6. \A i \in 1 .. k : text[i] = data[i]
    <2>1. \A i \in 1 .. k : i \in 1 .. p /\ i <= k
        BY <1>4
    <2> HIDE DEF text
    <2>. QED
        BY <1>5, <2>1
<1> HIDE DEF text
<1>7. f \in Message(b, p)
    <2>1. Len(data) \in Int
        BY <1>1
    <2>2. [u EXCEPT !.FLen = Len(data)] \in Message(b, p)
        BY <1>2, <2>1, Literals, NumberField
    <2>3. [u EXCEPT !.FLen = Len(data), !.FPort = 0] \in Message(b, p)
        BY <2>2, Literals, NumberField
    <2>4. [u EXCEPT !.FLen = Len(data), !.FPort = 0, !.FRMPayload = text] \in Message(b, p)
        BY <1>5, <2>3, BytesField
    <2>. QED
        BY <2>1, <2>4, Literals, NumberField
<1>8. /\ f.BufSize = 255 /\ f.DevAddr = addr /\ f.FCnt = cnt /\ f.FLen = k
      /\ f.FRMPayloadSize = k /\ f.FRMPayload = text
    BY <1>1, <1>2 DEF Message
<1> HIDE DEF f
<1>9. k \in 0 .. p /\ k <= 244
    BY <1>4
<1>10. Ready(f, b, p)
    BY <1>7, <1>8, <1>9 DEF Ready
<1>. QED
    BY <1>3, <1>6, <1>8, <1>10

\* LoRaMac_SetUpACKMessage too.
LEMMA AckIsReady ==
    ASSUME NEW b, NEW p, Room(b, p), NEW msg \in Message(b, p),
           NEW addr \in Bytes(4), NEW cnt \in Int
    PROVE  \E f : /\ Ready(f, b, p)
                  /\ SetUpACKMessage(msg, addr, cnt) = SerializePacket(f)
                  /\ f.DevAddr = addr /\ f.FCnt = cnt /\ f.FRMPayloadSize = 0
                  /\ f.FCtrl \div Ack = 1
<1> DEFINE u == Unsized(msg, addr, cnt)
           c == Ack + (u.FCtrl % 128)
           f == [u EXCEPT !.FCtrl = c, !.FLen = 0, !.FPort = 0, !.FRMPayloadSize = 0]
<1>1. u \in Message(b, p) /\ u.BufSize = 255 /\ u.DevAddr = addr /\ u.FCnt = cnt
    <2> HIDE DEF c, f
    <2>. QED
        BY UnsizedFields
<1>2. SetUpACKMessage(msg, addr, cnt) = SerializePacket(f)
    BY DEF SetUpACKMessage
<1> HIDE DEF u
<1>3. c \in Int /\ c \div Ack = 1
    <2>1. u.FCtrl \in Int
        BY <1>1 DEF Message
    <2>2. \A x \in Int : 128 + (x % 128) \in Int /\ (128 + (x % 128)) \div 128 = 1
        OBVIOUS
    <2>. QED
        BY <2>1, <2>2 DEF Ack
<1> HIDE DEF c
<1>4. f \in Message(b, p)
    <2>1. [u EXCEPT !.FCtrl = c] \in Message(b, p)
        BY <1>1, <1>3, Literals, NumberField
    <2>2. [u EXCEPT !.FCtrl = c, !.FLen = 0] \in Message(b, p)
        BY <2>1, Literals, NumberField
    <2>3. [u EXCEPT !.FCtrl = c, !.FLen = 0, !.FPort = 0] \in Message(b, p)
        BY <2>2, Literals, NumberField
    <2>. QED
        BY <2>3, Literals, NumberField
<1>5. /\ f.BufSize = 255 /\ f.DevAddr = addr /\ f.FCnt = cnt /\ f.FLen = 0
      /\ f.FRMPayloadSize = 0 /\ f.FCtrl = c
    BY <1>1 DEF Message
<1> HIDE DEF f
<1>6. p \in Nat /\ 0 \in 0 .. p /\ 0 <= 244
    BY DEF Room
<1>7. Ready(f, b, p)
    BY <1>4, <1>5, <1>6 DEF Ready
<1>. QED
    BY <1>2, <1>3, <1>5, <1>7

\* DataRoundTrip: the gateway parses from a node's data frame the address, the
\* counter and the payload that LoRaMac_SetUpDataMessage was given, whatever tx_msg
\* held before, and whatever macMsgData holds of earlier packets. (In the code b is
\* 256 and p is 245.)
THEOREM DataRoundTrip ==
    ASSUME NEW b, NEW p, Room(b, p),
           NEW msg \in Message(b, p), NEW old \in Message(b, p),
           NEW addr \in Address, NEW cnt \in Word,
           NEW k \in Nat, k > 0, k <= 244, k <= p, NEW data \in Bytes(k),
           NEW in, in = Received(old, OnAirBytes(SetUpDataMessage(msg, addr, cnt, data)))
    PROVE  /\ ~ParseFails(in)
           /\ Parse(in).DevAddr = addr /\ Parse(in).FCnt = cnt
           /\ Parse(in).FRMPayloadSize = k
           /\ \A i \in 1 .. k : Parse(in).FRMPayload[i] = data[i]
<1>1. addr \in Bytes(4) /\ cnt \in Int
    BY HeaderNumbers
<1>2. PICK f : /\ Ready(f, b, p)
               /\ SetUpDataMessage(msg, addr, cnt, data) = SerializePacket(f)
               /\ f.DevAddr = addr /\ f.FCnt = cnt /\ f.FRMPayloadSize = k
               /\ \A i \in 1 .. k : f.FRMPayload[i] = data[i]
    BY <1>1, DataIsReady
<1>3. in = Received(old, Frame(f))
    BY <1>2, OnAirIsFrame
<1>4. /\ ~ParseFails(in)
      /\ Parse(in).DevAddr = f.DevAddr /\ Parse(in).FCnt = f.FCnt
      /\ Parse(in).FRMPayloadSize = f.FRMPayloadSize
      /\ \A i \in 1 .. f.FRMPayloadSize : Parse(in).FRMPayload[i] = f.FRMPayload[i]
    BY <1>2, <1>3, ParseFrame
<1>. QED
    BY <1>2, <1>4, Zenon

\* AckRoundTrip: a node parses from the gateway's acknowledgement the address and the
\* counter that LoRaMac_SetUpACKMessage was given, with the Ack bit, whatever the two
\* messages held before: what LoRaSV_RxHandle tests.
THEOREM AckRoundTrip ==
    ASSUME NEW b, NEW p, Room(b, p),
           NEW msg \in Message(b, p), NEW old \in Message(b, p),
           NEW addr \in Address, NEW cnt \in Word,
           NEW in, in = Received(old, OnAirBytes(SetUpACKMessage(msg, addr, cnt)))
    PROVE  /\ ~ParseFails(in)
           /\ Parse(in).DevAddr = addr /\ Parse(in).FCnt = cnt
           /\ Parse(in).FCtrl \div Ack = 1 /\ Parse(in).FRMPayloadSize = 0
<1>1. addr \in Bytes(4) /\ cnt \in Int
    BY HeaderNumbers
<1>2. PICK f : /\ Ready(f, b, p)
               /\ SetUpACKMessage(msg, addr, cnt) = SerializePacket(f)
               /\ f.DevAddr = addr /\ f.FCnt = cnt /\ f.FRMPayloadSize = 0
               /\ f.FCtrl \div Ack = 1
    BY <1>1, AckIsReady
<1>3. in = Received(old, Frame(f))
    BY <1>2, OnAirIsFrame
<1>4. /\ ~ParseFails(in)
      /\ Parse(in).DevAddr = f.DevAddr /\ Parse(in).FCnt = f.FCnt
      /\ Parse(in).FCtrl = f.FCtrl /\ Parse(in).FRMPayloadSize = f.FRMPayloadSize
    BY <1>2, <1>3, ParseFrame
<1>. QED
    BY <1>2, <1>4
===============================================================================
