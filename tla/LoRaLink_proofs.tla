---------------------------- MODULE LoRaLink_proofs ----------------------------
(***************************************************************************)
(* Proofs about LoRaLink, for every set of nodes, every number of counter  *)
(* values, and every size of the concentrator's buffer and of a batch:     *)
(* it implements Delivery, and counters are stored in order.               *)
(***************************************************************************)
EXTENDS LoRaLink, SequenceTheorems, TLAPS

\* TypeOK in three parts: the node, the two queues, the rest.
NodeOK ==
    /\ lps \in [Node -> {"TX", "RX", "SLEEP", "standby"}]
    /\ after \in [Node -> {"TX", "RX", "SLEEP"}]
    /\ retry \in [Node -> {"no", "yes"}] /\ u8Count \in [Node -> 0 .. 3]
    /\ cnt \in [Node -> Cnt] /\ heard \in [Node -> Cnt \cup {NoCnt}]
FifoOK ==
    /\ rxFifo \in Seq(Packet) /\ Len(rxFifo) <= FifoSize
    /\ \A i \in 1 .. Len(rxFifo) : rxFifo[i].kind = "data" => rxFifo[i].node \in Node
BatchOK ==
    /\ gwPc \in GwPc /\ batch \in Seq(Packet) /\ packetCount \in 0 .. Len(batch)
    /\ \A i \in 1 .. Len(batch) : batch[i].kind = "data" => batch[i].node \in Node
    /\ gwPc \notin {"packet", "ack", "poll", "store"} => batch = <<>> /\ packetCount = 0
    /\ gwPc \in {"ack", "poll", "store"} =>
           packetCount < Len(batch) /\ Current \in Packet /\ Current.node \in Node
HistOK ==
    /\ signal \in {"no", "yes"}
    /\ fresh \in [Node -> {"new", "handed", "lost"}] /\ last \in [Node -> Cnt]
    /\ dropped \in [Node -> {"no", "yes"}]
TypeInv == NodeOK /\ FifoOK /\ BatchOK /\ HistOK

LEMMA TypeInvType == TypeInv => TypeOK
BY DEF TypeInv, NodeOK, FifoOK, BatchOK, HistOK, TypeOK

LEMMA TypeInit == Init => TypeInv
<1> SUFFICES ASSUME Init PROVE TypeInv
    OBVIOUS
<1>0. CntMod \in Nat /\ CntMod > 1 /\ FifoSize \in Nat
    BY LinkAssumption
<1>1. 0 \in Cnt /\ CntMod - 1 \in Cnt /\ NoCnt = CntMod
    BY <1>0 DEF Cnt, NoCnt
<1>2. NodeOK
    BY <1>1 DEF Init, NodeOK
<1>3. FifoOK
    BY <1>0 DEF Init, FifoOK
<1>4. BatchOK
    BY DEF Init, BatchOK, GwPc
<1>5. HistOK
    BY <1>1 DEF Init, HistOK
<1> QED
    BY <1>2, <1>3, <1>4, <1>5 DEF TypeInv

\* What the concentrator is given is a packet, and a node's frame has a node.
LEMMA ReceivedType ==
    ASSUME FifoOK, NEW p \in Packet, p.kind = "data" => p.node \in Node, Received(p)
    PROVE  FifoOK'
<1>1. CASE Len(rxFifo) < FifoSize
    <2>0. rxFifo' = Append(rxFifo, p)
        BY <1>1 DEF Received
    <2>1. rxFifo' \in Seq(Packet) /\ Len(rxFifo') = Len(rxFifo) + 1
        BY <2>0 DEF FifoOK
    <2>2. \A i \in 1 .. Len(rxFifo') : rxFifo'[i] = IF i <= Len(rxFifo) THEN rxFifo[i] ELSE p
        BY <2>0 DEF FifoOK
    <2>3. Len(rxFifo') <= FifoSize
        BY <2>1, <1>1, LinkAssumption DEF FifoOK
    <2> QED
        BY <2>1, <2>2, <2>3 DEF FifoOK
<1>2. CASE ~(Len(rxFifo) < FifoSize)
    BY <1>2 DEF Received, FifoOK
<1> QED
    BY <1>1, <1>2

LEMMA OddPacket ==
    ASSUME NEW k \in {"crc", "malformed", "foreign"}
    PROVE  Odd(k) \in Packet /\ Odd(k).kind = k /\ Odd(k).node = NoNode
<1>1. 0 \in Cnt
    BY LinkAssumption DEF Cnt
<1> QED
    BY <1>1 DEF Odd, Packet

LEMMA DataPacket ==
    ASSUME NodeOK, NEW n \in Node
    PROVE  Data(n) \in Packet /\ Data(n).node = n /\ Data(n).cnt = cnt[n]
BY DEF Data, Packet, NodeOK

LEMMA CurrentPacket ==
    ASSUME BatchOK, packetCount < Len(batch)
    PROVE  Current \in Packet /\ (Current.kind = "data" => Current.node \in Node)
<1>1. packetCount + 1 \in 1 .. Len(batch)
    BY DEF BatchOK
<1>2. batch[packetCount + 1] \in Packet
    BY <1>1, ElementOfSeq DEF BatchOK
<1> QED
    BY <1>1, <1>2 DEF BatchOK, Current

LEMMA RoundType == ASSUME GwRound \/ GwEnd PROVE BatchOK'
<1>1. gwPc' \in {"fetch", "ended"} /\ batch' = <<>> /\ packetCount' = 0
    BY DEF GwRound, GwEnd
<1>2. <<>> \in Seq(Packet) /\ Len(<<>>) = 0
    OBVIOUS
<1> QED
    BY <1>1, <1>2 DEF BatchOK, GwPc

LEMMA GotoType ==
    ASSUME BatchOK, NEW pc \in {"ack", "poll", "store"}, GwGoto(pc),
           packetCount < Len(batch), Current.node \in Node
    PROVE  BatchOK'
<1>1. Current \in Packet /\ Current' = Current
    BY CurrentPacket DEF GwGoto, Current
<1> QED
    BY <1>1 DEF GwGoto, BatchOK, GwPc

LEMMA TypeNext == TypeInv /\ [Next]_vars => TypeInv'
<1> SUFFICES ASSUME TypeInv, [Next]_vars PROVE TypeInv'
    OBVIOUS
<1>n. CntMod \in Nat /\ CntMod > 1 /\ NoCnt = CntMod
    BY LinkAssumption DEF NoCnt
<1>t. NodeOK /\ FifoOK /\ BatchOK /\ HistOK
    BY DEF TypeInv
<1>s. UNCHANGED gwVars => BatchOK'
    BY <1>t DEF gwVars, BatchOK, Current
<1>1. ASSUME NEW n \in Node, NodeSend(n) PROVE TypeInv'
    <2>1. NodeOK'
        BY <1>1, <1>t DEF NodeSend, NodeOK
    <2>2. FifoOK'
        <3>1. CASE Received(Data(n))
            BY <3>1, <1>t, DataPacket, ReceivedType
        <3>2. CASE Received(Odd("crc"))
            BY <3>2, <1>t, OddPacket, ReceivedType
        <3>3. CASE UNCHANGED rxFifo
            BY <3>3, <1>t DEF FifoOK
        <3> QED
            BY <1>1, <3>1, <3>2, <3>3 DEF NodeSend, OnAir
    <2>3. BatchOK' /\ HistOK'
        BY <1>1, <1>t, <1>s DEF NodeSend, histVars, HistOK
    <2> QED
        BY <2>1, <2>2, <2>3 DEF TypeInv
<1>2. ASSUME NEW n \in Node, NodeWake(n) PROVE TypeInv'
    BY <1>2, <1>t, <1>s DEF NodeWake, TypeInv, NodeOK, FifoOK, HistOK, histVars
<1>3. ASSUME NEW n \in Node, NodeStay(n) PROVE TypeInv'
    BY <1>3, <1>t, <1>s DEF NodeStay, TypeInv, NodeOK, FifoOK, HistOK, histVars
<1>4. ASSUME NEW n \in Node, NodeAccept(n) PROVE TypeInv'
    <2>1. (cnt[n] + 1) % CntMod \in Cnt
        BY <1>n, <1>t DEF NodeOK, Cnt
    <2>2. NodeOK'
        <3>1. CASE heard[n] = cnt[n]
            BY <3>1, <2>1, <1>4, <1>t DEF NodeAccept, NodeOK
        <3>2. CASE heard[n] # cnt[n]
            BY <3>2, <1>4, <1>t DEF NodeAccept, NodeOK
        <3> QED
            BY <3>1, <3>2
    <2>3. HistOK'
        BY <1>4, <1>t DEF NodeAccept, HistOK
    <2>4. FifoOK' /\ BatchOK'
        BY <1>4, <1>t, <1>s DEF NodeAccept, FifoOK
    <2> QED
        BY <2>2, <2>3, <2>4 DEF TypeInv
<1>5. ASSUME NEW n \in Node, NodeTimeout(n) PROVE TypeInv'
    BY <1>5, <1>t, <1>s DEF NodeTimeout, TypeInv, NodeOK, FifoOK, HistOK, histVars
<1>6. ASSUME GwStart PROVE TypeInv'
    <2>1. BatchOK'
        BY <1>6, <1>t DEF GwStart, GwGoto, BatchOK, GwPc, Current
    <2> QED
        BY <1>6, <1>t, <2>1 DEF GwStart, TypeInv, NodeOK, FifoOK, HistOK, nodeVars, histVars
<1>7. ASSUME GwFetch PROVE TypeInv'
    <2>1. NodeOK' /\ HistOK'
        BY <1>7, <1>t DEF GwFetch, NodeOK, HistOK, nodeVars, histVars
    <2>2. CASE UNCHANGED rxFifo /\ (GwEnd \/ GwRound)
        BY <2>1, <2>2, <1>t, RoundType DEF TypeInv, FifoOK
    <2>3. CASE /\ rxFifo # <<>> /\ gwPc' = "packet" /\ UNCHANGED packetCount
               /\ \E k \in {Len(rxFifo), BatchMax} :
                      /\ k <= Len(rxFifo)
                      /\ batch' = SubSeq(rxFifo, 1, k)
                      /\ rxFifo' = SubSeq(rxFifo, k + 1, Len(rxFifo))
        <3>1. PICK k \in {Len(rxFifo), BatchMax} :
                      /\ k <= Len(rxFifo)
                      /\ batch' = SubSeq(rxFifo, 1, k)
                      /\ rxFifo' = SubSeq(rxFifo, k + 1, Len(rxFifo))
            BY <2>3
        <3>2. k \in Nat /\ rxFifo \in Seq(Packet) /\ Len(rxFifo) \in Nat
            BY <1>t, LinkAssumption DEF FifoOK
        <3>3. /\ batch' \in Seq(Packet) /\ Len(batch') = k
              /\ \A i \in 1 .. k : batch'[i] = rxFifo[i]
            BY <3>1, <3>2
        <3>4. /\ rxFifo' \in Seq(Packet) /\ Len(rxFifo') = Len(rxFifo) - k
              /\ \A i \in 1 .. Len(rxFifo) - k : rxFifo'[i] = rxFifo[i + k]
            BY <3>1, <3>2
        <3>5. packetCount' = 0
            BY <1>7, <2>3, <1>t DEF GwFetch, BatchOK
        <3>6. BatchOK'
            <4>1. \A i \in 1 .. Len(batch') : batch'[i].kind = "data" => batch'[i].node \in Node
                BY <3>1, <3>2, <3>3, <1>t DEF FifoOK
            <4> QED
                BY <3>2, <3>3, <3>5, <4>1, <2>3 DEF BatchOK, GwPc
        <3>7. FifoOK'
            <4>1. \A i \in 1 .. Len(rxFifo') : rxFifo'[i].kind = "data" => rxFifo'[i].node \in Node
                BY <3>1, <3>2, <3>4, <1>t DEF FifoOK
            <4> QED
                BY <3>1, <3>2, <3>4, <4>1, <1>t, LinkAssumption DEF FifoOK
        <3> QED
            BY <2>1, <3>6, <3>7 DEF TypeInv
    <2>4. Len(rxFifo) \in Nat /\ BatchMax \in Nat
        BY <1>t, LinkAssumption DEF FifoOK
    <2> DEFINE k == IF Len(rxFifo) < BatchMax THEN Len(rxFifo) ELSE BatchMax
    <2>5. k \in {Len(rxFifo), BatchMax} /\ k <= Len(rxFifo)
        BY <2>4
    <2>6. \/ UNCHANGED rxFifo /\ (GwEnd \/ GwRound)
          \/ /\ rxFifo # <<>> /\ gwPc' = "packet" /\ UNCHANGED packetCount
             /\ batch' = SubSeq(rxFifo, 1, k)
             /\ rxFifo' = SubSeq(rxFifo, k + 1, Len(rxFifo))
        BY <1>7 DEF GwFetch
    <2> QED
        BY <2>2, <2>3, <2>5, <2>6
<1>8. ASSUME GwPacket PROVE TypeInv'
    <2>1. BatchOK'
        <3>1. CASE GwRound \/ GwEnd
            BY <3>1, RoundType
        <3>2. CASE packetCount # Len(batch) /\ Current.kind = "data" /\ GwGoto("ack")
            BY <3>2, <1>t, CurrentPacket, GotoType DEF BatchOK
        <3> QED
            BY <1>8, <3>1, <3>2 DEF GwPacket
    <2> QED
        BY <1>8, <1>t, <2>1 DEF GwPacket, TypeInv, NodeOK, FifoOK, HistOK, nodeVars, histVars
<1>9. ASSUME GwAck PROVE TypeInv'
    <2>0. packetCount < Len(batch) /\ Current \in Packet /\ Current.node \in Node
        BY <1>9, <1>t DEF GwAck, BatchOK
    <2>1. BatchOK'
        BY <1>9, <1>t, <2>0, RoundType, GotoType DEF GwAck
    <2>2. Current.cnt \in Cnt
        BY <2>0 DEF Packet
    <2>3. NodeOK'
        BY <1>9, <1>t, <2>2 DEF GwAck, NodeOK
    <2> QED
        BY <1>9, <1>t, <2>1, <2>3 DEF GwAck, TypeInv, FifoOK, HistOK, histVars
<1>10. ASSUME GwPoll PROVE TypeInv'
    <2>1. BatchOK'
        BY <1>10, <1>t, GotoType DEF GwPoll, BatchOK
    <2> QED
        BY <1>10, <1>t, <2>1 DEF GwPoll, TypeInv, NodeOK, FifoOK, HistOK, nodeVars, histVars
<1>11. ASSUME GwStore PROVE TypeInv'
    <2>1. BatchOK'
        BY <1>11, <1>t DEF GwStore, BatchOK, GwPc
    <2>2. Current.cnt \in Cnt
        BY <1>11, <1>t DEF GwStore, BatchOK, Packet
    <2>3. HistOK'
        BY <1>11, <1>t, <2>2 DEF GwStore, HistOK
    <2> QED
        BY <1>11, <1>t, <2>1, <2>3 DEF GwStore, TypeInv, NodeOK, FifoOK, nodeVars
<1>12. ASSUME Signal PROVE TypeInv'
    BY <1>12, <1>t, <1>s DEF Signal, TypeInv, NodeOK, FifoOK, HistOK, nodeVars, histVars
<1>13. ASSUME GwRestart PROVE TypeInv'
    <2>1. FifoOK' /\ BatchOK'
        BY <1>13, LinkAssumption DEF GwRestart, FifoOK, BatchOK, GwPc
    <2>2. HistOK'
        BY <1>13, <1>t DEF GwRestart, HistOK
    <2> QED
        BY <1>13, <1>t, <2>1, <2>2 DEF GwRestart, TypeInv, NodeOK, nodeVars
<1>14. ASSUME Other PROVE TypeInv'
    <2>1. PICK k \in Stray : Received(Odd(k)) /\ UNCHANGED <<nodeVars, gwVars, signal, histVars>>
        BY <1>14 DEF Other
    <2>2. FifoOK'
        BY <2>1, <1>t, OddPacket, ReceivedType, LinkAssumption
    <2> QED
        BY <2>1, <2>2, <1>t, <1>s DEF TypeInv, NodeOK, HistOK, nodeVars, histVars
<1>15. CASE UNCHANGED vars
    BY <1>15, <1>t, <1>s DEF vars, nodeVars, histVars, TypeInv, NodeOK, FifoOK, HistOK
<1> QED
    BY <1>1, <1>2, <1>3, <1>4, <1>5, <1>6, <1>7, <1>8, <1>9, <1>10, <1>11, <1>12, <1>13,
       <1>14, <1>15 DEF Next, NodeStep, GwStep

\* Every variable holds a value the code can give it, whatever the sizes of the queues.
THEOREM LinkTypeCorrect == Spec => []TypeOK
<1>1. Spec => []TypeInv
    BY TypeInit, TypeNext, PTL DEF Spec
<1> QED
    BY <1>1, TypeInvType, PTL
------------------------------------------------------------------------------
(* What waits for thread_up, as one queue: the rest of the batch, the packet it *)
(* is working on first, and then what is still in the concentrator.             *)

Left  == Len(batch) - packetCount
Size  == Left + Len(rxFifo)
At(i) == IF i <= Left THEN batch[packetCount + i] ELSE rxFifo[i - Left]

\* The first k packets leave the queue.
Shift(k) == Size' = Size - k /\ \A i \in 1 .. Size' : At(i)' = At(i + k)
\* Packet p joins it at its end.
Joins(p) == /\ Size' = Size + 1 /\ \A i \in 1 .. Size : At(i)' = At(i)
            /\ \A i \in {Size + 1} : At(i)' = p
\* All that ever happens to the queue: a node's frame that joins has its counter.
Moves == \/ \E k \in 0 .. Size : Shift(k)
         \/ \E p \in Packet : Joins(p) /\ \A n \in Node : p.node = n => p.cnt = cnt[n]

LEMMA SizeType == ASSUME TypeInv PROVE Left \in Nat /\ Size \in Nat /\ Len(rxFifo) \in Nat /\ Left <= Size
<1>1. Len(batch) \in Nat /\ packetCount \in 0 .. Len(batch) /\ Len(rxFifo) \in Nat
    BY DEF TypeInv, BatchOK, FifoOK
<1> QED
    BY <1>1 DEF Left, Size

LEMMA SameShift == ASSUME TypeInv, UNCHANGED <<rxFifo, gwVars>> PROVE Moves
<1>1. Size' = Size /\ \A i \in 1 .. Size' : At(i)' = At(i + 0)
    BY SizeType DEF gwVars, Size, Left, At
<1>2. Shift(0)
    BY <1>1, SizeType DEF Shift
<1> QED
    BY <1>2, SizeType DEF Moves

LEMMA ReceivedMoves ==
    ASSUME TypeInv, UNCHANGED gwVars, NEW p \in Packet, Received(p),
           \A n \in Node : p.node = n => p.cnt = cnt[n]
    PROVE  Moves
<1>1. CASE Len(rxFifo) < FifoSize
    <2>0. rxFifo' = Append(rxFifo, p)
        BY <1>1 DEF Received
    <2>1. /\ Len(rxFifo') = Len(rxFifo) + 1
          /\ \A i \in 1 .. Len(rxFifo) : rxFifo'[i] = rxFifo[i]
          /\ rxFifo'[Len(rxFifo) + 1] = p
        BY <2>0 DEF TypeInv, FifoOK
    <2>2. Left' = Left
        BY DEF gwVars, Left
    <2>3. Size' = Size + 1
        BY <2>1, <2>2, SizeType DEF Size
    <2>4. \A i \in 1 .. Size : At(i)' = At(i)
        <3> TAKE i \in 1 .. Size
        <3>1. ~(i <= Left) => i - Left \in 1 .. Len(rxFifo)
            BY SizeType DEF Size
        <3> QED
            BY <3>1, <2>1, <2>2 DEF At, gwVars
    <2>5. \A i \in {Size + 1} : At(i)' = p
        <3> TAKE i \in {Size + 1}
        <3>1. ~(i <= Left) /\ i - Left = Len(rxFifo) + 1
            BY SizeType DEF Size
        <3> QED
            BY <3>1, <2>1, <2>2 DEF At
    <2> QED
        BY <2>3, <2>4, <2>5 DEF Joins, Moves
<1>2. CASE ~(Len(rxFifo) < FifoSize)
    BY <1>2, SameShift DEF Received
<1> QED
    BY <1>1, <1>2

LEMMA OddMoves ==
    ASSUME TypeInv, UNCHANGED gwVars, NEW k \in {"crc", "malformed", "foreign"}, Received(Odd(k))
    PROVE  Moves
<1>1. Odd(k) \in Packet /\ \A n \in Node : Odd(k).node # n
    BY OddPacket, LinkAssumption
<1> QED
    BY <1>1, ReceivedMoves

LEMMA RoundMoves == ASSUME TypeInv, UNCHANGED rxFifo, GwRound \/ GwEnd PROVE Moves
<1>1. batch' = <<>> /\ packetCount' = 0
    BY DEF GwRound, GwEnd
<1>2. Left' = 0 /\ Size' = Len(rxFifo)
    BY <1>1, SizeType DEF Left, Size
<1>3. Size' = Size - Left
    BY <1>2, SizeType DEF Size
<1>4. \A i \in 1 .. Size' : At(i)' = At(i + Left)
    <2> TAKE i \in 1 .. Size'
    <2>1. ~(i <= 0) /\ ~(i + Left <= Left) /\ i - 0 = i /\ (i + Left) - Left = i
        BY <1>2, SizeType
    <2> QED
        BY <2>1, <1>2 DEF At
<1>5. Left \in 0 .. Size
    BY SizeType
<1> QED
    BY <1>3, <1>4, <1>5 DEF Shift, Moves

LEMMA FetchMoves ==
    ASSUME TypeInv, gwPc = "fetch", UNCHANGED packetCount, NEW k \in 1 .. Len(rxFifo),
           batch' = SubSeq(rxFifo, 1, k), rxFifo' = SubSeq(rxFifo, k + 1, Len(rxFifo))
    PROVE  Moves
<1>1. Left = 0 /\ packetCount = 0 /\ packetCount' = 0
    BY DEF TypeInv, BatchOK, Left
<1>2. rxFifo \in Seq(Packet) /\ Len(rxFifo) \in Nat
    BY DEF TypeInv, FifoOK
<1>3. Len(batch') = k /\ \A i \in 1 .. k : batch'[i] = rxFifo[i]
    BY <1>2
<1>4. /\ Len(rxFifo') = Len(rxFifo) - k
      /\ \A i \in 1 .. Len(rxFifo) - k : rxFifo'[i] = rxFifo[i + k]
    BY <1>2
<1>5. Left' = k /\ Size' = Len(rxFifo) /\ Size = Len(rxFifo)
    BY <1>1, <1>2, <1>3, <1>4 DEF Left, Size
<1>6. \A i \in 1 .. Size' : At(i)' = At(i + 0)
    <2> TAKE i \in 1 .. Size'
    <2>1. At(i + 0) = rxFifo[i]
        BY <1>1, <1>2, <1>5 DEF At
    <2>2. CASE i <= k
        <3>1. i \in 1 .. k /\ 0 + i = i
            BY <2>2, <1>5, <1>2
        <3> QED
            BY <3>1, <2>1, <2>2, <1>1, <1>3, <1>5 DEF At
    <2>3. CASE ~(i <= k)
        <3>1. i - k \in 1 .. Len(rxFifo) - k /\ (i - k) + k = i
            BY <2>3, <1>5, <1>2
        <3> QED
            BY <3>1, <2>1, <2>3, <1>4, <1>5 DEF At
    <2> QED
        BY <2>2, <2>3
<1>7. Shift(0)
    BY <1>5, <1>6, <1>2 DEF Shift
<1> QED
    BY <1>7, SizeType DEF Moves

LEMMA QueueMoves == ASSUME TypeInv, [Next]_vars PROVE Moves
<1>1. ASSUME NEW n \in Node, NodeSend(n) PROVE Moves
    <2>1. UNCHANGED gwVars
        BY <1>1 DEF NodeSend
    <2>2. CASE Received(Data(n))
        BY <2>1, <2>2, DataPacket, ReceivedMoves DEF TypeInv
    <2>3. CASE Received(Odd("crc"))
        BY <2>1, <2>3, OddMoves
    <2>4. CASE UNCHANGED rxFifo
        BY <2>1, <2>4, SameShift
    <2> QED
        BY <1>1, <2>2, <2>3, <2>4 DEF NodeSend, OnAir
<1>2. ASSUME NEW n \in Node, NodeWake(n) \/ NodeStay(n) \/ NodeAccept(n) \/ NodeTimeout(n)
      PROVE  Moves
    BY <1>2, SameShift DEF NodeWake, NodeStay, NodeAccept, NodeTimeout
<1>3. CASE GwStart \/ GwPoll \/ Signal
    <2>1. UNCHANGED <<rxFifo, batch, packetCount>>
        BY <1>3 DEF GwStart, GwPoll, Signal, GwGoto, gwVars
    <2>2. Size' = Size /\ \A i \in 1 .. Size' : At(i)' = At(i + 0)
        BY <2>1, SizeType DEF Size, Left, At
    <2> QED
        BY <2>2, SizeType DEF Shift, Moves
<1>4. CASE GwFetch
    <2>1. CASE UNCHANGED rxFifo /\ (GwEnd \/ GwRound)
        BY <2>1, RoundMoves
    <2> DEFINE k == IF Len(rxFifo) < BatchMax THEN Len(rxFifo) ELSE BatchMax
    <2>2. CASE /\ rxFifo # <<>> /\ UNCHANGED packetCount
               /\ batch' = SubSeq(rxFifo, 1, k)
               /\ rxFifo' = SubSeq(rxFifo, k + 1, Len(rxFifo))
        <3>1. Len(rxFifo) \in Nat \ {0} /\ BatchMax \in Nat \ {0}
            BY <2>2, EmptySeq, LinkAssumption DEF TypeInv, FifoOK
        <3>2. k \in 1 .. Len(rxFifo)
            BY <3>1
        <3>3. gwPc = "fetch"
            BY <1>4 DEF GwFetch
        <3> HIDE DEF k
        <3> QED
            BY <2>2, <3>2, <3>3, FetchMoves
    <2>3. \/ UNCHANGED rxFifo /\ (GwEnd \/ GwRound)
          \/ /\ rxFifo # <<>> /\ UNCHANGED packetCount
             /\ batch' = SubSeq(rxFifo, 1, k)
             /\ rxFifo' = SubSeq(rxFifo, k + 1, Len(rxFifo))
        BY <1>4 DEF GwFetch
    <2> QED
        BY <2>1, <2>2, <2>3
<1>5. CASE GwPacket \/ GwAck
    <2>1. CASE GwRound \/ GwEnd
        BY <1>5, <2>1, RoundMoves DEF GwPacket, GwAck
    <2>2. CASE UNCHANGED <<batch, packetCount>>
        <3>1. UNCHANGED rxFifo
            BY <1>5 DEF GwPacket, GwAck
        <3>2. Size' = Size /\ \A i \in 1 .. Size' : At(i)' = At(i + 0)
            BY <2>2, <3>1, SizeType DEF Size, Left, At
        <3> QED
            BY <3>2, SizeType DEF Shift, Moves
    <2> QED
        BY <1>5, <2>1, <2>2 DEF GwPacket, GwAck, GwGoto
<1>6. CASE GwStore
    <2>1. UNCHANGED <<rxFifo, batch>> /\ packetCount' = packetCount + 1 /\ packetCount < Len(batch)
        BY <1>6 DEF GwStore, TypeInv, BatchOK
    <2>2. packetCount \in Nat /\ Len(batch) \in Nat /\ Len(rxFifo) \in Nat
        BY DEF TypeInv, BatchOK, FifoOK
    <2>3. Left' = Left - 1 /\ Size' = Size - 1 /\ Left >= 1
        BY <2>1, <2>2 DEF Left, Size
    <2>4. \A i \in 1 .. Size' : At(i)' = At(i + 1)
        <3> TAKE i \in 1 .. Size'
        <3>1. /\ i <= Left - 1 <=> i + 1 <= Left
              /\ (packetCount + 1) + i = packetCount + (i + 1)
              /\ i - (Left - 1) = (i + 1) - Left
            BY <2>2, <2>3, SizeType
        <3> QED
            BY <3>1, <2>1, <2>3 DEF At
    <2>5. 1 \in 0 .. Size
        BY <2>3, SizeType
    <2> QED
        BY <2>3, <2>4, <2>5 DEF Shift, Moves
<1>7. CASE GwRestart
    <2>1. Size' = 0
        BY <1>7 DEF GwRestart, Size, Left
    <2>2. Size' = Size - Size /\ \A i \in 1 .. Size' : At(i)' = At(i + Size)
        BY <2>1, SizeType
    <2> QED
        BY <2>2, SizeType DEF Shift, Moves
<1>8. CASE Other
    BY <1>8, OddMoves, LinkAssumption DEF Other
<1>9. CASE UNCHANGED vars
    BY <1>9, SameShift DEF vars
<1> QED
    BY <1>1, <1>2, <1>3, <1>4, <1>5, <1>6, <1>7, <1>8, <1>9 DEF Next, NodeStep, GwStep
------------------------------------------------------------------------------
(* The order of the counters. *)

Succ(c) == (c + 1) % CntMod

LEMMA SuccCnt ==
    /\ CntMod \in Nat
    /\ \A c \in Cnt : Succ(c) \in Cnt /\ Succ(c) # c
    /\ \A c, d \in Cnt : Succ(c) = Succ(d) => c = d
<1>1. CntMod \in Nat /\ CntMod > 1
    BY LinkAssumption
<1>2. \A c \in Cnt : Succ(c) = IF c = CntMod - 1 THEN 0 ELSE c + 1
    BY <1>1 DEF Cnt, Succ
<1> QED
    BY <1>1, <1>2 DEF Cnt

\* Every packet of n that waits has its present counter.
AllCurrent(n) == \A i \in 1 .. Size : At(i).node = n => At(i).cnt = cnt[n]

\* The packets of n that wait have its counter or the one before, and those come first.
Ordered(n) ==
    /\ \A i \in 1 .. Size : At(i).node = n => At(i).cnt = cnt[n] \/ Succ(At(i).cnt) = cnt[n]
    /\ \A i, j \in 1 .. Size :
           i < j /\ At(i).node = n /\ At(j).node = n /\ At(i).cnt = cnt[n] => At(j).cnt = cnt[n]

\* The gateway has acknowledged a packet of n with its present counter.
Holding(n) == Holds(n) /\ Current.cnt = cnt[n]

\* When n hears its counter acknowledged, nothing older waits, and the frame is the gateway's.
HeardOK(n) ==
    heard[n] = cnt[n] =>
        /\ AllCurrent(n)
        /\ fresh[n] # "new" \/ Holding(n)
        /\ dropped[n] = "yes" \/ last[n] = cnt[n] \/ Holding(n)

\* What was stored last is at most one counter behind what waits.
LastOK(n) ==
    dropped[n] = "no" =>
        \/ last[n] = cnt[n] /\ AllCurrent(n)
        \/ Succ(last[n]) = cnt[n]
        \/ Holds(n) /\ Succ(Current.cnt) = cnt[n] /\ Succ(last[n]) = Current.cnt

NodeInv(n) == Ordered(n) /\ HeardOK(n) /\ LastOK(n)
LinkInv    == TypeInv /\ \A n \in Node : NodeInv(n)

LEMMA LinkInit == Init => LinkInv
<1> SUFFICES ASSUME Init, NEW n \in Node PROVE NodeInv(n)
    BY TypeInit DEF LinkInv
<1>1. CntMod \in Nat /\ CntMod > 1
    BY LinkAssumption
<1>2. Size = 0
    BY DEF Init, Size, Left
<1>3. Ordered(n)
    BY <1>2 DEF Ordered
<1>4. HeardOK(n)
    BY <1>1 DEF Init, HeardOK, NoCnt
<1>5. Succ(CntMod - 1) = 0
    BY <1>1 DEF Succ
<1>6. LastOK(n)
    BY <1>5 DEF Init, LastOK
<1> QED
    BY <1>3, <1>4, <1>6 DEF NodeInv

\* As long as n keeps its counter, whatever moves keeps the order.
LEMMA MovesKeepOrder ==
    ASSUME TypeInv, Moves, NEW n \in Node, cnt'[n] = cnt[n]
    PROVE  /\ Ordered(n) => Ordered(n)'
           /\ AllCurrent(n) => AllCurrent(n)'
<1>1. ASSUME NEW k \in 0 .. Size, Shift(k)
      PROVE  (Ordered(n) => Ordered(n)') /\ (AllCurrent(n) => AllCurrent(n)')
    <2>1. Size \in Nat /\ Size' = Size - k /\ \A i \in 1 .. Size' : At(i)' = At(i + k)
        BY <1>1, SizeType DEF Shift
    <2>2. \A i \in 1 .. Size' : i + k \in 1 .. Size
        BY <2>1
    <2>3. \A i, j \in 1 .. Size' : i < j => i + k < j + k
        BY <2>1
    <2>4. Ordered(n) => Ordered(n)'
        BY <2>1, <2>2, <2>3 DEF Ordered
    <2>5. AllCurrent(n) => AllCurrent(n)'
        BY <2>1, <2>2 DEF AllCurrent
    <2> QED
        BY <2>4, <2>5
<1>2. ASSUME NEW p \in Packet, Joins(p), p.node = n => p.cnt = cnt[n]
      PROVE  (Ordered(n) => Ordered(n)') /\ (AllCurrent(n) => AllCurrent(n)')
    <2>1. /\ Size \in Nat /\ Size' = Size + 1
          /\ \A i \in 1 .. Size : At(i)' = At(i)
          /\ \A i \in {Size + 1} : At(i)' = p
        BY <1>2, SizeType DEF Joins
    <2>2. \A i \in 1 .. Size' : i \in 1 .. Size \/ i = Size + 1
        BY <2>1
    <2>3. \A i, j \in 1 .. Size' : i < j => i \in 1 .. Size
        BY <2>1
    <2>4. Ordered(n) => Ordered(n)'
        BY <1>2, <2>1, <2>2, <2>3 DEF Ordered
    <2>5. AllCurrent(n) => AllCurrent(n)'
        BY <1>2, <2>1, <2>2 DEF AllCurrent
    <2> QED
        BY <2>4, <2>5
<1> QED
    BY <1>1, <1>2 DEF Moves

\* The packet thread_up works on is the first of the queue.
LEMMA CurrentFirst ==
    ASSUME TypeInv, gwPc \in {"ack", "poll", "store"}
    PROVE  1 \in 1 .. Size /\ At(1) = Current /\ Current.node \in Node /\ Current.cnt \in Cnt
<1>1. packetCount < Len(batch) /\ Current \in Packet /\ Current.node \in Node
    BY DEF TypeInv, BatchOK
<1>2. Left \in Nat /\ Size \in Nat /\ Left <= Size /\ 1 <= Left
    BY <1>1, SizeType DEF Left, TypeInv, BatchOK
<1>3. At(1) = Current
    BY <1>2 DEF At, Current
<1>4. Current.cnt \in Cnt
    BY <1>1 DEF Packet
<1> QED
    BY <1>1, <1>2, <1>3, <1>4

\* A step that is neither an acknowledgement to n, nor its acceptance, nor a store.
LEMMA OtherStep ==
    ASSUME TypeInv, Moves, NEW n \in Node, NodeInv(n),
           cnt'[n] = cnt[n], last'[n] = last[n], fresh'[n] = fresh[n], dropped'[n] = dropped[n],
           heard'[n] = heard[n] \/ heard'[n] = NoCnt,
           Holds(n) => Holds(n)' /\ Current' = Current
    PROVE  NodeInv(n)'
<1>1. Ordered(n)' /\ (AllCurrent(n) => AllCurrent(n)')
    BY MovesKeepOrder DEF NodeInv
<1>2. Holding(n) => Holding(n)'
    BY DEF Holding
<1>3. cnt[n] # NoCnt
    BY SuccCnt DEF TypeInv, NodeOK, Cnt, NoCnt
<1>4. HeardOK(n)'
    BY <1>1, <1>2, <1>3 DEF NodeInv, HeardOK
<1>5. LastOK(n)'
    BY <1>1 DEF NodeInv, LastOK
<1> QED
    BY <1>1, <1>4, <1>5 DEF NodeInv

\* The acknowledgement of the packet thread_up works on reaches its node.
LEMMA AckStep ==
    ASSUME TypeInv, Moves, gwPc = "ack", GwGoto("poll"), NEW n \in Node, n = Current.node,
           NodeInv(n), heard'[n] = Current.cnt,
           cnt'[n] = cnt[n], last'[n] = last[n], fresh'[n] = fresh[n], dropped'[n] = dropped[n]
    PROVE  NodeInv(n)'
<1>1. Ordered(n)' /\ (AllCurrent(n) => AllCurrent(n)')
    BY MovesKeepOrder DEF NodeInv
<1>2. 1 \in 1 .. Size /\ At(1) = Current /\ Size \in Nat
    BY CurrentFirst, SizeType
<1>3. Holds(n)' /\ Current' = Current /\ ~Holds(n)
    BY DEF GwGoto, Holds, Current
<1>4. ASSUME Current.cnt = cnt[n] PROVE AllCurrent(n)
    <2>1. \A i \in 1 .. Size : i = 1 \/ 1 < i
        BY <1>2
    <2> QED
        BY <1>2, <1>4, <2>1 DEF NodeInv, Ordered, AllCurrent
<1>5. HeardOK(n)'
    BY <1>1, <1>3, <1>4 DEF HeardOK, Holding
<1>6. LastOK(n)'
    BY <1>1, <1>3 DEF NodeInv, LastOK
<1> QED
    BY <1>1, <1>5, <1>6 DEF NodeInv

\* update_to_node stores the packet of n.
LEMMA StoreStep ==
    ASSUME TypeInv, Moves, NEW n \in Node, n = Current.node, NodeInv(n), GwStore
    PROVE  NodeInv(n)'
<1>0. TypeInv /\ gwPc = "store" /\ cnt' = cnt /\ heard' = heard
    BY DEF GwStore, nodeVars
<1>1. Ordered(n)' /\ (AllCurrent(n) => AllCurrent(n)')
    BY <1>0, MovesKeepOrder DEF NodeInv
<1>2. 1 \in 1 .. Size /\ At(1) = Current /\ Size \in Nat
    BY <1>0, CurrentFirst, SizeType
<1>3. /\ last'[n] = Current.cnt /\ dropped'[n] = "no"
      /\ fresh'[n] = IF Current.cnt = cnt[n] THEN "handed" ELSE fresh[n]
    BY DEF GwStore, TypeInv, HistOK
<1>4. Current.cnt = cnt[n] \/ Succ(Current.cnt) = cnt[n]
    BY <1>2 DEF NodeInv, Ordered
<1>5. ASSUME Current.cnt = cnt[n] PROVE AllCurrent(n)
    <2>1. \A i \in 1 .. Size : i = 1 \/ 1 < i
        BY <1>2
    <2> QED
        BY <1>2, <1>5, <2>1 DEF NodeInv, Ordered, AllCurrent
<1>6. HeardOK(n)'
    <2>1. ASSUME heard[n] = cnt[n] PROVE AllCurrent(n) /\ Current.cnt = cnt[n]
        BY <1>2, <2>1 DEF NodeInv, HeardOK, AllCurrent
    <2> QED
        BY <1>0, <1>1, <1>3, <2>1 DEF HeardOK
<1>7. LastOK(n)'
    BY <1>0, <1>1, <1>3, <1>4, <1>5 DEF LastOK
<1> QED
    BY <1>1, <1>6, <1>7 DEF NodeInv

\* The process dies: nothing waits any more.
LEMMA RestartStep ==
    ASSUME TypeInv, GwRestart, NEW n \in Node, NodeInv(n)
    PROVE  NodeInv(n)'
<1>1. Size' = 0
    BY DEF GwRestart, Size, Left
<1>2. Ordered(n)' /\ AllCurrent(n)'
    BY <1>1 DEF Ordered, AllCurrent
<1>3. /\ cnt' = cnt /\ heard' = heard /\ last' = last
      /\ fresh'[n] = IF HoldsNew(n) THEN "lost" ELSE fresh[n]
      /\ dropped'[n] = IF Holds(n) THEN "yes" ELSE dropped[n]
    BY DEF GwRestart, nodeVars
<1>4. HeardOK(n)'
    BY <1>2, <1>3 DEF NodeInv, HeardOK, Holding, HoldsNew
<1>5. LastOK(n)'
    BY <1>2, <1>3 DEF NodeInv, LastOK
<1> QED
    BY <1>2, <1>4, <1>5 DEF NodeInv

\* n hears its counter acknowledged and goes on to the next one.
LEMMA AcceptStep ==
    ASSUME TypeInv, NEW n \in Node, NodeInv(n), NodeAccept(n), heard[n] = cnt[n]
    PROVE  NodeInv(n)' /\ cnt'[n] = Succ(cnt[n]) /\ (fresh[n] # "new" \/ Holding(n)) /\ AllCurrent(n)
<1>1. /\ cnt'[n] = Succ(cnt[n]) /\ heard'[n] = NoCnt /\ fresh'[n] = "new"
      /\ last' = last /\ dropped' = dropped /\ UNCHANGED <<rxFifo, gwVars>>
    BY DEF NodeAccept, Succ, TypeInv, NodeOK, HistOK
<1>2. AllCurrent(n) /\ (fresh[n] # "new" \/ Holding(n))
    BY DEF NodeInv, HeardOK
<1>3. cnt[n] \in Cnt /\ cnt'[n] \in Cnt /\ cnt'[n] # cnt[n] /\ cnt'[n] # NoCnt
    BY <1>1, SuccCnt DEF TypeInv, NodeOK, Cnt, NoCnt
<1>4. Size' = Size /\ \A i \in 1 .. Size : At(i)' = At(i)
    BY <1>1 DEF gwVars, Size, Left, At
<1>5. Ordered(n)'
    BY <1>1, <1>2, <1>3, <1>4 DEF Ordered, AllCurrent
<1>6. HeardOK(n)'
    BY <1>1, <1>3 DEF HeardOK
<1>7. ASSUME dropped[n] = "no"
      PROVE  \/ Succ(last[n]) = cnt'[n]
             \/ Holds(n) /\ Succ(Current.cnt) = cnt'[n] /\ Succ(last[n]) = Current.cnt
    <2>1. CASE last[n] = cnt[n]
        BY <1>1, <2>1
    <2>2. CASE last[n] # cnt[n]
        <3>1. Holds(n) /\ Current.cnt = cnt[n]
            BY <1>7, <2>2 DEF NodeInv, HeardOK, Holding, TypeInv, HistOK
        <3>2. Current.cnt # Succ(Current.cnt)
            BY <1>3, <3>1, SuccCnt
        <3>3. Succ(last[n]) = cnt[n]
            BY <1>7, <2>2, <3>1, <3>2 DEF NodeInv, LastOK
        <3> QED
            BY <1>1, <3>1, <3>3
    <2> QED
        BY <2>1, <2>2
<1>8. Holds(n)' = Holds(n) /\ Current' = Current
    BY <1>1 DEF gwVars, Holds, Current
<1>9. LastOK(n)'
    BY <1>1, <1>7, <1>8 DEF LastOK
<1> QED
    BY <1>1, <1>2, <1>5, <1>6, <1>9 DEF NodeInv

LEMMA LinkNext == LinkInv /\ [Next]_vars => LinkInv'
<1> SUFFICES ASSUME LinkInv, [Next]_vars, NEW n \in Node PROVE NodeInv(n)'
    BY TypeNext DEF LinkInv
<1>t. TypeInv /\ NodeInv(n) /\ Moves
    BY QueueMoves DEF LinkInv
<1>1. ASSUME NEW m \in Node, NodeSend(m) \/ NodeWake(m) \/ NodeStay(m) \/ NodeTimeout(m)
      PROVE  NodeInv(n)'
    <2>1. UNCHANGED <<cnt, fresh, last, dropped, gwVars>>
        BY <1>1 DEF NodeSend, NodeWake, NodeStay, NodeTimeout, histVars
    <2>2. heard'[n] = heard[n] \/ heard'[n] = NoCnt
        BY <1>1, <1>t DEF NodeSend, NodeWake, NodeStay, NodeTimeout, TypeInv, NodeOK
    <2>3. Holds(n)' = Holds(n) /\ Current' = Current
        BY <2>1 DEF gwVars, Holds, Current
    <2> QED
        BY <1>t, <2>1, <2>2, <2>3, OtherStep
<1>2. ASSUME NEW m \in Node, NodeAccept(m) PROVE NodeInv(n)'
    <2>1. CASE n = m /\ heard[n] = cnt[n]
        BY <1>2, <1>t, <2>1, AcceptStep
    <2>2. CASE n # m \/ heard[n] # cnt[n]
        <3>1. /\ cnt'[n] = cnt[n] /\ fresh'[n] = fresh[n]
              /\ heard'[n] = heard[n] \/ heard'[n] = NoCnt
            BY <1>2, <2>2, <1>t DEF NodeAccept, TypeInv, NodeOK, HistOK
        <3>2. UNCHANGED <<last, dropped, gwVars>>
            BY <1>2 DEF NodeAccept
        <3>3. Holds(n)' = Holds(n) /\ Current' = Current
            BY <3>2 DEF gwVars, Holds, Current
        <3> QED
            BY <1>t, <3>1, <3>2, <3>3, OtherStep
    <2> QED
        BY <2>1, <2>2
<1>3. CASE GwStart \/ GwFetch \/ GwPacket
    <2>1. UNCHANGED <<nodeVars, histVars>> /\ gwPc \notin {"poll", "store"}
        BY <1>3 DEF GwStart, GwFetch, GwPacket
    <2>2. ~Holds(n)
        BY <2>1 DEF Holds
    <2> QED
        BY <1>t, <2>1, <2>2, OtherStep DEF nodeVars, histVars
<1>4. CASE GwAck
    <2>1. UNCHANGED <<cnt, histVars>> /\ ~Holds(n) /\ gwPc = "ack"
        BY <1>4 DEF GwAck, Holds
    <2>2. CASE heard'[n] = heard[n]
        BY <1>t, <2>1, <2>2, OtherStep DEF histVars
    <2>3. CASE n = Current.node /\ heard'[n] = Current.cnt /\ GwGoto("poll")
        BY <1>t, <2>1, <2>3, AckStep DEF histVars
    <2>4. heard \in [Node -> Cnt \cup {NoCnt}]
        BY <1>t DEF TypeInv, NodeOK
    <2> QED
        BY <1>4, <2>2, <2>3, <2>4 DEF GwAck
<1>5. CASE GwPoll
    <2>1. UNCHANGED <<nodeVars, histVars>> /\ (Holds(n) => Holds(n)' /\ Current' = Current)
        BY <1>5 DEF GwPoll, GwGoto, Holds, Current
    <2> QED
        BY <1>t, <2>1, OtherStep DEF nodeVars, histVars
<1>6. CASE GwStore
    <2>1. CASE n = Current.node
        BY <1>6, <1>t, <2>1, StoreStep
    <2>2. CASE n # Current.node
        <3>1. /\ last'[n] = last[n] /\ fresh'[n] = fresh[n] /\ dropped'[n] = dropped[n]
              /\ UNCHANGED nodeVars /\ ~Holds(n)
            BY <1>6, <2>2, <1>t DEF GwStore, Holds, TypeInv, HistOK
        <3> QED
            BY <1>t, <3>1, OtherStep DEF nodeVars
    <2> QED
        BY <2>1, <2>2
<1>7. CASE GwRestart
    BY <1>7, <1>t, RestartStep
<1>8. CASE Signal \/ Other \/ UNCHANGED vars
    <2>1. UNCHANGED <<nodeVars, histVars, gwVars>>
        BY <1>8 DEF Signal, Other, vars, nodeVars, histVars, gwVars
    <2>2. Holds(n)' = Holds(n) /\ Current' = Current
        BY <2>1 DEF gwVars, Holds, Current
    <2> QED
        BY <1>t, <2>1, <2>2, OtherStep DEF nodeVars, histVars
<1> QED
    BY <1>1, <1>2, <1>3, <1>4, <1>5, <1>6, <1>7, <1>8 DEF Next, NodeStep, GwStep

LEMMA LinkInvAlways == Spec => []LinkInv
BY LinkInit, LinkNext, PTL DEF Spec
\* update_to_node sees the counters of every node in order, unless the process died holding
\* one of its frames: however many frames wait and whichever acknowledgements are lost.
THEOREM CountersInOrder == Spec => InOrder
<1>1. ASSUME LinkInv, [Next]_vars, NEW n \in Node, last'[n] # last[n]
      PROVE  last'[n] = (last[n] + 1) % CntMod \/ dropped[n] = "yes"
    <2>t. TypeInv /\ NodeInv(n)
        BY <1>1 DEF LinkInv
    <2>1. GwStore
        BY <1>1 DEF Next, NodeStep, NodeSend, NodeWake, NodeStay, NodeAccept, NodeTimeout, GwStep,
                    GwStart, GwFetch, GwPacket, GwAck, GwPoll, Signal, GwRestart, Other, histVars, vars
    <2>2. n = Current.node /\ last'[n] = Current.cnt /\ gwPc = "store"
        BY <1>1, <2>1, <2>t DEF GwStore, TypeInv, HistOK
    <2>3. 1 \in 1 .. Size /\ At(1) = Current /\ Current.cnt \in Cnt
        BY <2>2, <2>t, CurrentFirst
    <2>4. Current.cnt = cnt[n] \/ Succ(Current.cnt) = cnt[n]
        BY <2>2, <2>3, <2>t DEF NodeInv, Ordered
    <2>5. last[n] \in Cnt
        BY <2>t DEF TypeInv, HistOK
    <2>6. CASE last[n] = cnt[n] /\ AllCurrent(n)
        BY <2>6, <2>2, <2>3, <1>1 DEF AllCurrent
    <2>7. CASE Succ(last[n]) = cnt[n]
        BY <2>7, <2>2, <2>3, <2>4, <2>5, <1>1, SuccCnt DEF Succ
    <2>8. CASE Succ(last[n]) = Current.cnt
        BY <2>8, <2>2 DEF Succ
    <2> QED
        BY <2>6, <2>7, <2>8, <2>t DEF NodeInv, LastOK, TypeInv, HistOK
<1>2. LinkInv /\ [Next]_vars =>
          [\A n \in Node : last'[n] # last[n] =>
               \/ last'[n] = (last[n] + 1) % CntMod
               \/ dropped[n] = "yes"]_vars
    BY <1>1
<1> QED
    BY LinkInvAlways, <1>2, PTL DEF Spec, InOrder
------------------------------------------------------------------------------
(* The refinement. *)

\* What D calls taken.
Taken(n) == fresh[n] # "new" \/ HoldsNew(n)

LEMMA StutterMaps ==
    ASSUME cnt' = cnt, \A n \in Node : Taken(n)' = Taken(n)
    PROVE  UNCHANGED D!dvars
BY DEF D!dvars, Taken

LEMMA TakeMaps ==
    ASSUME cnt' = cnt, NEW m \in Node, ~Taken(m), Taken(m)',
           \A n \in Node \ {m} : Taken(n)' = Taken(n)
    PROVE  D!Take(m)
BY DEF D!Take, Taken

LEMMA AdvanceMaps ==
    ASSUME NEW m \in Node, cnt' = [cnt EXCEPT ![m] = (@ + 1) % CntMod], Taken(m), ~Taken(m)',
           \A n \in Node \ {m} : Taken(n)' = Taken(n)
    PROVE  D!Advance(m)
BY DEF D!Advance, Taken

\* A step of the gateway that lets the packet it works on go.
LEMMA HoldMaps ==
    ASSUME TypeInv, UNCHANGED <<cnt, fresh>>, gwPc = "ack", GwGoto("poll") \/ GwGoto("store")
    PROVE  [D!Next]_(D!dvars)
<1>1. PICK m \in Node : m = Current.node
    BY CurrentFirst
<1>2. \A n \in Node : ~Holds(n) /\ (Holds(n)' <=> n = m)
    BY <1>1 DEF GwGoto, Holds, Current
<1>3. Current' = Current
    BY DEF GwGoto, Current
<1>4. \A n \in Node \ {m} : Taken(n)' = Taken(n)
    BY <1>2 DEF Taken, HoldsNew
<1>5. CASE Taken(m)' = Taken(m)
    BY <1>4, <1>5, StutterMaps
<1>6. CASE Taken(m)' # Taken(m)
    <2>1. ~Taken(m) /\ Taken(m)'
        BY <1>1, <1>2, <1>6 DEF Taken, HoldsNew
    <2> QED
        BY <1>1, <1>4, <2>1, TakeMaps DEF D!Next
<1> QED
    BY <1>5, <1>6

LEMMA StepMaps == ASSUME LinkInv, [Next]_vars PROVE [D!Next]_(D!dvars)
<1>t. TypeInv
    BY DEF LinkInv
<1>1. ASSUME UNCHANGED <<cnt, fresh, gwVars>> PROVE [D!Next]_(D!dvars)
    <2>1. \A n \in Node : Taken(n)' = Taken(n)
        BY <1>1 DEF gwVars, Taken, HoldsNew, Holds, Current
    <2> QED
        BY <1>1, <2>1, StutterMaps
<1>2. ASSUME UNCHANGED <<cnt, fresh>>, \A n \in Node : ~Holds(n) /\ ~Holds(n)'
      PROVE  [D!Next]_(D!dvars)
    <2>1. \A n \in Node : Taken(n)' = Taken(n)
        BY <1>2 DEF Taken, HoldsNew
    <2> QED
        BY <1>2, <2>1, StutterMaps
<1>3. ASSUME NEW n \in Node, NodeSend(n) \/ NodeWake(n) \/ NodeStay(n) \/ NodeTimeout(n)
      PROVE  [D!Next]_(D!dvars)
    BY <1>1, <1>3 DEF NodeSend, NodeWake, NodeStay, NodeTimeout, histVars
<1>4. ASSUME NEW m \in Node, NodeAccept(m) PROVE [D!Next]_(D!dvars)
    <2>1. CASE heard[m] # cnt[m]
        BY <1>1, <1>4, <2>1 DEF NodeAccept
    <2>2. CASE heard[m] = cnt[m]
        <3>1. NodeInv(m)
            BY DEF LinkInv
        <3>2. /\ cnt'[m] = Succ(cnt[m]) /\ AllCurrent(m)
              /\ fresh[m] # "new" \/ Holding(m)
            BY <1>t, <1>4, <2>2, <3>1, AcceptStep
        <3>3. /\ cnt' = [cnt EXCEPT ![m] = (@ + 1) % CntMod]
              /\ fresh' = [fresh EXCEPT ![m] = "new"] /\ UNCHANGED gwVars
            BY <1>4, <2>2 DEF NodeAccept
        <3>4. Taken(m)
            BY <3>2 DEF Taken, Holding, HoldsNew
        <3>5. ASSUME Holds(m)' PROVE Current.cnt = cnt[m] /\ Current' = Current
            <4>1. gwPc \in {"poll", "store"} /\ Current.node = m /\ Current' = Current
                BY <3>3, <3>5 DEF gwVars, Holds, Current
            <4>2. 1 \in 1 .. Size /\ At(1) = Current
                BY <1>t, <4>1, CurrentFirst
            <4> QED
                BY <3>2, <4>1, <4>2 DEF AllCurrent
        <3>6. cnt[m] # Succ(cnt[m])
            BY <1>t, SuccCnt DEF TypeInv, NodeOK
        <3>7. ~Taken(m)'
            BY <1>t, <3>2, <3>3, <3>5, <3>6 DEF Taken, HoldsNew, TypeInv, HistOK
        <3>8. \A n \in Node \ {m} : Taken(n)' = Taken(n)
            <4> TAKE n \in Node \ {m}
            <4>1. cnt'[n] = cnt[n] /\ fresh'[n] = fresh[n]
                BY <1>t, <3>3 DEF TypeInv, NodeOK, HistOK
            <4>2. Holds(n)' = Holds(n) /\ Current' = Current
                BY <3>3 DEF gwVars, Holds, Current
            <4> QED
                BY <4>1, <4>2 DEF Taken, HoldsNew
        <3>9. D!Advance(m)
            BY <3>3, <3>4, <3>7, <3>8, AdvanceMaps
        <3> QED
            BY <3>9 DEF D!Next
    <2> QED
        BY <2>1, <2>2
<1>5. CASE GwStart \/ GwFetch \/ GwPacket
    <2>1. UNCHANGED <<cnt, fresh>>
        BY <1>5 DEF GwStart, GwFetch, GwPacket, nodeVars, histVars
    <2>2. gwPc \notin {"poll", "store"} /\ gwPc' \notin {"poll", "store"}
        BY <1>5 DEF GwStart, GwFetch, GwPacket, GwGoto, GwEnd, GwRound
    <2> QED
        BY <1>2, <2>1, <2>2 DEF Holds
<1>6. CASE GwAck
    <2>1. UNCHANGED <<cnt, fresh>> /\ gwPc = "ack"
        BY <1>6 DEF GwAck, histVars
    <2>2. CASE GwGoto("poll") \/ GwGoto("store")
        BY <1>t, <2>1, <2>2, HoldMaps
    <2>3. CASE GwEnd
        BY <1>2, <2>1, <2>3 DEF GwEnd, Holds
    <2> QED
        BY <1>6, <2>2, <2>3 DEF GwAck
<1>7. CASE GwPoll
    <2>1. UNCHANGED <<cnt, fresh>> /\ gwPc = "poll" /\ gwPc' = "store" /\ Current' = Current
        BY <1>7 DEF GwPoll, GwGoto, nodeVars, histVars, Current
    <2>2. \A n \in Node : Taken(n)' = Taken(n)
        BY <2>1 DEF Taken, HoldsNew, Holds
    <2> QED
        BY <2>1, <2>2, StutterMaps
<1>8. CASE GwStore
    <2>1. /\ cnt' = cnt /\ gwPc = "store" /\ gwPc' = "packet"
          /\ fresh' = [fresh EXCEPT ![Current.node] =
                           IF Current.cnt = cnt[Current.node] THEN "handed" ELSE @]
        BY <1>8 DEF GwStore, nodeVars
    <2>2. \A n \in Node : Taken(n)' = Taken(n)
        <3> TAKE n \in Node
        <3>1. fresh'[n] = IF n = Current.node /\ Current.cnt = cnt[n] THEN "handed" ELSE fresh[n]
            BY <2>1, <1>t DEF TypeInv, HistOK
        <3>2. ~Holds(n)' /\ (Holds(n) <=> n = Current.node)
            BY <2>1 DEF Holds
        <3> QED
            BY <3>1, <3>2 DEF Taken, HoldsNew
    <2> QED
        BY <2>1, <2>2, StutterMaps
<1>9. CASE GwRestart
    <2>1. /\ cnt' = cnt /\ gwPc' = "boot"
          /\ fresh' = [n \in Node |-> IF HoldsNew(n) THEN "lost" ELSE fresh[n]]
        BY <1>9 DEF GwRestart, nodeVars
    <2>2. \A n \in Node : Taken(n)' = Taken(n)
        BY <2>1 DEF Taken, HoldsNew, Holds
    <2> QED
        BY <2>1, <2>2, StutterMaps
<1>10. CASE Signal \/ Other \/ UNCHANGED vars
    BY <1>1, <1>10 DEF Signal, Other, vars, nodeVars, histVars
<1> QED
    BY <1>3, <1>4, <1>5, <1>6, <1>7, <1>8, <1>9, <1>10 DEF Next, NodeStep, GwStep

\* A node goes on to its next counter only when the gateway has taken a frame with the old
\* one: every step of the link is a step of Delivery or none.
THEOREM LinkDelivers == Spec => Delivers
<1>1. Init => D!Init
    BY DEF Init, D!Init, HoldsNew, Holds
<1> QED
    BY <1>1, LinkInvAlways, StepMaps, PTL DEF Spec, Delivers, D!Spec
================================================================================
