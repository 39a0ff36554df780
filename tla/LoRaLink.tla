------------------------------- MODULE LoRaLink -------------------------------
(***************************************************************************)
(* The radio link between the nodes and the gateway.                       *)
(*                                                                         *)
(*   - each node runs LoRa_MainProcess: it sends a frame with its counter, *)
(*     enters standby, from which it wakes by a reset, and listens for an  *)
(*     acknowledgement only if standby was not entered (the Node... actions); *)
(*   - the gateway's thread_up fetches what the concentrator has received, *)
(*     acknowledges each frame of its network and passes it to             *)
(*     update_to_node (the Gw... actions).                                 *)
(*                                                                         *)
(* Frames are lost, garbled and repeated; the acknowledgement of an older  *)
(* frame may arrive late. The concentrator and the radio channel are not   *)
(* part of the source: they are modelled from how it uses them.            *)
(***************************************************************************)
EXTENDS Integers, Sequences

CONSTANTS
    Node,      \* node addresses
    NoNode,    \* sender of a frame that is not a node's
    CntMod,    \* number of values of FCnt, 2^16 in the code
    Stray,     \* kinds of frame that are not a node's: "crc", "malformed", "foreign"
    FifoSize,  \* bound: packets the concentrator holds
    BatchMax   \* NB_PKT_MAX

ASSUME LinkAssumption ==
    /\ NoNode \notin Node
    /\ CntMod \in Nat /\ CntMod > 1
    /\ Stray \subseteq {"crc", "malformed", "foreign"}
    /\ FifoSize \in Nat \ {0} /\ BatchMax \in Nat \ {0}

VARIABLES
    lps,         \* LoRa_MainProcess: lps, or "standby" within its TX case
    after,       \* lps once standby was not entered
    retry,       \* "yes" after a failed or an unacknowledged transmission
    u8Count,     \* number of retries
    cnt,         \* the frame counter in the node's flash
    heard,       \* FCnt of the acknowledgement in the node's radio, or NoCnt
    rxFifo,      \* packets received by the concentrator
    gwPc,        \* thread_up: where it is
    batch,       \* rxpkt: what lgw_receive returned
    packetCount, \* thread_up's loop index
    signal,      \* quit_sig or exit_sig
    fresh,       \* history: what became of the frame with the current counter
    last,        \* history: the counter update_to_node was last called with
    dropped      \* history: "yes" if the process died with a frame of the node since

nodeVars == <<lps, after, retry, u8Count, cnt, heard>>
gwVars   == <<gwPc, batch, packetCount>>
histVars == <<fresh, last, dropped>>
vars     == <<nodeVars, rxFifo, gwVars, signal, histVars>>

Cnt   == 0 .. CntMod - 1
NoCnt == CntMod
GwPc  == {"boot", "fetch", "packet", "ack", "poll", "store", "ended", "exited"}

\* A packet as LoRaMac_ParserData tells it apart.
Packet  == [kind : {"data", "crc", "malformed", "foreign"}, node : Node \cup {NoNode},
            cnt : Cnt]
Data(n) == [kind |-> "data", node |-> n, cnt |-> cnt[n]]
Odd(k)  == [kind |-> k, node |-> NoNode, cnt |-> 0]

\* macMsgData while thread_up works on it.
Current == batch[packetCount + 1]
\* The gateway has acknowledged, or given up acknowledging, a frame it will store.
Holds(n)    == gwPc \in {"poll", "store"} /\ Current.node = n
HoldsNew(n) == Holds(n) /\ Current.cnt = cnt[n] /\ fresh[n] = "new"

Init ==
    /\ lps = [n \in Node |-> "TX"] /\ after = [n \in Node |-> "TX"]
    /\ retry = [n \in Node |-> "no"] /\ u8Count = [n \in Node |-> 0]
    /\ cnt = [n \in Node |-> 0] /\ heard = [n \in Node |-> NoCnt]
    /\ rxFifo = <<>>
    /\ gwPc = "boot" /\ batch = <<>> /\ packetCount = 0
    /\ signal = "no"
    /\ fresh = [n \in Node |-> "new"] /\ last = [n \in Node |-> CntMod - 1]
    /\ dropped = [n \in Node |-> "no"]

\* The concentrator receives packet p, if it has room.
Received(p) == rxFifo' = IF Len(rxFifo) < FifoSize THEN Append(rxFifo, p) ELSE rxFifo
------------------------------------------------------------------------------
(* A node. *)

\* A transmission reaches the concentrator, or arrives garbled, or is lost.
OnAir(n) == Received(Data(n)) \/ Received(Odd("crc")) \/ UNCHANGED rxFifo

\* The TX case: the fourth retry turns to SLEEP, but still transmits, and a
\* transmission that succeeds turns to RX. Sx127x_SendData may report either
\* outcome whatever was on the air: it trusts TX_DONE and its timeout.
NodeSend(n) ==
    /\ lps[n] = "TX"
    /\ LET fourth == retry[n] = "yes" /\ u8Count[n] = 3
       IN  /\ u8Count' = [u8Count EXCEPT ![n] =
                              IF retry[n] = "no" \/ fourth THEN 0 ELSE @ + 1]
           /\ \/ /\ after' = [after EXCEPT ![n] = "RX"]
                 /\ retry' = [retry EXCEPT ![n] = "no"]
              \/ /\ after' = [after EXCEPT ![n] = IF fourth THEN "SLEEP" ELSE "TX"]
                 /\ retry' = [retry EXCEPT ![n] = "yes"]
    /\ OnAir(n)
    /\ lps' = [lps EXCEPT ![n] = "standby"]
    /\ UNCHANGED <<cnt, heard, gwVars, signal, histVars>>

\* Variation: the counter starts over with the reset.
NodeWakeZero(n) ==
    /\ lps[n] = "standby"
    /\ lps' = [lps EXCEPT ![n] = "TX"] /\ after' = [after EXCEPT ![n] = "TX"]
    /\ retry' = [retry EXCEPT ![n] = "no"] /\ u8Count' = [u8Count EXCEPT ![n] = 0]
    /\ cnt' = [cnt EXCEPT ![n] = 0]
    /\ UNCHANGED <<heard, rxFifo, gwVars, signal, histVars>>

\* The RTC ends standby with a reset: main and LoRa_MainProcess start over, with
\* new samples and the counter from flash.
NodeWake(n) ==
    /\ lps[n] = "standby"
    /\ lps' = [lps EXCEPT ![n] = "TX"] /\ after' = [after EXCEPT ![n] = "TX"]
    /\ retry' = [retry EXCEPT ![n] = "no"] /\ u8Count' = [u8Count EXCEPT ![n] = 0]
    /\ UNCHANGED <<cnt, heard, rxFifo, gwVars, signal, histVars>>

\* An interrupt is pending at the WFI of HAL_PWR_EnterSTANDBYMode: it returns.
NodeStay(n) ==
    /\ lps[n] = "standby"
    /\ lps' = [lps EXCEPT ![n] = after[n]] /\ after' = [after EXCEPT ![n] = "TX"]
    /\ heard' = [heard EXCEPT ![n] = NoCnt]
    /\ UNCHANGED <<retry, u8Count, cnt, rxFifo, gwVars, signal, histVars>>

\* Variation: any acknowledgement of this node's frames will do.
NodeAcceptAny(n) ==
    /\ lps[n] = "RX" /\ heard[n] # NoCnt
    /\ heard' = [heard EXCEPT ![n] = NoCnt]
    /\ cnt' = [cnt EXCEPT ![n] = (@ + 1) % CntMod]
    /\ lps' = [lps EXCEPT ![n] = "TX"]
    /\ retry' = [retry EXCEPT ![n] = "no"]
    /\ fresh' = [fresh EXCEPT ![n] = "new"]
    /\ UNCHANGED <<after, u8Count, rxFifo, gwVars, signal, last, dropped>>

\* LoRaSV_RxHandle: an acknowledgement of the current counter increments it in
\* flash; another one is ignored and the node goes on listening.
NodeAccept(n) ==
    /\ lps[n] = "RX" /\ heard[n] # NoCnt
    /\ heard' = [heard EXCEPT ![n] = NoCnt]
    /\ IF heard[n] = cnt[n]
       THEN /\ cnt' = [cnt EXCEPT ![n] = (@ + 1) % CntMod]
            /\ lps' = [lps EXCEPT ![n] = "TX"]
            /\ retry' = [retry EXCEPT ![n] = "no"]
            /\ fresh' = [fresh EXCEPT ![n] = "new"]
       ELSE UNCHANGED <<cnt, lps, retry, fresh>>
    /\ UNCHANGED <<after, u8Count, rxFifo, gwVars, signal, last, dropped>>

\* RX_DUTY_TIME_MS has passed: the frame is sent again.
NodeTimeout(n) ==
    /\ lps[n] = "RX" /\ heard[n] = NoCnt
    /\ lps' = [lps EXCEPT ![n] = "TX"]
    /\ retry' = [retry EXCEPT ![n] = "yes"]
    /\ UNCHANGED <<after, u8Count, cnt, heard, rxFifo, gwVars, signal, histVars>>

NodeStep(n) == \/ NodeSend(n) \/ NodeWake(n) \/ NodeStay(n) \/ NodeAccept(n)
               \/ NodeTimeout(n)
------------------------------------------------------------------------------
(* thread_up, main's start and the signals. *)

GwGoto(pc) == gwPc' = pc /\ UNCHANGED <<batch, packetCount>>
GwEnd == gwPc' = "ended" /\ batch' = <<>> /\ packetCount' = 0

\* Variation: the index of the last batch stays.
GwRoundKeeps == /\ gwPc' = IF signal = "yes" THEN "ended" ELSE "fetch"
                /\ batch' = <<>> /\ UNCHANGED packetCount

\* A new round of the loop, unless a signal was caught.
GwRound == /\ gwPc' = IF signal = "yes" THEN "ended" ELSE "fetch"
           /\ batch' = <<>> /\ packetCount' = 0

\* main starts the concentrator and the threads, or exits.
GwStart ==
    /\ gwPc = "boot"
    /\ GwGoto("fetch") \/ GwGoto("exited")
    /\ UNCHANGED <<nodeVars, rxFifo, signal, histVars>>

\* lgw_receive: an error ends the thread; otherwise the oldest packets are fetched.
GwFetch ==
    /\ gwPc = "fetch"
    /\ \/ GwEnd /\ UNCHANGED rxFifo
       \/ /\ rxFifo = <<>> /\ GwRound /\ UNCHANGED rxFifo
       \/ LET k == IF Len(rxFifo) < BatchMax THEN Len(rxFifo) ELSE BatchMax
          IN  /\ rxFifo # <<>>
              /\ batch' = SubSeq(rxFifo, 1, k)
              /\ rxFifo' = SubSeq(rxFifo, k + 1, Len(rxFifo))
              /\ gwPc' = "packet" /\ UNCHANGED packetCount
    /\ UNCHANGED <<nodeVars, signal, histVars>>

\* Variation: the last packet of a batch is left out.
GwPacketShort ==
    /\ gwPc = "packet"
    /\ IF packetCount + 1 >= Len(batch) THEN GwRound
       ELSE \/ Current.kind \in {"crc", "foreign"} /\ GwRound
            \/ Current.kind = "malformed" /\ GwEnd
            \/ Current.kind = "data" /\ GwGoto("ack")
    /\ UNCHANGED <<nodeVars, rxFifo, signal, histVars>>

\* The next packet: a bad checksum or a foreign address ends the batch, a packet
\* that cannot be parsed ends the thread.
GwPacket ==
    /\ gwPc = "packet"
    /\ IF packetCount = Len(batch) THEN GwRound
       ELSE \/ Current.kind \in {"crc", "foreign"} /\ GwRound
            \/ Current.kind = "malformed" /\ GwEnd
            \/ Current.kind = "data" /\ GwGoto("ack")
    /\ UNCHANGED <<nodeVars, rxFifo, signal, histVars>>

\* lgw_send: an error ends the thread, LGW_LBT_ISSUE sends nothing. Otherwise the
\* acknowledgement is heard if the node is listening, or lost.
GwAck ==
    /\ gwPc = "ack"
    /\ \/ (GwEnd \/ GwGoto("store")) /\ UNCHANGED heard
       \/ /\ GwGoto("poll")
          /\ \/ /\ lps[Current.node] = "RX"
                /\ heard' = [heard EXCEPT ![Current.node] = Current.cnt]
             \/ UNCHANGED heard
    /\ UNCHANGED <<lps, after, retry, u8Count, cnt, rxFifo, signal, histVars>>

\* lgw_status reports TX_FREE.
GwPoll ==
    /\ gwPc = "poll"
    /\ GwGoto("store")
    /\ UNCHANGED <<nodeVars, rxFifo, signal, histVars>>

\* update_to_node, then the batch's next packet.
GwStore ==
    /\ gwPc = "store"
    /\ fresh' = [fresh EXCEPT ![Current.node] =
                     IF Current.cnt = cnt[Current.node] THEN "handed" ELSE @]
    /\ last' = [last EXCEPT ![Current.node] = Current.cnt]
    /\ dropped' = [dropped EXCEPT ![Current.node] = "no"]
    /\ packetCount' = packetCount + 1
    /\ gwPc' = "packet"
    /\ UNCHANGED <<nodeVars, rxFifo, batch, signal>>

GwStep == \/ GwStart \/ GwFetch \/ GwPacket \/ GwAck \/ GwPoll \/ GwStore

\* SIGINT, SIGQUIT or SIGTERM, once sig_handler is installed.
Signal ==
    /\ gwPc \notin {"boot", "exited"} /\ signal = "no"
    /\ signal' = "yes"
    /\ UNCHANGED <<nodeVars, rxFifo, gwVars, histVars>>

\* The process is killed, or has exited, and is started again. What it had fetched
\* is gone, the frame it held among it; the concentrator starts empty.
GwRestart ==
    /\ gwPc # "boot"
    /\ gwPc' = "boot" /\ batch' = <<>> /\ packetCount' = 0
    /\ rxFifo' = <<>> /\ signal' = "no"
    /\ fresh' = [n \in Node |-> IF HoldsNew(n) THEN "lost" ELSE fresh[n]]
    /\ dropped' = [n \in Node |-> IF Holds(n) THEN "yes" ELSE dropped[n]]
    /\ UNCHANGED <<nodeVars, last>>

\* The concentrator receives something that is not a node's frame.
Other == \E k \in Stray : /\ Received(Odd(k))
                          /\ UNCHANGED <<nodeVars, gwVars, signal, histVars>>

Next == \/ \E n \in Node : NodeStep(n)
        \/ GwStep
        \/ Signal
        \/ GwRestart
        \/ Other

Spec == Init /\ [][Next]_vars

\* The gateway's threads are scheduled and the concentrator ends its transmissions.
FairSpec == Spec /\ WF_vars(GwStep)
------------------------------------------------------------------------------
(* Properties. *)

\* Every variable holds a value the code can give it.
TypeOK ==
    /\ lps \in [Node -> {"TX", "RX", "SLEEP", "standby"}]
    /\ after \in [Node -> {"TX", "RX", "SLEEP"}]
    /\ retry \in [Node -> {"no", "yes"}] /\ u8Count \in [Node -> 0 .. 3]
    /\ cnt \in [Node -> Cnt] /\ heard \in [Node -> Cnt \cup {NoCnt}]
    /\ rxFifo \in Seq(Packet) /\ Len(rxFifo) <= FifoSize
    /\ gwPc \in GwPc /\ batch \in Seq(Packet) /\ packetCount \in 0 .. Len(batch)
    /\ signal \in {"no", "yes"}
    /\ fresh \in [Node -> {"new", "handed", "lost"}] /\ last \in [Node -> Cnt]
    /\ dropped \in [Node -> {"no", "yes"}]

\* A node goes on to its next counter only when the gateway has taken a frame with
\* the old one: acknowledgements that are late, repeated or for an older frame
\* do not make it skip one.
D == INSTANCE Delivery WITH
        status <- [n \in Node |-> IF fresh[n] # "new" \/ HoldsNew(n) THEN "taken" ELSE "new"]
Delivers == D!Spec

\* update_to_node sees a node's counters in order: a repetition, the next one, unless
\* the process died with a frame of the node in between.
InOrder ==
    [][\A n \in Node : last'[n] # last[n] =>
           \/ last'[n] = (last[n] + 1) % CntMod
           \/ dropped[n] = "yes"]_vars

\* A node whose frames reach the concentrator again and again is stored again and
\* again, if the process stays up and no packet ends a batch early.
KeepsStoring ==
    \A n \in Node :
        /\ []<>(\E i \in 1 .. Len(rxFifo) : rxFifo[i].node = n)
        /\ <>[](gwPc \notin {"boot", "ended", "exited"})
        /\ <>[](\A i \in 1 .. Len(batch) : batch[i].kind = "data")
        => []<>(gwPc = "store" /\ Current.node = n)
==============================================================================
