----------------------------- MODULE Sx127x_proofs -----------------------------
(***************************************************************************)
(* Proofs about Sx127x, for every set of payloads and every bound on the   *)
(* transfers that fail and the packets that arrive.                        *)
(***************************************************************************)
EXTENDS Sx127x, SequenceTheorems, TLAPS

Setting == pc \in {"mode", "dio"}
\* The driver is at p, or sets a mode on its way there.
To(p) == pc = p \/ (Setting /\ goal.next = p)

\* The driver is in fn and sets the mode of s, on its way to p.
Leg(fn, s, p) == call.fn = fn /\ goal.state = s /\ goal.next = p
\* The driver is at one of the places P of fn, which has brought State to s.
At(fn, s, P) == call.fn = fn /\ State = s /\ pc \in P

\* Which modes each function sets, and where it goes from there.
LegOK ==
    \/ Leg("InitModule", "RF_SLEEP", "lora")
    \/ Leg("InitModule", "RF_STDBY", "config")
    \/ Leg("SendData", "RF_STDBY", "load")
    \/ Leg("SendData", "RF_TX_RUNNING", "txPoll")
    \/ Leg("ReceiveData", "RF_STDBY", "rxClear")
    \/ Leg("ReceiveData", "RF_RX_RUNNING", "rxPoll")
    \/ \E fn \in {"Wait4FreeChannel", "IsChannelFree"} : Leg(fn, "RF_CAD", "cadPoll")
    \/ Leg("Wait4FreeChannel", "RF_STDBY", "waitTest")
    \/ Leg("RandomSeed", "RF_RX_RUNNING", "rssi")
    \/ \E fn \in {"SendData", "ReceiveData", "IsChannelFree", "RandomSeed", "SetModeStdby"} :
           Leg(fn, "RF_STDBY", "idle")
    \/ Leg("SetModeSleep", "RF_SLEEP", "idle")

PlaceOK ==
    \/ At("InitModule", "RF_SLEEP", {"lora"})
    \/ At("InitModule", "RF_STDBY", {"config"})
    \/ At("SendData", "RF_STDBY", {"load"})
    \/ At("SendData", "RF_TX_RUNNING", {"txPoll", "txClear"})
    \/ At("ReceiveData", "RF_STDBY", {"rxClear"})
    \/ At("ReceiveData", "RF_RX_RUNNING", {"rxPoll", "rxLen", "rxAddr", "rxEnd"})
    \/ \E fn \in {"Wait4FreeChannel", "IsChannelFree"} : At(fn, "RF_CAD", {"cadPoll", "cadClear"})
    \/ At("Wait4FreeChannel", "RF_STDBY", {"waitTest"})
    \/ At("RandomSeed", "RF_RX_RUNNING", {"rssi"})
    \/ call.fn = "Wait4FreeChannel" /\ pc = "waitClear"
    \/ call.fn = "SetFrequency" /\ pc = "config"

RouteOK ==
    /\ Setting => LegOK
    /\ pc = "dio" => goal.state \notin {"RF_STDBY", "RF_SLEEP"}
    /\ ~Setting /\ pc # "idle" => PlaceOK

\* The chip is in the mode of s or has left it by itself.
InMode(s) == \/ mode = ModeOf(s)
             \/ s \in {"RF_TX_RUNNING", "RF_CAD"} /\ mode = "stdby"

\* Where the chip is known to be in the mode of State: everywhere as long as no transfer
\* has failed, and where this call has set the mode.
AgreeOK ==
    /\ pc = "dio" => InMode(goal.state)
    /\ pc # "dio" /\ faults = 0 => InMode(State)
    /\ pc \in {"lora", "txPoll", "txClear", "rxPoll", "rxLen", "rxAddr", "rxEnd", "waitTest"} =>
           InMode(State)
    /\ call.fn = "InitModule" /\ To("config") => lora = "on"
    /\ call.fn = "InitModule" /\ pc = "config" => InMode(State)

\* The last mode of the call is being set.
Ending  == Setting /\ goal.next = "idle"
\* The mode of transmission has been set, or is being set by its second transfer.
Sending == pc \in {"txPoll", "txClear"} \/ (pc = "dio" /\ goal.next = "txPoll")

\* What is on the air in a call of Sx127x_SendData that began with nothing there.
SendOK ==
    call.fn = "SendData" /\ clean = "yes" =>
        /\ To("load") => mode # "tx" /\ "TX_DONE" \notin flags
        /\ pc = "mode" /\ goal.next = "txPoll" =>
               mode # "tx" /\ "TX_DONE" \notin flags /\ fifo = call.payload
        /\ Sending => (mode = "tx" => onAir = call.payload)
        /\ Sending /\ "TX_DONE" \in flags => sent = call.payload /\ mode # "tx"
        /\ pc = "txClear" \/ Ending => sent = call.payload /\ mode # "tx"

Received(v) == \E i \in 1 .. Len(arrived) : v = arrived[i]

\* What has been read in a call of Sx127x_ReceiveData.
ReceiveOK ==
    call.fn = "ReceiveData" =>
        /\ To("rxPoll") /\ "RX_DONE" \in flags => Received(rx)
        /\ pc \in {"rxLen", "rxAddr"} => Received(rx)
        /\ pc \in {"rxAddr", "rxEnd"} \/ Ending => Received(got.len)
        /\ pc = "rxEnd" \/ Ending => Received(got.data)

\* What has been found in a call of Sx127x_Wait4FreeChannel.
WaitOK ==
    call.fn = "Wait4FreeChannel" =>
        /\ /\ pc \notin {"idle", "waitClear"}
           /\ "CAD_DONE" \in flags /\ "CAD_DETECTED" \notin flags
           => "free" \in cadSaw
        /\ (pc = "cadClear" \/ To("waitTest")) /\ CadStt = "CAD_FREE" => "free" \in cadSaw

RadioInv == TypeOK /\ RouteOK /\ AgreeOK /\ SendOK /\ ReceiveOK /\ WaitOK
ReturnInv == StateAgrees /\ SentWhenOk /\ FreshAndWhole /\ FreeWhenOk

USE DEF chipVars, histVars, Goto, SetMode, Return, Reached, NoGoal, During

\* Each step keeps the types.
LEMMA TypeStep ==
    ASSUME RadioAssumption, TypeOK, [Next]_vars
    PROVE  TypeOK'
<1> USE DEF TypeOK, States, Pc, Function, IrqFlag, ModeOf, NoData, RadioAssumption
<1>1. CASE Boot
    BY <1>1 DEF Boot, Call
<1>2. CASE Start
    <2>1. \E fn \in Function, p \in Payload \cup {None} : Call(fn, p)
        BY <1>2 DEF Start
    <2>2. UNCHANGED <<chipVars, State, faults>>
        BY <1>2 DEF Start
    <2>3. pc' \in Pc /\ goal' \in [state : States, next : Pc] /\ ret' \in {"STD_OK", "STD_NOT_OK"}
        BY <1>2 DEF Start
    <2>. QED
        BY <2>1, <2>2, <2>3 DEF Call, NoData
<1>3. CASE WriteOpMode
    BY <1>3 DEF WriteOpMode
<1>4. CASE WriteDio
    BY <1>4 DEF WriteDio
<1>5. CASE InitLoRa
    BY <1>5 DEF InitLoRa
<1>6. CASE Config
    BY <1>6 DEF Config
<1>7. CASE TxLoad
    BY <1>7 DEF TxLoad
<1>8. CASE TxPoll
    BY <1>8 DEF TxPoll
<1>9. CASE TxClear
    BY <1>9 DEF TxClear
<1>10. CASE RxClear
    BY <1>10 DEF RxClear
<1>11. CASE RxPoll
    BY <1>11 DEF RxPoll
<1>12. CASE RxLen
    BY <1>12 DEF RxLen
<1>13. CASE RxAddr
    BY <1>13 DEF RxAddr
<1>14. CASE RxEnd
    BY <1>14 DEF RxEnd
<1>15. CASE WaitClear
    BY <1>15 DEF WaitClear
<1>16. CASE CadPoll
    BY <1>16 DEF CadPoll
<1>17. CASE CadClear
    BY <1>17 DEF CadClear
<1>18. CASE WaitTest
    BY <1>18 DEF WaitTest
<1>19. CASE Rssi
    BY <1>19 DEF Rssi
<1>20. CASE WaitTimeout
    BY <1>20 DEF WaitTimeout
<1>21. CASE SpiFails
    BY <1>21 DEF SpiFails
<1>22. CASE TxDone
    BY <1>22 DEF TxDone
<1>23. CASE RxDone
    BY <1>23 DEF RxDone
<1>24. CASE CadDone
    BY <1>24 DEF CadDone
<1>25. CASE UNCHANGED vars
    BY <1>25 DEF vars
<1>. QED
    BY <1>1, <1>2, <1>3, <1>4, <1>5, <1>6, <1>7, <1>8, <1>9, <1>10, <1>11, <1>12, <1>13,
        <1>14, <1>15, <1>16, <1>17, <1>18, <1>19, <1>20, <1>21, <1>22, <1>23, <1>24, <1>25
        DEF Next, DriverStep, ChipStep

\* Each step goes where its function goes, and State is what has been set on the way.
LEMMA RouteStep ==
    ASSUME TypeOK, RouteOK, [Next]_vars
    PROVE  RouteOK'
<1> USE DEF TypeOK, RouteOK, LegOK, PlaceOK, Leg, At, Setting, ModeOf, States
<1>1. CASE Boot
    BY <1>1 DEF Boot, Call
<1>2. CASE Start
    BY <1>2 DEF Start, Call, NoData
<1>3. CASE WriteOpMode
    BY <1>3 DEF WriteOpMode
<1>4. CASE WriteDio
    BY <1>4 DEF WriteDio
<1>5. CASE InitLoRa \/ Config \/ Rssi
    BY <1>5 DEF InitLoRa, Config, Rssi
<1>6. CASE TxLoad \/ TxPoll \/ TxClear
    BY <1>6 DEF TxLoad, TxPoll, TxClear
<1>7. CASE RxClear \/ RxPoll \/ RxLen \/ RxAddr \/ RxEnd
    BY <1>7 DEF RxClear, RxPoll, RxLen, RxAddr, RxEnd
<1>8. CASE WaitClear \/ CadPoll \/ CadClear \/ WaitTest
    BY <1>8 DEF WaitClear, CadPoll, CadClear, WaitTest
<1>9. CASE WaitTimeout \/ SpiFails
    BY <1>9 DEF WaitTimeout, SpiFails
<1>10. CASE TxDone
    BY <1>10 DEF TxDone
<1>11. CASE RxDone
    BY <1>11 DEF RxDone
<1>12. CASE CadDone
    BY <1>12 DEF CadDone
<1>13. CASE UNCHANGED vars
    BY <1>13 DEF vars
<1>. QED
    BY <1>1, <1>2, <1>3, <1>4, <1>5, <1>6, <1>7, <1>8, <1>9, <1>10, <1>11, <1>12, <1>13 DEF
        Next, DriverStep, ChipStep

\* The chip leaves a mode only by itself, and a failed transfer ends the call.
LEMMA AgreeStep ==
    ASSUME TypeOK, RouteOK, AgreeOK, [Next]_vars
    PROVE  AgreeOK'
<1> USE DEF TypeOK, RouteOK, AgreeOK, InMode, ModeOf, LegOK, PlaceOK, Leg, At, Setting, To,
            States
<1>1. CASE Boot
    BY <1>1 DEF Boot, Call
<1>2. CASE Start
    BY <1>2 DEF Start, Call, NoData
<1>3. CASE WriteOpMode
    BY <1>3 DEF WriteOpMode
<1>4. CASE WriteDio
    BY <1>4 DEF WriteDio
<1>5. CASE InitLoRa \/ Config \/ Rssi
    BY <1>5 DEF InitLoRa, Config, Rssi
<1>6. CASE TxLoad \/ TxPoll \/ TxClear
    BY <1>6 DEF TxLoad, TxPoll, TxClear
<1>7. CASE RxClear \/ RxPoll \/ RxLen \/ RxAddr \/ RxEnd
    BY <1>7 DEF RxClear, RxPoll, RxLen, RxAddr, RxEnd
<1>8. CASE WaitClear \/ CadPoll \/ CadClear \/ WaitTest
    BY <1>8 DEF WaitClear, CadPoll, CadClear, WaitTest
<1>9. CASE WaitTimeout \/ SpiFails
    BY <1>9 DEF WaitTimeout, SpiFails
<1>10. CASE TxDone
    BY <1>10 DEF TxDone
<1>11. CASE RxDone
    BY <1>11 DEF RxDone
<1>12. CASE CadDone
    BY <1>12 DEF CadDone
<1>13. CASE UNCHANGED vars
    BY <1>13 DEF vars
<1>. QED
    BY <1>1, <1>2, <1>3, <1>4, <1>5, <1>6, <1>7, <1>8, <1>9, <1>10, <1>11, <1>12, <1>13 DEF
        Next, DriverStep, ChipStep

\* Nothing is on the air before the payload is in the FIFO, and nothing else after.
LEMMA SendStep ==
    ASSUME TypeOK, RouteOK, SendOK, [Next]_vars
    PROVE  SendOK'
<1> USE DEF TypeOK, RouteOK, SendOK, Sending, Ending, ModeOf, LegOK, PlaceOK, Leg, At,
            Setting, To, States
<1>1. CASE Boot
    BY <1>1 DEF Boot, Call
<1>2. CASE Start
    BY <1>2 DEF Start, Call, NoData
<1>3. CASE WriteOpMode
    BY <1>3 DEF WriteOpMode
<1>4. CASE WriteDio
    BY <1>4 DEF WriteDio
<1>5. CASE InitLoRa \/ Config \/ Rssi
    BY <1>5 DEF InitLoRa, Config, Rssi
<1>6. CASE TxLoad \/ TxPoll \/ TxClear
    BY <1>6 DEF TxLoad, TxPoll, TxClear
<1>7. CASE RxClear \/ RxPoll \/ RxLen \/ RxAddr \/ RxEnd
    BY <1>7 DEF RxClear, RxPoll, RxLen, RxAddr, RxEnd
<1>8. CASE WaitClear \/ CadPoll \/ CadClear \/ WaitTest
    BY <1>8 DEF WaitClear, CadPoll, CadClear, WaitTest
<1>9. CASE WaitTimeout \/ SpiFails
    BY <1>9 DEF WaitTimeout, SpiFails
<1>10. CASE TxDone
    BY <1>10 DEF TxDone
<1>11. CASE RxDone
    BY <1>11 DEF RxDone
<1>12. CASE CadDone
    BY <1>12 DEF CadDone
<1>13. CASE UNCHANGED vars
    BY <1>13 DEF vars
<1>. QED
    BY <1>1, <1>2, <1>3, <1>4, <1>5, <1>6, <1>7, <1>8, <1>9, <1>10, <1>11, <1>12, <1>13 DEF
        Next, DriverStep, ChipStep

\* The flags were cleared before the reception began, so RX_DONE is of this call.
LEMMA ReceiveStep ==
    ASSUME TypeOK, RouteOK, ReceiveOK, [Next]_vars
    PROVE  ReceiveOK'
<1> USE DEF TypeOK, RouteOK, ReceiveOK, Received, Ending, LegOK, PlaceOK, Leg, At, Setting,
            To
<1>1. CASE Boot
    BY <1>1 DEF Boot, Call
<1>2. CASE Start
    BY <1>2 DEF Start, Call, NoData
<1>3. CASE WriteOpMode
    BY <1>3 DEF WriteOpMode
<1>4. CASE WriteDio
    BY <1>4 DEF WriteDio
<1>5. CASE InitLoRa \/ Config \/ Rssi
    BY <1>5 DEF InitLoRa, Config, Rssi
<1>6. CASE TxLoad \/ TxPoll \/ TxClear
    BY <1>6 DEF TxLoad, TxPoll, TxClear
<1>7. CASE RxClear \/ RxPoll \/ RxLen \/ RxAddr \/ RxEnd
    BY <1>7 DEF RxClear, RxPoll, RxLen, RxAddr, RxEnd
<1>8. CASE WaitClear \/ CadPoll \/ CadClear \/ WaitTest
    BY <1>8 DEF WaitClear, CadPoll, CadClear, WaitTest
<1>9. CASE WaitTimeout \/ SpiFails
    BY <1>9 DEF WaitTimeout, SpiFails
<1>10. CASE TxDone
    BY <1>10 DEF TxDone
<1>11. CASE RxDone
    BY <1>11 DEF RxDone
<1>12. CASE CadDone
    BY <1>12 DEF CadDone
<1>13. CASE UNCHANGED vars
    BY <1>13 DEF vars
<1>. QED
    BY <1>1, <1>2, <1>3, <1>4, <1>5, <1>6, <1>7, <1>8, <1>9, <1>10, <1>11, <1>12, <1>13 DEF
        Next, DriverStep, ChipStep

\* The flags were cleared first, so CAD_DONE without CAD_DETECTED is of this call.
LEMMA WaitStep ==
    ASSUME TypeOK, RouteOK, WaitOK, [Next]_vars
    PROVE  WaitOK'
<1> USE DEF RouteOK, WaitOK, LegOK, PlaceOK, Leg, At, Setting, To
<1>1. CASE Boot
    BY <1>1 DEF Boot, Call
<1>2. CASE Start
    BY <1>2 DEF Start, Call, NoData
<1>3. CASE WriteOpMode
    BY <1>3 DEF WriteOpMode
<1>4. CASE WriteDio
    BY <1>4 DEF WriteDio
<1>5. CASE InitLoRa \/ Config \/ Rssi
    BY <1>5 DEF InitLoRa, Config, Rssi
<1>6. CASE TxLoad \/ TxPoll \/ TxClear
    BY <1>6 DEF TxLoad, TxPoll, TxClear
<1>7. CASE RxClear \/ RxPoll \/ RxLen \/ RxAddr \/ RxEnd
    BY <1>7 DEF RxClear, RxPoll, RxLen, RxAddr, RxEnd
<1>8. CASE WaitClear \/ CadPoll \/ CadClear \/ WaitTest
    BY <1>8 DEF WaitClear, CadPoll, CadClear, WaitTest
<1>9. CASE WaitTimeout \/ SpiFails
    BY <1>9 DEF WaitTimeout, SpiFails
<1>10. CASE TxDone
    BY <1>10 DEF TxDone
<1>11. CASE RxDone
    BY <1>11 DEF RxDone
<1>12. CASE CadDone
    BY <1>12 DEF CadDone
<1>13. CASE UNCHANGED vars
    BY <1>13 DEF vars
<1>. QED
    BY <1>1, <1>2, <1>3, <1>4, <1>5, <1>6, <1>7, <1>8, <1>9, <1>10, <1>11, <1>12, <1>13 DEF
        Next, DriverStep, ChipStep

\* A call that reports success has set the mode it returns in, or started in it.
LEMMA StateAgreesStep ==
    ASSUME RadioInv, StateAgrees, [Next]_vars
    PROVE  StateAgrees'
<1> USE DEF RadioInv, StateAgrees, Returned, AgreeOK, Agrees, InMode, ModeOf, To, Function,
            TypeOK, RouteOK, LegOK, PlaceOK, Leg, At, Setting, States
<1>1. CASE Boot
    BY <1>1 DEF Boot, Call
<1>2. CASE Start
    BY <1>2 DEF Start, Call, NoData
<1>3. CASE WriteOpMode
    BY <1>3 DEF WriteOpMode
<1>4. CASE WriteDio
    BY <1>4 DEF WriteDio
<1>5. CASE InitLoRa \/ Config \/ Rssi
    BY <1>5 DEF InitLoRa, Config, Rssi
<1>6. CASE TxLoad \/ TxPoll \/ TxClear
    BY <1>6 DEF TxLoad, TxPoll, TxClear
<1>7. CASE RxClear \/ RxPoll \/ RxLen \/ RxAddr \/ RxEnd
    BY <1>7 DEF RxClear, RxPoll, RxLen, RxAddr, RxEnd
<1>8. CASE WaitClear \/ CadPoll \/ CadClear \/ WaitTest
    BY <1>8 DEF WaitClear, CadPoll, CadClear, WaitTest
<1>9. CASE WaitTimeout \/ SpiFails
    BY <1>9 DEF WaitTimeout, SpiFails
<1>10. CASE TxDone
    BY <1>10 DEF TxDone
<1>11. CASE RxDone
    BY <1>11 DEF RxDone
<1>12. CASE CadDone
    BY <1>12 DEF CadDone
<1>13. CASE UNCHANGED vars
    BY <1>13 DEF vars
<1>. QED
    BY <1>1, <1>2, <1>3, <1>4, <1>5, <1>6, <1>7, <1>8, <1>9, <1>10, <1>11, <1>12, <1>13 DEF
        Next, DriverStep, ChipStep

\* Sx127x_SendData returns success past txClear only, where its payload was sent.
LEMMA SentWhenOkStep ==
    ASSUME RadioInv, SentWhenOk, [Next]_vars
    PROVE  SentWhenOk'
<1> USE DEF RadioInv, SentWhenOk, Returned, SendOK, Sending, Ending, TypeOK, RouteOK, LegOK,
            PlaceOK, Leg, At, Setting, States
<1>1. CASE Boot
    BY <1>1 DEF Boot, Call
<1>2. CASE Start
    BY <1>2 DEF Start, Call, NoData
<1>3. CASE WriteOpMode
    BY <1>3 DEF WriteOpMode
<1>4. CASE WriteDio
    BY <1>4 DEF WriteDio
<1>5. CASE InitLoRa \/ Config \/ Rssi
    BY <1>5 DEF InitLoRa, Config, Rssi
<1>6. CASE TxLoad \/ TxPoll \/ TxClear
    BY <1>6 DEF TxLoad, TxPoll, TxClear
<1>7. CASE RxClear \/ RxPoll \/ RxLen \/ RxAddr \/ RxEnd
    BY <1>7 DEF RxClear, RxPoll, RxLen, RxAddr, RxEnd
<1>8. CASE WaitClear \/ CadPoll \/ CadClear \/ WaitTest
    BY <1>8 DEF WaitClear, CadPoll, CadClear, WaitTest
<1>9. CASE WaitTimeout \/ SpiFails
    BY <1>9 DEF WaitTimeout, SpiFails
<1>10. CASE TxDone
    BY <1>10 DEF TxDone
<1>11. CASE RxDone
    BY <1>11 DEF RxDone
<1>12. CASE CadDone
    BY <1>12 DEF CadDone
<1>13. CASE UNCHANGED vars
    BY <1>13 DEF vars
<1>. QED
    BY <1>1, <1>2, <1>3, <1>4, <1>5, <1>6, <1>7, <1>8, <1>9, <1>10, <1>11, <1>12, <1>13 DEF
        Next, DriverStep, ChipStep

\* Sx127x_ReceiveData returns success past rxEnd only, where both were read.
LEMMA FreshAndWholeStep ==
    ASSUME RadioInv, FreshAndWhole, [Next]_vars
    PROVE  FreshAndWhole'
<1> USE DEF RadioInv, FreshAndWhole, Returned, ReceiveOK, Received, Ending, TypeOK, RouteOK,
            LegOK, PlaceOK, Leg, At, Setting, States
<1>1. CASE Boot
    BY <1>1 DEF Boot, Call
<1>2. CASE Start
    BY <1>2 DEF Start, Call, NoData
<1>3. CASE WriteOpMode
    BY <1>3 DEF WriteOpMode
<1>4. CASE WriteDio
    BY <1>4 DEF WriteDio
<1>5. CASE InitLoRa \/ Config \/ Rssi
    BY <1>5 DEF InitLoRa, Config, Rssi
<1>6. CASE TxLoad \/ TxPoll \/ TxClear
    BY <1>6 DEF TxLoad, TxPoll, TxClear
<1>7. CASE RxClear \/ RxPoll \/ RxLen \/ RxAddr \/ RxEnd
    BY <1>7 DEF RxClear, RxPoll, RxLen, RxAddr, RxEnd
<1>8. CASE WaitClear \/ CadPoll \/ CadClear \/ WaitTest
    BY <1>8 DEF WaitClear, CadPoll, CadClear, WaitTest
<1>9. CASE WaitTimeout \/ SpiFails
    BY <1>9 DEF WaitTimeout, SpiFails
<1>10. CASE TxDone
    BY <1>10 DEF TxDone
<1>11. CASE RxDone
    BY <1>11 DEF RxDone
<1>12. CASE CadDone
    BY <1>12 DEF CadDone
<1>13. CASE UNCHANGED vars
    BY <1>13 DEF vars
<1>. QED
    BY <1>1, <1>2, <1>3, <1>4, <1>5, <1>6, <1>7, <1>8, <1>9, <1>10, <1>11, <1>12, <1>13 DEF
        Next, DriverStep, ChipStep

\* Sx127x_Wait4FreeChannel returns success from waitTest only.
LEMMA FreeWhenOkStep ==
    ASSUME RadioInv, FreeWhenOk, [Next]_vars
    PROVE  FreeWhenOk'
<1> USE DEF RadioInv, FreeWhenOk, Returned, WaitOK, To, TypeOK, RouteOK, LegOK, PlaceOK,
            Leg, At, Setting, States
<1>1. CASE Boot
    BY <1>1 DEF Boot, Call
<1>2. CASE Start
    BY <1>2 DEF Start, Call, NoData
<1>3. CASE WriteOpMode
    BY <1>3 DEF WriteOpMode
<1>4. CASE WriteDio
    BY <1>4 DEF WriteDio
<1>5. CASE InitLoRa \/ Config \/ Rssi
    BY <1>5 DEF InitLoRa, Config, Rssi
<1>6. CASE TxLoad \/ TxPoll \/ TxClear
    BY <1>6 DEF TxLoad, TxPoll, TxClear
<1>7. CASE RxClear \/ RxPoll \/ RxLen \/ RxAddr \/ RxEnd
    BY <1>7 DEF RxClear, RxPoll, RxLen, RxAddr, RxEnd
<1>8. CASE WaitClear \/ CadPoll \/ CadClear \/ WaitTest
    BY <1>8 DEF WaitClear, CadPoll, CadClear, WaitTest
<1>9. CASE WaitTimeout \/ SpiFails
    BY <1>9 DEF WaitTimeout, SpiFails
<1>10. CASE TxDone
    BY <1>10 DEF TxDone
<1>11. CASE RxDone
    BY <1>11 DEF RxDone
<1>12. CASE CadDone
    BY <1>12 DEF CadDone
<1>13. CASE UNCHANGED vars
    BY <1>13 DEF vars
<1>. QED
    BY <1>1, <1>2, <1>3, <1>4, <1>5, <1>6, <1>7, <1>8, <1>9, <1>10, <1>11, <1>12, <1>13 DEF
        Next, DriverStep, ChipStep

\* Everything holds when the program has started.
LEMMA RadioInit ==
    ASSUME RadioAssumption, Init
    PROVE  RadioInv /\ ReturnInv
<1> USE DEF Init, NoData
<1>1. TypeOK
    BY DEF TypeOK, States, Pc, Function, IrqFlag, RadioAssumption
<1>2. RouteOK /\ AgreeOK
    BY DEF RouteOK, AgreeOK, LegOK, Leg, Setting, To, InMode, ModeOf
<1>3. SendOK /\ ReceiveOK /\ WaitOK
    BY DEF SendOK, ReceiveOK, WaitOK
<1>4. ReturnInv
    BY DEF ReturnInv, StateAgrees, SentWhenOk, FreshAndWhole, FreeWhenOk, Returned
<1>. QED
    BY <1>1, <1>2, <1>3, <1>4 DEF RadioInv

\* Every step keeps both parts.
LEMMA RadioStep ==
    ASSUME RadioAssumption, RadioInv, ReturnInv, [Next]_vars
    PROVE  RadioInv' /\ ReturnInv'
<1>1. RadioInv'
    BY TypeStep, RouteStep, AgreeStep, SendStep, ReceiveStep, WaitStep DEF RadioInv
<1>2. ReturnInv'
    BY StateAgreesStep, SentWhenOkStep, FreshAndWholeStep, FreeWhenOkStep DEF ReturnInv
<1>. QED
    BY <1>1, <1>2

LEMMA RadioInvariant == Spec => [](RadioInv /\ ReturnInv)
    BY RadioInit, RadioStep, RadioAssumption, PTL DEF Spec

\* TypeOK of Sx127x for every set of payloads and both bounds.
THEOREM RadioTypeCorrect == Spec => []TypeOK
<1>1. RadioInv => TypeOK
    BY DEF RadioInv
<1>. QED
    BY <1>1, RadioInvariant, PTL

\* StateAgrees of Sx127x for every set of payloads and any number of failed transfers:
\* settings.State is the chip's mode between calls until a transfer fails, and again
\* after a call that has used the radio with success.
THEOREM StateIsTheChips == Spec => []StateAgrees
<1>1. ReturnInv => StateAgrees
    BY DEF ReturnInv
<1>. QED
    BY <1>1, RadioInvariant, PTL

\* SentWhenOk of Sx127x for every set of payloads and any number of failed transfers:
\* Sx127x_SendData with nothing left of an earlier transmission reports success only if
\* its own payload was transmitted.
THEOREM SuccessMeansSent == Spec => []SentWhenOk
<1>1. ReturnInv => SentWhenOk
    BY DEF ReturnInv
<1>. QED
    BY <1>1, RadioInvariant, PTL

\* FreshAndWhole of Sx127x for every set of payloads and any number of packets: what
\* Sx127x_ReceiveData returns has arrived in this call, length and payload of one packet
\* if there was one.
THEOREM ReceivedIsFresh == Spec => []FreshAndWhole
<1>1. ReturnInv => FreshAndWhole
    BY DEF ReturnInv
<1>. QED
    BY <1>1, RadioInvariant, PTL

\* FreeWhenOk of Sx127x for any number of detections: Sx127x_Wait4FreeChannel reports
\* success only if a detection of this call has found the channel free.
THEOREM SuccessMeansFree == Spec => []FreeWhenOk
<1>1. ReturnInv => FreeWhenOk
    BY DEF ReturnInv
<1>. QED
    BY <1>1, RadioInvariant, PTL
================================================================================
