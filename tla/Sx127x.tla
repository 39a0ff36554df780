-------------------------------- MODULE Sx127x --------------------------------
(***************************************************************************)
(* The driver of the node's radio, sx127x.c, against the chip.             *)
(*                                                                         *)
(* The driver keeps the mode it has last set in settings.State and does    *)
(* not set a mode it believes the chip is in. The chip leaves TX and CAD   *)
(* by itself, packets arrive while the driver reads one, and every SPI     *)
(* transfer may fail, upon which a function returns where it stands. A     *)
(* step of the driver ends with a transfer, so that the chip may move      *)
(* between any two of them. The chip is not part of the source.            *)
(***************************************************************************)
EXTENDS Integers, Sequences

CONSTANTS
    Payload,  \* payloads, each of its own length
    None,     \* no payload
    MaxFault, \* bound: transfers that fail between two boots
    MaxRx     \* bound: packets that arrive during a call

ASSUME RadioAssumption ==
    /\ None \notin Payload
    /\ MaxFault \in Nat /\ MaxRx \in Nat \ {0}

VARIABLES
    mode,    \* chip: operating mode
    lora,    \* chip: bit LONG_RANGE_MODE
    flags,   \* chip: REG_12_IRQ_FLAGS
    fifo,    \* chip: payload written for transmission
    onAir,   \* chip: payload being transmitted
    rx,      \* chip: payload received last
    State,   \* driver: settings.State
    CadStt,  \* driver: settings.CadStt
    pc,      \* driver: the transfer it comes to next, or "idle"
    goal,    \* driver: the mode being set, and where it goes on
    call,    \* driver: the function last called, and its data
    got,     \* driver: len and rx_buffer of Sx127x_ReceiveData
    ret,     \* driver: what the last call has returned
    clean,   \* history: "yes" if nothing of an earlier transmission was left
    sent,    \* history: payload transmitted in this call
    arrived, \* history: payloads received since the flags were cleared
    cadSaw,  \* history: what channel activity detection has found in this call
    faults   \* transfers that have failed since the boot

chipVars == <<mode, lora, flags, fifo, onAir, rx>>
histVars == <<clean, sent, arrived, cadSaw>>
vars     == <<chipVars, State, CadStt, pc, goal, call, got, ret, histVars, faults>>

IrqFlag == {"TX_DONE", "RX_DONE", "CAD_DONE", "CAD_DETECTED"}
States  == {"RF_STDBY", "RF_SLEEP", "RF_RX_RUNNING", "RF_TX_RUNNING", "RF_CAD"}
\* The mode of the chip that a state stands for.
ModeOf(s) == CASE s = "RF_STDBY" -> "stdby" [] s = "RF_SLEEP" -> "sleep" [] s = "RF_CAD" -> "cad"
               [] s = "RF_RX_RUNNING" -> "rx" [] s = "RF_TX_RUNNING" -> "tx"

Pc == {"idle", "mode", "dio", "lora", "config", "load", "txPoll", "txClear", "rxClear", "rxPoll",
       "rxLen", "rxAddr", "rxEnd", "waitClear", "cadPoll", "cadClear", "waitTest", "rssi"}
Function == {"InitModule", "SendData", "ReceiveData", "Wait4FreeChannel", "IsChannelFree",
             "RandomSeed", "SetFrequency", "SetModeStdby", "SetModeSleep"}
------------------------------------------------------------------------------
(* Changes of mode, and the chip. *)

Goto(p) == /\ pc' = p
           /\ ret' = IF p = "idle" THEN "STD_OK" ELSE ret

\* The functions Sx127x_SetMode...: nothing is written if State is the mode wanted.
SetMode(s, next) == IF State = s THEN Goto(next) /\ UNCHANGED goal
                    ELSE /\ goal' = [state |-> s, next |-> next]
                         /\ pc' = "mode" /\ UNCHANGED ret

NoGoal  == [state |-> "RF_STDBY", next |-> "idle"]
Reached == State' = goal.state /\ Goto(goal.next) /\ goal' = NoGoal

\* REG_01_OP_MODE is written. A transmission begins with what is in the FIFO, and
\* ends with any other mode.
WriteOpMode ==
    /\ pc = "mode"
    /\ mode' = ModeOf(goal.state)
    /\ onAir' = IF mode' = "tx" THEN fifo ELSE None
    /\ IF mode' \in {"stdby", "sleep"} THEN Reached
       ELSE pc' = "dio" /\ UNCHANGED <<State, goal, ret>>
    /\ UNCHANGED <<lora, flags, fifo, rx, CadStt, call, got, histVars, faults>>

\* REG_40_DIO_MAPPING1, and only then State.
WriteDio ==
    /\ pc = "dio"
    /\ Reached
    /\ UNCHANGED <<chipVars, CadStt, call, got, histVars, faults>>

During(fn) == pc # "idle" /\ call.fn = fn

\* The chip has sent a packet and goes to standby.
TxDone ==
    /\ mode = "tx" /\ lora = "on"
    /\ mode' = "stdby" /\ onAir' = None /\ flags' = flags \cup {"TX_DONE"}
    /\ sent' = IF During("SendData") THEN onAir ELSE sent
    /\ UNCHANGED <<lora, fifo, rx, State, CadStt, pc, goal, call, got, ret, clean, arrived,
                   cadSaw, faults>>

\* A packet arrives; RX_DONE stays if it was set, and the registers of the last
\* packet are the new one's.
RxDone ==
    /\ mode = "rx" /\ lora = "on" /\ Len(arrived) < MaxRx
    /\ \E p \in Payload :
           /\ rx' = p
           /\ arrived' = IF During("ReceiveData") THEN Append(arrived, p) ELSE arrived
    /\ flags' = flags \cup {"RX_DONE"}
    /\ UNCHANGED <<mode, lora, fifo, onAir, State, CadStt, pc, goal, call, got, ret, clean, sent,
                   cadSaw, faults>>

\* Channel activity detection ends, and the chip goes to standby.
CadDone ==
    /\ mode = "cad" /\ lora = "on"
    /\ mode' = "stdby"
    /\ \E found \in {"free", "busy"} :
           /\ flags' = flags \cup {"CAD_DONE"}
                            \cup (IF found = "busy" THEN {"CAD_DETECTED"} ELSE {})
           /\ cadSaw' = IF During("Wait4FreeChannel") THEN cadSaw \cup {found} ELSE cadSaw
    /\ UNCHANGED <<lora, fifo, onAir, rx, State, CadStt, pc, goal, call, got, ret, clean, sent,
                   arrived, faults>>

ChipStep == TxDone \/ RxDone \/ CadDone

Return == pc' = "idle" /\ ret' = "STD_NOT_OK"

\* Sx127x_Interface does not get the SPI: every function returns at once.
SpiFails ==
    /\ pc \notin {"idle", "waitTest"} /\ faults < MaxFault
    /\ Return /\ faults' = faults + 1
    /\ UNCHANGED <<chipVars, State, CadStt, goal, call, got, histVars>>
------------------------------------------------------------------------------
(* Calls. The driver has one caller, LoRa_Service. *)

NoData == [len |-> None, data |-> None]

Call(fn, p) ==
    /\ pc = "idle" /\ call' = [fn |-> fn, payload |-> p]
    /\ clean' = IF fn = "SendData" /\ (mode = "tx" \/ "TX_DONE" \in flags) THEN "no" ELSE "yes"
    /\ got' = NoData /\ sent' = None /\ arrived' = <<>> /\ cadSaw' = {}
    /\ UNCHANGED CadStt

\* Variation: settings is left as the last run had it.
BootWarm ==
    /\ Call("InitModule", None)
    /\ mode' = "stdby" /\ lora' = "off" /\ flags' = {} /\ fifo' = None /\ onAir' = None
    /\ rx' = None /\ faults' = 0
    /\ UNCHANGED State /\ SetMode("RF_SLEEP", "lora")

\* The controller is reset, settings have their initial values again, and
\* Sx127x_InitModule resets the chip and sets it to sleep, for LONG_RANGE_MODE.
Boot ==
    /\ Call("InitModule", None)
    /\ mode' = "stdby" /\ lora' = "off" /\ flags' = {} /\ fifo' = None /\ onAir' = None
    /\ rx' = None /\ faults' = 0
    /\ State' = "RF_STDBY"
    /\ goal' = [state |-> "RF_SLEEP", next |-> "lora"] /\ pc' = "mode" /\ UNCHANGED ret

Init ==
    /\ mode = "stdby" /\ lora = "off" /\ flags = {} /\ fifo = None /\ onAir = None /\ rx = None
    /\ State = "RF_STDBY" /\ CadStt = "CAD_BUSY"
    /\ pc = "mode" /\ goal = [state |-> "RF_SLEEP", next |-> "lora"]
    /\ call = [fn |-> "InitModule", payload |-> None]
    /\ got = NoData /\ ret = "STD_NOT_OK"
    /\ clean = "yes" /\ sent = None /\ arrived = <<>> /\ cadSaw = {} /\ faults = 0

\* LONG_RANGE_MODE can only be changed while the chip sleeps.
InitLoRa ==
    /\ pc = "lora"
    /\ lora' = IF mode = "sleep" THEN "on" ELSE lora
    /\ SetMode("RF_STDBY", "config")
    /\ UNCHANGED <<mode, flags, fifo, onAir, rx, State, CadStt, call, got, histVars, faults>>

\* Modem, preamble, frequency, power, network: registers that no other step reads.
Config ==
    /\ pc = "config"
    /\ Goto("idle")
    /\ UNCHANGED <<chipVars, State, CadStt, goal, call, got, histVars, faults>>

\* Functions that begin with a change of mode or a write of registers.
Start ==
    /\ \/ \E p \in Payload : Call("SendData", p) /\ SetMode("RF_STDBY", "load")
       \/ Call("IsChannelFree", None) /\ SetMode("RF_CAD", "cadPoll")
       \/ Call("RandomSeed", None) /\ SetMode("RF_RX_RUNNING", "rssi")
       \/ Call("SetModeStdby", None) /\ SetMode("RF_STDBY", "idle")
       \/ Call("SetModeSleep", None) /\ SetMode("RF_SLEEP", "idle")
       \/ Call("SetFrequency", None) /\ pc' = "config" /\ UNCHANGED <<goal, ret>>
       \/ Call("Wait4FreeChannel", None) /\ pc' = "waitClear" /\ UNCHANGED <<goal, ret>>
       \/ Call("ReceiveData", None)
            /\ IF State = "RF_TX_RUNNING" THEN Return /\ UNCHANGED goal
               ELSE SetMode("RF_STDBY", "rxClear")
    /\ UNCHANGED <<chipVars, State, faults>>
------------------------------------------------------------------------------
(* Sx127x_SendData. *)

\* Length, addresses and payload.
TxLoad ==
    /\ pc = "load"
    /\ fifo' = call.payload
    /\ SetMode("RF_TX_RUNNING", "txPoll")
    /\ UNCHANGED <<mode, lora, flags, onAir, rx, State, CadStt, call, got, histVars, faults>>

\* Variation: any flag ends the wait.
TxPollAny ==
    /\ pc = "txPoll"
    /\ IF flags # {} THEN Goto("txClear") ELSE Return
    /\ UNCHANGED <<chipVars, State, CadStt, goal, call, got, histVars, faults>>

\* TX_DONE is read, or the time is over: then the chip is left as it is.
TxPoll ==
    /\ pc = "txPoll"
    /\ IF "TX_DONE" \in flags THEN Goto("txClear") ELSE Return
    /\ UNCHANGED <<chipVars, State, CadStt, goal, call, got, histVars, faults>>

TxClear ==
    /\ pc = "txClear"
    /\ flags' = flags \ {"TX_DONE"}
    /\ SetMode("RF_STDBY", "idle")
    /\ UNCHANGED <<mode, lora, fifo, onAir, rx, State, CadStt, call, got, histVars, faults>>
------------------------------------------------------------------------------
(* Sx127x_ReceiveData. *)

\* Variation: the flags are left.
RxClearNot ==
    /\ pc = "rxClear"
    /\ arrived' = <<>>
    /\ SetMode("RF_RX_RUNNING", "rxPoll")
    /\ UNCHANGED <<chipVars, State, CadStt, call, got, clean, sent, cadSaw, faults>>

RxClear ==
    /\ pc = "rxClear"
    /\ flags' = {} /\ arrived' = <<>>
    /\ SetMode("RF_RX_RUNNING", "rxPoll")
    /\ UNCHANGED <<mode, lora, fifo, onAir, rx, State, CadStt, call, got, clean, sent, cadSaw, faults>>

\* RX_DONE is read, or the time is over: then the chip goes on receiving.
RxPoll ==
    /\ pc = "rxPoll"
    /\ IF "RX_DONE" \in flags THEN Goto("rxLen") ELSE Return
    /\ UNCHANGED <<chipVars, State, CadStt, goal, call, got, histVars, faults>>

\* REG_13_RX_NB_BYTES of the last packet.
RxLen ==
    /\ pc = "rxLen"
    /\ got' = [got EXCEPT !.len = rx] /\ Goto("rxAddr")
    /\ UNCHANGED <<chipVars, State, CadStt, goal, call, histVars, faults>>

\* REG_10_FIFO_RX_CURRENT_ADDR of the last packet, and the payload it points to.
RxAddr ==
    /\ pc = "rxAddr"
    /\ got' = [got EXCEPT !.data = rx] /\ Goto("rxEnd")
    /\ UNCHANGED <<chipVars, State, CadStt, goal, call, histVars, faults>>

RxEnd ==
    /\ pc = "rxEnd"
    /\ flags' = {}
    /\ SetMode("RF_STDBY", "idle")
    /\ UNCHANGED <<mode, lora, fifo, onAir, rx, State, CadStt, call, got, histVars, faults>>
------------------------------------------------------------------------------
(* Sx127x_Wait4FreeChannel, Sx127x_IsChannelFree, Sx1276_RandomSeed. *)

\* Variation: flags of an earlier detection are left.
WaitClearNot ==
    /\ pc = "waitClear"
    /\ SetMode("RF_CAD", "cadPoll")
    /\ UNCHANGED <<chipVars, State, CadStt, call, got, histVars, faults>>

WaitClear ==
    /\ pc = "waitClear"
    /\ flags' = {}
    /\ SetMode("RF_CAD", "cadPoll")
    /\ UNCHANGED <<mode, lora, fifo, onAir, rx, State, CadStt, call, got, histVars, faults>>

\* Variation: CadStt is what the register says.
CadPollRaw ==
    /\ pc = "cadPoll"
    /\ IF "CAD_DONE" \in flags
       THEN /\ CadStt' = IF "CAD_DETECTED" \in flags THEN "CAD_DETECTED" ELSE "CAD_FREE"
            /\ Goto("cadClear")
       ELSE Goto("cadPoll") /\ UNCHANGED CadStt
    /\ UNCHANGED <<chipVars, State, goal, call, got, histVars, faults>>

\* CAD_DONE is read again and again, without a timeout.
CadPoll ==
    /\ pc = "cadPoll"
    /\ IF "CAD_DONE" \in flags
       THEN /\ CadStt' = IF "CAD_DETECTED" \in flags THEN "CAD_BUSY" ELSE "CAD_FREE"
            /\ Goto("cadClear")
       ELSE Goto("cadPoll") /\ UNCHANGED CadStt
    /\ UNCHANGED <<chipVars, State, goal, call, got, histVars, faults>>

CadClear ==
    /\ pc = "cadClear"
    /\ flags' = flags \ {"CAD_DONE", "CAD_DETECTED"}
    /\ SetMode("RF_STDBY", IF call.fn = "IsChannelFree" THEN "idle" ELSE "waitTest")
    /\ UNCHANGED <<mode, lora, fifo, onAir, rx, State, CadStt, call, got, histVars, faults>>

\* The loop on CadStt ends, or goes round after a random time.
WaitTest ==
    /\ pc = "waitTest"
    /\ IF CadStt = "CAD_FREE" THEN Goto("idle") /\ UNCHANGED goal
       ELSE SetMode("RF_CAD", "cadPoll")
    /\ UNCHANGED <<chipVars, State, CadStt, call, got, histVars, faults>>

\* Variation: the time is not looked at.
WaitTimeoutNot == FALSE

\* The time is over and the channel was busy.
WaitTimeout ==
    /\ pc = "waitTest" /\ CadStt # "CAD_FREE"
    /\ Return
    /\ UNCHANGED <<chipVars, State, CadStt, goal, call, got, histVars, faults>>

\* Four readings of the signal strength.
Rssi ==
    /\ pc = "rssi"
    /\ SetMode("RF_STDBY", "idle")
    /\ UNCHANGED <<chipVars, State, CadStt, call, got, histVars, faults>>

DriverStep == \/ WriteOpMode \/ WriteDio \/ InitLoRa \/ Config \/ TxLoad \/ TxPoll \/ TxClear
              \/ RxClear \/ RxPoll \/ RxLen \/ RxAddr \/ RxEnd
              \/ WaitClear \/ CadPoll \/ CadClear \/ WaitTest \/ Rssi

Next == Boot \/ Start \/ DriverStep \/ WaitTimeout \/ SpiFails \/ ChipStep

Spec == Init /\ [][Next]_vars

\* The program runs on, detection takes a bounded time, and the clock comes to pass
\* the timeout of the loop on CadStt.
FairSpec == /\ Spec /\ WF_vars(DriverStep) /\ WF_vars(CadDone) /\ SF_vars(WaitTimeout)
------------------------------------------------------------------------------
(* Properties. *)

\* Every variable holds a value the code can give it.
TypeOK ==
    /\ mode \in {"stdby", "sleep", "tx", "rx", "cad"} /\ lora \in {"on", "off"}
    /\ flags \subseteq IrqFlag
    /\ {fifo, onAir, rx, sent} \subseteq Payload \cup {None}
    /\ State \in States /\ CadStt \in {"CAD_BUSY", "CAD_FREE"}
    /\ pc \in Pc /\ goal \in [state : States, next : Pc]
    /\ call \in [fn : Function, payload : Payload \cup {None}]
    /\ got \in [len : Payload \cup {None}, data : Payload \cup {None}]
    /\ ret \in {"STD_OK", "STD_NOT_OK"} /\ clean \in {"yes", "no"}
    /\ arrived \in Seq(Payload) /\ Len(arrived) <= MaxRx
    /\ cadSaw \subseteq {"free", "busy"} /\ faults \in 0 .. MaxFault

Returned(fn) == pc = "idle" /\ ret = "STD_OK" /\ call.fn = fn

\* settings.State is the chip's mode, of which it leaves TX and CAD by itself.
Agrees == \/ mode = ModeOf(State)
          \/ State \in {"RF_TX_RUNNING", "RF_CAD"} /\ mode = "stdby"

\* Between calls the cached State is the chip's, until a transfer fails, and again once a
\* call that uses the radio has succeeded; after a boot that reports success the
\* chip is in LoRa mode.
StateAgrees ==
    /\ pc = "idle" /\ faults = 0 => Agrees
    /\ \A fn \in Function \ {"SetModeStdby", "SetModeSleep", "SetFrequency"} :
           Returned(fn) => Agrees
    /\ Returned("InitModule") => lora = "on"

\* Sx127x_SendData reports success only if its own payload was transmitted, unless an
\* earlier transmission was still going on or had left its TX_DONE.
SentWhenOk == Returned("SendData") /\ clean = "yes" => sent = call.payload

\* Sx127x_ReceiveData returns what arrived in this call and nothing older, and if one
\* packet arrived its length and its payload are of the same one.
FreshAndWhole ==
    Returned("ReceiveData") =>
        /\ \E i \in 1 .. Len(arrived) : got.len = arrived[i]
        /\ \E i \in 1 .. Len(arrived) : got.data = arrived[i]
        /\ Len(arrived) = 1 => got.len = got.data

\* Sx127x_Wait4FreeChannel succeeds only if a detection that ended in this call has found
\* the channel free.
FreeWhenOk == Returned("Wait4FreeChannel") => "free" \in cadSaw

\* Every call returns. The exception is the wait for CAD_DONE after a transfer has
\* failed: State says RF_CAD and the mode is not set again, or the chip is not in LoRa
\* mode, and the flag never comes.
Detecting == mode = "cad" /\ lora = "on"
Returns == pc # "idle" ~> \/ pc = "idle"
                          \/ pc = "cadPoll" /\ ~Detecting /\ faults > 0
==============================================================================
