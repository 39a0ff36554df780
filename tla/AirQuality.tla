------------------------------ MODULE AirQuality ------------------------------
(***************************************************************************)
(* From a node's frame to its air quality index.                           *)
(*                                                                         *)
(*   - thread_up takes a received packet through macMsgData, acknowledges  *)
(*     it and stores its two numbers as the newest sample of the node (the *)
(*     Up... actions);                                                     *)
(*   - cal_and_write_to_file computes the index from the samples, with no  *)
(*     lock, one access to shared memory after the other (the Cal...       *)
(*     actions).                                                           *)
(*                                                                         *)
(* The module follows the samples of one node, Own, in one slot of         *)
(* gBufferNode. A number in the text of a payload is one byte of it here.  *)
(* Concentrations are integers and quotients are exact: the rounding of    *)
(* floats is left out. NUMBER_SAMPLE_PER_HOUR is 1, so the mean of an hour *)
(* is its sample, and pm_data_now[0] is what follows buff_12_h in memory.  *)
(***************************************************************************)
EXTENDS LoRaMacFrame, FiniteSetsExt

CONSTANTS
    Own,        \* lowest byte of the address of the node whose samples are followed
    Others,     \* that of the other nodes
    Cnt,        \* values of the frame counter
    Dust,       \* values of gp2yValue
    GasAbove, GasBelow, \* values of mq135Value that are not negative; the others, negated
    Hours,      \* hours in buff_12_h, 12 in the code
    Junk        \* what an index computed with an unset class may be

ASSUME AirAssumption ==
    /\ Own \in Byte /\ Others \subseteq Byte \ {Own} /\ Cnt \subseteq Word
    /\ Dust \subseteq Nat \* main.c replaces negative values by 0
    /\ GasAbove \subseteq Nat /\ GasBelow \subseteq Nat
    /\ \A S \in {Dust, GasAbove} : \E x \in S : \A y \in S : x >= y \* an ADC has 12 bits
    /\ Junk \subseteq Int
    /\ Hours \in Nat /\ Hours > 2

VARIABLES
    macMsgData,         \* what thread_up parses into, kept from packet to packet
    ackMsg,             \* ack_msg
    upPc, upI,          \* thread_up: where it is, the loop index of the shift
    sent,               \* history: the frame in macMsgData, or NoNode
    pm, co,             \* pm_data_now[0] and co_data_now[0]
    win,                \* buff_12_h
    n,                  \* buff12hIndex
    past,               \* history: the PM2.5 values of the last hours and of one more
    calPc, calI,        \* cal_and_write_to_file: where it is, its loop index
    aqiCO,              \* result of cal_aqi_co
    cmin, cmax,         \* Cmin and Cmax of cal_aqi_pm25
    up, down,           \* the sums of the loop over the weights
    aqi,                \* result of cal_aqi
    overlap             \* history: whether a store has touched the calculation

frameVars == <<macMsgData, ackMsg, sent>>
slotVars  == <<pm, co, win, n, past>>
upVars    == <<upPc, upI>>
sumVars   == <<cmin, cmax, up, down>>
calVars   == <<calPc, calI, aqiCO, sumVars, aqi>>
vars      == <<frameVars, slotVars, upVars, calVars, overlap>>

Gas   == GasAbove \cup {-x : x \in GasBelow}
Slot  == 1 .. Hours
UpPc  == {"fetch", "pm", "co", "hour", "count", "shift", "last", "ended"}
CalPc == {"sleep", "test", "bounds", "weigh", "three", "done"}

NetworkAddr(b) == <<b, 0, 255, 255>>
NodeSet        == {Own} \cup Others
ZeroFrame      == ZeroMessage(12, 2)
------------------------------------------------------------------------------
(* Packets. *)

\* What a node transmits: its tx_msg, sprintf's text of its two numbers in it. The
\* counter is read anew from the flash for each. Bound: of the other nodes' numbers,
\* one pair is enough to be mistaken for Own's.
Sent == [node : {Own}, cnt : Cnt, dust : Dust, gas : Gas]
            \cup [node : Others, cnt : Cnt, dust : {Max(Dust)}, gas : {Max(Gas)}]
NodePacket == [f \in Sent |->
    OnAirBytes(SetUpDataMessage(ZeroFrame, NetworkAddr(f.node), f.cnt, <<f.dust, f.gas>>))]

\* Packets of other networks that the concentrator may deliver: cut to the first
\* byte, without a payload, with one, and with a length that is wrong.
ForeignPackets ==
    LET message(data) == SetUpDataMessage(ZeroFrame, <<Own, 0, 1, 1>>, 0, data)
        whole == OnAirBytes(message(<<7, 7>>))
    IN  {<<0>>, SubSeq(whole, 1, HeaderSize), whole, [whole EXCEPT ![9] = 9]}

\* The history of a packet that is not a node's.
NoNode == [node |-> -1]

\* LoRaSV_RxHandle of node b, whose counter is cnt, takes the packet for its
\* acknowledgement. (Its message is {0} before each packet.)
RxHandle(b, cnt, bytes) ==
    LET msg == Received(ZeroFrame, bytes)
        got == Parse(msg)
    IN  /\ ~ParseFails(msg)
        /\ got.DevAddr = NetworkAddr(b)
        /\ got.FCnt = cnt
        /\ got.FCtrl \div Ack = 1

\* parse_pkg, which names the two numbers in the opposite order of the node's sprintf.
PkgCo(msg)   == msg.FRMPayload[1]
PkgPm25(msg) == msg.FRMPayload[2]
------------------------------------------------------------------------------
(* thread_up. *)

Init ==
    /\ macMsgData = ZeroFrame /\ ackMsg = ZeroFrame /\ sent = NoNode
    /\ upPc = "fetch" /\ upI = 0
    /\ pm = 0 /\ co = 0 /\ win = [i \in Slot |-> 0] /\ n = 0 /\ past = <<>>
    /\ calPc = "sleep" /\ calI = 0 /\ aqiCO = 0 /\ aqi = 0
    /\ cmin = 0 /\ cmax = 0 /\ up = 0 /\ down = 0
    /\ overlap = "no"

\* A step of a store.
Touch == overlap' = IF calPc = "sleep" THEN overlap ELSE "yes"

\* Bound: thread_up waits a second for each packet, so no more than one store
\* touches a calculation.
MayReceive == upPc = "fetch" /\ overlap = "no"

\* A packet is parsed. One that is malformed ends the thread, one of another
\* network is left, one of a node is acknowledged to the address and the counter in
\* it.
UpReceive(bytes, what) ==
    /\ MayReceive
    /\ LET msg == Received(macMsgData, bytes)
           got == Parse(msg)
       IN  /\ macMsgData' = got /\ sent' = what
           /\ \/ ParseFails(msg) /\ upPc' = "ended" /\ UNCHANGED ackMsg
              \/ /\ ~ParseFails(msg)
                 /\ got.DevAddr[3] # 255 \/ got.DevAddr[4] # 255
                 /\ UNCHANGED <<upPc, ackMsg>>
              \/ /\ ~ParseFails(msg)
                 /\ got.DevAddr[3] = 255 /\ got.DevAddr[4] = 255
                 /\ ackMsg' = SetUpACKMessage(ackMsg, got.DevAddr, got.FCnt)
                 /\ upPc' = "pm"
    /\ UNCHANGED <<slotVars, upI, calVars, overlap>>

UpPacket ==
    \/ \E p \in ForeignPackets : UpReceive(p, NoNode)
    \/ \E f \in Sent : UpReceive(NodePacket[f], f)

\* store_new_data. Samples of another node go to a slot of their own.
UpPm ==
    /\ upPc = "pm"
    /\ IF macMsgData.DevAddr[1] = Own
       THEN pm' = PkgPm25(macMsgData) /\ upPc' = "co" /\ Touch
       ELSE upPc' = "fetch" /\ UNCHANGED <<pm, overlap>>
    /\ UNCHANGED <<frameVars, co, win, n, past, upI, calVars>>

\* Variation: the window is not seen to be full.
UpCoBeyond ==
    /\ upPc = "co"
    /\ co' = PkgCo(macMsgData)
    /\ upPc' = IF n > Hours THEN "shift" ELSE "hour"
    /\ upI' = 1
    /\ Touch
    /\ UNCHANGED <<frameVars, pm, win, n, past, calVars>>

UpCo ==
    /\ upPc = "co"
    /\ co' = PkgCo(macMsgData)
    /\ upPc' = IF n = Hours THEN "shift" ELSE "hour"
    /\ upI' = 1
    /\ Touch
    /\ UNCHANGED <<frameVars, pm, win, n, past, calVars>>

\* An hour is over; the window is not yet full.
UpHour ==
    /\ upPc = "hour"
    /\ win' = [win EXCEPT ![n + 1] = pm]
    /\ upPc' = "count"
    /\ Touch
    /\ UNCHANGED <<frameVars, pm, co, n, past, upI, calVars>>

\* What is past once the hour is over: the window's hours and one more.
NextPast == IF Len(past) > Hours THEN Append(Tail(past), pm) ELSE Append(past, pm)

UpCount ==
    /\ upPc = "count"
    /\ n' = n + 1
    /\ past' = NextPast
    /\ upPc' = "fetch"
    /\ Touch
    /\ UNCHANGED <<frameVars, pm, co, win, upI, calVars>>

\* Variation: the window is moved towards its end, first element first.
UpShiftUp ==
    /\ upPc = "shift"
    /\ win' = [win EXCEPT ![upI] = IF upI = 1 THEN pm ELSE win[upI - 1]]
    /\ upI' = upI + 1
    /\ upPc' = IF upI = Hours THEN "last" ELSE "shift"
    /\ Touch
    /\ UNCHANGED <<frameVars, pm, co, n, past, calVars>>

\* The window is full: it is moved by one hour. The last element takes what lies
\* past the array, and then the newest hour.
UpShift ==
    /\ upPc = "shift"
    /\ win' = [win EXCEPT ![upI] = IF upI = Hours THEN pm ELSE win[upI + 1]]
    /\ upI' = upI + 1
    /\ upPc' = IF upI = Hours THEN "last" ELSE "shift"
    /\ Touch
    /\ UNCHANGED <<frameVars, pm, co, n, past, calVars>>

UpLast ==
    /\ upPc = "last"
    /\ win' = [win EXCEPT ![Hours] = pm]
    /\ past' = NextPast
    /\ upPc' = "fetch"
    /\ Touch
    /\ UNCHANGED <<frameVars, pm, co, n, upI, calVars>>
------------------------------------------------------------------------------
(* cal_and_write_to_file. *)

\* The tables, one for each class. In the code a class is counted from 0.
I       == <<0, 50, 100, 150, 200, 300, 400, 500>>
BP_CO   == <<0, 10, 30, 45, 60, 90, 120, 150>>
BP_PM25 == <<0, 25, 50, 80, 150, 250, 350, 500>>

\* The classes whose lower end the quotient num / den is above; none if den is 0.
Classes(num, den, BP) == {j \in 1 .. 8 : num > BP[j] * den}

\* The straight line through a class, cut to an integer; the last class has none.
Line(num, den, BP, j) ==
    IF j = 8 THEN I[8]
    ELSE ((I[j + 1] - I[j]) * (num - BP[j] * den)) \div ((BP[j + 1] - BP[j]) * den) + I[j]

\* The possible results for num / den: anything if it is in no class, because the
\* variable that holds the class is then read unset.
Results(num, den, BP) ==
    LET above == Classes(num, den, BP)
    IN  IF above = {} THEN Junk ELSE {Line(num, den, BP, Max(above))}

\* cal_aqi
CalAqi(pm25, carbon) == IF carbon >= pm25 THEN carbon ELSE pm25

\* cal_aqi_co, for a node in the table.
CalCo ==
    /\ calPc = "sleep" /\ past # <<>>
    /\ aqiCO' \in Results(co, 1, BP_CO)
    /\ calPc' = "test"
    /\ overlap' = IF upPc \in {"fetch", "ended", "pm"} THEN "no" ELSE "yes"
    /\ UNCHANGED <<frameVars, slotVars, upVars, calI, sumVars, aqi>>

Done(pm25) == aqi' = CalAqi(pm25, aqiCO) /\ calPc' = "done" /\ calI' = 0

\* Variation: the index is computed before the window is full.
CalTestAny ==
    /\ calPc = "test"
    /\ cmin' = win[1] /\ cmax' = win[1] /\ up' = 0 /\ down' = 0
    /\ calPc' = "bounds" /\ calI' = 1
    /\ UNCHANGED <<frameVars, slotVars, upVars, aqiCO, aqi, overlap>>

\* cal_aqi_pm25: fewer than twelve hours have no index.
CalTest ==
    /\ calPc = "test"
    /\ \/ n # Hours /\ Done(-1) /\ UNCHANGED sumVars
       \/ /\ n = Hours
          /\ cmin' = win[1] /\ cmax' = win[1] /\ up' = 0 /\ down' = 0
          /\ calPc' = "bounds" /\ calI' = 1
          /\ UNCHANGED aqi
    /\ UNCHANGED <<frameVars, slotVars, upVars, aqiCO, overlap>>

CalBounds ==
    /\ calPc = "bounds"
    /\ cmax' = IF cmax < win[calI] THEN win[calI] ELSE cmax
    /\ cmin' = IF cmin > win[calI] THEN win[calI] ELSE cmin
    /\ calI' = IF calI = Hours THEN 1 ELSE calI + 1
    /\ calPc' = IF calI = Hours THEN "weigh" ELSE "bounds"
    /\ UNCHANGED <<frameVars, slotVars, upVars, aqiCO, up, down, aqi, overlap>>

\* lo / hi <= 0.5, for lo no more than hi: a quotient by 0 is -inf or, of 0, NaN.
Low(lo, hi) == \/ hi > 0 /\ 2 * lo <= hi
               \/ hi = 0 /\ lo < 0
Abs(x) == IF x < 0 THEN -x ELSE x

\* pow(b, k), of integers. (A function, so that it can be reasoned about.)
Power(b, k) ==
    LET power[j \in Nat] == IF j = 0 THEN 1 ELSE b * power[j - 1]
    IN  power[k]

\* Variation: the newest hour is read first in any case.
ElementNewest(low, i) == Hours + 1 - i

\* The i-th element read and its weight: 0.5^i, oldest hour first, or the power
\* i - 1 of lo / hi, newest hour first. Weights are multiplied by 2^Hours, or by
\* hi^(Hours - 1); lo and hi have the same sign then.
Element(low, i)        == IF low THEN i ELSE Hours + 1 - i
Weight(low, lo, hi, i) == IF low THEN Power(2, Hours - i)
                          ELSE Power(Abs(lo), i - 1) * Power(Abs(hi), Hours - i)

CalWeigh ==
    /\ calPc = "weigh"
    /\ LET low == Low(cmin, cmax)
           w   == Weight(low, cmin, cmax, calI)
       IN  /\ up' = up + w * win[Element(low, calI)]
           /\ down' = IF low THEN Power(2, Hours) ELSE down + w
    /\ calI' = IF calI = Hours THEN 1 ELSE calI + 1
    /\ calPc' = IF calI = Hours THEN "three" ELSE "weigh"
    /\ UNCHANGED <<frameVars, slotVars, upVars, aqiCO, cmin, cmax, aqi, overlap>>

\* The sum of three hours is one of them: two of them are zero, or cancel out.
Missing(w) == w[1] + w[2] + w[3] \in {w[1], w[2], w[3]}

CalThree ==
    /\ calPc = "three"
    /\ \/ Missing(win) /\ Done(-1)
       \/ ~Missing(win) /\ \E r \in Results(up, down, BP_PM25) : Done(r)
    /\ UNCHANGED <<frameVars, slotVars, upVars, aqiCO, sumVars, overlap>>

\* The record is written, see AqiFile, and the thread sleeps.
CalSleep ==
    /\ calPc = "done"
    /\ calPc' = "sleep" /\ overlap' = "no"
    /\ aqiCO' = 0 /\ aqi' = 0 /\ cmin' = 0 /\ cmax' = 0 /\ up' = 0 /\ down' = 0
    /\ UNCHANGED <<frameVars, slotVars, upVars, calI>>

Next ==
    \/ UpPacket \/ UpPm \/ UpCo \/ UpHour \/ UpCount \/ UpShift \/ UpLast
    \/ CalCo \/ CalTest \/ CalBounds \/ CalWeigh \/ CalThree \/ CalSleep

Spec == Init /\ [][Next]_vars
------------------------------------------------------------------------------
(* Properties. *)

\* TypeOK: every variable has values of its type. Of n it says that buff12hIndex
\* never passes the window, of pm and co that no other network's number is stored.
TypeOK ==
    /\ \A f \in {"DevAddr", "Buffer", "FRMPayload"} :
           Len(macMsgData[f]) = Len(ZeroFrame[f]) /\ Len(ackMsg[f]) = Len(ZeroFrame[f])
    /\ sent \in Sent \cup {NoNode}
    /\ upPc \in UpPc /\ upI \in 0 .. Hours + 1
    /\ pm \in Gas \cup {0} /\ co \in Dust \cup {0}
    /\ win \in [Slot -> Gas \cup {0}] /\ n \in 0 .. Hours
    /\ past \in Seq(Gas) /\ Len(past) <= Hours + 1
    /\ calPc \in CalPc /\ calI \in 0 .. Hours
    /\ aqiCO \in I[1] .. I[8] \cup Junk /\ aqi \in -1 .. I[8] \cup Junk
    /\ {cmin, cmax} \subseteq Gas \cup {0} /\ up \in Int /\ down \in Nat
    /\ overlap \in {"no", "yes"}

\* StoredIsSent: what thread_up is about to store is what a node of its network has
\* just sent, whatever packets macMsgData held before: the frame's own address,
\* counter and two numbers. Only a packet that ends before its DevAddr does passes for
\* one of a node: the address and the payload are then those of the packet before it.
StoredIsSent ==
    upPc = "pm" =>
        IF sent = NoNode
        THEN macMsgData.BufSize <= 4
        ELSE /\ macMsgData.DevAddr = NetworkAddr(sent.node)
             /\ macMsgData.FCnt = sent.cnt
             /\ {PkgCo(macMsgData), PkgPm25(macMsgData)} = {sent.dust, sent.gas}

\* SamplesKeepTheirKind: what a node measured as dust is stored as PM2.5 and its gas
\* as CO. main.c converts the dust sensor's voltage under "Convert PM2.5 value to ug",
\* and mgw_controller.c stores in a "PM 2.5 concentration struct" and a "CO
\* concentration struct".
SamplesKeepTheirKind ==
    upPc = "pm" /\ sent # NoNode =>
        PkgPm25(macMsgData) = sent.dust /\ PkgCo(macMsgData) = sent.gas

\* AckReachesSender: LoRaSV_RxHandle takes the acknowledgement the gateway composes
\* for a frame if, and only if, it runs on the node that sent it and the node's
\* counter is still that of the frame, although ack_msg serves for all of them.
AckReachesSender ==
    upPc = "pm" /\ sent # NoNode =>
        \A b \in NodeSet, c \in Cnt :
            RxHandle(b, c, OnAirBytes(ackMsg)) <=> b = sent.node /\ c = sent.cnt

\* The hours that should be in the window.
Recent == SubSeq(past, Len(past) - n + 1, Len(past))

\* WindowIsHistory: whenever store_new_data is not moving it, buff_12_h holds the
\* last hours, oldest first: though the move reads an element past the array and
\* cal_and_write_to_file may run at any point.
WindowIsHistory == upPc \notin {"shift", "last"} => SubSeq(win, 1, n) = Recent

\* NowcastBounded: cal_aqi_pm25 takes no lock. With hours that are not negative, its
\* weighted mean stays between the least (less the part 2^-Hours that the weights
\* lack of 1) and the greatest of them, even if the window is moved, and the newest
\* hour arrives, between its passes over the window.
NowcastBounded ==
    LET hours == Range(past) \cup {pm}
    IN  calPc = "three" /\ Min(hours) >= 0 =>
            /\ up <= Max(hours) * down
            /\ up * Power(2, Hours) >= (Power(2, Hours) - 1) * Min(hours) * down

\* The index r is the linear interpolation, cut to an integer, between the ends of
\* the class of the tables in which num / den lies.
Interpolates(r, num, den, BP) ==
    \/ num > BP[8] * den /\ r = I[8]
    \/ \E j \in 1 .. 7 :
          /\ BP[j] * den < num /\ num <= BP[j + 1] * den
          /\ LET rise == (I[j + 1] - I[j]) * (num - BP[j] * den)
                 unit == (BP[j + 1] - BP[j]) * den
             IN  (r - I[j]) * unit <= rise /\ rise < (r - I[j] + 1) * unit

\* The sum of f[i], i from 1 to Hours.
Sum(f) ==
    LET sum[i \in 0 .. Hours] == IF i = 0 THEN 0 ELSE sum[i - 1] + f[i]
    IN  sum[Hours]

\* The weighted mean of the hours h, oldest first, as a pair. The weights are a half,
\* a quarter and so on from the oldest hour, or the powers of lo / hi from the newest.
RefNowcast(h) ==
    LET lo == Min(Range(h))
        hi == Max(Range(h))
        w  == [i \in Slot |-> Power(Abs(lo), i - 1) * Power(Abs(hi), Hours - i)]
    IN  IF Low(lo, hi)
        THEN <<Sum([i \in Slot |-> Power(2, Hours - i) * h[i]]), Power(2, Hours)>>
        ELSE <<Sum([i \in Slot |-> w[i] * h[Hours + 1 - i]]), Sum(w)>>

\* Two of the three oldest hours are zero.
TwoZero(h) == \E i, j \in 1 .. 3 : i # j /\ h[i] = 0 /\ h[j] = 0
\* The sum of two of them is zero though they are not.
Cancel(h)  == \E i, j \in 1 .. 3 : i # j /\ h[i] = -h[j] /\ h[i] # 0

\* AqiOfHistory: the index that cal_and_write_to_file writes, if no store has touched
\* the calculation, is that of the last CO value or that of the weighted mean of the
\* last hours, the greater of the two; of CO alone before the window is full and if
\* two of the three oldest hours are zero, as the comment at cal_aqi_pm25's test says.
\* It says nothing of a CO value or a mean that is not above 0: cal_aqi_co and
\* cal_aqi_pm25 then read an unset variable; nor of hours of which two cancel out, as
\* 40 and -40 do: the test sums them up, and takes them for zero.
AqiOfHistory ==
    calPc = "done" /\ overlap = "no" /\ co > 0 =>
        /\ Interpolates(aqiCO, co, 1, BP_CO)
        /\ IF Len(Recent) < Hours \/ TwoZero(Recent) THEN aqi = aqiCO
           ELSE LET mean == RefNowcast(Recent)
                IN  mean[1] > 0 /\ ~Cancel(Recent) =>
                       \/ aqi = aqiCO
                          /\ \E r \in 0 .. aqi : Interpolates(r, mean[1], mean[2], BP_PM25)
                       \/ aqi > aqiCO /\ Interpolates(aqi, mean[1], mean[2], BP_PM25)
===============================================================================
