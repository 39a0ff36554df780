-------------------------- MODULE ClientServer_proofs --------------------------
(***************************************************************************)
(* Proofs about ClientServer, for every set of addresses, every length of  *)
(* the list and every number of versions, starts and waiting connections.  *)
(***************************************************************************)
EXTENDS ClientServer, SequenceTheorems, TLAPS

\* A list, or what is left of it: lines in the order they are sent in.
Rising(s) == \A i, j \in 1 .. Len(s) : i < j => Before(s[i], s[j])

ClientOK ==
    /\ cUp \in {"yes", "no"} /\ skew \in {"yes", "no"}
    /\ ip \in Addr /\ status \in {"OK", "FAILED"} /\ flag \in {"first", "nth"}
    /\ sPc \in {"connect", "fail", "send"} /\ sSock \in {"new", "used"}
    /\ rPc \in {"start", "accept", "recv"} /\ (rPc = "recv" => inbox # <<>>)
ServerOK ==
    /\ sUp \in {"yes", "no"} /\ rflag \in {"yes", "no"} /\ event \in {"yes", "no"}
    /\ buf \in Addr \cup {NoAddr, Garbled} /\ uAddr \in Addr \cup {NoAddr, Garbled}
    /\ aPc \in {"read", "ack"} /\ uPc \in {"wait", "idle", "send", "pause"}
    /\ version \in 1 .. MaxVersion /\ sending \in (1 .. MaxVersion) \X (0 .. Lines)
    /\ sending[1] <= version
StartsOK ==
    /\ starts \in [client : 0 .. MaxStart, server : 0 .. MaxStart]
    /\ cUp = "no" => starts.client < MaxStart
    /\ sUp = "no" => starts.server < MaxStart
QueueOK == ipQ \in Seq(IpConn) /\ Len(ipQ) <= MaxQueue

\* Only sock_send_file_user leaves a connection of a list open, and one at a time.
InboxOK ==
    /\ inbox \in Seq(Inbound) /\ Len(inbox) <= MaxQueue
    /\ \A i, j \in UserConn : i = j
    /\ uPc # "send" => UserConn = {}

\* What is known of the client's address on its way from connection to connection.
KnownOK ==
    /\ seen \subseteq Addr
    /\ buf \in Addr => buf \in seen
    /\ uAddr \in Addr => uAddr \in seen
    /\ inbox # <<>> => ip \in seen
    /\ status = "OK" => ip \in seen
    /\ cUp = "no" => status = "FAILED" /\ inbox = <<>>

\* Line x was sent when the server was at s.
SentBefore(x, s) == x[1] <= s[1] /\ x[2] <= s[2] /\ (OneBuffer(x, s) => x[1] = s[1])

\* What waits in connection i: an address, or lines in their order.
ConnOK(i) ==
    /\ inbox[i].kind = "ack" => inbox[i].cells = <<>> \/ \E a \in Addr : inbox[i].cells = <<a>>
    /\ inbox[i].kind = "user" => inbox[i].cells \in Seq(Line) /\ Rising(inbox[i].cells)
    /\ i \in UserConn =>
           \A j \in 1 .. Len(inbox[i].cells) :
               SentBefore(inbox[i].cells[j], sending)

\* What was printed comes before what waits in the connection it came from.
PrintedOK ==
    rPc = "recv" =>
        /\ inbox[1].kind = "ack" =>
               \/ text = <<>>
               \/ inbox[1].cells = <<>> /\ \E a \in Addr : text = <<a>>
        /\ inbox[1].kind = "user" =>
               /\ text \in Seq(Line) /\ Rising(text)
               /\ \A i \in 1 .. Len(text), j \in 1 .. Len(inbox[1].cells) :
                      Before(text[i], inbox[1].cells[j])
        /\ 1 \in UserConn =>
               \A i \in 1 .. Len(text) : SentBefore(text[i], sending)

ListOK ==
    /\ text \in Seq(Line \cup Addr) /\ file \in Seq(Line \cup Addr)
    /\ \A i \in 1 .. Len(inbox) : ConnOK(i)
    /\ PrintedOK
    /\ FileInOrder

ServiceInv ==
    /\ ClientOK /\ ServerOK /\ StartsOK /\ QueueOK /\ InboxOK
    /\ KnownOK /\ ListOK

LEMMA InvType == ServiceInv => TypeOK /\ KnownWhenOk /\ FileInOrder
BY DEF ServiceInv, ClientOK, ServerOK, StartsOK, QueueOK, InboxOK, KnownOK, ListOK, TypeOK,
       KnownWhenOk

LEMMA Constants ==
    /\ MaxQueue \in Nat \ {0} /\ MaxStart \in Nat \ {0} /\ Lines \in Nat \ {0}
    /\ MaxVersion \in Nat \ {0} /\ NoAddr \notin Addr /\ Garbled \notin Addr
BY ClientServerAssumption

LEMMA InvInit == Init => ServiceInv
<1> SUFFICES ASSUME Init PROVE ServiceInv
    OBVIOUS
<1>1. ClientOK
    BY DEF Init, ClientOK
<1>2. ServerOK
    BY Constants DEF Init, ServerOK
<1>3. StartsOK
    BY Constants DEF Init, StartsOK
<1>4. QueueOK
    BY Constants DEF Init, QueueOK
<1>5. InboxOK
    BY Constants DEF Init, InboxOK, UserConn
<1>6. KnownOK
    BY Constants DEF Init, KnownOK
<1>7. ListOK
    BY DEF Init, ListOK, PrintedOK, FileInOrder
<1> QED
    BY <1>1, <1>2, <1>3, <1>4, <1>5, <1>6, <1>7 DEF ServiceInv
------------------------------------------------------------------------------
(* The scalars and the queue of port PORT_IP. *)

LEMMA StartsNext == StartsOK /\ [Next]_vars => StartsOK'
<1> SUFFICES ASSUME StartsOK, [Next]_vars PROVE StartsOK'
    OBVIOUS
<1>1. CASE UNCHANGED <<cUp, sUp, starts>>
    BY <1>1 DEF StartsOK
<1>2. CASE ClientEnd \/ ServerEnd
    BY <1>2 DEF ClientEnd, ServerEnd, StartsOK, clientVars, serverVars
<1>3. CASE ClientStart \/ ServerStart
    BY <1>3, Constants DEF ClientStart, ServerStart, StartsOK, clientVars, serverVars
<1> QED
    BY <1>1, <1>2, <1>3 DEF Next, SendIp, ReceiveLink, ReceiveIp, SendFileUser, Outside, Connect, ConnectFails,
       Fail, Send, Listen, Accept, RecvAck, RecvAckMissed, RecvLine, RecvEnd, ReadIp, SendAck, Watch,
       ReadEvent, SendLine, Close, Resume, UpdateList, vars, clientVars, serverVars

LEMMA QueueNext == QueueOK /\ ClientOK /\ [Next]_vars => QueueOK'
<1> SUFFICES ASSUME QueueOK, ClientOK, [Next]_vars PROVE QueueOK'
    OBVIOUS
<1>0. ipQ \in Seq(IpConn) /\ Len(ipQ) \in Nat /\ Len(ipQ) <= MaxQueue /\ MaxQueue \in Nat /\ ip \in Addr
    BY Constants DEF QueueOK, ClientOK
<1>1. CASE UNCHANGED ipQ
    BY <1>1 DEF QueueOK
<1>2. CASE Connect
    <2>1. [data |-> NoAddr, open |-> "yes"] \in IpConn
        BY DEF IpConn
    <2>2. ipQ' = Append(ipQ, [data |-> NoAddr, open |-> "yes"]) /\ Len(ipQ) < MaxQueue
        BY <1>2 DEF Connect
    <2> QED
        BY <1>0, <2>1, <2>2 DEF QueueOK
<1>3. CASE Send
    <2>1. CASE ipQ = <<>>
        BY <1>3, <2>1, <1>0 DEF Send, QueueOK
    <2>2. CASE ipQ # <<>>
        <3>1. Len(ipQ) \in 1 .. Len(ipQ)
            BY <2>2, <1>0, EmptySeq
        <3>2. ipQ[Len(ipQ)] \in IpConn
            BY <3>1, <1>0, ElementOfSeq
        <3>3. [ipQ[Len(ipQ)] EXCEPT !.data = ip] \in IpConn
            BY <3>2, <1>0 DEF IpConn
        <3>4. ipQ' = [ipQ EXCEPT ![Len(ipQ)] = [ipQ[Len(ipQ)] EXCEPT !.data = ip]]
            BY <1>3, <2>2 DEF Send
        <3>5. ipQ' \in Seq(IpConn) /\ Len(ipQ') = Len(ipQ)
            BY <1>0, <3>1, <3>3, <3>4, ExceptSeq
        <3> QED
            BY <1>0, <3>5 DEF QueueOK
    <2> QED
        BY <2>1, <2>2
<1>4. CASE ReadIp
    <2>1. ipQ' = Tail(ipQ) /\ ipQ # <<>>
        BY <1>4 DEF ReadIp
    <2> QED
        BY <1>0, <2>1, HeadTailProperties DEF QueueOK
<1>5. CASE ClientEnd
    <2>1. \A i \in 1 .. Len(ipQ) : [ipQ[i] EXCEPT !.open = "no"] \in IpConn
        <3> TAKE i \in 1 .. Len(ipQ)
        <3>1. ipQ[i] \in IpConn
            BY <1>0, ElementOfSeq
        <3> QED
            BY <3>1 DEF IpConn
    <2>2. ipQ' = [i \in 1 .. Len(ipQ) |-> [ipQ[i] EXCEPT !.open = "no"]]
        BY <1>5 DEF ClientEnd
    <2>3. ipQ' \in Seq(IpConn) /\ Len(ipQ') = Len(ipQ)
        BY <1>0, <2>1, <2>2, IsASeq
    <2> QED
        BY <1>0, <2>3 DEF QueueOK
<1>6. CASE ServerEnd
    BY <1>6, <1>0 DEF ServerEnd, QueueOK
<1> QED
    BY <1>1, <1>2, <1>3, <1>4, <1>5, <1>6 DEF Next, SendIp, ReceiveLink, ReceiveIp, SendFileUser, Outside,
       ConnectFails, Fail, Listen, Accept, RecvAck, RecvAckMissed, RecvLine, RecvEnd, SendAck, Watch,
       ReadEvent, SendLine, Close, Resume, UpdateList, ClientStart, ServerStart, vars, clientVars, serverVars
LEMMA ServerNext == ServerOK /\ QueueOK /\ [Next]_vars => ServerOK'
<1> SUFFICES ASSUME ServerOK, QueueOK, [Next]_vars PROVE ServerOK'
    OBVIOUS
<1>1. CASE UNCHANGED <<serverVars, version>>
    BY <1>1 DEF serverVars, ServerOK
<1>2. CASE ReadIp
    <2>1. ipQ # <<>> => ipQ[1] \in IpConn
        BY EmptySeq, ElementOfSeq DEF QueueOK
    <2>2. ASSUME ipQ # <<>>, ipQ[1].data # NoAddr PROVE Overlay(ipQ[1].data) \in Addr \cup {Garbled}
        BY <2>1, <2>2 DEF IpConn, Overlay
    <2> QED
        BY <1>2, <2>2 DEF ReadIp, ServerOK
<1>3. CASE SendAck
    BY <1>3 DEF SendAck, ServerOK
<1>4. CASE Watch \/ Resume \/ Close
    BY <1>4 DEF Watch, Resume, Close, ServerOK
<1>5. CASE ReadEvent
    BY <1>5, Constants DEF ReadEvent, ServerOK
<1>6. CASE SendLine
    <2>1. sending[1] \in 1 .. MaxVersion /\ sending[2] \in 0 .. Lines /\ sending[2] < Lines
        BY <1>6 DEF SendLine, ServerOK
    <2>2. sending' \in (1 .. MaxVersion) \X (0 .. Lines) /\ sending'[1] <= version
        BY <1>6, <2>1, Constants DEF SendLine, NextLine, ServerOK
    <2> QED
        BY <1>6, <2>2 DEF SendLine, ServerOK
<1>7. CASE UpdateList
    BY <1>7, Constants DEF UpdateList, ServerOK
<1>8. CASE ServerEnd
    BY <1>8, Constants DEF ServerEnd, ServerOK
<1>9. CASE ServerStart
    BY <1>9 DEF ServerStart, ServerOK
<1> QED
    BY <1>1, <1>2, <1>3, <1>4, <1>5, <1>6, <1>7, <1>8, <1>9 DEF Next, SendIp, ReceiveLink, ReceiveIp,
       SendFileUser, Outside, Connect, ConnectFails, Fail, Send, Listen, Accept, RecvAck, RecvAckMissed,
       RecvLine, RecvEnd, ClientEnd, ClientStart, vars
------------------------------------------------------------------------------
(* What happens to the connections of port 7001. *)

LEMMA InboundAt ==
    ASSUME InboxOK, NEW i \in 1 .. Len(inbox)
    PROVE  /\ inbox[i] \in Inbound /\ inbox[i].cells \in Seq(Line \cup Addr)
           /\ inbox[i].kind \in {"ack", "user"} /\ inbox[i].open \in {"yes", "no"}
           /\ Len(inbox[i].cells) \in Nat
<1>1. inbox[i] \in Inbound
    BY ElementOfSeq DEF InboxOK
<1> QED
    BY <1>1 DEF Inbound

LEMMA FirstInbound == ASSUME InboxOK, inbox # <<>> PROVE 1 \in 1 .. Len(inbox)
BY EmptySeq DEF InboxOK

LEMMA PopShape ==
    ASSUME InboxOK, inbox # <<>>, inbox' = Tail(inbox), uPc' = uPc
    PROVE  /\ InboxOK'
           /\ \A i \in 1 .. Len(inbox') : i + 1 \in 1 .. Len(inbox) /\ inbox'[i] = inbox[i + 1]
           /\ \A i \in UserConn' : i + 1 \in UserConn
<1>1. /\ inbox' \in Seq(Inbound) /\ Len(inbox') = Len(inbox) - 1
      /\ \A i \in 1 .. Len(inbox') : inbox'[i] = inbox[i + 1]
    BY HeadTailProperties DEF InboxOK
<1>2. \A i \in 1 .. Len(inbox') : i + 1 \in 1 .. Len(inbox)
    BY <1>1 DEF InboxOK
<1>3. \A i \in UserConn' : i + 1 \in UserConn /\ i \in Nat
    BY <1>1, <1>2 DEF UserConn
<1>4. \A i, j \in UserConn' : i = j
    BY <1>3 DEF InboxOK
<1>5. InboxOK'
    BY <1>1, <1>3, <1>4, Constants DEF InboxOK
<1> QED
    BY <1>1, <1>2, <1>3, <1>5

LEMMA PushShape ==
    ASSUME InboxOK, Len(inbox) < MaxQueue, NEW c \in Inbound, inbox' = Append(inbox, c)
    PROVE  /\ inbox' \in Seq(Inbound) /\ Len(inbox') = Len(inbox) + 1 /\ Len(inbox') <= MaxQueue
           /\ \A i \in 1 .. Len(inbox) : inbox'[i] = inbox[i]
           /\ inbox'[Len(inbox) + 1] = c
           /\ UserConn' = UserConn \cup (IF c.kind = "user" /\ c.open = "yes" THEN {Len(inbox) + 1} ELSE {})
<1>1. /\ inbox' \in Seq(Inbound) /\ Len(inbox') = Len(inbox) + 1
      /\ \A i \in 1 .. Len(inbox) : inbox'[i] = inbox[i]
      /\ inbox'[Len(inbox) + 1] = c
    BY AppendProperties DEF InboxOK
<1>2. Len(inbox) \in Nat /\ 1 .. Len(inbox') = (1 .. Len(inbox)) \cup {Len(inbox) + 1}
    BY <1>1 DEF InboxOK
<1>3. UserConn' = {i \in 1 .. Len(inbox') : inbox'[i].kind = "user" /\ inbox'[i].open = "yes"}
    BY DEF UserConn
<1>4. UserConn' = UserConn \cup (IF c.kind = "user" /\ c.open = "yes" THEN {Len(inbox) + 1} ELSE {})
    BY <1>1, <1>2, <1>3 DEF UserConn
<1>5. Len(inbox') <= MaxQueue
    BY <1>1, <1>2, Constants
<1> QED
    BY <1>1, <1>4, <1>5

LEMMA TakeShape ==
    ASSUME InboxOK, inbox # <<>>, inbox[1].cells # <<>>, TakeCell, uPc' = uPc
    PROVE  /\ InboxOK' /\ Len(inbox') = Len(inbox) /\ UserConn' = UserConn
           /\ inbox'[1].kind = inbox[1].kind
           /\ inbox'[1].cells = Tail(inbox[1].cells)
           /\ \A i \in 1 .. Len(inbox) : i # 1 => inbox'[i] = inbox[i]
<1> DEFINE c == [inbox[1] EXCEPT !.cells = Tail(inbox[1].cells)]
<1>1. 1 \in 1 .. Len(inbox) /\ inbox \in Seq(Inbound)
    BY FirstInbound DEF InboxOK
<1>2. inbox[1] \in Inbound /\ inbox[1].cells \in Seq(Line \cup Addr)
    BY <1>1, InboundAt
<1>3. Tail(inbox[1].cells) \in Seq(Line \cup Addr)
    BY <1>2, HeadTailProperties
<1>4. /\ c \in Inbound /\ c.kind = inbox[1].kind /\ c.open = inbox[1].open
      /\ c.cells = Tail(inbox[1].cells)
    BY <1>2, <1>3 DEF Inbound
<1>5. inbox' = [inbox EXCEPT ![1] = c]
    BY DEF TakeCell
<1> HIDE DEF c
<1>6. /\ inbox' \in Seq(Inbound) /\ Len(inbox') = Len(inbox) /\ inbox'[1] = c
      /\ \A i \in 1 .. Len(inbox) : i # 1 => inbox'[i] = inbox[i]
    BY <1>1, <1>4, <1>5, ExceptSeq
<1>7. UserConn' = UserConn
    <2>1. \A i \in 1 .. Len(inbox) : inbox'[i].kind = inbox[i].kind /\ inbox'[i].open = inbox[i].open
        BY <1>4, <1>6
    <2> QED
        BY <2>1, <1>6 DEF UserConn
<1>8. InboxOK'
    BY <1>6, <1>7 DEF InboxOK
<1> QED
    BY <1>4, <1>6, <1>7, <1>8

LEMMA LineShape ==
    ASSUME InboxOK, ServerOK, SendLine
    PROVE  /\ InboxOK' /\ Len(inbox') = Len(inbox) /\ UserConn' = UserConn
           /\ sending' \in Line
           /\ \A i \in 1 .. Len(inbox) : i \notin UserConn => inbox'[i] = inbox[i]
           /\ \A i \in UserConn : /\ inbox'[i].kind = "user"
                                  /\ inbox'[i].cells = Append(inbox[i].cells, sending')
<1>1. sending' \in Line
    <2>1. sending[1] \in 1 .. MaxVersion /\ sending[2] \in 0 .. Lines /\ sending[2] < Lines
        BY DEF SendLine, ServerOK
    <2>2. sending[2] + 1 \in 1 .. Lines
        BY <2>1, Constants
    <2> QED
        BY <2>1, <2>2 DEF SendLine, NextLine, Line, ServerOK
<1> DEFINE c(i) == IF i \notin UserConn THEN inbox[i]
                   ELSE [inbox[i] EXCEPT !.cells = Append(inbox[i].cells, sending')]
<1>2. \A i \in 1 .. Len(inbox) :
          /\ c(i) \in Inbound /\ c(i).kind = inbox[i].kind /\ c(i).open = inbox[i].open
          /\ i \in UserConn => c(i).cells = Append(inbox[i].cells, sending')
    <2> TAKE i \in 1 .. Len(inbox)
    <2>1. inbox[i] \in Inbound /\ inbox[i].cells \in Seq(Line \cup Addr)
        BY InboundAt
    <2>2. Append(inbox[i].cells, sending') \in Seq(Line \cup Addr)
        BY <2>1, <1>1
    <2> QED
        BY <2>1, <2>2 DEF Inbound
<1>3. inbox' = [i \in 1 .. Len(inbox) |-> c(i)]
    BY DEF SendLine
<1>4. \A i \in 1 .. Len(inbox) : i \notin UserConn => c(i) = inbox[i]
    OBVIOUS
<1> HIDE DEF c
<1>5. inbox' \in Seq(Inbound) /\ Len(inbox') = Len(inbox) /\ \A i \in 1 .. Len(inbox) : inbox'[i] = c(i)
    BY <1>2, <1>3, IsASeq DEF InboxOK
<1>6. UserConn' = UserConn
    BY <1>2, <1>5 DEF UserConn
<1>7. InboxOK'
    BY <1>5, <1>6 DEF InboxOK, SendLine
<1> QED
    BY <1>1, <1>2, <1>4, <1>5, <1>6, <1>7 DEF UserConn

\* Connections of lists are closed; all others as well, or none of them.
LEMMA CloseShape ==
    ASSUME InboxOK, Close \/ ServerEnd
    PROVE  /\ InboxOK' /\ Len(inbox') = Len(inbox) /\ UserConn' = {}
           /\ \A i \in 1 .. Len(inbox) : inbox'[i].kind = inbox[i].kind /\ inbox'[i].cells = inbox[i].cells
<1> DEFINE c(i) == IF Close /\ i \notin UserConn THEN inbox[i] ELSE [inbox[i] EXCEPT !.open = "no"]
<1>1. \A i \in 1 .. Len(inbox) :
          /\ c(i) \in Inbound /\ c(i).kind = inbox[i].kind /\ c(i).cells = inbox[i].cells
          /\ i \in UserConn => c(i).open = "no"
          /\ i \notin UserConn => ~(c(i).kind = "user" /\ c(i).open = "yes")
    <2> TAKE i \in 1 .. Len(inbox)
    <2>1. inbox[i] \in Inbound
        BY InboundAt
    <2> QED
        BY <2>1 DEF Inbound, UserConn
<1>2. inbox' = [i \in 1 .. Len(inbox) |-> c(i)]
    <2>1. CASE Close
        BY <2>1 DEF Close
    <2>2. CASE ~Close
        BY <2>2 DEF ServerEnd
    <2> QED
        BY <2>1, <2>2
<1> HIDE DEF c
<1>3. inbox' \in Seq(Inbound) /\ Len(inbox') = Len(inbox) /\ \A i \in 1 .. Len(inbox) : inbox'[i] = c(i)
    BY <1>1, <1>2, IsASeq DEF InboxOK
<1>4. UserConn' = {}
    BY <1>1, <1>3 DEF UserConn
<1>5. InboxOK'
    BY <1>3, <1>4 DEF InboxOK
<1> QED
    BY <1>1, <1>3, <1>4, <1>5
\* A step of the acknowledgement, or the beginning of a list, to the client's present address.
LEMMA AckShape ==
    ASSUME InboxOK, ClientOK, SendAck, Reaches(buf)
    PROVE  /\ InboxOK' /\ Len(inbox') = Len(inbox) + 1 /\ UserConn' = UserConn /\ buf = ip
           /\ \A i \in 1 .. Len(inbox) : inbox'[i] = inbox[i]
           /\ inbox'[Len(inbox) + 1].kind = "ack" /\ inbox'[Len(inbox) + 1].cells = <<ip>>
<1> DEFINE c == [kind |-> "ack", cells |-> <<buf>>, open |-> "yes"]
<1>1. buf = ip /\ Len(inbox) < MaxQueue
    BY DEF Reaches
<1>2. <<buf>> \in Seq(Line \cup Addr)
    BY <1>1 DEF ClientOK
<1>3. c \in Inbound /\ c.kind = "ack" /\ c.cells = <<ip>>
    BY <1>1, <1>2 DEF Inbound
<1>4. inbox' = Append(inbox, c) /\ uPc' = uPc
    BY DEF SendAck
<1> HIDE DEF c
<1>5. /\ inbox' \in Seq(Inbound) /\ Len(inbox') = Len(inbox) + 1 /\ Len(inbox') <= MaxQueue
      /\ \A i \in 1 .. Len(inbox) : inbox'[i] = inbox[i]
      /\ inbox'[Len(inbox) + 1] = c /\ UserConn' = UserConn
    BY <1>1, <1>3, <1>4, PushShape
<1>6. InboxOK'
    BY <1>4, <1>5 DEF InboxOK
<1> QED
    BY <1>1, <1>3, <1>5, <1>6

LEMMA EventShape ==
    ASSUME InboxOK, ReadEvent, Reaches(uAddr)
    PROVE  /\ InboxOK' /\ Len(inbox') = Len(inbox) + 1 /\ UserConn' = {Len(inbox) + 1} /\ uAddr = ip
           /\ \A i \in 1 .. Len(inbox) : inbox'[i] = inbox[i]
           /\ inbox'[Len(inbox) + 1].kind = "user" /\ inbox'[Len(inbox) + 1].cells = <<>>
<1> DEFINE c == [kind |-> "user", cells |-> <<>>, open |-> "yes"]
<1>1. uAddr = ip /\ Len(inbox) < MaxQueue /\ UserConn = {}
    BY DEF Reaches, ReadEvent, InboxOK
<1>2. c \in Inbound /\ c.kind = "user" /\ c.open = "yes" /\ c.cells = <<>>
    BY DEF Inbound
<1>3. inbox' = Append(inbox, c) /\ uPc' = "send"
    BY DEF ReadEvent
<1> HIDE DEF c
<1>4. /\ inbox' \in Seq(Inbound) /\ Len(inbox') = Len(inbox) + 1 /\ Len(inbox') <= MaxQueue
      /\ \A i \in 1 .. Len(inbox) : inbox'[i] = inbox[i]
      /\ inbox'[Len(inbox) + 1] = c /\ UserConn' = UserConn \cup {Len(inbox) + 1}
    BY <1>1, <1>2, <1>3, PushShape
<1>5. InboxOK'
    BY <1>1, <1>3, <1>4 DEF InboxOK
<1> QED
    BY <1>1, <1>2, <1>4, <1>5

LEMMA InboxNext == ServiceInv /\ [Next]_vars => InboxOK'
<1> SUFFICES ASSUME ServiceInv, [Next]_vars PROVE InboxOK'
    OBVIOUS
<1>0. InboxOK /\ ClientOK /\ ServerOK
    BY DEF ServiceInv
<1>1. CASE UNCHANGED <<inbox, uPc>>
    BY <1>0, <1>1 DEF InboxOK, UserConn
<1>2. CASE RecvAck \/ RecvEnd
    BY <1>0, <1>2, PopShape DEF RecvAck, RecvEnd, serverVars, ClientOK
<1>3. CASE RecvAckMissed \/ RecvLine
    BY <1>0, <1>3, TakeShape DEF RecvAckMissed, RecvLine, serverVars, ClientOK
<1>4. CASE SendAck
    <2>1. CASE Reaches(buf)
        BY <1>0, <1>4, <2>1, AckShape
    <2>2. CASE ~Reaches(buf)
        BY <1>1, <1>4, <2>2 DEF SendAck
    <2> QED
        BY <2>1, <2>2
<1>5. CASE ReadEvent
    <2>1. CASE Reaches(uAddr)
        BY <1>0, <1>5, <2>1, EventShape
    <2>2. CASE ~Reaches(uAddr)
        BY <1>1, <1>5, <2>2 DEF ReadEvent
    <2> QED
        BY <2>1, <2>2
<1>6. CASE SendLine
    BY <1>0, <1>6, LineShape
<1>7. CASE Close \/ ServerEnd
    BY <1>0, <1>7, CloseShape
<1>8. CASE ClientEnd
    BY <1>8, Constants DEF ClientEnd, InboxOK, UserConn
<1>9. CASE Watch \/ Resume
    BY <1>0, <1>9 DEF Watch, Resume, InboxOK, UserConn
<1> QED
    BY <1>1, <1>2, <1>3, <1>4, <1>5, <1>6, <1>7, <1>8, <1>9 DEF Next, SendIp, ReceiveLink, ReceiveIp,
       SendFileUser, Outside, Connect, ConnectFails, Fail, Send, Listen, Accept, ReadIp, UpdateList,
       ClientStart, ServerStart, vars, serverVars

LEMMA ClientNext == ServiceInv /\ [Next]_vars => ClientOK'
<1> SUFFICES ASSUME ServiceInv, [Next]_vars PROVE ClientOK'
    OBVIOUS
<1>0. ClientOK /\ InboxOK /\ ServerOK
    BY DEF ServiceInv
<1>1. CASE UNCHANGED <<clientVars, inbox>>
    BY <1>0, <1>1 DEF clientVars, ClientOK
<1>2. CASE SendIp \/ Listen \/ Accept \/ RecvAck \/ RecvEnd
    BY <1>0, <1>2 DEF SendIp, Connect, ConnectFails, Fail, Send, Listen, Accept, RecvAck, RecvEnd, ClientOK,
       vars, clientVars
<1>3. CASE RecvAckMissed \/ RecvLine
    <2>1. inbox # <<>> /\ Len(inbox') = Len(inbox) /\ InboxOK'
        BY <1>0, <1>3, TakeShape DEF RecvAckMissed, RecvLine, serverVars, ClientOK
    <2>2. inbox' # <<>>
        BY <1>0, <2>1, EmptySeq DEF InboxOK
    <2> QED
        BY <1>0, <1>3, <2>2 DEF RecvAckMissed, RecvLine, ClientOK
<1>4. ASSUME InboxOK', Len(inbox') \in {Len(inbox), Len(inbox) + 1}, UNCHANGED clientVars PROVE ClientOK'
    <2>1. ASSUME inbox # <<>> PROVE inbox' # <<>>
        <3>1. Len(inbox) > 0
            BY <1>0, <2>1, EmptySeq DEF InboxOK
        <3> QED
            BY <1>0, <1>4, <3>1 DEF InboxOK
    <2> QED
        BY <1>0, <1>4, <2>1 DEF clientVars, ClientOK
<1>5. CASE SendAck \/ ReadEvent \/ SendLine \/ Close \/ ServerEnd
    <2>1. UNCHANGED clientVars /\ InboxOK'
        BY <1>5, InboxNext DEF SendAck, ReadEvent, SendLine, Close, ServerEnd
    <2>2. Len(inbox') \in {Len(inbox), Len(inbox) + 1}
        BY <1>0, <1>5, AckShape, EventShape, LineShape, CloseShape DEF SendAck, ReadEvent
    <2> QED
        BY <1>4, <2>1, <2>2
<1>6. CASE ClientEnd \/ ClientStart
    BY <1>0, <1>6 DEF ClientEnd, ClientStart, ClientOK
<1> QED
    BY <1>1, <1>2, <1>3, <1>5, <1>6 DEF Next, ReceiveLink, ReceiveIp, SendFileUser, Outside, ReadIp,
       Watch, Resume, UpdateList, ServerStart, vars

LEMMA KnownNext == ServiceInv /\ [Next]_vars => KnownOK'
<1> SUFFICES ASSUME ServiceInv, [Next]_vars PROVE KnownOK'
    OBVIOUS
<1>0. ClientOK /\ InboxOK /\ ServerOK /\ KnownOK /\ QueueOK
    BY DEF ServiceInv
<1>1. CASE UNCHANGED <<cUp, ip, status, buf, uAddr, inbox, seen>>
    BY <1>0, <1>1 DEF KnownOK
<1>2. CASE Fail
    BY <1>0, <1>2 DEF Fail, serverVars, KnownOK
<1>3. CASE Accept \/ RecvAck \/ RecvEnd \/ RecvAckMissed \/ RecvLine
    BY <1>0, <1>3 DEF Accept, RecvAck, RecvEnd, RecvAckMissed, RecvLine, serverVars, KnownOK, ClientOK
<1>4. CASE ReadIp
    <2>1. ipQ # <<>> => ipQ[1] \in IpConn
        BY <1>0, EmptySeq, ElementOfSeq DEF QueueOK
    <2>2. CASE UNCHANGED <<buf, seen>>
        BY <1>0, <1>4, <2>2 DEF ReadIp, clientVars, KnownOK
    <2>3. CASE /\ ipQ # <<>> /\ ipQ[1].data # NoAddr
               /\ buf' = Overlay(ipQ[1].data) /\ seen' = seen \cup {ipQ[1].data}
        <3>1. ipQ[1].data \in Addr
            BY <2>1, <2>3 DEF IpConn
        <3>2. buf' \in Addr => buf' = ipQ[1].data
            BY <2>3, Constants DEF Overlay
        <3>3. UNCHANGED <<cUp, ip, status, uAddr, inbox>>
            BY <1>4 DEF ReadIp, clientVars
        <3> QED
            BY <1>0, <2>3, <3>1, <3>2, <3>3 DEF KnownOK
    <2> QED
        BY <1>4, <2>2, <2>3 DEF ReadIp
<1>5. CASE SendAck
    <2>1. CASE Reaches(buf)
        BY <1>0, <1>5, <2>1 DEF SendAck, clientVars, KnownOK, Reaches, ClientOK
    <2>2. CASE ~Reaches(buf)
        BY <1>1, <1>5, <2>2 DEF SendAck, clientVars
    <2> QED
        BY <2>1, <2>2
<1>6. CASE ReadEvent
    <2>1. CASE Reaches(uAddr)
        BY <1>0, <1>6, <2>1 DEF ReadEvent, clientVars, KnownOK, Reaches, ClientOK
    <2>2. CASE ~Reaches(uAddr)
        BY <1>1, <1>6, <2>2 DEF ReadEvent, clientVars
    <2> QED
        BY <2>1, <2>2
<1>7. CASE Watch \/ Resume
    BY <1>0, <1>7 DEF Watch, Resume, clientVars, KnownOK
<1>8. CASE SendLine \/ Close \/ ServerEnd
    <2>1. InboxOK' /\ Len(inbox') = Len(inbox)
        BY <1>0, <1>8, LineShape, CloseShape
    <2>2. inbox' # <<>> => inbox # <<>>
        BY <1>0, <2>1, EmptySeq DEF InboxOK
    <2>3. inbox = <<>> => inbox' = <<>>
        BY <2>2
    <2>4. UNCHANGED <<cUp, ip, status, seen>>
        BY <1>8 DEF SendLine, Close, ServerEnd, clientVars
    <2>5. UNCHANGED <<buf, uAddr>> \/ (buf' = NoAddr /\ uAddr' = NoAddr)
        BY <1>8 DEF SendLine, Close, ServerEnd
    <2> QED
        BY <1>0, <2>2, <2>3, <2>4, <2>5, Constants DEF KnownOK
<1>9. CASE ClientEnd \/ ClientStart
    BY <1>0, <1>9 DEF ClientEnd, ClientStart, serverVars, KnownOK
<1> QED
    BY <1>1, <1>2, <1>3, <1>4, <1>5, <1>6, <1>7, <1>8, <1>9 DEF Next, SendIp, ReceiveLink, ReceiveIp,
       SendFileUser, Outside, Connect, ConnectFails, Send, Listen, UpdateList, ServerStart, vars,
       serverVars, clientVars
------------------------------------------------------------------------------
(* The lines of the list, from the server to the file. *)

\* Nothing of the list moves.
LEMMA ListStays ==
    ASSUME ListOK, UNCHANGED <<inbox, text, file, rPc, sending>>
    PROVE  ListOK'
<1>1. PrintedOK' /\ FileInOrder'
    BY DEF ListOK, PrintedOK, FileInOrder, UserConn
<1>2. \A i \in 1 .. Len(inbox') : ConnOK(i)'
    BY DEF ListOK, ConnOK, UserConn
<1> QED
    BY <1>1, <1>2 DEF ListOK

\* The first connection is over: what was printed is in the file, or is not.
LEMMA ListPops ==
    ASSUME ServiceInv, inbox # <<>>, inbox' = Tail(inbox), UNCHANGED <<uPc, text, sending>>, rPc' = "accept",
           rPc = "recv", file' = file \/ (file' = text /\ inbox[1].cells = <<>>)
    PROVE  ListOK'
<1>0. InboxOK /\ ListOK /\ PrintedOK
    BY DEF ServiceInv, ListOK
<1>1. /\ \A i \in 1 .. Len(inbox') : i + 1 \in 1 .. Len(inbox) /\ inbox'[i] = inbox[i + 1]
      /\ \A i \in UserConn' : i + 1 \in UserConn
    BY <1>0, PopShape
<1>2. ASSUME NEW i \in 1 .. Len(inbox') PROVE ConnOK(i)'
    <2>1. ConnOK(i + 1)
        BY <1>0, <1>1 DEF ListOK
    <2> QED
        BY <1>1, <2>1 DEF ConnOK
<1>3. PrintedOK'
    BY DEF PrintedOK
<1>4. FileInOrder'
    <2>1. CASE file' = file
        BY <1>0, <2>1 DEF ListOK, FileInOrder
    <2>2. CASE file' = text
        <3>1. inbox[1].kind \in {"ack", "user"}
            BY <1>0, FirstInbound, InboundAt
        <3>2. text = <<>> \/ (\E a \in Addr : text = <<a>>) \/ (text \in Seq(Line) /\ Rising(text))
            BY <1>0, <3>1 DEF PrintedOK
        <3>3. CASE text = <<>>
            BY <2>2, <3>3 DEF FileInOrder
        <3>4. CASE \E a \in Addr : text = <<a>>
            BY <2>2, <3>4 DEF FileInOrder
        <3>5. CASE text \in Seq(Line) /\ Rising(text)
            BY <2>2, <3>5 DEF FileInOrder, Rising
        <3> QED
            BY <3>2, <3>3, <3>4, <3>5
    <2> QED
        BY <2>1, <2>2
<1> QED
    BY <1>0, <1>2, <1>3, <1>4 DEF ListOK

\* A cell of the first connection is read, and printed or not.
LEMMA ListTakes ==
    ASSUME ServiceInv, rPc = "recv", inbox # <<>>, inbox[1].cells # <<>>, TakeCell,
           text' = text \/ text' = Append(text, FirstCell), FirstCell \in Line \cup Addr,
           UNCHANGED <<uPc, file, rPc, sending>>
    PROVE  ListOK'
<1>0. InboxOK /\ ListOK /\ PrintedOK /\ ConnOK(1)
    BY FirstInbound DEF ServiceInv, ListOK
<1>1. /\ Len(inbox') = Len(inbox) /\ UserConn' = UserConn
      /\ inbox'[1].kind = inbox[1].kind
      /\ inbox'[1].cells = Tail(inbox[1].cells)
      /\ \A i \in 1 .. Len(inbox) : i # 1 => inbox'[i] = inbox[i]
    BY <1>0, TakeShape
<1> DEFINE cells == inbox[1].cells
<1>2. /\ cells \in Seq(Line \cup Addr) /\ Len(cells) \in Nat \ {0} /\ FirstCell = cells[1]
      /\ inbox[1].kind \in {"ack", "user"}
    BY <1>0, FirstInbound, InboundAt, EmptySeq DEF FirstCell
<1>3. /\ Len(Tail(cells)) = Len(cells) - 1
      /\ \A j \in 1 .. Len(Tail(cells)) : Tail(cells)[j] = cells[j + 1] /\ j + 1 \in 1 .. Len(cells)
    BY <1>2, HeadTailProperties
<1>4. text' \in Seq(Line \cup Addr)
    BY <1>0 DEF ListOK
<1>5. ASSUME inbox[1].kind = "ack"
      PROVE  Tail(cells) = <<>> /\ (text' = <<>> \/ \E a \in Addr : text' = <<a>>)
    <2>1. PICK a \in Addr : cells = <<a>>
        BY <1>0, <1>5 DEF ConnOK
    <2>2. Tail(cells) = <<>> /\ FirstCell = a
        BY <2>1, <1>2
    <2>3. text = <<>>
        BY <1>0, <1>5 DEF PrintedOK
    <2>4. Append(<<>>, a) = <<a>>
        OBVIOUS
    <2> QED
        BY <2>2, <2>3, <2>4
<1>6. ASSUME inbox[1].kind = "user"
      PROVE  /\ Tail(cells) \in Seq(Line) /\ Rising(Tail(cells))
             /\ text' \in Seq(Line) /\ Rising(text')
             /\ \A i \in 1 .. Len(text'), j \in 1 .. Len(Tail(cells)) : Before(text'[i], Tail(cells)[j])
             /\ 1 \in UserConn =>
                   \A i \in 1 .. Len(text') : SentBefore(text'[i], sending)
    <2>1. /\ cells \in Seq(Line) /\ Rising(cells) /\ text \in Seq(Line) /\ Rising(text)
          /\ \A i \in 1 .. Len(text), j \in 1 .. Len(cells) : Before(text[i], cells[j])
        BY <1>0, <1>6 DEF ConnOK, PrintedOK
    <2>2. Tail(cells) \in Seq(Line) /\ cells[1] \in Line /\ 1 \in 1 .. Len(cells) /\ Len(text) \in Nat
        BY <2>1, <1>2, HeadTailProperties, ElementOfSeq
    <2>3. \A j \in 1 .. Len(Tail(cells)) : 1 < j + 1
        BY <1>2, <1>3
    <2>4. Rising(Tail(cells)) /\ \A j \in 1 .. Len(Tail(cells)) : Before(cells[1], Tail(cells)[j])
        <3>1. \A i, j \in 1 .. Len(Tail(cells)) : i < j => i + 1 < j + 1
            BY <1>2, <1>3
        <3> QED
            BY <2>1, <2>2, <2>3, <3>1, <1>3 DEF Rising
    <2>5. CASE text' = text
        BY <2>1, <2>2, <2>4, <2>5, <1>0, <1>3 DEF PrintedOK
    <2>6. CASE text' = Append(text, cells[1])
        <3>1. /\ text' \in Seq(Line) /\ Len(text') = Len(text) + 1
              /\ \A i \in 1 .. Len(text) : text'[i] = text[i]
              /\ text'[Len(text) + 1] = cells[1]
            BY <2>1, <2>2, <2>6, AppendProperties
        <3>2. \A i \in 1 .. Len(text') : i \in 1 .. Len(text) \/ i = Len(text) + 1
            BY <3>1, <2>2
        <3>3. \A i, j \in 1 .. Len(text') : i < j => i \in 1 .. Len(text)
            BY <3>1, <2>2
        <3>4. Rising(text')
            BY <2>1, <2>2, <3>1, <3>2, <3>3 DEF Rising
        <3>5. \A i \in 1 .. Len(text'), j \in 1 .. Len(Tail(cells)) : Before(text'[i], Tail(cells)[j])
            BY <2>1, <2>4, <3>1, <3>2, <1>3
        <3>6. 1 \in UserConn => SentBefore(cells[1], sending)
            BY <1>0, <2>2 DEF ConnOK
        <3>7. 1 \in UserConn =>
                  \A i \in 1 .. Len(text') : SentBefore(text'[i], sending)
            BY <3>1, <3>2, <3>6, <1>0 DEF PrintedOK
        <3> QED
            BY <2>2, <2>4, <3>1, <3>4, <3>5, <3>7
    <2> QED
        BY <2>5, <2>6, <1>2
<1>7. ASSUME NEW i \in 1 .. Len(inbox') PROVE ConnOK(i)'
    <2>1. CASE i # 1
        <3>1. ConnOK(i) /\ inbox'[i] = inbox[i]
            BY <1>0, <1>1, <2>1 DEF ListOK
        <3> QED
            BY <1>1, <3>1 DEF ConnOK
    <2>2. CASE i = 1
        <3>1. 1 \in UserConn => \A j \in 1 .. Len(Tail(cells)) :
                  SentBefore(Tail(cells)[j], sending)
            BY <1>0, <1>3 DEF ConnOK
        <3>2. ConnOK(1)'
            BY <1>1, <1>5, <1>6, <3>1 DEF ConnOK
        <3> QED
            BY <2>2, <3>2
    <2> QED
        BY <2>1, <2>2
<1>8. PrintedOK'
    <2>1. 1 \in UserConn => inbox[1].kind = "user"
        BY DEF UserConn
    <2> QED
        BY <1>1, <1>2, <1>5, <1>6, <2>1 DEF PrintedOK
<1>9. FileInOrder'
    BY <1>0 DEF ListOK, FileInOrder
<1> QED
    BY <1>0, <1>4, <1>7, <1>8, <1>9 DEF ListOK

\* A connection comes that holds an address, or nothing yet; the others stay as they are.
LEMMA ListPushes ==
    ASSUME ServiceInv, UNCHANGED <<text, file, rPc>>, Len(inbox') = Len(inbox) + 1,
           \A i \in 1 .. Len(inbox) : inbox'[i] = inbox[i],
           \/ /\ inbox'[Len(inbox) + 1].kind = "ack" /\ inbox'[Len(inbox) + 1].cells = <<ip>>
              /\ UserConn' = UserConn /\ sending' = sending
           \/ /\ inbox'[Len(inbox) + 1].kind = "user" /\ inbox'[Len(inbox) + 1].cells = <<>>
              /\ UserConn' = {Len(inbox) + 1}
    PROVE  ListOK'
<1>0. InboxOK /\ ListOK /\ PrintedOK /\ ClientOK /\ Len(inbox) \in Nat
    BY DEF ServiceInv, ListOK, InboxOK
<1>1. \A i \in 1 .. Len(inbox') : i \in 1 .. Len(inbox) \/ i = Len(inbox) + 1
    BY <1>0
<1>2. ASSUME NEW i \in 1 .. Len(inbox) PROVE ConnOK(i)'
    <2>1. ConnOK(i) /\ inbox'[i] = inbox[i]
        BY <1>0 DEF ListOK
    <2>2. i # Len(inbox) + 1
        BY <1>0
    <2> QED
        BY <2>1, <2>2 DEF ConnOK
<1>3. ASSUME NEW n, n = Len(inbox) + 1 PROVE ConnOK(n)'
    <2>1. n \notin UserConn
        BY <1>0, <1>3 DEF UserConn
    <2>2. CASE inbox'[n].kind = "ack" /\ inbox'[n].cells = <<ip>> /\ UserConn' = UserConn
        BY <2>1, <2>2, <1>0 DEF ConnOK, ClientOK
    <2>3. CASE inbox'[n].kind = "user" /\ inbox'[n].cells = <<>>
        <3>1. <<>> \in Seq(Line) /\ Len(<<>>) = 0
            OBVIOUS
        <3> QED
            BY <2>3, <3>1 DEF ConnOK, Rising
    <2> QED
        BY <1>3, <2>2, <2>3
<1>4. \A i \in 1 .. Len(inbox') : ConnOK(i)'
    BY <1>1, <1>2, <1>3
<1>5. PrintedOK'
    <2>1. CASE rPc = "recv"
        <3>1. 1 \in 1 .. Len(inbox) /\ 1 # Len(inbox) + 1
            BY <1>0, <2>1, FirstInbound DEF ClientOK
        <3>2. inbox'[1] = inbox[1] /\ (1 \in UserConn' => 1 \in UserConn /\ sending' = sending)
            BY <3>1
        <3> QED
            BY <1>0, <2>1, <3>2 DEF PrintedOK
    <2>2. CASE rPc # "recv"
        BY <2>2 DEF PrintedOK
    <2> QED
        BY <2>1, <2>2
<1>6. FileInOrder'
    BY <1>0 DEF ListOK, FileInOrder
<1> QED
    BY <1>0, <1>4, <1>5, <1>6 DEF ListOK

\* The next line of the list is sent.
LEMMA ListSends == ASSUME ServiceInv, SendLine PROVE ListOK'
<1>0. InboxOK /\ ListOK /\ PrintedOK /\ ClientOK /\ ServerOK
    BY DEF ServiceInv, ListOK
<1>1. /\ Len(inbox') = Len(inbox) /\ UserConn' = UserConn /\ sending' \in Line
      /\ \A i \in 1 .. Len(inbox) : i \notin UserConn => inbox'[i] = inbox[i]
      /\ \A i \in UserConn : /\ inbox'[i].kind = "user"
                             /\ inbox'[i].cells = Append(inbox[i].cells, sending')
    BY <1>0, LineShape
<1>2. UNCHANGED <<text, file, rPc>>
    BY DEF SendLine, clientVars
<1>3. /\ sending'[2] = sending[2] + 1 /\ sending[2] \in Nat
      /\ {sending[1], version} \subseteq Nat /\ sending[1] <= version
      /\ sending'[1] = IF sending[2] + 1 \in Refill THEN version ELSE sending[1]
    BY <1>0, Constants DEF SendLine, NextLine, ServerOK
<1>4. \A x \in Line : x[1] \in Nat /\ x[2] \in Nat
    BY Constants DEF Line
<1>5. ASSUME NEW x \in Line, SentBefore(x, sending)
      PROVE  Before(x, sending') /\ SentBefore(x, sending')
    <2>1. x[1] <= sending'[1] /\ x[2] < sending'[2]
        BY <1>3, <1>4, <1>5 DEF SentBefore
    <2>2. ASSUME OneBuffer(x, sending') PROVE x[1] = sending'[1]
        <3>1. sending'[2] \notin Refill
            BY <1>3, <2>1, <2>2 DEF OneBuffer
        <3>2. OneBuffer(x, sending)
            <4> SUFFICES ASSUME NEW l \in Refill, x[2] < l, l <= sending[2]
                         PROVE  FALSE
                BY DEF OneBuffer
            <4>1. l \in Nat
                BY Constants, ClientServerAssumption
            <4> QED
                BY <1>3, <2>2, <4>1 DEF OneBuffer
        <3> QED
            BY <1>3, <1>5, <3>1, <3>2 DEF SentBefore
    <2> QED
        BY <1>3, <1>4, <2>1, <2>2 DEF Before, SentBefore
<1>10. SentBefore(sending', sending')
    BY <1>1, <1>4 DEF SentBefore
<1>6. ASSUME NEW i \in UserConn
      PROVE  /\ inbox[i].cells \in Seq(Line) /\ Rising(inbox[i].cells)
             /\ Len(inbox[i].cells) \in Nat /\ i \in 1 .. Len(inbox) /\ inbox[i].kind = "user"
             /\ Len(inbox'[i].cells) = Len(inbox[i].cells) + 1
             /\ \A j \in 1 .. Len(inbox[i].cells) :
                    /\ inbox'[i].cells[j] = inbox[i].cells[j]
                    /\ inbox[i].cells[j] \in Line
                    /\ SentBefore(inbox[i].cells[j], sending)
             /\ inbox'[i].cells[Len(inbox[i].cells) + 1] = sending'
             /\ \A j \in 1 .. Len(inbox'[i].cells) :
                    j \in 1 .. Len(inbox[i].cells) \/ j = Len(inbox[i].cells) + 1
    <2>1. i \in 1 .. Len(inbox) /\ inbox[i].kind = "user"
        BY DEF UserConn
    <2>2. ConnOK(i)
        BY <1>0, <2>1 DEF ListOK
    <2>3. inbox[i].cells \in Seq(Line) /\ inbox'[i].cells = Append(inbox[i].cells, sending')
        BY <1>1, <2>1, <2>2 DEF ConnOK
    <2>4. /\ Len(inbox'[i].cells) = Len(inbox[i].cells) + 1 /\ Len(inbox[i].cells) \in Nat
          /\ \A j \in 1 .. Len(inbox[i].cells) : inbox'[i].cells[j] = inbox[i].cells[j]
          /\ inbox'[i].cells[Len(inbox[i].cells) + 1] = sending'
        BY <2>3, <1>1, AppendProperties
    <2>5. \A j \in 1 .. Len(inbox[i].cells) : inbox[i].cells[j] \in Line
        BY <2>3, ElementOfSeq
    <2> QED
        BY <2>1, <2>2, <2>3, <2>4, <2>5 DEF ConnOK
<1>7. ASSUME NEW i \in 1 .. Len(inbox') PROVE ConnOK(i)'
    <2>1. CASE i \notin UserConn
        <3>1. ConnOK(i) /\ inbox'[i] = inbox[i]
            BY <1>0, <1>1, <2>1 DEF ListOK
        <3> QED
            BY <1>1, <2>1, <3>1 DEF ConnOK
    <2>2. CASE i \in UserConn
        <3>1. inbox'[i].cells \in Seq(Line) /\ inbox'[i].kind = "user"
            <4>1. Append(inbox[i].cells, sending') \in Seq(Line)
                BY <1>1, <1>6, <2>2
            <4> QED
                BY <1>1, <2>2, <4>1
        <3>2. Rising(inbox'[i].cells)
            <4> SUFFICES ASSUME NEW j \in 1 .. Len(inbox'[i].cells), NEW k \in 1 .. Len(inbox'[i].cells), j < k
                         PROVE  Before(inbox'[i].cells[j], inbox'[i].cells[k])
                BY DEF Rising
            <4>1. j \in 1 .. Len(inbox[i].cells)
                BY <1>6, <2>2
            <4>2. CASE k \in 1 .. Len(inbox[i].cells)
                BY <4>1, <4>2, <1>6, <2>2 DEF Rising
            <4>3. CASE k = Len(inbox[i].cells) + 1
                BY <4>1, <4>3, <1>5, <1>6, <2>2
            <4> QED
                BY <4>2, <4>3, <1>6, <2>2
        <3>3. ASSUME NEW j \in 1 .. Len(inbox'[i].cells)
              PROVE  SentBefore(inbox'[i].cells[j], sending')
            <4> DEFINE x == inbox'[i].cells[j]
            <4>1. CASE j \in 1 .. Len(inbox[i].cells)
                <5>1. x \in Line /\ SentBefore(x, sending)
                    BY <4>1, <1>6, <2>2
                <5> HIDE DEF x
                <5>2. SentBefore(x, sending')
                    BY <5>1, <1>5
                <5> QED
                    BY <5>2 DEF x
            <4>2. CASE j = Len(inbox[i].cells) + 1
                <5>1. x = sending'
                    BY <4>2, <1>6, <2>2
                <5> QED
                    BY <5>1, <1>10
            <4> QED
                BY <4>1, <4>2, <1>6, <2>2
        <3> QED
            BY <3>1, <3>2, <3>3 DEF ConnOK
    <2> QED
        BY <2>1, <2>2
<1>8. PrintedOK'
    <2>1. CASE rPc # "recv"
        BY <1>2, <2>1 DEF PrintedOK
    <2>2. CASE rPc = "recv" /\ 1 \notin UserConn
        <3>1. inbox'[1] = inbox[1]
            BY <1>0, <1>1, <2>2, FirstInbound DEF ClientOK
        <3> QED
            BY <1>0, <1>1, <1>2, <2>2, <3>1 DEF PrintedOK
    <2>3. CASE rPc = "recv" /\ 1 \in UserConn
        <3>1. /\ text \in Seq(Line) /\ Rising(text)
              /\ \A i \in 1 .. Len(text), j \in 1 .. Len(inbox[1].cells) :
                     Before(text[i], inbox[1].cells[j])
              /\ \A i \in 1 .. Len(text) : SentBefore(text[i], sending)
            BY <1>0, <1>6, <2>3 DEF PrintedOK
        <3>2. \A i \in 1 .. Len(text) :
                  Before(text[i], sending') /\ SentBefore(text[i], sending')
            BY <3>1, <1>5, ElementOfSeq
        <3>3. \A i \in 1 .. Len(text), j \in 1 .. Len(inbox'[1].cells) : Before(text[i], inbox'[1].cells[j])
            BY <3>1, <3>2, <1>6, <2>3
        <3>4. inbox'[1].kind = "user"
            BY <1>1, <2>3
        <3> QED
            BY <1>2, <3>1, <3>2, <3>3, <3>4 DEF PrintedOK
    <2> QED
        BY <2>1, <2>2, <2>3
<1>9. FileInOrder'
    BY <1>0, <1>2 DEF ListOK, FileInOrder
<1> QED
    BY <1>0, <1>2, <1>7, <1>8, <1>9 DEF ListOK

\* Connections are closed.
LEMMA ListCloses ==
    ASSUME ServiceInv, UNCHANGED <<text, file, rPc>>, Len(inbox') = Len(inbox), UserConn' = {},
           \A i \in 1 .. Len(inbox) : inbox'[i].kind = inbox[i].kind /\ inbox'[i].cells = inbox[i].cells
    PROVE  ListOK'
<1>0. InboxOK /\ ListOK /\ PrintedOK /\ ClientOK
    BY DEF ServiceInv, ListOK
<1>1. ASSUME NEW i \in 1 .. Len(inbox') PROVE ConnOK(i)'
    <2>1. ConnOK(i)
        BY <1>0 DEF ListOK
    <2> QED
        BY <2>1 DEF ConnOK
<1>2. PrintedOK'
    <2>1. rPc = "recv" => 1 \in 1 .. Len(inbox)
        BY <1>0, FirstInbound DEF ClientOK
    <2> QED
        BY <1>0, <2>1 DEF PrintedOK
<1>3. FileInOrder'
    BY <1>0 DEF ListOK, FileInOrder
<1> QED
    BY <1>0, <1>1, <1>2, <1>3 DEF ListOK

LEMMA ListNext == ServiceInv /\ [Next]_vars => ListOK'
<1> SUFFICES ASSUME ServiceInv, [Next]_vars PROVE ListOK'
    OBVIOUS
<1>0. InboxOK /\ ListOK /\ ClientOK /\ ServerOK
    BY DEF ServiceInv
<1>1. CASE UNCHANGED <<inbox, text, file, rPc, sending>>
    BY <1>0, <1>1, ListStays
<1>2. CASE Listen \/ Accept
    <2>1. /\ UNCHANGED <<inbox, sending>> /\ (file' = file \/ file' = <<>>)
          /\ text' = text \/ text' = <<>>
          /\ rPc' # "recv" \/ text' = <<>>
        BY <1>2 DEF Listen, Accept, serverVars
    <2>2. \A i \in 1 .. Len(inbox') : ConnOK(i)'
        BY <1>0, <2>1 DEF ListOK, ConnOK, UserConn
    <2>3. PrintedOK'
        <3>1. Len(<<>>) = 0 /\ <<>> \in Seq(Line) /\ Rising(<<>>)
            BY DEF Rising
        <3> QED
            BY <2>1, <3>1 DEF PrintedOK
    <2>4. FileInOrder'
        <3>1. CASE file' = <<>>
            BY <3>1 DEF FileInOrder
        <3>2. CASE file' = file
            BY <1>0, <3>2 DEF ListOK, FileInOrder
        <3> QED
            BY <2>1, <3>1, <3>2
    <2>5. text' \in Seq(Line \cup Addr) /\ file' \in Seq(Line \cup Addr)
        <3>1. {<<>>, text, file} \subseteq Seq(Line \cup Addr)
            BY <1>0 DEF ListOK
        <3> QED
            BY <2>1, <3>1
    <2> QED
        BY <2>2, <2>3, <2>4, <2>5 DEF ListOK
<1>3. CASE RecvAck \/ RecvEnd
    BY <1>0, <1>3, ListPops DEF RecvAck, RecvEnd, serverVars, ClientOK
<1>4. CASE RecvAckMissed \/ RecvLine
    BY <1>0, <1>4, ListTakes DEF RecvAckMissed, RecvLine, serverVars, ClientOK
<1>5. CASE SendAck
    <2>1. CASE Reaches(buf)
        BY <1>0, <1>5, <2>1, AckShape, ListPushes DEF SendAck, clientVars
    <2>2. CASE ~Reaches(buf)
        BY <1>1, <1>5, <2>2 DEF SendAck, clientVars
    <2> QED
        BY <2>1, <2>2
<1>6. CASE ReadEvent
    <2>1. CASE Reaches(uAddr)
        BY <1>0, <1>6, <2>1, EventShape, ListPushes DEF ReadEvent, clientVars
    <2>2. CASE ~Reaches(uAddr)
        BY <1>1, <1>6, <2>2 DEF ReadEvent, clientVars
    <2> QED
        BY <2>1, <2>2
<1>7. CASE SendLine
    BY <1>7, ListSends
<1>8. CASE Close \/ ServerEnd
    BY <1>0, <1>8, CloseShape, ListCloses DEF Close, ServerEnd, clientVars
<1>9. CASE ClientEnd
    <2>1. Len(inbox') = 0 /\ text' = <<>> /\ file' = file /\ rPc' # "recv"
        BY <1>9 DEF ClientEnd
    <2>2. PrintedOK' /\ FileInOrder'
        BY <1>0, <2>1 DEF PrintedOK, FileInOrder, ListOK
    <2>3. <<>> \in Seq(Line \cup Addr) /\ file \in Seq(Line \cup Addr)
        BY <1>0 DEF ListOK
    <2>4. \A i \in 1 .. Len(inbox') : ConnOK(i)'
        BY <2>1
    <2> QED
        BY <2>1, <2>2, <2>3, <2>4 DEF ListOK
<1> QED
    BY <1>1, <1>2, <1>3, <1>4, <1>5, <1>6, <1>7, <1>8, <1>9 DEF Next, SendIp, ReceiveLink, ReceiveIp,
       SendFileUser, Outside, Connect, ConnectFails, Fail, Send, ReadIp, Watch, Resume, UpdateList,
       ClientStart, ServerStart, vars, serverVars, clientVars

LEMMA ServiceAlways == Spec => []ServiceInv
<1>1. ServiceInv /\ [Next]_vars => ServiceInv'
    BY ClientNext, ServerNext, StartsNext, QueueNext, InboxNext, KnownNext, ListNext DEF ServiceInv
<1> QED
    BY InvInit, <1>1, PTL DEF Spec

\* Every variable holds a value the code can give it, and the server has at most one list
\* under way, whatever ends and starts again in between.
THEOREM ServiceTypeCorrect == Spec => []TypeOK
BY ServiceAlways, InvType, PTL

\* The client takes its address for known only if the server has read it: though any
\* connection counts as the acknowledgement, nobody but a server that has read it connects.
THEOREM KnownToServer == Spec => []KnownWhenOk
BY ServiceAlways, InvType, PTL

\* FileInOrder of ClientServer for lists of any length and buffers of any size, however
\* the two programs end and start: FILE_PHONE_VS_NODE never holds lines out of order or
\* twice, and lines of two versions only where the buffer was filled between them.
THEOREM FileKeepsOrder == Spec => []FileInOrder
BY ServiceAlways, InvType, PTL

\* A list that fits the buffer is not mixed: if fgets fills it for the first line only, the
\* lines of FILE_PHONE_VS_NODE are of one version.
THEOREM ShortListOfOneVersion ==
    ASSUME Refill = {1}
    PROVE  Spec => [](file \in Seq(Line) =>
                          \A i, j \in 1 .. Len(file) : file[i][1] = file[j][1])
<1>1. ASSUME FileInOrder, file \in Seq(Line), NEW i \in 1 .. Len(file), NEW j \in 1 .. Len(file)
      PROVE  file[i][1] = file[j][1]
    <2>1. \A k \in 1 .. Len(file) : file[k] \in Line
        BY <1>1, ElementOfSeq
    <2>2. \A x, y \in Line : OneBuffer(x, y)
        BY DEF OneBuffer, Line
    <2>3. ASSUME NEW k \in 1 .. Len(file), NEW l \in 1 .. Len(file), k < l
          PROVE  file[k][1] = file[l][1]
        <3>1. CASE \E a \in Addr : file = <<a>>
            BY <2>3, <3>1
        <3>2. CASE Before(file[k], file[l])
            BY <2>1, <2>2, <3>2 DEF Before
        <3> QED
            BY <1>1, <2>3, <3>1, <3>2 DEF FileInOrder
    <2>4. i < j \/ j < i \/ i = j
        BY <1>1
    <2> QED
        BY <2>3, <2>4
<1>2. FileInOrder => (file \in Seq(Line) => \A i, j \in 1 .. Len(file) : file[i][1] = file[j][1])
    BY <1>1
<1> QED
    BY <1>2, FileKeepsOrder, PTL
================================================================================
