----------------------------- MODULE ClientServer -----------------------------
(***************************************************************************)
(* client_SMGW.c on the gateway and server_Laptop.c.                       *)
(*                                                                         *)
(*   - sock_send_ip sends the gateway's address until it is acknowledged;  *)
(*   - sock_receive_ip stores it and sends it back as acknowledgement;     *)
(*   - sock_send_file_user sends the list of users whenever it is changed; *)
(*   - sock_receive_link accepts acknowledgements and lists on one port.   *)
(*                                                                         *)
(* Either process may die at any time and is started again, the client     *)
(* perhaps with another address. Connections are modelled as far as the    *)
(* two programs tell what happens to them apart.                           *)
(***************************************************************************)
EXTENDS Integers, Sequences

CONSTANTS
    Addr,       \* addresses the client may have
    Short,      \* those written with fewer characters than the others
    NoAddr,     \* ipReceived = NULL, or no data
    Garbled,    \* a short address followed by the rest of a long one
    Lines,      \* lines of a list of users
    Refill,     \* the lines before which fgets fills the stream's buffer from the file
    MaxVersion, \* bound: versions of the list
    MaxStart,   \* bound: starts of each program, the last of which does not end
    MaxQueue    \* connections that wait to be accepted, 10 in the code

ASSUME ClientServerAssumption ==
    /\ Short \subseteq Addr /\ NoAddr \notin Addr /\ Garbled \notin Addr /\ NoAddr # Garbled
    /\ Refill \subseteq 1 .. Lines /\ 1 \in Refill
    /\ {Lines, MaxVersion, MaxStart, MaxQueue} \subseteq Nat \ {0}

VARIABLES
    cUp,     \* client: "yes" while it runs
    ip,      \* client: gIpAddr
    status,  \* client: gSendIpStatus
    flag,    \* client: flag_send_ip
    sPc,     \* client: where sock_send_ip is
    sSock,   \* client: its socket, "used" once it is connected and kept
    rPc,     \* client: where sock_receive_link is
    text,    \* client: what write_file has printed to fp
    skew,    \* client: "yes" if a line came in two parts
    file,    \* FILE_PHONE_VS_NODE
    sUp,     \* server: "yes" while it runs
    buf,     \* server: ipReceived
    rflag,   \* server: flag_receive_ip
    aPc,     \* server: where sock_receive_ip is
    uPc,     \* server: where sock_send_file_user is
    uAddr,   \* server: its serverAddr
    sending, \* server: the version its buffer is filled from, and the lines it has sent
    event,   \* server: an inotify event is waiting
    version, \* FILE_USER
    ipQ,     \* connections to PORT_IP; the head is the one being read
    inbox,   \* connections to port 7001; the head is the one being read
    seen,    \* history: addresses the server has read
    starts   \* number of starts of each program

clientVars == <<cUp, ip, status, flag, sPc, sSock, rPc, text, skew>>
serverVars == <<sUp, buf, rflag, aPc, uPc, uAddr, sending, event>>
vars == <<clientVars, file, serverVars, version, ipQ, inbox, seen, starts>>

List(v) == [i \in 1 .. Lines |-> <<v, i>>]
Line    == (1 .. MaxVersion) \X (1 .. Lines)
IpConn  == [data : Addr \cup {NoAddr}, open : {"yes", "no"}]
Inbound == [kind : {"ack", "user"}, cells : Seq(Line \cup Addr), open : {"yes", "no"}]

Init ==
    /\ cUp = "no" /\ ip \in Addr /\ status = "FAILED" /\ flag = "nth"
    /\ sPc = "connect" /\ sSock = "new" /\ rPc = "start" /\ text = <<>> /\ skew = "no"
    /\ file = <<>>
    /\ sUp = "no" /\ buf = NoAddr /\ rflag = "no" /\ aPc = "read" /\ uPc = "wait"
    /\ uAddr = NoAddr /\ sending = <<1, 0>> /\ event = "no" /\ version = 1
    /\ ipQ = <<>> /\ inbox = <<>> /\ seen = {}
    /\ starts = [client |-> 0, server |-> 0]
------------------------------------------------------------------------------
(* sock_send_ip. *)

\* Variation: the acknowledgement is not looked at after the first time.
ConnectOnce ==
    /\ cUp = "yes" /\ sUp = "yes" /\ sPc = "connect" /\ sSock = "new" /\ Len(ipQ) < MaxQueue
    /\ ipQ' = Append(ipQ, [data |-> NoAddr, open |-> "yes"])
    /\ IF flag = "nth" THEN sSock' = "used" /\ UNCHANGED sPc
       ELSE sPc' = "fail" /\ UNCHANGED sSock
    /\ flag' = "nth"
    /\ UNCHANGED <<cUp, ip, status, rPc, text, skew, file, serverVars, version, inbox, seen, starts>>

\* connect, and the test. Once the address is acknowledged the socket stays connected,
\* and every later connect fails. The first test reads flag_send_ip without a value.
Connect ==
    /\ cUp = "yes" /\ sUp = "yes" /\ sPc = "connect" /\ sSock = "new" /\ Len(ipQ) < MaxQueue
    /\ ipQ' = Append(ipQ, [data |-> NoAddr, open |-> "yes"])
    /\ IF flag = "nth" /\ status = "OK" THEN sSock' = "used" /\ UNCHANGED sPc
       ELSE sPc' = "fail" /\ UNCHANGED sSock
    /\ flag' = "nth"
    /\ UNCHANGED <<cUp, ip, status, rPc, text, skew, file, serverVars, version, inbox, seen, starts>>

\* Variation: a connect that succeeds is an address sent.
FailTrusts ==
    /\ cUp = "yes" /\ sPc = "fail"
    /\ status' = "OK" /\ sPc' = "send"
    /\ UNCHANGED <<cUp, ip, flag, sSock, rPc, text, skew, file, serverVars, version, ipQ, inbox, seen,
                   starts>>

\* gSendIpStatus is reset; an acknowledgement that comes now sets it before the write.
Fail ==
    /\ cUp = "yes" /\ sPc = "fail"
    /\ status' = "FAILED" /\ sPc' = "send"
    /\ UNCHANGED <<cUp, ip, flag, sSock, rPc, text, skew, file, serverVars, version, ipQ, inbox, seen,
                   starts>>

\* The address is written, and a new socket is made; the old one is not closed. If the
\* server has died since the connect, the write is lost.
Send ==
    /\ cUp = "yes" /\ sPc = "send"
    /\ ipQ' = IF ipQ = <<>> THEN ipQ ELSE [ipQ EXCEPT ![Len(ipQ)].data = ip]
    /\ sPc' = "connect"
    /\ UNCHANGED <<cUp, ip, status, flag, sSock, rPc, text, skew, file, serverVars, version, inbox,
                   seen, starts>>
------------------------------------------------------------------------------
(* sock_receive_link and write_file. *)

Listen ==
    /\ cUp = "yes" /\ rPc = "start"
    /\ rPc' = "accept"
    /\ UNCHANGED <<cUp, ip, status, flag, sPc, sSock, text, skew, file, serverVars, version, ipQ, inbox,
                   seen, starts>>

\* Variation: the file is opened to append.
AcceptAppends ==
    /\ cUp = "yes" /\ rPc = "accept" /\ inbox # <<>>
    /\ status' = "OK" /\ text' = file /\ skew' = "no"
    /\ rPc' = "recv"
    /\ UNCHANGED <<cUp, ip, flag, sPc, sSock, file, serverVars, version, ipQ, inbox, seen, starts>>

\* Any connection counts as an acknowledgement, and empties the file.
Accept ==
    /\ cUp = "yes" /\ rPc = "accept" /\ inbox # <<>>
    /\ status' = "OK" /\ file' = <<>> /\ text' = <<>> /\ skew' = "no"
    /\ rPc' = "recv"
    /\ UNCHANGED <<cUp, ip, flag, sPc, sSock, serverVars, version, ipQ, inbox, seen, starts>>

FirstCell == Head(inbox[1].cells)
TakeCell  == inbox' = [inbox EXCEPT ![1].cells = Tail(@)]

\* The acknowledgement is recognised: neither fp nor the socket is closed.
RecvAck ==
    /\ cUp = "yes" /\ rPc = "recv" /\ inbox[1].cells # <<>> /\ FirstCell = ip
    /\ status' = "OK" /\ rPc' = "accept" /\ inbox' = Tail(inbox)
    /\ UNCHANGED <<cUp, ip, flag, sPc, sSock, text, skew, file, serverVars, version, ipQ, seen, starts>>

\* It is not, for what the buffer held behind it: it has no end, and the buffer no value
\* before. It goes to the file, and recv waits for a server that does not close.
RecvAckMissed ==
    /\ cUp = "yes" /\ rPc = "recv" /\ inbox[1].cells # <<>> /\ FirstCell \in Addr
    /\ text' = Append(text, FirstCell) /\ TakeCell
    /\ UNCHANGED <<cUp, ip, status, flag, sPc, sSock, rPc, skew, file, serverVars, version, ipQ, seen,
                   starts>>

\* A line, padded with zeros to SIZE. If it comes in two parts, the parts that
\* follow begin with the padding and are printed as nothing, or begin with text.
RecvLine ==
    /\ cUp = "yes" /\ rPc = "recv" /\ inbox[1].cells # <<>> /\ FirstCell \in Line
    /\ TakeCell
    /\ \/ text' = Append(text, FirstCell) /\ skew' \in {skew, "yes"}
       \/ skew = "yes" /\ UNCHANGED <<text, skew>>
    /\ UNCHANGED <<cUp, ip, status, flag, sPc, sSock, rPc, file, serverVars, version, ipQ, seen, starts>>

\* recv returns 0, and fclose writes what was printed.
RecvEnd ==
    /\ cUp = "yes" /\ rPc = "recv" /\ inbox[1].cells = <<>> /\ inbox[1].open = "no"
    /\ file' = text /\ rPc' = "accept" /\ inbox' = Tail(inbox)
    /\ UNCHANGED <<cUp, ip, status, flag, sPc, sSock, text, skew, serverVars, version, ipQ, seen, starts>>

\* The connect fails, and is tried again at once.
ConnectFails ==
    /\ cUp = "yes" /\ sPc = "connect" 
    /\ sUp = "no" \/ sSock = "used" \/ Len(ipQ) = MaxQueue
    /\ UNCHANGED vars

SendIp      == Connect \/ ConnectFails \/ Fail \/ Send
ReceiveLink == Listen \/ Accept \/ RecvAck \/ RecvAckMissed \/ RecvLine \/ RecvEnd
------------------------------------------------------------------------------
(* sock_receive_ip. *)

\* A connect to port 7001 of address a succeeds.
Reaches(a) == cUp = "yes" /\ ip = a /\ rPc # "start" /\ Len(inbox) < MaxQueue

\* What the buffer holds after address d was read over it: it is not cleared.
Overlay(d) == IF d \in Short /\ buf \notin Short \cup {NoAddr} THEN Garbled ELSE d

\* accept and read. A connection without data is waited for until its client dies.
ReadIp ==
    /\ sUp = "yes" /\ aPc = "read" /\ ipQ # <<>>
    /\ \/ /\ ipQ[1].data # NoAddr
          /\ buf' = Overlay(ipQ[1].data) /\ seen' = seen \cup {ipQ[1].data}
          /\ rflag' = "yes"
       \/ /\ ipQ[1].data = NoAddr /\ ipQ[1].open = "no"
          /\ UNCHANGED <<buf, rflag, seen>>
    /\ aPc' = IF rflag' = "yes" THEN "ack" ELSE "read"
    /\ ipQ' = Tail(ipQ)
    /\ UNCHANGED <<clientVars, file, sUp, uPc, uAddr, sending, event, version, inbox, starts>>

\* The acknowledgement; if it cannot be sent flag_receive_ip stays for the next connection.
SendAck ==
    /\ sUp = "yes" /\ aPc = "ack"
    /\ aPc' = "read"
    /\ IF Reaches(buf)
       THEN /\ inbox' = Append(inbox, [kind |-> "ack", cells |-> <<buf>>, open |-> "yes"])
            /\ rflag' = "no"
       ELSE UNCHANGED <<inbox, rflag>>
    /\ UNCHANGED <<clientVars, file, sUp, buf, uPc, uAddr, sending, event, version, ipQ, seen, starts>>

ReceiveIp == ReadIp \/ SendAck
------------------------------------------------------------------------------
(* sock_send_file_user. *)

\* The first address has come: the file is watched from now on.
Watch ==
    /\ sUp = "yes" /\ uPc = "wait" /\ buf # NoAddr
    /\ uAddr' = buf /\ uPc' = "idle" /\ event' = "no"
    /\ UNCHANGED <<clientVars, file, sUp, buf, rflag, aPc, sending, version, ipQ, inbox, seen, starts>>

\* An event; without a connection it is gone. FILE_USER is opened.
ReadEvent ==
    /\ sUp = "yes" /\ uPc = "idle" /\ event = "yes"
    /\ event' = "no"
    /\ IF Reaches(uAddr)
       THEN /\ inbox' = Append(inbox, [kind |-> "user", cells |-> <<>>, open |-> "yes"])
            /\ sending' = <<version, 0>> /\ uPc' = "send"
       ELSE UNCHANGED <<inbox, sending, uPc>>
    /\ UNCHANGED <<clientVars, file, sUp, buf, rflag, aPc, uAddr, version, ipQ, seen, starts>>

\* The connection a list is being sent on, if the client still has it.
UserConn == {i \in 1 .. Len(inbox) : inbox[i].kind = "user" /\ inbox[i].open = "yes"}

\* fgets takes a line from the buffer, or from FILE_USER as it is by now: a tenth of a
\* second passes with every line, and the list may be written meanwhile.
NextLine ==
    LET l == sending[2] + 1
    IN  <<IF l \in Refill THEN version ELSE sending[1], l>>

SendLine ==
    /\ sUp = "yes" /\ uPc = "send" /\ sending[2] < Lines
    /\ sending' = NextLine
    /\ inbox' = [i \in 1 .. Len(inbox) |-> IF i \notin UserConn THEN inbox[i] ELSE
                     [inbox[i] EXCEPT !.cells = Append(@, sending')]]
    /\ UNCHANGED <<clientVars, file, sUp, buf, rflag, aPc, uPc, uAddr, event, version, ipQ, seen, starts>>

\* Variation: the socket is left open, as that of an acknowledgement is.
CloseNot ==
    /\ sUp = "yes" /\ uPc = "send" /\ sending[2] = Lines
    /\ uPc' = "pause" /\ UNCHANGED inbox
    /\ UNCHANGED <<clientVars, file, sUp, buf, rflag, aPc, uAddr, sending, event, version, ipQ, seen,
                   starts>>

Close ==
    /\ sUp = "yes" /\ uPc = "send" /\ sending[2] = Lines
    /\ uPc' = "pause"
    /\ inbox' = [i \in 1 .. Len(inbox) |-> IF i \notin UserConn THEN inbox[i] ELSE
                     [inbox[i] EXCEPT !.open = "no"]]
    /\ UNCHANGED <<clientVars, file, sUp, buf, rflag, aPc, uAddr, sending, event, version, ipQ, seen,
                   starts>>

\* Variation: the file is watched anew for each list.
ResumeAnew ==
    /\ sUp = "yes" /\ uPc = "pause"
    /\ uAddr' = buf /\ uPc' = "idle" /\ event' = "no"
    /\ UNCHANGED <<clientVars, file, sUp, buf, rflag, aPc, sending, version, ipQ, inbox, seen, starts>>

\* Five seconds later serverAddr is set again, and only then.
Resume ==
    /\ sUp = "yes" /\ uPc = "pause"
    /\ uAddr' = buf /\ uPc' = "idle"
    /\ UNCHANGED <<clientVars, file, sUp, buf, rflag, aPc, sending, event, version, ipQ, inbox, seen,
                   starts>>

SendFileUser == Watch \/ ReadEvent \/ SendLine \/ Close \/ Resume
------------------------------------------------------------------------------
(* What comes from outside: a new list, ends and starts of the programs. *)

\* FILE_USER has a new version and FLIE_LINK is closed, seen if it is being watched.
UpdateList ==
    /\ version < MaxVersion
    /\ version' = version + 1
    /\ event' = IF sUp = "yes" /\ uPc # "wait" THEN "yes" ELSE event
    /\ UNCHANGED <<clientVars, file, sUp, buf, rflag, aPc, uPc, uAddr, sending, ipQ, inbox, seen, starts>>

\* What was printed and not closed is lost, connections are closed.
ClientEnd ==
    /\ cUp = "yes" /\ starts.client < MaxStart
    /\ cUp' = "no" /\ status' = "FAILED" /\ sPc' = "connect" /\ sSock' = "new" /\ rPc' = "start"
    /\ text' = <<>> /\ skew' = "no" /\ inbox' = <<>>
    /\ ipQ' = [i \in 1 .. Len(ipQ) |-> [ipQ[i] EXCEPT !.open = "no"]]
    /\ UNCHANGED <<ip, flag, file, serverVars, version, seen, starts>>

ClientStart ==
    /\ cUp = "no"
    /\ cUp' = "yes" /\ ip' \in Addr /\ flag' \in {"first", "nth"}
    /\ starts' = [starts EXCEPT !.client = @ + 1]
    /\ UNCHANGED <<status, sPc, sSock, rPc, text, skew, file, serverVars, version, ipQ, inbox, seen>>

\* The server is ended, or ends itself: by the signal for a line sent to a client that
\* is gone, or by the exit behind a failed send.
ServerEnd ==
    /\ sUp = "yes" /\ starts.server < MaxStart
    /\ sUp' = "no" /\ buf' = NoAddr /\ rflag' = "no" /\ aPc' = "read" /\ uPc' = "wait"
    /\ uAddr' = NoAddr /\ sending' = <<1, 0>> /\ event' = "no" /\ ipQ' = <<>>
    /\ inbox' = [i \in 1 .. Len(inbox) |-> [inbox[i] EXCEPT !.open = "no"]]
    /\ UNCHANGED <<clientVars, file, version, seen, starts>>

ServerStart ==
    /\ sUp = "no"
    /\ sUp' = "yes"
    /\ starts' = [starts EXCEPT !.server = @ + 1]
    /\ UNCHANGED <<clientVars, file, buf, rflag, aPc, uPc, uAddr, sending, event, version, ipQ, inbox, seen>>

Outside == UpdateList \/ ClientEnd \/ ClientStart \/ ServerEnd \/ ServerStart

Next == SendIp \/ ReceiveLink \/ ReceiveIp \/ SendFileUser \/ Outside

Spec == Init /\ [][Next]_vars

\* Each thread is scheduled; nothing is assumed of what comes from outside.
FairSpec == /\ Spec
            /\ WF_vars(SendIp) /\ WF_vars(ReceiveLink)
            /\ WF_vars(ReceiveIp) /\ WF_vars(SendFileUser)
------------------------------------------------------------------------------
(* Properties. *)

\* Every variable holds a value the code can give it, and the server has at most one
\* list under way.
TypeOK ==
    /\ {cUp, sUp, rflag, event, skew} \subseteq {"yes", "no"}
    /\ ip \in Addr /\ status \in {"OK", "FAILED"} /\ flag \in {"first", "nth"}
    /\ sPc \in {"connect", "fail", "send"} /\ sSock \in {"new", "used"}
    /\ rPc \in {"start", "accept", "recv"} /\ (rPc = "recv" => inbox # <<>>)
    /\ {text, file} \subseteq Seq(Line \cup Addr)
    /\ {buf, uAddr} \subseteq Addr \cup {NoAddr, Garbled}
    /\ aPc \in {"read", "ack"} /\ uPc \in {"wait", "idle", "send", "pause"}
    /\ version \in 1 .. MaxVersion /\ sending \in (1 .. MaxVersion) \X (0 .. Lines)
    /\ ipQ \in Seq(IpConn) /\ Len(ipQ) <= MaxQueue
    /\ inbox \in Seq(Inbound) /\ Len(inbox) <= MaxQueue
    /\ \A i, j \in UserConn : i = j
    /\ seen \subseteq Addr /\ {starts.client, starts.server} \subseteq 0 .. MaxStart

\* The client takes its address for known only if the server has read it, although it takes
\* any connection for the acknowledgement.
KnownWhenOk == status = "OK" => ip \in seen

\* The file holds lines in their order and each once, later ones of no older version, and
\* of one version where the server had them from one buffer; or it holds an
\* acknowledgement that was not recognised. A list that came in parts may lack lines, and
\* one that was written while it was sent may be of two versions.
OneBuffer(x, y) == \A l \in Refill : ~(x[2] < l /\ l <= y[2])
Before(x, y)    == x[2] < y[2] /\ x[1] <= y[1] /\ (OneBuffer(x, y) => x[1] = y[1])
FileInOrder ==
    \/ \E a \in Addr : file = <<a>>
    \/ /\ file \in Seq(Line)
       /\ \A i, j \in 1 .. Len(file) : i < j => Before(file[i], file[j])

\* recv waits for the end of an acknowledgement that was not recognised.
Stuck == rPc = "recv" /\ inbox[1].kind = "ack" /\ inbox[1].cells = <<>>
BothUp == cUp = "yes" /\ sUp = "yes"

\* A client that has not been acknowledged is, while both programs run, unless its address
\* was read over a longer one or an acknowledgement was missed.
Acknowledged ==
    BothUp /\ status = "FAILED" ~> status = "OK" \/ ~BothUp \/ buf = Garbled \/ Stuck

\* The address is known to both threads of the server and no acknowledgement is on its way.
Settled ==
    /\ BothUp /\ buf = ip /\ uAddr = ip /\ rflag = "no" /\ status = "OK"
    /\ sPc = "connect" /\ flag = "nth" /\ rPc # "start"
    /\ \A i \in 1 .. Len(ipQ) : ipQ[i].data = NoAddr
    /\ \A i \in 1 .. Len(inbox) : inbox[i].kind = "user"

\* Then a new list arrives, also one that is made while another is being sent, unless a
\* program ends or a line comes in two parts.
ListArrives ==
    event = "yes" /\ Settled /\ skew = "no"
        ~> file = List(version) \/ ~Settled \/ skew = "yes"
==============================================================================
